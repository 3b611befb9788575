-------------------------- MODULE MCFieldValidation --------------------------
(* Times 1 to 2 of the query, a header, and in the body a field with two   *)
(* rules and one in an object.                                             *)
EXTENDS FieldValidation, TLC

At(l, p) == [location |-> l, path |-> p]

MCFieldRules ==
    (At("query", <<1>>) :> <<"localDateTime">>) @@ (At("query", <<2>>) :> <<"localDateTime">>)
    @@ (At("header", <<1>>) :> <<"notBlank">>)
    @@ (At("body", <<1>>) :> <<"notBlank", "containsLetterAndDigit">>)
    @@ (At("body", <<2, 1>>) :> <<"notBlank">>)

MCRanges == <<[left |-> 1, right |-> 2]>>

String(blank, strong, time, padded) ==
    [blank |-> blank, strong |-> strong, time |-> time, padded |-> padded]

\* " ", "abc", "2026-01-01T00:00:00", a later one, and that with a space.
MCStrings == {String(TRUE, FALSE, NoTime, TRUE), String(FALSE, FALSE, NoTime, FALSE),
              String(FALSE, TRUE, 1, FALSE), String(FALSE, TRUE, 2, FALSE),
              String(FALSE, TRUE, 2, TRUE)}
=============================================================================
