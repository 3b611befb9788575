------------------------ MODULE MCValidationCatalog ------------------------
(* Contracts of a root schema R and a schema A that may contain each other *)
(* and themselves, through allOf and properties 1 and 2, with leaves S (a  *)
(* string of a minimal length) and P (with an extension of its own).       *)
EXTENDS ValidationCatalog, TLC

Ext(ms, notBlank, rules) == [ok |-> TRUE, messages |-> ms, notBlank |-> notBlank, rules |-> rules]
Native == [minLength |-> "t", required |-> "t"]
Letter == <<[name |-> "containsLetterAndDigit", text |-> "t"]>>

Plain == Ext(Native, FALSE, <<>>)
NotBlank == Ext(Native @@ [notBlank |-> "t"], TRUE, <<>>)
Strong == Ext(Native, FALSE, Letter)
OtherText == Ext([minLength |-> "u", required |-> "t"], FALSE, <<>>)
NoLength == Ext([required |-> "t"], FALSE, <<>>)
Malformed == [ok |-> FALSE, messages |-> <<>>, notBlank |-> FALSE, rules |-> <<>>]

Schema(allOf, props, required) ==
    [allOf |-> allOf, props |-> props, required |-> required, native |-> {}, ext |-> NoExt]

Refs(tos, exts) == [to : tos, ext : exts]
Edges == Refs({"R", "A", "P"}, {NoExt})
         \cup Refs({"S"}, {NoExt, Plain, NotBlank, Strong, OtherText, NoLength, Malformed})

RootProps == [{1} -> Edges] \cup [{1, 2} -> Edges]
PartProps == {<<>>} \cup [{1} -> Edges]

Parameter(ext) == [ext |-> ext, native |-> {"minLength"}, required |-> TRUE]
Query == [location |-> "query", name |-> 1]
Path == [location |-> "path", name |-> 1]

OpExt(ok, text) == [ok |-> ok, messages |-> [minLength |-> text], cross |-> <<"range">>]
Operation(id, ext, item, own, roots) ==
    [id |-> id, ext |-> ext, itemParams |-> item, params |-> own, bodies |-> roots]

OperationLists == {
    <<Operation("o1", NoExt, <<>>, <<>>, <<"R">>)>>,
    <<Operation("o1", OpExt(TRUE, "o"), (Query :> Parameter(Malformed)) @@ (Path :> Parameter(Plain)),
                Query :> Parameter(Strong), <<"R">>),
      Operation("o2", NoExt, <<>>, <<>>, <<"A", "R">>)>>,
    <<Operation(NoId, NoExt, <<>>, <<>>, <<"R">>)>>,
    <<Operation("o1", OpExt(FALSE, "o"), <<>>, <<>>, <<"R">>)>>,
    <<Operation("o1", OpExt(TRUE, "o"), <<>>, <<>>, <<>>),
      Operation("o1", OpExt(TRUE, "p"), <<>>, <<>>, <<"R">>)>>,
    <<Operation("o1", NoExt, <<>>, Query :> Parameter(NoLength), <<"R">>)>>}

MCContracts ==
    {[ops |-> ops,
      schemas |-> [R |-> Schema(ra, rp, req), A |-> Schema(aa, ap, {1}),
                   S |-> [Schema(<<>>, <<>>, {}) EXCEPT !.native = {"minLength"}],
                   P |-> [Schema(<<>>, <<>>, {}) EXCEPT !.ext = NotBlank]]]
        : ops \in OperationLists, ra \in {<<>>, <<"A">>}, rp \in RootProps, req \in {{}, {1}},
          aa \in {<<>>, <<"R">>}, ap \in PartProps}
=============================================================================
