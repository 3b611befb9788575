--------------------------- MODULE FieldValidation ---------------------------
(***************************************************************************)
(* A request with the schema behind it meets the rules the catalog has for *)
(* its operation (validateCustomRules), and what passes meets the handler  *)
(* of the admin list, which parses the times once more                     *)
(* (parseAdminUserListQuery).  The catalog keeps its fields in a Go map:   *)
(* they come in any order and are sorted.                                  *)
(*                                                                         *)
(* No name here is one of ValidationCatalog, so that both can be extended. *)
(*                                                                         *)
(* A string is what the rules can tell of it: blank, strong (an ASCII      *)
(* letter and an ASCII digit), the time it denotes once trimmed (or        *)
(* NoTime), and whether trimming changes it.                               *)
(***************************************************************************)
EXTENDS Integers, Sequences, FiniteSets

CONSTANTS
    FieldRules,   \* catalog: from fields [location, path] to sequences of rules
    Ranges,       \* catalog: crossFields, a sequence of [left, right], names in the query
    Strings,      \* the strings a client may send
    NoTime, Absent

LocationOrder == [body |-> 0, query |-> 1, path |-> 2, header |-> 3, cookie |-> 4]
Rules == {"notBlank", "containsLetterAndDigit", "localDateTime"}
RuleFields == DOMAIN FieldRules

\* compileField keeps a field only with rules, parseNamedValidationRules
\* refuses a rule that is named twice.
ASSUME CatalogAssumption ==
    /\ IsFiniteSet(RuleFields)
    /\ RuleFields \subseteq [location : DOMAIN LocationOrder, path : Seq(Nat) \ {<<>>}]
    /\ \A f \in RuleFields : /\ f.location # "body" => Len(f.path) = 1
                             /\ FieldRules[f] \in Seq(Rules) \ {<<>>}
                             /\ \A i, j \in DOMAIN FieldRules[f] :
                                  FieldRules[f][i] = FieldRules[f][j] => i = j

ASSUME StringsAssumption ==
    /\ \A s \in Strings : /\ s.blank \in BOOLEAN /\ s.strong \in BOOLEAN /\ s.padded \in BOOLEAN
                          /\ s.time \in Int \cup {NoTime}
                          /\ s.blank => s.time = NoTime
    /\ NoTime \notin Int
    /\ Absent \notin Strings \cup RuleFields

Query(name) == [location |-> "query", path |-> <<name>>]

\* The ends of the ranges, which parseTimeParam parses.
Times == {Query(Ranges[i].left) : i \in DOMAIN Ranges} \cup {Query(Ranges[i].right) : i \in DOMAIN Ranges}

\* The contract gives both ends of every range the rule localDateTime
\* (api/openapi/eventhub.yaml:154-270).
ASSUME RangesAssumption ==
    /\ Ranges \in Seq([left : Nat, right : Nat])
    /\ \A f \in Times : f \in RuleFields /\ \E i \in DOMAIN FieldRules[f] : FieldRules[f][i] = "localDateTime"

VARIABLES
    value,       \* of each field of the request: a string, or none that is read
    stage,
    todo,        \* fields that have not come up yet
    field,       \* the field whose rules are being run, Absent between fields
    checked,     \* how many of its rules have been run
    crossed,     \* how many crossFieldRules have been run
    violations,
    answer       \* the message of the envelope, "none" before

ruleVars == <<value, stage, todo, field, checked, crossed, violations, answer>>

-----------------------------------------------------------------------------
\* A request.  stringValue reads the first value of a query parameter or
\* header, bodyString a string if every step of the path is an object;
\* everything else counts as absent.  Requests share nothing, so one is
\* enough.
RulesInit ==
    /\ value \in [RuleFields -> Strings \cup {Absent}]
    /\ stage = "rules" /\ answer = "none"
    /\ todo = RuleFields /\ field = Absent /\ checked = 0 /\ crossed = 0
    /\ violations = <<>>

\* The code compares the joined paths byte by byte.  Here the names are compared
\* one after the other, in the order of the numbers; that is the same order when
\* no name has a dot or a character that sorts before it.
PathLess(p, q) ==
    \/ \E i \in DOMAIN p \cap DOMAIN q : p[i] < q[i] /\ \A j \in 1..(i - 1) : p[j] = q[j]
    \/ Len(p) < Len(q) /\ \A j \in DOMAIN p : p[j] = q[j]

\* Mutant: fields of one location are left in the order of the map.
FieldLessByLocation(f, g) == LocationOrder[f.location] < LocationOrder[g.location]

\* The comparison sort.Slice is given.
FieldLess(f, g) ==
    \/ LocationOrder[f.location] < LocationOrder[g.location]
    \/ LocationOrder[f.location] = LocationOrder[g.location] /\ PathLess(f.path, g.path)

\* customRuleFields: the next of the fields left, in an order that sort.Slice
\* may make of the map's.
CustomRuleField(f) == f \in todo /\ \A g \in todo : ~FieldLess(g, f)

\* Mutant: the pattern of the schema is thought to be enough for a time.
PassesAnyTime(rule, s) ==
    /\ rule = "notBlank" => ~s.blank
    /\ rule = "containsLetterAndDigit" => s.strong

\* fieldCustomRulePasses.
Passes(rule, s) ==
    /\ rule = "notBlank" => ~s.blank
    /\ rule = "containsLetterAndDigit" => s.strong
    /\ rule = "localDateTime" => s.time # NoTime /\ ~s.padded

Violation(f, rule) == [location |-> f.location, path |-> f.path, rule |-> rule]

\* The next field comes up; one without a value is passed over.
NextField(f) ==
    /\ stage = "rules" /\ field = Absent /\ CustomRuleField(f)
    /\ todo' = todo \ {f}
    /\ field' = IF value[f] = Absent THEN Absent ELSE f
    /\ UNCHANGED <<value, stage, checked, crossed, violations, answer>>

\* Mutant: the first broken rule of a field is enough.
CheckRuleStops ==
    /\ stage = "rules" /\ field # Absent
    /\ LET rule == FieldRules[field][checked + 1]
           last == checked + 1 = Len(FieldRules[field]) \/ ~Passes(rule, value[field])
       IN  /\ violations' = IF Passes(rule, value[field]) THEN violations
                            ELSE Append(violations, Violation(field, rule))
           /\ checked' = IF last THEN 0 ELSE checked + 1
           /\ field' = IF last THEN Absent ELSE field
    /\ UNCHANGED <<value, stage, todo, crossed, answer>>

\* The next rule of the field is run.
CheckRule ==
    /\ stage = "rules" /\ field # Absent
    /\ LET rule == FieldRules[field][checked + 1]
           last == checked + 1 = Len(FieldRules[field])
       IN  /\ violations' = IF Passes(rule, value[field]) THEN violations
                            ELSE Append(violations, Violation(field, rule))
           /\ checked' = IF last THEN 0 ELSE checked + 1
           /\ field' = IF last THEN Absent ELSE field
    /\ UNCHANGED <<value, stage, todo, crossed, answer>>

FieldsDone == stage = "rules" /\ todo = {} /\ field = Absent

\* queryNotAfter: both ends are there and are times, and the left is later.
QueryNotAfter(range) ==
    /\ value[Query(range.left)] # Absent /\ value[Query(range.right)] # Absent
    /\ value[Query(range.left)].time # NoTime /\ value[Query(range.right)].time # NoTime
    /\ value[Query(range.left)].time > value[Query(range.right)].time

\* Mutant: the violation carries the name of the range, not of the rule.
CheckRangeNamed ==
    /\ FieldsDone /\ crossed < Len(Ranges)
    /\ violations' = IF QueryNotAfter(Ranges[crossed + 1])
                     THEN Append(violations, Violation(Query(Ranges[crossed + 1].left), "createdAtRange"))
                     ELSE violations
    /\ crossed' = crossed + 1
    /\ UNCHANGED <<value, stage, todo, field, checked, answer>>

CheckRange ==
    /\ FieldsDone /\ crossed < Len(Ranges)
    /\ violations' = IF QueryNotAfter(Ranges[crossed + 1])
                     THEN Append(violations, Violation(Query(Ranges[crossed + 1].left), "notAfter"))
                     ELSE violations
    /\ crossed' = crossed + 1
    /\ UNCHANGED <<value, stage, todo, field, checked, answer>>

-----------------------------------------------------------------------------
\* appErrorFromCustomRuleViolations.
Envelope ==
    LET locations == {violations[i].location : i \in DOMAIN violations}
    IN  IF locations = {"body"} THEN "InvalidBody"
        ELSE IF locations = {"header"} THEN "InvalidHeaders"
        ELSE IF locations = {"cookie"} THEN "InvalidCookies"
        ELSE "InvalidParameters"

Reject ==
    /\ FieldsDone /\ crossed = Len(Ranges) /\ violations # <<>>
    /\ stage' = "done" /\ answer' = Envelope
    /\ UNCHANGED <<value, todo, field, checked, crossed, violations>>

Pass ==
    /\ FieldsDone /\ crossed = Len(Ranges) /\ violations = <<>>
    /\ stage' = "handler"
    /\ UNCHANGED <<value, todo, field, checked, crossed, violations, answer>>

Parses(s) == s = Absent \/ s.blank \/ s.time # NoTime

\* parseAdminUserListQuery: a time that does not parse is an internal error.
Handle ==
    /\ stage = "handler"
    /\ stage' = "done"
    /\ answer' = IF \A f \in Times : Parses(value[f]) THEN "Success" ELSE "CommonInternal"
    /\ UNCHANGED <<value, todo, field, checked, crossed, violations>>

\* The answer is sent.
Answered ==
    /\ stage = "done"
    /\ UNCHANGED ruleVars

RulesNext ==
    \/ \E f \in todo : NextField(f)
    \/ CheckRule \/ CheckRange \/ Reject \/ Pass \/ Handle \/ Answered

RulesSpec == RulesInit /\ [][RulesNext]_ruleVars

-----------------------------------------------------------------------------
RulesTypeOK ==
    /\ value \in [RuleFields -> Strings \cup {Absent}]
    /\ stage \in {"rules", "handler", "done"}
    /\ todo \subseteq RuleFields
    /\ field \in RuleFields \cup {Absent}
    /\ checked \in Nat
    /\ field # Absent => checked < Len(FieldRules[field])
    /\ crossed \in 0..Len(Ranges)
    /\ violations \in Seq([location : DOMAIN LocationOrder, path : Seq(Nat), rule : Rules \cup {"notAfter"}])
    /\ answer \in {"none", "Success", "CommonInternal", "InvalidBody", "InvalidHeaders",
                   "InvalidCookies", "InvalidParameters"}

\* The rules the request breaks, and the ranges it turns around.
Broken ==
    {v \in {Violation(f, r) : f \in RuleFields, r \in Rules} :
        LET f == [location |-> v.location, path |-> v.path] IN
        /\ value[f] # Absent
        /\ \E i \in DOMAIN FieldRules[f] : FieldRules[f][i] = v.rule
        /\ ~Passes(v.rule, value[f])}

Turned == {i \in DOMAIN Ranges : QueryNotAfter(Ranges[i])}

\* A rejected request is told everything the rules have against it, each
\* once, and nothing else (validation_custom_rules.go:43).
ViolationsExact ==
    (stage = "done" /\ answer # "Success") =>
        /\ {violations[i] : i \in DOMAIN violations}
              = Broken \cup {Violation(Query(Ranges[i].left), "notAfter") : i \in Turned}
        /\ Len(violations) = Cardinality(Broken) + Cardinality(Turned)

\* Violation v has to come before w: fields in their order, the rules of a
\* field in theirs, then the ranges.
Precedes(v, w) ==
    \/ w.rule = "notAfter"
    \/ /\ v.rule # "notAfter"
       /\ \/ LocationOrder[v.location] < LocationOrder[w.location]
          \/ v.location = w.location /\ PathLess(v.path, w.path)
          \/ /\ v.location = w.location /\ v.path = w.path
             /\ LET rules == FieldRules[[location |-> v.location, path |-> v.path]] IN
                \E k, l \in DOMAIN rules : k < l /\ rules[k] = v.rule /\ rules[l] = w.rule

\* The list does not depend on the order of Go's map: equal requests get
\* equal answers (validation_custom_rules.go:97).
ViolationsOrdered ==
    \A i, j \in DOMAIN violations : i < j => Precedes(violations[i], violations[j])

\* What the gate lets pass the handler of the list can use: every time
\* parses, and no range is empty (admin_validation.go:79).
GateCoversHandler ==
    stage = "handler" =>
        /\ \A f \in Times : Parses(value[f])
        /\ \A i \in DOMAIN Ranges :
             LET from == value[Query(Ranges[i].left)]
                 to == value[Query(Ranges[i].right)]
             IN  (from # Absent /\ to # Absent /\ ~from.blank /\ ~to.blank) => from.time <= to.time
=============================================================================
