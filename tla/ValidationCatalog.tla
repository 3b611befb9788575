-------------------------- MODULE ValidationCatalog --------------------------
(***************************************************************************)
(* compileValidationCatalog: at start-up the x-validation extensions of    *)
(* the contract are compiled into the messages and the rules the gate will *)
(* use, or the process refuses to start.  The walk through the schemas of  *)
(* a body is recursive, through allOf and properties, and schemas may      *)
(* refer to themselves; its call stack is the variable frames.             *)
(*                                                                         *)
(* A contract is                                                           *)
(*   schemas: what each schema says: the schemas it is composed of (allOf, *)
(*       a sequence), its properties (a function from some names to a      *)
(*       schema and the extension beside the $ref), the required ones, its *)
(*       native rules and its own extension;                               *)
(*   ops: the operations in the order of path and method, with operationId *)
(*       (NoId if it has none), extension, parameters of the path item and *)
(*       of the operation, and the schema of the body in each media type.  *)
(* Extensions are parsed: ok says whether their keys and types are right,  *)
(* messages maps rules to texts.  A path is the sequence of its names: the *)
(* code joins and trims it, which loses nothing as long as no name has a   *)
(* dot or surrounding blanks.  Contracts with such names are not covered.  *)
(***************************************************************************)
EXTENDS Naturals, Sequences, FiniteSets, Functions

CONSTANTS
    Contracts,    \* the contracts to start with
    Names,        \* the names of properties
    NoId, NoExt

\* LoadSpec resolves every reference and validates the document.
ASSUME ContractAssumption ==
    \A d \in Contracts :
        /\ IsFiniteSet(DOMAIN d.schemas)
        /\ d.ops \in Seq(Range(d.ops))
        /\ \A i \in DOMAIN d.ops : d.ops[i].bodies \in Seq(DOMAIN d.schemas)
        /\ \A s \in DOMAIN d.schemas :
             /\ d.schemas[s].allOf \in Seq(DOMAIN d.schemas)
             /\ DOMAIN d.schemas[s].props \subseteq Names
             /\ \A n \in DOMAIN d.schemas[s].props : d.schemas[s].props[n].to \in DOMAIN d.schemas

VARIABLES
    doc,          \* the contract
    phase,        \* what is being compiled, or the result
    cur,          \* index of the operation
    params,       \* its parameters left
    bodies,       \* its media types left
    frames,       \* calls of compileBodySchema: schema, path, what is left of it
    messages,     \* ValidationCatalog.messages
    fieldRules,   \* ValidationCatalog.fieldRules
    crossRules    \* ValidationCatalog.crossFieldRules

catalog == <<messages, fieldRules, crossRules>>
vars == <<doc, phase, cur, params, bodies, frames, catalog>>

Init ==
    /\ doc \in Contracts
    /\ phase = "operation" /\ cur = 1
    /\ params = {} /\ bodies = <<>> /\ frames = <<>>
    /\ messages = {} /\ fieldRules = <<>> /\ crossRules = <<>>

-----------------------------------------------------------------------------
(* Extensions.                                                             *)

\* nativeSchemaValidationRules.
NativeRules(field) == field.native \cup IF field.required THEN {"required"} ELSE {}

\* The rules the gate has to run itself: notBlank first.
CustomRules(ext) ==
    (IF ext.notBlank THEN <<[name |-> "notBlank", text |-> ext.messages["notBlank"]]>> ELSE <<>>)
        \o ext.rules

\* Mutant: a native rule needs no message.
AcceptsAnyNative(id, field) ==
    /\ field.ext.ok /\ id # NoId
    /\ field.ext.notBlank => "notBlank" \in DOMAIN field.ext.messages

\* parseFieldValidationExtension and the first checks of compileField.
Accepted(id, field) ==
    /\ field.ext.ok /\ id # NoId
    /\ field.ext.notBlank => "notBlank" \in DOMAIN field.ext.messages
    /\ NativeRules(field) \subseteq DOMAIN field.ext.messages

\* The extension beside a $ref hides the one of the schema it refers to.
Field(s, n) ==
    LET ref == doc.schemas[s].props[n]
        target == doc.schemas[ref.to]
    IN  [ext |-> IF ref.ext # NoExt THEN ref.ext ELSE target.ext,
         native |-> target.native,
         required |-> n \in doc.schemas[s].required]

-----------------------------------------------------------------------------
(* The catalog.                                                            *)

\* The messages an extension declares for the field at a location and path.
Declared(id, location, path, ext) ==
    {[op |-> id, location |-> location, path |-> path, rule |-> r, text |-> ext.messages[r]]
        : r \in DOMAIN ext.messages}
    \cup {[op |-> id, location |-> location, path |-> path, rule |-> c.name, text |-> c.text]
            : c \in Range(CustomRules(ext))}

SameKey(m, n) ==
    m.op = n.op /\ m.location = n.location /\ m.path = n.path /\ m.rule = n.rule

\* addMessage refuses a second message with another text.
Conflicting(ms) == \E m, n \in ms : SameKey(m, n) /\ m.text # n.text

\* Mutant: the location is left out of the key.
FieldKeyByPath(id, location, path) == <<id, "query", path>>

\* The path is joined with dots in the code; see the header.
FieldKey(id, location, path) == <<id, location, path>>

\* fieldRules[key] = rules: what was there is replaced.
PutRules(key, rules) ==
    fieldRules' = IF rules = <<>> THEN fieldRules
                  ELSE [k \in DOMAIN fieldRules \cup {key} |->
                          IF k = key THEN rules ELSE fieldRules[k]]

\* Mutant: a message may be declared only once.
FieldFailsOnRepeat(id, location, path, field) ==
    /\ field.ext # NoExt
    /\ \/ ~Accepted(id, field)
       \/ Declared(id, location, path, field.ext) \cap messages # {}
       \/ Conflicting(messages \cup Declared(id, location, path, field.ext))

\* compileField returns an error ...
FieldFails(id, location, path, field) ==
    /\ field.ext # NoExt
    /\ \/ ~Accepted(id, field)
       \/ Conflicting(messages \cup Declared(id, location, path, field.ext))

\* ... or not.
CompileField(id, location, path, field) ==
    /\ ~FieldFails(id, location, path, field)
    /\ UNCHANGED crossRules
    /\ IF field.ext = NoExt
       THEN UNCHANGED <<messages, fieldRules>>
       ELSE /\ messages' = messages \cup Declared(id, location, path, field.ext)
            /\ PutRules(FieldKey(id, location, path), CustomRules(field.ext))

\* An error ends it; nothing of the catalog is used.
Refuse ==
    /\ phase' = "refused"
    /\ UNCHANGED <<doc, cur, params, bodies, frames, catalog>>

-----------------------------------------------------------------------------
(* compileOperation, compileParameters.                                    *)

Op == doc.ops[cur]

\* A parameter of the operation replaces the path item's of the same name.
Parameters(op) ==
    [k \in DOMAIN op.itemParams \cup DOMAIN op.params |->
        IF k \in DOMAIN op.params THEN op.params[k] ELSE op.itemParams[k]]

\* The messages of an operation belong to no field.
OperationMessages(op) ==
    {[op |-> op.id, location |-> "none", path |-> <<>>, rule |-> r, text |-> op.ext.messages[r]]
        : r \in DOMAIN op.ext.messages}

\* compileOperation returns an error; ids that are distinct in the document
\* may be the same after trimming, so texts may conflict.
OperationFails ==
    /\ phase = "operation" /\ cur \in DOMAIN doc.ops
    /\ Op.ext # NoExt
    /\ \/ ~Op.ext.ok \/ Op.id = NoId
       \/ Conflicting(messages \cup OperationMessages(Op))
    /\ Refuse

CompileOperation ==
    /\ phase = "operation" /\ cur \in DOMAIN doc.ops
    /\ LET ext == Op.ext IN
       IF ext = NoExt
       THEN UNCHANGED <<messages, crossRules>>
       ELSE /\ ext.ok /\ Op.id # NoId
            /\ ~Conflicting(messages \cup OperationMessages(Op))
            /\ messages' = messages \cup OperationMessages(Op)
            /\ crossRules' = IF ext.cross = <<>> THEN crossRules
                             ELSE [o \in DOMAIN crossRules \cup {Op.id} |->
                                     IF o = Op.id THEN ext.cross ELSE crossRules[o]]
    /\ phase' = "parameters"
    /\ params' = DOMAIN Parameters(Op)
    /\ bodies' = Op.bodies
    /\ UNCHANGED <<doc, cur, frames, fieldRules>>

\* By OpenAPI a parameter has a schema or a content of one media type, never
\* both, so it is one field.  The order of the parameters does not
\* matter: their keys are distinct.
CompileParameter(k) ==
    /\ phase = "parameters" /\ k \in params
    /\ CompileField(Op.id, k.location, <<k.name>>, Parameters(Op)[k])
    /\ params' = params \ {k}
    /\ UNCHANGED <<doc, phase, cur, bodies, frames>>

ParameterFails(k) ==
    /\ phase = "parameters" /\ k \in params
    /\ FieldFails(Op.id, k.location, <<k.name>>, Parameters(Op)[k])
    /\ Refuse

ParametersDone ==
    /\ phase = "parameters" /\ params = {}
    /\ phase' = "body"
    /\ UNCHANGED <<doc, cur, params, bodies, frames, catalog>>

-----------------------------------------------------------------------------
(* compileRequestBody, compileBodySchema.                                  *)

Top == frames[Len(frames)]

\* Mutant: a schema may be entered again below itself.
NeverOnStack(s) == FALSE

\* stack[schema].
OnStack(s) == \E i \in DOMAIN frames : frames[i].schema = s

Frame(s, path) ==
    [schema |-> s, path |-> path, allOf |-> doc.schemas[s].allOf,
     props |-> DOMAIN doc.schemas[s].props]

\* A call returns at once if the schema is on the stack.
Called(fs, s, path) == IF OnStack(s) THEN fs ELSE Append(fs, Frame(s, path))

Caller(top) == [frames EXCEPT ![Len(frames)] = top]

CompileRequestBody ==
    /\ phase = "body" /\ frames = <<>> /\ bodies # <<>>
    /\ frames' = Called(<<>>, Head(bodies), <<>>)
    /\ bodies' = Tail(bodies)
    /\ UNCHANGED <<doc, phase, cur, params, catalog>>

CompileAllOf ==
    /\ phase = "body" /\ frames # <<>> /\ Top.allOf # <<>>
    /\ frames' = Called(Caller([Top EXCEPT !.allOf = Tail(@)]), Head(Top.allOf), Top.path)
    /\ UNCHANGED <<doc, phase, cur, params, bodies, catalog>>

\* The field, then the schema below it.  The order of names does not matter.
CompileProperty(n) ==
    /\ phase = "body" /\ frames # <<>> /\ Top.allOf = <<>> /\ n \in Top.props
    /\ CompileField(Op.id, "body", Append(Top.path, n), Field(Top.schema, n))
    /\ frames' = Called(Caller([Top EXCEPT !.props = @ \ {n}]),
                        doc.schemas[Top.schema].props[n].to, Append(Top.path, n))
    /\ UNCHANGED <<doc, phase, cur, params, bodies>>

PropertyFails(n) ==
    /\ phase = "body" /\ frames # <<>> /\ Top.allOf = <<>> /\ n \in Top.props
    /\ FieldFails(Op.id, "body", Append(Top.path, n), Field(Top.schema, n))
    /\ Refuse

\* The deferred delete(stack, schema).
Return ==
    /\ phase = "body" /\ frames # <<>> /\ Top.allOf = <<>> /\ Top.props = {}
    /\ frames' = SubSeq(frames, 1, Len(frames) - 1)
    /\ UNCHANGED <<doc, phase, cur, params, bodies, catalog>>

OperationDone ==
    /\ phase = "body" /\ frames = <<>> /\ bodies = <<>>
    /\ cur' = cur + 1
    /\ phase' = IF cur + 1 \in DOMAIN doc.ops THEN "operation" ELSE "ready"
    /\ UNCHANGED <<doc, params, bodies, frames, catalog>>

\* The catalog, or the error, is returned and does not change any more.
Compiled ==
    /\ phase \in {"ready", "refused"}
    /\ UNCHANGED vars

Next ==
    \/ CompileOperation \/ OperationFails
    \/ \E k \in params : CompileParameter(k) \/ ParameterFails(k)
    \/ ParametersDone \/ CompileRequestBody \/ CompileAllOf
    \/ frames # <<>> /\ \E n \in Top.props : CompileProperty(n) \/ PropertyFails(n)
    \/ Return \/ OperationDone \/ Compiled

Spec == Init /\ [][Next]_vars

-----------------------------------------------------------------------------
(* What the contract says, written down without stack and catalog: the     *)
(* fields of a body are the properties at the ends of the walks through    *)
(* allOf and properties that start at its schema and enter no schema twice.*)

Steps(v) ==
    LET schema == doc.schemas[v.schema] IN
    {[schema |-> a, path |-> v.path] : a \in Range(schema.allOf)}
    \cup {[schema |-> schema.props[n].to, path |-> Append(v.path, n)] : n \in DOMAIN schema.props}

\* The walks of at most d steps.
Walks[d \in Nat] ==
    IF d = 0 THEN {<<[schema |-> s, path |-> <<>>]>> : s \in DOMAIN doc.schemas}
    ELSE LET shorter == Walks[d - 1] IN
         shorter \cup UNION {{Append(w, v) : v \in {u \in Steps(w[Len(w)]) :
                                \A i \in DOMAIN w : w[i].schema # u.schema}} : w \in shorter}

ParameterField(op, k) ==
    [id |-> op.id, location |-> k.location, path |-> <<k.name>>, field |-> Parameters(op)[k]]

BodyField(op, v, n) ==
    [id |-> op.id, location |-> "body", path |-> Append(v.path, n), field |-> Field(v.schema, n)]

OfParameters(op) == {ParameterField(op, k) : k \in DOMAIN Parameters(op)}

OfWalk(op, w) ==
    LET v == w[Len(w)] IN {BodyField(op, v, n) : n \in DOMAIN doc.schemas[v.schema].props}

OfBodies(op) ==
    LET walks == Walks[Cardinality(DOMAIN doc.schemas)]
    IN  UNION {OfWalk(op, w) : w \in {x \in walks : x[1].schema \in Range(op.bodies)}}

\* All fields with an extension, with the key their rules have.
Fields ==
    {f \in UNION {OfParameters(op) \cup OfBodies(op) : op \in Range(doc.ops)} : f.field.ext # NoExt}

Defective(f) == ~Accepted(f.id, f.field)

Says(f) == Declared(f.id, f.location, f.path, f.field.ext)

\* ValidationCatalog.message: the field's message, else the operation's.
Message(id, location, path, rule) ==
    LET At(l, p) == {m.text : m \in {x \in messages :
                        x.op = id /\ x.location = l /\ x.path = p /\ x.rule = rule}}
    IN  IF At(location, path) # {} THEN At(location, path) ELSE At("none", <<>>)

-----------------------------------------------------------------------------
TypeOK ==
    /\ phase \in {"operation", "parameters", "body", "ready", "refused"}
    /\ cur \in Nat \ {0}
    /\ bodies \in Seq(DOMAIN doc.schemas)
    /\ frames \in Seq([schema : DOMAIN doc.schemas, path : Seq(Names),
                       allOf : Seq(DOMAIN doc.schemas), props : SUBSET Names])
    /\ \A i \in DOMAIN frames : frames[i].props \subseteq DOMAIN doc.schemas[frames[i].schema].props

\* The recursion ends on every contract, schemas that contain themselves
\* included: it is never deeper than there are schemas
\* (validation_catalog.go:205).
RecursionBounded == Len(frames) <= Cardinality(DOMAIN doc.schemas)

\* When the process starts, every rule of every field that has an extension
\* is answered with the text declared for it, also below a schema that is
\* used in several places or under allOf: no client sees kin-openapi's
\* wording instead (validation_catalog.go:209).
CatalogComplete ==
    phase = "ready" =>
        \A f \in Fields :
            /\ \A m \in Says(f) : Message(m.op, m.location, m.path, m.rule) = {m.text}
            /\ \A r \in NativeRules(f.field) : Message(f.id, f.location, f.path, r) # {}

\* It refuses to start only for a reason: an extension or a message that is
\* missing or wrong, or two texts for one rule of one field.  Declaring the
\* same text twice, as a shared schema does, is none
\* (validation_catalog.go:314).
RefusedForCause ==
    phase = "refused" =>
        \/ LET Extended == {op \in Range(doc.ops) : op.ext # NoExt} IN
           \E o, p \in Extended :
                \/ ~o.ext.ok \/ o.id = NoId
                \/ Conflicting(OperationMessages(o) \cup OperationMessages(p))
        \/ \E f \in Fields : Defective(f) \/ \E g \in Fields : Conflicting(Says(f) \cup Says(g))

\* The gate runs the declared rules of every field that is declared once,
\* or always with the same rules.  More does not hold: of two schemas under
\* allOf that declare different rules for a field the later one replaces the
\* rules of the earlier (validation_catalog.go:291).
LoneRulesEnforced ==
    phase = "ready" =>
        \A f \in Fields :
            LET Rules(g) == CustomRules(g.field.ext)
                twins == {g \in Fields : g.id = f.id /\ g.location = f.location /\ g.path = f.path}
                key == <<f.id, f.location, f.path>>
            IN  (\A g \in twins : Rules(g) = Rules(f)) =>
                    IF Rules(f) = <<>> THEN key \notin DOMAIN fieldRules
                    ELSE key \in DOMAIN fieldRules /\ fieldRules[key] = Rules(f)
=============================================================================
