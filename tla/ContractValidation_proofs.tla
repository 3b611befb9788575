---------------------- MODULE ContractValidation_proofs ----------------------
(***************************************************************************)
(* Contract validation, for every contract and every request.              *)
(*                                                                         *)
(* The compilation of the catalog (ValidationCatalog): the calls on the    *)
(* stack are for different schemas, so there are never more of them than   *)
(* schemas; the stack is a walk through the contract; what the catalog     *)
(* holds comes from a field or an operation of the contract; a frame that  *)
(* is left leaves nothing undone below it, except what is below a schema   *)
(* that is still on the stack.                                             *)
(*                                                                         *)
(* The rules at run time (FieldValidation): the violations are at every    *)
(* point exactly those of the rules that have been run, in the order of    *)
(* the fields and of their rules.                                          *)
(***************************************************************************)
EXTENDS ValidationCatalog, FieldValidation, FiniteSetTheorems, SequenceTheorems,
        WellFoundedInduction, TLAPS

\* A set of natural numbers has a least element.
LEMMA LeastNat ==
    ASSUME NEW T, T \subseteq Nat, T # {}
    PROVE  \E x \in T : \A y \in T : x <= y
<1> DEFINE R == OpToRel(<, Nat)
<1>1. IsWellFoundedOn(R, Nat)
  BY NatLessThanWellFounded
<1>2. \A x, y \in Nat : x < y => <<x, y>> \in R
  BY DEF OpToRel
<1> HIDE DEF R
<1>3. PICK x \in T : \A y \in T : ~(<<y, x>> \in R)
  BY <1>1, WFMin
<1>4. ASSUME NEW y \in T PROVE x <= y
  <2>1. x \in Nat /\ y \in Nat /\ ~(<<y, x>> \in R)
    BY <1>3
  <2>2. ~(y < x)
    BY <1>2, <2>1, Zenon
  <2> QED  BY <2>1, <2>2
<1> QED  BY <1>4

-----------------------------------------------------------------------------
(* The compilation of the catalog.                                         *)

Schemas == DOMAIN doc.schemas

Frames == [schema : Schemas, path : Seq(Names), allOf : Seq(Schemas), props : SUBSET Names]

\* A stack that compileBodySchema may build.
StackOK(fs) ==
    /\ fs \in Seq(Frames)
    /\ \A i \in DOMAIN fs : fs[i].props \subseteq DOMAIN doc.schemas[fs[i].schema].props
    /\ \A i, j \in DOMAIN fs : fs[i].schema = fs[j].schema => i = j

CompileInv ==
    /\ doc \in Contracts
    /\ phase \in {"operation", "parameters", "body", "ready", "refused"}
    /\ cur \in Nat \ {0}
    /\ bodies \in Seq(Schemas)
    /\ StackOK(frames)

-----------------------------------------------------------------------------
(* Walks and fields, in a form that needs no recursion.                    *)

Nodes == [schema : Schemas, path : Seq(Names)]
Props(s) == DOMAIN doc.schemas[s].props
End(w) == w[Len(w)]

IsWalk(w) ==
    /\ w \in Seq(Nodes) /\ w # <<>>
    /\ w[1].path = <<>>
    /\ \A i \in 1..(Len(w) - 1) : w[i + 1] \in Steps(w[i])
    /\ \A i, j \in DOMAIN w : w[i].schema = w[j].schema => i = j

\* f is a field of operation i.
FieldIn(i, f) ==
    \/ \E k \in DOMAIN Parameters(doc.ops[i]) : f = ParameterField(doc.ops[i], k)
    \/ \E w :
         /\ IsWalk(w) /\ w[1].schema \in Range(doc.ops[i].bodies)
         /\ \E n \in Props(End(w).schema) : f = BodyField(doc.ops[i], End(w), n)

\* f is a field with an extension: Fields as a predicate.
Known(f) == f.field.ext # NoExt /\ \E i \in DOMAIN doc.ops : FieldIn(i, f)

-----------------------------------------------------------------------------
(* The inductive invariant.                                                *)

NodeOf(fr) == [schema |-> fr.schema, path |-> fr.path]
Node(i) == NodeOf(frames[i])

\* The stack is a walk from a body of the operation, and what is left to do
\* is what the contract has.
StackInv ==
    /\ phase \in {"parameters", "body"} => cur \in DOMAIN doc.ops
    /\ phase = "operation" => frames = <<>>
    /\ phase = "parameters" =>
         frames = <<>> /\ bodies = Op.bodies /\ params \subseteq DOMAIN Parameters(Op)
    /\ phase = "body" =>
         /\ Range(bodies) \subseteq Range(Op.bodies)
         /\ frames # <<>> => frames[1].path = <<>> /\ frames[1].schema \in Range(Op.bodies)
         /\ \A i \in 1..(Len(frames) - 1) : Node(i + 1) \in Steps(Node(i))
         /\ \A i \in DOMAIN frames : Range(frames[i].allOf) \subseteq Range(doc.schemas[frames[i].schema].allOf)

\* Everything in the catalog is declared somewhere.
FromOperation(m) ==
    \E i \in DOMAIN doc.ops : doc.ops[i].ext # NoExt /\ m \in OperationMessages(doc.ops[i])
FromField(m) == \E f : Known(f) /\ m \in Says(f)
RuleOf(key, f) ==
    /\ Known(f) /\ key = FieldKey(f.id, f.location, f.path)
    /\ fieldRules[key] = CustomRules(f.field.ext) /\ fieldRules[key] # <<>>

SoundInv ==
    /\ \A m \in messages : FromOperation(m) \/ FromField(m)
    /\ ~Conflicting(messages)
    /\ \A key \in DOMAIN fieldRules : \E f : RuleOf(key, f)

\* What is wrong with the contract, if the process refuses to start.
Cause ==
    \/ \E i, j \in DOMAIN doc.ops :
         LET o == doc.ops[i]
             p == doc.ops[j]
         IN  /\ o.ext # NoExt /\ p.ext # NoExt
             /\ ~o.ext.ok \/ o.id = NoId \/ Conflicting(OperationMessages(o) \cup OperationMessages(p))
    \/ \E f, g :
         /\ Known(f) /\ Known(g)
         /\ Defective(f) \/ Conflicting(Says(f) \cup Says(g))

CauseInv == phase = "refused" => Cause

\* The catalog has what field f declares.
DoneField(f) ==
    \/ f.field.ext = NoExt
    \/ /\ Accepted(f.id, f.field)
       /\ Says(f) \subseteq messages
       /\ CustomRules(f.field.ext) # <<>> => FieldKey(f.id, f.location, f.path) \in DOMAIN fieldRules

WalkDone(w) == \A n \in Props(End(w).schema) : DoneField(BodyField(Op, End(w), n))

\* Done are all walks that go down the stack to call i and from there to v.
AllBelow(i, v) ==
    \A w :
        (IsWalk(w) /\ i + 1 <= Len(w) /\ w[i + 1] = v /\ \A j \in 1..i : w[j] = Node(j))
            => WalkDone(w)

\* Call fr still has to go to v ...
Pending(fr, v) ==
    \/ \E a \in Range(fr.allOf) : v = [schema |-> a, path |-> fr.path]
    \/ \E n \in fr.props :
         v = [schema |-> doc.schemas[fr.schema].props[n].to, path |-> Append(fr.path, n)]

\* ... or, being call i, is there, or never goes.
Open(i, v) ==
    \/ Pending(frames[i], v)
    \/ i < Len(frames) /\ v = Node(i + 1)
    \/ \E j \in 1..i : frames[j].schema = v.schema

FrameInv(i) ==
    /\ \A n \in Props(frames[i].schema) \ frames[i].props : DoneField(BodyField(Op, Node(i), n))
    /\ \A v \in Steps(Node(i)) : Open(i, v) \/ AllBelow(i, v)

Root(s) == [schema |-> s, path |-> <<>>]

BodyInv(s) ==
    \/ s \in Range(bodies)
    \/ frames # <<>> /\ Node(1) = Root(s)
    \/ AllBelow(0, Root(s))

OpDone(i) == \A f : FieldIn(i, f) => DoneField(f)

DoneInv ==
    /\ \A i \in DOMAIN doc.ops : i < cur \/ phase = "ready" => OpDone(i)
    /\ phase = "parameters" => \A k \in DOMAIN Parameters(Op) \ params : DoneField(ParameterField(Op, k))
    /\ phase = "body" =>
         /\ \A k \in DOMAIN Parameters(Op) : DoneField(ParameterField(Op, k))
         /\ \A s \in Range(Op.bodies) : BodyInv(s)
         /\ \A i \in DOMAIN frames : FrameInv(i)

\* What the assumption says of the contract at hand.
LEMMA ContractFacts ==
    ASSUME doc \in Contracts
    PROVE  /\ IsFiniteSet(Schemas)
           /\ doc.ops \in Seq(Range(doc.ops))
           /\ \A i \in DOMAIN doc.ops : doc.ops[i].bodies \in Seq(Schemas)
           /\ \A s \in Schemas :
                /\ doc.schemas[s].allOf \in Seq(Schemas)
                /\ DOMAIN doc.schemas[s].props \subseteq Names
                /\ \A n \in DOMAIN doc.schemas[s].props : doc.schemas[s].props[n].to \in Schemas
BY ContractAssumption DEF Schemas

\* A call puts the schema on the stack only if it is not there yet.
LEMMA CallKeeps ==
    ASSUME doc \in Contracts, NEW fs, StackOK(fs), Len(fs) = Len(frames), frames \in Seq(Frames),
           \A i \in DOMAIN frames : fs[i].schema = frames[i].schema,
           NEW s \in Schemas, NEW path \in Seq(Names)
    PROVE  StackOK(Called(fs, s, path))
<1> DEFINE new == Frame(s, path)
           all == Append(fs, new)
<1>1. new \in Frames /\ new.schema = s /\ new.props \subseteq DOMAIN doc.schemas[s].props
  BY ContractFacts DEF Frame, Frames
<1>2. CASE OnStack(s)
  BY <1>2 DEF Called
<1>3. CASE ~OnStack(s)
  <2>0. fs \in Seq(Frames) /\ DOMAIN fs = 1..Len(fs) /\ Len(fs) \in Nat /\ DOMAIN frames = 1..Len(fs)
    BY DEF StackOK
  <2> HIDE DEF new
  <2>1. all \in Seq(Frames) /\ DOMAIN all = 1..(Len(fs) + 1)
    BY <1>1, <2>0
  <2>2. \A i \in 1..Len(fs) : all[i] = fs[i]
    BY <2>0
  <2>3. all[Len(fs) + 1] = new
    BY <2>0
  <2>4. \A i \in 1..Len(fs) : fs[i].schema # s
    BY <1>3, <2>0 DEF OnStack
  <2> HIDE DEF all
  <2>5. \A i \in DOMAIN all : all[i].props \subseteq DOMAIN doc.schemas[all[i].schema].props
    BY <1>1, <2>0, <2>1, <2>2, <2>3 DEF StackOK
  <2>6. \A i, j \in DOMAIN all : all[i].schema = all[j].schema => i = j
    BY <1>1, <2>0, <2>1, <2>2, <2>3, <2>4 DEF StackOK
  <2>7. Called(fs, s, path) = all
    BY <1>3 DEF Called, all, new
  <2> QED  BY <2>1, <2>5, <2>6, <2>7 DEF StackOK
<1> QED  BY <1>2, <1>3

\* What is left to do in the topmost call shrinks; its schema stays.
LEMMA CallerKeeps ==
    ASSUME StackOK(frames), frames # <<>>, NEW top \in Frames,
           top.schema = Top.schema, top.props \subseteq Top.props
    PROVE  /\ StackOK(Caller(top)) /\ Len(Caller(top)) = Len(frames)
           /\ \A i \in DOMAIN frames : Caller(top)[i].schema = frames[i].schema
<1> DEFINE fs == Caller(top)
<1>1. /\ frames \in Seq(Frames) /\ Len(frames) \in Nat /\ Len(frames) > 0
      /\ DOMAIN frames = 1..Len(frames)
  BY DEF StackOK
<1>2. fs \in Seq(Frames) /\ Len(fs) = Len(frames) /\ DOMAIN fs = DOMAIN frames
  BY <1>1 DEF Caller
<1>3. \A i \in DOMAIN frames : fs[i] = IF i = Len(frames) THEN top ELSE frames[i]
  BY <1>1 DEF Caller
<1> HIDE DEF fs
<1>4. \A i \in DOMAIN frames : fs[i].schema = frames[i].schema /\ fs[i].props \subseteq frames[i].props
  BY <1>1, <1>3 DEF Top
<1>5. StackOK(fs)
  BY <1>2, <1>4 DEF StackOK
<1> QED  BY <1>2, <1>4, <1>5 DEF fs

\* The call at work.
LEMMA TopFacts ==
    ASSUME StackOK(frames), frames # <<>>
    PROVE  /\ Top \in Frames
           /\ Top.props \subseteq DOMAIN doc.schemas[Top.schema].props
BY DEF StackOK, Top

\* CompileInv is inductive: it holds at first ...
LEMMA CompileInit == Init => CompileInv
BY DEF Init, CompileInv, StackOK

\* ... and every step keeps it.
LEMMA CompileStep == CompileInv /\ [Next]_vars => CompileInv'
<1> SUFFICES ASSUME CompileInv, [Next]_vars
             PROVE  CompileInv'
  OBVIOUS
<1>0. doc \in Contracts /\ StackOK(frames) /\ bodies \in Seq(Schemas)
  BY DEF CompileInv
<1>1. CASE CompileOperation
  <2>1. bodies' \in Seq(Schemas)
    BY <1>0, <1>1, ContractFacts DEF CompileOperation, Op
  <2> QED  BY <1>1, <2>1 DEF CompileOperation, CompileInv, StackOK, Frames, Schemas
<1>2. CASE Refuse
  BY <1>2 DEF Refuse, CompileInv, StackOK, Frames, Schemas
<1>3. ASSUME NEW k \in params, CompileParameter(k) PROVE CompileInv'
  BY <1>3 DEF CompileParameter, CompileInv, StackOK, Frames, Schemas
<1>4. CASE ParametersDone
  BY <1>4 DEF ParametersDone, CompileInv, StackOK, Frames, Schemas
<1>5. CASE CompileRequestBody
  <2>1. frames = <<>> /\ Head(bodies) \in Schemas /\ Tail(bodies) \in Seq(Schemas) /\ <<>> \in Seq(Names)
    BY <1>0, <1>5 DEF CompileRequestBody
  <2>2. StackOK(Called(<<>>, Head(bodies), <<>>))
    <3>1. \A i \in DOMAIN frames : <<>>[i].schema = frames[i].schema
      BY <2>1
    <3>2. StackOK(<<>>) /\ Len(<<>>) = Len(frames) /\ frames \in Seq(Frames)
      BY <1>0, <2>1
    <3> QED  BY <1>0, <2>1, <3>1, <3>2, CallKeeps
  <2>3. StackOK(frames')
    BY <1>5, <2>2 DEF CompileRequestBody
  <2> QED  BY <1>5, <2>1, <2>3 DEF CompileRequestBody, CompileInv, StackOK, Frames, Schemas
<1>6. CASE CompileAllOf
  <2>0. frames # <<>> /\ Top.allOf # <<>>
    BY <1>6 DEF CompileAllOf
  <2> DEFINE top == [Top EXCEPT !.allOf = Tail(@)]
  <2>1. Top \in Frames
    BY <1>0, <2>0, TopFacts
  <2>2. /\ top \in Frames /\ top.schema = Top.schema /\ top.props \subseteq Top.props
        /\ Head(Top.allOf) \in Schemas /\ Top.path \in Seq(Names)
    <3>1. Top.allOf \in Seq(Schemas)
      BY <2>1 DEF Frames
    <3> DEFINE l == Top.allOf
    <3>2. l \in Seq(Schemas) /\ l # <<>>
      BY <2>0, <3>1
    <3> HIDE DEF l
    <3>3. Head(l) \in Schemas /\ Tail(l) \in Seq(Schemas)
      BY <3>2, SMT
    <3>4. Head(Top.allOf) \in Schemas /\ Tail(Top.allOf) \in Seq(Schemas)
      BY <3>3, Zenon DEF l
    <3> QED  BY <2>1, <3>4 DEF Frames
  <2>3. frames' = Called(Caller(top), Head(Top.allOf), Top.path)
    BY <1>6 DEF CompileAllOf
  <2> HIDE DEF top
  <2>4. StackOK(frames')
    <3>1. /\ StackOK(Caller(top)) /\ Len(Caller(top)) = Len(frames)
          /\ \A i \in DOMAIN frames : Caller(top)[i].schema = frames[i].schema
      BY SMTT(40), <1>0, <2>0, <2>2, CallerKeeps
    <3>2. frames \in Seq(Frames)
      BY <1>0 DEF StackOK
    <3> QED  BY <1>0, <2>2, <2>3, <3>1, <3>2, CallKeeps
  <2> QED  BY <1>6, <2>4 DEF CompileAllOf, CompileInv, StackOK, Frames, Schemas
<1>7. ASSUME NEW n \in Top.props, CompileProperty(n), frames # <<>> PROVE CompileInv'
  <2> DEFINE top == [Top EXCEPT !.props = @ \ {n}]
             to == doc.schemas[Top.schema].props[n].to
             path == Append(Top.path, n)
  <2>1. Top \in Frames /\ Top.props \subseteq DOMAIN doc.schemas[Top.schema].props
    BY <1>0, <1>7, TopFacts
  <2>2. top \in Frames /\ top.schema = Top.schema /\ top.props \subseteq Top.props
    BY <2>1 DEF Frames
  <2>3. Top.schema \in Schemas /\ Top.path \in Seq(Names) /\ n \in Names
    BY <1>7, <2>1 DEF Frames
  <2>4. to \in Schemas /\ path \in Seq(Names)
    BY <1>0, <1>7, <2>1, <2>3, ContractFacts
  <2>5. frames' = Called(Caller(top), to, path)
    BY <1>7 DEF CompileProperty
  <2> HIDE DEF top, to, path
  <2>6. StackOK(frames')
    <3>1. /\ StackOK(Caller(top)) /\ Len(Caller(top)) = Len(frames)
          /\ \A i \in DOMAIN frames : Caller(top)[i].schema = frames[i].schema
      BY <1>0, <1>7, <2>2, CallerKeeps
    <3>2. frames \in Seq(Frames)
      BY <1>0 DEF StackOK
    <3> QED  BY <1>0, <2>4, <2>5, <3>1, <3>2, CallKeeps
  <2> QED  BY ZenonT(60), <1>7, <2>6 DEF CompileProperty, CompileInv, StackOK, Frames, Schemas
<1>8. CASE Return
  <2>1. frames \in Seq(Frames) /\ Len(frames) \in Nat /\ Len(frames) > 0 /\ DOMAIN frames = 1..Len(frames)
    BY <1>0, <1>8 DEF Return, StackOK
  <2>2. /\ frames' = SubSeq(frames, 1, Len(frames) - 1)
    BY <1>8 DEF Return
  <2>3. /\ frames' \in Seq(Frames) /\ DOMAIN frames' = 1..(Len(frames) - 1)
        /\ \A i \in DOMAIN frames' : i \in DOMAIN frames /\ frames'[i] = frames[i]
    BY <2>1, <2>2
  <2>4. StackOK(frames')
    BY <1>0, <2>3 DEF StackOK
  <2> QED  BY <1>8, <2>4 DEF Return, CompileInv, StackOK, Frames, Schemas
<1>9. CASE OperationDone
  BY <1>9 DEF OperationDone, CompileInv, StackOK, Frames, Schemas
<1>10. CASE UNCHANGED vars
  BY <1>10 DEF vars, CompileInv, StackOK, Frames, Schemas
<1> QED  BY <1>1, <1>2, <1>3, <1>4, <1>5, <1>6, <1>7, <1>8, <1>9, <1>10
         DEF Next, Compiled, OperationFails, ParameterFails, PropertyFails

\* So it always holds.
LEMMA CompileAlways == Spec => []CompileInv
BY CompileInit, CompileStep, PTL DEF Spec

\* TypeOK is an invariant, whatever the contract.
THEOREM CatalogTypes == Spec => []TypeOK
<1>1. CompileInv => TypeOK
  BY DEF CompileInv, TypeOK, StackOK, Frames, Schemas
<1> QED  BY CompileAlways, <1>1, PTL

\* RecursionBounded is an invariant: the walk through the schemas of any
\* contract, circular ones included, is never deeper than there are schemas.
THEOREM RecursionEnds == Spec => []RecursionBounded
<1>1. CompileInv => RecursionBounded
  <2> SUFFICES ASSUME CompileInv PROVE Len(frames) <= Cardinality(Schemas)
    BY DEF RecursionBounded, Schemas
  <2> DEFINE f == [i \in 1..Len(frames) |-> frames[i].schema]
  <2>1. /\ frames \in Seq(Frames) /\ Len(frames) \in Nat /\ DOMAIN frames = 1..Len(frames)
        /\ IsFiniteSet(Schemas)
    BY ContractFacts DEF CompileInv, StackOK
  <2>2. \A i \in 1..Len(frames) : frames[i].schema \in Schemas
    <3>1. \A i \in 1..Len(frames) : frames[i] \in Frames
      BY <2>1
    <3>2. \A fr \in Frames : fr.schema \in Schemas
      BY DEF Frames
    <3> QED  BY <3>1, <3>2, Zenon
  <2>3. f \in Injection(1..Len(frames), Schemas)
    BY <2>1, <2>2 DEF CompileInv, StackOK, Injection, IsInjective
  <2>4. Cardinality(1..Len(frames)) <= Cardinality(Schemas)
    BY <2>1, <2>3, FS_Injection
  <2>5. Cardinality(1..Len(frames)) = Len(frames)
    BY SMTT(40), <2>1, FS_Interval
  <2> QED  BY <2>4, <2>5
<1> QED  BY CompileAlways, <1>1, PTL

-----------------------------------------------------------------------------
(* Walks.                                                                  *)

\* The contract does not change, nor does what is defined by it.
LEMMA SameContract ==
    ASSUME doc' = doc
    PROVE  /\ Schemas' = Schemas /\ Nodes' = Nodes
           /\ \A s : Props(s)' = Props(s)
           /\ \A v : Steps(v)' = Steps(v)
           /\ \A w : IsWalk(w)' <=> IsWalk(w)
           /\ \A op, v, n : BodyField(op, v, n)' = BodyField(op, v, n)
           /\ \A i, f : FieldIn(i, f)' <=> FieldIn(i, f)
           /\ \A f : Known(f)' <=> Known(f)
           /\ \A m : FromOperation(m)' <=> FromOperation(m)
           /\ \A m : FromField(m)' <=> FromField(m)
           /\ Cause' <=> Cause
<1>1. Schemas' = Schemas /\ Nodes' = Nodes
  BY DEF Schemas, Nodes
<1>2. \A s : Props(s)' = Props(s)
  BY DEF Props
<1>3. \A v : Steps(v)' = Steps(v)
  BY DEF Steps
<1>4. \A w : IsWalk(w)' <=> IsWalk(w)
  BY <1>1, <1>3 DEF IsWalk
<1>5. \A op, v, n : BodyField(op, v, n)' = BodyField(op, v, n)
  BY DEF BodyField, Field
<1>6. \A i, f : FieldIn(i, f)' <=> FieldIn(i, f)
  BY <1>2, <1>4, <1>5 DEF FieldIn
<1>7. \A f : Known(f)' <=> Known(f)
  BY <1>6 DEF Known
<1>8. \A m : FromOperation(m)' <=> FromOperation(m)
  BY DEF FromOperation
<1>9. \A m : FromField(m)' <=> FromField(m)
  BY <1>7 DEF FromField
<1>10. Cause' <=> Cause
  BY <1>7 DEF Cause
<1> QED  BY <1>1, <1>2, <1>3, <1>4, <1>5, <1>6, <1>7, <1>8, <1>9, <1>10

\* A walk through a contract stays in it.
LEMMA StepsAreNodes ==
    ASSUME doc \in Contracts, NEW v \in Nodes, NEW u \in Steps(v)
    PROVE  u \in Nodes
<1>1. v.schema \in Schemas /\ v.path \in Seq(Names)
  BY DEF Nodes
<1>2. /\ doc.schemas[v.schema].allOf \in Seq(Schemas)
      /\ Props(v.schema) \subseteq Names
      /\ \A n \in Props(v.schema) : doc.schemas[v.schema].props[n].to \in Schemas
  BY <1>1, ContractFacts DEF Props
<1>3. CASE \E a \in Range(doc.schemas[v.schema].allOf) : u = [schema |-> a, path |-> v.path]
  <2>1. Range(doc.schemas[v.schema].allOf) \subseteq Schemas
    BY <1>2 DEF Range
  <2> QED  BY <1>1, <1>3, <2>1 DEF Nodes
<1>4. CASE \E n \in Props(v.schema) :
             u = [schema |-> doc.schemas[v.schema].props[n].to, path |-> Append(v.path, n)]
  BY <1>1, <1>2, <1>4 DEF Nodes
<1> QED  BY <1>3, <1>4 DEF Steps, Props

\* What being a walk means for its nodes.
LEMMA WalkFacts ==
    ASSUME NEW w, IsWalk(w)
    PROVE  /\ Len(w) \in Nat /\ Len(w) >= 1 /\ DOMAIN w = 1..Len(w)
           /\ \A i \in 1..Len(w) : w[i] \in Nodes /\ w[i].schema \in Schemas /\ w[i].path \in Seq(Names)
           /\ End(w) = w[Len(w)] /\ End(w) \in Nodes
<1>1. w \in Seq(Nodes) /\ w # <<>>
  BY DEF IsWalk
<1>2. Len(w) \in Nat /\ Len(w) >= 1 /\ DOMAIN w = 1..Len(w) /\ \A i \in 1..Len(w) : w[i] \in Nodes
  BY <1>1
<1>3. \A v \in Nodes : v.schema \in Schemas /\ v.path \in Seq(Names)
  BY DEF Nodes
<1> QED  BY <1>2, <1>3 DEF End

\* The stack is a walk.
LEMMA StackIsWalk ==
    ASSUME CompileInv, StackInv, phase = "body", frames # <<>>
    PROVE  LET w == [i \in DOMAIN frames |-> Node(i)] IN
           /\ IsWalk(w) /\ Len(w) = Len(frames) /\ \A i \in DOMAIN frames : w[i] = Node(i)
           /\ w[1].schema \in Range(Op.bodies)
<1> DEFINE w == [i \in DOMAIN frames |-> Node(i)]
           L == Len(frames)
<1>1. frames \in Seq(Frames) /\ L \in Nat /\ L >= 1 /\ DOMAIN frames = 1..L
  BY DEF CompileInv, StackOK
<1>2. \A i \in 1..L : frames[i] \in Frames
  BY <1>1
<1>3. \A i \in 1..L : Node(i) \in Nodes
  BY <1>2 DEF Node, NodeOf, Nodes, Frames
<1>4. DOMAIN w = 1..L /\ \A i \in 1..L : w[i] = Node(i)
  BY <1>1
<1>5. w \in Seq(Nodes) /\ Len(w) = L
  BY <1>1, <1>3
<1> HIDE DEF w
<1>6. w # <<>> /\ w[1].path = <<>> /\ w[1].schema \in Range(Op.bodies)
  <2>1. w[1] = Node(1)
    BY <1>1, <1>4
  <2> QED  BY <1>1, <1>5, <2>1 DEF StackInv, Node, NodeOf
<1>7. \A i \in 1..(L - 1) : w[i + 1] \in Steps(w[i])
  <2>1. \A i \in 1..(L - 1) : i \in 1..L /\ i + 1 \in 1..L
    BY <1>1
  <2> QED  BY <1>4, <2>1 DEF StackInv
<1>8. \A i, j \in 1..L : w[i].schema = w[j].schema => i = j
  <2>1. \A i \in 1..L : w[i].schema = frames[i].schema
    BY <1>4 DEF Node, NodeOf
  <2> QED  BY <1>1, <2>1 DEF CompileInv, StackOK
<1> HIDE DEF L
<1>9. IsWalk(w)
  BY <1>4, <1>5, <1>6, <1>7, <1>8 DEF IsWalk
<1> QED  BY <1>1, <1>4, <1>5, <1>6, <1>9 DEF w, L

-----------------------------------------------------------------------------
(* The catalog.                                                            *)

\* The key of every message a field declares is the field's.
LEMMA SaysFacts ==
    ASSUME NEW f, NEW m \in Says(f)
    PROVE  m.op = f.id /\ m.location = f.location /\ m.path = f.path
BY DEF Says, Declared

\* The path of a field has at least one step; an operation's messages have none.
LEMMA KnownPath ==
    ASSUME NEW f, Known(f)
    PROVE  f.path # <<>>
<1>1. PICK i \in DOMAIN doc.ops : FieldIn(i, f)
  BY DEF Known
<1>2. CASE \E k \in DOMAIN Parameters(doc.ops[i]) : f = ParameterField(doc.ops[i], k)
  BY <1>2 DEF ParameterField
<1>3. ASSUME NEW w, IsWalk(w), NEW n, f = BodyField(doc.ops[i], End(w), n)
      PROVE  f.path # <<>>
  <2>1. End(w).path \in Seq(Names)
    BY <1>3, WalkFacts DEF Nodes
  <2>2. f.path = Append(End(w).path, n)
    BY <1>3 DEF BodyField
  <2> QED  BY <2>1, <2>2
<1> QED  BY <1>1, <1>2, <1>3 DEF FieldIn

\* So the messages of operations and those of fields have different keys.
LEMMA KeysApart ==
    ASSUME NEW f, Known(f), NEW m \in Says(f), NEW o, NEW n \in OperationMessages(o)
    PROVE  ~SameKey(m, n) /\ ~SameKey(n, m)
<1>1. m.path # <<>>
  BY SaysFacts, KnownPath
<1>2. n.path = <<>>
  BY DEF OperationMessages
<1> QED  BY <1>1, <1>2 DEF SameKey

\* A field that cannot be compiled is a cause to refuse.
LEMMA FieldCause ==
    ASSUME SoundInv, NEW f, Known(f), FieldFails(f.id, f.location, f.path, f.field)
    PROVE  Cause
<1>1. CASE ~Accepted(f.id, f.field)
  BY <1>1 DEF Cause, Defective
<1>2. CASE Conflicting(messages \cup Says(f))
  <2>1. PICK m, n \in messages \cup Says(f) : SameKey(m, n) /\ m.text # n.text
    BY <1>2 DEF Conflicting
  <2>2. ASSUME NEW x \in Says(f), NEW y \in messages,
               Conflicting({x, y})
        PROVE  Cause
    <3>1. PICK a, b \in {x, y} : SameKey(a, b) /\ a.text # b.text
      BY <2>2 DEF Conflicting
    <3>2. CASE FromOperation(y)
      BY <3>1, <3>2, KeysApart DEF FromOperation
    <3>3. CASE FromField(y)
      <4>1. PICK g : Known(g) /\ y \in Says(g)
        BY <3>3 DEF FromField
      <4>2. a \in Says(f) \cup Says(g) /\ b \in Says(f) \cup Says(g)
        BY <3>1, <4>1
      <4>3. Conflicting(Says(f) \cup Says(g))
        BY <3>1, <4>2 DEF Conflicting
      <4> QED  BY <4>1, <4>3 DEF Cause
    <3> QED  BY <2>2, <3>2, <3>3 DEF SoundInv
  <2>3. CASE m \in messages /\ n \in messages
    BY <2>1, <2>3 DEF SoundInv, Conflicting
  <2>4. CASE m \in Says(f) /\ n \in messages
    BY <2>1, <2>2, <2>4 DEF Conflicting
  <2>5. CASE m \in messages /\ n \in Says(f)
    BY <2>1, <2>2, <2>5 DEF Conflicting
  <2>6. CASE m \in Says(f) /\ n \in Says(f)
    <3>1. Conflicting(Says(f) \cup Says(f))
      BY <2>1, <2>6 DEF Conflicting
    <3> QED  BY <3>1 DEF Cause
  <2> QED  BY <2>1, <2>3, <2>4, <2>5, <2>6
<1> QED  BY <1>1, <1>2 DEF FieldFails, Says

\* So is an operation.
LEMMA OperationCause ==
    ASSUME SoundInv, OperationFails
    PROVE  Cause
<1>1. cur \in DOMAIN doc.ops /\ Op = doc.ops[cur] /\ Op.ext # NoExt
  BY DEF OperationFails, Op
<1>2. CASE ~Op.ext.ok \/ Op.id = NoId
  BY <1>1, <1>2 DEF Cause
<1>3. CASE Conflicting(messages \cup OperationMessages(Op))
  <2>1. PICK m, n \in messages \cup OperationMessages(Op) : SameKey(m, n) /\ m.text # n.text
    BY <1>3 DEF Conflicting
  <2>2. ASSUME NEW x \in OperationMessages(Op), NEW y \in messages,
               Conflicting({x, y})
        PROVE  Cause
    <3>1. PICK a, b \in {x, y} : SameKey(a, b) /\ a.text # b.text
      BY <2>2 DEF Conflicting
    <3>2. CASE FromOperation(y)
      <4>1. PICK i \in DOMAIN doc.ops : doc.ops[i].ext # NoExt /\ y \in OperationMessages(doc.ops[i])
        BY <3>2 DEF FromOperation
      <4>2. a \in OperationMessages(Op) \cup OperationMessages(doc.ops[i])
            /\ b \in OperationMessages(Op) \cup OperationMessages(doc.ops[i])
        BY <3>1, <4>1
      <4>3. Conflicting(OperationMessages(Op) \cup OperationMessages(doc.ops[i]))
        BY <3>1, <4>2 DEF Conflicting
      <4> QED  BY <1>1, <4>1, <4>3 DEF Cause
    <3>3. CASE FromField(y)
      BY <3>1, <3>3, KeysApart DEF FromField
    <3> QED  BY <2>2, <3>2, <3>3 DEF SoundInv
  <2>3. CASE m \in messages /\ n \in messages
    BY <2>1, <2>3 DEF SoundInv, Conflicting
  <2>4. CASE m \in OperationMessages(Op) /\ n \in messages
    BY <2>1, <2>2, <2>4 DEF Conflicting
  <2>5. CASE m \in messages /\ n \in OperationMessages(Op)
    BY <2>1, <2>2, <2>5 DEF Conflicting
  <2>6. CASE m \in OperationMessages(Op) /\ n \in OperationMessages(Op)
    <3>1. Conflicting(OperationMessages(Op) \cup OperationMessages(Op))
      BY <2>1, <2>6 DEF Conflicting
    <3> QED  BY <1>1, <3>1 DEF Cause
  <2> QED  BY <2>1, <2>3, <2>4, <2>5, <2>6
<1> QED  BY <1>2, <1>3 DEF OperationFails

\* The catalog only grows.
Grows == messages \subseteq messages' /\ DOMAIN fieldRules \subseteq DOMAIN fieldRules'

\* What the catalog has stays there: it only grows.
LEMMA DoneStays ==
    ASSUME Grows, NEW f, DoneField(f)
    PROVE  DoneField(f)'
BY DEF Grows, DoneField

\* SoundInv speaks of the contract and the catalog only.
LEMMA SoundSame ==
    ASSUME SoundInv, UNCHANGED <<doc, messages, fieldRules>>
    PROVE  SoundInv' /\ Grows
<1>1. \A key, f : RuleOf(key, f)' <=> RuleOf(key, f)
  BY SameContract DEF RuleOf
<1>2. \A m : FromOperation(m)' <=> FromOperation(m)
  BY SameContract
<1>3. \A m : FromField(m)' <=> FromField(m)
  BY SameContract
<1> QED  BY <1>1, <1>2, <1>3 DEF SoundInv, Grows

\* compileField without an error: what field f declares gets into the
\* catalog, and nothing else.
LEMMA FieldCompiled ==
    ASSUME doc' = doc, SoundInv, NEW f, f.field.ext # NoExt => Known(f),
           CompileField(f.id, f.location, f.path, f.field)
    PROVE  SoundInv' /\ Grows /\ DoneField(f)'
<1> DEFINE key == FieldKey(f.id, f.location, f.path)
           rules == CustomRules(f.field.ext)
<1>1. CASE f.field.ext = NoExt
  <2>1. UNCHANGED <<messages, fieldRules>>
    BY <1>1 DEF CompileField
  <2> QED  BY <1>1, <2>1, SoundSame DEF DoneField
<1>2. CASE f.field.ext # NoExt
  <2>1. /\ messages' = messages \cup Says(f)
        /\ fieldRules' = IF rules = <<>> THEN fieldRules
                         ELSE [k \in DOMAIN fieldRules \cup {key} |-> IF k = key THEN rules ELSE fieldRules[k]]
        /\ Accepted(f.id, f.field) /\ ~Conflicting(messages \cup Says(f))
    BY <1>2 DEF CompileField, FieldFails, PutRules, Says
  <2>2. Known(f) /\ \A g : Known(g)' <=> Known(g)
    BY <1>2, SameContract
  <2> HIDE DEF key, rules
  <2>3. \A m \in messages' : (FromOperation(m) \/ FromField(m))'
    <3>1. \A m \in messages' : FromOperation(m) \/ FromField(m)
      BY <2>1, <2>2 DEF SoundInv, FromField
    <3> QED  BY <3>1, SameContract
  <2>4. ~Conflicting(messages')
    BY <2>1
  <2>5. \A k \in DOMAIN fieldRules' : \E g : RuleOf(k, g)'
    <3>1. CASE rules = <<>>
      <4>1. fieldRules' = fieldRules
        BY <2>1, <3>1
      <4> QED  BY <2>2, <4>1 DEF SoundInv, RuleOf
    <3>2. CASE rules # <<>>
      <4>1. /\ DOMAIN fieldRules' = DOMAIN fieldRules \cup {key}
            /\ fieldRules'[key] = rules
            /\ \A k \in DOMAIN fieldRules : k # key => fieldRules'[k] = fieldRules[k]
        BY <2>1, <3>2
      <4>2. RuleOf(key, f)'
        BY <2>2, <3>2, <4>1 DEF RuleOf, key, rules
      <4>3. ASSUME NEW k \in DOMAIN fieldRules, k # key PROVE \E g : RuleOf(k, g)'
        <5>1. PICK g : RuleOf(k, g)
          BY DEF SoundInv
        <5>2. RuleOf(k, g)'
          BY <2>2, <4>1, <4>3, <5>1 DEF RuleOf
        <5> QED  BY <5>2
      <4> QED  BY <4>1, <4>2, <4>3
    <3> QED  BY <3>1, <3>2
  <2>6. SoundInv'
    BY <2>3, <2>4, <2>5 DEF SoundInv, Conflicting
  <2>7. /\ Grows
        /\ rules # <<>> => key \in DOMAIN fieldRules'
    BY <2>1 DEF Grows
  <2>8. DoneField(f)'
    BY <2>1, <2>7 DEF DoneField, key, rules
  <2> QED  BY <2>6, <2>7, <2>8
<1> QED  BY <1>1, <1>2

\* The catalog stays sound when the messages of an operation are added.
LEMMA OperationCompiled ==
    ASSUME SoundInv, CompileOperation
    PROVE  SoundInv' /\ Grows
<1>1. doc' = doc /\ cur \in DOMAIN doc.ops /\ fieldRules' = fieldRules /\ Op = doc.ops[cur]
  BY DEF CompileOperation, Op
<1>2. CASE Op.ext = NoExt
  <2>1. messages' = messages
    BY <1>2 DEF CompileOperation
  <2> QED  BY <1>1, <2>1, SoundSame
<1>3. CASE Op.ext # NoExt
  <2>1. messages' = messages \cup OperationMessages(Op) /\ ~Conflicting(messages \cup OperationMessages(Op))
    BY <1>3 DEF CompileOperation
  <2>2. \A m \in OperationMessages(Op) : FromOperation(m)
    BY <1>1, <1>3 DEF FromOperation
  <2>3. \A m \in messages' : FromOperation(m) \/ FromField(m)
    BY <2>1, <2>2 DEF SoundInv
  <2>4. \A m \in messages' : (FromOperation(m) \/ FromField(m))'
    BY <1>1, <2>3, SameContract
  <2>5. \A key, f : RuleOf(key, f)' <=> RuleOf(key, f)
    BY <1>1, SameContract DEF RuleOf
  <2>6. ~Conflicting(messages')
    BY <2>1
  <2>7. SoundInv'
    BY <1>1, <2>4, <2>5, <2>6 DEF SoundInv, Conflicting
  <2> QED  BY <1>1, <2>1, <2>7 DEF Grows
<1> QED  BY <1>2, <1>3

-----------------------------------------------------------------------------
(* The stack.                                                              *)

\* A step within an operation leaves the operation at hand.
LEMMA SameOp ==
    ASSUME UNCHANGED <<doc, cur>>
    PROVE  /\ Op' = Op
           /\ \A v, n : BodyField(Op, v, n)' = BodyField(Op, v, n)
           /\ \A k : ParameterField(Op, k)' = ParameterField(Op, k)
<1>1. Op' = Op
  BY DEF Op
<1> QED  BY <1>1 DEF BodyField, Field, ParameterField, Parameters

\* The fields that are done stay done ...
LEMMA DoneFieldsStay ==
    ASSUME UNCHANGED <<doc, cur>>, Grows
    PROVE  /\ \A v, n : DoneField(BodyField(Op, v, n)) => DoneField(BodyField(Op, v, n))'
           /\ \A k : DoneField(ParameterField(Op, k)) => DoneField(ParameterField(Op, k))'
<1>1. ASSUME NEW v, NEW n, DoneField(BodyField(Op, v, n)) PROVE DoneField(BodyField(Op, v, n))'
  <2>1. PICK f : f = BodyField(Op, v, n)
    OBVIOUS
  <2>2. DoneField(f)'
    BY <1>1, <2>1, DoneStays
  <2>3. f = BodyField(Op, v, n)'
    BY <2>1, SameOp
  <2> QED  BY <2>2, <2>3 DEF DoneField
<1>2. ASSUME NEW k, DoneField(ParameterField(Op, k)) PROVE DoneField(ParameterField(Op, k))'
  <2>1. PICK f : f = ParameterField(Op, k)
    OBVIOUS
  <2>2. DoneField(f)'
    BY <1>2, <2>1, DoneStays
  <2>3. f = ParameterField(Op, k)'
    BY <2>1, SameOp
  <2> QED  BY <2>2, <2>3 DEF DoneField
<1> QED  BY <1>1, <1>2

\* ... and so do the walks below a call, as long as the calls above it stay.
LEMMA AllBelowStays ==
    ASSUME UNCHANGED <<doc, cur>>, Grows, NEW i, NEW v, AllBelow(i, v),
           \A j \in 1..i : Node(j)' = Node(j)
    PROVE  AllBelow(i, v)'
<1>1. ASSUME NEW w, WalkDone(w) PROVE WalkDone(w)'
  <2>1. Props(End(w).schema)' = Props(End(w).schema)
    BY DEF Props
  <2>2. \A n \in Props(End(w).schema) : DoneField(BodyField(Op, End(w), n))'
    BY <1>1, DoneFieldsStay DEF WalkDone
  <2> QED  BY <2>1, <2>2 DEF WalkDone
<1>2. ASSUME NEW w, IsWalk(w)', i + 1 <= Len(w), w[i + 1] = v, \A j \in 1..i : w[j] = Node(j)'
      PROVE  WalkDone(w)'
  <2>1. IsWalk(w)
    BY <1>2, SameContract
  <2>2. \A j \in 1..i : w[j] = Node(j)
    BY <1>2
  <2>3. WalkDone(w)
    BY <1>2, <2>1, <2>2 DEF AllBelow
  <2> QED  BY <1>1, <2>3
<1> QED  BY <1>2 DEF AllBelow

\* Operations that were done stay done.
LEMMA OpDoneStays ==
    ASSUME doc' = doc, Grows, NEW i, OpDone(i)
    PROVE  OpDone(i)'
<1>1. \A f : FieldIn(i, f)' <=> FieldIn(i, f)
  BY SameContract
<1>2. \A f : DoneField(f) => DoneField(f)'
  BY DoneStays
<1> QED  BY <1>1, <1>2 DEF OpDone

\* The topmost call becomes top and calls s.
GoesTo(top, s, path) ==
    LET L == Len(frames) IN
    /\ L \in Nat /\ L >= 1 /\ DOMAIN frames = 1..L
    /\ \A i \in 1..(L - 1) : frames'[i] = frames[i]
    /\ frames'[L] = top /\ top.schema = Top.schema /\ top.path = Top.path
    /\ \/ OnStack(s) /\ Len(frames') = L
       \/ ~OnStack(s) /\ Len(frames') = L + 1 /\ frames'[L + 1] = Frame(s, path)
    /\ DOMAIN frames' = 1..Len(frames')

\* A call goes on to a node: what becomes of the stack ...
LEMMA GoesToFacts ==
    ASSUME CompileInv, frames # <<>>, NEW top \in Frames, NEW s \in Schemas, NEW path \in Seq(Names),
           top.schema = Top.schema, top.path = Top.path,
           frames' = Called(Caller(top), s, path)
    PROVE  GoesTo(top, s, path)
<1> DEFINE fs == Caller(top)
<1>0. PICK L : L = Len(frames)
  OBVIOUS
<1>1. frames \in Seq(Frames) /\ L \in Nat /\ L >= 1 /\ DOMAIN frames = 1..L
  BY <1>0 DEF CompileInv, StackOK
<1>2. fs \in Seq(Frames) /\ Len(fs) = L /\ DOMAIN fs = 1..L
  BY <1>0, <1>1 DEF Caller
<1>a. \A i \in DOMAIN frames : fs[i] = IF i = L THEN top ELSE frames[i]
  BY <1>0, <1>1 DEF Caller
<1>b. L \in DOMAIN frames /\ \A i \in 1..(L - 1) : i \in DOMAIN frames /\ i # L
  BY <1>1
<1>3. /\ fs[L] = top
      /\ \A i \in 1..(L - 1) : fs[i] = frames[i]
  BY <1>a, <1>b
<1> HIDE DEF fs
<1>4. CASE OnStack(s)
  <2>1. frames' = fs
    BY <1>4 DEF Called, fs
  <2> QED  BY <1>0, <1>1, <1>2, <1>3, <1>4, <2>1 DEF GoesTo
<1>5. CASE ~OnStack(s)
  <2>1. frames' = Append(fs, Frame(s, path))
    BY <1>5 DEF Called, fs
  <2>2. Frame(s, path) \in Frames
    BY ContractFacts DEF Frame, Frames, CompileInv
  <2> DEFINE new == Frame(s, path)
  <2> HIDE DEF new
  <2>3. /\ frames' = Append(fs, new) /\ new \in Frames
    BY <2>1, <2>2 DEF new
  <2>4. /\ Len(frames') = L + 1 /\ DOMAIN frames' = 1..(L + 1) /\ frames'[L + 1] = new
        /\ \A i \in 1..L : frames'[i] = fs[i]
    BY <1>1, <1>2, <2>3
  <2>5. L \in 1..L /\ \A i \in 1..(L - 1) : i \in 1..L
    BY <1>1
  <2>6. frames'[L] = top /\ \A i \in 1..(L - 1) : frames'[i] = frames[i]
    BY <1>3, <2>4, <2>5
  <2> QED  BY <1>0, <1>1, <1>5, <2>4, <2>6 DEF GoesTo, new
<1> QED  BY <1>4, <1>5

\* ... and of the nodes on it.
LEMMA GoesToNodes ==
    ASSUME NEW top, NEW s, NEW path, GoesTo(top, s, path)
    PROVE  /\ \A i \in DOMAIN frames : NodeOf(frames'[i]) = Node(i)
           /\ \A i \in DOMAIN frames : frames'[i].schema = frames[i].schema
           /\ ~OnStack(s) => NodeOf(frames'[Len(frames) + 1]) = [schema |-> s, path |-> path]
<1>0. PICK L : L = Len(frames)
  BY ZenonT(60)
<1>1. /\ L \in Nat /\ L >= 1 /\ DOMAIN frames = 1..L
      /\ \A i \in 1..(L - 1) : frames'[i] = frames[i]
      /\ frames'[L] = top /\ top.schema = Top.schema /\ top.path = Top.path
      /\ ~OnStack(s) => frames'[L + 1] = Frame(s, path)
      /\ Top = frames[L]
  BY ZenonT(60), <1>0 DEF GoesTo, Top
<1>2. ASSUME NEW i \in 1..L
      PROVE  frames'[i].schema = frames[i].schema /\ frames'[i].path = frames[i].path
  <2>1. CASE i = L
    BY <1>1, <2>1
  <2>2. CASE i # L
    <3>1. i \in 1..(L - 1)
      BY <1>1, <2>2
    <3> QED  BY <1>1, <3>1
  <2> QED  BY <2>1, <2>2
<1>3. \A i \in DOMAIN frames : NodeOf(frames'[i]) = Node(i) /\ frames'[i].schema = frames[i].schema
  BY <1>1, <1>2 DEF Node, NodeOf
<1>4. ~OnStack(s) => NodeOf(frames'[L + 1]) = [schema |-> s, path |-> path]
  BY <1>1 DEF Node, NodeOf, Frame
<1> QED  BY <1>0, <1>3, <1>4

\* The stack stays a walk when the call goes along a step.
LEMMA GoesToStack ==
    ASSUME CompileInv, StackInv, phase = "body", frames # <<>>, NEW top, NEW s, NEW path, GoesTo(top, s, path),
           UNCHANGED <<doc, phase, cur, params, bodies>>,
           [schema |-> s, path |-> path] \in Steps(Node(Len(frames))),
           Range(top.allOf) \subseteq Range(Top.allOf)
    PROVE  StackInv'
<1>0. PICK L : L = Len(frames)
  OBVIOUS
<1>1. /\ L \in Nat /\ L >= 1 /\ DOMAIN frames = 1..L
      /\ \A i \in 1..(L - 1) : frames'[i] = frames[i]
      /\ frames'[L] = top /\ top.schema = Top.schema /\ top.path = Top.path
      /\ \/ OnStack(s) /\ Len(frames') = L
         \/ ~OnStack(s) /\ Len(frames') = L + 1 /\ frames'[L + 1] = Frame(s, path)
      /\ DOMAIN frames' = 1..Len(frames')
      /\ Top = frames[L]
  BY ZenonT(60), <1>0 DEF GoesTo, Top
<1>n. L \in Nat /\ L >= 1
  BY ZenonT(60), <1>1
<1>d. DOMAIN frames' = 1..L \/ (~OnStack(s) /\ DOMAIN frames' = 1..(L + 1))
  BY ZenonT(60), <1>1
<1>s. [schema |-> s, path |-> path] \in Steps(Node(L))
  BY SMTT(40), <1>0
<1>i. /\ \A i \in 1..(L - 1) : Node(i + 1) \in Steps(Node(i))
      /\ \A i \in 1..L : Range(frames[i].allOf) \subseteq Range(doc.schemas[frames[i].schema].allOf)
  BY ZenonT(60), <1>0, <1>1 DEF StackInv
<1>2. /\ \A i \in 1..L : NodeOf(frames'[i]) = Node(i)
      /\ \A i \in 1..L : frames'[i].schema = frames[i].schema
      /\ ~OnStack(s) => NodeOf(frames'[L + 1]) = [schema |-> s, path |-> path]
  BY ZenonT(60), <1>0, <1>1, GoesToNodes
<1>3. Op' = Op /\ \A v : Steps(v)' = Steps(v)
  BY SameOp, SameContract
<1>4. 1 \in 1..L /\ L \in 1..L
  BY <1>n
<1>5. frames'[1].path = <<>> /\ frames'[1].schema \in Range(Op.bodies)
  <2>1. NodeOf(frames'[1]) = Node(1)
    BY <1>2, <1>4
  <2>2. frames'[1].path = frames[1].path /\ frames'[1].schema = frames[1].schema
    BY <2>1 DEF Node, NodeOf
  <2> QED  BY <1>4, <2>2 DEF StackInv
<1>6. \A i \in 1..(Len(frames') - 1) : NodeOf(frames'[i + 1]) \in Steps(NodeOf(frames'[i]))
  <2>1. ASSUME NEW i \in 1..(L - 1) PROVE NodeOf(frames'[i + 1]) \in Steps(NodeOf(frames'[i]))
    <3>1. i \in 1..L /\ i + 1 \in 1..L
      BY <1>n
    <3> QED  BY <1>i, <1>2, <3>1
  <2>2. ~OnStack(s) => NodeOf(frames'[L + 1]) \in Steps(NodeOf(frames'[L]))
    <3>1. NodeOf(frames'[L]) = Node(L)
      BY <1>2, <1>4
    <3> QED  BY <1>s, <1>2, <3>1
  <2>3. CASE OnStack(s)
    BY <1>1, <2>1, <2>3
  <2>4. CASE ~OnStack(s)
    <3>0. Len(frames') = L + 1
      BY ZenonT(60), <1>1, <2>4
    <3>1. \A i \in 1..(Len(frames') - 1) : i \in 1..(L - 1) \/ i = L
      BY <1>n, <3>0
    <3> QED  BY <2>1, <2>2, <2>4, <3>1
  <2> QED  BY <2>3, <2>4
<1>7. \A i \in DOMAIN frames' : Range(frames'[i].allOf) \subseteq Range(doc.schemas[frames'[i].schema].allOf)
  <2>1. ASSUME NEW i \in 1..(L - 1) PROVE Range(frames'[i].allOf) \subseteq Range(doc.schemas[frames'[i].schema].allOf)
    <3>1. i \in 1..L
      BY <1>n
    <3> QED  BY ZenonT(60), <1>i, <1>1, <3>1
  <2>2. Range(frames'[L].allOf) \subseteq Range(doc.schemas[frames'[L].schema].allOf)
    <3>1. frames'[L] = top /\ top.schema = Top.schema /\ Top = frames[L]
      BY <1>1, ZenonT(60)
    <3>2. Range(frames[L].allOf) \subseteq Range(doc.schemas[frames[L].schema].allOf)
      BY <1>i, <1>4, ZenonT(60)
    <3> QED  BY <3>1, <3>2, ZenonT(60)
  <2>3. ~OnStack(s) => Range(frames'[L + 1].allOf) \subseteq Range(doc.schemas[frames'[L + 1].schema].allOf)
    <3>1. ~OnStack(s) => frames'[L + 1] = Frame(s, path)
      BY ZenonT(60), <1>1
    <3>2. Frame(s, path).allOf = doc.schemas[s].allOf /\ Frame(s, path).schema = s
      BY DEF Frame
    <3> QED  BY <3>1, <3>2
  <2>4. \A i \in DOMAIN frames' : i \in 1..(L - 1) \/ i = L \/ (~OnStack(s) /\ i = L + 1)
    BY <1>n, <1>d
  <2> QED  BY ZenonT(60), <2>1, <2>2, <2>3, <2>4
<1>8. \A i \in 1..(Len(frames') - 1) : (Node(i + 1) \in Steps(Node(i)))'
  <2>1. ASSUME NEW i \in 1..(Len(frames') - 1) PROVE Steps(Node(i))' = Steps(NodeOf(frames'[i]))
    BY DEF Steps, Node, NodeOf
  <2> QED  BY <1>6, <2>1 DEF Node
<1> QED  BY ZenonT(60), <1>3, <1>5, <1>7, <1>8 DEF StackInv

\* A call that has just begun has everything left.
LEMMA NewFrame ==
    ASSUME doc' = doc, NEW i, NEW s, NEW path, frames'[i] = Frame(s, path)
    PROVE  FrameInv(i)'
<1>1. /\ frames'[i].schema = s /\ frames'[i].path = path
      /\ frames'[i].allOf = doc.schemas[s].allOf /\ frames'[i].props = DOMAIN doc.schemas[s].props
  BY DEF Frame
<1>2. \A n \in Props(frames[i].schema)' \ frames'[i].props : FALSE
  BY <1>1 DEF Props
<1>3. ASSUME NEW v \in Steps(Node(i))' PROVE Pending(frames[i], v)'
  BY <1>1 DEF Steps, Node, NodeOf, Pending
<1> QED  BY <1>2, <1>3 DEF FrameInv, Open

\* What is done of a call that is not on top stays done.
LEMMA LowerFrame ==
    ASSUME UNCHANGED <<doc, cur>>, Grows, NEW i \in Nat, FrameInv(i), frames'[i] = frames[i],
           \A j \in 1..i : Node(j)' = Node(j),
           \A j \in 1..i : frames'[j].schema = frames[j].schema,
           \A v : i < Len(frames) /\ v = Node(i + 1) =>
                (i < Len(frames') /\ v = NodeOf(frames'[i + 1])) \/ AllBelow(i, v)'
    PROVE  FrameInv(i)'
<1>1. \A n \in (Props(frames[i].schema) \ frames[i].props)' : DoneField(BodyField(Op, Node(i), n))'
  <2>1. PICK v : v = Node(i)
    OBVIOUS
  <2>2. v = Node(i)'
    BY <2>1 DEF Node
  <2>3. \A n \in Props(frames[i].schema) \ frames[i].props : DoneField(BodyField(Op, v, n))'
    BY <2>1, DoneFieldsStay DEF FrameInv
  <2>4. (Props(frames[i].schema) \ frames[i].props)' = Props(frames[i].schema) \ frames[i].props
    BY DEF Props
  <2> QED  BY <2>2, <2>3, <2>4
<1>2. ASSUME NEW v \in Steps(Node(i))' PROVE Open(i, v)' \/ AllBelow(i, v)'
  <2>1. v \in Steps(Node(i))
    BY ZenonT(60) DEF Steps, Node
  <2>2. CASE AllBelow(i, v)
    BY <2>2, AllBelowStays
  <2>3. CASE Pending(frames[i], v)
    <3>1. Pending(frames[i], v)'
      BY <2>3 DEF Pending
    <3> QED  BY <3>1, ZenonT(60) DEF Open
  <2>4. CASE i < Len(frames) /\ v = Node(i + 1)
    <3>1. (i < Len(frames') /\ v = NodeOf(frames'[i + 1])) \/ AllBelow(i, v)'
      BY <2>4
    <3> QED  BY <3>1 DEF Open, Node
  <2>5. CASE \E j \in 1..i : frames[j].schema = v.schema
    BY <2>5 DEF Open
  <2> QED  BY SMTT(40), <2>1, <2>2, <2>3, <2>4, <2>5 DEF FrameInv, Open
<1> QED  BY <1>1, <1>2 DEF FrameInv

\* Nothing is lost when the topmost call, having compiled the properties it
\* takes off its list, goes along a step that it takes off its list.
LEMMA GoesToDone ==
    ASSUME CompileInv, StackInv, DoneInv, phase = "body", frames # <<>>,
           NEW top, NEW s, NEW path, GoesTo(top, s, path),
           UNCHANGED <<doc, phase, cur, params, bodies>>, Grows,
           \A n \in Top.props \ top.props : \A v : v = Node(Len(frames)) => DoneField(BodyField(Op, v, n))',
           \A v : Pending(Top, v) => Pending(top, v) \/ v = [schema |-> s, path |-> path]
    PROVE  DoneInv'
<1>0. PICK L : L = Len(frames)
  BY ZenonT(60)
<1>1. /\ L \in Nat /\ L >= 1 /\ DOMAIN frames = 1..L
      /\ \A i \in 1..(L - 1) : frames'[i] = frames[i]
      /\ frames'[L] = top /\ top.schema = Top.schema /\ top.path = Top.path
      /\ \/ OnStack(s) /\ Len(frames') = L
         \/ ~OnStack(s) /\ Len(frames') = L + 1 /\ frames'[L + 1] = Frame(s, path)
      /\ DOMAIN frames' = 1..Len(frames')
      /\ Top = frames[L]
  BY ZenonT(60), <1>0 DEF GoesTo, Top
<1>n. L \in Nat /\ L >= 1 /\ Len(frames) = L
  BY ZenonT(60), <1>0, <1>1
<1>e. /\ Len(frames') = L \/ Len(frames') = L + 1
      /\ ~OnStack(s) => Len(frames') = L + 1
  BY ZenonT(60), <1>1
<1>l. L <= Len(frames') /\ Len(frames') \in Nat
  BY SMTT(40), <1>n, <1>e
<1>d. DOMAIN frames' = 1..L \/ (~OnStack(s) /\ DOMAIN frames' = 1..(L + 1))
  BY ZenonT(60), <1>1
<1>2. /\ \A i \in 1..L : NodeOf(frames'[i]) = Node(i)
      /\ \A i \in 1..L : frames'[i].schema = frames[i].schema
      /\ ~OnStack(s) => NodeOf(frames'[L + 1]) = [schema |-> s, path |-> path]
  BY ZenonT(60), <1>0, <1>1, GoesToNodes
<1>3. \A i \in 1..L : Node(i)' = Node(i)
  BY <1>2 DEF Node
<1>4. 1 \in 1..L /\ L \in 1..L
  BY <1>n
<1>5. \A i \in DOMAIN doc.ops : (i < cur \/ phase = "ready" => OpDone(i))'
  <2>1. \A i : OpDone(i) => OpDone(i)'
    BY OpDoneStays
  <2> QED  BY <2>1 DEF DoneInv
<1>6. \A k \in DOMAIN Parameters(Op)' : DoneField(ParameterField(Op, k))'
  <2>1. DOMAIN Parameters(Op)' = DOMAIN Parameters(Op)
    BY SameOp
  <2> QED  BY <2>1, DoneFieldsStay DEF DoneInv
<1>7. ASSUME NEW b \in Range(Op.bodies)' PROVE BodyInv(b)'
  <2>1. BodyInv(b)
    BY SameOp DEF DoneInv
  <2>2. CASE b \in Range(bodies)
    BY <2>2 DEF BodyInv
  <2>3. CASE Node(1) = Root(b)
    <3>1. Node(1)' = Root(b)
      BY <1>3, <1>4, <2>3
    <3>2. frames' # <<>>
      BY <1>l, <1>n
    <3> QED  BY <3>1, <3>2 DEF BodyInv, Root
  <2>4. CASE AllBelow(0, Root(b))
    <3>1. PICK v : v = Root(b)
      OBVIOUS
    <3>2. AllBelow(0, v)'
      BY <2>4, <3>1, AllBelowStays
    <3> QED  BY <3>1, <3>2 DEF BodyInv, Root
  <2> QED  BY <2>1, <2>2, <2>3, <2>4 DEF BodyInv
<1>8. ASSUME NEW i \in 1..(L - 1) PROVE FrameInv(i)'
  <2>1. i \in 1..L /\ i + 1 \in 1..L /\ i \in Nat /\ i < L /\ \A j \in 1..i : j \in 1..L
    BY <1>n
  <2>2. FrameInv(i)
    BY ZenonT(60), <1>1, <2>1 DEF DoneInv
  <2>3. i < Len(frames') /\ Node(i + 1) = NodeOf(frames'[i + 1])
    BY SMTT(40), <1>2, <1>l, <1>n, <2>1
  <2>4. frames'[i] = frames[i]
    BY ZenonT(60), <1>1
  <2>5. \A j \in 1..i : Node(j)' = Node(j) /\ frames'[j].schema = frames[j].schema
    BY <1>2, <1>3, <2>1
  <2> QED  BY <2>1, <2>2, <2>3, <2>4, <2>5, LowerFrame
<1>9. FrameInv(L)'
  <2>0. FrameInv(L) /\ Node(L)' = Node(L) /\ \A j \in 1..L : Node(j)' = Node(j)
    BY ZenonT(60), <1>1, <1>3, <1>4 DEF DoneInv
  <2>1. \A n \in (Props(frames[L].schema) \ frames[L].props)' : DoneField(BodyField(Op, Node(L), n))'
    <3>1. PICK v : v = Node(L)
      OBVIOUS
    <3>2. v = Node(L)'
      BY SMTT(40), <1>3, <1>4, <3>1
    <3>3. \A n \in Props(Top.schema) \ Top.props : DoneField(BodyField(Op, v, n))'
      BY ZenonT(60), <1>1, <2>0, <3>1, DoneFieldsStay DEF FrameInv
    <3>4. \A n \in Top.props \ top.props : DoneField(BodyField(Op, v, n))'
      BY SMTT(40), <1>0, <3>1
    <3>5. (Props(frames[L].schema) \ frames[L].props)' = Props(Top.schema) \ top.props
      BY ZenonT(60), <1>1 DEF Props
    <3>6. \A n \in Props(Top.schema) \ top.props : DoneField(BodyField(Op, v, n))'
      BY <3>3, <3>4
    <3> QED  BY <3>2, <3>5, <3>6
  <2>2. ASSUME NEW v \in Steps(Node(L))' PROVE Open(L, v)' \/ AllBelow(L, v)'
    <3>1. v \in Steps(Node(L))
      BY <2>0 DEF Steps
    <3>2. CASE AllBelow(L, v)
      BY <2>0, <3>2, AllBelowStays
    <3>3. CASE Pending(top, v)
      <4>1. Pending(frames[L], v)'
        BY ZenonT(60), <1>1, <3>3 DEF Pending
      <4> QED  BY SMTT(40), <4>1 DEF Open
    <3>4. CASE v = [schema |-> s, path |-> path]
      <4>1. CASE OnStack(s)
        <5>1. \E j \in 1..L : frames[j].schema = s
          BY <1>1, <4>1, ZenonT(60) DEF OnStack
        <5>2. \E j \in 1..L : frames'[j].schema = v.schema
          BY <1>2, <3>4, <5>1
        <5> QED  BY <5>2, ZenonT(60) DEF Open
      <4>2. CASE ~OnStack(s)
        <5>1. L < Len(frames')
          BY <1>e, <1>n, <4>2
        <5>2. v = NodeOf(frames'[L + 1])
          BY <1>2, <3>4, <4>2
        <5> QED  BY <5>1, <5>2 DEF Open, Node
      <4> QED  BY <4>1, <4>2
    <3>5. CASE \E j \in 1..L : frames[j].schema = v.schema
      <4>1. \E j \in 1..L : frames'[j].schema = v.schema
        BY <1>2, <3>5
      <4> QED  BY <4>1 DEF Open
    <3>6. ~(L < Len(frames))
      BY SMTT(40), <1>n
    <3>7. Pending(frames[L], v) => Pending(top, v) \/ v = [schema |-> s, path |-> path]
      BY ZenonT(60), <1>1
    <3> QED  BY <2>0, <3>1, <3>2, <3>3, <3>4, <3>5, <3>6, <3>7 DEF FrameInv, Open
  <2> QED  BY SMTT(40), <2>1, <2>2 DEF FrameInv
<1>10. ~OnStack(s) => FrameInv(L + 1)'
  <2>1. ~OnStack(s) => frames'[L + 1] = Frame(s, path)
    BY ZenonT(60), <1>1
  <2> QED  BY SMTT(40), <2>1, NewFrame
<1>11. \A i \in DOMAIN frames' : i \in 1..(L - 1) \/ i = L \/ (~OnStack(s) /\ i = L + 1)
  BY <1>n, <1>d
<1>12. \A i \in DOMAIN frames' : FrameInv(i)'
  BY <1>8, <1>9, <1>10, <1>11
<1> QED  BY <1>5, <1>6, <1>7, <1>12 DEF DoneInv

\* When the topmost call has nothing left, all walks through it are done.
LEMMA TopDone ==
    ASSUME CompileInv, StackInv, DoneInv, phase = "body", frames # <<>>,
           Top.allOf = <<>>, Top.props = {}
    PROVE  \A L : L = Len(frames) => AllBelow(L - 1, Node(L))
<1> SUFFICES ASSUME NEW L, L = Len(frames) PROVE AllBelow(L - 1, Node(L))
  OBVIOUS
<1>1. L \in Nat /\ L >= 1 /\ DOMAIN frames = 1..L /\ Top = frames[L]
  BY DEF CompileInv, StackOK, Top
<1>n. L \in Nat /\ L >= 1 /\ L \in 1..L
  BY <1>1
<1>2. FrameInv(L)
  BY <1>1, <1>n DEF DoneInv
<1>3. \A v : ~Pending(frames[L], v)
  BY <1>1 DEF Pending, Range
<1>4. ASSUME NEW w, IsWalk(w), (L - 1) + 1 <= Len(w), w[(L - 1) + 1] = Node(L),
             \A j \in 1..(L - 1) : w[j] = Node(j)
      PROVE  WalkDone(w)
  <2>1. Len(w) \in Nat /\ DOMAIN w = 1..Len(w) /\ End(w) = w[Len(w)]
    BY <1>4, WalkFacts
  <2>2. L <= Len(w) /\ w[L] = Node(L)
    BY <1>n, <1>4
  <2>3. \A j \in 1..L : w[j] = Node(j)
    <3>1. \A j \in 1..L : j \in 1..(L - 1) \/ j = L
      BY <1>n
    <3> QED  BY <1>4, <2>2, <3>1
  <2>4. CASE Len(w) = L
    <3>1. End(w) = Node(L) /\ End(w).schema = frames[L].schema
      BY <2>1, <2>2, <2>4 DEF Node, NodeOf
    <3>2. \A n \in Props(frames[L].schema) : DoneField(BodyField(Op, Node(L), n))
      BY <1>1, <1>2 DEF FrameInv
    <3> QED  BY <3>1, <3>2 DEF WalkDone
  <2>5. CASE Len(w) # L
    <3>m. PICK m : m = Len(w)
      OBVIOUS
    <3>n. m \in Nat /\ L <= m /\ m # L
      BY <2>1, <2>2, <2>5, <3>m
    <3>a. L + 1 <= m /\ L \in 1..(m - 1) /\ L + 1 \in 1..m
      BY <1>n, <3>n
    <3>1. L + 1 <= Len(w) /\ L \in 1..(Len(w) - 1) /\ L + 1 \in 1..Len(w)
      BY <3>a, <3>m
    <3>2. w[L + 1] \in Steps(w[L])
      <4>1. \A i \in 1..(Len(w) - 1) : w[i + 1] \in Steps(w[i])
        BY <1>4, Zenon DEF IsWalk
      <4> QED  BY <3>1, <4>1, Zenon
    <3>3. Open(L, w[L + 1]) \/ AllBelow(L, w[L + 1])
      BY <1>2, <2>2, <3>2 DEF FrameInv
    <3>4. ~(L < Len(frames))
      BY <1>n
    <3>5. ASSUME NEW j \in 1..L, frames[j].schema = w[L + 1].schema PROVE FALSE
      <4>0. w[j] = Node(j) /\ Node(j).schema = frames[j].schema
        BY <2>3, Zenon DEF Node, NodeOf
      <4>1. w[j].schema = frames[j].schema
        BY <4>0
      <4>a. j \in 1..m /\ j # L + 1
        BY <1>n, <3>n
      <4>2. j \in 1..Len(w) /\ j # L + 1
        BY <3>m, <4>a
      <4>3. \A i, k \in 1..Len(w) : w[i].schema = w[k].schema => i = k
        BY <1>4, <2>1, Zenon DEF IsWalk
      <4> QED  BY <3>1, <3>5, <4>1, <4>2, <4>3, Zenon
    <3>6. AllBelow(L, w[L + 1])
      BY <1>3, <3>3, <3>4, <3>5 DEF Open
    <3> QED  BY <1>4, <2>3, <3>1, <3>6 DEF AllBelow
  <2> QED  BY <2>4, <2>5
<1> QED  BY <1>4 DEF AllBelow

\* A call returns: what becomes of the stack, ...
LEMMA ReturnFacts ==
    ASSUME CompileInv, Return
    PROVE  \A L : L = Len(frames) =>
             /\ L \in Nat /\ L >= 1 /\ DOMAIN frames = 1..L
             /\ Len(frames') = L - 1 /\ DOMAIN frames' = 1..(L - 1)
             /\ \A i \in 1..(L - 1) : frames'[i] = frames[i]
<1> SUFFICES ASSUME NEW L, L = Len(frames)
             PROVE  /\ L \in Nat /\ L >= 1 /\ DOMAIN frames = 1..L
                    /\ Len(frames') = L - 1 /\ DOMAIN frames' = 1..(L - 1)
                    /\ \A i \in 1..(L - 1) : frames'[i] = frames[i]
  OBVIOUS
<1>1. frames \in Seq(Frames) /\ frames # <<>> /\ frames' = SubSeq(frames, 1, L - 1)
  BY DEF CompileInv, StackOK, Return
<1>2. L \in Nat /\ L >= 1 /\ DOMAIN frames = 1..L
  BY <1>1
<1> QED  BY <1>1, <1>2

\* ... it stays a walk, ...
LEMMA ReturnStack ==
    ASSUME CompileInv, StackInv, Return
    PROVE  StackInv'
<1>0. PICK L : L = Len(frames)
  OBVIOUS
<1>1. /\ L \in Nat /\ L >= 1 /\ DOMAIN frames = 1..L
      /\ Len(frames') = L - 1 /\ DOMAIN frames' = 1..(L - 1)
      /\ \A i \in 1..(L - 1) : frames'[i] = frames[i]
  BY <1>0, ReturnFacts
<1>2. /\ UNCHANGED <<doc, phase, cur, params, bodies>> /\ phase = "body" /\ frames # <<>>
      /\ Op' = Op
  BY SameOp DEF Return
<1>3. L - 1 \in Nat /\ \A i \in 1..(L - 2) : i \in 1..(L - 1) /\ i + 1 \in 1..(L - 1)
  BY <1>1
<1>4. \A i \in 1..(L - 1) : Node(i)' = Node(i)
  BY <1>1 DEF Node
<1>5. \A i \in 1..(L - 2) : Steps(Node(i))' = Steps(Node(i))
  BY <1>1, <1>2, <1>3 DEF Steps, Node
<1>6. \A i \in 1..(Len(frames') - 1) : (Node(i + 1) \in Steps(Node(i)))'
  <2>1. \A i \in 1..(L - 1) : Node(i + 1) \in Steps(Node(i))
    BY <1>0, <1>2 DEF StackInv
  <2>2. Len(frames') - 1 = L - 2
    BY <1>1
  <2>3. ASSUME NEW i \in 1..(L - 2) PROVE (Node(i + 1) \in Steps(Node(i)))'
    <3>1. Node(i + 1)' = Node(i + 1)
      BY <1>3, <1>4
    <3> QED  BY <1>3, <1>5, <2>1, <3>1
  <2> QED  BY <2>2, <2>3
<1>7. frames' # <<>> => frames'[1].path = <<>> /\ frames'[1].schema \in Range(Op.bodies)
  <2>1. CASE L = 1
    BY <1>1, <2>1
  <2>2. CASE L # 1
    <3>1. 1 \in 1..(L - 1)
      BY <1>1, <2>2
    <3> QED  BY <1>1, <1>2, <3>1 DEF StackInv
  <2> QED  BY <2>1, <2>2
<1>8. \A i \in DOMAIN frames' : Range(frames'[i].allOf) \subseteq Range(doc.schemas[frames'[i].schema].allOf)
  <2>1. \A i \in 1..(L - 1) : i \in 1..L
    BY <1>1
  <2> QED  BY <1>1, <1>2, <2>1 DEF StackInv
<1> QED  BY <1>2, <1>6, <1>7, <1>8 DEF StackInv

\* ... and all that the call had to do is done.
LEMMA ReturnDone ==
    ASSUME CompileInv, StackInv, DoneInv, Return
    PROVE  DoneInv'
<1>0. PICK L : L = Len(frames)
  OBVIOUS
<1>1. /\ L \in Nat /\ L >= 1 /\ DOMAIN frames = 1..L
      /\ Len(frames') = L - 1 /\ DOMAIN frames' = 1..(L - 1)
      /\ \A i \in 1..(L - 1) : frames'[i] = frames[i]
  BY <1>0, ReturnFacts
<1>2. UNCHANGED <<doc, phase, cur, params, bodies, messages, fieldRules>> /\ phase = "body"
  BY DEF Return, catalog
<1>3. Grows
  BY <1>2 DEF Grows
<1>n. L \in Nat /\ L >= 1 /\ L - 1 \in Nat
  BY <1>1
<1>4. \A i \in 1..(L - 1) : Node(i)' = Node(i) /\ frames'[i].schema = frames[i].schema
  BY <1>1 DEF Node
<1>5. PICK top : top = Node(L)
  OBVIOUS
<1>6. AllBelow(L - 1, top)'
  <2>1. AllBelow(L - 1, top)
    BY <1>0, <1>5, TopDone DEF Return
  <2> QED  BY <1>2, <1>3, <1>4, <2>1, AllBelowStays
<1>7. \A i \in DOMAIN doc.ops : (i < cur \/ phase = "ready" => OpDone(i))'
  <2>1. \A i : OpDone(i) => OpDone(i)'
    BY <1>2, <1>3, OpDoneStays
  <2> QED  BY <1>2, <2>1 DEF DoneInv
<1>8. \A k \in DOMAIN Parameters(Op)' : DoneField(ParameterField(Op, k))'
  <2>1. DOMAIN Parameters(Op)' = DOMAIN Parameters(Op)
    BY <1>2, SameOp
  <2> QED  BY <1>2, <1>3, <2>1, DoneFieldsStay DEF DoneInv
<1>9. ASSUME NEW b \in Range(Op.bodies)' PROVE BodyInv(b)'
  <2>1. BodyInv(b)
    BY <1>2, SameOp DEF DoneInv
  <2>2. CASE b \in Range(bodies)
    BY <1>2, <2>2 DEF BodyInv
  <2>3. CASE Node(1) = Root(b)
    <3>1. CASE L = 1
      <4>1. L - 1 = 0 /\ top = Root(b)
        BY <1>5, <2>3, <3>1
      <4>2. AllBelow(0, top)'
        BY <1>6, <4>1
      <4> QED  BY <4>1, <4>2 DEF BodyInv, Root
    <3>2. CASE L # 1
      <4>1. 1 \in 1..(L - 1)
        BY <1>n, <3>2
      <4>2. Node(1)' = Root(b)
        BY <1>4, <2>3, <4>1
      <4>3. frames' # <<>>
        BY <1>1, <4>1
      <4> QED  BY <4>2, <4>3 DEF BodyInv, Root
    <3> QED  BY <3>1, <3>2
  <2>4. CASE AllBelow(0, Root(b))
    <3>1. PICK v : v = Root(b)
      OBVIOUS
    <3>2. AllBelow(0, v)'
      BY <1>2, <1>3, <2>4, <3>1, AllBelowStays
    <3> QED  BY <3>1, <3>2 DEF BodyInv, Root
  <2> QED  BY <2>1, <2>2, <2>3, <2>4 DEF BodyInv
<1>10. ASSUME NEW i \in 1..(L - 1) PROVE FrameInv(i)'
  <2>1. i \in 1..L /\ i \in Nat /\ \A j \in 1..i : j \in 1..(L - 1)
    BY <1>n
  <2>2. FrameInv(i)
    BY <1>1, <1>2, <2>1 DEF DoneInv
  <2>3. frames'[i] = frames[i]
    BY <1>1
  <2>4. \A j \in 1..i : Node(j)' = Node(j) /\ frames'[j].schema = frames[j].schema
    BY <1>4, <2>1
  <2>5. ASSUME NEW v, v = Node(i + 1)
        PROVE  (i < Len(frames') /\ v = NodeOf(frames'[i + 1])) \/ AllBelow(i, v)'
    <3>1. CASE i = L - 1
      <4>1. i + 1 = L
        BY <1>n, <3>1
      <4>2. v = top
        BY <1>5, <2>5, <4>1
      <4> QED  BY <1>6, <3>1, <4>2
    <3>2. CASE i # L - 1
      <4>1. i < L - 1 /\ i + 1 \in 1..(L - 1)
        BY <1>n, <3>2
      <4>2. Node(i + 1) = NodeOf(frames'[i + 1])
        BY <1>1, <4>1 DEF Node
      <4>3. Len(frames') = L - 1
        BY <1>1
      <4> QED  BY <2>5, <4>1, <4>2, <4>3
    <3> QED  BY <3>1, <3>2
  <2> QED  BY <1>2, <1>3, <2>1, <2>2, <2>3, <2>4, <2>5, LowerFrame
<1>11. \A i \in DOMAIN frames' : FrameInv(i)'
  BY <1>1, <1>10
<1> QED  BY <1>2, <1>7, <1>8, <1>9, <1>11 DEF DoneInv

-----------------------------------------------------------------------------
(* Every step keeps the invariant.                                         *)

CatalogInv == CompileInv /\ StackInv /\ SoundInv /\ CauseInv /\ DoneInv

\* A field of the topmost call is a field of the operation.
LEMMA TopField ==
    ASSUME CompileInv, StackInv, phase = "body", frames # <<>>, NEW n \in Props(Top.schema),
           NEW v, v = Node(Len(frames))
    PROVE  FieldIn(cur, BodyField(Op, v, n))
<1> DEFINE w == [i \in DOMAIN frames |-> Node(i)]
<1>1. /\ IsWalk(w) /\ Len(w) = Len(frames) /\ \A i \in DOMAIN frames : w[i] = Node(i)
      /\ w[1].schema \in Range(Op.bodies)
  BY StackIsWalk
<1>2. Len(frames) \in DOMAIN frames /\ Top = frames[Len(frames)]
  BY DEF CompileInv, StackOK, Top
<1> HIDE DEF w
<1>3. End(w) = v /\ v.schema = Top.schema
  BY <1>1, <1>2 DEF End, Node, NodeOf
<1> QED  BY <1>1, <1>3 DEF FieldIn, Op

\* CatalogInv is inductive: it holds at first, and each action keeps it: ...
LEMMA CatalogInvInit == Init => CatalogInv
<1> SUFFICES ASSUME Init PROVE CatalogInv
  OBVIOUS
<1>1. CompileInv
  BY CompileInit
<1>2. /\ phase = "operation" /\ frames = <<>> /\ messages = {} /\ fieldRules = <<>>
      /\ cur = 1 /\ doc.ops \in Seq(Range(doc.ops))
  BY ContractFacts DEF Init
<1>3. StackInv /\ CauseInv
  BY <1>2 DEF StackInv, CauseInv
<1>4. SoundInv
  BY <1>2 DEF SoundInv, Conflicting
<1>5. DoneInv
  BY <1>2 DEF DoneInv
<1> QED  BY <1>1, <1>3, <1>4, <1>5 DEF CatalogInv

\* ... an error, which leaves everything but the phase, ...
LEMMA RefuseKeeps ==
    ASSUME CatalogInv, Cause, Refuse
    PROVE  StackInv' /\ SoundInv' /\ CauseInv' /\ DoneInv'
<1>1. phase' = "refused" /\ UNCHANGED <<doc, cur, params, bodies, frames, messages, fieldRules>>
  BY DEF Refuse, catalog
<1>2. SoundInv' /\ Grows
  BY <1>1, SoundSame DEF CatalogInv
<1>3. \A i : OpDone(i) => OpDone(i)'
  BY <1>1, <1>2, OpDoneStays
<1>4. StackInv'
  BY <1>1 DEF StackInv
<1>5. Cause'
  BY <1>1, SameContract
<1>6. DoneInv'
  BY <1>1, <1>3 DEF DoneInv, CatalogInv
<1> QED  BY <1>1, <1>2, <1>4, <1>5, <1>6 DEF CauseInv

\* ... compileOperation, ...
LEMMA CompileOperationKeeps ==
    ASSUME CatalogInv, CompileOperation
    PROVE  StackInv' /\ SoundInv' /\ CauseInv' /\ DoneInv'
<1>1. /\ phase = "operation" /\ phase' = "parameters" /\ UNCHANGED <<doc, cur, frames>>
      /\ params' = DOMAIN Parameters(Op) /\ bodies' = Op.bodies /\ cur \in DOMAIN doc.ops
  BY DEF CompileOperation
<1>2. SoundInv' /\ Grows
  BY OperationCompiled DEF CatalogInv
<1>3. Op' = Op
  BY <1>1, SameOp
<1>4. StackInv'
  BY <1>1, <1>3 DEF StackInv, CatalogInv
<1>5. \A i : OpDone(i) => OpDone(i)'
  BY <1>1, <1>2, OpDoneStays
<1>6. DoneInv'
  BY <1>1, <1>3, <1>5 DEF DoneInv, CatalogInv
<1> QED  BY <1>1, <1>2, <1>4, <1>6 DEF CauseInv

\* The parameters of the operation are fields of it.
LEMMA ParameterKnown ==
    ASSUME StackInv, phase = "parameters", NEW k \in params
    PROVE  FieldIn(cur, ParameterField(Op, k)) /\ cur \in DOMAIN doc.ops /\ k \in DOMAIN Parameters(Op)
BY DEF StackInv, FieldIn, Op

\* ... compileParameters, for one parameter ...
LEMMA CompileParameterKeeps ==
    ASSUME CatalogInv, NEW k \in params, CompileParameter(k)
    PROVE  StackInv' /\ SoundInv' /\ CauseInv' /\ DoneInv'
<1>1. /\ phase = "parameters" /\ UNCHANGED <<doc, phase, cur, bodies, frames>> /\ params' = params \ {k}
      /\ CompileField(Op.id, k.location, <<k.name>>, Parameters(Op)[k])
  BY DEF CompileParameter
<1>2. PICK f : f = ParameterField(Op, k)
  OBVIOUS
<1>3. FieldIn(cur, f) /\ cur \in DOMAIN doc.ops
  BY <1>1, <1>2, ParameterKnown DEF CatalogInv
<1>4. f.field.ext # NoExt => Known(f)
  BY <1>3 DEF Known
<1>5. CompileField(f.id, f.location, f.path, f.field)
  <2>1. f.id = Op.id /\ f.location = k.location /\ f.path = <<k.name>> /\ f.field = Parameters(Op)[k]
    BY <1>2 DEF ParameterField
  <2> QED  BY <1>1, <2>1
<1>6. SoundInv' /\ Grows /\ DoneField(f)'
  BY <1>1, <1>4, <1>5, FieldCompiled DEF CatalogInv
<1>7. Op' = Op /\ ParameterField(Op, k)' = f
  BY <1>1, <1>2, SameOp
<1>8. StackInv'
  BY <1>1, <1>7 DEF StackInv, CatalogInv
<1>9. \A i : OpDone(i) => OpDone(i)'
  BY <1>1, <1>6, OpDoneStays
<1>10. ASSUME NEW j \in DOMAIN Parameters(Op)' \ params' PROVE DoneField(ParameterField(Op, j))'
  <2>1. j \in DOMAIN Parameters(Op)
    BY <1>7
  <2>2. CASE j = k
    BY <1>6, <1>7, <2>2 DEF DoneField
  <2>3. CASE j # k
    <3>1. DoneField(ParameterField(Op, j))
      BY <1>1, <2>1, <2>3 DEF DoneInv, CatalogInv
    <3> QED  BY <1>1, <1>6, <3>1, DoneFieldsStay
  <2> QED  BY <2>2, <2>3
<1>11. DoneInv'
  BY <1>1, <1>9, <1>10 DEF DoneInv, CatalogInv
<1> QED  BY <1>1, <1>6, <1>8, <1>11 DEF CauseInv

\* ... and at its end, ...
LEMMA ParametersDoneKeeps ==
    ASSUME CatalogInv, ParametersDone
    PROVE  StackInv' /\ SoundInv' /\ CauseInv' /\ DoneInv'
<1>1. /\ phase = "parameters" /\ phase' = "body" /\ params = {}
      /\ UNCHANGED <<doc, cur, params, bodies, frames, messages, fieldRules>>
  BY DEF ParametersDone, catalog
<1>2. SoundInv' /\ Grows
  BY <1>1, SoundSame DEF CatalogInv
<1>3. Op' = Op /\ frames = <<>> /\ bodies = Op.bodies /\ cur \in DOMAIN doc.ops
  BY <1>1, SameOp DEF StackInv, CatalogInv
<1>4. StackInv'
  BY <1>1, <1>3 DEF StackInv
<1>5. \A i : OpDone(i) => OpDone(i)'
  BY <1>1, <1>2, OpDoneStays
<1>6. \A k \in DOMAIN Parameters(Op) : DoneField(ParameterField(Op, k))'
  BY <1>1, <1>2, DoneFieldsStay DEF DoneInv, CatalogInv
<1>7. \A s \in Range(Op.bodies)' : BodyInv(s)'
  BY <1>1, <1>3 DEF BodyInv
<1>8. \A i \in DOMAIN frames' : FrameInv(i)'
  BY <1>1, <1>3
<1>9. DoneInv'
  BY <1>1, <1>3, <1>5, <1>6, <1>7, <1>8 DEF DoneInv, CatalogInv
<1> QED  BY <1>1, <1>2, <1>4, <1>9 DEF CauseInv

\* A sequence has its head and what its tail has.
LEMMA HeadTailRange ==
    ASSUME NEW S, NEW l \in Seq(S), l # <<>>
    PROVE  Head(l) \in S /\ Tail(l) \in Seq(S) /\ Range(l) = {Head(l)} \cup Range(Tail(l))
<1> DEFINE t == Tail(l)
<1>1. PICK m : m = Len(l)
  OBVIOUS
<1>2. /\ m \in Nat /\ m >= 1 /\ DOMAIN l = 1..m /\ Head(l) = l[1] /\ t \in Seq(S) /\ Head(l) \in S
      /\ DOMAIN t = 1..(m - 1) /\ \A i \in 1..(m - 1) : t[i] = l[i + 1]
  BY <1>1
<1>3. \A i \in 1..m : i = 1 \/ (i - 1 \in 1..(m - 1) /\ (i - 1) + 1 = i)
  BY <1>2
<1>4. 1 \in 1..m /\ \A i \in 1..(m - 1) : i + 1 \in 1..m
  BY <1>2
<1> HIDE DEF t
<1>5. \A i \in 1..m : i = 1 \/ \E j \in 1..(m - 1) : t[j] = l[i]
  BY <1>2, <1>3
<1>6. ASSUME NEW x \in Range(l) PROVE x = l[1] \/ x \in Range(t)
  <2>1. PICK i \in 1..m : x = l[i]
    BY <1>2 DEF Range
  <2> QED  BY <1>2, <1>5, <2>1 DEF Range
<1>7. ASSUME NEW x \in Range(t) PROVE x \in Range(l)
  <2>1. PICK i \in 1..(m - 1) : x = t[i]
    BY <1>2 DEF Range
  <2>2. x = l[i + 1] /\ i + 1 \in 1..m
    BY <1>2, <1>4, <2>1
  <2> QED  BY <1>2, <2>2 DEF Range
<1>8. l[1] \in Range(l)
  BY <1>2, <1>4 DEF Range
<1>9. Range(l) = {l[1]} \cup Range(t)
  BY <1>6, <1>7, <1>8
<1> QED  BY <1>2, <1>9 DEF t

\* ... compileRequestBody, ...
LEMMA CompileRequestBodyKeeps ==
    ASSUME CatalogInv, CompileRequestBody
    PROVE  StackInv' /\ SoundInv' /\ CauseInv' /\ DoneInv'
<1>1. /\ phase = "body" /\ frames = <<>> /\ bodies # <<>> /\ bodies \in Seq(Schemas)
      /\ UNCHANGED <<doc, phase, cur, params, messages, fieldRules>>
      /\ frames' = Called(<<>>, Head(bodies), <<>>) /\ bodies' = Tail(bodies)
  BY DEF CompileRequestBody, catalog, CatalogInv, CompileInv
<1>2. SoundInv' /\ Grows
  BY <1>1, SoundSame DEF CatalogInv
<1>3. PICK s : s = Head(bodies)
  OBVIOUS
<1>4. Range(bodies) = {s} \cup Range(bodies')
  BY <1>1, <1>3, HeadTailRange
<1>5. frames' = <<Frame(s, <<>>)>>
  <2>1. ~OnStack(s)
    BY <1>1 DEF OnStack
  <2> QED  BY <1>1, <1>3, <2>1 DEF Called
<1>6. /\ frames' # <<>> /\ Len(frames') = 1 /\ DOMAIN frames' = {1} /\ frames'[1] = Frame(s, <<>>)
  <2> DEFINE new == Frame(s, <<>>)
  <2> HIDE DEF new
  <2>1. frames' = <<new>>
    BY <1>5 DEF new
  <2>2. /\ frames' # <<>> /\ Len(frames') = 1 /\ DOMAIN frames' = {1} /\ frames'[1] = new
    BY <2>1
  <2> QED  BY <2>2 DEF new
<1>7. Op' = Op /\ Range(bodies) \subseteq Range(Op.bodies) /\ cur \in DOMAIN doc.ops
  BY <1>1, SameOp DEF CatalogInv, StackInv
<1>8. /\ frames'[1].schema = s /\ frames'[1].path = <<>>
      /\ frames'[1].allOf = doc.schemas[s].allOf
  BY <1>6 DEF Frame
<1>9. StackInv'
  <2>1. \A i \in 1..(Len(frames') - 1) : FALSE
    BY <1>6
  <2>2. \A i \in DOMAIN frames' : Range(frames'[i].allOf) \subseteq Range(doc.schemas[frames'[i].schema].allOf)
    BY <1>6, <1>8
  <2>3. frames'[1].schema \in Range(Op.bodies) /\ Range(bodies') \subseteq Range(Op.bodies)
    BY <1>4, <1>7, <1>8
  <2> QED  BY <1>1, <1>7, <1>8, <2>1, <2>2, <2>3 DEF StackInv
<1>10. \A i : OpDone(i) => OpDone(i)'
  BY <1>1, <1>2, OpDoneStays
<1>11. \A k \in DOMAIN Parameters(Op) : DoneField(ParameterField(Op, k))'
  BY <1>1, <1>2, DoneFieldsStay DEF DoneInv, CatalogInv
<1>12. ASSUME NEW b \in Range(Op.bodies) PROVE BodyInv(b)'
  <2>1. BodyInv(b)
    BY <1>1 DEF DoneInv, CatalogInv
  <2>2. CASE b = s
    <3>1. Node(1)' = Root(b)
      BY <1>8, <2>2 DEF Node, NodeOf, Root
    <3> QED  BY <1>6, <3>1 DEF BodyInv, Root
  <2>3. CASE b \in Range(bodies')
    BY <2>3 DEF BodyInv
  <2>4. CASE AllBelow(0, Root(b))
    <3>1. PICK v : v = Root(b)
      OBVIOUS
    <3>2. AllBelow(0, v)'
      BY <1>1, <1>2, <2>4, <3>1, AllBelowStays
    <3> QED  BY <3>1, <3>2 DEF BodyInv, Root
  <2> QED  BY <1>1, <1>4, <2>1, <2>2, <2>3, <2>4 DEF BodyInv
<1>13. \A i \in DOMAIN frames' : FrameInv(i)'
  BY <1>1, <1>6, NewFrame
<1>14. DoneInv'
  BY <1>1, <1>7, <1>10, <1>11, <1>12, <1>13 DEF DoneInv, CatalogInv
<1> QED  BY <1>1, <1>2, <1>9, <1>14 DEF CauseInv

\* ... compileBodySchema under allOf ...
LEMMA CompileAllOfKeeps ==
    ASSUME CatalogInv, CompileAllOf
    PROVE  StackInv' /\ SoundInv' /\ CauseInv' /\ DoneInv'
<1>1. /\ phase = "body" /\ frames # <<>> /\ Top.allOf # <<>>
      /\ UNCHANGED <<doc, phase, cur, params, bodies, messages, fieldRules>>
      /\ frames' = Called(Caller([Top EXCEPT !.allOf = Tail(@)]), Head(Top.allOf), Top.path)
      /\ CompileInv /\ StackInv /\ DoneInv /\ SoundInv
  BY DEF CompileAllOf, catalog, CatalogInv
<1>2. SoundInv' /\ Grows
  BY <1>1, SoundSame
<1>3. PICK top, s, path, l : /\ top = [Top EXCEPT !.allOf = Tail(@)] /\ s = Head(Top.allOf)
                             /\ path = Top.path /\ l = Top.allOf
  OBVIOUS
<1>4. Top \in Frames /\ l \in Seq(Schemas) /\ l # <<>> /\ path \in Seq(Names) /\ s = Head(l)
  BY <1>1, <1>3, TopFacts DEF CompileInv, Frames
<1>5. s \in Schemas /\ Tail(l) \in Seq(Schemas) /\ Range(l) = {s} \cup Range(Tail(l))
  BY <1>4, HeadTailRange
<1>6. /\ top \in Frames /\ top.schema = Top.schema /\ top.path = Top.path /\ top.props = Top.props
      /\ top.allOf = Tail(l)
  BY <1>3, <1>4, <1>5 DEF Frames
<1>7. GoesTo(top, s, path)
  <2>1. frames' = Called(Caller(top), s, path)
    BY <1>1, <1>3
  <2> QED  BY <1>1, <1>4, <1>5, <1>6, <2>1, GoesToFacts
<1>8. PICK v : v = Node(Len(frames))
  OBVIOUS
<1>9. v.schema = Top.schema /\ v.path = path
  BY <1>3, <1>8 DEF Node, NodeOf, Top
<1>10. Len(frames) \in DOMAIN frames
  BY <1>1 DEF CompileInv, StackOK
<1>11. Range(l) \subseteq Range(doc.schemas[Top.schema].allOf)
  BY <1>1, <1>3, <1>10 DEF StackInv, Top
<1>12. [schema |-> s, path |-> path] \in Steps(v)
  BY <1>5, <1>9, <1>11 DEF Steps
<1>13. StackInv'
  <2>1. Range(top.allOf) \subseteq Range(Top.allOf)
    BY <1>3, <1>5, <1>6
  <2> QED  BY <1>1, <1>7, <1>8, <1>12, <2>1, GoesToStack
<1>14. DoneInv'
  <2>1. \A u : Pending(Top, u) => Pending(top, u) \/ u = [schema |-> s, path |-> path]
    BY <1>3, <1>5, <1>6 DEF Pending
  <2>2. \A n \in Top.props \ top.props : FALSE
    BY <1>6
  <2> QED  BY <1>1, <1>2, <1>7, <2>1, <2>2, GoesToDone
<1> QED  BY <1>1, <1>2, <1>13, <1>14 DEF CauseInv

\* ... and at a property, ...
LEMMA CompilePropertyKeeps ==
    ASSUME CatalogInv, frames # <<>>, NEW n \in Top.props, CompileProperty(n)
    PROVE  StackInv' /\ SoundInv' /\ CauseInv' /\ DoneInv'
<1>1. /\ phase = "body" /\ UNCHANGED <<doc, phase, cur, params, bodies>>
      /\ CompileField(Op.id, "body", Append(Top.path, n), Field(Top.schema, n))
      /\ frames' = Called(Caller([Top EXCEPT !.props = @ \ {n}]),
                          doc.schemas[Top.schema].props[n].to, Append(Top.path, n))
      /\ CompileInv /\ StackInv /\ DoneInv /\ SoundInv /\ doc \in Contracts
  BY DEF CompileProperty, CatalogInv, CompileInv
<1>2. PICK top, s, path, v : /\ top = [Top EXCEPT !.props = @ \ {n}]
                             /\ s = doc.schemas[Top.schema].props[n].to
                             /\ path = Append(Top.path, n)
                             /\ v = Node(Len(frames))
  OBVIOUS
<1>3. Top \in Frames /\ Top.props \subseteq DOMAIN doc.schemas[Top.schema].props
  BY <1>1, TopFacts DEF CompileInv
<1>4. Top.schema \in Schemas /\ Top.path \in Seq(Names) /\ n \in Names /\ n \in Props(Top.schema)
  BY <1>3 DEF Frames, Props
<1>5. s \in Schemas /\ path \in Seq(Names)
  BY <1>1, <1>2, <1>3, <1>4, ContractFacts
<1>6. /\ top \in Frames /\ top.schema = Top.schema /\ top.path = Top.path /\ top.props = Top.props \ {n}
      /\ top.allOf = Top.allOf
  BY <1>2, <1>3 DEF Frames
<1>7. GoesTo(top, s, path)
  <2>1. frames' = Called(Caller(top), s, path)
    BY <1>1, <1>2
  <2> QED  BY <1>1, <1>5, <1>6, <2>1, GoesToFacts
<1>8. v.schema = Top.schema /\ v.path = Top.path
  BY <1>2 DEF Node, NodeOf, Top
<1>9. PICK f : f = BodyField(Op, v, n)
  OBVIOUS
<1>10. f.id = Op.id /\ f.location = "body" /\ f.path = Append(Top.path, n) /\ f.field = Field(Top.schema, n)
  BY <1>8, <1>9 DEF BodyField
<1>11. FieldIn(cur, f) /\ cur \in DOMAIN doc.ops
  BY <1>1, <1>2, <1>4, <1>9, TopField DEF StackInv
<1>12. SoundInv' /\ Grows /\ DoneField(f)'
  <2>1. CompileField(f.id, f.location, f.path, f.field)
    BY <1>1, <1>10
  <2>2. f.field.ext # NoExt => Known(f)
    BY <1>11 DEF Known
  <2> QED  BY <1>1, <2>1, <2>2, FieldCompiled
<1>13. [schema |-> s, path |-> path] \in Steps(v)
  BY <1>2, <1>4, <1>8 DEF Steps, Props
<1>14. StackInv'
  BY <1>1, <1>2, <1>6, <1>7, <1>13, GoesToStack
<1>15. DoneInv'
  <2>1. \A u : Pending(Top, u) => Pending(top, u) \/ u = [schema |-> s, path |-> path]
    BY <1>2, <1>6 DEF Pending
  <2>2. DoneField(BodyField(Op, v, n))'
    <3>1. f = BodyField(Op, v, n)'
      BY <1>1, <1>9, SameOp
    <3> QED  BY <1>12, <3>1 DEF DoneField
  <2>3. \A m \in Top.props \ top.props : m = n
    BY <1>6
  <2>4. \A m \in Top.props \ top.props : \A u : u = Node(Len(frames)) => DoneField(BodyField(Op, u, m))'
    BY <1>2, <2>2, <2>3
  <2> QED  BY <1>1, <1>7, <1>12, <2>1, <2>4, GoesToDone
<1> QED  BY <1>1, <1>12, <1>14, <1>15 DEF CauseInv

\* ... its return, ...
LEMMA ReturnKeeps ==
    ASSUME CatalogInv, Return
    PROVE  StackInv' /\ SoundInv' /\ CauseInv' /\ DoneInv'
<1>1. phase' = "body" /\ UNCHANGED <<doc, messages, fieldRules>>
  BY DEF Return, catalog
<1> QED  BY <1>1, SoundSame, ReturnStack, ReturnDone DEF CatalogInv, CauseInv

\* When the bodies are done, so is every field of the operation.
LEMMA BodiesDone ==
    ASSUME CatalogInv, OperationDone
    PROVE  OpDone(cur)
<1>1. /\ phase = "body" /\ frames = <<>> /\ bodies = <<>> /\ DoneInv /\ StackInv
  BY DEF OperationDone, CatalogInv
<1>2. ASSUME NEW f, FieldIn(cur, f) PROVE DoneField(f)
  <2>1. CASE \E k \in DOMAIN Parameters(doc.ops[cur]) : f = ParameterField(doc.ops[cur], k)
    BY <1>1, <2>1 DEF DoneInv, Op
  <2>2. ASSUME NEW w, IsWalk(w), w[1].schema \in Range(Op.bodies),
               NEW n \in Props(End(w).schema), f = BodyField(Op, End(w), n)
        PROVE  DoneField(f)
    <3>1. BodyInv(w[1].schema)
      BY <1>1, <2>2 DEF DoneInv
    <3>2. AllBelow(0, Root(w[1].schema))
      <4>1. Range(bodies) = {}
        BY <1>1 DEF Range
      <4> QED  BY <1>1, <3>1, <4>1 DEF BodyInv
    <3>3. Len(w) \in Nat /\ 1 <= Len(w) /\ w[1] \in Nodes /\ w[1].path = <<>>
      BY <2>2, WalkFacts DEF IsWalk
    <3>4. w[1] = Root(w[1].schema)
      BY <3>3 DEF Nodes, Root
    <3>5. 0 + 1 <= Len(w) /\ w[0 + 1] = w[1] /\ \A j \in 1..0 : w[j] = Node(j)
      BY <3>3
    <3>6. WalkDone(w)
      BY <2>2, <3>2, <3>4, <3>5 DEF AllBelow
    <3> QED  BY <2>2, <3>6 DEF WalkDone
  <2> QED  BY <1>2, <2>1, <2>2 DEF FieldIn, Op
<1> QED  BY <1>2 DEF OpDone

\* ... the end of an operation ...
LEMMA OperationDoneKeeps ==
    ASSUME CatalogInv, OperationDone
    PROVE  StackInv' /\ SoundInv' /\ CauseInv' /\ DoneInv'
<1>1. /\ phase = "body" /\ frames = <<>> /\ UNCHANGED <<doc, frames, messages, fieldRules>>
      /\ cur' = cur + 1
      /\ phase' = IF cur + 1 \in DOMAIN doc.ops THEN "operation" ELSE "ready"
  BY DEF OperationDone, catalog
<1>2. SoundInv' /\ Grows
  BY <1>1, SoundSame DEF CatalogInv
<1>3. StackInv' /\ CauseInv'
  BY <1>1 DEF StackInv, CauseInv
<1>4. \A i : OpDone(i) => OpDone(i)'
  BY <1>1, <1>2, OpDoneStays
<1>5. OpDone(cur) /\ cur \in DOMAIN doc.ops /\ doc \in Contracts /\ cur \in Nat
  BY <1>1, BodiesDone DEF CatalogInv, StackInv, CompileInv
<1>6. PICK n \in Nat : DOMAIN doc.ops = 1..n
  <2>1. doc.ops \in Seq(Range(doc.ops))
    BY <1>5, ContractFacts
  <2> DEFINE o == doc.ops
  <2> HIDE DEF o
  <2>2. o \in Seq(Range(o))
    BY <2>1 DEF o
  <2>3. Len(o) \in Nat /\ DOMAIN o = 1..Len(o)
    BY <2>2
  <2> QED  BY <2>3 DEF o
<1>7. \A i \in DOMAIN doc.ops : i < cur' \/ phase' = "ready" => i < cur \/ i = cur
  <2>1. CASE cur + 1 \in DOMAIN doc.ops
    <3>1. phase' # "ready"
      BY <1>1, <2>1
    <3> QED  BY <1>1, <1>5, <1>6, <3>1
  <2>2. CASE cur + 1 \notin DOMAIN doc.ops
    BY <1>5, <1>6, <2>2
  <2> QED  BY <2>1, <2>2
<1>8. \A i \in DOMAIN doc.ops : i < cur => OpDone(i)
  BY DEF CatalogInv, DoneInv
<1>9. \A i \in DOMAIN doc.ops : i < cur' \/ phase' = "ready" => OpDone(i)'
  BY <1>4, <1>5, <1>7, <1>8
<1>10. DoneInv'
  BY <1>1, <1>9 DEF DoneInv
<1> QED  BY <1>2, <1>3, <1>10

\* ... and a step that changes nothing.
LEMMA SameKeeps ==
    ASSUME CatalogInv, UNCHANGED vars
    PROVE  StackInv' /\ SoundInv' /\ CauseInv' /\ DoneInv'
<1>1. UNCHANGED <<doc, phase, cur, params, bodies, frames, messages, fieldRules>>
  BY DEF vars, catalog
<1>2. SoundInv' /\ Grows
  BY <1>1, SoundSame DEF CatalogInv
<1>3. Op' = Op /\ \A i : Node(i)' = Node(i)
  BY <1>1, SameOp DEF Node
<1>4. StackInv'
  <2>1. \A v : Steps(v)' = Steps(v)
    BY <1>1, SameContract
  <2>2. \A i : Steps(Node(i))' = Steps(Node(i))
    BY <1>1 DEF Steps, Node
  <2> QED  BY <1>1, <1>3, <2>2 DEF StackInv, CatalogInv
<1>5. CauseInv'
  BY <1>1, SameContract DEF CatalogInv, CauseInv
<1>6. \A i : OpDone(i) => OpDone(i)'
  BY <1>1, <1>2, OpDoneStays
<1>7. \A k : DoneField(ParameterField(Op, k)) => DoneField(ParameterField(Op, k))'
  BY <1>1, <1>2, DoneFieldsStay
<1>8. ASSUME NEW s, BodyInv(s) PROVE BodyInv(s)'
  <2>1. PICK v : v = Root(s)
    OBVIOUS
  <2>2. AllBelow(0, v) => AllBelow(0, v)'
    BY <1>1, <1>2, AllBelowStays
  <2> QED  BY <1>1, <1>3, <1>8, <2>1, <2>2 DEF BodyInv, Root
<1>9. ASSUME NEW i \in DOMAIN frames, FrameInv(i) PROVE FrameInv(i)'
  <2>1. frames \in Seq(Frames)
    BY DEF CatalogInv, CompileInv, StackOK
  <2>2. i \in Nat
    BY <2>1
  <2>3. \A v : i < Len(frames) /\ v = Node(i + 1) => i < Len(frames') /\ v = NodeOf(frames'[i + 1])
    BY <1>1 DEF Node
  <2> QED  BY <1>1, <1>2, <1>3, <1>9, <2>2, <2>3, LowerFrame
<1>10. DoneInv'
  BY <1>1, <1>3, <1>6, <1>7, <1>8, <1>9 DEF DoneInv, CatalogInv
<1> QED  BY <1>2, <1>4, <1>5, <1>10

\* So every step keeps it, ...
LEMMA CatalogInvStep == CatalogInv /\ [Next]_vars => CatalogInv'
<1> SUFFICES ASSUME CatalogInv, [Next]_vars PROVE CatalogInv'
  OBVIOUS
<1>0. CompileInv' /\ CompileInv /\ StackInv /\ SoundInv
  BY CompileStep DEF CatalogInv
<1>1. CASE CompileOperation
  BY <1>0, <1>1, CompileOperationKeeps DEF CatalogInv
<1>2. CASE OperationFails
  <2>1. Cause /\ Refuse
    BY <1>0, <1>2, OperationCause DEF OperationFails
  <2> QED  BY <1>0, <2>1, RefuseKeeps DEF CatalogInv
<1>3. ASSUME NEW k \in params, CompileParameter(k) PROVE CatalogInv'
  BY <1>0, <1>3, CompileParameterKeeps DEF CatalogInv
<1>4. ASSUME NEW k \in params, ParameterFails(k) PROVE CatalogInv'
  <2>1. phase = "parameters" /\ Refuse /\ FieldFails(Op.id, k.location, <<k.name>>, Parameters(Op)[k])
    BY <1>4 DEF ParameterFails
  <2>2. PICK f : f = ParameterField(Op, k)
    OBVIOUS
  <2>3. f.id = Op.id /\ f.location = k.location /\ f.path = <<k.name>> /\ f.field = Parameters(Op)[k]
    BY <2>2 DEF ParameterField
  <2>4. FieldFails(f.id, f.location, f.path, f.field)
    BY <2>1, <2>3
  <2>5. f.field.ext # NoExt
    BY <2>4 DEF FieldFails
  <2>6. Known(f)
    BY <1>0, <2>1, <2>2, <2>5, ParameterKnown DEF Known
  <2>7. Cause
    BY <1>0, <2>4, <2>6, FieldCause
  <2> QED  BY <1>0, <2>1, <2>7, RefuseKeeps DEF CatalogInv
<1>5. CASE ParametersDone
  BY <1>0, <1>5, ParametersDoneKeeps DEF CatalogInv
<1>6. CASE CompileRequestBody
  BY <1>0, <1>6, CompileRequestBodyKeeps DEF CatalogInv
<1>7. CASE CompileAllOf
  BY <1>0, <1>7, CompileAllOfKeeps DEF CatalogInv
<1>8. ASSUME frames # <<>>, NEW n \in Top.props, CompileProperty(n) PROVE CatalogInv'
  BY <1>0, <1>8, CompilePropertyKeeps DEF CatalogInv
<1>9. ASSUME frames # <<>>, NEW n \in Top.props, PropertyFails(n) PROVE CatalogInv'
  <2>1. /\ phase = "body" /\ Refuse
        /\ FieldFails(Op.id, "body", Append(Top.path, n), Field(Top.schema, n))
    BY <1>9 DEF PropertyFails
  <2>2. PICK v : v = Node(Len(frames))
    OBVIOUS
  <2>3. PICK f : f = BodyField(Op, v, n)
    OBVIOUS
  <2>4. v.schema = Top.schema /\ v.path = Top.path
    BY <2>2 DEF Node, NodeOf, Top
  <2>5. f.id = Op.id /\ f.location = "body" /\ f.path = Append(Top.path, n) /\ f.field = Field(Top.schema, n)
    BY <2>3, <2>4 DEF BodyField
  <2>6. FieldFails(f.id, f.location, f.path, f.field)
    BY <2>1, <2>5
  <2>7. f.field.ext # NoExt
    BY <2>6 DEF FieldFails
  <2>8. n \in Props(Top.schema)
    BY <1>0, <1>9, TopFacts DEF CompileInv, Props
  <2>9. FieldIn(cur, f) /\ cur \in DOMAIN doc.ops
    BY <1>0, <1>9, <2>1, <2>2, <2>3, <2>8, TopField DEF StackInv
  <2>10. Known(f)
    BY <2>7, <2>9 DEF Known
  <2>11. Cause
    BY <1>0, <2>6, <2>10, FieldCause
  <2> QED  BY <1>0, <2>1, <2>11, RefuseKeeps DEF CatalogInv
<1>10. CASE Return
  BY <1>0, <1>10, ReturnKeeps DEF CatalogInv
<1>11. CASE OperationDone
  BY <1>0, <1>11, OperationDoneKeeps DEF CatalogInv
<1>12. CASE UNCHANGED vars
  BY <1>0, <1>12, SameKeeps DEF CatalogInv
<1> QED  BY <1>1, <1>2, <1>3, <1>4, <1>5, <1>6, <1>7, <1>8, <1>9, <1>10, <1>11, <1>12
         DEF Next, Compiled

\* ... and it always holds.
LEMMA CatalogAlways == Spec => []CatalogInv
BY CatalogInvInit, CatalogInvStep, PTL DEF Spec

-----------------------------------------------------------------------------
(* Walks computes the walks.  The function it defines exists, because the  *)
(* one below satisfies its equation, and is unique, by induction.          *)

OneNode == {<<[schema |-> s, path |-> <<>>]>> : s \in DOMAIN doc.schemas}

Longer(W) ==
    W \cup UNION {{Append(w, v) : v \in {u \in Steps(w[Len(w)]) :
                     \A i \in DOMAIN w : w[i].schema # u.schema}} : w \in W}

WalkSet == [d \in Nat |-> {w \in Seq(Nodes) : IsWalk(w) /\ Len(w) <= d + 1}]

\* A walk is extended by a step to a schema it has not entered ...
LEMMA WalkAppend ==
    ASSUME doc \in Contracts, NEW w, IsWalk(w), NEW v \in Steps(w[Len(w)]),
           \A i \in DOMAIN w : w[i].schema # v.schema
    PROVE  IsWalk(Append(w, v)) /\ Len(Append(w, v)) = Len(w) + 1
<1> DEFINE a == Append(w, v)
<1>0. PICK m : m = Len(w)
  OBVIOUS
<1>1. /\ m \in Nat /\ m >= 1 /\ DOMAIN w = 1..m /\ w \in Seq(Nodes)
      /\ w[m] \in Nodes
  BY <1>0, WalkFacts DEF IsWalk
<1>2. v \in Nodes
  BY <1>0, <1>1, StepsAreNodes
<1>3. /\ a \in Seq(Nodes) /\ Len(a) = m + 1 /\ DOMAIN a = 1..(m + 1) /\ a # <<>>
      /\ \A i \in 1..m : a[i] = w[i]
      /\ a[m + 1] = v
  BY <1>0, <1>1, <1>2
<1> HIDE DEF a
<1>4. 1 \in 1..m /\ m \in 1..m /\ 1..(m + 1) = 1..m \cup {m + 1}
  BY <1>1
<1>5. a[1].path = <<>>
  BY <1>3, <1>4 DEF IsWalk
<1>6. ASSUME NEW i \in 1..(Len(a) - 1) PROVE a[i + 1] \in Steps(a[i])
  <2>1. i \in 1..m
    BY <1>1, <1>3
  <2>2. CASE i = m
    BY <1>0, <1>3, <1>4, <2>2
  <2>3. CASE i # m
    <3>1. i \in 1..(m - 1) /\ i + 1 \in 1..m
      BY <1>1, <2>1, <2>3
    <3>2. w[i + 1] \in Steps(w[i])
      BY <1>0, <3>1 DEF IsWalk
    <3> QED  BY <1>3, <2>1, <3>1, <3>2
  <2> QED  BY <2>2, <2>3
<1>7. \A i, j \in DOMAIN a : a[i].schema = a[j].schema => i = j
  <2>1. \A i, j \in 1..m : w[i].schema = w[j].schema => i = j
    BY <1>1 DEF IsWalk
  <2>2. \A i \in 1..m : w[i].schema # v.schema
    BY <1>1
  <2> QED  BY <1>3, <1>4, <2>1, <2>2
<1>8. IsWalk(a)
  BY <1>3, <1>5, <1>6, <1>7 DEF IsWalk
<1> QED  BY <1>0, <1>3, <1>8 DEF a

\* The walk w is the walk u and one more step, to the node v.
Splits(u, v, w) ==
    /\ IsWalk(u) /\ Len(u) = Len(w) - 1 /\ w = Append(u, v)
    /\ v \in Steps(u[Len(u)])
    /\ \A i \in DOMAIN u : u[i].schema # v.schema

\* Every walk of more than one node is such a walk.
LEMMA WalkSplit ==
    ASSUME NEW w, IsWalk(w), Len(w) > 1
    PROVE  \E u, v : Splits(u, v, w)
<1>0. PICK m : m = Len(w) - 1
  OBVIOUS
<1>1. /\ Len(w) = m + 1 /\ m \in Nat /\ m >= 1 /\ DOMAIN w = 1..(m + 1) /\ w \in Seq(Nodes)
  BY <1>0, WalkFacts DEF IsWalk
<1>2. PICK u, v : u = SubSeq(w, 1, m) /\ v = w[m + 1]
  OBVIOUS
<1>3. u \in Seq(Nodes) /\ Len(u) = m /\ DOMAIN u = 1..m /\ u # <<>> /\ \A i \in 1..m : u[i] = w[i]
  BY <1>1, <1>2
<1>4. v \in Nodes
  BY <1>1, <1>2
<1>5. w = Append(u, v)
  <2> DEFINE a == Append(u, v)
  <2>1. /\ a \in Seq(Nodes) /\ Len(a) = m + 1 /\ a[m + 1] = v /\ \A i \in 1..m : a[i] = u[i]
    BY <1>1, <1>3, <1>4
  <2> HIDE DEF a
  <2>2. \A i \in 1..(m + 1) : i \in 1..m \/ i = m + 1
    BY <1>1
  <2>3. \A i \in 1..(m + 1) : w[i] = a[i]
    BY <1>2, <1>3, <2>1, <2>2
  <2>4. w = a
    BY <1>1, <2>1, <2>3, SeqEqual
  <2> QED  BY <2>4 DEF a
<1>6. 1 \in 1..m /\ m \in 1..m /\ \A i \in 1..m : i \in 1..(m + 1) /\ i # m + 1
  BY <1>1
<1>7. \A i \in 1..m : w[i + 1] \in Steps(w[i])
  BY <1>0 DEF IsWalk
<1>8. IsWalk(u)
  <2>1. \A i \in 1..(m - 1) : i \in 1..m /\ i + 1 \in 1..m
    BY <1>1
  <2>2. \A i \in 1..(Len(u) - 1) : u[i + 1] \in Steps(u[i])
    BY <1>3, <1>7, <2>1
  <2>3. u[1].path = <<>>
    BY <1>3, <1>6 DEF IsWalk
  <2>4. \A i, j \in DOMAIN u : u[i].schema = u[j].schema => i = j
    BY <1>1, <1>3, <1>6 DEF IsWalk
  <2> QED  BY <1>3, <2>2, <2>3, <2>4 DEF IsWalk
<1>9. v \in Steps(u[Len(u)])
  BY <1>2, <1>3, <1>6, <1>7
<1>10. \A i \in DOMAIN u : u[i].schema # v.schema
  <2>1. m + 1 \in 1..(m + 1)
    BY <1>1
  <2> QED  BY <1>1, <1>2, <1>3, <1>6, <2>1 DEF IsWalk
<1>11. Splits(u, v, w)
  BY <1>0, <1>3, <1>5, <1>8, <1>9, <1>10 DEF Splits
<1> QED  BY <1>11

\* The recursion of Walks is one of WalkSet: at zero ...
LEMMA WalkSetBase ==
    ASSUME doc \in Contracts
    PROVE  WalkSet[0] = OneNode
<1>1. ASSUME NEW s \in Schemas PROVE <<Root(s)>> \in WalkSet[0]
  <2>1. Root(s) \in Nodes /\ Root(s).path = <<>>
    BY DEF Root, Nodes
  <2>2. PICK r : r = Root(s)
    OBVIOUS
  <2>3. <<r>> \in Seq(Nodes) /\ <<r>> # <<>> /\ Len(<<r>>) = 1 /\ <<r>>[1] = r /\ DOMAIN <<r>> = {1}
    BY <2>1, <2>2
  <2>4. IsWalk(<<r>>)
    BY <2>1, <2>2, <2>3 DEF IsWalk
  <2> QED  BY <2>2, <2>3, <2>4 DEF WalkSet
<1>2. ASSUME NEW w \in WalkSet[0] PROVE \E s \in Schemas : w = <<Root(s)>>
  <2>1. w \in Seq(Nodes) /\ IsWalk(w) /\ Len(w) <= 1
    BY DEF WalkSet
  <2>a. Len(w) \in Nat /\ Len(w) >= 1 /\ \A i \in 1..Len(w) : w[i] \in Nodes
    BY <2>1, WalkFacts
  <2>b. w[1].path = <<>>
    BY <2>1 DEF IsWalk
  <2>2. Len(w) = 1 /\ w[1] \in Nodes /\ w[1].path = <<>>
    <3>1. PICK m : m = Len(w)
      OBVIOUS
    <3>2. m \in Nat /\ m >= 1 /\ m <= 1
      BY <2>1, <2>a, <3>1
    <3>3. m = 1 /\ 1 \in 1..m
      BY <3>2
    <3>4. w[1] \in Nodes
      BY <2>a, <3>1, <3>3
    <3> QED  BY <2>b, <3>1, <3>3, <3>4, Zenon
  <2>3. w[1] = Root(w[1].schema) /\ w[1].schema \in Schemas
    BY <2>2 DEF Nodes, Root
  <2>4. w = <<w[1]>>
    <3>1. PICK r : r = w[1]
      OBVIOUS
    <3>2. <<r>> \in Seq(Nodes) /\ Len(<<r>>) = 1 /\ <<r>>[1] = r
      BY <2>2, <3>1
    <3>3. \A i \in 1..1 : i = 1
      OBVIOUS
    <3>4. \A i \in 1..Len(w) : w[i] = <<r>>[i]
      BY <2>2, <3>1, <3>2, <3>3
    <3> QED  BY <2>1, <2>2, <3>1, <3>2, <3>4, SeqEqual
  <2> QED  BY <2>3, <2>4
<1>3. OneNode = {<<Root(s)>> : s \in Schemas}
  BY DEF OneNode, Root, Schemas
<1> QED  BY <1>1, <1>2, <1>3

\* ... and above it.
LEMMA WalkSetStep ==
    ASSUME doc \in Contracts, NEW d \in Nat, d # 0
    PROVE  WalkSet[d] = Longer(WalkSet[d - 1])
<1>0. d - 1 \in Nat /\ (d - 1) + 1 = d
  OBVIOUS
<1>1. \A w : w \in WalkSet[d] <=> w \in Seq(Nodes) /\ IsWalk(w) /\ Len(w) <= d + 1
  BY DEF WalkSet
<1>2. \A w : w \in WalkSet[d - 1] <=> w \in Seq(Nodes) /\ IsWalk(w) /\ Len(w) <= d
  BY <1>0 DEF WalkSet
<1>3. ASSUME NEW w \in Longer(WalkSet[d - 1]) PROVE w \in WalkSet[d]
  <2>1. CASE w \in WalkSet[d - 1]
    <3>1. w \in Seq(Nodes) /\ IsWalk(w) /\ Len(w) <= d /\ Len(w) \in Nat
      BY <1>2, <2>1
    <3>2. Len(w) <= d + 1
      BY <3>1
    <3> QED  BY <1>1, <3>1, <3>2
  <2>2. ASSUME NEW u \in WalkSet[d - 1], NEW v \in Steps(u[Len(u)]),
               \A i \in DOMAIN u : u[i].schema # v.schema, w = Append(u, v)
        PROVE  w \in WalkSet[d]
    <3>1. IsWalk(u) /\ Len(u) <= d /\ Len(u) \in Nat
      BY <1>2
    <3>2. IsWalk(w) /\ Len(w) = Len(u) + 1
      BY <2>2, <3>1, WalkAppend
    <3>3. Len(w) <= d + 1
      BY <3>1, <3>2
    <3>4. w \in Seq(Nodes)
      BY <3>2 DEF IsWalk
    <3> QED  BY <1>1, <3>2, <3>3, <3>4
  <2> QED  BY <2>1, <2>2 DEF Longer
<1>4. ASSUME NEW w \in WalkSet[d] PROVE w \in Longer(WalkSet[d - 1])
  <2>1. w \in Seq(Nodes) /\ IsWalk(w) /\ Len(w) <= d + 1 /\ Len(w) \in Nat
    BY <1>1
  <2>2. CASE Len(w) <= d
    BY <1>2, <2>1, <2>2 DEF Longer
  <2>3. CASE ~(Len(w) <= d)
    <3>1. Len(w) > 1 /\ Len(w) - 1 <= d
      BY <2>1, <2>3
    <3>a. IsWalk(w) /\ Len(w) > 1
      BY <2>1, <3>1
    <3>b. PICK u, v : Splits(u, v, w)
      BY <3>a, WalkSplit
    <3>2. /\ IsWalk(u) /\ Len(u) = Len(w) - 1 /\ w = Append(u, v)
          /\ v \in Steps(u[Len(u)])
          /\ \A i \in DOMAIN u : u[i].schema # v.schema
      BY <3>b DEF Splits
    <3>3. u \in WalkSet[d - 1]
      BY <1>2, <3>1, <3>2 DEF IsWalk
    <3> QED  BY SMTT(40), <3>2, <3>3 DEF Longer
  <2> QED  BY <2>2, <2>3
<1> QED  BY <1>3, <1>4

\* So they are the same: there is no least number at which they differ.
LEMMA WalksAre ==
    ASSUME doc \in Contracts, NEW d \in Nat
    PROVE  Walks[d] = WalkSet[d]
<1> DEFINE Equation(g) == g = [n \in Nat |-> IF n = 0 THEN OneNode ELSE Longer(g[n - 1])]
<1>1. Equation(WalkSet)
  <2>1. \A n \in Nat : WalkSet[n] = IF n = 0 THEN OneNode ELSE Longer(WalkSet[n - 1])
    BY WalkSetBase, WalkSetStep
  <2>2. WalkSet = [n \in Nat |-> WalkSet[n]]
    BY DEF WalkSet
  <2> QED  BY <2>1, <2>2
<1>2. Walks = CHOOSE g : Equation(g)
  BY DEF Walks, OneNode, Longer
<1>3. Equation(Walks)
  BY <1>1, <1>2
<1>4. \A n \in Nat : Walks[n] = IF n = 0 THEN OneNode ELSE Longer(Walks[n - 1])
  BY <1>3
<1> DEFINE T == {n \in Nat : Walks[n] # WalkSet[n]}
<1>5. CASE T = {}
  BY <1>5
<1>6. CASE T # {}
  <2>1. PICK n \in T : \A m \in T : n <= m
    BY <1>6, LeastNat
  <2>2. n \in Nat /\ Walks[n] # WalkSet[n]
    BY <2>1
  <2>3. n # 0
    BY <1>4, <2>2, WalkSetBase
  <2>4. n - 1 \in Nat /\ n - 1 \notin T
    BY <2>1, <2>2, <2>3
  <2>5. Walks[n - 1] = WalkSet[n - 1]
    BY <2>4
  <2> QED  BY <1>4, <2>2, <2>3, <2>5, WalkSetStep
<1> QED  BY <1>5, <1>6

\* A walk enters every schema at most once.
LEMMA WalkShort ==
    ASSUME doc \in Contracts, NEW w, IsWalk(w)
    PROVE  Cardinality(Schemas) \in Nat /\ w \in WalkSet[Cardinality(Schemas)]
<1> DEFINE f == [i \in 1..Len(w) |-> w[i].schema]
<1>1. IsFiniteSet(Schemas) /\ Cardinality(Schemas) \in Nat
  BY ContractFacts, FS_CardinalityType
<1>2. Len(w) \in Nat /\ DOMAIN w = 1..Len(w) /\ \A i \in 1..Len(w) : w[i].schema \in Schemas
  BY WalkFacts
<1>3. f \in Injection(1..Len(w), Schemas)
  BY <1>2 DEF IsWalk, Injection, IsInjective
<1>4. Cardinality(1..Len(w)) <= Cardinality(Schemas)
  BY <1>1, <1>3, FS_Injection
<1>5. Cardinality(1..Len(w)) = Len(w)
  BY SMTT(40), <1>2, FS_Interval
<1>6. Len(w) <= Cardinality(Schemas) + 1
  BY <1>1, <1>2, <1>4, <1>5
<1>7. w \in Seq(Nodes)
  BY DEF IsWalk
<1> QED  BY <1>1, <1>6, <1>7 DEF WalkSet

\* Fields, which the run computes, is what the invariant speaks of.
LEMMA FieldsAre ==
    ASSUME doc \in Contracts
    PROVE  \A f : f \in Fields <=> Known(f)
<1> DEFINE W == Walks[Cardinality(DOMAIN doc.schemas)]
           InParams(op, f) == \E k \in DOMAIN Parameters(op) : f = ParameterField(op, k)
           InWalk(op, w, f) == \E n \in DOMAIN doc.schemas[w[Len(w)].schema].props :
                                 f = BodyField(op, w[Len(w)], n)
           S(op) == {x \in W : x[1].schema \in Range(op.bodies)}
<1>a. \A op, f : f \in OfParameters(op) <=> InParams(op, f)
  BY Zenon DEF OfParameters
<1>b. \A op, w, f : f \in OfWalk(op, w) <=> InWalk(op, w, f)
  BY Zenon DEF OfWalk
<1>c. \A op : OfBodies(op) = UNION {OfWalk(op, w) : w \in S(op)}
  BY Zenon DEF OfBodies
<1>d. \A op, w : w \in S(op) <=> w \in W /\ w[1].schema \in Range(op.bodies)
  BY Zenon
<1>e. \A op, f : f \in OfBodies(op) <=>
                 \E w \in W : w[1].schema \in Range(op.bodies) /\ InWalk(op, w, f)
  <2> HIDE DEF InWalk, W, S
  <2> QED  BY <1>b, <1>c, <1>d
<1>1. \A f : f \in Fields <=>
        /\ f.field.ext # NoExt
        /\ \E op \in Range(doc.ops) :
             \/ InParams(op, f)
             \/ \E w \in W : w[1].schema \in Range(op.bodies) /\ InWalk(op, w, f)
  <2> HIDE DEF InParams, InWalk, W, S
  <2>1. \A f : f \in Fields <=>
          f.field.ext # NoExt /\ \E op \in Range(doc.ops) : f \in OfParameters(op) \cup OfBodies(op)
    BY Zenon DEF Fields
  <2>2. \A op, f : f \in OfParameters(op) \cup OfBodies(op) <=> f \in OfParameters(op) \/ f \in OfBodies(op)
    BY Zenon
  <2> QED  BY <1>a, <1>e, <2>1, <2>2
<1>2. \A w : w \in W <=> IsWalk(w)
  <2>1. Cardinality(Schemas) \in Nat
    BY ContractFacts, FS_CardinalityType
  <2>2. W = WalkSet[Cardinality(Schemas)]
    BY <2>1, WalksAre DEF Schemas
  <2>3. \A w : w \in WalkSet[Cardinality(Schemas)] => IsWalk(w)
    BY <2>1 DEF WalkSet
  <2> QED  BY <2>2, <2>3, WalkShort
<1> HIDE DEF W
<1>3. \A f, i : FieldIn(i, f) <=>
             \/ InParams(doc.ops[i], f)
             \/ \E w : IsWalk(w) /\ w[1].schema \in Range(doc.ops[i].bodies) /\ InWalk(doc.ops[i], w, f)
  BY DEF FieldIn, Props, End
<1> HIDE DEF InParams, InWalk
<1>4. \A f : f \in Fields <=>
        /\ f.field.ext # NoExt
        /\ \E i \in DOMAIN doc.ops :
             \/ InParams(doc.ops[i], f)
             \/ \E w : IsWalk(w) /\ w[1].schema \in Range(doc.ops[i].bodies) /\ InWalk(doc.ops[i], w, f)
  BY <1>1, <1>2 DEF Range
<1> QED  BY <1>3, <1>4 DEF Known

\* When the catalog is ready it has what every field declares.
LEMMA ReadyDone ==
    ASSUME CatalogInv, phase = "ready", NEW f \in Fields
    PROVE  /\ Known(f) /\ Accepted(f.id, f.field) /\ Says(f) \subseteq messages
           /\ CustomRules(f.field.ext) # <<>> => FieldKey(f.id, f.location, f.path) \in DOMAIN fieldRules
<1>1. Known(f)
  BY FieldsAre DEF CatalogInv, CompileInv
<1>2. PICK i \in DOMAIN doc.ops : FieldIn(i, f)
  BY <1>1 DEF Known
<1>3. DoneField(f)
  BY <1>2 DEF CatalogInv, DoneInv, OpDone
<1> QED  BY <1>1, <1>3 DEF DoneField, Known

\* CatalogComplete is an invariant, whatever the contract.
THEOREM CatalogIsComplete == Spec => []CatalogComplete
<1>1. CatalogInv => CatalogComplete
  <2> SUFFICES ASSUME CatalogInv, phase = "ready", NEW f \in Fields
               PROVE  /\ \A m \in Says(f) : Message(m.op, m.location, m.path, m.rule) = {m.text}
                      /\ \A r \in NativeRules(f.field) : Message(f.id, f.location, f.path, r) # {}
    BY DEF CatalogComplete
  <2>1. Accepted(f.id, f.field) /\ Says(f) \subseteq messages
    BY ReadyDone
  <2>2. ASSUME NEW m \in Says(f) PROVE Message(m.op, m.location, m.path, m.rule) = {m.text}
    <3> DEFINE Same == {x \in messages : x.op = m.op /\ x.location = m.location
                                         /\ x.path = m.path /\ x.rule = m.rule}
    <3>1. m \in Same
      BY <2>1
    <3>2. \A x \in Same : x.text = m.text
      BY <2>1 DEF CatalogInv, SoundInv, Conflicting, SameKey
    <3>3. {x.text : x \in Same} = {m.text}
      BY <3>1, <3>2
    <3> QED  BY <3>3 DEF Message
  <2>3. ASSUME NEW r \in NativeRules(f.field) PROVE Message(f.id, f.location, f.path, r) # {}
    <3>1. r \in DOMAIN f.field.ext.messages
      BY <2>1 DEF Accepted
    <3>2. PICK m : m = [op |-> f.id, location |-> f.location, path |-> f.path, rule |-> r,
                        text |-> f.field.ext.messages[r]]
      OBVIOUS
    <3>3. m \in Says(f)
      BY <3>1, <3>2 DEF Says, Declared
    <3>4. m.op = f.id /\ m.location = f.location /\ m.path = f.path /\ m.rule = r
      BY <3>2
    <3>5. Message(f.id, f.location, f.path, r) = {m.text}
      BY <2>2, <3>3, <3>4
    <3> QED  BY <3>5
  <2> QED  BY <2>2, <2>3
<1> QED  BY CatalogAlways, <1>1, PTL

\* RefusedForCause is an invariant: no contract without a fault is refused.
THEOREM OnlyFaultyRefused == Spec => []RefusedForCause
<1>1. CatalogInv => RefusedForCause
  <2> SUFFICES ASSUME CatalogInv, phase = "refused" PROVE RefusedForCause
    BY DEF RefusedForCause
  <2>1. Cause
    BY DEF CatalogInv, CauseInv
  <2>2. CASE \E i, j \in DOMAIN doc.ops :
               /\ doc.ops[i].ext # NoExt /\ doc.ops[j].ext # NoExt
               /\ \/ ~doc.ops[i].ext.ok \/ doc.ops[i].id = NoId
                  \/ Conflicting(OperationMessages(doc.ops[i]) \cup OperationMessages(doc.ops[j]))
    <3>1. PICK o, p \in {op \in Range(doc.ops) : op.ext # NoExt} :
             ~o.ext.ok \/ o.id = NoId \/ Conflicting(OperationMessages(o) \cup OperationMessages(p))
      BY <2>2 DEF Range
    <3> QED  BY <3>1 DEF RefusedForCause
  <2>3. CASE \E f, g : /\ Known(f) /\ Known(g)
                       /\ Defective(f) \/ Conflicting(Says(f) \cup Says(g))
    <3>1. \E f, g \in Fields : Defective(f) \/ Conflicting(Says(f) \cup Says(g))
      BY <2>3, FieldsAre DEF CatalogInv, CompileInv
    <3> QED  BY <3>1 DEF RefusedForCause
  <2> QED  BY <2>1, <2>2, <2>3 DEF Cause
<1> QED  BY CatalogAlways, <1>1, PTL

\* LoneRulesEnforced is an invariant, whatever the contract.
THEOREM LoneRulesAreEnforced == Spec => []LoneRulesEnforced
<1>1. CatalogInv => LoneRulesEnforced
  <2> DEFINE Twin(f, g) == g.id = f.id /\ g.location = f.location /\ g.path = f.path
  <2>1. ASSUME CatalogInv, phase = "ready", NEW f \in Fields,
               \A g \in Fields : Twin(f, g) => CustomRules(g.field.ext) = CustomRules(f.field.ext)
        PROVE  LET key == <<f.id, f.location, f.path>> IN
               IF CustomRules(f.field.ext) = <<>> THEN key \notin DOMAIN fieldRules
               ELSE key \in DOMAIN fieldRules /\ fieldRules[key] = CustomRules(f.field.ext)
    <3> DEFINE key == <<f.id, f.location, f.path>>
    <3>1. CustomRules(f.field.ext) # <<>> => key \in DOMAIN fieldRules
      BY <2>1, ReadyDone DEF FieldKey
    <3>2. ASSUME key \in DOMAIN fieldRules
          PROVE  fieldRules[key] = CustomRules(f.field.ext) /\ fieldRules[key] # <<>>
      <4>1. PICK g : RuleOf(key, g)
        BY <2>1, <3>2 DEF CatalogInv, SoundInv
      <4>2. g \in Fields /\ Twin(f, g)
        BY <2>1, <4>1, FieldsAre DEF RuleOf, FieldKey, CatalogInv, CompileInv
      <4> QED  BY <2>1, <4>1, <4>2 DEF RuleOf
    <3> HIDE DEF key
    <3>3. IF CustomRules(f.field.ext) = <<>> THEN key \notin DOMAIN fieldRules
          ELSE key \in DOMAIN fieldRules /\ fieldRules[key] = CustomRules(f.field.ext)
      BY <3>1, <3>2
    <3> QED  BY <3>3 DEF key
  <2> QED  BY <2>1 DEF LoneRulesEnforced
<1> QED  BY CatalogAlways, <1>1, PTL

-----------------------------------------------------------------------------
(* The order of the fields.                                                *)

\* Different paths are ordered: at the first step where they differ, or one
\* continues the other.
LEMMA PathLessTotal ==
    ASSUME NEW p \in Seq(Nat), NEW q \in Seq(Nat), p # q
    PROVE  PathLess(p, q) \/ PathLess(q, p)
<1>0. /\ Len(p) \in Nat /\ DOMAIN p = 1..Len(p) /\ \A i \in 1..Len(p) : p[i] \in Nat
      /\ Len(q) \in Nat /\ DOMAIN q = 1..Len(q) /\ \A i \in 1..Len(q) : q[i] \in Nat
  OBVIOUS
<1> DEFINE D == {i \in Nat : i \in DOMAIN p \cap DOMAIN q /\ p[i] # q[i]}
<1>1. CASE D = {}
  <2>1. \A i \in DOMAIN p \cap DOMAIN q : p[i] = q[i]
    BY <1>0, <1>1
  <2>2. Len(p) < Len(q) \/ Len(q) < Len(p)
    <3>1. ASSUME Len(p) = Len(q) PROVE FALSE
      <4>1. \A i \in 1..Len(p) : p[i] = q[i]
        BY ZenonT(60), <1>0, <2>1, <3>1
      <4> QED  BY <3>1, <4>1, SeqEqual
    <3> DEFINE n == Len(p)
               m == Len(q)
    <3>2. n \in Nat /\ m \in Nat /\ n # m
      BY ZenonT(60), <1>0, <3>1
    <3> HIDE DEF n, m
    <3>3. n < m \/ m < n
      BY <3>2
    <3> QED  BY <3>3 DEF n, m
  <2>3. CASE Len(p) < Len(q)
    BY <1>0, <2>1, <2>3 DEF PathLess
  <2>4. CASE Len(q) < Len(p)
    BY <1>0, <2>1, <2>4 DEF PathLess
  <2> QED  BY <2>2, <2>3, <2>4
<1>2. CASE D # {}
  <2>1. PICK i \in D : \A j \in D : i <= j
    BY <1>2, LeastNat
  <2>2. i \in DOMAIN p \cap DOMAIN q /\ p[i] # q[i] /\ i \in Nat
    BY <2>1
  <2>3. \A j \in 1..(i - 1) : j \in DOMAIN p \cap DOMAIN q /\ j \notin D
    BY SMTT(40), <1>0, <2>1, <2>2
  <2>4. \A j \in 1..(i - 1) : p[j] = q[j] /\ q[j] = p[j]
    BY <2>2, <2>3
  <2>5. p[i] < q[i] \/ q[i] < p[i]
    BY <1>0, <2>2
  <2> QED  BY <2>2, <2>4, <2>5 DEF PathLess
<1> QED  BY <1>1, <1>2

\* Different locations have different places in the order.
LEMMA LocationInjective ==
    ASSUME NEW l \in DOMAIN LocationOrder, NEW k \in DOMAIN LocationOrder
    PROVE  /\ LocationOrder[l] \in Nat
           /\ LocationOrder[l] = LocationOrder[k] => l = k
BY DEF LocationOrder

\* What the assumption says of a field with rules.
LEMMA FieldFacts ==
    ASSUME NEW f \in RuleFields
    PROVE  /\ f.location \in DOMAIN LocationOrder /\ f.path \in Seq(Nat)
           /\ f = [location |-> f.location, path |-> f.path]
           /\ FieldRules[f] \in Seq(Rules) /\ FieldRules[f] # <<>>
           /\ \A i, j \in DOMAIN FieldRules[f] : FieldRules[f][i] = FieldRules[f][j] => i = j
BY CatalogAssumption

\* The comparison given to sort.Slice leaves no two fields unordered.
LEMMA FieldLessTotal ==
    ASSUME NEW f \in RuleFields, NEW g \in RuleFields, f # g
    PROVE  FieldLess(f, g) \/ FieldLess(g, f)
<1>1. /\ LocationOrder[f.location] \in Nat /\ LocationOrder[g.location] \in Nat
      /\ LocationOrder[f.location] = LocationOrder[g.location] => f.location = g.location
  BY FieldFacts, LocationInjective
<1>2. CASE LocationOrder[f.location] # LocationOrder[g.location]
  BY <1>1, <1>2 DEF FieldLess
<1>3. CASE LocationOrder[f.location] = LocationOrder[g.location]
  <2>1. f.path # g.path /\ f.path \in Seq(Nat) /\ g.path \in Seq(Nat)
    BY <1>1, <1>3, FieldFacts
  <2>2. PathLess(f.path, g.path) \/ PathLess(g.path, f.path)
    BY <2>1, PathLessTotal
  <2> QED  BY <1>3, <2>2 DEF FieldLess
<1> QED  BY <1>2, <1>3

-----------------------------------------------------------------------------
(* The inductive invariant.                                                *)

FieldOf(v) == [location |-> v.location, path |-> v.path]

\* Rule r of field f has been run.
HasRun(f, r) ==
    \/ f \notin todo /\ f # field
    \/ f = field /\ \E i \in 1..checked : FieldRules[f][i] = r

\* Field f breaks its rule r.
Breaks(f, r) ==
    /\ value[f] # Absent
    /\ \E i \in DOMAIN FieldRules[f] : FieldRules[f][i] = r
    /\ ~Passes(r, value[f])

Pairs == {Violation(f, r) : f \in RuleFields, r \in Rules}

\* What the rules run so far have against the request ...
Found == {v \in Pairs : Breaks(FieldOf(v), v.rule) /\ HasRun(FieldOf(v), v.rule)}

\* ... and the ranges.
LateRanges == {i \in 1..crossed : QueryNotAfter(Ranges[i])}
LateViolations == {Violation(Query(Ranges[i].left), "notAfter") : i \in LateRanges}

\* The fields come up in their order.
FieldOrderInv ==
    /\ field # Absent => field \notin todo /\ value[field] # Absent
    /\ \A f \in RuleFields \ todo, g \in todo : FieldLess(f, g)
    /\ field # Absent => \A f \in RuleFields \ todo : f = field \/ FieldLess(f, field)

ProgressInv ==
    /\ field = Absent => checked = 0
    /\ crossed > 0 \/ stage # "rules" => todo = {} /\ field = Absent
    /\ stage # "rules" => crossed = Len(Ranges)
    /\ stage = "handler" \/ answer = "Success" => violations = <<>>
    /\ stage # "done" => answer = "none"

\* The list is what has been found, each once.
ExactInv ==
    /\ IsFiniteSet(Found) /\ IsFiniteSet(LateRanges)
    /\ {violations[i] : i \in DOMAIN violations} = Found \cup LateViolations
    /\ Len(violations) = Cardinality(Found) + Cardinality(LateRanges)

RulesInv == RulesTypeOK /\ FieldOrderInv /\ ProgressInv /\ ExactInv /\ ViolationsOrdered

VType == [location : DOMAIN LocationOrder, path : Seq(Nat), rule : Rules \cup {"notAfter"}]

\* A violation has the type of its field and its rule.
LEMMA ViolationFacts ==
    ASSUME NEW f \in RuleFields, NEW r \in Rules \cup {"notAfter"}
    PROVE  Violation(f, r) \in VType /\ FieldOf(Violation(f, r)) = f /\ Violation(f, r).rule = r
BY FieldFacts DEF Violation, VType, FieldOf

\* The rule that CheckRule runs.
LEMMA RuleAtHand ==
    ASSUME RulesTypeOK, field # Absent
    PROVE  /\ field \in RuleFields /\ checked \in Nat /\ checked + 1 \in DOMAIN FieldRules[field]
           /\ DOMAIN FieldRules[field] = 1..Len(FieldRules[field]) /\ Len(FieldRules[field]) \in Nat
           /\ checked + 1 <= Len(FieldRules[field])
           /\ FieldRules[field][checked + 1] \in Rules
<1>1. field \in RuleFields /\ checked \in Nat /\ checked < Len(FieldRules[field])
  BY DEF RulesTypeOK
<1> DEFINE s == FieldRules[field]
<1>2. s \in Seq(Rules) /\ checked < Len(s)
  BY <1>1, FieldFacts
<1> HIDE DEF s
<1>3. /\ checked + 1 \in DOMAIN s /\ DOMAIN s = 1..Len(s) /\ Len(s) \in Nat
      /\ checked + 1 <= Len(s) /\ s[checked + 1] \in Rules
  BY <1>1, <1>2
<1> QED  BY <1>1, <1>3 DEF s

\* The left end of a range is a field.
LEMMA RangeAtHand ==
    ASSUME RulesTypeOK, crossed < Len(Ranges)
    PROVE  /\ crossed \in Nat /\ crossed + 1 \in 1..Len(Ranges) /\ Len(Ranges) \in Nat
           /\ Query(Ranges[crossed + 1].left) \in RuleFields
<1>a. Ranges \in Seq([left : Nat, right : Nat])
  BY RangesAssumption
<1>b. crossed \in 0..Len(Ranges)
  BY DEF RulesTypeOK
<1>0. DOMAIN Ranges = 1..Len(Ranges) /\ Len(Ranges) \in Nat /\ crossed \in 0..Len(Ranges)
  BY <1>a, <1>b
<1>1. crossed \in Nat /\ crossed + 1 \in 1..Len(Ranges) /\ DOMAIN Ranges = 1..Len(Ranges) /\ Len(Ranges) \in Nat
  BY <1>0
<1>2. Query(Ranges[crossed + 1].left) \in Times
  BY <1>1 DEF Times
<1> QED  BY <1>1, <1>2, RangesAssumption

\* Every step keeps the types, ...
LEMMA RulesTypeStep == RulesTypeOK /\ ProgressInv /\ [RulesNext]_ruleVars => RulesTypeOK'
<1> SUFFICES ASSUME RulesTypeOK, ProgressInv, [RulesNext]_ruleVars PROVE RulesTypeOK'
  OBVIOUS
<1>1. ASSUME NEW f \in todo, NextField(f) PROVE RulesTypeOK'
  <2>1. f \in RuleFields /\ todo' \subseteq RuleFields /\ field' \in RuleFields \cup {Absent}
    BY <1>1 DEF NextField, RulesTypeOK
  <2>2. checked = 0
    BY <1>1 DEF NextField, ProgressInv
  <2>3. Len(FieldRules[f]) > 0
    BY <2>1, FieldFacts
  <2> QED  BY <1>1, <2>1, <2>2, <2>3 DEF NextField, RulesTypeOK
<1>2. CASE CheckRule
  <2>1. field # Absent /\ violations \in Seq(VType)
    BY <1>2 DEF CheckRule, RulesTypeOK, VType
  <2>2. Violation(field, FieldRules[field][checked + 1]) \in VType
    BY <2>1, RuleAtHand, ViolationFacts
  <2>3. violations' \in Seq(VType)
    BY <1>2, <2>1, <2>2 DEF CheckRule
  <2>4. checked' \in Nat /\ field' \in RuleFields \cup {Absent}
    BY <1>2, <2>1, RuleAtHand DEF CheckRule
  <2>5. field' # Absent => checked' < Len(FieldRules[field'])
    BY <1>2, <2>1, RuleAtHand DEF CheckRule
  <2> QED  BY <1>2, <2>3, <2>4, <2>5 DEF CheckRule, RulesTypeOK, VType
<1>3. CASE CheckRange
  <2>1. crossed < Len(Ranges) /\ violations \in Seq(VType)
    BY <1>3 DEF CheckRange, RulesTypeOK, VType
  <2>2. Violation(Query(Ranges[crossed + 1].left), "notAfter") \in VType
    BY <2>1, RangeAtHand, ViolationFacts
  <2>3. violations' \in Seq(VType)
    BY <1>3, <2>1, <2>2 DEF CheckRange
  <2>4. crossed' \in 0..Len(Ranges)
    BY <1>3, <2>1, RangeAtHand DEF CheckRange
  <2> QED  BY <1>3, <2>3, <2>4 DEF CheckRange, RulesTypeOK, VType
<1>4. CASE Reject
  BY <1>4 DEF Reject, RulesTypeOK, Envelope
<1>5. CASE Pass
  BY <1>5 DEF Pass, RulesTypeOK
<1>6. CASE Handle
  BY <1>6 DEF Handle, RulesTypeOK
<1>7. CASE UNCHANGED ruleVars
  BY <1>7 DEF ruleVars, RulesTypeOK
<1> QED  BY <1>1, <1>2, <1>3, <1>4, <1>5, <1>6, <1>7 DEF RulesNext, Answered

\* ... the order in which the fields come up, ...
LEMMA FieldOrderStep == RulesTypeOK /\ FieldOrderInv /\ [RulesNext]_ruleVars => FieldOrderInv'
<1> SUFFICES ASSUME RulesTypeOK, FieldOrderInv, [RulesNext]_ruleVars PROVE FieldOrderInv'
  OBVIOUS
<1>1. ASSUME NEW f \in todo, NextField(f) PROVE FieldOrderInv'
  <2>1. /\ todo \subseteq RuleFields /\ f \in RuleFields /\ todo' = todo \ {f} /\ value' = value
        /\ field' = IF value[f] = Absent THEN Absent ELSE f
        /\ \A g \in todo : ~FieldLess(g, f)
    BY <1>1 DEF NextField, RulesTypeOK, CustomRuleField
  <2>2. \A g \in todo : g # f => FieldLess(f, g)
    BY <2>1, FieldLessTotal
  <2>3. \A g \in RuleFields \ todo', h \in todo' : FieldLess(g, h)
    BY <2>1, <2>2 DEF FieldOrderInv
  <2>4. \A g \in RuleFields \ todo' : g = f \/ FieldLess(g, f)
    BY <2>1 DEF FieldOrderInv
  <2> QED  BY <2>1, <2>3, <2>4 DEF FieldOrderInv
<1>2. CASE CheckRule
  BY <1>2 DEF CheckRule, FieldOrderInv
<1>3. CASE UNCHANGED <<value, todo, field>>
  BY <1>3 DEF FieldOrderInv
<1> QED  BY <1>1, <1>2, <1>3 DEF RulesNext, ruleVars, CheckRange, Reject, Pass, Handle, Answered

\* ... and the bookkeeping of the loops.
LEMMA ProgressStep == RulesTypeOK /\ ProgressInv /\ [RulesNext]_ruleVars => ProgressInv'
<1> SUFFICES ASSUME RulesTypeOK, ProgressInv, [RulesNext]_ruleVars PROVE ProgressInv'
  OBVIOUS
<1>a. Ranges \in Seq([left : Nat, right : Nat])
  BY RangesAssumption
<1>b. crossed \in 0..Len(Ranges) /\ checked \in Nat
  BY DEF RulesTypeOK
<1>0. crossed \in Nat /\ checked \in Nat
  BY <1>a, <1>b
<1>1. ASSUME NEW f \in todo, NextField(f) PROVE ProgressInv'
  BY <1>1 DEF NextField, ProgressInv
<1>2. CASE CheckRule
  BY <1>2 DEF CheckRule, ProgressInv
<1>3. CASE CheckRange
  BY <1>3 DEF CheckRange, FieldsDone, ProgressInv
<1>4. CASE Reject
  BY <1>4 DEF Reject, FieldsDone, ProgressInv, Envelope
<1>5. CASE Pass
  BY <1>5 DEF Pass, FieldsDone, ProgressInv
<1>6. CASE Handle
  BY <1>6 DEF Handle, ProgressInv
<1>7. CASE UNCHANGED ruleVars
  BY <1>7 DEF ruleVars, ProgressInv
<1> QED  BY <1>1, <1>2, <1>3, <1>4, <1>5, <1>6, <1>7 DEF RulesNext, Answered

\* What is in a longer sequence.
LEMMA AppendRange ==
    ASSUME NEW S, NEW s \in Seq(S), NEW x \in S
    PROVE  /\ Len(Append(s, x)) = Len(s) + 1 /\ DOMAIN Append(s, x) = 1..(Len(s) + 1)
           /\ \A i \in 1..Len(s) : Append(s, x)[i] = s[i]
           /\ Append(s, x)[Len(s) + 1] = x
           /\ {Append(s, x)[i] : i \in DOMAIN Append(s, x)} = {s[i] : i \in DOMAIN s} \cup {x}
<1> DEFINE a == Append(s, x)
<1>1. /\ Len(a) = Len(s) + 1 /\ DOMAIN a = 1..(Len(s) + 1) /\ Len(s) \in Nat /\ DOMAIN s = 1..Len(s)
      /\ \A i \in 1..Len(s) : a[i] = s[i]
      /\ a[Len(s) + 1] = x
  OBVIOUS
<1> HIDE DEF a
<1>2. 1..(Len(s) + 1) = 1..Len(s) \cup {Len(s) + 1}
  BY <1>1
<1>3. {a[i] : i \in DOMAIN a} = {s[i] : i \in DOMAIN s} \cup {x}
  BY <1>1, <1>2
<1> QED  BY <1>1, <1>3 DEF a

\* A violation of a field's rule tells the field and the rule.
LEMMA PairFacts ==
    ASSUME NEW v \in Pairs
    PROVE  /\ FieldOf(v) \in RuleFields /\ v.rule \in Rules
           /\ v = Violation(FieldOf(v), v.rule)
<1>1. PICK f \in RuleFields, r \in Rules : v = Violation(f, r)
  BY DEF Pairs
<1>2. FieldOf(v) = f /\ v.rule = r
  BY <1>1, ViolationFacts
<1> QED  BY <1>1, <1>2

\* CheckRule adds the rule it runs to those that have run, and this rule had
\* not run before.
LEMMA CheckRuleRuns ==
    ASSUME RulesTypeOK, FieldOrderInv, CheckRule
    PROVE  /\ \A f \in RuleFields, r \in Rules : Breaks(f, r) =>
                (HasRun(f, r)' <=> HasRun(f, r) \/ (f = field /\ r = FieldRules[field][checked + 1]))
           /\ ~HasRun(field, FieldRules[field][checked + 1])
<1> DEFINE rule == FieldRules[field][checked + 1]
<1>1. /\ field # Absent /\ todo' = todo
      /\ checked' = IF checked + 1 = Len(FieldRules[field]) THEN 0 ELSE checked + 1
      /\ field' = IF checked + 1 = Len(FieldRules[field]) THEN Absent ELSE field
  BY DEF CheckRule
<1>2. /\ field \in RuleFields /\ checked \in Nat /\ checked + 1 \in DOMAIN FieldRules[field]
      /\ DOMAIN FieldRules[field] = 1..Len(FieldRules[field]) /\ Len(FieldRules[field]) \in Nat
      /\ checked + 1 <= Len(FieldRules[field])
      /\ field \notin todo
  BY <1>1, RuleAtHand DEF FieldOrderInv
<1>3. Absent \notin RuleFields
  BY StringsAssumption
<1>4. ASSUME NEW f \in RuleFields, NEW r \in Rules, Breaks(f, r), f = field
      PROVE  HasRun(f, r)' <=> HasRun(f, r) \/ r = rule
  <2>1. \E i \in 1..Len(FieldRules[field]) : FieldRules[field][i] = r
    BY <1>2, <1>4 DEF Breaks
  <2>2. CASE checked + 1 = Len(FieldRules[field])
    <3>1. HasRun(f, r)'
      BY <1>1, <1>2, <1>3, <1>4, <2>2 DEF HasRun
    <3>2. \A i \in 1..Len(FieldRules[field]) : i \in 1..checked \/ i = checked + 1
      BY <1>2, <2>2
    <3>3. HasRun(f, r) \/ r = rule
      BY <1>4, <2>1, <3>2 DEF HasRun
    <3> QED  BY <3>1, <3>3
  <2>3. CASE checked + 1 # Len(FieldRules[field])
    <3>1. field' = field /\ checked' = checked + 1
      BY <1>1, <2>3
    <3>2. 1..(checked + 1) = 1..checked \cup {checked + 1}
      BY <1>2
    <3>3. HasRun(f, r)' <=> \E i \in 1..(checked + 1) : FieldRules[field][i] = r
      BY <1>4, <3>1 DEF HasRun
    <3>4. HasRun(f, r) <=> \E i \in 1..checked : FieldRules[field][i] = r
      BY <1>4 DEF HasRun
    <3> QED  BY <3>2, <3>3, <3>4
  <2> QED  BY <2>2, <2>3
<1>5. ASSUME NEW f \in RuleFields, NEW r \in Rules, f # field
      PROVE  HasRun(f, r)' <=> HasRun(f, r)
  BY <1>1, <1>3, <1>5 DEF HasRun
<1>6. ~HasRun(field, rule)
  <2>1. \A i \in 1..checked : i \in DOMAIN FieldRules[field] /\ i # checked + 1
    BY <1>2
  <2>2. \A i \in 1..checked : FieldRules[field][i] # rule
    BY <1>2, <2>1, FieldFacts
  <2> QED  BY <2>2 DEF HasRun
<1> HIDE DEF rule
<1>7. ASSUME NEW f \in RuleFields, NEW r \in Rules, Breaks(f, r)
      PROVE  HasRun(f, r)' <=> HasRun(f, r) \/ (f = field /\ r = rule)
  BY <1>4, <1>5, <1>7
<1> QED  BY <1>6, <1>7 DEF rule

\* So CheckRule finds what it appends to the list, and nothing else.
LEMMA CheckRuleFinds ==
    ASSUME RulesTypeOK, FieldOrderInv, CheckRule
    PROVE  LET w == Violation(field, FieldRules[field][checked + 1]) IN
           /\ w \in VType /\ w \notin Found
           /\ Passes(FieldRules[field][checked + 1], value[field]) =>
                Found' = Found /\ violations' = violations
           /\ ~Passes(FieldRules[field][checked + 1], value[field]) =>
                Found' = Found \cup {w} /\ violations' = Append(violations, w)
<1> DEFINE rule == FieldRules[field][checked + 1]
           w == Violation(field, rule)
<1>1. field # Absent /\ value' = value
  BY DEF CheckRule
<1>2. field \in RuleFields /\ checked + 1 \in DOMAIN FieldRules[field] /\ rule \in Rules
  BY <1>1, RuleAtHand
<1>3. w \in VType /\ w \in Pairs /\ FieldOf(w) = field /\ w.rule = rule
  BY <1>2, ViolationFacts DEF Pairs
<1>4. ~HasRun(field, rule)
  BY CheckRuleRuns
<1>5. w \notin Found
  BY <1>3, <1>4 DEF Found
<1>6. Breaks(field, rule) <=> ~Passes(rule, value[field])
  BY <1>1, <1>2 DEF Breaks, FieldOrderInv
<1>7. ASSUME NEW v \in Pairs
      PROVE  v \in Found' <=> v \in Found \/ (v = w /\ Breaks(field, rule))
  <2>1. FieldOf(v) \in RuleFields /\ v.rule \in Rules /\ v = Violation(FieldOf(v), v.rule)
    BY PairFacts
  <2>2. Breaks(FieldOf(v), v.rule)' <=> Breaks(FieldOf(v), v.rule)
    BY <1>1 DEF Breaks, Passes
  <2>3. v \in Found <=> Breaks(FieldOf(v), v.rule) /\ HasRun(FieldOf(v), v.rule)
    BY DEF Found
  <2>4. v \in Found' <=> Breaks(FieldOf(v), v.rule)' /\ HasRun(FieldOf(v), v.rule)'
    BY DEF Found, Pairs
  <2>5. Breaks(FieldOf(v), v.rule) =>
            (HasRun(FieldOf(v), v.rule)' <=> HasRun(FieldOf(v), v.rule) \/ (FieldOf(v) = field /\ v.rule = rule))
    BY <2>1, CheckRuleRuns
  <2>6. FieldOf(v) = field /\ v.rule = rule <=> v = w
    BY <1>3, <2>1
  <2> QED  BY <1>3, <2>2, <2>3, <2>4, <2>5, <2>6
<1>8. Found \subseteq Pairs /\ Found' \subseteq Pairs
  BY DEF Found, Pairs
<1>9. /\ Passes(rule, value[field]) => violations' = violations
      /\ ~Passes(rule, value[field]) => violations' = Append(violations, w)
  BY DEF CheckRule
<1> HIDE DEF w, rule
<1>10. /\ Breaks(field, rule) => Found' = Found \cup {w}
       /\ ~Breaks(field, rule) => Found' = Found
  BY <1>3, <1>7, <1>8
<1> QED  BY <1>3, <1>5, <1>6, <1>9, <1>10 DEF w, rule

\* What has been found depends on these variables only.
LEMMA FoundSame ==
    ASSUME UNCHANGED <<value, todo, field, checked>>
    PROVE  Found' = Found
<1>1. ASSUME NEW v \in Pairs
      PROVE  /\ Breaks(FieldOf(v), v.rule)' <=> Breaks(FieldOf(v), v.rule)
             /\ HasRun(FieldOf(v), v.rule)' <=> HasRun(FieldOf(v), v.rule)
  BY DEF Breaks, HasRun, Passes
<1>2. Pairs' = Pairs
  BY DEF Pairs
<1> QED  BY <1>1, <1>2 DEF Found

\* The ranges found depend on the request and on how many have been tried.
LEMMA LateSame ==
    ASSUME UNCHANGED <<value, crossed>>
    PROVE  LateRanges' = LateRanges /\ LateViolations' = LateViolations
<1>1. LateRanges' = LateRanges
  BY DEF LateRanges, QueryNotAfter
<1> QED  BY <1>1 DEF LateViolations

\* A field that comes up has not been checked yet.
LEMMA NextFieldFinds ==
    ASSUME RulesTypeOK, ProgressInv, NEW f \in todo, NextField(f)
    PROVE  Found' = Found
<1>1. /\ f \in RuleFields /\ field = Absent /\ checked = 0 /\ checked' = 0 /\ value' = value
      /\ todo' = todo \ {f} /\ field' = IF value[f] = Absent THEN Absent ELSE f
  BY DEF NextField, RulesTypeOK, ProgressInv
<1>2. Absent \notin RuleFields
  BY StringsAssumption
<1>3. ASSUME NEW g \in RuleFields, NEW r \in Rules, Breaks(g, r)
      PROVE  HasRun(g, r)' <=> HasRun(g, r)
  <2>1. HasRun(g, r) <=> g \notin todo
    BY <1>1, <1>2 DEF HasRun
  <2>2. CASE g = f
    <3>1. field' = f
      BY <1>1, <1>3, <2>2 DEF Breaks
    <3>2. ~HasRun(g, r)'
      BY <1>1, <2>2, <3>1 DEF HasRun
    <3> QED  BY <2>1, <2>2, <3>2
  <2>3. CASE g # f
    BY <1>1, <1>2, <2>1, <2>3 DEF HasRun
  <2> QED  BY <2>2, <2>3
<1>4. ASSUME NEW v \in Pairs
      PROVE  v \in Found' <=> v \in Found
  <2>1. FieldOf(v) \in RuleFields /\ v.rule \in Rules
    BY PairFacts
  <2>2. Breaks(FieldOf(v), v.rule)' <=> Breaks(FieldOf(v), v.rule)
    BY <1>1 DEF Breaks, Passes
  <2>3. v \in Found <=> Breaks(FieldOf(v), v.rule) /\ HasRun(FieldOf(v), v.rule)
    BY DEF Found
  <2>4. v \in Found' <=> Breaks(FieldOf(v), v.rule)' /\ HasRun(FieldOf(v), v.rule)'
    BY DEF Found, Pairs
  <2> QED  BY <1>3, <2>1, <2>2, <2>3, <2>4
<1>5. Found \subseteq Pairs /\ Found' \subseteq Pairs
  BY DEF Found, Pairs
<1> QED  BY <1>4, <1>5

\* CheckRange finds what it appends to the list.
LEMMA CheckRangeFinds ==
    ASSUME RulesTypeOK, CheckRange
    PROVE  LET n == crossed + 1
               w == Violation(Query(Ranges[n].left), "notAfter") IN
           /\ w \in VType /\ n \notin LateRanges
           /\ ~QueryNotAfter(Ranges[n]) =>
                LateRanges' = LateRanges /\ LateViolations' = LateViolations /\ violations' = violations
           /\ QueryNotAfter(Ranges[n]) =>
                /\ LateRanges' = LateRanges \cup {n}
                /\ LateViolations' = LateViolations \cup {w}
                /\ violations' = Append(violations, w)
<1> DEFINE n == crossed + 1
           w == Violation(Query(Ranges[n].left), "notAfter")
<1>1. crossed < Len(Ranges) /\ crossed' = n /\ value' = value
  BY DEF CheckRange
<1>2. crossed \in Nat /\ Query(Ranges[n].left) \in RuleFields
  BY <1>1, RangeAtHand
<1>3. w \in VType
  BY <1>2, ViolationFacts
<1>4. n \notin 1..crossed /\ 1..n = 1..crossed \cup {n}
  BY <1>2
<1>5. \A i : QueryNotAfter(Ranges[i])' <=> QueryNotAfter(Ranges[i])
  BY <1>1 DEF QueryNotAfter
<1>6. /\ ~QueryNotAfter(Ranges[n]) => violations' = violations
      /\ QueryNotAfter(Ranges[n]) => violations' = Append(violations, w)
  BY DEF CheckRange
<1>7. LateRanges' = {i \in 1..n : QueryNotAfter(Ranges[i])}
  BY <1>1, <1>5 DEF LateRanges
<1> HIDE DEF n
<1>8. /\ n \notin LateRanges
      /\ ~QueryNotAfter(Ranges[n]) => LateRanges' = LateRanges
      /\ QueryNotAfter(Ranges[n]) => LateRanges' = LateRanges \cup {n}
  BY <1>4, <1>7 DEF LateRanges
<1>9. /\ LateRanges' = LateRanges => LateViolations' = LateViolations
      /\ LateRanges' = LateRanges \cup {n} => LateViolations' = LateViolations \cup {w}
  BY DEF LateViolations
<1> QED  BY <1>3, <1>6, <1>8, <1>9 DEF n

\* Every step adds what it finds, once.
LEMMA ExactStep ==
    RulesTypeOK /\ FieldOrderInv /\ ProgressInv /\ ExactInv /\ [RulesNext]_ruleVars => ExactInv'
<1> SUFFICES ASSUME RulesTypeOK, FieldOrderInv, ProgressInv, ExactInv, [RulesNext]_ruleVars PROVE ExactInv'
  OBVIOUS
<1>0. /\ IsFiniteSet(Found) /\ IsFiniteSet(LateRanges) /\ violations \in Seq(VType)
      /\ {violations[i] : i \in DOMAIN violations} = Found \cup LateViolations
      /\ Len(violations) = Cardinality(Found) + Cardinality(LateRanges)
      /\ Cardinality(Found) \in Nat /\ Cardinality(LateRanges) \in Nat
  BY FS_CardinalityType DEF ExactInv, RulesTypeOK, VType
<1>1. ASSUME NEW f \in todo, NextField(f) PROVE ExactInv'
  <2>1. Found' = Found
    BY <1>1, NextFieldFinds
  <2>2. violations' = violations /\ LateRanges' = LateRanges /\ LateViolations' = LateViolations
    BY <1>1, LateSame DEF NextField
  <2> QED  BY <2>1, <2>2 DEF ExactInv
<1>2. CASE CheckRule
  <2> DEFINE w == Violation(field, FieldRules[field][checked + 1])
  <2>1. LateRanges' = LateRanges /\ LateViolations' = LateViolations
    BY <1>2, LateSame DEF CheckRule
  <2>2. CASE Passes(FieldRules[field][checked + 1], value[field])
    <3>1. Found' = Found /\ violations' = violations
      BY <1>2, <2>2, CheckRuleFinds
    <3> QED  BY <2>1, <3>1 DEF ExactInv
  <2>3. CASE ~Passes(FieldRules[field][checked + 1], value[field])
    <3>1. w \in VType /\ w \notin Found /\ Found' = Found \cup {w} /\ violations' = Append(violations, w)
      BY <1>2, <2>3, CheckRuleFinds
    <3> HIDE DEF w
    <3>2. IsFiniteSet(Found') /\ Cardinality(Found') = Cardinality(Found) + 1
      BY <1>0, <3>1, FS_AddElement
    <3>3. /\ {violations'[i] : i \in DOMAIN violations'} = {violations[i] : i \in DOMAIN violations} \cup {w}
          /\ Len(violations') = Len(violations) + 1
      BY <1>0, <3>1, AppendRange
    <3> QED  BY <1>0, <2>1, <3>1, <3>2, <3>3 DEF ExactInv
  <2> QED  BY <2>2, <2>3
<1>3. CASE CheckRange
  <2> DEFINE n == crossed + 1
             w == Violation(Query(Ranges[n].left), "notAfter")
  <2>1. Found' = Found
    BY <1>3, FoundSame DEF CheckRange
  <2>2. CASE ~QueryNotAfter(Ranges[n])
    <3>1. LateRanges' = LateRanges /\ LateViolations' = LateViolations /\ violations' = violations
      BY <1>3, <2>2, CheckRangeFinds
    <3> QED  BY <2>1, <3>1 DEF ExactInv
  <2>3. CASE QueryNotAfter(Ranges[n])
    <3>1. /\ w \in VType /\ n \notin LateRanges
          /\ LateRanges' = LateRanges \cup {n} /\ LateViolations' = LateViolations \cup {w}
          /\ violations' = Append(violations, w)
      BY <1>3, <2>3, CheckRangeFinds
    <3> HIDE DEF n, w
    <3>2. IsFiniteSet(LateRanges') /\ Cardinality(LateRanges') = Cardinality(LateRanges) + 1
      BY <1>0, <3>1, FS_AddElement
    <3>3. /\ {violations'[i] : i \in DOMAIN violations'} = {violations[i] : i \in DOMAIN violations} \cup {w}
          /\ Len(violations') = Len(violations) + 1
      BY <1>0, <3>1, AppendRange
    <3>4. Found \cup LateViolations \cup {w} = Found' \cup LateViolations'
      BY <2>1, <3>1
    <3>5. Len(violations') = Cardinality(Found') + Cardinality(LateRanges')
      BY <1>0, <2>1, <3>2, <3>3
    <3> QED  BY <1>0, <2>1, <3>2, <3>3, <3>4, <3>5 DEF ExactInv
  <2> QED  BY <2>2, <2>3
<1>4. CASE UNCHANGED <<value, todo, field, checked, crossed, violations>>
  <2>1. Found' = Found /\ LateRanges' = LateRanges /\ LateViolations' = LateViolations /\ violations' = violations
    BY <1>4, FoundSame, LateSame
  <2> QED  BY <2>1 DEF ExactInv
<1>5. Reject \/ Pass \/ Handle \/ Answered \/ UNCHANGED ruleVars
        => UNCHANGED <<value, todo, field, checked, crossed, violations>>
  BY DEF ruleVars, Reject, Pass, Handle, Answered
<1> QED  BY <1>1, <1>2, <1>3, <1>4, <1>5 DEF RulesNext

\* A violation of a rule of a field that is on the list precedes the one
\* CheckRule appends.
LEMMA CheckRuleOrdered ==
    ASSUME RulesTypeOK, FieldOrderInv, CheckRule, NEW v \in Found
    PROVE  Precedes(v, Violation(field, FieldRules[field][checked + 1]))
<1> DEFINE rule == FieldRules[field][checked + 1]
           w == Violation(field, rule)
           f == FieldOf(v)
<1>1. field # Absent
  BY DEF CheckRule
<1>2. /\ field \in RuleFields /\ checked \in Nat /\ checked + 1 \in DOMAIN FieldRules[field]
      /\ DOMAIN FieldRules[field] = 1..Len(FieldRules[field]) /\ Len(FieldRules[field]) \in Nat
      /\ checked + 1 <= Len(FieldRules[field]) /\ rule \in Rules
      /\ field \notin todo
  BY <1>1, RuleAtHand DEF FieldOrderInv
<1>3. v \in Pairs /\ HasRun(f, v.rule)
  BY DEF Found
<1>4. f \in RuleFields /\ v.rule \in Rules
  BY <1>3, PairFacts
<1>5. v.rule # "notAfter"
  BY <1>4 DEF Rules
<1>6. FieldOf(w) = field /\ w.rule = rule
  BY <1>2, ViolationFacts
<1>7. /\ f.location = v.location /\ f.path = v.path
      /\ field.location = w.location /\ field.path = w.path
  BY <1>6 DEF FieldOf
<1>8. CASE f = field
  <2>1. PICK i \in 1..checked : FieldRules[field][i] = v.rule
    BY <1>2, <1>3, <1>8 DEF HasRun
  <2>2. i \in DOMAIN FieldRules[field] /\ i < checked + 1
    BY <1>2, <2>1
  <2>3. \E k, l \in DOMAIN FieldRules[field] :
            k < l /\ FieldRules[field][k] = v.rule /\ FieldRules[field][l] = w.rule
    BY <1>2, <1>6, <2>1, <2>2
  <2> QED  BY <1>5, <1>6, <1>8, <2>3 DEF Precedes, FieldOf
<1>9. CASE f # field
  <2>1. f \notin todo
    BY <1>3, <1>9 DEF HasRun
  <2>2. FieldLess(f, field)
    BY <1>1, <1>4, <1>9, <2>1 DEF FieldOrderInv
  <2>3. LocationOrder[f.location] = LocationOrder[field.location] => f.location = field.location
    BY <1>2, <1>4, FieldFacts, LocationInjective
  <2>4. \/ LocationOrder[f.location] < LocationOrder[field.location]
        \/ f.location = field.location /\ PathLess(f.path, field.path)
    BY <2>2, <2>3 DEF FieldLess
  <2>5. \/ LocationOrder[v.location] < LocationOrder[w.location]
        \/ v.location = w.location /\ PathLess(v.path, w.path)
    BY <1>7, <2>4
  <2> HIDE DEF w
  <2>6. Precedes(v, w)
    BY <1>5, <2>5 DEF Precedes
  <2> QED  BY <2>6 DEF w, rule
<1> QED  BY <1>8, <1>9

\* An ordered list stays ordered when everything on it precedes what is
\* appended.
LEMMA AppendOrdered ==
    ASSUME violations \in Seq(VType), ViolationsOrdered, NEW w \in VType,
           \A i \in DOMAIN violations : Precedes(violations[i], w),
           violations' = Append(violations, w)
    PROVE  ViolationsOrdered'
<1> DEFINE n == Len(violations)
<1>1. /\ n \in Nat /\ DOMAIN violations = 1..n /\ DOMAIN violations' = 1..(n + 1)
      /\ \A i \in 1..n : violations'[i] = violations[i]
      /\ violations'[n + 1] = w
  BY AppendRange
<1> HIDE DEF n
<1>2. ASSUME NEW i \in DOMAIN violations', NEW j \in DOMAIN violations', i < j
      PROVE  Precedes(violations'[i], violations'[j])
  <2>1. i \in 1..n
    BY <1>1, <1>2
  <2>2. CASE j = n + 1
    BY <1>1, <2>1, <2>2
  <2>3. CASE j # n + 1
    <3>1. j \in 1..n
      BY <1>1, <2>3
    <3>2. Precedes(violations[i], violations[j])
      BY <1>1, <1>2, <2>1, <3>1 DEF ViolationsOrdered
    <3> QED  BY <1>1, <2>1, <3>1, <3>2
  <2> QED  BY <2>2, <2>3
<1> QED  BY <1>2 DEF ViolationsOrdered, Precedes

\* Every step keeps the violations in order.
LEMMA OrderedStep == RulesInv /\ [RulesNext]_ruleVars => ViolationsOrdered'
<1> SUFFICES ASSUME RulesInv, [RulesNext]_ruleVars PROVE ViolationsOrdered'
  OBVIOUS
<1>0. /\ RulesTypeOK /\ FieldOrderInv /\ ProgressInv /\ ExactInv /\ ViolationsOrdered
      /\ violations \in Seq(VType)
  BY DEF RulesInv, RulesTypeOK, VType
<1>1. CASE violations' = violations
  BY <1>0, <1>1 DEF ViolationsOrdered, Precedes
<1>2. CASE CheckRule
  <2> DEFINE w == Violation(field, FieldRules[field][checked + 1])
  <2>1. w \in VType /\ (violations' = violations \/ violations' = Append(violations, w))
    BY <1>0, <1>2, CheckRuleFinds
  <2>2. LateViolations = {}
    <3>1. ~(crossed > 0)
      BY <1>0, <1>2 DEF CheckRule, ProgressInv
    <3>2. crossed = 0
      BY <1>0, <3>1 DEF RulesTypeOK
    <3>3. LateRanges = {}
      BY <3>2 DEF LateRanges
    <3> QED  BY <3>3 DEF LateViolations
  <2>3. \A i \in DOMAIN violations : violations[i] \in Found
    BY <1>0, <2>2 DEF ExactInv
  <2>4. \A v \in Found : Precedes(v, w)
    BY <1>0, <1>2, CheckRuleOrdered
  <2> HIDE DEF w
  <2>5. \A i \in DOMAIN violations : Precedes(violations[i], w)
    BY <2>3, <2>4
  <2> QED  BY <1>0, <1>1, <2>1, <2>5, AppendOrdered
<1>3. CASE CheckRange
  <2> DEFINE w == Violation(Query(Ranges[crossed + 1].left), "notAfter")
  <2>1. w \in VType /\ (violations' = violations \/ violations' = Append(violations, w))
    BY <1>0, <1>3, CheckRangeFinds
  <2>2. \A i \in DOMAIN violations : Precedes(violations[i], w)
    BY DEF Precedes, Violation
  <2> HIDE DEF w
  <2> QED  BY <1>0, <1>1, <2>1, <2>2, AppendOrdered
<1>4. (\E f \in todo : NextField(f)) \/ Reject \/ Pass \/ Handle \/ Answered \/ UNCHANGED ruleVars
        => violations' = violations
  BY DEF NextField, ruleVars, Reject, Pass, Handle, Answered
<1> QED  BY <1>1, <1>2, <1>3, <1>4 DEF RulesNext

\* RulesInv is inductive: it holds at first ...
LEMMA RulesInvInit == RulesInit => RulesInv
<1> SUFFICES ASSUME RulesInit PROVE RulesInv
  OBVIOUS
<1>1. /\ value \in [RuleFields -> Strings \cup {Absent}] /\ stage = "rules" /\ answer = "none"
      /\ todo = RuleFields /\ field = Absent /\ checked = 0 /\ crossed = 0 /\ violations = <<>>
  BY DEF RulesInit
<1>2. RulesTypeOK
  <2>1. Ranges \in Seq([left : Nat, right : Nat])
    BY RangesAssumption
  <2>2. 0 \in 0..Len(Ranges)
    BY <2>1
  <2> QED  BY <1>1, <2>2 DEF RulesTypeOK
<1>3. FieldOrderInv
  BY <1>1 DEF FieldOrderInv
<1>4. ProgressInv
  BY <1>1 DEF ProgressInv
<1>5. ExactInv
  <2>1. Absent \notin RuleFields
    BY StringsAssumption
  <2>2. \A v \in Pairs : ~HasRun(FieldOf(v), v.rule)
    BY <1>1, <2>1, PairFacts DEF HasRun
  <2>3. Found = {}
    BY <2>2 DEF Found
  <2>4. LateRanges = {}
    BY <1>1 DEF LateRanges
  <2>5. LateViolations = {}
    BY <2>4 DEF LateViolations
  <2>6. {violations[i] : i \in DOMAIN violations} = {} /\ Len(violations) = 0
    BY <1>1
  <2> QED  BY <2>3, <2>4, <2>5, <2>6, FS_EmptySet DEF ExactInv
<1>6. ViolationsOrdered
  BY <1>1 DEF ViolationsOrdered
<1> QED  BY <1>2, <1>3, <1>4, <1>5, <1>6 DEF RulesInv

\* ... and every step keeps it.
LEMMA RulesInvStep == RulesInv /\ [RulesNext]_ruleVars => RulesInv'
BY RulesTypeStep, FieldOrderStep, ProgressStep, ExactStep, OrderedStep DEF RulesInv

\* So it always holds.
LEMMA RulesAlways == RulesSpec => []RulesInv
BY RulesInvInit, RulesInvStep, PTL DEF RulesSpec

\* RulesTypeOK is an invariant, whatever the catalog and the strings sent.
THEOREM RulesTypes == RulesSpec => []RulesTypeOK
<1>1. RulesInv => RulesTypeOK
  BY DEF RulesInv
<1> QED  BY RulesAlways, <1>1, PTL

\* ViolationsOrdered is an invariant: the comparison given to sort.Slice is
\* total on the fields of any catalog, so the order of Go's map is lost.
THEOREM ViolationsInOrder == RulesSpec => []ViolationsOrdered
<1>1. RulesInv => ViolationsOrdered
  BY DEF RulesInv
<1> QED  BY RulesAlways, <1>1, PTL

\* When all fields and ranges are done, what has been found is what the
\* rules say of the request.
LEMMA AllFound ==
    ASSUME RulesInv, todo = {}, field = Absent, crossed = Len(Ranges)
    PROVE  Found = Broken /\ LateRanges = Turned
<1>1. Absent \notin RuleFields
  BY StringsAssumption
<1>2. \A v \in Pairs : HasRun(FieldOf(v), v.rule)
  BY <1>1, PairFacts DEF HasRun
<1>3. Ranges \in Seq([left : Nat, right : Nat])
  BY RangesAssumption
<1>4. 1..crossed = DOMAIN Ranges
  BY <1>3
<1>5. Broken = {v \in Pairs : Breaks(FieldOf(v), v.rule)}
  BY DEF Broken, Breaks, FieldOf, Pairs
<1> QED  BY <1>2, <1>4, <1>5 DEF Found, LateRanges, Turned

\* ViolationsExact is an invariant: whatever the catalog, the list has every
\* broken rule once and nothing else.
THEOREM ViolationsAreExact == RulesSpec => []ViolationsExact
<1>1. RulesInv => ViolationsExact
  <2> SUFFICES ASSUME RulesInv, stage = "done" PROVE ViolationsExact
    BY DEF ViolationsExact
  <2>1. todo = {} /\ field = Absent /\ crossed = Len(Ranges)
    BY DEF RulesInv, ProgressInv
  <2>2. Found = Broken /\ LateRanges = Turned
    BY <2>1, AllFound
  <2> QED  BY <2>2 DEF RulesInv, ExactInv, ViolationsExact, LateViolations
<1> QED  BY RulesAlways, <1>1, PTL

\* A request on which nothing was found has times that the handler parses,
\* in ranges that are not turned around.
LEMMA NothingFound ==
    ASSUME RulesInv, Broken = {}, Turned = {}
    PROVE  /\ \A f \in Times : Parses(value[f])
           /\ \A i \in DOMAIN Ranges :
                LET from == value[Query(Ranges[i].left)]
                    to == value[Query(Ranges[i].right)]
                IN  (from # Absent /\ to # Absent /\ ~from.blank /\ ~to.blank) => from.time <= to.time
<1>1. ASSUME NEW f \in Times, value[f] # Absent
      PROVE  value[f] \in Strings /\ value[f].time # NoTime /\ value[f].time \in Int
  <2>1. f \in RuleFields /\ \E i \in DOMAIN FieldRules[f] : FieldRules[f][i] = "localDateTime"
    BY RangesAssumption
  <2>2. value[f] \in Strings
    BY <1>1, <2>1 DEF RulesInv, RulesTypeOK
  <2>3. "localDateTime" \in Rules
    BY DEF Rules
  <2>4. /\ Violation(f, "localDateTime") \in Pairs /\ FieldOf(Violation(f, "localDateTime")) = f
        /\ Violation(f, "localDateTime").rule = "localDateTime"
    BY <2>1, <2>3, ViolationFacts DEF Pairs
  <2>5. ~Breaks(f, "localDateTime")
    BY <2>4 DEF Broken, Breaks, FieldOf, Pairs
  <2>6. Passes("localDateTime", value[f])
    BY <1>1, <2>1, <2>5 DEF Breaks
  <2>7. value[f].time # NoTime
    BY <2>6 DEF Passes
  <2>8. value[f].time \in Int \cup {NoTime}
    BY <2>2, StringsAssumption
  <2> QED  BY <2>2, <2>7, <2>8
<1>2. \A f \in Times : Parses(value[f])
  BY <1>1 DEF Parses
<1>3. ASSUME NEW i \in DOMAIN Ranges,
             value[Query(Ranges[i].left)] # Absent, value[Query(Ranges[i].right)] # Absent
      PROVE  value[Query(Ranges[i].left)].time <= value[Query(Ranges[i].right)].time
  <2> DEFINE from == value[Query(Ranges[i].left)]
             to == value[Query(Ranges[i].right)]
  <2>1. Query(Ranges[i].left) \in Times /\ Query(Ranges[i].right) \in Times
    BY DEF Times
  <2>2. /\ from.time # NoTime /\ from.time \in Int
        /\ to.time # NoTime /\ to.time \in Int
    BY <1>1, <1>3, <2>1
  <2>3. ~(from.time > to.time)
    BY <1>3, <2>2 DEF Turned, QueryNotAfter
  <2> HIDE DEF from, to
  <2>4. from.time <= to.time
    BY <2>2, <2>3
  <2> QED  BY <2>4 DEF from, to
<1> QED  BY <1>2, <1>3

\* In the handler no rule is broken and no range turned around.
LEMMA PassedFindsNothing ==
    ASSUME RulesInv, stage = "handler"
    PROVE  Broken = {} /\ Turned = {}
<1>1. todo = {} /\ field = Absent /\ crossed = Len(Ranges) /\ violations = <<>>
  BY DEF RulesInv, ProgressInv
<1>2. Found = Broken /\ LateRanges = Turned
  BY <1>1, AllFound
<1>3. Found \cup LateViolations = {}
  BY <1>1 DEF RulesInv, ExactInv
<1>4. LateRanges = {}
  BY <1>3 DEF LateViolations
<1> QED  BY <1>2, <1>3, <1>4

\* GateCoversHandler is an invariant, as long as the contract gives the ends
\* of every range the rule localDateTime.
THEOREM GateCovers == RulesSpec => []GateCoversHandler
<1>1. RulesInv => GateCoversHandler
  BY NothingFound, PassedFindsNothing DEF GateCoversHandler
<1> QED  BY RulesAlways, <1>1, PTL

\* The handler of the list never answers with an internal error because of a
\* time: what parseTimeParam reports cannot be reached over HTTP
\* (admin_validation.go:79).
THEOREM NoInternalError == RulesSpec => [](answer # "CommonInternal")
<1>1. RulesInv /\ answer # "CommonInternal" /\ [RulesNext]_ruleVars => (answer # "CommonInternal")'
  <2> SUFFICES ASSUME RulesInv, answer # "CommonInternal", [RulesNext]_ruleVars
               PROVE  answer' # "CommonInternal"
    OBVIOUS
  <2>1. CASE Handle
    <3>1. \A f \in Times : Parses(value[f])
      BY <2>1, PassedFindsNothing, NothingFound DEF Handle
    <3> QED  BY <2>1, <3>1 DEF Handle
  <2>2. CASE Reject
    BY <2>2 DEF Reject, Envelope
  <2>3. CASE answer' = answer
    BY <2>3
  <2>4. (\E f \in todo : NextField(f)) \/ CheckRule \/ CheckRange \/ Pass \/ Answered \/ UNCHANGED ruleVars
          => answer' = answer
    BY DEF NextField, CheckRule, CheckRange, Pass, Answered, ruleVars
  <2> QED  BY <2>1, <2>2, <2>3, <2>4 DEF RulesNext
<1>2. RulesInit => answer # "CommonInternal"
  BY DEF RulesInit
<1> QED  BY RulesAlways, <1>1, <1>2, PTL DEF RulesSpec
=============================================================================
