------------------------ MODULE AdminUserList_proofs ------------------------
(***************************************************************************)
(* The invariants of AdminUserList for every number of accounts, every     *)
(* page size and every width of the OFFSET.                                *)
(*                                                                         *)
(* Two facts carry the proofs.  Newer orders the accounts totally, so the  *)
(* rank numbers the matching accounts 0, 1, 2, ... and a page is a piece   *)
(* of that numbering.  And as long as nobody leaves the filter no rank     *)
(* ever falls: whoever is behind the pages read so far stays behind them.  *)
(***************************************************************************)
EXTENDS AdminUserList, FiniteSetTheorems, TLAPS

-----------------------------------------------------------------------------
(* Arithmetic of pages.                                                    *)

LEMMA DivBounds ==
    ASSUME NEW n \in Nat, NEW s \in Nat, s >= 1
    PROVE  n \div s \in Nat /\ s * (n \div s) <= n /\ n < s * (n \div s) + s
BY Z3

LEMMA TimesMonotone ==
    ASSUME NEW a \in Int, NEW b \in Int, NEW s \in Nat, a <= b
    PROVE  s * a <= s * b
BY Z3

\* The check of pageOffset excludes an overflow of the product.
LEMMA NoOverflow ==
    ASSUME NEW q \in Nat, NEW m \in Nat, NEW s \in Nat, s >= 1, q <= m \div s
    PROVE  q * s \in Nat /\ q * s <= m
<1>1. s * q <= s * (m \div s)
  BY DivBounds, TimesMonotone
<1>2. s * (m \div s) <= m /\ m \div s \in Nat
  BY DivBounds
<1>3. q * s = s * q /\ q * s \in Nat
  OBVIOUS
<1> QED  BY <1>1, <1>2, <1>3

\* The conversion to int32 keeps what fits.
LEMMA Int32Exact ==
    ASSUME NEW n \in Nat, n <= MaxInt32
    PROVE  Int32(n) = n
BY Int32Assumption, Z3 DEF Int32

\* Without a next page, the pages up to this one hold the total.
LEMMA LastPageHoldsAll ==
    ASSUME NEW t \in Nat, NEW p \in Nat, NEW s \in Nat, s >= 1,
           ~(p < CalculateTotalPages(t, s))
    PROVE  t <= p * s
<1> DEFINE m == t + s - 1
<1>1. CASE t = 0
  <2>1. p * s \in Nat
    OBVIOUS
  <2> QED  BY <1>1, <2>1
<1>2. CASE t # 0
  <2>1. m \in Nat
    OBVIOUS
  <2>2. m \div s \in Nat /\ m < s * (m \div s) + s
    BY <2>1, DivBounds
  <2>3. m \div s <= p
    BY <1>2, <2>2 DEF CalculateTotalPages
  <2>4. s * (m \div s) <= s * p
    BY <2>2, <2>3, TimesMonotone
  <2>5. s * p = p * s /\ p * s \in Nat
    OBVIOUS
  <2> HIDE DEF m
  <2>6. m < p * s + s
    BY <2>1, <2>2, <2>4, <2>5
  <2> QED  BY <2>5, <2>6 DEF m
<1> QED  BY <1>1, <1>2

-----------------------------------------------------------------------------
(* The order of the list.                                                  *)

LEMMA IdFinite == IsFiniteSet(Id) /\ Id \subseteq Nat
BY BoundsAssumption, FS_Interval DEF Id

LEMMA MatchingFinite ==
    ASSUME TypeOK
    PROVE  /\ Matching \subseteq visible /\ Matching \subseteq Id /\ IsFiniteSet(Matching)
           /\ Cardinality(Matching) \in Nat
<1>1. Matching \subseteq visible /\ Matching \subseteq Id
  BY DEF TypeOK, Matching
<1>2. IsFiniteSet(Matching)
  BY <1>1, IdFinite, FS_Subset
<1> QED  BY <1>1, <1>2, FS_CardinalityType

\* created_at DESC, id DESC is a strict total order.
LEMMA NewerIsOrder ==
    ASSUME TypeOK
    PROVE  /\ \A i \in Id : ~Newer(i, i)
           /\ \A i, j \in Id : i # j => Newer(i, j) \/ Newer(j, i)
           /\ \A i, j, k \in Id : Newer(i, j) /\ Newer(j, k) => Newer(i, k)
<1>1. /\ \A i \in Id : created[i] \in Int /\ i \in Int
  BY IdFinite DEF TypeOK
<1> QED  BY <1>1 DEF Newer

\* Whoever comes before i in the list.
Before(i) == {j \in Matching : Newer(j, i)}

LEMMA RankBounds ==
    ASSUME TypeOK, NEW i \in Matching
    PROVE  /\ IsFiniteSet(Before(i)) /\ Rank(i) = Cardinality(Before(i))
           /\ Rank(i) \in Nat /\ Rank(i) < Cardinality(Matching)
<1>1. Before(i) \subseteq Matching /\ i \notin Before(i)
  BY MatchingFinite, NewerIsOrder DEF Before
<1>2. IsFiniteSet(Before(i)) /\ Cardinality(Before(i)) <= Cardinality(Matching)
  BY <1>1, MatchingFinite, FS_Subset
<1>3. Cardinality(Before(i)) # Cardinality(Matching)
  BY <1>1, MatchingFinite, FS_Subset
<1>4. Cardinality(Before(i)) \in Nat
  BY <1>2, FS_CardinalityType
<1>5. Rank(i) = Cardinality(Before(i))
  BY DEF Rank, Before
<1> QED  BY <1>2, <1>3, <1>4, <1>5, MatchingFinite

\* Different accounts have different ranks.
LEMMA RankInjective ==
    ASSUME TypeOK, NEW i \in Matching, NEW j \in Matching, i # j
    PROVE  Rank(i) # Rank(j)
<1>1. ASSUME NEW a \in Matching, NEW b \in Matching, Newer(a, b)
      PROVE  Rank(a) < Rank(b)
  <2>1. Before(a) \subseteq Before(b) /\ a \in Before(b) /\ a \notin Before(a)
    BY <1>1, NewerIsOrder, MatchingFinite DEF Before
  <2>2. IsFiniteSet(Before(b))
    BY RankBounds
  <2>3. Cardinality(Before(a)) <= Cardinality(Before(b))
    BY <2>1, <2>2, FS_Subset
  <2>4. Cardinality(Before(a)) # Cardinality(Before(b))
    BY <2>1, <2>2, FS_Subset
  <2> QED  BY <2>3, <2>4, RankBounds
<1>2. Newer(i, j) \/ Newer(j, i)
  BY NewerIsOrder, MatchingFinite
<1>3. Rank(i) \in Nat /\ Rank(j) \in Nat
  BY RankBounds
<1> QED  BY <1>1, <1>2, <1>3

LEMMA IntervalCount ==
    ASSUME NEW a \in Int, NEW b \in Int, NEW n \in Nat, b = a + n - 1
    PROVE  IsFiniteSet(a..b) /\ Cardinality(a..b) = n
<1>1. IsFiniteSet(a..b) /\ Cardinality(a..b) = IF a > b THEN 0 ELSE b - a + 1
  BY FS_Interval
<1>2. (IF a > b THEN 0 ELSE b - a + 1) = n
  OBVIOUS
<1> QED  BY <1>1, <1>2

\* The ranks are 0, 1, 2, ... without a gap.
LEMMA EveryRankTaken ==
    ASSUME TypeOK, NEW r \in Nat, r < Cardinality(Matching)
    PROVE  \E i \in Matching : Rank(i) = r
<1> DEFINE N == Cardinality(Matching)
           f == [i \in Matching |-> Rank(i)]
<1>1. N \in Nat
  BY MatchingFinite
<1>2. IsFiniteSet(0..(N - 1)) /\ Cardinality(0..(N - 1)) = N
  <2>1. N - 1 \in Int /\ 0 \in Int /\ N - 1 = 0 + N - 1
    BY <1>1
  <2> QED  BY <1>1, <2>1, IntervalCount
<1>3. f \in Injection(Matching, 0..(N - 1))
  <2>1. f \in [Matching -> 0..(N - 1)]
    BY <1>1, RankBounds
  <2>2. \A i, j \in Matching : f[i] = f[j] => i = j
    BY RankInjective
  <2> QED  BY <2>1, <2>2 DEF Injection, IsInjective
<1> HIDE DEF N, f
<1>4. f \in Surjection(Matching, 0..(N - 1))
  BY <1>2, <1>3, FS_Injection DEF N
<1>5. r \in 0..(N - 1)
  BY <1>1 DEF N
<1>6. PICK i \in Matching : f[i] = r
  BY <1>4, <1>5 DEF Surjection
<1> QED  BY <1>6 DEF f

\* A page holds what is promised of as many accounts as match.
LEMMA PageCount ==
    ASSUME TypeOK, offset \in Nat, size \in Nat
    PROVE  Cardinality(PageRows) = Promised(Cardinality(Matching))
<1> DEFINE N == Cardinality(Matching)
           hi == offset + Promised(N)
           K == offset..(hi - 1)
           g == [i \in PageRows |-> Rank(i)]
<1>1. N \in Nat
  BY MatchingFinite
<1>2. Promised(N) \in Nat /\ Promised(N) <= size /\ (Promised(N) < size => N <= hi)
      /\ (Promised(N) # 0 => hi <= N)
  BY <1>1 DEF Promised
<1> HIDE DEF N
<1>3. hi \in Nat /\ IsFiniteSet(K) /\ Cardinality(K) = Promised(N)
  <2>1. hi \in Nat /\ hi - 1 \in Int /\ offset \in Int /\ hi - 1 = offset + Promised(N) - 1
    BY <1>2
  <2> QED  BY <1>2, <2>1, IntervalCount
<1>4. \A i \in PageRows : i \in Matching /\ Rank(i) \in K
  <2> SUFFICES ASSUME NEW i \in PageRows PROVE i \in Matching /\ Rank(i) \in K
    OBVIOUS
  <2>1. i \in Matching /\ offset <= Rank(i) /\ Rank(i) < offset + size
    BY DEF PageRows
  <2>2. Rank(i) \in Nat /\ Rank(i) < N
    BY <2>1, RankBounds DEF N
  <2> QED  BY <1>1, <1>2, <2>1, <2>2
<1>5. \A r \in K : \E i \in PageRows : Rank(i) = r
  <2> SUFFICES ASSUME NEW r \in K PROVE \E i \in PageRows : Rank(i) = r
    OBVIOUS
  <2>1. r \in Nat /\ r < N /\ offset <= r /\ r < offset + size
    BY <1>1, <1>2
  <2>2. PICK i \in Matching : Rank(i) = r
    BY <2>1, EveryRankTaken DEF N
  <2> QED  BY <2>1, <2>2 DEF PageRows
<1>6. g \in Bijection(PageRows, K)
  <2>1. g \in [PageRows -> K]
    BY <1>4
  <2>2. \A i, j \in PageRows : g[i] = g[j] => i = j
    BY <1>4, RankInjective
  <2>3. \A r \in K : \E i \in PageRows : g[i] = r
    BY <1>5
  <2> QED  BY <2>1, <2>2, <2>3 DEF Bijection, Injection, IsInjective, Surjection
<1>7. IsFiniteSet(PageRows)
  <2>1. PageRows \subseteq Matching
    BY DEF PageRows
  <2> QED  BY <2>1, MatchingFinite, FS_Subset
<1> HIDE DEF K, g
<1>8. Cardinality(K) = Cardinality(PageRows)
  BY <1>6, <1>7, FS_Bijection DEF ExistsBijection
<1> QED  BY <1>3, <1>8 DEF N

-----------------------------------------------------------------------------
(* The inductive invariant.                                                *)

\* A request whose statements run, or have run, is valid.
RequestInv ==
    (pc \in {"count", "page", "roles"} \/ Answered) =>
        /\ page \in Nat /\ page >= 1 /\ size \in Nat /\ size >= 1
        /\ offset \in Nat /\ offset = (page - 1) * size /\ offset <= MaxInt32

\* Accounts are committed with their role.
RoleInv ==
    /\ visible \subseteq roled /\ items \subseteq visible
    /\ pc \in {"count", "page"} => items = {}
    /\ pc \in {"count", "page", "roles"} => found = {}
    /\ ListedHaveRoles

\* What the COUNT is worth when the page is read, and afterwards.
CountInv ==
    /\ pc = "page" => /\ ~skewed => total = Cardinality(Matching)
                      /\ ~shrunk => total <= Cardinality(Matching)
    /\ (pc = "roles" \/ Answered) =>
         /\ ~skewed => Cardinality(items) = Promised(total)
         /\ ~shrunk => Cardinality(items) >= Promised(total)

\* The page of the request is read; who is shown, or about to be.
Read == pc = "roles" \/ Answered
Shown == IF pc = "roles" THEN seen \cup items ELSE seen

\* The walk: nobody it started from is lost.  Who has not been shown is
\* behind the pages read so far; and if the last of them was read as it was
\* counted, the total says that there is more.
WalkInv ==
    (walking /\ ~shrunk) =>
        /\ start \subseteq Matching
        /\ pc \in {"count", "page"} => \A i \in start : i \in seen \/ Rank(i) >= (page - 1) * size
        /\ Read => \A i \in start : i \in Shown \/ Rank(i) >= page * size
        /\ (Read /\ ~skewed) => \A i \in start : i \in Shown \/ page * size < total

ListInv == TypeOK /\ RequestInv /\ RoleInv /\ CountInv /\ WalkInv

-----------------------------------------------------------------------------
(* What changes of the table do to a list.                                 *)

Change ==
    \/ \E i \in Id : Insert(i) \/ CommitRegistration(i)
    \/ \E i \in Id, s \in UserStatus : UpdateStatus(i, s)
    \/ Tick

\* Rows come, and keep their place in the order; none goes.
TableGrows ==
    /\ Observe
    /\ visible \subseteq visible' /\ visible' \subseteq inserted'
    /\ inserted' \subseteq Id /\ roled' \subseteq Id
    /\ visible \subseteq roled => visible' \subseteq roled'
    /\ created' \in [Id -> Nat] /\ status' \in [Id -> UserStatus] /\ now' \in Nat
    /\ \A i \in visible : created'[i] = created[i]

LEMMA ChangeFacts ==
    ASSUME TypeOK, Change
    PROVE  TableGrows
<1>1. ASSUME NEW i \in Id, Insert(i) PROVE TableGrows
  BY <1>1 DEF TypeOK, Insert, TableGrows
<1>2. ASSUME NEW i \in Id, CommitRegistration(i) PROVE TableGrows
  BY <1>2 DEF TypeOK, CommitRegistration, TableGrows
<1>3. ASSUME NEW i \in Id, NEW s \in UserStatus, UpdateStatus(i, s) PROVE TableGrows
  BY <1>3 DEF TypeOK, UpdateStatus, TableGrows
<1>4. CASE Tick
  BY <1>4 DEF TypeOK, Tick, TableGrows
<1> QED  BY <1>1, <1>2, <1>3, <1>4 DEF Change

LEMMA ChangeTypes ==
    ASSUME TypeOK, Change
    PROVE  TypeOK'
<1>1. TableGrows
  BY ChangeFacts
<1> QED  BY <1>1 DEF TypeOK, TableGrows, Observe, query, answer, client

LEMMA FiniteNext ==
    ASSUME TypeOK'
    PROVE  /\ IsFiniteSet(Matching') /\ Cardinality(Matching') \in Nat
           /\ \A i : IsFiniteSet(Before(i)') /\ Rank(i)' \in Nat
<1>1. Matching' \subseteq Id
  BY DEF TypeOK, Matching
<1>2. IsFiniteSet(Matching')
  BY <1>1, IdFinite, FS_Subset
<1>3. ASSUME NEW i PROVE IsFiniteSet(Before(i)') /\ Rank(i)' \in Nat
  <2>1. Before(i)' \subseteq Matching'
    BY DEF Before
  <2>2. IsFiniteSet(Before(i)')
    BY <1>2, <2>1, FS_Subset
  <2>3. Rank(i)' = Cardinality(Before(i)')
    BY DEF Rank, Before
  <2> QED  BY <2>2, <2>3, FS_CardinalityType
<1> QED  BY <1>2, <1>3, FS_CardinalityType

\* While nobody leaves the filter, no rank falls and the count does not.
LEMMA RankGrows ==
    ASSUME TypeOK, Change, ~shrunk'
    PROVE  /\ ~shrunk /\ Matching \subseteq Matching'
           /\ Cardinality(Matching) <= Cardinality(Matching')
           /\ \A i \in Matching : Rank(i) <= Rank(i)'
<1>1. TableGrows
  BY ChangeFacts
<1>2. TypeOK'
  BY ChangeTypes
<1>3. ~shrunk /\ Matching \subseteq Matching'
  BY <1>1 DEF TableGrows, Observe
<1>4. IsFiniteSet(Matching')
  BY <1>2, FiniteNext
<1>5. Cardinality(Matching) <= Cardinality(Matching')
  BY <1>3, <1>4, FS_Subset
<1>6. ASSUME NEW i \in Matching PROVE Rank(i) <= Rank(i)'
  <2>1. Before(i) \subseteq Before(i)'
    <3>1. Matching \subseteq visible
      BY MatchingFinite
    <3> QED  BY <1>1, <1>3, <3>1 DEF TableGrows, Before, Newer
  <2>2. IsFiniteSet(Before(i)')
    BY <1>2, FiniteNext
  <2>3. Cardinality(Before(i)) <= Cardinality(Before(i)')
    BY <2>1, <2>2, FS_Subset
  <2> QED  BY <2>3 DEF Rank, Before
<1> QED  BY <1>3, <1>5, <1>6

\* A change of the table preserves the invariant.
LEMMA ChangeStep ==
    ASSUME ListInv, Change
    PROVE  ListInv'
<1> USE DEF ListInv
<1>1. TypeOK'
  BY ChangeTypes
<1>2. TableGrows
  BY ChangeFacts
<1>3. UNCHANGED <<pc, page, size, filter, offset, total, items, found, code,
                  walking, start, seen>>
  BY <1>2 DEF TableGrows, Observe, query, answer, client
<1>4. RequestInv'
  BY <1>3 DEF RequestInv, Answered
<1>5. RoleInv'
  BY <1>2, <1>3 DEF RoleInv, ListedHaveRoles, Answered, TableGrows
<1>6. CountInv'
  <2>1. (pc = "roles" \/ Answered) =>
           /\ ~skewed' => Cardinality(items) = Promised(total)
           /\ ~shrunk' => Cardinality(items) >= Promised(total)
    BY <1>2 DEF CountInv, TableGrows, Observe
  <2>2. ASSUME pc = "page", ~skewed' PROVE total = Cardinality(Matching')
    BY <1>2, <2>2 DEF CountInv, TableGrows, Observe
  <2>3. ASSUME pc = "page", ~shrunk' PROVE total <= Cardinality(Matching')
    <3>1. total <= Cardinality(Matching) /\ Cardinality(Matching) <= Cardinality(Matching')
      BY <2>3, RankGrows DEF CountInv
    <3>2. Cardinality(Matching) \in Nat /\ Cardinality(Matching') \in Nat
      BY <1>1, MatchingFinite, FiniteNext
    <3> QED  BY <3>1, <3>2 DEF TypeOK
  <2> QED  BY <1>3, <2>1, <2>2, <2>3 DEF CountInv, Answered, Promised
<1>7. WalkInv'
  <2> SUFFICES ASSUME walking, ~shrunk'
               PROVE  WalkInv'
    BY <1>3 DEF WalkInv
  <2>1. /\ ~shrunk /\ Matching \subseteq Matching'
        /\ \A i \in Matching : Rank(i) <= Rank(i)'
    BY RankGrows
  <2>2. start \subseteq Matching
    BY <2>1 DEF WalkInv
  <2>3. \A i \in start : Rank(i) \in Nat /\ Rank(i)' \in Nat /\ Rank(i) <= Rank(i)'
    BY <1>1, <2>1, <2>2, RankBounds, FiniteNext
  <2>4. ASSUME pc \in {"count", "page"}
        PROVE  \A i \in start : i \in seen \/ Rank(i)' >= (page - 1) * size
    <3>1. \A i \in start : i \in seen \/ Rank(i) >= (page - 1) * size
      BY <2>1, <2>4 DEF WalkInv
    <3>2. (page - 1) * size \in Int
      BY DEF TypeOK
    <3> QED  BY <2>3, <3>1, <3>2
  <2>5. ASSUME Read
        PROVE  \A i \in start : i \in Shown \/ Rank(i)' >= page * size
    <3>1. \A i \in start : i \in Shown \/ Rank(i) >= page * size
      BY <2>1, <2>5 DEF WalkInv
    <3>2. page * size \in Int
      BY DEF TypeOK
    <3> QED  BY <2>3, <3>1, <3>2
  <2>6. ASSUME Read, ~skewed'
        PROVE  \A i \in start : i \in Shown \/ page * size < total
    BY <1>2, <2>1, <2>6 DEF WalkInv, TableGrows, Observe
  <2>7. Read' = Read /\ Shown' = Shown
    BY <1>3 DEF Read, Shown, Answered
  <2> QED  BY <1>3, <2>1, <2>2, <2>4, <2>5, <2>6, <2>7 DEF WalkInv
<1> QED  BY <1>1, <1>4, <1>5, <1>6, <1>7

-----------------------------------------------------------------------------
(* The steps of a list.                                                    *)

\* A request that gets to the database has an exact offset.
LEMMA BeginFacts ==
    ASSUME TypeOK, NEW p \in Int, NEW s \in Int, NEW f \in Filters, Begin(p, s, f)
    PROVE  /\ RequestInv' /\ CountInv'
           /\ page' = p /\ size' = s /\ filter' = f /\ offset' \in Int
           /\ pc' = "count" \/ (pc' = "answered" /\ code' = 400)
           /\ code' \in {200, 400, 500}
           /\ total' = 0 /\ items' = {} /\ found' = {} /\ skewed' = FALSE
           /\ UNCHANGED table
<1> DEFINE ok == NewRequest(p, s) /\ OffsetFits(p, s) /\ f \in {""} \cup UserStatus
<1>0. /\ page' = p /\ size' = s /\ filter' = f
      /\ total' = 0 /\ items' = {} /\ found' = {} /\ skewed' = FALSE /\ UNCHANGED table
  BY DEF Begin
<1>1. CASE ok
  <2>a. p >= 1 /\ s >= 1
    BY <1>1, Zenon DEF NewRequest
  <2>b. p - 1 <= MaxInt32 \div s
    BY <1>1, Zenon DEF OffsetFits
  <2>1. p - 1 \in Nat /\ s \in Nat /\ p \in Nat
    BY <2>a
  <2> DEFINE o == (p - 1) * s
  <2>2. o \in Nat /\ o <= MaxInt32
    BY <2>a, <2>b, <2>1, Int32Assumption, NoOverflow
  <2> HIDE DEF o
  <2>3. Int32(o) = o
    BY <2>2, Int32Exact
  <2>4. PageOffset(p, s) = o
    BY <2>3 DEF PageOffset, o
  <2>5. pc' = "count" /\ offset' = o /\ code' = code
    BY <1>1, <2>4 DEF Begin
  <2>6. page' = p /\ size' = s
    BY DEF Begin
  <2>7. RequestInv'
    BY <2>a, <2>1, <2>2, <2>5, <2>6 DEF RequestInv, o
  <2>8. CountInv'
    BY <2>5 DEF CountInv, Answered
  <2>9. offset' \in Int /\ code' \in {200, 400, 500}
    BY <2>2, <2>5 DEF TypeOK
  <2> QED  BY <1>0, <2>5, <2>7, <2>8, <2>9
<1>2. CASE ~ok
  <2>1. pc' = "answered" /\ code' = 400 /\ offset' = 0
    BY <1>2 DEF Begin
  <2>2. RequestInv' /\ CountInv'
    BY <2>1 DEF RequestInv, CountInv, Answered
  <2>3. offset' \in Int /\ code' \in {200, 400, 500}
    BY <2>1
  <2> QED  BY <1>0, <2>1, <2>2, <2>3
<1> QED  BY <1>1, <1>2

LEMMA ListUsersStep ==
    ASSUME ListInv, NEW p \in Pages, NEW s \in Sizes, NEW f \in Filters, ListUsers(p, s, f)
    PROVE  ListInv'
<1> USE DEF ListInv
<1>1. PICK q \in Int, z \in Int :
        q = WithDefault(p, DefaultPage) /\ z = WithDefault(s, DefaultSize)
  BY PagesAssumption, SizeAssumption DEF WithDefault, DefaultPage
<1>2. Begin(q, z, f) /\ walking' = (q = 1) /\ seen' = {} /\ shrunk' = FALSE
      /\ start' = IF walking' THEN Matching' ELSE {}
  BY <1>1 DEF ListUsers, DefaultPage
<1>3. /\ RequestInv' /\ CountInv'
      /\ page' = q /\ size' = z /\ filter' = f /\ offset' \in Int
      /\ pc' = "count" \/ (pc' = "answered" /\ code' = 400)
      /\ code' \in {200, 400, 500}
      /\ total' = 0 /\ items' = {} /\ found' = {} /\ skewed' = FALSE
      /\ UNCHANGED table
  BY ZenonT(60), <1>2, BeginFacts
<1>4. Matching' \subseteq Id
  BY ZenonT(60), <1>3 DEF table, TypeOK, Matching
<1>5. TypeOK'
  BY ZenonT(60), <1>2, <1>3, <1>4 DEF TypeOK, table
<1>6. RoleInv'
  BY <1>3 DEF RoleInv, ListedHaveRoles, Answered, table
<1>7. WalkInv'
  <2> SUFFICES ASSUME walking', ~shrunk'
               PROVE  WalkInv'
    BY DEF WalkInv
  <2>0. q = 1 /\ start' = Matching'
    BY <1>2, Zenon
  <2>1. page' = 1 /\ start' = Matching' /\ ~Read'
    BY <2>0, <1>3 DEF Read, Answered
  <2>2. (page' - 1) * size' = 0
    BY <1>3, <2>1
  <2>3. \A i \in start' : Rank(i)' >= (page' - 1) * size'
    BY <1>5, <2>2, FiniteNext
  <2> QED  BY <2>1, <2>3 DEF WalkInv
<1> QED  BY <1>3, <1>5, <1>6, <1>7

LEMMA NextPageStep ==
    ASSUME ListInv, NextPage
    PROVE  ListInv'
<1> USE DEF ListInv
<1>0. page \in Int /\ size \in Int /\ filter \in Filters
  BY DEF TypeOK
<1>1. PICK q \in Int, z \in Int, f \in Filters : q = page + 1 /\ z = size /\ f = filter
  BY <1>0
<1>2. Begin(q, z, f) /\ UNCHANGED <<walking, start, seen, shrunk>> /\ Read
  BY <1>1 DEF NextPage, client, Read, Answered
<1>3. /\ RequestInv' /\ CountInv'
      /\ page' = q /\ size' = z /\ filter' = f /\ offset' \in Int
      /\ pc' = "count" \/ (pc' = "answered" /\ code' = 400)
      /\ code' \in {200, 400, 500}
      /\ total' = 0 /\ items' = {} /\ found' = {} /\ skewed' = FALSE
      /\ UNCHANGED table
  BY ZenonT(60), <1>2, BeginFacts
<1>4. TypeOK'
  BY ZenonT(60), <1>2, <1>3 DEF TypeOK, table
<1>5. RoleInv'
  BY <1>3 DEF RoleInv, ListedHaveRoles, Answered, table
<1>6. WalkInv'
  <2> SUFFICES ASSUME walking, ~shrunk
               PROVE  WalkInv'
    BY <1>2 DEF WalkInv
  <2>1. ~Read' /\ Matching' = Matching /\ \A i : Rank(i)' = Rank(i)
    BY <1>1, <1>3 DEF Read, Answered, table, Matching, Rank, Newer
  <2>2. \A i \in start : i \in seen \/ Rank(i) >= page * size
    BY <1>2 DEF WalkInv, Shown, NextPage
  <2>3. (page' - 1) * size' = page * size
    BY <1>0, <1>1, <1>3
  <2>4. \A i \in start : i \in seen \/ Rank(i)' >= (page' - 1) * size'
    BY <2>1, <2>2, <2>3
  <2> QED  BY <1>2, <2>1, <2>4 DEF WalkInv
<1> QED  BY <1>3, <1>4, <1>5, <1>6

LEMMA SameTable ==
    ASSUME UNCHANGED <<table, query>>
    PROVE  Matching' = Matching /\ \A i : Rank(i)' = Rank(i)
BY DEF table, query, Matching, Rank, Newer

LEMMA CountStep ==
    ASSUME ListInv, CountByCriteria
    PROVE  ListInv'
<1> USE DEF ListInv
<1>1. /\ pc = "count" /\ total' = Cardinality(Matching)
      /\ UNCHANGED <<table, query>> /\ UNCHANGED <<items, found, walking, start, seen, skewed, shrunk>>
  BY DEF CountByCriteria, client
<1>2. Matching' = Matching /\ \A i : Rank(i)' = Rank(i)
  BY <1>1, SameTable
<1>3. items = {} /\ found = {} /\ IsFiniteSet(Matching) /\ Cardinality(Matching) \in Nat
  BY <1>1, MatchingFinite DEF RoleInv
<1>4. offset \in Nat /\ page \in Nat /\ size \in Nat
  BY <1>1 DEF RequestInv
<1>5. CASE total' = 0
  <2>1. pc' = "answered" /\ code' = 200
    BY <1>5 DEF CountByCriteria
  <2>2. Matching = {}
    BY <1>1, <1>3, <1>5, FS_EmptySet
  <2>3. TypeOK'
    BY <1>1, <1>3, <2>1 DEF TypeOK, table, query
  <2>4. RequestInv'
    BY <1>1, <2>1 DEF RequestInv, query
  <2>5. RoleInv'
    BY <1>1, <1>3, <2>1 DEF RoleInv, ListedHaveRoles, Answered, table
  <2>6. CountInv'
    <3>1. Cardinality(items') = 0
      BY <1>1, <1>3, FS_EmptySet
    <3>2. Promised(total)' = 0
      BY <1>1, <1>4, <1>5 DEF Promised, query
    <3> QED  BY <2>1, <3>1, <3>2 DEF CountInv
  <2>7. WalkInv'
    BY <1>1, <1>2, <2>1, <2>2 DEF WalkInv
  <2> QED  BY <2>3, <2>4, <2>5, <2>6, <2>7
<1>6. CASE total' # 0
  <2>1. pc' = "page" /\ code' = code
    BY <1>6 DEF CountByCriteria
  <2>3. TypeOK'
    BY <1>1, <1>3, <2>1 DEF TypeOK, table, query
  <2>4. RequestInv'
    BY <1>1, <2>1 DEF RequestInv, query
  <2>5. RoleInv'
    BY <1>1, <1>3, <2>1 DEF RoleInv, ListedHaveRoles, Answered, table
  <2>6. CountInv'
    BY <1>1, <1>2, <1>3, <2>1 DEF CountInv, Answered
  <2>7. WalkInv'
    BY <1>1, <1>2, <2>1 DEF WalkInv, Read, Answered, query
  <2> QED  BY <2>3, <2>4, <2>5, <2>6, <2>7
<1> QED  BY <1>5, <1>6

\* The page shows everybody of the walk whom its ranks reach.
LEMMA FindPageStep ==
    ASSUME ListInv, FindPage
    PROVE  ListInv'
<1> USE DEF ListInv
<1>1. /\ pc = "page" /\ items' = PageRows
      /\ UNCHANGED <<table, query>> /\ UNCHANGED <<total, found, walking, start, seen, skewed, shrunk>>
  BY DEF FindPage, client
<1>2. Matching' = Matching /\ \A i : Rank(i)' = Rank(i)
  BY <1>1, SameTable
<1>3. /\ page \in Nat /\ page >= 1 /\ size \in Nat /\ size >= 1
      /\ offset \in Nat /\ offset = (page - 1) * size
  BY <1>1 DEF RequestInv
<1>4. PageRows \subseteq Matching /\ Matching \subseteq visible /\ Matching \subseteq Id
  BY MatchingFinite DEF PageRows
<1>5. /\ items' = {} => pc' = "answered" /\ code' = 200
      /\ items' # {} => pc' = "roles" /\ code' = code
  BY DEF FindPage
<1>6. TypeOK'
  BY <1>1, <1>4, <1>5 DEF TypeOK, table, query
<1>7. RequestInv'
  BY <1>1, <1>5 DEF RequestInv, query
<1>8. RoleInv'
  BY <1>1, <1>4, <1>5 DEF RoleInv, ListedHaveRoles, Answered, table
<1>9. CountInv'
  <2> DEFINE N == Cardinality(Matching)
  <2>1. N \in Nat /\ total \in Nat
    BY MatchingFinite DEF TypeOK
  <2>2. Cardinality(items') = Promised(N)
    BY <1>1, <1>3, PageCount
  <2>3. Promised(total)' = Promised(total)
    BY <1>1 DEF Promised, query
  <2>4. /\ ~skewed => total = N
        /\ ~shrunk => total <= N
    BY <1>1 DEF CountInv
  <2> HIDE DEF N
  <2>5. total <= N => Promised(N) >= Promised(total)
    BY <1>3, <2>1 DEF Promised
  <2> QED  BY <1>1, <1>5, <2>2, <2>3, <2>4, <2>5 DEF CountInv
<1>10. WalkInv'
  <2> SUFFICES ASSUME walking, ~shrunk
               PROVE  WalkInv'
    BY <1>1 DEF WalkInv
  <2>1. start \subseteq Matching /\ \A i \in start : i \in seen \/ Rank(i) >= offset
    BY <1>1, <1>3 DEF WalkInv
  <2>2. Shown' = seen \cup items'
    BY <1>1, <1>5 DEF Shown
  <2>3. offset + size = page * size
    BY <1>3
  <2>4. \A i \in start : i \in seen \cup items' \/ Rank(i) >= page * size
    <3> SUFFICES ASSUME NEW i \in start, i \notin seen, i \notin PageRows
                 PROVE  Rank(i) >= page * size
      BY <1>1
    <3>1. i \in Matching /\ Rank(i) >= offset
      BY <2>1
    <3>2. ~(Rank(i) < offset + size)
      BY <3>1 DEF PageRows
    <3>3. Rank(i) \in Nat
      BY <3>1, RankBounds
    <3> QED  BY <1>3, <2>3, <3>2, <3>3
  <2>5. ASSUME ~skewed
        PROVE  \A i \in start : i \in seen \cup items' \/ page * size < total
    <3> SUFFICES ASSUME NEW i \in start, i \notin seen \cup items'
                 PROVE  page * size < total
      OBVIOUS
    <3>1. Rank(i) >= page * size
      BY <2>4
    <3>2. Rank(i) \in Nat /\ Rank(i) < Cardinality(Matching)
      BY <2>1, RankBounds
    <3>3. total = Cardinality(Matching) /\ total \in Nat
      BY <1>1, <2>5 DEF CountInv, TypeOK
    <3>4. page * size \in Nat
      BY <1>3
    <3> QED  BY <3>1, <3>2, <3>3, <3>4
  <2>6. page' = page /\ size' = size /\ pc' \notin {"count", "page"}
    BY <1>1, <1>5 DEF query
  <2> QED  BY <1>1, <1>2, <2>1, <2>2, <2>4, <2>5, <2>6 DEF WalkInv
<1> QED  BY <1>6, <1>7, <1>8, <1>9, <1>10

LEMMA FindRolesStep ==
    ASSUME ListInv, FindRoles
    PROVE  ListInv'
<1> USE DEF ListInv
<1>1. /\ pc = "roles" /\ found' = items \cap roled /\ seen' = seen \cup items
      /\ pc' = "answered" /\ code' = 200
      /\ UNCHANGED <<table, query>> /\ UNCHANGED <<total, items, walking, start, skewed, shrunk>>
  BY DEF FindRoles
<1>2. Matching' = Matching /\ \A i : Rank(i)' = Rank(i)
  BY <1>1, SameTable
<1>3. TypeOK'
  BY <1>1 DEF TypeOK, table, query
<1>4. RequestInv'
  BY <1>1 DEF RequestInv, query
<1>5. RoleInv'
  <2>1. items \cap roled = items
    BY DEF RoleInv
  <2> QED  BY <1>1, <2>1 DEF RoleInv, ListedHaveRoles, table
<1>6. CountInv'
  BY <1>1 DEF CountInv, Promised, query
<1>7. WalkInv'
  BY <1>1, <1>2 DEF WalkInv, Read, Shown, query
<1> QED  BY <1>3, <1>4, <1>5, <1>6, <1>7

LEMMA FailStep ==
    ASSUME ListInv, Fail
    PROVE  ListInv'
<1> USE DEF ListInv
<1>1. /\ pc' = "answered" /\ code' = 500 /\ UNCHANGED <<table, query>>
      /\ UNCHANGED <<total, items, found, walking, start, seen, skewed, shrunk>>
  BY DEF Fail, client
<1>2. Matching' = Matching
  BY <1>1, SameTable
<1>3. ~Answered' /\ ~Read'
  BY <1>1 DEF Answered, Read
<1>4. TypeOK'
  BY <1>1 DEF TypeOK, table, query
<1>5. RequestInv' /\ CountInv'
  BY <1>1, <1>3 DEF RequestInv, CountInv
<1>6. RoleInv'
  BY <1>1, <1>3 DEF RoleInv, ListedHaveRoles, table
<1>7. WalkInv'
  BY <1>1, <1>2, <1>3 DEF WalkInv
<1> QED  BY <1>4, <1>5, <1>6, <1>7

LEMMA StutterStep ==
    ASSUME ListInv, UNCHANGED vars
    PROVE  ListInv'
<1> USE DEF ListInv
<1>1. UNCHANGED <<table, query>> /\ UNCHANGED <<pc, total, items, found, code, walking, start, seen,
                                               skewed, shrunk>>
  BY DEF vars, answer, client
<1>2. Matching' = Matching /\ \A i : Rank(i)' = Rank(i)
  BY <1>1, SameTable
<1>3. TypeOK' /\ RequestInv' /\ RoleInv'
  BY <1>1 DEF TypeOK, RequestInv, RoleInv, ListedHaveRoles, Answered, table, query
<1>4. CountInv'
  BY <1>1, <1>2 DEF CountInv, Answered, Promised, query
<1>5. WalkInv'
  BY <1>1, <1>2 DEF WalkInv, Read, Shown, Answered, query
<1> QED  BY <1>3, <1>4, <1>5

LEMMA ListInit == Init => ListInv
<1> SUFFICES ASSUME Init PROVE ListInv
  OBVIOUS
<1>1. TypeOK
  <2>0. /\ created = [i \in Id |-> 0] /\ status = [i \in Id |-> "ENABLED"] /\ now = 0
        /\ pc = "idle" /\ page = 1 /\ size = DefaultSize /\ filter = "" /\ offset = 0
        /\ total = 0 /\ code = 200
    BY Zenon DEF Init, DefaultPage
  <2>a. created \in [Id -> Nat]
    BY <2>0
  <2>b. size \in Int
    <3>1. size = DefaultSize
      BY <2>0, Zenon
    <3> QED  BY <3>1, SizeAssumption
  <2>c. now = 0 /\ page = 1 /\ offset = 0 /\ total = 0 /\ code = 200
    BY <2>0, Zenon
  <2>1. now \in Nat /\ page \in Int /\ offset \in Int /\ total \in Nat /\ code \in {200, 400, 500}
    BY <2>c
  <2>2. status \in [Id -> UserStatus] /\ filter \in Filters
        /\ pc \in {"idle", "count", "page", "roles", "answered"}
    BY <2>0 DEF UserStatus, Filters
  <2>3. walking \in BOOLEAN /\ skewed \in BOOLEAN /\ shrunk \in BOOLEAN
    BY Zenon DEF Init
  <2>4. /\ inserted \subseteq Id /\ visible \subseteq inserted /\ roled \subseteq Id
        /\ items \subseteq Id /\ found \subseteq Id /\ start \subseteq Id /\ seen \subseteq Id
    BY DEF Init
  <2> QED  BY <2>a, <2>b, <2>1, <2>2, <2>3, <2>4 DEF TypeOK
<1>2. RequestInv /\ RoleInv /\ CountInv /\ WalkInv
  BY DEF Init, RequestInv, RoleInv, ListedHaveRoles, CountInv, WalkInv, Answered
<1> QED  BY <1>1, <1>2 DEF ListInv

LEMMA ListAlways == Spec => []ListInv
<1>1. ListInv /\ [Next]_vars => ListInv'
  <2> SUFFICES ASSUME ListInv, [Next]_vars PROVE ListInv'
    OBVIOUS
  <2> QED  BY ChangeStep, ListUsersStep, NextPageStep, CountStep, FindPageStep, FindRolesStep,
              FailStep, StutterStep DEF Next, Change
<1> QED  BY ListInit, <1>1, PTL DEF Spec

-----------------------------------------------------------------------------
\* TypeOK is an invariant.
THEOREM TypeCorrect == Spec => []TypeOK
BY ListAlways, PTL DEF ListInv

\* OffsetExact is an invariant: pageOffset's check makes the product and its
\* conversion to int32 exact, for every page, every size and every width.
THEOREM OffsetNeverWraps == Spec => []OffsetExact
<1>1. ListInv => OffsetExact
  BY DEF ListInv, RequestInv, OffsetExact
<1> QED  BY ListAlways, <1>1, PTL

\* ListedHaveRoles is an invariant: nobody is listed without a role.
THEOREM RolesComplete == Spec => []ListedHaveRoles
<1>1. ListInv => ListedHaveRoles
  BY DEF ListInv, RoleInv
<1> QED  BY ListAlways, <1>1, PTL

\* PageAsCounted is an invariant: total and page disagree only if an account
\* came or went between the two statements.
THEOREM PagesFull == Spec => []PageAsCounted
<1>1. ListInv => PageAsCounted
  BY DEF ListInv, CountInv, PageAsCounted
<1> QED  BY ListAlways, <1>1, PTL

\* WalkCovers is an invariant: following hasNext shows every account that was
\* there when the walk began, whatever is registered during the walk.
THEOREM WalksMissNobody == Spec => []WalkCovers
<1>1. ListInv => WalkCovers
  <2> SUFFICES ASSUME ListInv, Answered, walking, ~HasNext, ~skewed, ~shrunk
               PROVE  start \subseteq seen
    BY DEF WalkCovers
  <2>1. page \in Nat /\ size \in Nat /\ size >= 1 /\ total \in Nat
    BY DEF ListInv, RequestInv, TypeOK
  <2>2. total <= page * size
    BY <2>1, LastPageHoldsAll DEF HasNext
  <2>3. \A i \in start : i \in seen \/ page * size < total
    BY DEF ListInv, WalkInv, Read, Shown, Answered
  <2>4. page * size \in Nat
    BY <2>1
  <2> QED  BY <2>1, <2>2, <2>3, <2>4
<1> QED  BY ListAlways, <1>1, PTL
=============================================================================
