--------------------------- MODULE AdminUserList ---------------------------
(***************************************************************************)
(* GET /api/v1/admin/users: Service.ListUsers reads the COUNT, the page    *)
(* and the roles in three statements outside a transaction, while accounts *)
(* are registered and their status changes.  The client may ask for any    *)
(* page, or walk the pages from the first for as long as hasNext says so.  *)
(*                                                                         *)
(* Lists write nothing, so one at a time shows everything two would.  An   *)
(* account's username, email and created_at never change and its role is   *)
(* committed with it; the filter is the status filter, the one that        *)
(* changes can move an account into and out of (updated_at is alike).      *)
(***************************************************************************)
EXTENDS Integers, FiniteSets

CONSTANTS
    MaxUsers,      \* bound: accounts ever inserted
    MaxTime,       \* bound: the seconds of created_at
    Pages, Sizes,  \* the page and size a client may ask for, 0 for neither
    DefaultSize, MaxSize,  \* 20 and 100 in package page
    MaxInt32       \* math.MaxInt32, the limit of OFFSET

ASSUME BoundsAssumption == MaxUsers \in Nat /\ MaxTime \in Nat
ASSUME PagesAssumption == Pages \subseteq Int /\ Sizes \subseteq Int
ASSUME SizeAssumption ==
    /\ DefaultSize \in Nat /\ MaxSize \in Nat /\ DefaultSize >= 1 /\ DefaultSize <= MaxSize
ASSUME Int32Assumption == MaxInt32 \in Nat

VARIABLES
    inserted, created,         \* rows of users, committed or not; created_at
    visible, roled, status,    \* committed: users, their user_roles, users.status
    now,
    pc, page, size, filter, offset,      \* Service.ListUsers
    total, items, found,                 \* what the three statements returned
    code,                                \* the answer: 200, 400 or 500
    walking, start, seen,      \* the client: walks, from whom, who was listed
    skewed,                    \* the matches changed between COUNT and page
    shrunk                     \* an account left the filter since the walk began

table == <<inserted, created, visible, roled, status, now>>
query == <<page, size, filter, offset>>
answer == <<total, items, found, code>>
client == <<walking, start, seen>>
vars == <<table, pc, query, answer, client, skewed, shrunk>>

Id == 1..MaxUsers
UserStatus == {"ENABLED", "DISABLED"}
Filters == {"", "ENABLED", "DISABLED", "OTHER"}
DefaultPage == 1

-----------------------------------------------------------------------------
(* page.NewRequest, pageOffset, page.NewResponse.                          *)

WithDefault(n, default) == IF n = 0 THEN default ELSE n

NewRequest(p, s) == p >= 1 /\ s >= 1 /\ s <= MaxSize

\* Go's int32(n): the low 32 bits, as a signed number.
Int32(n) == ((n + MaxInt32 + 1) % (2 * MaxInt32 + 2)) - (MaxInt32 + 1)

\* Mutant: the product is converted unchecked.
FitsAlways(p, s) == TRUE

\* pageOffset does not answer "page 过大".
OffsetFits(p, s) == p - 1 <= MaxInt32 \div s

PageOffset(p, s) == Int32((p - 1) * s)

CalculateTotalPages(t, s) == IF t = 0 THEN 0 ELSE (t + s - 1) \div s

HasNext == page < CalculateTotalPages(total, size)

-----------------------------------------------------------------------------
(* The SQL of CountUsersByCriteria and FindUsersPageByCriteria.            *)

Matching == {i \in visible : filter \in {"", status[i]}}

\* Mutant: ORDER BY created_at only; rows of the same second come in an order
\* that may differ from statement to statement.
NewerUnstable(i, j) ==
    \/ created[i] > created[j]
    \/ created[i] = created[j] /\ (IF page % 2 = 0 THEN i > j ELSE i < j)

\* ORDER BY created_at DESC, id DESC.
Newer(i, j) == created[i] > created[j] \/ (created[i] = created[j] /\ i > j)

\* How many rows come before i.
Rank(i) == Cardinality({j \in Matching : Newer(j, i)})

\* Mutant: LIMIT size + 1, to see whether there is more.
PageRowsAndOneMore == {i \in Matching : offset <= Rank(i) /\ Rank(i) <= offset + size}

\* LIMIT and OFFSET.
PageRows == {i \in Matching : offset <= Rank(i) /\ Rank(i) < offset + size}

-----------------------------------------------------------------------------
\* The seed: one account, with its role.
Init ==
    /\ inserted = {i \in Id : i = 1} /\ created = [i \in Id |-> 0]
    /\ visible = inserted /\ roled = inserted
    /\ status = [i \in Id |-> "ENABLED"]
    /\ now = 0
    /\ pc = "idle" /\ page = DefaultPage /\ size = DefaultSize /\ filter = "" /\ offset = 0
    /\ total = 0 /\ items = {} /\ found = {} /\ code = 200
    /\ walking = FALSE /\ start = {} /\ seen = {}
    /\ skewed = FALSE /\ shrunk = FALSE

\* What a change of the table means for a list under way.
Observe ==
    /\ UNCHANGED <<pc, query, answer, client>>
    /\ skewed' = (skewed \/ (pc = "page" /\ Matching' # Matching))
    /\ shrunk' = (shrunk \/ ~(Matching \subseteq Matching'))

\* Register inserts the row: AUTO_INCREMENT and CURRENT_TIMESTAMP.
Insert(i) ==
    /\ i \notin inserted /\ \A j \in inserted : j < i
    /\ inserted' = inserted \cup {i}
    /\ created' = [created EXCEPT ![i] = now]
    /\ UNCHANGED <<visible, roled, status, now>>
    /\ Observe

\* Register commits; later ids may commit first.
CommitRegistration(i) ==
    /\ i \in inserted \ visible
    /\ visible' = visible \cup {i}
    /\ roled' = roled \cup {i}
    /\ UNCHANGED <<inserted, created, status, now>>
    /\ Observe

\* Service.UpdateStatus, committed.
UpdateStatus(i, s) ==
    /\ i \in visible /\ status[i] # s
    /\ status' = [status EXCEPT ![i] = s]
    /\ UNCHANGED <<inserted, created, visible, roled, now>>
    /\ Observe

Tick ==
    /\ now < MaxTime
    /\ now' = now + 1
    /\ UNCHANGED <<inserted, created, visible, roled, status>>
    /\ Observe

-----------------------------------------------------------------------------
(* Service.ListUsers.                                                      *)

\* Up to the first statement: the page request, the offset, the status.
Begin(p, s, f) ==
    /\ page' = p /\ size' = s /\ filter' = f
    /\ total' = 0 /\ items' = {} /\ found' = {} /\ skewed' = FALSE
    /\ IF NewRequest(p, s) /\ OffsetFits(p, s) /\ f \in {""} \cup UserStatus
       THEN pc' = "count" /\ offset' = PageOffset(p, s) /\ UNCHANGED code
       ELSE pc' = "answered" /\ offset' = 0 /\ code' = 400
    /\ UNCHANGED table

\* Any request; one for the first page may be the start of a walk.
ListUsers(p, s, f) ==
    /\ pc \in {"idle", "answered"}
    /\ Begin(WithDefault(p, DefaultPage), WithDefault(s, DefaultSize), f)
    /\ walking' = (WithDefault(p, DefaultPage) = DefaultPage)
    /\ start' = IF walking' THEN Matching' ELSE {}
    /\ seen' = {} /\ shrunk' = FALSE

\* The client asks for the next page of its walk.
NextPage ==
    /\ pc = "answered" /\ code = 200 /\ walking /\ HasNext
    /\ Begin(page + 1, size, filter)
    /\ UNCHANGED <<client, shrunk>>

CountByCriteria ==
    /\ pc = "count"
    /\ total' = Cardinality(Matching)
    /\ IF total' = 0 THEN pc' = "answered" /\ code' = 200 ELSE pc' = "page" /\ UNCHANGED code
    /\ UNCHANGED <<table, query, items, found, client, skewed, shrunk>>

\* The page; an empty one asks for no roles.
FindPage ==
    /\ pc = "page"
    /\ items' = PageRows
    /\ IF items' = {} THEN pc' = "answered" /\ code' = 200 ELSE pc' = "roles" /\ UNCHANGED code
    /\ UNCHANGED <<table, query, total, found, client, skewed, shrunk>>

FindRoles ==
    /\ pc = "roles"
    /\ found' = items \cap roled
    /\ seen' = seen \cup items
    /\ pc' = "answered" /\ code' = 200
    /\ UNCHANGED <<table, query, total, items, walking, start, skewed, shrunk>>

\* A statement fails.
Fail ==
    /\ pc \in {"count", "page", "roles"}
    /\ pc' = "answered" /\ code' = 500
    /\ UNCHANGED <<table, query, total, items, found, client, skewed, shrunk>>

Next ==
    \/ \E i \in Id : Insert(i) \/ CommitRegistration(i)
    \/ \E i \in Id, s \in UserStatus : UpdateStatus(i, s)
    \/ Tick
    \/ \E p \in Pages, s \in Sizes, f \in Filters : ListUsers(p, s, f)
    \/ NextPage \/ CountByCriteria \/ FindPage \/ FindRoles \/ Fail

Spec == Init /\ [][Next]_vars

-----------------------------------------------------------------------------
TypeOK ==
    /\ inserted \subseteq Id /\ visible \subseteq inserted /\ roled \subseteq Id
    /\ created \in [Id -> Nat] /\ status \in [Id -> UserStatus] /\ now \in Nat
    /\ pc \in {"idle", "count", "page", "roles", "answered"}
    /\ page \in Int /\ size \in Int /\ filter \in Filters /\ offset \in Int
    /\ total \in Nat /\ items \subseteq Id /\ found \subseteq Id
    /\ code \in {200, 400, 500}
    /\ walking \in BOOLEAN /\ start \subseteq Id /\ seen \subseteq Id
    /\ skewed \in BOOLEAN /\ shrunk \in BOOLEAN

Answered == pc = "answered" /\ code = 200

\* Whatever page a client asks for, the OFFSET that reaches the database is
\* the one the page means and fits its type: no page beyond it wraps around
\* into a negative offset or another page (admin_users.go:112).
OffsetExact ==
    pc \in {"count", "page", "roles"} =>
        offset = (page - 1) * size /\ offset >= 0 /\ offset <= MaxInt32

\* No account is listed without its role, although accounts and roles are
\* read by different statements (admin_users.go:49, register.go:22).
ListedHaveRoles == Answered => found = items

\* How many of t accounts are on the page.
Promised(t) == IF t <= offset THEN 0 ELSE IF t - offset < size THEN t - offset ELSE size

\* The page has as many accounts as its total promises, unless an account
\* came or went between COUNT and page; and never fewer, unless one went.
PageAsCounted ==
    Answered => /\ ~skewed => Cardinality(items) = Promised(total)
                /\ ~shrunk => Cardinality(items) >= Promised(total)

\* A client that walks the pages for as long as hasNext says so has been
\* shown every account that matched when it started, however many were
\* registered meanwhile: unless one left the filter, or the last page was
\* not the one that was counted (users.sql:48, page_response.go:46).
WalkCovers ==
    (Answered /\ walking /\ ~HasNext /\ ~skewed /\ ~shrunk) => start \subseteq seen
=============================================================================
