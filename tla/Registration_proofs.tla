------------------------- MODULE Registration_proofs -------------------------
(***************************************************************************)
(* The invariants of Registration for every set of requests, names, emails *)
(* and ids and both isolation levels.                                      *)
(***************************************************************************)
EXTENDS Registration, TLAPS

\* An id and a username are reserved by the entry of an open INSERT ...
NameHeld ==
    \A r \in Requests : HasNameEntry(r) =>
        /\ \A u \in users : u.id # req[r].row.id /\ u.username # req[r].row.username
        /\ \A q \in Requests \ {r} : HasNameEntry(q) =>
             /\ req[q].row.id # req[r].row.id
             /\ req[q].row.username # req[r].row.username

\* ... and so is an email.
EmailHeld ==
    \A r \in Requests : HasEmailEntry(r) =>
        /\ \A u \in users : u.email # req[r].row.email
        /\ \A q \in Requests \ {r} : HasEmailEntry(q) => req[q].row.email # req[r].row.email

\* A snapshot holds nothing that is not in the table (rows are never deleted),
\* a request that is not done has no answer, and a committed one has its row.
ProgressInv ==
    \A r \in Requests :
        /\ req[r].seen \subseteq users
        /\ req[r].pc # "done" => req[r].code = 0
        /\ req[r].pc = "committed" => req[r].row \in users

\* The inductive invariant.
RegInv ==
    /\ TypeOK
    /\ NameHeld /\ EmailHeld /\ ProgressInv
    /\ AccountsAreDistinct /\ EveryAccountHasRole
    /\ ConflictOnlyForCause /\ SuccessMeansRegistered

-----------------------------------------------------------------------------
\* After the migration: one account, with its role, and nobody registering.
LEMMA RegInit == Init => RegInv
BY RegistrationAssumption
   DEF Init, RegInv, TypeOK, NameHeld, EmailHeld, ProgressInv, AccountsAreDistinct,
       EveryAccountHasRole, ConflictOnlyForCause, SuccessMeansRegistered, IdleRequest,
       Request, Account, Code, HasNameEntry, HasEmailEntry

\* What the record n of request r may look like next to the tables and the
\* records of the others.
Fits(r, n) ==
    /\ n \in Request
    /\ n.seen \subseteq users
    /\ n.pc # "done" => n.code = 0
    /\ n.pc = "committed" => n.row \in users
    /\ n.code = 409 => \E u \in users : u.username = n.row.username \/ u.email = n.row.email
    /\ n.code = 200 => n.row \in users
    /\ n.code # 404
    /\ n.pc \in {"nameKey", "inserted", "bound"} =>
         /\ \A u \in users : u.id # n.row.id /\ u.username # n.row.username
         /\ \A q \in Requests \ {r} : HasNameEntry(q) =>
              req[q].row.id # n.row.id /\ req[q].row.username # n.row.username
    /\ n.pc \in {"inserted", "bound"} =>
         /\ \A u \in users : u.email # n.row.email
         /\ \A q \in Requests \ {r} : HasEmailEntry(q) => req[q].row.email # n.row.email

\* Steps that leave the tables alone: the invariant stays if the new record
\* fits.
LEMMA LocalStep ==
    ASSUME RegInv, NEW r \in Requests, NEW n, Fits(r, n),
           req' = [req EXCEPT ![r] = n], UNCHANGED <<users, userRoles>>
    PROVE  RegInv'
<1>1. req' \in [Requests -> Request] /\ req'[r] = n /\ \A q \in Requests \ {r} : req'[q] = req[q]
  BY DEF RegInv, TypeOK, Fits
<1>2. TypeOK'
  BY <1>1 DEF RegInv, TypeOK
<1>3. NameHeld'
  BY <1>1 DEF RegInv, NameHeld, HasNameEntry, Fits
<1>4. EmailHeld'
  BY <1>1 DEF RegInv, EmailHeld, HasEmailEntry, Fits
<1>5. ProgressInv'
  BY <1>1 DEF RegInv, ProgressInv, Fits
<1>6. AccountsAreDistinct' /\ EveryAccountHasRole'
  BY DEF RegInv, AccountsAreDistinct, EveryAccountHasRole
<1>7. ConflictOnlyForCause'
  BY <1>1 DEF RegInv, ConflictOnlyForCause, Fits
<1>8. SuccessMeansRegistered'
  BY <1>1 DEF RegInv, SuccessMeansRegistered, Fits
<1> QED  BY <1>2, <1>3, <1>4, <1>5, <1>6, <1>7, <1>8 DEF RegInv

\* An answer needs its cause and nothing else.
LEMMA AnswerStep ==
    ASSUME RegInv, NEW r \in Requests, NEW code \in {200, 409, 500},
           Answer(r, code), UNCHANGED <<users, userRoles>>,
           code = 409 => \E u \in users :
                           u.username = req[r].row.username \/ u.email = req[r].row.email,
           code = 200 => req[r].row \in users
    PROVE  RegInv'
<1> DEFINE n == [req[r] EXCEPT !.pc = "done", !.seen = {}, !.code = code]
<1>1. req[r] \in Request  BY DEF RegInv, TypeOK
<1>2. code \in Code  BY DEF Code
<1>3. req' = [req EXCEPT ![r] = n]  BY DEF Answer, RegInv, TypeOK
<1>4. n \in Request  BY ONLY ZenonT(60), <1>1, <1>2 DEF Request
<1>5. n.pc = "done" /\ n.seen = {}  BY ONLY <1>1 DEF Request
<1>6. n.code = code /\ n.row = req[r].row  BY ONLY <1>1 DEF Request
<1> HIDE DEF n
<1>8. Fits(r, n)
  BY <1>4, <1>5, <1>6 DEF Fits
<1>9. PICK m : m = n  OBVIOUS
<1> QED  BY <1>3, <1>8, <1>9, LocalStep

\* A commit turns entries that nobody else has into a row.
LEMMA CommitStep ==
    ASSUME RegInv, NEW r \in Requests, NEW delivered \in BOOLEAN, Commit(r, delivered)
    PROVE  RegInv'
<1> DEFINE row == req[r].row
           n == IF delivered THEN [req[r] EXCEPT !.pc = "committed"]
                ELSE [req[r] EXCEPT !.pc = "done", !.seen = {}, !.code = 500]
<1>1. req[r] \in Request /\ req[r].pc = "bound" /\ row \in Account /\ row.id \in Ids
  BY DEF RegInv, TypeOK, Commit, Request, Account
<1>2. users' = users \cup {row} /\ userRoles' = userRoles \cup {row.id}
  BY DEF Commit
<1>3. req' = [req EXCEPT ![r] = n]
  BY DEF Commit, Answer, RegInv, TypeOK
<1>4. /\ n \in Request /\ n.row = row /\ n.pc \in {"committed", "done"}
      /\ n.seen \subseteq req[r].seen /\ n.code \in {0, 500}
      /\ n.pc = "committed" => n.code = 0
  <2>1. req[r].code = 0  BY <1>1 DEF RegInv, ProgressInv
  <2>2. CASE delivered
    <3>1. n = [req[r] EXCEPT !.pc = "committed"]  BY <2>2
    <3> HIDE DEF n
    <3> QED  BY <1>1, <2>1, <3>1 DEF Request, Code
  <2>3. CASE ~delivered
    <3> DEFINE m == [req[r] EXCEPT !.pc = "done", !.seen = {}, !.code = 500]
    <3>1. n = m  BY <2>3
    <3>2. 500 \in Code  BY DEF Code
    <3>3. m \in Request  BY ZenonT(60), <1>1, <3>2 DEF Request
    <3>4. m.row = row /\ m.pc = "done" /\ m.seen = {} /\ m.code = 500
      BY <1>1 DEF Request
    <3> HIDE DEF n, m
    <3> QED  BY <3>1, <3>3, <3>4
  <2> QED  BY <2>2, <2>3
<1>5. /\ \A u \in users : u.id # row.id /\ u.username # row.username /\ u.email # row.email
      /\ \A q \in Requests \ {r} :
           /\ HasNameEntry(q) => req[q].row.id # row.id /\ req[q].row.username # row.username
           /\ HasEmailEntry(q) => req[q].row.email # row.email
  BY <1>1 DEF RegInv, NameHeld, EmailHeld, HasNameEntry, HasEmailEntry
<1> HIDE DEF row, n
<1>6. req' \in [Requests -> Request] /\ req'[r] = n /\ \A q \in Requests \ {r} : req'[q] = req[q]
  BY <1>3, <1>4 DEF RegInv, TypeOK
<1>7. TypeOK'
  BY <1>1, <1>2, <1>6 DEF RegInv, TypeOK
<1>8. NameHeld'
  BY <1>2, <1>4, <1>5, <1>6 DEF RegInv, NameHeld, HasNameEntry
<1>9. EmailHeld'
  BY <1>2, <1>4, <1>5, <1>6 DEF RegInv, EmailHeld, HasEmailEntry
<1>10. ProgressInv'
  BY <1>2, <1>4, <1>6 DEF RegInv, ProgressInv
<1>11. AccountsAreDistinct'
  BY <1>2, <1>5 DEF RegInv, AccountsAreDistinct
<1>12. EveryAccountHasRole'
  BY <1>2 DEF RegInv, EveryAccountHasRole
<1>13. ConflictOnlyForCause'
  BY <1>2, <1>4, <1>6 DEF RegInv, ConflictOnlyForCause
<1>14. SuccessMeansRegistered'
  BY <1>2, <1>4, <1>6 DEF RegInv, SuccessMeansRegistered
<1> QED  BY <1>7, <1>8, <1>9, <1>10, <1>11, <1>12, <1>13, <1>14 DEF RegInv

\* Every step of every registration preserves the invariant.
LEMMA RegStep == RegInv /\ [Next]_vars => RegInv'
<1> SUFFICES ASSUME RegInv, [Next]_vars PROVE RegInv'  OBVIOUS
<1>1. CASE UNCHANGED vars
  BY <1>1 DEF vars, RegInv, TypeOK, NameHeld, EmailHeld, ProgressInv, AccountsAreDistinct,
       EveryAccountHasRole, ConflictOnlyForCause, SuccessMeansRegistered,
       HasNameEntry, HasEmailEntry
<1>2. ASSUME NEW r \in Requests, NEW username \in Usernames, NEW email \in Emails,
             Register(r, username, email)
      PROVE  RegInv'
  <2> DEFINE n == [IdleRequest EXCEPT !.pc = "begun",
                     !.row = [@ EXCEPT !.username = username, !.email = email]]
  <2>1. n \in Request /\ n.pc = "begun" /\ n.seen = {} /\ n.code = 0
    BY ZenonT(60), RegistrationAssumption DEF IdleRequest, Request, Account, Code
  <2>2. req' = [req EXCEPT ![r] = n] /\ UNCHANGED <<users, userRoles>>
    BY <1>2 DEF Register
  <2> HIDE DEF n
  <2>8. Fits(r, n)
    BY <2>1, <2>2 DEF Fits
  <2>9. PICK m : m = n  OBVIOUS
  <2> QED  BY <2>2, <2>8, <2>9, LocalStep
<1>3. ASSUME NEW r \in Requests, ExistsByUsername(r) PROVE RegInv'
  <2>1. CASE NameTaken(r)
    BY <1>3, <2>1, AnswerStep DEF ExistsByUsername, NameTaken
  <2>2. CASE ~NameTaken(r)
    <3> DEFINE n == [req[r] EXCEPT !.pc = "nameFree", !.seen = users]
    <3>1. n \in Request /\ n.pc = "nameFree" /\ n.seen = users /\ n.code = 0
      BY <1>3 DEF RegInv, TypeOK, ProgressInv, Request, ExistsByUsername
    <3>2. req' = [req EXCEPT ![r] = n] /\ UNCHANGED <<users, userRoles>>
      BY <1>3, <2>2 DEF ExistsByUsername, RegInv, TypeOK
    <3> HIDE DEF n
    <3>8. Fits(r, n)
      BY <3>1, <3>2 DEF Fits
    <3>9. PICK m : m = n  OBVIOUS
    <3> QED  BY <3>2, <3>8, <3>9, LocalStep
  <2> QED  BY <2>1, <2>2
<1>4. ASSUME NEW r \in Requests, ExistsByEmail(r) PROVE RegInv'
  <2>1. CASE \E u \in Visible(r) : u.email = req[r].row.email
    <3>1. \E u \in users : u.email = req[r].row.email
      BY <2>1 DEF Visible, RegInv, ProgressInv
    <3> QED  BY <1>4, <2>1, <3>1, AnswerStep DEF ExistsByEmail
  <2>2. CASE ~\E u \in Visible(r) : u.email = req[r].row.email
    <3> DEFINE n == [req[r] EXCEPT !.pc = "checked", !.seen = {}]
    <3>1. n \in Request /\ n.pc = "checked" /\ n.seen = {} /\ n.code = 0
      BY <1>4 DEF RegInv, TypeOK, ProgressInv, Request, ExistsByEmail
    <3>2. req' = [req EXCEPT ![r] = n] /\ UNCHANGED <<users, userRoles>>
      BY <1>4, <2>2 DEF ExistsByEmail, RegInv, TypeOK
    <3> HIDE DEF n
    <3>8. Fits(r, n)
      BY <3>1, <3>2 DEF Fits
    <3>9. PICK m : m = n  OBVIOUS
    <3> QED  BY <3>2, <3>8, <3>9, LocalStep
  <2> QED  BY <2>1, <2>2
<1>5. ASSUME NEW r \in Requests, NEW id \in Ids, CreateNameEntry(r, id) PROVE RegInv'
  <2> DEFINE n == [req[r] EXCEPT !.pc = "nameKey", !.row.id = id]
  <2> DEFINE row == [req[r].row EXCEPT !.id = id]
  <2>a. req[r] \in Request /\ req[r].row \in Account
    BY DEF RegInv, TypeOK, Request
  <2>b. req[r].code = 0
    BY <1>5 DEF RegInv, ProgressInv, CreateNameEntry
  <2>c. row \in Account /\ row.id = id /\ row.username = req[r].row.username
    BY ONLY <2>a, id \in Ids DEF Account
  <2>d. n = [req[r] EXCEPT !.pc = "nameKey", !.row = row]
    BY ONLY <2>a DEF Request
  <2> HIDE DEF row, n
  <2>e. n \in Request
    BY ONLY <2>a, <2>c, <2>d DEF Request
  <2>f. n.pc = "nameKey" /\ n.seen = req[r].seen /\ n.code = req[r].code /\ n.row = row
    BY ONLY <2>a, <2>d DEF Request
  <2>1. /\ n \in Request /\ n.pc = "nameKey" /\ n.seen = req[r].seen /\ n.code = 0
        /\ n.row.id = id /\ n.row.username = req[r].row.username
    BY <2>b, <2>c, <2>e, <2>f
  <2> USE DEF n
  <2>2. req' = [req EXCEPT ![r] = n] /\ UNCHANGED <<users, userRoles>>
    BY <1>5 DEF CreateNameEntry, RegInv, TypeOK
  <2>3. \A u \in users : u.id # id /\ u.username # req[r].row.username
    BY <1>5 DEF CreateNameEntry, FreshId, NameTaken
  <2>4. \A q \in Requests \ {r} : HasNameEntry(q) =>
          req[q].row.id # id /\ req[q].row.username # req[r].row.username
    BY <1>5 DEF CreateNameEntry, FreshId, NameLocked, HasNameEntry
  <2>5. req[r].seen \subseteq users  BY DEF RegInv, ProgressInv
  <2> HIDE DEF n
  <2>8. Fits(r, n)
    BY <2>1, <2>2, <2>3, <2>4, <2>5 DEF Fits
  <2>9. PICK m : m = n  OBVIOUS
  <2> QED  BY <2>2, <2>8, <2>9, LocalStep
<1>6. ASSUME NEW r \in Requests, CreateEmailEntry(r) PROVE RegInv'
  <2> DEFINE n == [req[r] EXCEPT !.pc = "inserted"]
  <2>1. /\ n \in Request /\ n.pc = "inserted" /\ n.seen = req[r].seen /\ n.code = 0
        /\ n.row = req[r].row
    BY <1>6 DEF RegInv, TypeOK, ProgressInv, Request, CreateEmailEntry
  <2>2. req' = [req EXCEPT ![r] = n] /\ UNCHANGED <<users, userRoles>>
    BY <1>6 DEF CreateEmailEntry, RegInv, TypeOK
  <2>3. /\ \A u \in users : u.id # req[r].row.id /\ u.username # req[r].row.username
        /\ \A q \in Requests \ {r} : HasNameEntry(q) =>
             req[q].row.id # req[r].row.id /\ req[q].row.username # req[r].row.username
    BY <1>6 DEF CreateEmailEntry, RegInv, NameHeld, HasNameEntry
  <2>4. /\ \A u \in users : u.email # req[r].row.email
        /\ \A q \in Requests \ {r} : HasEmailEntry(q) => req[q].row.email # req[r].row.email
    BY <1>6 DEF CreateEmailEntry, EmailLocked, EmailTaken
  <2>5. req[r].seen \subseteq users  BY DEF RegInv, ProgressInv
  <2> HIDE DEF n
  <2>8. Fits(r, n)
    BY <2>1, <2>2, <2>3, <2>4, <2>5 DEF Fits
  <2>9. PICK m : m = n  OBVIOUS
  <2> QED  BY <2>2, <2>8, <2>9, LocalStep
<1>7. ASSUME NEW r \in Requests, CreateDuplicate(r) PROVE RegInv'
  BY <1>7, AnswerStep DEF CreateDuplicate, NameTaken, EmailTaken
<1>8. ASSUME NEW r \in Requests, AddRoleToUser(r) PROVE RegInv'
  <2> DEFINE n == [req[r] EXCEPT !.pc = "bound"]
  <2>1. /\ n \in Request /\ n.pc = "bound" /\ n.seen = req[r].seen /\ n.code = 0
        /\ n.row = req[r].row
    BY <1>8 DEF RegInv, TypeOK, ProgressInv, Request, AddRoleToUser
  <2>2. req' = [req EXCEPT ![r] = n] /\ UNCHANGED <<users, userRoles>>
    BY <1>8 DEF AddRoleToUser, RegInv, TypeOK
  <2>3. /\ \A u \in users : u.id # req[r].row.id /\ u.username # req[r].row.username
        /\ \A q \in Requests \ {r} : HasNameEntry(q) =>
             req[q].row.id # req[r].row.id /\ req[q].row.username # req[r].row.username
    BY <1>8 DEF AddRoleToUser, RegInv, NameHeld, HasNameEntry
  <2>4. /\ \A u \in users : u.email # req[r].row.email
        /\ \A q \in Requests \ {r} : HasEmailEntry(q) => req[q].row.email # req[r].row.email
    BY <1>8 DEF AddRoleToUser, RegInv, EmailHeld, HasEmailEntry
  <2>5. req[r].seen \subseteq users  BY DEF RegInv, ProgressInv
  <2> HIDE DEF n
  <2>8. Fits(r, n)
    BY <2>1, <2>2, <2>3, <2>4, <2>5 DEF Fits
  <2>9. PICK m : m = n  OBVIOUS
  <2> QED  BY <2>2, <2>8, <2>9, LocalStep
<1>9. ASSUME NEW r \in Requests, GetByID(r) PROVE RegInv'
  <2>1. req[r].row \in users
    BY <1>9 DEF GetByID, RegInv, ProgressInv
  <2>2. Answer(r, 200) /\ UNCHANGED <<users, userRoles>>
    BY <1>9, <2>1 DEF GetByID
  <2> QED  BY <2>1, <2>2, AnswerStep
<1>10. ASSUME NEW r \in Requests, Abort(r) PROVE RegInv'
  BY <1>10, AnswerStep DEF Abort
<1> QED  BY <1>1, <1>2, <1>3, <1>4, <1>5, <1>6, <1>7, <1>8, <1>9, <1>10, CommitStep
         DEF Next, Advance

-----------------------------------------------------------------------------
\* The tables and the requests of Register keep their types.
THEOREM RegistrationTypes == Spec => []TypeOK
<1>1. RegInv => TypeOK  BY DEF RegInv
<1> QED  BY <1>1, RegInit, RegStep, PTL DEF Spec

\* Check-then-insert never creates two accounts with one username or email,
\* for any number of concurrent registrations and both isolation levels.
THEOREM DistinctAccounts == Spec => []AccountsAreDistinct
<1>1. RegInv => AccountsAreDistinct  BY DEF RegInv
<1> QED  BY <1>1, RegInit, RegStep, PTL DEF Spec

\* No account is ever visible without role USER.
THEOREM RoleBound == Spec => []EveryAccountHasRole
<1>1. RegInv => EveryAccountHasRole  BY DEF RegInv
<1> QED  BY <1>1, RegInit, RegStep, PTL DEF Spec

\* AUTH-409 is answered only when the username or the email is taken.
THEOREM ConflictCause == Spec => []ConflictOnlyForCause
<1>1. RegInv => ConflictOnlyForCause  BY DEF RegInv
<1> QED  BY <1>1, RegInit, RegStep, PTL DEF Spec

\* Success is answered only for an account that exists, and GetByID after the
\* commit finds it.
THEOREM SuccessRegistered == Spec => []SuccessMeansRegistered
<1>1. RegInv => SuccessMeansRegistered  BY DEF RegInv
<1> QED  BY <1>1, RegInit, RegStep, PTL DEF Spec
=============================================================================
