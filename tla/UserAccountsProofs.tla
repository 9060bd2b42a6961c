------------------------- MODULE UserAccountsProofs --------------------------
(***************************************************************************)
(* Theorems about UserAccounts, for any number of users, requests, names,  *)
(* e-mails and avatars: first logins at once create one user, with its     *)
(* progress row, and concurrent writers of one row undo nothing of each    *)
(* other's.                                                                *)
(***************************************************************************)
EXTENDS UserAccounts, TLAPS

-----------------------------------------------------------------------------
\* The inductive invariant.

\* What a request is working on.
JobKnown ==
    \A r \in Requests :
        /\ pc[r] \in {"begun", "inserted", "provisioned", "created"} => job[r] \in Creation
        /\ pc[r] \in {"inserted", "provisioned"} => view[r] \in UserRow
        /\ pc[r] = "resolved" => job[r] \in Reading \union Patching

\* A transaction that has inserted a user is the only one, and the row is not there yet;
\* when it has committed, or a request has read the row, the row is there, for good.
RowThere ==
    \A r \in Requests :
        /\ pc[r] \in {"inserted", "provisioned"} => user[Sub(r)] = NULL
        /\ pc[r] \in {"created", "resolved"} => user[Sub(r)] # NULL

\* At most one open transaction has inserted a subject.
InsertsExclusive ==
    \A r, t \in Requests :
        /\ pc[r] \in {"inserted", "provisioned"} /\ pc[t] \in {"inserted", "provisioned"}
        /\ Sub(r) = Sub(t)
        => r = t

\* The inductive invariant.
AccountsInv == /\ TypeOK
               /\ JobKnown
               /\ RowThere
               /\ InsertsExclusive
               /\ ProvisionedOnce
               /\ ProgressWithUser
               /\ PatchesKept

\* No users and no requests at first.
LEMMA InitAccounts == Init => AccountsInv
BY DEF Init, AccountsInv, TypeOK, Maybe, JobKnown, RowThere, InsertsExclusive,
       ProvisionedOnce, ProgressWithUser, PatchesKept

\* The rows and the request's own job are as before; its answer decides nothing.
LEMMA TablesSame ==
    ASSUME AccountsInv, NEW r \in Requests,
           UNCHANGED <<user, progress, job, view, named, pictured>>,
           NEW to \in {"ok", "conflict", "failed"}, pc' = [pc EXCEPT ![r] = to]
    PROVE  AccountsInv'
<1> USE DEF AccountsInv
<1>1. TypeOK'
  BY DEF TypeOK, Answered
<1>2. JobKnown' /\ RowThere'
  BY DEF TypeOK, JobKnown, RowThere, Sub
<1>3. InsertsExclusive' /\ ProvisionedOnce'
  BY DEF TypeOK, InsertsExclusive, ProvisionedOnce, Sub
<1>4. ProgressWithUser' /\ PatchesKept'
  BY DEF ProgressWithUser, PatchesKept
<1> QED  BY <1>1, <1>2, <1>3, <1>4

\* POST /me begins a transaction, which has written nothing yet.
LEMMA CreateStep ==
    ASSUME AccountsInv, NEW r \in Requests, NEW j \in Creation, Create(r, j)
    PROVE  AccountsInv'
<1> USE DEF AccountsInv, Create, Goes
<1>1. TypeOK'
  BY DEF TypeOK, Maybe, Jobs
<1>2. JobKnown' /\ RowThere'
  BY DEF TypeOK, JobKnown, RowThere, Sub
<1>3. InsertsExclusive' /\ ProvisionedOnce'
  BY DEF TypeOK, InsertsExclusive, ProvisionedOnce, Sub
<1>4. ProgressWithUser' /\ PatchesKept'
  BY DEF ProgressWithUser, PatchesKept
<1> QED  BY <1>1, <1>2, <1>3, <1>4

\* The unique index: the insert waits for another one, and takes the place if that
\* one is rolled back.
LEMMA InsertStep ==
    ASSUME AccountsInv, NEW r \in Requests, InsertUser(r)
    PROVE  AccountsInv'
<1> USE DEF AccountsInv, InsertUser, Goes
<1>0. job[r] \in Creation
  BY DEF JobKnown
<1>1. view'[r] \in UserRow
  BY <1>0 DEF TypeOK, Creation, UserRow
<1>2. TypeOK'
  BY <1>0 DEF TypeOK, Maybe, Creation, UserRow
<1>3. JobKnown' /\ RowThere'
  BY <1>0, <1>1 DEF TypeOK, JobKnown, RowThere, Sub
<1>4. InsertsExclusive' /\ ProvisionedOnce'
  BY DEF TypeOK, InsertsExclusive, ProvisionedOnce, Sub, Inserting
<1>5. ProgressWithUser' /\ PatchesKept'
  BY DEF ProgressWithUser, PatchesKept
<1> QED  BY <1>2, <1>3, <1>4, <1>5

\* The progress row stays the transaction's own until it commits.
LEMMA ProvisionStep ==
    ASSUME AccountsInv, NEW r \in Requests, InsertProgress(r)
    PROVE  AccountsInv'
<1> USE DEF AccountsInv, InsertProgress, Goes
<1>1. TypeOK'
  BY DEF TypeOK
<1>2. JobKnown' /\ RowThere'
  BY DEF TypeOK, JobKnown, RowThere, Sub
<1>3. InsertsExclusive' /\ ProvisionedOnce'
  BY DEF TypeOK, InsertsExclusive, ProvisionedOnce, Sub
<1>4. ProgressWithUser' /\ PatchesKept'
  BY DEF ProgressWithUser, PatchesKept
<1> QED  BY <1>1, <1>2, <1>3, <1>4

\* Whoever commits finds no row, so no one has created this user before.
LEMMA CommitStep ==
    ASSUME AccountsInv, NEW r \in Requests, Commit(r)
    PROVE  AccountsInv'
<1> USE DEF AccountsInv, Commit, Learns, Goes
<1>0. /\ job[r] \in Creation /\ Sub(r) \in Subjects /\ view[r] \in UserRow
      /\ view[r] # NULL /\ user[Sub(r)] = NULL
  BY AccountsAssumption DEF JobKnown, RowThere, Creation, Sub
<1>1. TypeOK'
  BY <1>0 DEF TypeOK, Maybe, Answered, UserRow
<1>2. JobKnown'
  BY DEF TypeOK, JobKnown
<1>3. RowThere'
  BY <1>0 DEF TypeOK, RowThere, InsertsExclusive, Sub
<1>4. InsertsExclusive'
  BY DEF TypeOK, InsertsExclusive, Sub
<1>5. ProvisionedOnce'
  BY <1>0 DEF TypeOK, ProvisionedOnce, RowThere, Sub
<1>6. ProgressWithUser'
  BY <1>0 DEF TypeOK, ProgressWithUser
<1>7. PatchesKept'
  BY <1>0 DEF TypeOK, PatchesKept
<1> QED  BY <1>1, <1>2, <1>3, <1>4, <1>5, <1>6, <1>7

\* GET /me and PATCH /me go on only when they have found the row.
LEMMA ResolveStep ==
    ASSUME AccountsInv, NEW r \in Requests, NEW j \in Reading \union Patching, Resolve(r, j)
    PROVE  AccountsInv'
<1> USE DEF AccountsInv, Resolve, Goes
<1>0. j.sub \in Subjects
  BY DEF Reading, Patching
<1>1. TypeOK'
  BY <1>0 DEF TypeOK, Maybe, Answered, Jobs
<1>2. JobKnown' /\ RowThere'
  BY <1>0 DEF TypeOK, JobKnown, RowThere, Sub
<1>3. InsertsExclusive' /\ ProvisionedOnce'
  BY DEF TypeOK, InsertsExclusive, ProvisionedOnce, Sub
<1>4. ProgressWithUser' /\ PatchesKept'
  BY DEF ProgressWithUser, PatchesKept
<1> QED  BY <1>1, <1>2, <1>3, <1>4

\* A row rewritten in place, with the name and the avatar last given to it.
LEMMA RewriteStep ==
    ASSUME AccountsInv, NEW r \in Requests, pc[r] = "resolved",
           NEW told \in {"ok", "failed"}, pc' = [pc EXCEPT ![r] = told], UNCHANGED <<progress, job, view>>,
           NEW row \in UserRow, user' = [user EXCEPT ![Sub(r)] = row],
           named' = [named EXCEPT ![Sub(r)] = row.name],
           pictured' = [pictured EXCEPT ![Sub(r)] = row.avatar]
    PROVE  AccountsInv'
<1> USE DEF AccountsInv
<1>0. Sub(r) \in Subjects /\ user[Sub(r)] # NULL /\ row # NULL
  BY AccountsAssumption DEF JobKnown, RowThere, Reading, Patching, Sub
<1>1. TypeOK'
  BY <1>0 DEF TypeOK, Maybe, Answered, UserRow
<1>2. JobKnown' /\ RowThere'
  BY <1>0 DEF TypeOK, JobKnown, RowThere, Sub
<1>3. InsertsExclusive' /\ ProvisionedOnce'
  BY DEF TypeOK, InsertsExclusive, ProvisionedOnce, Sub
<1>4. ProgressWithUser' /\ PatchesKept'
  BY <1>0 DEF TypeOK, ProgressWithUser, PatchesKept
<1> QED  BY <1>1, <1>2, <1>3, <1>4

\* The row that BackfillEmail writes: what was there, and an e-mail.
LEMMA BackfillRow ==
    ASSUME AccountsInv, NEW r \in Requests, BackfillEmail(r)
    PROVE  \E row \in UserRow :
              /\ user' = [user EXCEPT ![Sub(r)] = row]
              /\ row.name = user[Sub(r)].name /\ row.avatar = user[Sub(r)].avatar
              /\ user[Sub(r)].email \in {NULL, row.email}
              /\ user[Sub(r)] \in UserRow /\ Sub(r) \in Subjects
<1> USE DEF AccountsInv, BackfillEmail, Goes
<1> DEFINE old == user[Sub(r)]
           row == [old EXCEPT !.email = IF old.email = NULL THEN job[r].email ELSE old.email]
<1>1. job[r] \in Reading /\ Sub(r) \in Subjects
  BY DEF JobKnown, NeedsEmail, Patching, Reading, Sub
<1>2. old \in UserRow
  BY <1>1 DEF TypeOK, RowThere, Maybe
<1>3. job[r].email \in Maybe(Emails)
  BY <1>1 DEF Reading
<1>4. row \in UserRow
  BY <1>2, <1>3 DEF UserRow
<1>5. row.name = old.name /\ row.avatar = old.avatar /\ old.email \in {NULL, row.email}
  BY <1>2 DEF UserRow
<1>6. user' = [user EXCEPT ![Sub(r)] = row]
  OBVIOUS
<1> QED  BY <1>1, <1>2, <1>4, <1>5, <1>6

\* A row with two of its three columns replaced.
LEMMA RowPatched ==
    ASSUME NEW old \in UserRow, NEW n, NEW a
    PROVE  [old EXCEPT !.name = n, !.avatar = a]
             = [name |-> n, email |-> old.email, avatar |-> a]
<1>1. old = [name |-> old.name, email |-> old.email, avatar |-> old.avatar]
  BY DEF UserRow
<1>2. [old EXCEPT !.name = n] = [name |-> n, email |-> old.email, avatar |-> old.avatar]
  BY <1>1, Z3
<1>3. [[name |-> n, email |-> old.email, avatar |-> old.avatar] EXCEPT !.avatar = a]
        = [name |-> n, email |-> old.email, avatar |-> a]
  OBVIOUS
<1>4. [old EXCEPT !.name = n, !.avatar = a] = [[old EXCEPT !.name = n] EXCEPT !.avatar = a]
  BY <1>1
<1> QED  BY ONLY <1>2, <1>3, <1>4

\* The row that UpdateUser writes: the patched fields, the others as they are now.
LEMMA UpdateRow ==
    ASSUME AccountsInv, NEW r \in Requests, UpdateUser(r)
    PROVE  \E row \in UserRow :
              /\ user' = [user EXCEPT ![Sub(r)] = row]
              /\ row.name = Coalesce(job[r].name, user[Sub(r)].name)
              /\ row.avatar = Coalesce(job[r].avatar, user[Sub(r)].avatar)
              /\ row.email = user[Sub(r)].email
              /\ user[Sub(r)] \in UserRow /\ Sub(r) \in Subjects
<1> USE DEF AccountsInv, UpdateUser, Learns, Goes
<1> DEFINE old == user[Sub(r)]
           row == [name   |-> Coalesce(job[r].name, old.name),
                   email  |-> old.email,
                   avatar |-> Coalesce(job[r].avatar, old.avatar)]
<1>1. job[r] \in Patching /\ Sub(r) \in Subjects
  BY DEF JobKnown, Patches, Patching, Reading, Sub
<1>2. old \in UserRow
  BY <1>1 DEF TypeOK, RowThere, Maybe
<1>3. job[r].name \in Maybe(Names) /\ job[r].avatar \in Maybe(Avatars)
  BY <1>1 DEF Patching
<1>4. row \in UserRow
  BY <1>2, <1>3 DEF UserRow, Coalesce, Maybe
<1>5. [old EXCEPT !.name = Coalesce(job[r].name, old.name),
                  !.avatar = Coalesce(job[r].avatar, old.avatar)] = row
  BY ONLY <1>2, RowPatched
<1>6. user' = [user EXCEPT ![Sub(r)] = row]
  BY <1>1, <1>5 DEF TypeOK
<1>7. /\ row.name = Coalesce(job[r].name, old.name) /\ row.email = old.email
      /\ row.avatar = Coalesce(job[r].avatar, old.avatar)
  OBVIOUS
<1> QED  BY <1>1, <1>2, <1>4, <1>6, <1>7

\* Each field has what was last written to it, by whatever request.
LEMMA BackfillStep ==
    ASSUME AccountsInv, NEW r \in Requests, BackfillEmail(r)
    PROVE  AccountsInv'
<1>1. PICK row \in UserRow :
         /\ user' = [user EXCEPT ![Sub(r)] = row]
         /\ row.name = user[Sub(r)].name /\ row.avatar = user[Sub(r)].avatar
         /\ user[Sub(r)] \in UserRow /\ Sub(r) \in Subjects
  BY BackfillRow
<1>2. row.name = named[Sub(r)] /\ row.avatar = pictured[Sub(r)]
  BY <1>1, AccountsAssumption DEF AccountsInv, PatchesKept
<1>3. /\ named' = [named EXCEPT ![Sub(r)] = row.name]
      /\ pictured' = [pictured EXCEPT ![Sub(r)] = row.avatar]
  BY <1>1, <1>2 DEF AccountsInv, TypeOK, BackfillEmail
<1>4. /\ pc[r] = "resolved" /\ pc' = [pc EXCEPT ![r] = "ok"]
      /\ UNCHANGED <<progress, job, view>>
  BY DEF BackfillEmail, Goes
<1> QED  BY <1>1, <1>3, <1>4, RewriteStep

\* The same of PATCH /me: a field that it does not patch is as it is now.
LEMMA UpdateStep ==
    ASSUME AccountsInv, NEW r \in Requests, UpdateUser(r)
    PROVE  AccountsInv'
<1>1. PICK row \in UserRow :
         /\ user' = [user EXCEPT ![Sub(r)] = row]
         /\ row.name = Coalesce(job[r].name, user[Sub(r)].name)
         /\ row.avatar = Coalesce(job[r].avatar, user[Sub(r)].avatar)
         /\ user[Sub(r)] \in UserRow /\ Sub(r) \in Subjects
  BY UpdateRow
<1>2. user[Sub(r)].name = named[Sub(r)] /\ user[Sub(r)].avatar = pictured[Sub(r)]
  BY <1>1, AccountsAssumption DEF AccountsInv, PatchesKept
<1>3. /\ named' = [named EXCEPT ![Sub(r)] = row.name]
      /\ pictured' = [pictured EXCEPT ![Sub(r)] = row.avatar]
  <2>1. \A new, old : Coalesce(new, old) = LastGiven(new, old)
    BY DEF Coalesce, LastGiven
  <2> QED  BY <1>1, <1>2, <2>1 DEF UpdateUser
<1>4. PICK told \in {"ok", "failed"} : pc' = [pc EXCEPT ![r] = told]
  BY DEF UpdateUser, Learns, Goes
<1>5. pc[r] = "resolved" /\ UNCHANGED <<progress, job, view>>
  BY DEF UpdateUser, Learns, Goes
<1> QED  BY <1>1, <1>3, <1>4, <1>5, RewriteStep

\* Every step keeps the invariant.
LEMMA NextAccounts == AccountsInv /\ [Next]_vars => AccountsInv'
<1> SUFFICES ASSUME AccountsInv, [Next]_vars
             PROVE  AccountsInv'
  OBVIOUS
<1>1. CASE UNCHANGED vars
  BY <1>1 DEF vars, AccountsInv, TypeOK, JobKnown, RowThere, InsertsExclusive,
             ProvisionedOnce, ProgressWithUser, PatchesKept, Sub
<1>2. ASSUME NEW r \in Requests, NEW j \in Creation, Create(r, j)
      PROVE  AccountsInv'
  BY <1>2, CreateStep
<1>3. ASSUME NEW r \in Requests, NEW j \in Reading \union Patching, Resolve(r, j)
      PROVE  AccountsInv'
  BY <1>3, ResolveStep
<1>4. ASSUME NEW r \in Requests, ResolveFails(r)
      PROVE  AccountsInv'
  BY <1>4, TablesSame DEF ResolveFails, Goes
<1>5. ASSUME NEW r \in Requests, Step(r)
      PROVE  AccountsInv'
  <2>1. CASE InsertUser(r)          BY <2>1, InsertStep
  <2>2. CASE AlreadyProvisioned(r)  BY <2>2, TablesSame DEF AlreadyProvisioned, Goes
  <2>3. CASE InsertProgress(r)      BY <2>3, ProvisionStep
  <2>4. CASE Commit(r)              BY <2>4, CommitStep
  <2>5. CASE ReplyAsRead(r)         BY <2>5, TablesSame DEF ReplyAsRead, Goes
  <2>6. CASE BackfillEmail(r)       BY <2>6, BackfillStep
  <2>7. CASE BackfillFails(r)       BY <2>7, TablesSame DEF BackfillFails, Goes
  <2>8. CASE UpdateUser(r)          BY <2>8, UpdateStep
  <2> QED  BY <1>5, <2>1, <2>2, <2>3, <2>4, <2>5, <2>6, <2>7, <2>8 DEF Step
<1>6. ASSUME NEW r \in Requests, Fail(r)
      PROVE  AccountsInv'
  BY <1>6, TablesSame DEF Fail
<1> QED  BY <1>1, <1>2, <1>3, <1>4, <1>5, <1>6 DEF Next

\* The invariant holds in every reachable state.
LEMMA AccountsInvariant == Spec => []AccountsInv
BY InitAccounts, NextAccounts, PTL DEF Spec

-----------------------------------------------------------------------------
\* Every variable keeps its type: a row of app_user has the three columns that the
\* handlers read (model.User), and a request is at one of the steps of its handler.
THEOREM AccountsTyped == Spec => []TypeOK
BY AccountsInvariant, PTL DEF AccountsInv

\* Of any number of first logins of one subject, in any interleaving and with any
\* failures, at most one is answered 201 (CreateUserWithProgress, user.go:55): the
\* unique index admits one open insert, and the row of a commit never goes away.
THEOREM FirstLoginOnce == Spec => []ProvisionedOnce
BY AccountsInvariant, PTL DEF AccountsInv

\* A committed user has its progress row and a progress row has its user, at every
\* moment: the two inserts become visible together.
THEOREM UserHasProgress == Spec => []ProgressWithUser
BY AccountsInvariant, PTL DEF AccountsInv

\* A row carries the name and the avatar last written, although PATCH /me and GET /me
\* decide on a row they have read before they write (UpdateUser, BackfillEmail).
THEOREM NoPatchUndone == Spec => []PatchesKept
BY AccountsInvariant, PTL DEF AccountsInv

\* The row of a user, once there, changes by the three writing statements only, and
\* none of them takes a stored e-mail away or replaces it.
LEMMA EmailStep ==
    ASSUME AccountsInv, [Next]_vars, NEW x \in Subjects, user[x] # NULL
    PROVE  user'[x] # NULL /\ user[x].email \in {NULL, user'[x].email}
<1>1. CASE user' = user
  BY <1>1
<1>2. ASSUME NEW r \in Requests, Commit(r)
      PROVE  user'[x] = user[x]
  BY <1>2 DEF AccountsInv, TypeOK, RowThere, Commit, Learns, Goes
<1>3. ASSUME NEW r \in Requests, BackfillEmail(r)
      PROVE  user'[x] # NULL /\ user[x].email \in {NULL, user'[x].email}
  <2>1. PICK row \in UserRow :
           /\ user' = [user EXCEPT ![Sub(r)] = row]
           /\ user[Sub(r)].email \in {NULL, row.email}
    BY <1>3, BackfillRow
  <2> QED  BY <2>1, AccountsAssumption DEF AccountsInv, TypeOK
<1>4. ASSUME NEW r \in Requests, UpdateUser(r)
      PROVE  user'[x] # NULL /\ user[x].email \in {NULL, user'[x].email}
  <2>1. PICK row \in UserRow :
           /\ user' = [user EXCEPT ![Sub(r)] = row]
           /\ row.email = user[Sub(r)].email
    BY <1>4, UpdateRow
  <2> QED  BY <2>1, AccountsAssumption DEF AccountsInv, TypeOK
<1>5. \/ user' = user
      \/ \E r \in Requests : Commit(r) \/ BackfillEmail(r) \/ UpdateUser(r)
  BY DEF Next, vars, Create, Resolve, ResolveFails, Step, InsertUser, AlreadyProvisioned,
         InsertProgress, ReplyAsRead, BackfillFails, Fail
<1> QED  BY <1>1, <1>2, <1>3, <1>4, <1>5

\* An e-mail once stored stays, and a user is never deleted (user.go:156-157).
THEOREM EmailNeverReplaced == Spec => EmailStays
<1>1. AccountsInv /\ [Next]_vars
      => [\A x \in Subjects : user[x] # NULL =>
             user'[x] # NULL /\ user[x].email \in {NULL, user'[x].email}]_user
  BY EmailStep
<1> QED  BY <1>1, AccountsInvariant, PTL DEF Spec, EmailStays
=============================================================================
