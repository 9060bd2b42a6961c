---------------------------- MODULE UserAccounts -----------------------------
(***************************************************************************)
(* The learner's own row: POST /me creates it at the first login, with its *)
(* progress row, in one transaction (repository/user.go:55); GET /me fills *)
(* in an e-mail that is missing; PATCH /me updates some of the fields.     *)
(* Both read the row first and write it by a statement of its own.         *)
(***************************************************************************)
CONSTANTS
    Subjects,  \* external_id: the sub of the token
    Names, Emails, Avatars,
    Requests,
    NULL

Maybe(S) == S \union {NULL}

\* A row of app_user.
UserRow == [name : Names, email : Maybe(Emails), avatar : Maybe(Avatars)]

\* The three requests.  The e-mail is the token's, if it has one; NULL in a patch
\* leaves the field as it is.
Creation == [op : {"create"}, sub : Subjects,
             name : Names, email : Maybe(Emails), avatar : Maybe(Avatars)]
Reading  == [op : {"read"}, sub : Subjects, email : Maybe(Emails)]
Patching == [op : {"patch"}, sub : Subjects, name : Maybe(Names), avatar : Maybe(Avatars)]
Jobs     == Creation \union Reading \union Patching

ASSUME AccountsAssumption ==
    NULL \notin UserRow /\ NULL \notin Names \union Emails \union Avatars

VARIABLES
    user,      \* table app_user by external_id: a committed row or NULL
    progress,  \* whether the user_progress row is committed
    pc, job,   \* each request
    view,      \* the row it has read or is about to insert, or NULL
    named, pictured  \* for properties: the last name and avatar written to a row

vars == <<user, progress, pc, job, view, named, pictured>>

Init ==
    /\ user = [x \in Subjects |-> NULL]
    /\ progress = [x \in Subjects |-> FALSE]
    /\ pc = [r \in Requests |-> "idle"]
    /\ job = [r \in Requests |-> NULL]
    /\ view = [r \in Requests |-> NULL]
    /\ named = [x \in Subjects |-> NULL]
    /\ pictured = [x \in Subjects |-> NULL]

Goes(r, from, to) == pc[r] = from /\ pc' = [pc EXCEPT ![r] = to]

\* The answer: 200 or 201, 404, 409, 500.
Answered == {"ok", "created", "not_found", "conflict", "failed"}

Sub(r) == job[r].sub

-----------------------------------------------------------------------------
\* POST /me: the transaction begins.
Create(r, j) ==
    /\ Goes(r, "idle", "begun")
    /\ job' = [job EXCEPT ![r] = j]
    /\ UNCHANGED <<user, progress, view, named, pictured>>

\* Another transaction has inserted the same external_id and is open: the unique
\* index makes the insert wait for its end.
Inserting(t, x) == pc[t] \in {"inserted", "provisioned"} /\ Sub(t) = x

\* Mutant: an index that is not unique.
InsertUserTwice(r) ==
    /\ Goes(r, "begun", "inserted")
    /\ view' = [view EXCEPT ![r] = [name |-> job[r].name, email |-> job[r].email,
                                    avatar |-> job[r].avatar]]
    /\ UNCHANGED <<user, progress, job, named, pictured>>

InsertUser(r) ==
    /\ Goes(r, "begun", "inserted")
    /\ user[Sub(r)] = NULL
    /\ \A t \in Requests \ {r} : ~Inserting(t, Sub(r))
    /\ view' = [view EXCEPT ![r] = [name |-> job[r].name, email |-> job[r].email,
                                    avatar |-> job[r].avatar]]
    /\ UNCHANGED <<user, progress, job, named, pictured>>

\* Mutant: the insert is tried again.
AlreadyProvisionedRetries(r) ==
    /\ Goes(r, "begun", "begun")
    /\ user[Sub(r)] # NULL
    /\ UNCHANGED <<user, progress, job, view, named, pictured>>

\* Unique violation: ErrAlreadyExists, 409.
AlreadyProvisioned(r) ==
    /\ Goes(r, "begun", "conflict")
    /\ user[Sub(r)] # NULL
    /\ UNCHANGED <<user, progress, job, view, named, pictured>>

\* The progress row, with its initial values.
InsertProgress(r) ==
    /\ Goes(r, "inserted", "provisioned")
    /\ UNCHANGED <<user, progress, job, view, named, pictured>>

\* Mutant: the user is committed before the progress row is inserted.
CommitEarly(r) ==
    /\ Goes(r, "inserted", "created")
    /\ user' = [user EXCEPT ![Sub(r)] = view[r]]
    /\ named' = [named EXCEPT ![Sub(r)] = view[r].name]
    /\ pictured' = [pictured EXCEPT ![Sub(r)] = view[r].avatar]
    /\ UNCHANGED <<progress, job, view>>

\* What the request learns of a statement that has taken effect: its result, or, when
\* the acknowledgement is lost, an error.
Learns(r, from, answer) == \E told \in {answer, "failed"} : Goes(r, from, told)

\* Both rows become visible.
Commit(r) ==
    /\ Learns(r, "provisioned", "created")
    /\ user' = [user EXCEPT ![Sub(r)] = view[r]]
    /\ progress' = [progress EXCEPT ![Sub(r)] = TRUE]
    /\ named' = [named EXCEPT ![Sub(r)] = view[r].name]
    /\ pictured' = [pictured EXCEPT ![Sub(r)] = view[r].avatar]
    /\ UNCHANGED <<job, view>>

-----------------------------------------------------------------------------
\* GET /me and PATCH /me: resolveUser reads the row, or finds none.
Resolve(r, j) ==
    /\ Goes(r, "idle", IF user[j.sub] = NULL THEN "not_found" ELSE "resolved")
    /\ job' = [job EXCEPT ![r] = j]
    /\ view' = [view EXCEPT ![r] = user[j.sub]]
    /\ UNCHANGED <<user, progress, named, pictured>>

\* The read fails: 500, whatever was asked for.
ResolveFails(r) ==
    /\ Goes(r, "idle", "failed")
    /\ UNCHANGED <<user, progress, job, view, named, pictured>>

NeedsEmail(r) == job[r].op = "read" /\ job[r].email # NULL /\ view[r].email = NULL

Patches(r) == job[r].op = "patch" /\ ~(job[r].name = NULL /\ job[r].avatar = NULL)

\* Nothing to write: the row is returned as it was read.
ReplyAsRead(r) ==
    /\ Goes(r, "resolved", "ok")
    /\ ~NeedsEmail(r) /\ ~Patches(r)
    /\ UNCHANGED <<user, progress, job, view, named, pictured>>

\* Mutant: WHERE external_id = $1 only.
BackfillAnyEmail(r) ==
    /\ Goes(r, "resolved", "ok")
    /\ NeedsEmail(r)
    /\ user' = [user EXCEPT ![Sub(r)].email = job[r].email]
    /\ UNCHANGED <<progress, job, view, named, pictured>>

\* BackfillEmail: the token's e-mail, unless the row has got one meanwhile.
BackfillEmail(r) ==
    /\ Goes(r, "resolved", "ok")
    /\ NeedsEmail(r)
    /\ user' = [user EXCEPT ![Sub(r)].email = IF @ = NULL THEN job[r].email ELSE @]
    /\ UNCHANGED <<progress, job, view, named, pictured>>

\* It fails: the error is dropped, and the row returned as it was read.
BackfillFails(r) ==
    /\ Goes(r, "resolved", "ok")
    /\ NeedsEmail(r)
    /\ UNCHANGED <<user, progress, job, view, named, pictured>>

\* Mutant: the parameter is written without COALESCE.
NoCoalesce(new, old) == new

\* COALESCE($n, column).
Coalesce(new, old) == IF new = NULL THEN old ELSE new

\* History: the value a patch gives, or else the one given before.
LastGiven(given, before) == IF given # NULL THEN given ELSE before

\* Mutant: the row is written as it was read, with the patch applied.
UpdateAsRead(r) ==
    /\ Goes(r, "resolved", "ok")
    /\ Patches(r)
    /\ user' = [user EXCEPT ![Sub(r)] = [view[r] EXCEPT !.name = Coalesce(job[r].name, @),
                                                        !.avatar = Coalesce(job[r].avatar, @)]]
    /\ named' = [named EXCEPT ![Sub(r)] = LastGiven(job[r].name, @)]
    /\ pictured' = [pictured EXCEPT ![Sub(r)] = LastGiven(job[r].avatar, @)]
    /\ UNCHANGED <<progress, job, view>>

\* UpdateUser: the patched columns only.  No statement deletes the row.
UpdateUser(r) ==
    /\ Learns(r, "resolved", "ok")
    /\ Patches(r)
    /\ user' = [user EXCEPT ![Sub(r)].name = Coalesce(job[r].name, @),
                            ![Sub(r)].avatar = Coalesce(job[r].avatar, @)]
    /\ named' = [named EXCEPT ![Sub(r)] = LastGiven(job[r].name, @)]
    /\ pictured' = [pictured EXCEPT ![Sub(r)] = LastGiven(job[r].avatar, @)]
    /\ UNCHANGED <<progress, job, view>>

\* Any later statement fails, or the client goes away: 500, and a transaction rolls back.
Fail(r) ==
    /\ pc[r] \in {"begun", "inserted", "provisioned", "resolved"} /\ ~NeedsEmail(r)
    /\ pc' = [pc EXCEPT ![r] = "failed"]
    /\ UNCHANGED <<user, progress, job, view, named, pictured>>

Step(r) ==
    \/ InsertUser(r)
    \/ AlreadyProvisioned(r)
    \/ InsertProgress(r)
    \/ Commit(r)
    \/ ReplyAsRead(r)
    \/ BackfillEmail(r)
    \/ BackfillFails(r)
    \/ UpdateUser(r)

Next ==
    \E r \in Requests :
       \/ \E j \in Creation : Create(r, j)
       \/ \E j \in Reading \union Patching : Resolve(r, j)
       \/ ResolveFails(r)
       \/ Step(r)
       \/ Fail(r)

Spec == Init /\ [][Next]_vars

\* A request in progress goes on; PostgreSQL wakes an insert that waited.
FairSpec == Spec /\ \A r \in Requests : WF_vars(Step(r))

-----------------------------------------------------------------------------
TypeOK ==
    /\ user \in [Subjects -> Maybe(UserRow)]
    /\ progress \in [Subjects -> BOOLEAN]
    /\ pc \in [Requests -> Answered \union
                   {"idle", "begun", "inserted", "provisioned", "resolved"}]
    /\ job \in [Requests -> Maybe(Jobs)]
    /\ view \in [Requests -> Maybe(UserRow)]
    /\ named \in [Subjects -> Maybe(Names)]
    /\ pictured \in [Subjects -> Maybe(Avatars)]

\* Of any number of first logins at once one creates the user (409 to the others).
ProvisionedOnce ==
    \A r, t \in Requests : pc[r] = "created" /\ pc[t] = "created" /\ Sub(r) = Sub(t) => r = t

\* A user is never seen without its progress row (user.go:52): an answer by a user
\* without one fails (repository/attempt.go:120).
ProgressWithUser == \A x \in Subjects : progress[x] <=> user[x] # NULL

\* An e-mail once stored stays, whatever tokens with other e-mails read the row at
\* the same time, and whatever is patched (user.go:156-157).
EmailStays ==
    [][\A x \in Subjects : user[x] # NULL =>
           user'[x] # NULL /\ user[x].email \in {NULL, user'[x].email}]_user

\* Patches of different fields do not undo each other: a row has the last name and
\* the last avatar that any request gave it, although each request had read the row
\* before (user.go:122-124).
PatchesKept ==
    \A x \in Subjects : user[x] # NULL =>
        user[x].name = named[x] /\ user[x].avatar = pictured[x]

\* Every request is answered; concurrent first logins do not wait for ever.
AllAnswered == \A r \in Requests : pc[r] # "idle" ~> pc[r] \in Answered
=============================================================================
