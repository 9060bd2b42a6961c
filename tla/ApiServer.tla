------------------------------ MODULE ApiServer ------------------------------
(***************************************************************************)
(* One process of the service, from its start to its exit (cmd/api/        *)
(* main.go), and the requests it serves meanwhile: through authentication  *)
(* and the reviewer guard (middleware) to a handler, which runs its        *)
(* statements one after another, each on a connection of the pool, and     *)
(* replies (apperr).  The process is told to stop by a signal or by its    *)
(* own listener, or is killed.                                             *)
(*                                                                         *)
(* main.go starts Echo on an http.Server of its own and asks Echo to shut  *)
(* down servers that were never started.  Echo v4.13.4 returns at once and *)
(* the listener stays open, so nothing waits for the requests in progress  *)
(* except the pool, whose Close waits for its connections (pgx v5.7.6).    *)
(***************************************************************************)
EXTENDS Integers, Sequences, FiniteSets

CONSTANTS
    Requests,
    Served,        \* the handlers that requests are sent to
    Subjects,      \* subs a request may be authenticated as
    ReviewerSubs,  \* REVIEWER_SUBS
    MaxConns,      \* connections of the pool
    DevAuth,       \* whether the binary is built with the tag dev_auth
    NULL

-----------------------------------------------------------------------------
\* The routes, by the name of their handler and by what guards them.
Open    == {"Health", "ListSkills"}
Learner == {"Me", "CreateMe", "UpdateMe", "MeStats", "TaskOptions", "PutTaskSlot",
            "DeleteTaskSlot", "ListTaskSlots", "ListQuestions", "GetQuestion",
            "SubmitAttempt", "SRSDue", "Calendar", "Home"}
Admin   == {"AdminListQuestions", "AdminGetQuestion", "AdminUpdateQuestion",
            "AdminReview", "AdminReviewQueue"}
Handlers == Open \union Learner \union Admin

\* Mutant: the question is looked up once more for the reply.
AdminQuestionUpdateLookingUp == <<"lookup", "change", "lookup">>

\* What the services ask of the database, in this order, a connection for each:
\*   lookup  a read whose result may make the handler refuse the request
\*   read    any other read
\*   change  a statement or transaction that stores something, or refuses to
\*   store   one that never refuses
\*   fill    one that stores something whose failure is ignored
\*   ping    the health check
HealthCheck         == <<"ping">>
SkillList           == <<"read", "read">>
UserMe              == <<"lookup", "fill">>
UserCreate          == <<"change">>
UserUpdate          == <<"lookup", "change">>
MeStats             == <<"lookup", "read">>
TaskSlotOptions     == <<"lookup", "read">>
TaskSlotSet         == <<"lookup", "lookup", "store">>
TaskSlotDelete      == <<"lookup", "change">>
TaskSlotList        == <<"lookup", "read">>
QuestionList        == <<"lookup", "read">>
QuestionGet         == <<"lookup", "lookup">>
AttemptSubmit       == <<"lookup", "lookup", "store">>
SRSListDue          == <<"lookup", "read">>
CalendarGet         == <<"lookup", "read", "read">>
AdminQuestionList   == <<"read">>
AdminQuestionGet    == <<"lookup", "read">>
AdminQuestionUpdate == <<"lookup", "change", "read">>
AdminReviewDecide   == <<"lookup", "change">>
ReviewQueueList     == <<"read">>

\* The user, the slots, a pick and an insert for each of at most two slots, the tasks.
HomeGet == <<"lookup", "read", "read", "store", "read", "store", "read">>

\* What runs for each handler.
Body(h) ==
    CASE h = "Health"              -> HealthCheck
      [] h = "ListSkills"          -> SkillList
      [] h = "Me"                  -> UserMe
      [] h = "CreateMe"            -> UserCreate
      [] h = "UpdateMe"            -> UserUpdate
      [] h = "MeStats"             -> MeStats
      [] h = "TaskOptions"         -> TaskSlotOptions
      [] h = "PutTaskSlot"         -> TaskSlotSet
      [] h = "DeleteTaskSlot"      -> TaskSlotDelete
      [] h = "ListTaskSlots"       -> TaskSlotList
      [] h = "ListQuestions"       -> QuestionList
      [] h = "GetQuestion"         -> QuestionGet
      [] h = "SubmitAttempt"       -> AttemptSubmit
      [] h = "SRSDue"              -> SRSListDue
      [] h = "Calendar"            -> CalendarGet
      [] h = "Home"                -> HomeGet
      [] h = "AdminListQuestions"  -> AdminQuestionList
      [] h = "AdminGetQuestion"    -> AdminQuestionGet
      [] h = "AdminUpdateQuestion" -> AdminQuestionUpdate
      [] h = "AdminReview"         -> AdminReviewDecide
      [] h = "AdminReviewQueue"    -> ReviewQueueList

\* The positions that may follow position i: there may be no skills, no e-mail to
\* fill in, nothing to update, fewer slots, or no question for a slot.
Following(h, i) ==
    CASE h \in {"ListSkills", "Me", "UpdateMe"} /\ i = 1 -> {2, 3}
      [] h = "Home" /\ i = 2 -> {3, 5, 7}
      [] h = "Home" /\ i \in {3, 5} -> {i + 1, i + 2}
      [] OTHER -> {i + 1}

\* Handlers that do not reply with success without having stored something.
Storing == {"CreateMe", "PutTaskSlot", "DeleteTaskSlot", "SubmitAttempt",
            "AdminUpdateQuestion", "AdminReview"}

\* The environment variables: DATABASE_URL, AUTH_MODE and COGNITO_JWKS_URL.
Environments == [url : {"unset", "malformed", "valid"},
                 mode : {"dev", "cognito", "unknown"},
                 jwks : BOOLEAN]

ASSUME ServerAssumption ==
    /\ Served \subseteq Handlers
    /\ ReviewerSubs \subseteq Subjects
    /\ NULL \notin Subjects \union Handlers
    /\ NULL \notin {"clean", "failed", "killed", "ok", "refused", "error"}
    /\ MaxConns \in Nat \ {0}
    /\ DevAuth \in BOOLEAN

VARIABLES
    env,       \* the environment the process was started with
    proc,      \* where run() is
    stopping,  \* whether the context of NotifyContext is done
    listener,  \* the goroutine that serves
    pool,      \* "none", "open" or "closed"
    exit,      \* "clean" (status 0), "failed" (1) or "killed", or NULL
    pc,        \* how far each request is
    handler,   \* what it was routed to, or NULL
    subject,   \* who it is authenticated as, or NULL
    at,        \* its position in the body of its handler
    stored,    \* whether the database has stored something for it
    reply      \* "ok" (2xx), "refused" (4xx) or "error" (5xx), or NULL

process == <<env, proc, stopping, listener, pool, exit>>
request == <<pc, handler, subject, at, stored, reply>>
vars == <<process, request>>

Running == {r \in Requests : pc[r] = "running"}

-----------------------------------------------------------------------------
Init ==
    /\ env \in Environments
    /\ proc = "boot" /\ stopping = FALSE /\ listener = "none"
    /\ pool = "none" /\ exit = NULL
    /\ pc = [r \in Requests |-> "idle"]
    /\ handler = [r \in Requests |-> NULL]
    /\ subject = [r \in Requests |-> NULL]
    /\ at = [r \in Requests |-> 1]
    /\ stored = [r \in Requests |-> FALSE]
    /\ reply = [r \in Requests |-> NULL]

Proceed(from, to) == proc = from /\ proc' = to

\* The process is gone.  Whoever waited for a reply gets none, and what the database
\* made of a statement then running is not recorded.
End(how) ==
    /\ proc' = "exited" /\ exit' = how /\ listener' = "none"
    /\ pc' = [r \in Requests |-> IF pc[r] \in {"idle", "replied"} THEN pc[r] ELSE "lost"]
    /\ UNCHANGED <<env, stopping, pool, handler, subject, at, stored, reply>>

\* config.Load, and then signals are caught.
LoadConfig ==
    /\ env.url # "unset" /\ env.mode # "unknown"
    /\ Proceed("boot", "configured")
    /\ UNCHANGED <<env, stopping, listener, pool, exit, request>>

LoadFails ==
    /\ proc = "boot"
    /\ env.url = "unset" \/ env.mode = "unknown"
    /\ End("failed")

\* repository.New parses the URL; it does not connect.
OpenPool ==
    /\ env.url = "valid"
    /\ Proceed("configured", "pooled")
    /\ pool' = "open"
    /\ UNCHANGED <<env, stopping, listener, exit, request>>

OpenFails ==
    /\ proc = "configured"
    /\ env.url = "malformed"
    /\ End("failed")

\* Mutant: the build tag makes no difference.
AuthAvailableAnyway == env.mode = "cognito" => env.jwks

\* middleware.NewAuth: without the tag, the dev mode cannot be built.
AuthAvailable == IF env.mode = "cognito" THEN env.jwks ELSE DevAuth

\* Echo is set up and the goroutine started; main waits for the context.
StartServer ==
    /\ AuthAvailable
    /\ Proceed("pooled", "waiting")
    /\ listener' = "starting"
    /\ UNCHANGED <<env, stopping, pool, exit, request>>

\* The deferred Close finds no connection in use.
AuthFails ==
    /\ proc = "pooled"
    /\ ~AuthAvailable
    /\ End("failed")

Listen ==
    /\ listener = "starting"
    /\ listener' = "listening"
    /\ UNCHANGED <<env, proc, stopping, pool, exit, request>>

\* Mutant: nothing tells main.
ListenerFailsSilently ==
    /\ listener \in {"starting", "listening"}
    /\ listener' = "none"
    /\ UNCHANGED <<env, proc, stopping, pool, exit, request>>

\* The address is taken, or accepting connections fails later: stop() is called.
ListenerFails ==
    /\ listener \in {"starting", "listening"}
    /\ listener' = "none"
    /\ stopping' = TRUE
    /\ UNCHANGED <<env, proc, pool, exit, request>>

\* SIGINT or SIGTERM, which NotifyContext catches until the process ends.
Signal ==
    /\ proc \notin {"boot", "exited"}
    /\ ~stopping
    /\ stopping' = TRUE
    /\ UNCHANGED <<env, proc, listener, pool, exit, request>>

\* <-ctx.Done(), and e.Shutdown, which has nothing to shut down.
Shutdown ==
    /\ stopping
    /\ Proceed("waiting", "shut")
    /\ UNCHANGED <<env, stopping, listener, pool, exit, request>>

\* The deferred repo.Close: no connection is given out any more ...
ClosePool ==
    /\ Proceed("shut", "closing")
    /\ pool' = "closed"
    /\ UNCHANGED <<env, stopping, listener, exit, request>>

\* Mutant: the pool does not wait for its connections.
LeaveAtOnce == proc = "closing" /\ End("clean")

\* ... and it returns when all have been given back.  main returns.
Leave ==
    /\ proc = "closing"
    /\ Running = {}
    /\ End("clean")

\* SIGKILL, or a signal before NotifyContext.
Kill ==
    /\ proc # "exited"
    /\ End("killed")

-----------------------------------------------------------------------------
\* Mutant: the admin group has no reviewer guard.
AdmittedWithoutReviewer(h, s) == h \in Open \/ s # NULL

\* The auth middleware, and RequireReviewer on the admin group.
Admitted(h, s) ==
    CASE h \in Open    -> TRUE
      [] h \in Learner -> s # NULL
      [] h \in Admin   -> s \in ReviewerSubs

\* The request is answered as soon as what it replies is decided.
Decide(r, answer) ==
    /\ pc' = [pc EXCEPT ![r] = "decided"]
    /\ reply' = [reply EXCEPT ![r] = answer]

\* A request arrives, authenticated as s, if at all, and passes guard and validation.
Enter(r, h, s) ==
    /\ listener = "listening" /\ pc[r] = "idle"
    /\ Admitted(h, s)
    /\ pc' = [pc EXCEPT ![r] = "queued"]
    /\ handler' = [handler EXCEPT ![r] = h]
    /\ subject' = [subject EXCEPT ![r] = s]
    /\ UNCHANGED <<process, at, stored, reply>>

\* 401, 403, or 400 for what the handler checks before it asks the database.
TurnAway(r) ==
    /\ listener = "listening" /\ pc[r] = "idle"
    /\ Decide(r, "refused")
    /\ UNCHANGED <<process, handler, subject, at, stored>>

Unit(r) == Body(handler[r])[at[r]]

\* Mutant: the pool opens as many connections as are asked for.
AcquireAny(r) ==
    /\ pc[r] = "queued"
    /\ pool = "open"
    /\ pc' = [pc EXCEPT ![r] = "running"]
    /\ UNCHANGED <<process, handler, subject, at, stored, reply>>

\* Mutant: a connection has been taken at the start and never given back.
AcquireOfTheRest(r) ==
    /\ pc[r] = "queued"
    /\ pool = "open" /\ Cardinality(Running) + 1 < MaxConns
    /\ pc' = [pc EXCEPT ![r] = "running"]
    /\ UNCHANGED <<process, handler, subject, at, stored, reply>>

\* The pool gives out a connection.
Acquire(r) ==
    /\ pc[r] = "queued"
    /\ pool = "open" /\ Cardinality(Running) < MaxConns
    /\ pc' = [pc EXCEPT ![r] = "running"]
    /\ UNCHANGED <<process, handler, subject, at, stored, reply>>

\* The handler goes on to position i, or has come to its end.
GoOn(r, i) ==
    IF i > Len(Body(handler[r]))
    THEN Decide(r, "ok") /\ UNCHANGED at
    ELSE /\ at' = [at EXCEPT ![r] = i]
         /\ pc' = [pc EXCEPT ![r] = "queued"]
         /\ UNCHANGED reply

\* The statement or the commit succeeds, and the connection is given back.
Succeed(r) ==
    /\ pc[r] = "running"
    /\ stored' = [stored EXCEPT ![r] = @ \/ Unit(r) \in {"change", "store", "fill"}]
    /\ \E i \in Following(handler[r], at[r]) : GoOn(r, i)
    /\ UNCHANGED <<process, handler, subject>>

\* Nothing is found, or nothing may be stored: 404, 409, 422 or 400.
Refuse(r) ==
    /\ pc[r] = "running"
    /\ Unit(r) \in {"lookup", "change"}
    /\ Decide(r, "refused")
    /\ UNCHANGED <<process, handler, subject, at, stored>>

\* What a handler makes of an error: a failed fill is ignored, all else is a 5xx.
Give(r) ==
    IF Unit(r) = "fill" THEN GoOn(r, at[r] + 1)
    ELSE Decide(r, "error") /\ UNCHANGED at

\* The statement fails, or the client goes away; of a commit the outcome may be
\* lost when it has taken place.
Break(r) ==
    /\ pc[r] = "running"
    /\ \/ UNCHANGED stored
       \/ Unit(r) \in {"change", "store", "fill"} /\ stored' = [stored EXCEPT ![r] = TRUE]
    /\ Give(r)
    /\ UNCHANGED <<process, handler, subject>>

\* No connection is to be had: the pool is closed, or the client does not wait.
GiveUp(r) ==
    /\ pc[r] = "queued"
    /\ Give(r)
    /\ UNCHANGED <<process, handler, subject, stored>>

\* The response is written.
Send(r) ==
    /\ pc[r] = "decided"
    /\ pc' = [pc EXCEPT ![r] = "replied"]
    /\ UNCHANGED <<process, handler, subject, at, stored, reply>>

-----------------------------------------------------------------------------
\* What run() does on its own, up to its wait and from its end of it.
Startup == LoadConfig \/ LoadFails \/ OpenPool \/ OpenFails \/ StartServer \/ AuthFails
Stop == Shutdown \/ ClosePool \/ Leave

Arrive(r) == TurnAway(r) \/ \E h \in Served, s \in Subjects \union {NULL} : Enter(r, h, s)
Finish(r) == Succeed(r) \/ Refuse(r) \/ Break(r)

Next ==
    \/ Startup \/ Listen \/ ListenerFails
    \/ Signal \/ Stop \/ Kill
    \/ \E r \in Requests : Arrive(r) \/ Acquire(r) \/ Finish(r) \/ GiveUp(r) \/ Send(r)

Spec == Init /\ [][Next]_vars

\* run() goes on; the database answers every statement, or the connection to it
\* breaks; the pool serves whoever waits, or turns them away once it is closed, and
\* handlers write their responses.  Nothing obliges anybody to send a request or a
\* signal, a client to give up, or the listener to fail.
Fairness ==
    /\ WF_vars(Startup) /\ WF_vars(Stop)
    /\ \A r \in Requests :
        /\ WF_vars(Acquire(r) \/ (pool = "closed" /\ GiveUp(r)))
        /\ WF_vars(Finish(r)) /\ WF_vars(Send(r))

FairSpec == Spec /\ Fairness

-----------------------------------------------------------------------------
\* Where run(), the listener, the pool and the requests are, and what goes with it:
\* statements run on at most MaxConns connections, of a process that lives, for a
\* handler that has not come to its end.
TypeOK ==
    /\ env \in Environments
    /\ proc \in {"boot", "configured", "pooled", "waiting", "shut", "closing", "exited"}
    /\ stopping \in BOOLEAN
    /\ listener \in {"none", "starting", "listening"}
    /\ pool \in {"none", "open", "closed"}
    /\ exit \in {NULL, "clean", "failed", "killed"} /\ (exit = NULL <=> proc # "exited")
    /\ pc \in [Requests -> {"idle", "queued", "running", "decided", "replied", "lost"}]
    /\ handler \in [Requests -> Served \union {NULL}]
    /\ subject \in [Requests -> Subjects \union {NULL}]
    /\ stored \in [Requests -> BOOLEAN]
    /\ reply \in [Requests -> {NULL, "ok", "refused", "error"}]
    /\ Cardinality(Running) <= MaxConns
    /\ \A r \in Requests :
        /\ pc[r] \in {"queued", "running"} =>
            at[r] \in 1..Len(Body(handler[r])) /\ reply[r] = NULL /\ proc # "exited"
        /\ pc[r] \in {"decided", "replied"} => reply[r] # NULL

\* A success of a handler that stores means that something has been stored, and a
\* refusal (404, 409, 422 ...) that nothing has; only a 5xx leaves the client in doubt.
\* Handlers look up what may refuse them before they store, whatever fails between.
RepliesTruthful ==
    \A r \in Requests :
        /\ reply[r] = "ok" /\ handler[r] \in Storing => stored[r]
        /\ reply[r] = "refused" => ~stored[r]

\* However the process was started, what the admin routes store is a reviewer's doing,
\* and a binary built without dev_auth hands no request to a handler behind the
\* authentication unless it is Cognito's: the dev mode ends such a process before it
\* listens.
Guarded ==
    \A r \in Requests :
        /\ handler[r] \in Admin /\ stored[r] => subject[r] \in ReviewerSubs
        /\ handler[r] \in Learner \union Admin /\ ~DevAuth => env.mode = "cognito"

\* main.go:47,96: a process that leaves by itself cuts no statement or transaction
\* short, even though Shutdown waits for no request.
ExitWaits == [][exit' \in {"clean", "failed"} => Running = {}]_exit

\* Every request that a handler has taken is replied to, unless the process ends
\* first: no one waits for a connection for ever, whatever the others do with theirs.
Answered ==
    \A r \in Requests : pc[r] \in {"queued", "running", "decided"} ~> pc[r] \in {"replied", "lost"}

\* A process that is told to stop, or whose listener has gone, comes to its end, even
\* while its listener goes on accepting requests.
Exits == (stopping \/ (proc = "waiting" /\ listener = "none")) ~> proc = "exited"
=============================================================================
