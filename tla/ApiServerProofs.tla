--------------------------- MODULE ApiServerProofs ---------------------------
(***************************************************************************)
(* Theorems about ApiServer, for any number of requests, any handlers      *)
(* served and any size of the pool: replies tell what was stored, admin    *)
(* routes store for reviewers only, and a process that leaves by itself    *)
(* cuts no statement short.  Then theorems about the cache of the issuer's *)
(* keys in that process, JwksCache.                                        *)
(***************************************************************************)
EXTENDS ApiServer, FiniteSetTheorems, TLAPS

-----------------------------------------------------------------------------
\* What the bodies of the handlers have in common.

Units   == {"lookup", "read", "change", "store", "fill", "ping"}
Writes  == {"change", "store", "fill"}
Refuses == {"lookup", "change"}

\* Nothing that may refuse comes after something that stores.
LooksFirst(b) ==
    /\ b \in Seq(Units) /\ Len(b) >= 1
    /\ \A i, j \in 1 .. Len(b) : i < j /\ b[i] \in Writes => b[j] \notin Refuses

\* Something in b stores, and no failure to store is ignored.
MustStore(b) ==
    /\ \E i \in 1 .. Len(b) : b[i] \in {"change", "store"}
    /\ \A i \in 1 .. Len(b) : b[i] # "fill"

\* The switch of Body, arm by arm.
LEMMA BodyOf ==
    ASSUME NEW h \in Handlers
    PROVE  /\ h = "Health"              => Body(h) = HealthCheck
           /\ h = "ListSkills"          => Body(h) = SkillList
           /\ h = "Me"                  => Body(h) = UserMe
           /\ h = "CreateMe"            => Body(h) = UserCreate
           /\ h = "UpdateMe"            => Body(h) = UserUpdate
           /\ h = "MeStats"             => Body(h) = MeStats
           /\ h = "TaskOptions"         => Body(h) = TaskSlotOptions
           /\ h = "PutTaskSlot"         => Body(h) = TaskSlotSet
           /\ h = "DeleteTaskSlot"      => Body(h) = TaskSlotDelete
           /\ h = "ListTaskSlots"       => Body(h) = TaskSlotList
           /\ h = "ListQuestions"       => Body(h) = QuestionList
           /\ h = "GetQuestion"         => Body(h) = QuestionGet
           /\ h = "SubmitAttempt"       => Body(h) = AttemptSubmit
           /\ h = "SRSDue"              => Body(h) = SRSListDue
           /\ h = "Calendar"            => Body(h) = CalendarGet
           /\ h = "Home"                => Body(h) = HomeGet
           /\ h = "AdminListQuestions"  => Body(h) = AdminQuestionList
           /\ h = "AdminGetQuestion"    => Body(h) = AdminQuestionGet
           /\ h = "AdminUpdateQuestion" => Body(h) = AdminQuestionUpdate
           /\ h = "AdminReview"         => Body(h) = AdminReviewDecide
           /\ h = "AdminReviewQueue"    => Body(h) = ReviewQueueList
BY DEF Body

Shapes == {<<"ping">>, <<"read">>, <<"change">>, <<"read", "read">>, <<"lookup", "fill">>,
           <<"lookup", "change">>, <<"lookup", "read">>, <<"lookup", "lookup">>,
           <<"lookup", "lookup", "store">>, <<"lookup", "read", "read">>,
           <<"lookup", "change", "read">>,
           <<"lookup", "read", "read", "store", "read", "store", "read">>}

\* The 21 handlers have 12 shapes among them.
LEMMA BodyShapes ==
    ASSUME NEW h \in Handlers
    PROVE  Body(h) \in Shapes
BY BodyOf DEF Handlers, Open, Learner, Admin, Shapes, HealthCheck, SkillList, UserMe, UserCreate,
   UserUpdate, MeStats, TaskSlotOptions, TaskSlotSet, TaskSlotDelete, TaskSlotList,
   QuestionList, QuestionGet, AttemptSubmit, SRSListDue, CalendarGet, HomeGet,
   AdminQuestionList, AdminQuestionGet, AdminQuestionUpdate, AdminReviewDecide,
   ReviewQueueList

\* In each of them what may refuse comes before what stores.
LEMMA ShapesLookFirst ==
    ASSUME NEW b \in Shapes
    PROVE  LooksFirst(b)
<1> USE DEF LooksFirst, Units, Writes, Refuses
<1>1. CASE b = <<"ping">>
  BY <1>1
<1>2. CASE b = <<"read">>
  BY <1>2
<1>3. CASE b = <<"change">>
  BY <1>3
<1>4. CASE b = <<"read", "read">>
  BY <1>4
<1>5. CASE b = <<"lookup", "fill">>
  BY <1>5
<1>6. CASE b = <<"lookup", "change">>
  BY <1>6
<1>7. CASE b = <<"lookup", "read">>
  BY <1>7
<1>8. CASE b = <<"lookup", "lookup">>
  BY <1>8
<1>9. CASE b = <<"lookup", "lookup", "store">>
  BY <1>9
<1>10. CASE b = <<"lookup", "read", "read">>
  BY <1>10
<1>11. CASE b = <<"lookup", "change", "read">>
  BY <1>11
<1>12. CASE b = <<"lookup", "read", "read", "store", "read", "store", "read">>
  BY <1>12
<1> QED  BY <1>1, <1>2, <1>3, <1>4, <1>5, <1>6, <1>7, <1>8, <1>9, <1>10, <1>11, <1>12 DEF Shapes

\* A handler whose success promises a write has one in its body that cannot be ignored.
LEMMA StoringBodies ==
    ASSUME NEW h \in Storing
    PROVE  MustStore(Body(h))
<1>1. h \in Handlers
  BY DEF Storing, Handlers, Open, Learner, Admin
<1>2. Body(h) \in {<<"change">>, <<"lookup", "lookup", "store">>, <<"lookup", "change">>,
                   <<"lookup", "change", "read">>}
  BY <1>1, BodyOf DEF Storing, UserCreate, TaskSlotSet, TaskSlotDelete, AttemptSubmit,
     AdminQuestionUpdate, AdminReviewDecide
<1> QED  BY <1>2 DEF MustStore

\* A handler only goes forward; one that stores skips nothing.
LEMMA FollowingAhead ==
    ASSUME NEW h \in Handlers, NEW i \in Nat, NEW k \in Following(h, i)
    PROVE  k \in Nat /\ k > i /\ (h \in Storing => k = i + 1)
BY DEF Following, Storing

-----------------------------------------------------------------------------
\* The inductive invariant.

\* The columns of the request table.
RequestTable ==
    /\ pc \in [Requests -> {"idle", "queued", "running", "decided", "replied", "lost"}]
    /\ handler \in [Requests -> Served \union {NULL}]
    /\ subject \in [Requests -> Subjects \union {NULL}]
    /\ at \in [Requests -> Nat]
    /\ stored \in [Requests -> BOOLEAN]
    /\ reply \in [Requests -> {NULL, "ok", "refused", "error"}]

\* A handler that has stored something comes upon nothing more that may refuse; one
\* that must store has done so, or has it before it.
Ahead(r) ==
    LET b == Body(handler[r])
    IN  /\ stored[r] => \A j \in at[r] .. Len(b) : b[j] \notin Refuses
        /\ handler[r] \in Storing =>
              stored[r] \/ \E j \in at[r] .. Len(b) : b[j] \in {"change", "store"}

\* What holds of a request at each of its stages.
RequestOk(r) ==
    /\ pc[r] = "idle" => /\ handler[r] = NULL /\ at[r] = 1
                         /\ ~stored[r] /\ reply[r] = NULL
    /\ pc[r] \in {"queued", "running"} =>
          /\ handler[r] \in Served /\ at[r] \in 1 .. Len(Body(handler[r]))
          /\ reply[r] = NULL
          /\ Ahead(r)
    /\ pc[r] \in {"decided", "replied"} => reply[r] # NULL
    /\ reply[r] = "ok" /\ handler[r] \in Storing => stored[r]
    /\ reply[r] = "refused" => ~stored[r]
    /\ handler[r] \in Admin => subject[r] \in ReviewerSubs
    /\ handler[r] \in Learner \union Admin => AuthAvailable

\* Where the process is, and what there cannot be yet or any more.
ProcessOk ==
    /\ env \in Environments
    /\ proc \in {"boot", "configured", "pooled", "waiting", "shut", "closing", "exited"}
    /\ stopping \in BOOLEAN
    /\ listener \in {"none", "starting", "listening"}
    /\ pool \in {"none", "open", "closed"}
    /\ exit \in {NULL, "clean", "failed", "killed"} /\ (exit = NULL <=> proc # "exited")
    /\ proc \in {"boot", "configured", "pooled"} =>
          listener = "none" /\ \A r \in Requests : pc[r] = "idle"
    /\ proc = "exited" =>
          /\ listener = "none"
          /\ \A r \in Requests : pc[r] \in {"idle", "replied", "lost"}
    /\ listener # "none" => AuthAvailable

\* The pool never lends more than it has.
ConnsOk == IsFiniteSet(Running) /\ Cardinality(Running) <= MaxConns

\* The inductive invariant.
ServerInv == /\ ProcessOk
             /\ RequestTable
             /\ ConnsOk
             /\ \A r \in Requests : RequestOk(r)

\* The invariant says more than the type and the truth of the replies.
LEMMA InvSafe == ServerInv => TypeOK /\ RepliesTruthful
<1> SUFFICES ASSUME ServerInv PROVE TypeOK /\ RepliesTruthful
  OBVIOUS
<1> USE DEF ServerInv
<1>1. \A r \in Requests : pc[r] \in {"queued", "running"} =>
          at[r] \in 1 .. Len(Body(handler[r])) /\ reply[r] = NULL /\ proc # "exited"
  BY DEF ProcessOk, RequestOk
<1>2. \A r \in Requests : pc[r] \in {"decided", "replied"} => reply[r] # NULL
  BY DEF RequestOk
<1>3. TypeOK
  BY <1>1, <1>2 DEF TypeOK, ProcessOk, RequestTable, ConnsOk
<1>4. RepliesTruthful
  BY DEF RepliesTruthful, RequestOk
<1> QED  BY <1>3, <1>4

\* Where an admin handler runs, tokens are checked or a developer has asked for the bypass.
LEMMA InvGuarded == ServerInv => Guarded
<1> SUFFICES ASSUME ServerInv PROVE Guarded
  OBVIOUS
<1>1. AuthAvailable /\ ~DevAuth => env.mode = "cognito"
  BY DEF AuthAvailable
<1> QED  BY <1>1 DEF Guarded, ServerInv, RequestOk

\* The process starts with no listener, no pool and no request.
LEMMA InitServer == Init => ServerInv
<1> SUFFICES ASSUME Init PROVE ServerInv
  OBVIOUS
<1> USE DEF Init
<1>1. ProcessOk
  BY ServerAssumption DEF ProcessOk
<1>2. RequestTable
  BY DEF RequestTable
<1>3. ConnsOk
  <2>1. Running = {}
    BY DEF Running
  <2> QED  BY <2>1, FS_EmptySet, ServerAssumption DEF ConnsOk
<1>4. \A r \in Requests : RequestOk(r)
  BY ServerAssumption DEF RequestOk, Handlers
<1> QED  BY <1>1, <1>2, <1>3, <1>4 DEF ServerInv

-----------------------------------------------------------------------------
\* run(), the listener and signals leave the requests as they are, unless the process
\* comes to its end.
LEMMA SameRequests ==
    ASSUME ServerInv, UNCHANGED <<env, request>>
    PROVE  RequestTable' /\ ConnsOk' /\ \A r \in Requests : RequestOk(r)'
BY DEF ServerInv, RequestTable, ConnsOk, RequestOk, Ahead, AuthAvailable, Running, request

\* Whatever ends the process cuts off every request that has no reply.
LEMMA EndStep ==
    ASSUME ServerInv, NEW how \in {"clean", "failed", "killed"}, End(how)
    PROVE  ServerInv'
<1> USE DEF ServerInv, End
<1>1. ProcessOk'
  BY ServerAssumption DEF ProcessOk, RequestTable, AuthAvailable
<1>2. RequestTable'
  BY DEF RequestTable
<1>3. ConnsOk'
  <2>1. Running' = {}
    BY DEF Running
  <2> QED  BY <2>1, FS_EmptySet, ServerAssumption DEF ConnsOk
<1>4. \A r \in Requests : RequestOk(r)'
  BY DEF RequestOk, AuthAvailable, RequestTable
<1> QED  BY <1>1, <1>2, <1>3, <1>4

\* The steps of run(), of the listener and of the operating system.
LEMMA ProcessStep ==
    ASSUME ServerInv, Startup \/ Listen \/ ListenerFails \/ Signal \/ Stop \/ Kill
    PROVE  ServerInv'
<1>1. CASE LoadFails \/ OpenFails \/ AuthFails \/ Leave \/ Kill
  BY <1>1, EndStep DEF LoadFails, OpenFails, AuthFails, Leave, Kill
<1>2. CASE LoadConfig \/ OpenPool \/ StartServer \/ Listen \/ ListenerFails \/ Signal
           \/ Shutdown \/ ClosePool
  <2>1. UNCHANGED <<env, request>>
    BY <1>2 DEF LoadConfig, OpenPool, StartServer, Listen, ListenerFails, Signal, Shutdown,
                ClosePool
  <2>2. ProcessOk'
    <3> USE DEF ProcessOk, ServerInv, Proceed, AuthAvailable, request
    <3>1. CASE LoadConfig \/ OpenPool
      BY <3>1 DEF LoadConfig, OpenPool
    <3>2. CASE StartServer \/ Listen \/ ListenerFails
      BY <3>2 DEF StartServer, Listen, ListenerFails
    <3>3. CASE Signal \/ Shutdown \/ ClosePool
      BY <3>3 DEF Signal, Shutdown, ClosePool
    <3> QED  BY <1>2, <3>1, <3>2, <3>3
  <2> QED  BY <2>1, <2>2, SameRequests DEF ServerInv
<1> QED  BY <1>1, <1>2 DEF Startup, Stop

-----------------------------------------------------------------------------
\* A request's own step: what it must establish for itself.

\* Nothing changes but for request r, and not where the process is.
OnlyOf(r) ==
    /\ UNCHANGED process
    /\ RequestTable'
    /\ \A t \in Requests \ {r} :
          /\ pc'[t] = pc[t] /\ handler'[t] = handler[t] /\ subject'[t] = subject[t]
          /\ at'[t] = at[t] /\ stored'[t] = stored[t] /\ reply'[t] = reply[t]

\* It is enough to look at that request, and at the pool if it has got a connection.
LEMMA OneRequest ==
    ASSUME ServerInv, NEW r \in Requests, OnlyOf(r), RequestOk(r)',
           proc \notin {"boot", "configured", "pooled"},
           proc = "exited" => pc'[r] \in {"idle", "replied", "lost"},
           pc'[r] = "running" => Cardinality(Running) < MaxConns
    PROVE  ServerInv'
<1> USE DEF ServerInv
<1>1. ProcessOk'
  <2>1. proc = "exited" => \A t \in Requests : pc'[t] \in {"idle", "replied", "lost"}
    BY DEF OnlyOf, ProcessOk
  <2> QED  BY <2>1 DEF OnlyOf, ProcessOk, process, AuthAvailable
<1>2. ConnsOk'
  <2>1. CASE pc'[r] = "running"
    <3>1. Running' = Running \union {r}
      BY <2>1 DEF Running, OnlyOf
    <3>2. Cardinality(Running) \in Nat /\ MaxConns \in Nat
      BY FS_CardinalityType, ServerAssumption DEF ConnsOk
    <3>3. IsFiniteSet(Running') /\ Cardinality(Running') <= Cardinality(Running) + 1
      BY <3>1, <3>2, FS_AddElement DEF ConnsOk
    <3>4. Cardinality(Running') \in Nat
      BY <3>3, FS_CardinalityType
    <3> QED  BY <2>1, <3>2, <3>3, <3>4 DEF ConnsOk
  <2>2. CASE pc'[r] # "running"
    <3>1. Running' \subseteq Running
      BY <2>2 DEF Running, OnlyOf
    <3>2. IsFiniteSet(Running') /\ Cardinality(Running') <= Cardinality(Running)
      BY <3>1, FS_Subset DEF ConnsOk
    <3>3. Cardinality(Running) \in Nat /\ Cardinality(Running') \in Nat /\ MaxConns \in Nat
      BY <3>2, FS_CardinalityType, ServerAssumption DEF ConnsOk
    <3> QED  BY <3>2, <3>3 DEF ConnsOk
  <2> QED  BY <2>1, <2>2
<1>3. ASSUME NEW t \in Requests, t # r
      PROVE  RequestOk(t)'
  BY <1>3 DEF RequestOk, Ahead, AuthAvailable, OnlyOf, process
<1> QED  BY <1>1, <1>2, <1>3 DEF OnlyOf

\* A request arrives, or is turned away.
LEMMA ArriveStep ==
    ASSUME ServerInv, NEW r \in Requests, Arrive(r)
    PROVE  ServerInv'
<1> USE DEF ServerInv
<1>1. /\ listener = "listening" /\ pc[r] = "idle" /\ handler[r] = NULL /\ at[r] = 1
      /\ ~stored[r] /\ reply[r] = NULL
  BY DEF Arrive, TurnAway, Enter, RequestOk
<1>2. AuthAvailable /\ proc \notin {"boot", "configured", "pooled", "exited"}
  BY <1>1 DEF ProcessOk
<1>3. CASE TurnAway(r)
  <2>1. OnlyOf(r) /\ pc'[r] = "decided"
    BY <1>3 DEF TurnAway, Decide, OnlyOf, RequestTable
  <2>2. RequestOk(r)'
    BY <1>1, <1>3, ServerAssumption DEF TurnAway, Decide, RequestOk, RequestTable, Handlers
  <2> QED  BY <1>2, <2>1, <2>2, OneRequest
<1>4. ASSUME NEW h \in Served, NEW s \in Subjects \union {NULL}, Enter(r, h, s)
      PROVE  ServerInv'
  <2>1. OnlyOf(r) /\ pc'[r] = "queued"
    BY <1>4 DEF Enter, OnlyOf, RequestTable
  <2>2. /\ handler'[r] = h /\ subject'[r] = s /\ at'[r] = 1 /\ ~stored'[r]
        /\ reply'[r] = NULL /\ AuthAvailable'
    BY <1>1, <1>2, <1>4 DEF Enter, RequestTable, process, AuthAvailable
  <2>3. h \in Handlers
    BY ServerAssumption
  <2>4. LooksFirst(Body(h))
    BY <2>3, BodyShapes, ShapesLookFirst
  <2>5. h \in Admin => s \in ReviewerSubs
    BY <1>4, <2>3 DEF Enter, Admitted, Admin, Open, Learner
  <2>6. h \in Storing => \E j \in 1 .. Len(Body(h)) : Body(h)[j] \in {"change", "store"}
    BY StoringBodies DEF MustStore
  <2>7. 1 \in 1 .. Len(Body(h))
    BY <2>4 DEF LooksFirst
  <2>8. Ahead(r)'
    BY <2>2, <2>6 DEF Ahead
  <2>9. RequestOk(r)'
    BY <2>1, <2>2, <2>5, <2>7, <2>8, ServerAssumption DEF RequestOk
  <2> QED  BY <1>2, <2>1, <2>9, OneRequest
<1> QED  BY <1>3, <1>4 DEF Arrive

\* Where a request is that a handler has taken.
LEMMA Taken ==
    ASSUME ServerInv, NEW r \in Requests, pc[r] \in {"queued", "running", "decided"}
    PROVE  /\ proc \notin {"boot", "configured", "pooled", "exited"}
           /\ pc[r] # "decided" =>
                 /\ handler[r] \in Served /\ handler[r] \in Handlers
                 /\ at[r] \in 1 .. Len(Body(handler[r])) /\ reply[r] = NULL
                 /\ Ahead(r) /\ LooksFirst(Body(handler[r]))
                 /\ Unit(r) \in Units
<1>1. proc \notin {"boot", "configured", "pooled", "exited"}
  BY DEF ServerInv, ProcessOk
<1>2. ASSUME pc[r] # "decided"
      PROVE  /\ handler[r] \in Served /\ handler[r] \in Handlers
             /\ at[r] \in 1 .. Len(Body(handler[r])) /\ reply[r] = NULL
             /\ Ahead(r)
  BY <1>2, ServerAssumption DEF ServerInv, RequestOk
<1>3. ASSUME pc[r] # "decided"
      PROVE  LooksFirst(Body(handler[r]))
  BY <1>2, <1>3, BodyShapes, ShapesLookFirst
<1>4. ASSUME pc[r] # "decided"
      PROVE  Unit(r) \in Units
  BY <1>2, <1>3, <1>4 DEF LooksFirst, Unit
<1> QED  BY <1>1, <1>2, <1>3, <1>4

\* The pool gives out a connection while it has one.
LEMMA AcquireStep ==
    ASSUME ServerInv, NEW r \in Requests, Acquire(r)
    PROVE  ServerInv'
<1>1. OnlyOf(r) /\ pc'[r] = "running" /\ pc[r] = "queued" /\ Cardinality(Running) < MaxConns
  BY DEF Acquire, OnlyOf, RequestTable, ServerInv
<1>2. RequestOk(r)'
  BY <1>1 DEF Acquire, RequestOk, Ahead, AuthAvailable, process, ServerInv
<1> QED  BY <1>1, <1>2, Taken, OneRequest

\* The reply goes out as it was decided.
LEMMA SendStep ==
    ASSUME ServerInv, NEW r \in Requests, Send(r)
    PROVE  ServerInv'
<1>1. OnlyOf(r) /\ pc'[r] = "replied" /\ pc[r] = "decided"
  BY DEF Send, OnlyOf, RequestTable, ServerInv
<1>2. RequestOk(r)'
  BY <1>1 DEF Send, RequestOk, Ahead, AuthAvailable, process, ServerInv
<1> QED  BY <1>1, <1>2, Taken, OneRequest

\* A reply is decided, with a truth about what is stored.
LEMMA DecideStep ==
    ASSUME ServerInv, NEW r \in Requests, pc[r] \in {"queued", "running"},
           NEW answer \in {"ok", "refused", "error"}, Decide(r, answer),
           UNCHANGED <<process, handler, subject, at>>,
           stored' \in [Requests -> BOOLEAN],
           \A t \in Requests \ {r} : stored'[t] = stored[t],
           answer = "ok" /\ handler[r] \in Storing => stored'[r],
           answer = "refused" => ~stored'[r]
    PROVE  ServerInv'
<1>1. OnlyOf(r) /\ pc'[r] = "decided" /\ reply'[r] = answer
  BY DEF Decide, OnlyOf, RequestTable, ServerInv
<1>2. RequestOk(r)'
  BY <1>1, ServerAssumption DEF RequestOk, AuthAvailable, process, ServerInv
<1> QED  BY <1>1, <1>2, Taken, OneRequest

\* The handler goes on: to a later position, or to a success.
LEMMA GoOnStep ==
    ASSUME ServerInv, NEW r \in Requests, pc[r] \in {"queued", "running"},
           NEW i \in Nat, i > at[r], handler[r] \in Storing => i = at[r] + 1,
           GoOn(r, i), UNCHANGED <<process, handler, subject>>,
           stored' \in [Requests -> BOOLEAN],
           \A t \in Requests \ {r} : stored'[t] = stored[t],
           stored[r] => stored'[r],
           Unit(r) \in {"change", "store"} => stored'[r],
           stored'[r] /\ ~stored[r] => Unit(r) \in Writes,
           handler[r] \in Storing => Unit(r) # "fill"
    PROVE  ServerInv'
<1> DEFINE b == Body(handler[r])
<1>0. /\ handler[r] \in Served /\ at[r] \in 1 .. Len(b) /\ reply[r] = NULL /\ Ahead(r)
      /\ LooksFirst(b) /\ Unit(r) = b[at[r]]
  BY Taken DEF Unit
<1>1. Len(b) \in Nat /\ at[r] \in Nat
  BY <1>0 DEF LooksFirst
<1>2. \A j \in i .. Len(b) : j \in at[r] .. Len(b) /\ j \in 1 .. Len(b) /\ at[r] < j
  BY <1>0, <1>1
<1> HIDE DEF b
<1>3. handler[r] \in Storing => stored'[r] \/ \E j \in i .. Len(b) : b[j] \in {"change", "store"}
  <2> SUFFICES ASSUME handler[r] \in Storing, ~stored'[r]
               PROVE  \E j \in i .. Len(b) : b[j] \in {"change", "store"}
    OBVIOUS
  <2>1. PICK j \in at[r] .. Len(b) : b[j] \in {"change", "store"}
    BY <1>0 DEF Ahead, b
  <2>2. j # at[r]
    BY <1>0, <2>1
  <2> QED  BY <1>1, <2>1, <2>2
<1>4. stored'[r] => \A j \in i .. Len(b) : b[j] \notin Refuses
  <2>1. CASE stored[r]
    BY <1>0, <1>2, <2>1 DEF Ahead, b
  <2>2. CASE stored'[r] /\ ~stored[r]
    BY <1>0, <1>2, <2>2 DEF LooksFirst
  <2> QED  BY <2>1, <2>2
<1>5. CASE i > Len(b)
  <2>1. i .. Len(b) = {}
    BY <1>1, <1>5
  <2>2. Decide(r, "ok") /\ UNCHANGED at
    BY <1>5 DEF GoOn, b
  <2> QED  BY <1>3, <2>1, <2>2, DecideStep
<1>6. CASE ~(i > Len(b))
  <2>1. /\ at' = [at EXCEPT ![r] = i] /\ pc' = [pc EXCEPT ![r] = "queued"]
        /\ UNCHANGED reply
    BY <1>6 DEF GoOn, b
  <2>2. OnlyOf(r) /\ pc'[r] = "queued" /\ at'[r] = i
    BY <2>1 DEF OnlyOf, RequestTable, ServerInv
  <2>3. i \in 1 .. Len(b)
    BY <1>0, <1>1, <1>6
  <2>4. Ahead(r)'
    BY <1>3, <1>4, <2>2 DEF Ahead, b
  <2>5. RequestOk(r)'
    <3>1. handler[r] \in Admin => subject[r] \in ReviewerSubs
      BY DEF ServerInv, RequestOk
    <3>2. handler[r] \in Learner \union Admin => AuthAvailable'
      BY DEF ServerInv, RequestOk, AuthAvailable, process
    <3> QED  BY <1>0, <2>1, <2>2, <2>3, <2>4, <3>1, <3>2, ServerAssumption DEF RequestOk, b
  <2> QED  BY <2>2, <2>5, Taken, OneRequest
<1> QED  BY <1>5, <1>6

\* The statement of a request ends.
LEMMA FinishStep ==
    ASSUME ServerInv, NEW r \in Requests, Finish(r) \/ GiveUp(r)
    PROVE  ServerInv'
<1>0. stored \in [Requests -> BOOLEAN] /\ at[r] \in Nat
  BY DEF ServerInv, RequestTable
<1>1. pc[r] \in {"queued", "running"}
  BY DEF Finish, GiveUp, Succeed, Refuse, Break
<1>2. /\ handler[r] \in Handlers /\ at[r] \in 1 .. Len(Body(handler[r])) /\ Ahead(r)
      /\ LooksFirst(Body(handler[r])) /\ Unit(r) = Body(handler[r])[at[r]]
  BY <1>1, Taken DEF Unit
<1>3. handler[r] \in Storing => Unit(r) # "fill"
  BY <1>2, StoringBodies DEF MustStore
<1>4. ASSUME Give(r), UNCHANGED <<process, handler, subject>>,
             \/ UNCHANGED stored
             \/ Unit(r) \in Writes /\ stored' = [stored EXCEPT ![r] = TRUE]
      PROVE  ServerInv'
  <2>1. CASE Unit(r) = "fill"
    <3>1. GoOn(r, at[r] + 1)
      BY <1>4, <2>1 DEF Give
    <3>2. at[r] + 1 \in Nat /\ at[r] + 1 > at[r] /\ handler[r] \notin Storing
      BY <1>0, <1>3, <2>1
    <3>3. /\ stored' \in [Requests -> BOOLEAN]
          /\ \A t \in Requests \ {r} : stored'[t] = stored[t]
          /\ stored[r] => stored'[r]
      BY <1>0, <1>4
    <3>4. Unit(r) \notin {"change", "store"} /\ Unit(r) \in Writes
      BY <2>1 DEF Writes
    <3> QED  BY <1>1, <1>4, <3>1, <3>2, <3>3, <3>4, GoOnStep
  <2>2. CASE Unit(r) # "fill"
    <3>1. Decide(r, "error") /\ UNCHANGED at
      BY <1>4, <2>2 DEF Give
    <3> QED  BY <1>0, <1>1, <1>4, <3>1, DecideStep
  <2> QED  BY <2>1, <2>2
<1>5. CASE Succeed(r)
  <2>1. PICK i \in Following(handler[r], at[r]) : GoOn(r, i)
    BY <1>5 DEF Succeed
  <2>2. i \in Nat /\ i > at[r] /\ (handler[r] \in Storing => i = at[r] + 1)
    BY <1>0, <1>2, FollowingAhead
  <2>3. /\ stored' = [stored EXCEPT ![r] = stored[r] \/ Unit(r) \in Writes]
        /\ UNCHANGED <<process, handler, subject>>
    BY <1>5 DEF Succeed, Writes
  <2>4. stored' \in [Requests -> BOOLEAN]
    BY <1>0, <2>3
  <2>5. /\ stored'[r] <=> (stored[r] \/ Unit(r) \in Writes)
        /\ \A t \in Requests \ {r} : stored'[t] = stored[t]
    BY <1>0, <2>3
  <2>6. Unit(r) \in {"change", "store"} => Unit(r) \in Writes
    BY DEF Writes
  <2> QED  BY <1>1, <1>3, <2>1, <2>2, <2>3, <2>4, <2>5, <2>6, GoOnStep
<1>6. CASE Refuse(r)
  <2>1. Unit(r) \in Refuses /\ UNCHANGED <<process, handler, subject, at, stored>>
        /\ Decide(r, "refused")
    BY <1>6 DEF Refuse, Refuses
  <2>2. ~stored[r]
    <3>1. at[r] \in at[r] .. Len(Body(handler[r]))
      BY <1>0, <1>2
    <3> QED  BY <1>2, <2>1, <3>1 DEF Ahead
  <2> QED  BY <1>0, <1>1, <2>1, <2>2, DecideStep
<1>7. CASE Break(r)
  BY <1>4, <1>7 DEF Break, Writes
<1>8. CASE GiveUp(r)
  BY <1>4, <1>8 DEF GiveUp
<1> QED  BY <1>5, <1>6, <1>7, <1>8 DEF Finish

\* Every step keeps the invariant.
LEMMA NextServer == ServerInv /\ [Next]_vars => ServerInv'
<1> SUFFICES ASSUME ServerInv, [Next]_vars PROVE ServerInv'
  OBVIOUS
<1>1. CASE UNCHANGED vars
  <2>1. UNCHANGED <<env, request>> /\ UNCHANGED process
    BY <1>1 DEF vars, process
  <2>2. ProcessOk'
    BY <2>1 DEF ServerInv, ProcessOk, process, request, AuthAvailable
  <2> QED  BY <2>1, <2>2, SameRequests DEF ServerInv
<1> QED  BY <1>1, ProcessStep, ArriveStep, AcquireStep, FinishStep, SendStep DEF Next

\* The invariant holds in every reachable state.
LEMMA ServerInvariant == Spec => []ServerInv
BY InitServer, NextServer, PTL DEF Spec

\* Every variable keeps its type, no more requests run than the pool has connections,
\* and a process that has exited has no request under way.
THEOREM ServerTyped == Spec => []TypeOK
BY InvSafe, ServerInvariant, PTL

\* A success of a handler that stores is sent only when its write is committed, and a
\* refusal (4xx) only when nothing is: for whatever pool size, number of requests and
\* mix of handlers, and however many of them fail, time out or are cut off.
THEOREM RepliesTrue == Spec => []RepliesTruthful
BY InvSafe, ServerInvariant, PTL

\* Whatever AUTH_MODE the process is started with, an admin handler stores for reviewers
\* only, and a binary built without dev_auth runs no handler behind the authentication
\* unless tokens are Cognito's (server/server.go:49-70, middleware/auth_dev_disabled.go).
THEOREM RoutesGuarded == Spec => []Guarded
BY InvGuarded, ServerInvariant, PTL

\* A process that exits by itself, at a failed start or after a signal, has no statement
\* running; only a kill cuts one off (main.go: Shutdown, then the pool is closed).
THEOREM LeavesIdle == Spec => ExitWaits
<1>1. ASSUME ServerInv, [Next]_vars, exit' # exit, exit' \in {"clean", "failed"}
      PROVE  Running = {}
  <2>1. \E how \in {"clean", "failed"} :
           /\ End(how)
           /\ Leave \/ proc \in {"boot", "configured", "pooled"}
    BY <1>1 DEF Next, Startup, Stop, LoadConfig, LoadFails, OpenPool, OpenFails, StartServer,
          AuthFails, Listen, ListenerFails, Signal, Shutdown, ClosePool, Leave, Kill, End, Arrive,
          TurnAway, Enter, Acquire, Finish, Succeed, Refuse, Break, GiveUp, Send, vars, process
  <2> QED  BY <1>1, <2>1 DEF Leave, ServerInv, ProcessOk, Running
<1>2. ServerInv /\ [Next]_vars => [exit' \in {"clean", "failed"} => Running = {}]_exit
  BY <1>1
<1> QED  BY <1>2, ServerInvariant, PTL DEF Spec, ExitWaits

-----------------------------------------------------------------------------
\* The cache of keys in the process (auth_cognito.go), which the requests of every route
\* share: JwksCache, with variables of its own next to those of ApiServer.
CONSTANTS Kids, MinRefresh
VARIABLES issued, keys, lastFetched, phase, kid, last, body, during, lastStart, began

Jwks == INSTANCE JwksCache WITH pc <- phase

\* JwksAssumption, for these constants.
CacheAssumption == MinRefresh \in Nat \ {0} /\ NULL \notin Kids

\* What a fetch in progress will answer, or has answered, was issued while it ran.
FetchKnows(r) ==
    /\ phase[r] = "fetching" => issued \subseteq during[r]
    /\ phase[r] = "served" => body[r] \subseteq during[r]

CacheInv == Jwks!TypeOK /\ \A r \in Requests : FetchKnows(r)

\* No fetch has begun.
LEMMA InitCache ==
    ASSUME CacheAssumption, Jwks!Init
    PROVE  CacheInv
BY DEF CacheAssumption, CacheInv, FetchKnows, Jwks!Init, Jwks!TypeOK, Jwks!Ages, Jwks!Phases

\* An age stays an age.
LEMMA OlderAge ==
    ASSUME CacheAssumption, NEW age \in Jwks!Ages
    PROVE  Jwks!Older(age) \in Jwks!Ages
BY DEF CacheAssumption, Jwks!Older, Jwks!Ages

\* A request's steps and the answer it waits for keep the invariant: what is served is what
\* is issued at that moment, and a request that is over has no fetch any more.
LEMMA CacheStep ==
    ASSUME CacheAssumption, CacheInv, NEW r \in Requests,
           \/ \E k \in Kids : Jwks!Lookup(r, k)
           \/ Jwks!Step(r)
           \/ Jwks!Serve(r)
           \/ Jwks!FetchFails(r)
           \/ Jwks!Store(r)
    PROVE  CacheInv'
<1> USE DEF CacheAssumption, CacheInv, FetchKnows, Jwks!TypeOK, Jwks!Ages, Jwks!Phases, Jwks!history
<1>1. ASSUME NEW k \in Kids, Jwks!Lookup(r, k)
      PROVE  CacheInv'
  BY <1>1 DEF Jwks!Lookup, Jwks!Moves
<1>2. CASE Jwks!TooSoon(r)
  BY <1>2 DEF Jwks!TooSoon, Jwks!Returns
<1>3. CASE Jwks!StartFetch(r)
  BY <1>3 DEF Jwks!StartFetch, Jwks!Moves
<1>4. CASE Jwks!LookAgain(r)
  BY <1>4 DEF Jwks!LookAgain, Jwks!Returns
<1>5. CASE Jwks!Reply(r)
  BY <1>5 DEF Jwks!Reply
<1>6. CASE Jwks!Serve(r)
  BY <1>6 DEF Jwks!Serve, Jwks!Moves
<1>7. CASE Jwks!FetchFails(r)
  BY <1>7 DEF Jwks!FetchFails, Jwks!Returns
<1>8. CASE Jwks!Store(r)
  BY <1>8 DEF Jwks!Store, Jwks!Moves
<1> QED  BY <1>1, <1>2, <1>3, <1>4, <1>5, <1>6, <1>7, <1>8 DEF Jwks!Step

\* So do rotations, which every fetch in progress notes, and the clock.
LEMMA NextCache ==
    ASSUME CacheAssumption, CacheInv, [Jwks!Next]_(Jwks!vars)
    PROVE  CacheInv'
<1>1. ASSUME NEW new \in (SUBSET Kids) \ {{}}, Jwks!Rotate(new)
      PROVE  CacheInv'
  BY <1>1 DEF CacheInv, FetchKnows, Jwks!TypeOK, Jwks!Rotate, Jwks!reqs
<1>2. CASE Jwks!Tick
  <2>1. lastFetched' \in Jwks!Ages /\ lastStart' \in Jwks!Ages
    BY <1>2, OlderAge DEF CacheInv, Jwks!TypeOK, Jwks!Tick
  <2>2. last' \in [Requests -> Jwks!Ages]
    BY <1>2, OlderAge DEF CacheInv, Jwks!TypeOK, Jwks!Tick
  <2>3. began' \in [Requests -> Jwks!Ages]
    BY <1>2, OlderAge DEF CacheInv, Jwks!TypeOK, Jwks!Tick
  <2> QED  BY <1>2, <2>1, <2>2, <2>3 DEF CacheInv, FetchKnows, Jwks!TypeOK, Jwks!Tick
<1>3. CASE UNCHANGED Jwks!vars
  BY <1>3 DEF CacheInv, FetchKnows, Jwks!TypeOK, Jwks!vars, Jwks!reqs, Jwks!history
<1> QED  BY <1>1, <1>2, <1>3, CacheStep DEF Jwks!Next

\* The invariant holds in every state.
LEMMA CacheInvariant ==
    ASSUME CacheAssumption
    PROVE  Jwks!Spec => []CacheInv
<1>1. Jwks!Init => CacheInv
  BY InitCache
<1>2. CacheInv /\ [Jwks!Next]_(Jwks!vars) => CacheInv'
  BY NextCache
<1> QED  BY <1>1, <1>2, PTL DEF Jwks!Spec

\* A stored fetch leaves only keys that were issued at some time while it ran, however many
\* fetches overlap and in whatever order their answers are stored: a key that the issuer
\* dropped before is forgotten (auth_cognito.go:101-116).
THEOREM RotatedAwayForgotten ==
    ASSUME CacheAssumption
    PROVE  Jwks!Spec => Jwks!DroppedKeysForgotten
<1>1. ASSUME CacheInv, [Jwks!Next]_(Jwks!vars), NEW r \in Requests,
             phase[r] = "served", phase'[r] = "stored"
      PROVE  keys' \subseteq during[r]
  <2>1. Jwks!Store(r)
    BY <1>1 DEF CacheInv, Jwks!TypeOK, Jwks!Next, Jwks!vars, Jwks!reqs, Jwks!Step, Jwks!Lookup,
       Jwks!TooSoon, Jwks!StartFetch, Jwks!LookAgain, Jwks!Reply, Jwks!Serve, Jwks!FetchFails,
       Jwks!Store, Jwks!Rotate, Jwks!Tick, Jwks!Moves, Jwks!Returns
  <2> QED  BY <1>1, <2>1 DEF CacheInv, FetchKnows, Jwks!Store
<1>2. CacheInv /\ [Jwks!Next]_(Jwks!vars)
      => [\A r \in Requests : phase[r] = "served" /\ phase'[r] = "stored"
             => keys' \subseteq during[r]]_(Jwks!vars)
  BY <1>1
<1> QED  BY <1>2, CacheInvariant, PTL DEF Jwks!Spec, Jwks!DroppedKeysForgotten

\* The time in the cache is no earlier than a request's own last fetch, once that is
\* stored; nor is the time that its lookup has read since.
OwnFetchStored(r) ==
    /\ phase[r] \notin {"fetching", "served"} => lastFetched <= began[r]
    /\ phase[r] = "missed" => last[r] <= began[r]

OwnInv == \A r \in Requests : OwnFetchStored(r)

\* Ages keep their order as they grow.
LEMMA OlderKeepsOrder ==
    ASSUME CacheAssumption, NEW a \in Jwks!Ages, NEW b \in Jwks!Ages, a <= b
    PROVE  Jwks!Older(a) <= Jwks!Older(b)
BY DEF CacheAssumption, Jwks!Older, Jwks!Ages

\* Every step keeps it: a fetch that is stored, whose ever it is and whenever it began,
\* sets the time of its arrival, which is later than every fetch begun so far.
LEMMA OwnStep ==
    ASSUME CacheAssumption, CacheInv, OwnInv, [Jwks!Next]_(Jwks!vars)
    PROVE  OwnInv'
<1> USE DEF OwnInv, OwnFetchStored
<1>0. /\ phase \in [Requests -> Jwks!Phases] /\ last \in [Requests -> Jwks!Ages]
      /\ lastFetched \in Jwks!Ages /\ began \in [Requests -> Jwks!Ages]
      /\ MinRefresh \in Jwks!Ages
      /\ \A age \in Jwks!Ages : age \in Int /\ 0 <= age /\ age <= MinRefresh
  BY DEF CacheInv, CacheAssumption, Jwks!TypeOK, Jwks!Ages
<1>1. ASSUME NEW r \in Requests, NEW k \in Kids, Jwks!Lookup(r, k)
      PROVE  OwnInv'
  BY <1>0, <1>1 DEF Jwks!Lookup, Jwks!Moves, Jwks!history
<1>2. ASSUME NEW r \in Requests, Jwks!Step(r)
      PROVE  OwnInv'
  <2>1. CASE Jwks!StartFetch(r)
    BY <1>0, <2>1 DEF Jwks!StartFetch, Jwks!Moves
  <2>2. CASE Jwks!TooSoon(r) \/ Jwks!LookAgain(r)
    BY <1>0, <2>2 DEF Jwks!TooSoon, Jwks!LookAgain, Jwks!Returns
  <2>3. CASE Jwks!Reply(r)
    BY <1>0, <2>3 DEF Jwks!Reply, Jwks!history
  <2> QED  BY <1>2, <2>1, <2>2, <2>3 DEF Jwks!Step
<1>3. ASSUME NEW r \in Requests, Jwks!Serve(r)
      PROVE  OwnInv'
  BY <1>0, <1>3 DEF Jwks!Serve, Jwks!Moves, Jwks!history
<1>4. ASSUME NEW r \in Requests, Jwks!FetchFails(r)
      PROVE  OwnInv'
  BY <1>0, <1>4 DEF Jwks!FetchFails, Jwks!Returns
<1>5. ASSUME NEW r \in Requests, Jwks!Store(r)
      PROVE  OwnInv'
  BY <1>0, <1>5 DEF Jwks!Store, Jwks!Moves, Jwks!history
<1>6. ASSUME NEW new \in (SUBSET Kids) \ {{}}, Jwks!Rotate(new)
      PROVE  OwnInv'
  BY <1>6 DEF Jwks!Rotate, Jwks!reqs
<1>7. CASE Jwks!Tick
  <2> SUFFICES ASSUME NEW r \in Requests PROVE OwnFetchStored(r)'
    OBVIOUS
  <2>1. began'[r] = Jwks!Older(began[r]) /\ lastFetched' = Jwks!Older(lastFetched)
    BY <1>7 DEF Jwks!Tick
  <2>2. phase[r] \notin {"fetching", "served"} => lastFetched' <= began'[r]
    BY <1>0, <2>1, OlderKeepsOrder
  <2>3. phase[r] = "missed" => last'[r] <= began'[r]
    BY <1>0, <1>7, <2>1, OlderKeepsOrder DEF Jwks!Tick
  <2> QED  BY <1>7, <2>2, <2>3 DEF Jwks!Tick
<1>8. CASE UNCHANGED Jwks!vars
  BY <1>8 DEF Jwks!vars, Jwks!reqs, Jwks!history
<1> QED  BY <1>1, <1>2, <1>3, <1>4, <1>5, <1>6, <1>7, <1>8 DEF Jwks!Next

\* For any number of requests and any interval: fetches of other requests, overlapping
\* with a request's own, stored late or failing, never let it fetch twice within one
\* interval, its failed fetches aside (auth_cognito.go:59-65, 113-116).
THEOREM OwnFetchesKeepApart ==
    ASSUME CacheAssumption
    PROVE  Jwks!Spec => Jwks!OwnFetchesApart
<1>1. Jwks!Init => OwnInv
  BY DEF CacheAssumption, Jwks!Init, OwnInv, OwnFetchStored
<1>2. CacheInv /\ OwnInv /\ [Jwks!Next]_(Jwks!vars) => OwnInv'
  BY OwnStep
<1>3. ASSUME CacheInv, OwnInv, [Jwks!Next]_(Jwks!vars), NEW r \in Requests,
             phase[r] = "missed", phase'[r] = "fetching"
      PROVE  began[r] >= MinRefresh
  <2>1. Jwks!StartFetch(r)
    BY <1>3 DEF CacheInv, Jwks!TypeOK, Jwks!Next, Jwks!vars, Jwks!reqs, Jwks!Step, Jwks!Lookup,
       Jwks!TooSoon, Jwks!StartFetch, Jwks!LookAgain, Jwks!Reply, Jwks!Serve, Jwks!FetchFails,
       Jwks!Store, Jwks!Rotate, Jwks!Tick, Jwks!Moves, Jwks!Returns
  <2>2. last[r] >= MinRefresh /\ last[r] <= began[r]
    BY <1>3, <2>1 DEF OwnInv, OwnFetchStored, Jwks!StartFetch
  <2>3. last[r] \in Int /\ began[r] \in Int /\ MinRefresh \in Int
    BY <1>3 DEF CacheInv, Jwks!TypeOK, Jwks!Ages, CacheAssumption
  <2> QED  BY <2>2, <2>3
<1>4. CacheInv /\ OwnInv /\ [Jwks!Next]_(Jwks!vars)
      => [\A r \in Requests : phase[r] = "missed" /\ phase'[r] = "fetching"
             => began[r] >= MinRefresh]_(Jwks!vars)
  BY <1>3
<1> QED  BY <1>1, <1>2, <1>4, CacheInvariant, PTL DEF Jwks!Spec, Jwks!OwnFetchesApart

\* What keeps two fetches apart: nobody misses while another one misses or fetches,
LoneMiss ==
    \A r, t \in Requests :
        phase[r] \in {"missed", "fetching", "served"} /\ phase[t] = "missed" => r = t

\* and no fetch fails.
NoFailure ==
    \A r \in Requests : phase[r] \in {"fetching", "served"} => phase'[r] # "refused"

\* Then the age a request goes by is that of the cache, which is no older than the last
\* fetch, unless that is still under way.
SpacingInv ==
    /\ \A r \in Requests : phase[r] = "missed" => last[r] = lastFetched
    /\ (\A r \in Requests : phase[r] \notin {"fetching", "served"}) => lastFetched <= lastStart

\* Every step keeps the spacing: a store, the one step that makes the cache younger, finds
\* nobody who has read its age.
LEMMA SpacingStep ==
    ASSUME CacheAssumption, CacheInv, LoneMiss, SpacingInv, NoFailure,
           [Jwks!Next]_(Jwks!vars)
    PROVE  SpacingInv'
<1> USE DEF SpacingInv
<1>0. /\ phase \in [Requests -> Jwks!Phases] /\ last \in [Requests -> Jwks!Ages]
      /\ lastFetched \in Jwks!Ages /\ lastStart \in Jwks!Ages
      /\ \A age \in Jwks!Ages : age \in Int /\ 0 <= age
  BY DEF CacheInv, CacheAssumption, Jwks!TypeOK, Jwks!Ages
<1>1. ASSUME NEW r \in Requests, NEW k \in Kids, Jwks!Lookup(r, k)
      PROVE  SpacingInv'
  BY <1>0, <1>1 DEF Jwks!Lookup, Jwks!Moves, Jwks!history
<1>2. ASSUME NEW r \in Requests, Jwks!Step(r)
      PROVE  SpacingInv'
  <2>1. CASE Jwks!StartFetch(r)
    BY <1>0, <2>1 DEF Jwks!StartFetch, Jwks!Moves
  <2>2. CASE Jwks!TooSoon(r) \/ Jwks!LookAgain(r)
    BY <1>0, <2>2 DEF Jwks!TooSoon, Jwks!LookAgain, Jwks!Returns
  <2>3. CASE Jwks!Reply(r)
    BY <1>0, <2>3 DEF Jwks!Reply, Jwks!history
  <2> QED  BY <1>2, <2>1, <2>2, <2>3 DEF Jwks!Step
<1>3. ASSUME NEW r \in Requests, Jwks!Serve(r)
      PROVE  SpacingInv'
  BY <1>0, <1>3 DEF Jwks!Serve, Jwks!Moves, Jwks!history
<1>4. ASSUME NEW r \in Requests, Jwks!FetchFails(r)
      PROVE  FALSE
  BY <1>0, <1>4 DEF Jwks!FetchFails, Jwks!Returns, NoFailure
<1>5. ASSUME NEW r \in Requests, Jwks!Store(r)
      PROVE  SpacingInv'
  <2>1. \A t \in Requests : phase[t] # "missed"
    BY <1>5 DEF Jwks!Store, Jwks!Moves, LoneMiss
  <2>2. \A t \in Requests : phase'[t] # "missed"
    BY <1>0, <1>5, <2>1 DEF Jwks!Store, Jwks!Moves
  <2>3. lastFetched' = 0 /\ lastStart' = lastStart
    BY <1>5 DEF Jwks!Store, Jwks!history
  <2> QED  BY <1>0, <2>2, <2>3
<1>6. ASSUME NEW new \in (SUBSET Kids) \ {{}}, Jwks!Rotate(new)
      PROVE  SpacingInv'
  BY <1>6 DEF Jwks!Rotate, Jwks!reqs
<1>7. CASE Jwks!Tick
  <2>1. \A r \in Requests : phase'[r] = "missed" => last'[r] = lastFetched'
    BY <1>0, <1>7 DEF Jwks!Tick
  <2>2. ASSUME \A r \in Requests : phase'[r] \notin {"fetching", "served"}
        PROVE  lastFetched' <= lastStart'
    BY <1>0, <1>7, <2>2, OlderKeepsOrder DEF Jwks!Tick
  <2> QED  BY <2>1, <2>2
<1>8. CASE UNCHANGED Jwks!vars
  BY <1>8 DEF Jwks!vars, Jwks!reqs, Jwks!history
<1> QED  BY <1>1, <1>2, <1>3, <1>4, <1>5, <1>6, <1>7, <1>8 DEF Jwks!Next

\* The comment on jwksMinRefreshInterval (auth_cognito.go:29-30) holds as long as no two
\* misses overlap and no fetch fails: the fetches that run jwks_apart finds too close have
\* one of these two causes (auth_cognito.go:59-80, 111-116).
THEOREM LoneFetchesApart ==
    ASSUME CacheAssumption
    PROVE  Jwks!Spec /\ []LoneMiss /\ [][NoFailure]_(Jwks!vars) => Jwks!FetchesApart
<1>1. Jwks!Init => SpacingInv
  BY DEF CacheAssumption, Jwks!Init, SpacingInv
<1>2. CacheInv /\ LoneMiss /\ SpacingInv /\ [NoFailure]_(Jwks!vars) /\ [Jwks!Next]_(Jwks!vars)
      => SpacingInv'
  <2> SUFFICES ASSUME CacheInv, LoneMiss, SpacingInv, [Jwks!Next]_(Jwks!vars),
                      [NoFailure]_(Jwks!vars)
               PROVE  SpacingInv'
    OBVIOUS
  <2>1. CASE NoFailure
    BY <2>1, SpacingStep
  <2>2. CASE UNCHANGED Jwks!vars
    BY <2>2 DEF SpacingInv, Jwks!vars, Jwks!reqs, Jwks!history
  <2> QED  BY <2>1, <2>2
<1>3. ASSUME CacheInv, LoneMiss, SpacingInv, [Jwks!Next]_(Jwks!vars), NEW r \in Requests,
             phase[r] = "missed", phase'[r] = "fetching"
      PROVE  lastStart >= MinRefresh
  <2>1. Jwks!StartFetch(r)
    BY <1>3 DEF CacheInv, Jwks!TypeOK, Jwks!Next, Jwks!vars, Jwks!reqs, Jwks!Step, Jwks!Lookup,
       Jwks!TooSoon, Jwks!StartFetch, Jwks!LookAgain, Jwks!Reply, Jwks!Serve, Jwks!FetchFails,
       Jwks!Store, Jwks!Rotate, Jwks!Tick, Jwks!Moves, Jwks!Returns
  <2>2. \A t \in Requests : phase[t] \notin {"fetching", "served"}
    BY <1>3 DEF LoneMiss
  <2>3. last[r] >= MinRefresh /\ last[r] = lastFetched /\ lastFetched <= lastStart
    BY <1>3, <2>1, <2>2 DEF SpacingInv, Jwks!StartFetch
  <2>4. lastFetched \in Int /\ lastStart \in Int /\ MinRefresh \in Int
    BY <1>3 DEF CacheInv, Jwks!TypeOK, Jwks!Ages, CacheAssumption
  <2> QED  BY <2>3, <2>4
<1>4. CacheInv /\ LoneMiss /\ SpacingInv /\ [Jwks!Next]_(Jwks!vars)
      => [\A r \in Requests : phase[r] = "missed" /\ phase'[r] = "fetching"
             => lastStart >= MinRefresh]_(Jwks!vars)
  BY <1>3
<1> QED  BY <1>1, <1>2, <1>4, CacheInvariant, PTL DEF Jwks!Spec, Jwks!FetchesApart
=============================================================================
