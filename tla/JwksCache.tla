----------------------------- MODULE JwksCache -----------------------------
(***************************************************************************)
(* The JWKS cache of the Cognito middleware (middleware/auth_cognito.go):  *)
(* requests look a key up under the read lock, and one that does not find  *)
(* its kid fetches the key set again, with no lock held, and then replaces *)
(* the cache under the write lock.  The issuer, external, rotates its keys *)
(* and serves the set it has when a request reaches it.                    *)
(*                                                                         *)
(* A moment in time is represented by how long ago it is, up to            *)
(* MinRefresh: the code compares ages with MinRefresh and nothing else, so *)
(* the clock needs no bound.                                               *)
(***************************************************************************)
EXTENDS Naturals

CONSTANTS
    Requests,    \* requests in progress, each carrying one token after another
    Kids,        \* key ids
    MinRefresh,  \* jwksMinRefreshInterval
    NULL

Ages == 0 .. MinRefresh

ASSUME JwksAssumption ==
    /\ MinRefresh \in Nat \ {0}
    /\ NULL \notin Kids

VARIABLES
    issued,      \* the issuer's current kids
    keys,        \* jwksCache.keys: the kids cached
    lastFetched, \* jwksCache.lastFetched, as an age
    pc,
    kid,         \* the kid of each request's token, or NULL
    last,        \* lastFetched as the request's lookup read it, as an age
    body,        \* the key set in its response
    during,      \* history: the kids issued at any time while its fetch ran
    lastStart,   \* history: when a fetch was last begun, as an age
    began        \* history: when each request last began a fetch, failed ones aside, as an age

reqs == <<pc, kid, last, body>>
history == <<during, lastStart, began>>
vars == <<issued, keys, lastFetched, reqs, history>>

Phases == {"idle", "missed", "fetching", "served", "stored", "accepted", "refused"}

Init ==
    /\ issued \in (SUBSET Kids) \ {{}}
    /\ keys = {}
    /\ lastFetched = MinRefresh      \* the zero time
    /\ pc = [r \in Requests |-> "idle"]
    /\ kid = [r \in Requests |-> NULL]
    /\ last = [r \in Requests |-> 0]
    /\ body = [r \in Requests |-> {}]
    /\ during = [r \in Requests |-> {}]
    /\ lastStart = MinRefresh
    /\ began = [r \in Requests |-> MinRefresh]

Moves(r, from, to) == pc[r] = from /\ pc' = [pc EXCEPT ![r] = to]

\* key returns: with the key, or with an error that becomes a 401.
Returns(r, how) ==
    /\ pc' = [pc EXCEPT ![r] = how]
    /\ last' = [last EXCEPT ![r] = 0]
    /\ body' = [body EXCEPT ![r] = {}]
    /\ during' = [during EXCEPT ![r] = {}]
    /\ UNCHANGED <<issued, keys, lastFetched, kid, lastStart>>

-----------------------------------------------------------------------------
\* The first look, under the read lock: the cached key, or lastFetched to go by.
Lookup(r, k) ==
    /\ kid' = [kid EXCEPT ![r] = k]
    /\ \/ /\ k \in keys
          /\ Moves(r, "idle", "accepted")
          /\ UNCHANGED last
       \/ /\ k \notin keys
          /\ Moves(r, "idle", "missed")
          /\ last' = [last EXCEPT ![r] = lastFetched]
    /\ UNCHANGED <<issued, keys, lastFetched, body, history>>

\* The last fetch is too recent to fetch again.
TooSoon(r) ==
    /\ pc[r] = "missed"
    /\ last[r] < MinRefresh
    /\ Returns(r, "refused")
    /\ UNCHANGED began

\* refresh sends the GET.
StartFetch(r) ==
    /\ Moves(r, "missed", "fetching")
    /\ last[r] >= MinRefresh
    /\ lastStart' = 0
    /\ began' = [began EXCEPT ![r] = 0]
    /\ during' = [during EXCEPT ![r] = issued]
    /\ UNCHANGED <<issued, keys, lastFetched, kid, last, body>>

\* The issuer answers with the keys it has at that moment.
Serve(r) ==
    /\ Moves(r, "fetching", "served")
    /\ body' = [body EXCEPT ![r] = issued]
    /\ UNCHANGED <<issued, keys, lastFetched, kid, last, history>>

\* The GET, its status or the parsing fails, or the client's timeout or the request's
\* context ends it: the cache is left as it was, lastFetched too.
FetchFails(r) ==
    /\ pc[r] \in {"fetching", "served"}
    /\ Returns(r, "refused")
    /\ began' = [began EXCEPT ![r] = MinRefresh]

\* Mutant: the fetched keys are added to the cached ones.
StoreMerged(r) ==
    /\ Moves(r, "served", "stored")
    /\ keys' = keys \union body[r]
    /\ lastFetched' = 0
    /\ UNCHANGED <<issued, kid, last, body, history>>

\* Mutant: a cache that has keys is not replaced.
StoreOnce(r) ==
    /\ Moves(r, "served", "stored")
    /\ keys' = IF keys = {} THEN body[r] ELSE keys
    /\ lastFetched' = 0
    /\ UNCHANGED <<issued, kid, last, body, history>>

\* Mutant: the time is taken before the GET.
StoreWithStartTime(r) ==
    /\ Moves(r, "served", "stored")
    /\ keys' = body[r]
    /\ lastFetched' = began[r]
    /\ UNCHANGED <<issued, kid, last, body, history>>

\* The fetched set replaces the cache, under the write lock.
Store(r) ==
    /\ Moves(r, "served", "stored")
    /\ keys' = body[r]
    /\ lastFetched' = 0
    /\ UNCHANGED <<issued, kid, last, body, history>>

\* The second look, in whatever the cache holds by now.
LookAgain(r) ==
    /\ pc[r] = "stored"
    /\ Returns(r, IF kid[r] \in keys THEN "accepted" ELSE "refused")
    /\ UNCHANGED began

\* The response is written; the client may send another token.
Reply(r) ==
    /\ pc[r] \in {"accepted", "refused"}
    /\ pc' = [pc EXCEPT ![r] = "idle"]
    /\ kid' = [kid EXCEPT ![r] = NULL]
    /\ UNCHANGED <<issued, keys, lastFetched, last, body, history>>

\* The issuer changes its keys.
Rotate(new) ==
    /\ new # issued
    /\ issued' = new
    /\ during' = [r \in Requests |->
                     IF pc[r] = "fetching" THEN during[r] \union new ELSE during[r]]
    /\ UNCHANGED <<keys, lastFetched, reqs, lastStart, began>>

Older(age) == IF age < MinRefresh THEN age + 1 ELSE age

\* Time passes.
Tick ==
    /\ lastFetched' = Older(lastFetched)
    /\ last' = [r \in Requests |->
                   IF pc[r] = "missed" THEN Older(last[r]) ELSE last[r]]
    /\ lastStart' = Older(lastStart)
    /\ began' = [r \in Requests |-> Older(began[r])]
    /\ UNCHANGED <<issued, keys, pc, kid, body, during>>

\* What the middleware does by itself once a token has been looked up.
Step(r) == TooSoon(r) \/ StartFetch(r) \/ LookAgain(r) \/ Reply(r)

Next ==
    \/ \E r \in Requests :
          \/ \E k \in Kids : Lookup(r, k)
          \/ Step(r)
          \/ Serve(r)
          \/ FetchFails(r)
          \/ Store(r)
    \/ \E new \in (SUBSET Kids) \ {{}} : Rotate(new)
    \/ Tick

Spec == Init /\ [][Next]_vars

\* Goroutines run and time passes; an issuer that is asked again and again answers
\* some time, and the answer arrives.  Of rotation and of clients nothing is assumed.
FairSpec ==
    /\ Spec
    /\ WF_vars(Tick)
    /\ \A r \in Requests : WF_vars(Step(r)) /\ SF_vars(Serve(r)) /\ SF_vars(Store(r))

-----------------------------------------------------------------------------
TypeOK ==
    /\ issued \in (SUBSET Kids) \ {{}}
    /\ keys \in SUBSET Kids
    /\ lastFetched \in Ages
    /\ pc \in [Requests -> Phases]
    /\ kid \in [Requests -> Kids \union {NULL}]
    /\ last \in [Requests -> Ages]
    /\ body \in [Requests -> SUBSET Kids]
    /\ during \in [Requests -> SUBSET Kids]
    /\ lastStart \in Ages
    /\ began \in [Requests -> Ages]

\* A fetch that is stored leaves in the cache only keys that the issuer still had at
\* some time while that fetch ran: whatever other requests store meanwhile, a key
\* dropped before the fetch began does not survive it (auth_cognito.go:101-116).
DroppedKeysForgotten ==
    [][\A r \in Requests :
          pc[r] = "served" /\ pc'[r] = "stored" => keys' \subseteq during[r]]_vars

\* After a rotation the new key comes to be accepted: if from some time on the issuer
\* keeps the key k and tokens signed with k keep arriving, then tokens signed
\* with k are accepted again and again, late answers of older fetches and the
\* refresh interval notwithstanding (auth_cognito.go:59-72).
RotatedKeyAccepted ==
    \A k \in Kids :
        (<>[](k \in issued) /\ []<>(\E r \in Requests : kid[r] = k))
            => []<>(\E r \in Requests : kid[r] = k /\ pc[r] = "accepted")

\* Who sends one request after another makes the API fetch at most once per interval,
\* fetches that fail aside, however other requests' fetches overlap with its own, are
\* stored late, or fail: so n requests at a time cause no more than n fetches in one
\* interval, which is what is left of the bound the comment on jwksMinRefreshInterval
\* speaks of (auth_cognito.go:29-30, 60, 115).
OwnFetchesApart ==
    [][\A r \in Requests :
          pc[r] = "missed" /\ pc'[r] = "fetching" => began[r] >= MinRefresh]_vars

\* The comment on jwksMinRefreshInterval (auth_cognito.go:29-30): it is the shortest
\* interval between two fetches for an unknown kid.
FetchesApart ==
    [][\A r \in Requests :
          pc[r] = "missed" /\ pc'[r] = "fetching" => lastStart >= MinRefresh]_vars
=============================================================================
