----------------------------- MODULE ListPaging ------------------------------
(***************************************************************************)
(* The three listings that a client reads page by page: the search of      *)
(* published questions, the admin's search of all questions, and the       *)
(* review queue.  Each page is a statement of its own, which goes on after *)
(* the key (created_at, id) that the cursor of the page before carries     *)
(* (internal/paging).  Between the pages of a walk rows appear and         *)
(* disappear.                                                              *)
(***************************************************************************)
EXTENDS Integers, FiniteSets

CONSTANTS
    Ids,         \* row ids, which have a total order
    Times,       \* values of created_at, in microseconds; rows of one insert share one
    AskedLimits, \* what clients pass as limit
    MaxLimit,
    NULL

Keys == [at : Times, id : Ids]

\* What a cursor says: base64 of JSON, with created_at as RFC 3339 text in nanoseconds.
Cursors == [ns : {1000 * t : t \in Times}, id : Ids]

Lists == {"questions", "admin_questions", "review_queue"}

ASSUME PagingAssumption ==
    /\ Ids \subseteq Int /\ Times \subseteq Int /\ IsFiniteSet(Ids)
    /\ AskedLimits \subseteq Int /\ MaxLimit \in Nat \ {0}
    /\ NULL \notin Cursors

VARIABLES
    at,       \* created_at of each row, which no statement writes again
    visible,  \* the rows that meet the listing's conditions now
    list,     \* the listing the client walks through
    phase,    \* how far its walk is
    cursor,   \* next_cursor of its last page, or NULL
    page,     \* its last page
    \* What only properties read:
    seen,     \* the rows of the pages before
    always    \* the rows that have been visible since the walk began

vars == <<at, visible, list, phase, cursor, page, seen, always>>

KeyOf(i) == [at |-> at[i], id |-> i]

\* Mutant: RFC 3339 without a fraction of the second.
EncodeSeconds(k) == [ns |-> 1000000000 * (k.at \div 1000000), id |-> k.id]

\* paging.Encode: the column's microseconds are read into a time.Time, whose text has
\* as many digits as it takes.
Encode(k) == [ns |-> 1000 * k.at, id |-> k.id]

\* paging.Decode, and the parameter of the query, which is in microseconds again.
\* Clients send back cursors that they were given: others are refused, or begin a walk
\* somewhere else.
Decode(c) == [at |-> c.ns \div 1000, id |-> c.id]

-----------------------------------------------------------------------------
\* ORDER BY created_at DESC, id DESC, and ASC.
NewestFirst(k, l) == k.at > l.at \/ (k.at = l.at /\ k.id > l.id)
OldestFirst(k, l) == k.at < l.at \/ (k.at = l.at /\ k.id < l.id)

Precedes(k, l) ==
    IF list = "review_queue" THEN OldestFirst(k, l) ELSE NewestFirst(k, l)

\* Mutant: the decoded cursor is not used.
RestIgnoringCursor(c) == visible

\* Mutant: OFFSET as many rows as the client has been given.
RestByOffset(c) ==
    {i \in visible : Cardinality({j \in visible : Precedes(KeyOf(j), KeyOf(i))})
                         >= Cardinality(seen \union page)}

\* The rows after the cursor: (created_at, id) < ($n, $m), or >.
Rest(c) == {i \in visible : c = NULL \/ Precedes(Decode(c), KeyOf(i))}

\* LIMIT n: the first n of some rows, or all of them if they are no more.
Limited(rows, n, first) ==
    /\ first \subseteq rows
    /\ \A i \in first, j \in rows \ first : Precedes(KeyOf(i), KeyOf(j))
    /\ Cardinality(first) <= n
    /\ Cardinality(first) < n => first = rows

\* The limit of the query string: a negative one is refused, which leaves the walk
\* where it was, any other is clamped to 1 .. MaxLimit.
Accepted(n) == n >= 0
ClampLimit(n) == IF n < 1 THEN 1 ELSE IF n > MaxLimit THEN MaxLimit ELSE n

LastOf(rows, i) == i \in rows /\ \A j \in rows \ {i} : Precedes(KeyOf(j), KeyOf(i))

\* Mutant: the cursor is the key of the last row read, which is not on the page.
PageSkipping(items, n, rows, next) ==
    /\ Limited(items, n, rows)
    /\ IF Cardinality(items) <= n
       THEN next = NULL
       ELSE \E i \in items : LastOf(items, i) /\ next = Encode(KeyOf(i))

\* paging.Page: of the n + 1 rows read, n are returned and the last of them makes
\* the next cursor; fewer are all returned, with none.
Page(items, n, rows, next) ==
    /\ Limited(items, n, rows)
    /\ IF Cardinality(items) <= n
       THEN next = NULL
       ELSE \E i \in rows : LastOf(rows, i) /\ next = Encode(KeyOf(i))

-----------------------------------------------------------------------------
Init ==
    /\ at \in [Ids -> Times]
    /\ visible \in SUBSET Ids
    /\ list \in Lists
    /\ phase = "idle"
    /\ cursor = NULL
    /\ page = {}
    /\ seen = {}
    /\ always = {}

\* A client begins a walk, without a cursor.
Walk(l) ==
    /\ phase # "walking"
    /\ phase' = "walking"
    /\ list' = l
    /\ cursor' = NULL
    /\ page' = {}
    /\ seen' = {}
    /\ always' = visible
    /\ UNCHANGED <<at, visible>>

\* One page: n + 1 rows are read after the cursor.
FetchPage(n) ==
    /\ phase = "walking"
    /\ \E items \in SUBSET visible :
          /\ Limited(Rest(cursor), n + 1, items)
          /\ page' \in SUBSET items
          /\ cursor' \in {Encode(KeyOf(i)) : i \in items} \union {NULL}
          /\ Page(items, n, page', cursor')
    /\ phase' = IF cursor' = NULL THEN "finished" ELSE "walking"
    /\ seen' = seen \union page
    /\ UNCHANGED <<at, visible, list, always>>

SearchQuestions(n)      == list = "questions" /\ FetchPage(ClampLimit(n))
SearchAdminQuestions(n) == list = "admin_questions" /\ FetchPage(ClampLimit(n))
ListReviewQueue(n)      == list = "review_queue" /\ FetchPage(ClampLimit(n))

\* A row is inserted, published, queued or patched into the listing.  created_at is
\* when the transaction that inserted it began, not when the row appears.
Appear(i) ==
    /\ i \notin visible
    /\ visible' = visible \union {i}
    /\ UNCHANGED <<at, list, phase, cursor, page, seen, always>>

\* It is withdrawn, decided, answered or patched out of it.
Disappear(i) ==
    /\ i \in visible
    /\ visible' = visible \ {i}
    /\ always' = always \ {i}
    /\ UNCHANGED <<at, list, phase, cursor, page, seen>>

NextPage ==
    \E n \in AskedLimits :
        /\ Accepted(n)
        /\ \/ SearchQuestions(n)
           \/ SearchAdminQuestions(n)
           \/ ListReviewQueue(n)

Next ==
    \/ \E l \in Lists : Walk(l)
    \/ NextPage
    \/ \E i \in Ids : Appear(i) \/ Disappear(i)

Spec == Init /\ [][Next]_vars

\* A client that goes on asking for the next page.
FairSpec == Spec /\ WF_vars(NextPage)

-----------------------------------------------------------------------------
TypeOK ==
    /\ at \in [Ids -> Times]
    /\ visible \subseteq Ids
    /\ list \in Lists
    /\ phase \in {"idle", "walking", "finished"}
    /\ cursor \in Cursors \union {NULL}
    /\ page \subseteq Ids /\ seen \subseteq Ids
    /\ always \subseteq visible

\* A walk never returns a row twice, even one that went and came back: each page
\* begins strictly after the last (repository/question.go:62), also once its key has
\* been written into a cursor and read again.
NothingTwice == page \intersect seen = {}

\* A walk that has come to a page without a next cursor has returned every row that
\* was there from its beginning to its end, whatever came and went meanwhile, with
\* any number of rows of one created_at, and any limit asked for on each page
\* (internal/paging/paging.go:92-116).
NothingSkipped == phase = "finished" => always \subseteq seen \union page

\* Who goes on asking for the next page of questions comes to the last one, whatever
\* rows come, go and come back meanwhile: no cursor leads back (paging.go:57-65, 111),
\* and what is inserted during a walk that runs towards older rows is behind its
\* cursor, so the rows ahead of it, all inserted or in the course of being inserted
\* when it began, are finitely many, as Ids are.  The review queue runs towards newer
\* ones (repository/admin_review.go:99): each entry queued meanwhile is ahead of the
\* cursor, and while the pipeline queues entries without end, of which Ids has no
\* counterpart, a walk through it need not end.  Of the queue nothing is claimed.
WalkEnds == phase = "walking" /\ list # "review_queue" ~> phase = "finished"
=============================================================================
