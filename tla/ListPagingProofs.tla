-------------------------- MODULE ListPagingProofs ---------------------------
(***************************************************************************)
(* Walking through a listing page by page, for any set of rows, any        *)
(* created_at they share, and any limits.                                  *)
(***************************************************************************)
EXTENDS ListPaging, FiniteSetTheorems, TLAPS

Given == seen \union page

\* The cursor of a walk is behind every row it has returned ...
GivenBehind ==
    phase = "walking" =>
        /\ cursor = NULL => Given = {}
        /\ cursor # NULL => \A i \in Given : ~Precedes(Decode(cursor), KeyOf(i))

\* ... and before every lasting row that it has not.
RestAhead ==
    phase = "walking" /\ cursor # NULL =>
        \A i \in always : i \in Given \/ Precedes(Decode(cursor), KeyOf(i))

WalkInv == TypeOK /\ GivenBehind /\ RestAhead /\ NothingTwice /\ NothingSkipped

-----------------------------------------------------------------------------
\* (created_at, id) is a total order, in both directions.
LEMMA PrecedesOrder ==
    /\ \A k \in Keys : ~Precedes(k, k)
    /\ \A k, l \in Keys : k = l \/ Precedes(k, l) \/ Precedes(l, k)
    /\ \A k, l, m \in Keys : Precedes(k, l) /\ Precedes(l, m) => Precedes(k, m)
<1>1. Times \subseteq Int /\ Ids \subseteq Int
  BY PagingAssumption
<1>2. \A k, l \in Keys : k.at = l.at /\ k.id = l.id => k = l
  BY DEF Keys
<1>3. \A k \in Keys : k.at \in Int /\ k.id \in Int
  BY <1>1 DEF Keys
<1> QED  BY <1>2, <1>3 DEF Precedes, NewestFirst, OldestFirst

LEMMA Asymmetric ==
    \A k, l \in Keys : Precedes(k, l) => ~Precedes(l, k)
BY PrecedesOrder

LEMMA KeyTyped == ASSUME TypeOK, NEW i \in Ids PROVE KeyOf(i) \in Keys
BY DEF TypeOK, KeyOf, Keys

\* A cursor loses nothing of the key it is made of.
LEMMA CursorKeepsKey ==
    ASSUME NEW k \in Keys
    PROVE  Encode(k) \in Cursors /\ Encode(k) # NULL /\ Decode(Encode(k)) = k
<1>1. k.at \in Times /\ k.at \in Int /\ k.id \in Ids /\ k = [at |-> k.at, id |-> k.id]
  BY PagingAssumption DEF Keys
<1>2. (1000 * k.at) \div 1000 = k.at
  BY <1>1
<1>3. Encode(k) \in Cursors
  BY <1>1 DEF Encode, Cursors
<1> QED  BY <1>1, <1>2, <1>3, PagingAssumption DEF Encode, Decode

LEMMA CursorTyped == \A c \in Cursors : Decode(c) \in Keys
<1> SUFFICES ASSUME NEW c \in Cursors PROVE Decode(c) \in Keys
  OBVIOUS
<1>1. PICK t \in Times : c.ns = 1000 * t
  BY DEF Cursors
<1>2. (1000 * t) \div 1000 = t
  BY PagingAssumption
<1> QED  BY <1>1, <1>2 DEF Decode, Cursors, Keys

\* What is behind the cursor is behind what is ahead of it.
LEMMA BehindAhead ==
    ASSUME NEW k \in Keys, NEW l \in Keys, NEW c \in Keys,
           ~Precedes(c, k), Precedes(c, l)
    PROVE  Precedes(k, l)
<1>1. k = c \/ Precedes(k, c)
  BY PrecedesOrder
<1> QED  BY <1>1, PrecedesOrder

LEMMA LimitClamped == \A n \in AskedLimits : ClampLimit(n) \in Nat \ {0}
BY PagingAssumption DEF ClampLimit

\* A page without a next cursor is all that was left (the row read beyond it).
LEMMA LastPageWhole ==
    ASSUME NEW n \in Nat, NEW rest, IsFiniteSet(rest), NEW items, NEW rows,
           Limited(rest, n + 1, items), Limited(items, n, rows), Cardinality(items) <= n
    PROVE  rows = rest
<1>1. IsFiniteSet(items) /\ Cardinality(items) \in Nat
  BY FS_Subset, FS_CardinalityType DEF Limited
<1>2. items = rest
  BY <1>1 DEF Limited
<1>3. IsFiniteSet(rows) /\ Cardinality(rows) \in Nat /\ Cardinality(rows) <= Cardinality(items)
  BY <1>1, FS_Subset, FS_CardinalityType DEF Limited
<1>4. CASE Cardinality(rows) < n
  BY <1>2, <1>4 DEF Limited
<1>5. CASE Cardinality(rows) >= n
  <2>1. Cardinality(rows) = Cardinality(items)
    BY <1>1, <1>3, <1>5
  <2> QED  BY <1>1, <1>2, <2>1, FS_Subset DEF Limited
<1> QED  BY <1>3, <1>4, <1>5

-----------------------------------------------------------------------------
LEMMA PageKeeps ==
    ASSUME WalkInv, NEW n \in Nat \ {0}, FetchPage(n)
    PROVE  WalkInv'
<1> USE DEF WalkInv
<1>1. PICK items \in SUBSET visible :
          /\ Limited(Rest(cursor), n + 1, items)
          /\ page' \in SUBSET items
          /\ cursor' \in {Encode(KeyOf(i)) : i \in items} \union {NULL}
          /\ Page(items, n, page', cursor')
  BY DEF FetchPage
<1>2. /\ UNCHANGED <<at, visible, list, always>> /\ seen' = Given
      /\ phase = "walking" /\ phase' = IF cursor' = NULL THEN "finished" ELSE "walking"
  BY DEF FetchPage, Given
<1>3. /\ visible \subseteq Ids /\ always \subseteq visible /\ Given \subseteq Ids
      /\ IsFiniteSet(Rest(cursor)) /\ Rest(cursor) \subseteq visible
  <2>1. visible \subseteq Ids /\ always \subseteq visible /\ Given \subseteq Ids
    BY DEF TypeOK, Given
  <2>2. Rest(cursor) \subseteq visible
    BY DEF Rest
  <2> QED  BY <2>1, <2>2, FS_Subset, PagingAssumption
<1>4. /\ Limited(items, n, page') /\ page' \subseteq items /\ items \subseteq Rest(cursor)
  BY <1>1 DEF Page, Limited
<1>5. \A i \in Ids : /\ KeyOf(i) \in Keys /\ Encode(KeyOf(i)) \in Cursors
                   /\ Encode(KeyOf(i)) # NULL /\ Decode(Encode(KeyOf(i))) = KeyOf(i)
  BY KeyTyped, CursorKeepsKey
<1>6. TypeOK'
  BY <1>1, <1>2, <1>3, <1>4, <1>5 DEF TypeOK
\* What the page returns is ahead of the old cursor, what was returned is not.
<1>7. \A i \in Given : i \notin Rest(cursor)
  <2>1. CASE cursor = NULL
    BY <1>2, <2>1 DEF GivenBehind
  <2>2. CASE cursor # NULL
    BY <1>2, <2>2 DEF GivenBehind, Rest
  <2> QED  BY <2>1, <2>2
<1>8. \A i \in always : i \in Given \/ i \in Rest(cursor)
  <2>1. CASE cursor = NULL
    BY <1>3, <2>1 DEF Rest
  <2>2. CASE cursor # NULL
    BY <1>2, <1>3, <2>2 DEF RestAhead, Rest
  <2> QED  BY <2>1, <2>2
<1>9. NothingTwice'
  BY <1>2, <1>4, <1>7 DEF NothingTwice
<1>10. CASE cursor' = NULL
  <2>1. Cardinality(items) <= n
    <3> SUFFICES ASSUME ~(Cardinality(items) <= n) PROVE FALSE
      OBVIOUS
    <3>1. PICK i \in page' : cursor' = Encode(KeyOf(i))
      BY <1>1 DEF Page, LastOf
    <3> QED  BY <1>3, <1>4, <1>5, <1>10, <3>1
  <2>2. page' = Rest(cursor)
    BY <1>1, <1>3, <1>4, <2>1, LastPageWhole
  <2>3. NothingSkipped'
    BY <1>2, <1>8, <2>2 DEF NothingSkipped
  <2> QED  BY <1>2, <1>6, <1>9, <1>10, <2>3 DEF GivenBehind, RestAhead
<1>11. CASE cursor' # NULL
  <2>1. PICK l \in page' : LastOf(page', l) /\ cursor' = Encode(KeyOf(l))
    BY <1>1, <1>11 DEF Page, LastOf
  <2>2. /\ l \in Ids /\ l \in Rest(cursor) /\ KeyOf(l) \in Keys
        /\ Decode(cursor') = KeyOf(l)
    BY <1>3, <1>4, <1>5, <2>1
  <2>3. \A i \in page' : ~Precedes(KeyOf(l), KeyOf(i))
    <3> SUFFICES ASSUME NEW i \in page' PROVE ~Precedes(KeyOf(l), KeyOf(i))
      OBVIOUS
    <3>1. KeyOf(i) \in Keys
      BY <1>3, <1>4, <1>5
    <3>2. CASE i = l
      BY <2>2, <3>2, PrecedesOrder
    <3>3. CASE i # l
      BY <2>1, <2>2, <3>1, <3>3, Asymmetric DEF LastOf
    <3> QED  BY <3>2, <3>3
  <2>4. \A i \in Given : ~Precedes(KeyOf(l), KeyOf(i))
    <3> SUFFICES ASSUME NEW i \in Given PROVE ~Precedes(KeyOf(l), KeyOf(i))
      OBVIOUS
    <3>1. cursor # NULL /\ ~Precedes(Decode(cursor), KeyOf(i))
      BY <1>2 DEF GivenBehind
    <3>2. Decode(cursor) \in Keys /\ Precedes(Decode(cursor), KeyOf(l)) /\ KeyOf(i) \in Keys
      BY <1>3, <1>5, <2>2, <3>1, CursorTyped DEF Rest, TypeOK
    <3>3. Precedes(KeyOf(i), KeyOf(l))
      BY <2>2, <3>1, <3>2, BehindAhead
    <3> QED  BY <2>2, <3>2, <3>3, Asymmetric
  <2>5. \A i \in Rest(cursor) : i \in page' \/ Precedes(KeyOf(l), KeyOf(i))
    <3> SUFFICES ASSUME NEW i \in Rest(cursor), i \notin page'
                 PROVE  Precedes(KeyOf(l), KeyOf(i))
      OBVIOUS
    <3>1. CASE i \in items
      BY <1>4, <2>1, <3>1 DEF Limited
    <3>2. CASE i \notin items
      BY <1>1, <1>4, <2>1, <3>2 DEF Limited
    <3> QED  BY <3>1, <3>2
  <2>6. \A i : KeyOf(i)' = KeyOf(i)
    BY <1>2 DEF KeyOf
  <2>7. GivenBehind'
    BY <1>2, <1>3, <1>4, <1>11, <2>2, <2>3, <2>4, <2>6 DEF GivenBehind, Given, Precedes
  <2>8. RestAhead'
    BY <1>2, <1>8, <1>11, <2>2, <2>5, <2>6 DEF RestAhead, Given, Precedes
  <2>9. NothingSkipped'
    BY <1>2, <1>11 DEF NothingSkipped
  <2> QED  BY <1>6, <1>9, <2>7, <2>8, <2>9
<1> QED  BY <1>10, <1>11

LEMMA WalkKeeps ==
    ASSUME WalkInv, NEW l \in Lists, Walk(l)
    PROVE  WalkInv'
BY DEF WalkInv, Walk, TypeOK, GivenBehind, RestAhead, Given, NothingTwice, NothingSkipped

LEMMA RowsKeep ==
    ASSUME WalkInv, NEW i \in Ids, Appear(i) \/ Disappear(i)
    PROVE  WalkInv'
<1> USE DEF WalkInv, Appear, Disappear
<1>1. UNCHANGED <<at, list, phase, cursor, page, seen>> /\ always' \subseteq always
  OBVIOUS
<1>2. TypeOK'
  BY DEF TypeOK
<1>3. GivenBehind' /\ RestAhead'
  BY <1>1 DEF GivenBehind, RestAhead, Given, Precedes, KeyOf
<1>4. NothingTwice' /\ NothingSkipped'
  BY <1>1 DEF NothingTwice, NothingSkipped
<1> QED  BY <1>2, <1>3, <1>4

LEMMA InitWalk == Init => WalkInv
BY DEF Init, WalkInv, TypeOK, GivenBehind, RestAhead, NothingTwice, NothingSkipped

LEMMA NextWalk == WalkInv /\ [Next]_vars => WalkInv'
<1> SUFFICES ASSUME WalkInv, [Next]_vars PROVE WalkInv'
  OBVIOUS
<1>1. CASE \E l \in Lists : Walk(l)
  BY <1>1, WalkKeeps
<1>2. CASE NextPage
  <2>1. PICK n \in AskedLimits : FetchPage(ClampLimit(n))
    BY <1>2 DEF NextPage, SearchQuestions, SearchAdminQuestions, ListReviewQueue
  <2> QED  BY <2>1, LimitClamped, PageKeeps
<1>3. CASE \E i \in Ids : Appear(i) \/ Disappear(i)
  BY <1>3, RowsKeep
<1>4. CASE UNCHANGED vars
  BY <1>4 DEF vars, WalkInv, TypeOK, GivenBehind, RestAhead, Given, Precedes, KeyOf,
              NothingTwice, NothingSkipped
<1> QED  BY <1>1, <1>2, <1>3, <1>4 DEF Next

\* Whatever rows come, go and come back between two pages, and whatever limits are asked
\* for: no row is on two pages of one walk (the keyset condition of the three queries).
THEOREM NoRowTwice == Spec => []NothingTwice
<1>1. WalkInv => NothingTwice
  BY DEF WalkInv
<1> QED  BY <1>1, InitWalk, NextWalk, PTL DEF Spec

\* However many rows there are and whatever created_at they share: a walk that has come
\* to its end has returned every lasting row (internal/paging and its three users).
THEOREM WalkIsComplete == Spec => []NothingSkipped
<1>1. WalkInv => NothingSkipped
  BY DEF WalkInv
<1> QED  BY <1>1, InitWalk, NextWalk, PTL DEF Spec
=============================================================================
