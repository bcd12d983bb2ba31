---------------------------- MODULE Pages_proofs ----------------------------
(***************************************************************************)
(* Proofs about Pages, for any rows, times and limits.  The first part is  *)
(* about sorting: a finite set of rows has a row at each index, and a page *)
(* of a page keeps its order.  The second part is the walk: what was shown *)
(* does not come after the cursor ("ShownIsPassed"), and what is due comes *)
(* after it, unless a cursor was made of it ("DueIsAhead").                *)
(***************************************************************************)
EXTENDS Pages, FiniteSetTheorems, TLAPS

\* What can be compared: rows and cursors.
Entry == [at : Nat, part : Nat, id : Nat]

IdsAreUnique(S) == \A q, r \in S : q.id = r.id => q = r

Sortable(S) == S \subseteq Entry /\ IsFiniteSet(S) /\ IdsAreUnique(S)

Excused(r) == r \in cut \/ (list = "assignments" /\ \E s \in cut : s.at = r.at)

Fresh == walk = "start" => shown = {} /\ ~again

ShownIsPassed == walk = "walking" /\ ~restarted => \A r \in shown : ~Ahead(cursor, r)

DueIsAhead ==
  walk # "start" =>
    \A r \in due \ shown : Excused(r) \/ (walk = "walking" /\ Ahead(cursor, r))

PagesInv ==
  /\ PagesTypeOK
  /\ IdsAreUnique(rows)
  /\ Fresh
  /\ ShownIsPassed
  /\ DueIsAhead
  /\ NothingIsShownTwice

-----------------------------------------------------------------------------
(* The order of a list.                                                    *)

LEMMA EntriesAreComparable ==
  /\ Row \subseteq Entry /\ Cursor \subseteq Entry
  /\ Row \subseteq Cursor
  /\ NoCursor \notin Cursor
  /\ \A c \in Cursor : c.id > 0
<1>1. RowIds \subseteq Nat /\ 0 \notin RowIds /\ Seconds \subseteq Nat /\ Fractions \subseteq Nat
  BY PagesAssumption
<1>2. Row \subseteq Entry
  <2>1. ASSUME NEW r \in Row PROVE r \in Entry
    BY <1>1 DEF Row, Entry
  <2> QED
    BY <2>1
<1>3. Cursor \subseteq Entry
  <2> SUFFICES ASSUME NEW c \in Cursor PROVE c \in Entry
    OBVIOUS
  <2>1. /\ c.at \in Seconds /\ c.part \in Fractions \cup {0} /\ c.id \in RowIds
        /\ c = [at |-> c.at, part |-> c.part, id |-> c.id]
    BY DEF Cursor
  <2>2. c.at \in Nat /\ c.part \in Nat /\ c.id \in Nat
    BY <1>1, <2>1
  <2> QED
    BY <2>1, <2>2 DEF Entry
<1>4. Row \subseteq Cursor
  BY DEF Row, Cursor
<1>5. \A c \in Cursor : c.id > 0
  <2> SUFFICES ASSUME NEW c \in Cursor PROVE c.id > 0
    OBVIOUS
  <2>1. c.id \in RowIds
    BY DEF Cursor
  <2>2. c.id \in Nat /\ c.id # 0
    BY <1>1, <2>1
  <2> QED
    BY <2>2
<1>6. NoCursor \notin Cursor
  BY <1>5 DEF NoCursor
<1> QED
  BY <1>2, <1>3, <1>4, <1>5, <1>6

LEMMA AheadIsTransitive ==
  ASSUME NEW q \in Entry, NEW r \in Entry, NEW s \in Entry, Ahead(q, r), Ahead(r, s)
  PROVE  Ahead(q, s)
  BY DEF Ahead, Below, Entry

LEMMA AheadIsStrict ==
  ASSUME NEW q \in Entry, NEW r \in Entry, Ahead(q, r)
  PROVE  ~Ahead(r, q) /\ q # r
  BY DEF Ahead, Below, Entry

LEMMA AheadIsTotal ==
  ASSUME NEW S, Sortable(S), NEW q \in S, NEW r \in S, q # r
  PROVE  Ahead(q, r) \/ Ahead(r, q)
<1>1. q \in Entry /\ r \in Entry /\ q.id # r.id
  BY DEF Sortable, IdsAreUnique
<1> QED
  BY <1>1 DEF Ahead, Below, Entry

LEMMA SortableSubset ==
  ASSUME NEW S, Sortable(S), NEW T \in SUBSET S
  PROVE  Sortable(T)
  BY FS_Subset DEF Sortable, IdsAreUnique

-----------------------------------------------------------------------------
(* Indices.                                                                *)

LEMMA IndexType ==
  ASSUME NEW S, Sortable(S), NEW r \in S
  PROVE  /\ Cardinality(S) \in Nat
         /\ Index(r, S) \in Nat /\ Index(r, S) < Cardinality(S)
         /\ IsFiniteSet({q \in S : Ahead(q, r)})
<1> DEFINE before == {q \in S : Ahead(q, r)}
<1>1. IsFiniteSet(S \ {r}) /\ Cardinality(S \ {r}) = Cardinality(S) - 1
  BY FS_RemoveElement DEF Sortable
<1>2. before \subseteq S \ {r}
  BY AheadIsStrict DEF Sortable
<1>3. IsFiniteSet(before) /\ Cardinality(before) <= Cardinality(S \ {r})
  BY <1>1, <1>2, FS_Subset
<1>4. Cardinality(before) \in Nat /\ Cardinality(S) \in Nat
  BY <1>3, FS_CardinalityType DEF Sortable
<1> QED
  BY <1>1, <1>3, <1>4 DEF Index

LEMMA AheadHasLessIndex ==
  ASSUME NEW S, Sortable(S), NEW q \in S, NEW r \in S, Ahead(q, r)
  PROVE  Index(q, S) < Index(r, S)
<1> DEFINE Before(x) == {p \in S : Ahead(p, x)}
<1>1. Before(q) \subseteq Before(r)
  BY AheadIsTransitive DEF Sortable
<1>2. q \in Before(r) /\ q \notin Before(q)
  BY AheadIsStrict DEF Sortable
<1>3. IsFiniteSet(Before(r)) /\ Cardinality(Before(r)) \in Nat /\ Cardinality(Before(q)) \in Nat
  BY IndexType DEF Index
<1>4. Cardinality(Before(q)) <= Cardinality(Before(r))
      /\ Cardinality(Before(q)) # Cardinality(Before(r))
  BY <1>1, <1>2, <1>3, FS_Subset
<1> QED
  BY <1>3, <1>4 DEF Index

LEMMA IndexOrder ==
  ASSUME NEW S, Sortable(S), NEW q \in S, NEW r \in S
  PROVE  /\ Ahead(q, r) <=> Index(q, S) < Index(r, S)
         /\ Index(q, S) = Index(r, S) => q = r
<1>1. Index(q, S) \in Nat /\ Index(r, S) \in Nat
  BY IndexType
<1>2. CASE q = r
  BY <1>1, <1>2, AheadIsStrict DEF Sortable
<1>3. CASE q # r
  BY <1>1, <1>3, AheadIsTotal, AheadHasLessIndex
<1> QED
  BY <1>2, <1>3

LEMMA IndexExists ==
  ASSUME NEW S, Sortable(S), NEW i \in Nat, i < Cardinality(S)
  PROVE  \E r \in S : Index(r, S) = i
<1> DEFINE T == 0 .. Cardinality(S) - 1
           f == [r \in S |-> Index(r, S)]
<1>1. Cardinality(S) \in Nat /\ i \in T
  BY FS_CardinalityType DEF Sortable
<1>2. IsFiniteSet(T) /\ Cardinality(T) = Cardinality(S)
  BY <1>1, FS_Interval
<1>3. f \in Injection(S, T)
  <2>1. \A r \in S : Index(r, S) \in Nat /\ Index(r, S) < Cardinality(S)
    BY IndexType
  <2>3. f \in [S -> T]
    BY <1>1, <2>1
  <2>2. \A q, r \in S : f[q] = f[r] => q = r
    BY IndexOrder
  <2> QED
    BY <2>2, <2>3 DEF Injection, IsInjective
<1>4. f \in Surjection(S, T)
  BY <1>2, <1>3, FS_Injection
<1> QED
  BY <1>1, <1>4 DEF Surjection

\* The rows that come before some row, counted, are as many as its index says.
LEMMA IndexInSlice ==
  ASSUME NEW S, Sortable(S), NEW from \in Nat, NEW n \in Nat, NEW r \in Slice(S, from, n)
  PROVE  Index(r, S) = from + Index(r, Slice(S, from, n))
<1> DEFINE P == Slice(S, from, n)
           early == {q \in S : Index(q, S) < from}
           before == {q \in S : Ahead(q, r)}
           near == {q \in P : Ahead(q, r)}
<1>1. r \in S /\ from <= Index(r, S) /\ Index(r, S) < from + n
      /\ Index(r, S) \in Nat /\ Index(r, S) < Cardinality(S) /\ Cardinality(S) \in Nat
  BY IndexType DEF Slice
<1>2. PICK m \in S : Index(m, S) = from
  BY <1>1, IndexExists
<1>3. early = {q \in S : Ahead(q, m)}
  BY <1>2, IndexOrder
<1>4. Cardinality(early) = from
  BY <1>2, <1>3 DEF Index
<1>5. \A q \in S : Index(q, S) \in Nat
  BY IndexType
<1>6. before = early \cup near /\ early \cap near = {}
  <2>1. \A q \in S : Ahead(q, r) <=> Index(q, S) < Index(r, S)
    BY <1>1, IndexOrder
  <2> QED
    BY <1>1, <1>5, <2>1 DEF Slice
<1>7. IsFiniteSet(early) /\ IsFiniteSet(near)
  <2>1. early \subseteq S /\ near \subseteq S
    BY DEF Slice
  <2> QED
    BY <2>1, FS_Subset DEF Sortable
<1>8. Cardinality(before) = Cardinality(early) + Cardinality(near) - Cardinality({})
  BY <1>6, <1>7, FS_Union
<1>9. Cardinality(near) \in Nat /\ Cardinality({}) = 0
  BY <1>7, FS_CardinalityType, FS_EmptySet
<1> QED
  BY <1>4, <1>8, <1>9 DEF Index

\* What trimPage makes of LIMIT limit + 1: the page, and the row after it.
LEMMA TrimmedPage ==
  ASSUME NEW S, Sortable(S), NEW from \in Nat, NEW limit \in Nat,
         NEW page, page = trimPage(Slice(S, from, limit + 1), limit)
  PROVE  /\ page.items = Slice(S, from, limit)
         /\ \/ /\ page.cut = {} /\ page.next = NoCursor
               /\ \A r \in S : Index(r, S) < from + limit
            \/ \E f \in S : /\ Index(f, S) = from + limit
                            /\ page.cut = {f} /\ page.next = Position(f)
<1> DEFINE P == Slice(S, from, limit + 1)
           rest == {r \in P : Index(r, P) = limit}
<1>1. P \subseteq S /\ Sortable(P)
  BY SortableSubset DEF Slice
<1>2. \A r \in P : Index(r, S) = from + Index(r, P) /\ Index(r, P) \in Nat
  <2>1. limit + 1 \in Nat
    OBVIOUS
  <2>2. \A r \in P : Index(r, S) = from + Index(r, P)
    BY <2>1, IndexInSlice
  <2>3. \A r \in P : Index(r, P) \in Nat
    BY <1>1, IndexType
  <2> QED
    BY <2>2, <2>3
<1>3. \A r \in S : Index(r, S) \in Nat /\ Index(r, S) < Cardinality(S) /\ Cardinality(S) \in Nat
  BY IndexType
<1>4. page = [items |-> Slice(P, 0, limit), cut |-> rest,
              next |-> IF rest = {} THEN NoCursor ELSE Position(CHOOSE r \in rest : TRUE)]
  BY DEF trimPage
<1>5. page.items = Slice(S, from, limit)
  <2>1. \A r \in P : Index(r, P) < limit <=> Index(r, S) < from + limit
    BY <1>2
  <2>2. Slice(P, 0, limit) = {r \in P : Index(r, P) < limit}
    BY <1>2 DEF Slice
  <2>3. Slice(S, from, limit) = {r \in P : Index(r, S) < from + limit}
    BY <1>3 DEF Slice
  <2> QED
    BY <1>4, <2>1, <2>2, <2>3
<1>6. rest = {r \in S : Index(r, S) = from + limit}
  BY <1>2, <1>3 DEF Slice
<1>7. CASE rest = {}
  <2>1. \A r \in S : Index(r, S) < from + limit
    <3> SUFFICES ASSUME NEW r \in S, Index(r, S) >= from + limit PROVE FALSE
      BY <1>3
    <3>1. from + limit < Cardinality(S)
      BY <1>3
    <3> QED
      BY <1>6, <1>7, <3>1, IndexExists
  <2> QED
    BY <1>4, <1>5, <1>7, <2>1
<1>8. CASE rest # {}
  <2>1. PICK f \in rest : TRUE
    BY <1>8
  <2>2. rest = {f}
    BY <1>6, <2>1, IndexOrder
  <2>3. page.next = Position(f)
    BY <1>4, <2>2
  <2> QED
    BY <1>4, <1>5, <1>6, <2>2, <2>3
<1> QED
  BY <1>7, <1>8
-----------------------------------------------------------------------------
(* Responses.                                                              *)

\* A cursor with no fraction of a second may lie past rows of the same second, and past no
\* others.
LEMMA PositionOfRow ==
  ASSUME NEW f \in Row
  PROVE  /\ Position(f) \in Cursor /\ Position(f) # NoCursor
         /\ \A r \in Entry : Ahead(r, f) => ~Ahead(Position(f), r)
         /\ \A c \in Entry : Ahead(c, f) => Ahead(c, Position(f))
         /\ \A r \in Entry : Ahead(f, r) =>
              Ahead(Position(f), r) \/ (list = "assignments" /\ r.at = f.at)
<1>1. /\ f.at \in Seconds /\ f.part \in Fractions /\ f.id \in RowIds
      /\ f = [at |-> f.at, part |-> f.part, id |-> f.id]
  BY DEF Row
<1>2. f \in Entry /\ f.at \in Nat /\ f.part \in Nat /\ f.id \in Nat
  BY EntriesAreComparable DEF Entry
<1>3. CASE list # "assignments"
  <2>1. Position(f) = f
    BY <1>3 DEF Position
  <2> QED
    BY <1>2, <2>1, EntriesAreComparable, AheadIsStrict
<1>4. CASE list = "assignments"
  <2>1. Position(f) = [at |-> f.at, part |-> 0, id |-> f.id]
    BY <1>1, <1>4 DEF Position, assignmentFromRow
  <2>2. Position(f) \in Cursor /\ Position(f) # NoCursor
    BY <1>1, <2>1, EntriesAreComparable DEF Cursor
  <2> QED
    BY <1>2, <1>4, <2>1, <2>2 DEF Ahead, Below, Entry
<1> QED
  BY <1>3, <1>4

\* What a page must be for the walk to go on as it should: it starts after the cursor, ends
\* at the next one, and leaves nothing out but what it made a cursor of.
LEMMA ResponseStep ==
  ASSUME PagesInv, NEW page, NEW offset, walk \in {"start", "walking"}, Respond(page, offset),
         page.items \subseteq Row, page.cut \subseteq Row,
         page.next \in Cursor \cup {NoCursor},
         restarted' \in BOOLEAN, restarted => restarted',
         ~restarted' /\ walk = "walking" =>
           /\ \A r \in page.items : Ahead(cursor, r)
           /\ page.next # NoCursor => Ahead(cursor, page.next),
         page.next # NoCursor => \A r \in page.items : ~Ahead(page.next, r),
         \A r \in rows :
           (IF walk = "start" THEN Index(r, rows) >= offset ELSE Ahead(cursor, r)) =>
             \/ r \in page.items \/ r \in page.cut
             \/ list = "assignments" /\ \E s \in page.cut : s.at = r.at
             \/ page.next # NoCursor /\ Ahead(page.next, r)
  PROVE  PagesInv'
<1>1. /\ shown' = shown \cup page.items
      /\ again' = (again \/ shown \cap page.items # {})
      /\ cursor' = page.next
      /\ cut' = cut \cup page.cut
      /\ walk' = IF page.next = NoCursor THEN "ended" ELSE "walking"
      /\ due' = IF walk = "start" THEN {r \in rows : Index(r, rows) >= offset} ELSE due
      /\ list' = list /\ rows' = rows /\ used' = used
  BY DEF Respond
<1>2. PagesTypeOK'
  BY <1>1 DEF PagesInv, PagesTypeOK
<1>3. IdsAreUnique(rows)' /\ Fresh'
  BY <1>1 DEF PagesInv, IdsAreUnique, Fresh
<1>4. \A q, r : Ahead(q, r)' <=> Ahead(q, r)
  BY <1>1 DEF Ahead, Below
<1>5. NothingIsShownTwice'
  <2> SUFFICES ASSUME ~restarted' PROVE ~again'
    BY DEF NothingIsShownTwice
  <2>1. ~again
    BY DEF PagesInv, NothingIsShownTwice
  <2>2. CASE walk = "start"
    BY <1>1, <2>1, <2>2 DEF PagesInv, Fresh
  <2>3. CASE walk = "walking"
    BY <1>1, <2>1, <2>3 DEF PagesInv, ShownIsPassed
  <2> QED
    BY <2>2, <2>3
<1>6. ShownIsPassed'
  <2> SUFFICES ASSUME walk' = "walking", ~restarted', NEW r \in shown'
               PROVE  ~Ahead(page.next, r)
    BY <1>1, <1>4 DEF ShownIsPassed
  <2>1. page.next # NoCursor /\ page.next \in Entry
    BY <1>1, EntriesAreComparable
  <2>2. CASE r \in page.items
    BY <2>1, <2>2
  <2>3. CASE r \in shown
    <3>1. walk = "walking" /\ cursor \in Entry /\ r \in Entry
      BY <2>3, EntriesAreComparable DEF PagesInv, PagesTypeOK, Fresh
    <3>2. ~Ahead(cursor, r) /\ Ahead(cursor, page.next)
      BY <2>1, <2>3, <3>1 DEF PagesInv, ShownIsPassed
    <3> QED
      BY <2>1, <3>1, <3>2, AheadIsTransitive
  <2> QED
    BY <1>1, <2>2, <2>3
<1>7. DueIsAhead'
  <2> SUFFICES ASSUME NEW r \in due' \ shown'
               PROVE  Excused(r)' \/ (walk' = "walking" /\ Ahead(page.next, r))
    BY <1>1, <1>4 DEF DueIsAhead
  <2>1. r \in rows /\ r \notin page.items
    BY <1>1 DEF PagesInv, PagesTypeOK
  <2>2. CASE walk = "walking" /\ Excused(r)
    BY <1>1, <2>2 DEF Excused
  <2>3. CASE walk = "start" \/ ~Excused(r)
    <3>1. IF walk = "start" THEN Index(r, rows) >= offset ELSE Ahead(cursor, r)
      BY <1>1, <2>3 DEF PagesInv, DueIsAhead
    <3> QED
      BY <1>1, <2>1, <3>1 DEF Excused
  <2> QED
    BY <2>2, <2>3
<1> QED
  BY <1>2, <1>3, <1>5, <1>6, <1>7 DEF PagesInv

LEMMA RowsAreSortable ==
  ASSUME PagesInv
  PROVE  Sortable(rows) /\ rows \subseteq Row
  BY EntriesAreComparable DEF PagesInv, PagesTypeOK, Sortable

\* A page of a list with a keyset, whichever query fetched it.
LEMMA KeysetPage ==
  ASSUME PagesInv, NEW S, NEW from \in Nat, NEW n \in Nat,
         \/ walk = "start" /\ S = rows
         \/ walk = "walking" /\ from = 0 /\ S = {r \in rows : Ahead(cursor, r)},
         Respond(trimPage(Slice(S, from, n + 1), n), from), UNCHANGED restarted
  PROVE  PagesInv'
<1> DEFINE page == trimPage(Slice(S, from, n + 1), n)
<1> HIDE DEF page
<1>1. Sortable(S) /\ S \subseteq Row /\ S \subseteq Entry
  BY RowsAreSortable, SortableSubset, EntriesAreComparable
<1>2. /\ page.items = Slice(S, from, n)
      /\ \/ /\ page.cut = {} /\ page.next = NoCursor
            /\ \A r \in S : Index(r, S) < from + n
         \/ \E f \in S : /\ Index(f, S) = from + n
                         /\ page.cut = {f} /\ page.next = Position(f)
  BY <1>1, TrimmedPage DEF page
<1>3. page.items \subseteq S /\ \A r \in S : Index(r, S) \in Nat
  BY <1>1, <1>2, IndexType DEF Slice
<1>4. page.cut \subseteq S /\ page.next \in Cursor \cup {NoCursor}
  BY <1>1, <1>2, PositionOfRow
<1>5. walk = "walking" => cursor \in Entry /\ \A r \in S : Ahead(cursor, r)
  BY EntriesAreComparable DEF PagesInv, PagesTypeOK
<1>6. ASSUME page.next # NoCursor
      PROVE  /\ walk = "walking" => Ahead(cursor, page.next)
             /\ \A r \in page.items : ~Ahead(page.next, r)
  <2>1. PICK f \in S : Index(f, S) = from + n /\ page.next = Position(f)
    BY <1>2, <1>6
  <2>2. \A r \in page.items : r \in Entry /\ Ahead(r, f)
    BY <1>1, <1>2, <1>3, <2>1, IndexOrder DEF Slice
  <2> QED
    BY <1>1, <1>5, <2>1, <2>2, PositionOfRow
<1>7. ASSUME NEW r \in rows,
             IF walk = "start" THEN Index(r, rows) >= from ELSE Ahead(cursor, r)
      PROVE  \/ r \in page.items \/ r \in page.cut
             \/ list = "assignments" /\ \E s \in page.cut : s.at = r.at
             \/ page.next # NoCursor /\ Ahead(page.next, r)
  <2>1. r \in S /\ r \in Entry /\ Index(r, S) >= from /\ Index(r, S) \in Nat
    BY <1>1, <1>3, <1>7
  <2>2. CASE Index(r, S) < from + n
    BY <1>2, <2>1, <2>2 DEF Slice
  <2>3. CASE ~(Index(r, S) < from + n)
    <3>1. PICK f \in S : /\ Index(f, S) = from + n
                         /\ page.cut = {f} /\ page.next = Position(f)
      BY <1>2, <2>1, <2>3
    <3>2. CASE r = f
      BY <3>1, <3>2
    <3>3. CASE r # f
      <4>1. Ahead(f, r)
        BY <1>1, <2>1, <2>3, <3>1, <3>3, IndexOrder
      <4> QED
        BY <1>1, <2>1, <3>1, <4>1, PositionOfRow
    <3> QED
      BY <3>2, <3>3
  <2> QED
    BY <2>2, <2>3
<1>8. Respond(page, from)
  BY DEF page
<1>9. restarted' \in BOOLEAN /\ restarted' = restarted
  BY DEF PagesInv, PagesTypeOK
<1> QED
  BY <1>1, <1>3, <1>4, <1>5, <1>6, <1>7, <1>8, <1>9, ResponseStep

LEMMA LimitsArePositive ==
  ASSUME NEW limit \in 0 .. MaxLimit + 1
  PROVE  /\ PageParams(limit) \in Nat \ {0}
         /\ clampLimit(limit) \in Nat \ {0}
         /\ clampLimit(PageParams(limit)) \in Nat \ {0}
  BY PagesAssumption DEF PageParams, clampLimit

LEMMA OffsetType ==
  ASSUME NEW page \in PageNumbers, NEW n \in Nat
  PROVE  Offset(page, n) \in Nat /\ pageOffset(page, n) \in Nat
<1>1. page \in Nat
  BY PagesAssumption
<1>2. CASE page > 1
  <2>1. (page - 1) * n \in Nat
    BY <1>1, <1>2
  <2> QED
    BY <2>1 DEF Offset, pageOffset
<1>3. CASE ~(page > 1)
  BY <1>1, <1>3 DEF Offset, pageOffset
<1> QED
  BY <1>2, <1>3

\* While the walk goes on it is by the cursor alone.
LEMMA WalkingByCursor ==
  ASSUME PagesInv, walk = "walking", NEW page, NEW n
  PROVE  /\ cursor \in Cursor /\ cursor \in Entry /\ cursor.id > 0
         /\ ~useOffset(cursor, page) /\ Offset(page, n) = 0
<1>1. cursor \in Cursor /\ cursor \in Entry /\ cursor.id > 0
  BY EntriesAreComparable DEF PagesInv, PagesTypeOK
<1>2. cursor.id # 0
  BY <1>1 DEF Entry
<1> QED
  BY <1>1, <1>2 DEF useOffset, Offset

LEMMA StartingWithoutCursor ==
  ASSUME PagesInv, walk = "start"
  PROVE  cursor = NoCursor /\ cursor.id = 0 /\ cursor \notin rows
  BY EntriesAreComparable DEF PagesInv, PagesTypeOK, NoCursor

LEMMA ListPageStep ==
  ASSUME PagesInv, NEW limit \in 0 .. MaxLimit + 1, NEW page \in PageNumbers,
         walk = "start" \/ (walk = "walking" /\ page = 0),
         list # "audit", ListPage(limit, page)
  PROVE  PagesInv'
<1> DEFINE n == clampLimit(PageParams(limit))
<1>1. n \in Nat
  BY LimitsArePositive
<1>2. /\ Respond(trimPage(Query(n, page), n), Offset(page, n))
      /\ UNCHANGED restarted
  BY DEF ListPage
<1> HIDE DEF n
<1>3. CASE walk = "start"
  <2>1. Query(n, page) = Slice(rows, Offset(page, n), n + 1)
    BY <1>3, StartingWithoutCursor DEF Query, Offset, OffsetPage, FirstPage
  <2> QED
    BY <1>1, <1>2, <1>3, <2>1, OffsetType, KeysetPage
<1>4. CASE walk = "walking"
  <2>1. Offset(page, n) = 0 /\ ~useOffset(cursor, page) /\ cursor.id # 0
    BY <1>4, WalkingByCursor
  <2>2. Query(n, page) = Slice({r \in rows : Ahead(cursor, r)}, 0, n + 1)
    BY <2>1 DEF Query, NextPage, Ahead
  <2> QED
    BY <1>1, <1>2, <1>4, <2>1, <2>2, KeysetPage
<1> QED
  BY <1>3, <1>4

LEMMA AuditPageStep ==
  ASSUME PagesInv, NEW limit \in 0 .. MaxLimit + 1, NEW page \in PageNumbers,
         walk = "start" \/ (walk = "walking" /\ page = 0),
         ListAuditPage(limit, page)
  PROVE  PagesInv'
<1> DEFINE n == clampLimit(limit)
           events == IF useOffset(cursor, page) THEN OffsetPage(n, pageOffset(page, n))
                     ELSE IF cursor.id > 0 THEN AuditNextPage(cursor, n)
                     ELSE FirstPage(n)
<1>1. n \in Nat
  BY LimitsArePositive
<1>2. /\ list = "audit"
      /\ Respond(trimPage(events, n), Offset(page, n))
      /\ UNCHANGED restarted
  BY DEF ListAuditPage
<1> HIDE DEF n
<1>3. CASE walk = "start"
  <2>1. events = Slice(rows, Offset(page, n), n + 1)
    BY <1>3, StartingWithoutCursor DEF Offset, OffsetPage, FirstPage
  <2> QED
    BY <1>1, <1>2, <1>3, <2>1, OffsetType, KeysetPage
<1>4. CASE walk = "walking"
  <2>1. Offset(page, n) = 0 /\ ~useOffset(cursor, page) /\ cursor.id > 0 /\ cursor \in Entry
    BY <1>4, WalkingByCursor
  <2>2. {r \in rows : r.id < cursor.id} = {r \in rows : Ahead(cursor, r)}
    <3>1. \A r \in rows : r \in Entry
      BY RowsAreSortable DEF Sortable
    <3> QED
      BY <1>2, <2>1, <3>1 DEF Ahead, Entry
  <2>3. events = Slice({r \in rows : Ahead(cursor, r)}, 0, n + 1)
    BY <2>1, <2>2 DEF AuditNextPage
  <2> QED
    BY <1>1, <1>2, <1>4, <2>1, <2>3, KeysetPage
<1> QED
  BY <1>3, <1>4

\* The list of Nodes: the part from start to end of all of them, sorted.
LEMMA NodesStep ==
  ASSUME PagesInv, NEW limit \in 0 .. MaxLimit + 1, NEW page \in PageNumbers,
         walk = "start" \/ (walk = "walking" /\ page = 0),
         handleListNodes(limit, page)
  PROVE  PagesInv'
<1> DEFINE n == PageParams(limit)
           nodes == Cardinality(rows)
           start == IF cursor \in rows THEN Index(cursor, rows) + 1 ELSE Offset(page, n)
           end == IF start + n > nodes THEN nodes ELSE start + n
           last == CHOOSE r \in rows : Index(r, rows) = end - 1
           response == [items |-> Slice(rows, start, n), cut |-> {},
                        next |-> IF start < end /\ end < nodes THEN last ELSE NoCursor]
<1>1. /\ list = "nodes"
      /\ Respond(response, Offset(page, n))
      /\ restarted' = (restarted \/ (cursor # NoCursor /\ cursor \notin rows))
  BY DEF handleListNodes
<1>2. n \in Nat \ {0}
  BY LimitsArePositive
<1> HIDE DEF n
<1>3. /\ Sortable(rows) /\ rows \subseteq Row /\ rows \subseteq Entry /\ Row \subseteq Cursor
      /\ NoCursor \notin Cursor
  BY RowsAreSortable, EntriesAreComparable
<1>4. nodes \in Nat /\ \A r \in rows : Index(r, rows) \in Nat /\ Index(r, rows) < nodes
  BY <1>3, IndexType, FS_CardinalityType DEF Sortable
<1>5. start \in Nat /\ Offset(page, n) \in Nat
  BY <1>2, <1>4, OffsetType
<1>6. walk = "start" => cursor \notin rows /\ start = Offset(page, n)
  BY StartingWithoutCursor
<1>7. walk = "walking" => /\ cursor \in Entry /\ cursor # NoCursor
                          /\ cursor \notin rows => start = 0 /\ restarted'
  BY <1>1, <1>3, WalkingByCursor
<1>8. cursor \in rows => start = Index(cursor, rows) + 1
  OBVIOUS
<1> HIDE DEF start
<1>9. end \in Nat /\ end <= nodes
  BY <1>2, <1>4, <1>5
<1>10. ASSUME response.next # NoCursor
       PROVE  /\ response.next \in rows
              /\ Index(response.next, rows) = start + n - 1
  <2>1. start < end /\ end < nodes /\ response.next = last /\ end = start + n
    BY <1>2, <1>4, <1>5, <1>10
  <2>2. end - 1 \in Nat /\ end - 1 < nodes
    BY <1>4, <1>5, <1>9, <2>1
  <2>3. last \in rows /\ Index(last, rows) = end - 1
    BY <1>3, <2>2, IndexExists
  <2> HIDE DEF last
  <2> QED
    BY <1>2, <1>5, <2>1, <2>3
<1>11. ASSUME NEW r \in rows, Index(r, rows) >= start, r \notin response.items
       PROVE  response.next # NoCursor /\ Ahead(response.next, r)
  <2>1. Index(r, rows) >= start + n
    BY <1>2, <1>4, <1>5, <1>11 DEF Slice
  <2>2. start < end /\ end < nodes
    BY <1>2, <1>4, <1>5, <2>1
  <2>3. response.next = last /\ end = start + n
    BY <1>2, <1>4, <1>5, <2>2
  <2>4. end - 1 \in Nat /\ end - 1 < nodes
    BY <1>4, <1>5, <1>9, <2>2
  <2>5. last \in rows /\ Index(last, rows) = end - 1
    BY <1>3, <2>4, IndexExists
  <2>6. response.next # NoCursor
    BY <1>3, <2>3, <2>5
  <2> QED
    BY <1>2, <1>3, <1>4, <1>5, <2>1, <2>3, <2>5, <2>6, IndexOrder
<1>12. /\ response.items \subseteq rows /\ response.cut = {}
       /\ \A r \in response.items : start <= Index(r, rows) /\ Index(r, rows) < start + n
  BY DEF Slice
<1> HIDE DEF response
<1>13. ASSUME response.next # NoCursor, NEW r \in response.items
       PROVE  ~Ahead(response.next, r)
  BY <1>2, <1>3, <1>4, <1>5, <1>10, <1>12, <1>13, IndexOrder
<1>14. ASSUME ~restarted', walk = "walking"
       PROVE  /\ \A r \in response.items : Ahead(cursor, r)
              /\ response.next # NoCursor => Ahead(cursor, response.next)
  <2>1. cursor \in rows /\ start = Index(cursor, rows) + 1
    BY <1>7, <1>8, <1>14
  <2>2. \A r \in rows : Index(r, rows) >= start => Ahead(cursor, r)
    BY <1>3, <1>4, <2>1, IndexOrder
  <2> QED
    BY <1>2, <1>5, <1>10, <1>12, <2>2
<1>15. ASSUME NEW r \in rows,
              IF walk = "start" THEN Index(r, rows) >= Offset(page, n) ELSE Ahead(cursor, r)
       PROVE  r \in response.items \/ (response.next # NoCursor /\ Ahead(response.next, r))
  <2>1. Index(r, rows) >= start
    <3>1. CASE walk = "start"
      BY <1>6, <1>15, <3>1
    <3>2. CASE walk = "walking" /\ cursor \in rows
      BY <1>3, <1>4, <1>8, <1>15, <3>2, IndexOrder
    <3>3. CASE walk = "walking" /\ cursor \notin rows
      BY <1>4, <1>7, <3>3
    <3> QED
      BY <3>1, <3>2, <3>3
  <2> QED
    BY <1>11, <2>1
<1>16. restarted' \in BOOLEAN /\ (restarted => restarted')
  BY <1>1 DEF PagesInv, PagesTypeOK
<1>17. response.next \in Cursor \cup {NoCursor}
  BY <1>3, <1>10
<1> QED
  BY <1>1, <1>3, <1>12, <1>13, <1>14, <1>15, <1>16, <1>17, ResponseStep

-----------------------------------------------------------------------------
(* Other steps, and the theorems.                                          *)

LEMMA InsertStep ==
  ASSUME PagesInv, Insert
  PROVE  PagesInv'
<1>1. PICK r \in Row : /\ walk = "walking" /\ r.id \notin used
                       /\ rows' = rows \cup {r} /\ used' = used \cup {r.id}
                       /\ UNCHANGED <<list, cursor, walk, shown, again, due, cut, restarted>>
  BY DEF Insert
<1>2. r.id \in RowIds
  BY DEF Row
<1>3. IsFiniteSet(rows')
  BY <1>1, FS_AddElement DEF PagesInv, PagesTypeOK
<1>4. PagesTypeOK'
  BY <1>1, <1>2, <1>3 DEF PagesInv, PagesTypeOK
<1>5. IdsAreUnique(rows)'
  BY <1>1 DEF PagesInv, PagesTypeOK, IdsAreUnique
<1> QED
  BY <1>1, <1>4, <1>5
     DEF PagesInv, Fresh, ShownIsPassed, DueIsAhead, NothingIsShownTwice, Excused, Ahead, Below

LEMMA DeleteStep ==
  ASSUME PagesInv, Delete
  PROVE  PagesInv'
<1>1. PICK r \in rows : /\ walk = "walking"
                        /\ rows' = rows \ {r} /\ due' = due \ {r}
                        /\ UNCHANGED <<list, used, cursor, walk, shown, again, cut, restarted>>
  BY DEF Delete
<1>2. IsFiniteSet(rows')
  BY <1>1, FS_RemoveElement DEF PagesInv, PagesTypeOK
<1>3. PagesTypeOK' /\ IdsAreUnique(rows)'
  BY <1>1, <1>2 DEF PagesInv, PagesTypeOK, IdsAreUnique
<1> QED
  BY <1>1, <1>3
     DEF PagesInv, Fresh, ShownIsPassed, DueIsAhead, NothingIsShownTwice, Excused, Ahead, Below

LEMMA PagesInvInit ==
  ASSUME PagesInit
  PROVE  PagesInv
<1>1. rows \subseteq Row /\ IsFiniteSet(rows) /\ IdsAreUnique(rows)
  BY DEF PagesInit, IdsAreUnique
<1>2. \A r \in rows : r.id \in RowIds
  BY <1>1 DEF Row
<1> QED
  BY <1>1, <1>2
     DEF PagesInit, PagesInv, PagesTypeOK, Fresh, ShownIsPassed, DueIsAhead, NothingIsShownTwice

LEMMA InvNext ==
  ASSUME PagesInv, [PagesNext]_pagesVars
  PROVE  PagesInv'
<1>1. CASE GetPage
  <2>1. PICK limit \in 0 .. MaxLimit + 1, page \in PageNumbers :
          /\ walk = "start" \/ (walk = "walking" /\ page = 0)
          /\ \/ ListApplicationsPage(limit, page)
             \/ ListNodeGroupsPage(limit, page)
             \/ ListAssignmentsPage(limit, page)
             \/ ListAuditPage(limit, page)
             \/ handleListNodes(limit, page)
    BY <1>1 DEF GetPage
  <2>2. CASE ListApplicationsPage(limit, page)
    BY <2>1, <2>2, ListPageStep DEF ListApplicationsPage
  <2>3. CASE ListNodeGroupsPage(limit, page)
    BY <2>1, <2>3, ListPageStep DEF ListNodeGroupsPage
  <2>4. CASE ListAssignmentsPage(limit, page)
    BY <2>1, <2>4, ListPageStep DEF ListAssignmentsPage
  <2>5. CASE ListAuditPage(limit, page)
    BY <2>1, <2>5, AuditPageStep
  <2>6. CASE handleListNodes(limit, page)
    BY <2>1, <2>6, NodesStep
  <2> QED
    BY <2>1, <2>2, <2>3, <2>4, <2>5, <2>6
<1>2. CASE Insert
  BY <1>2, InsertStep
<1>3. CASE Delete
  BY <1>3, DeleteStep
<1>4. CASE UNCHANGED pagesVars
  BY <1>4 DEF pagesVars, PagesInv, PagesTypeOK, IdsAreUnique, Fresh, ShownIsPassed, DueIsAhead,
              NothingIsShownTwice, Excused, Ahead, Below
<1> QED
  BY <1>1, <1>2, <1>3, <1>4 DEF PagesNext

\* The invariant holds throughout, whatever rows come and go between two pages.
THEOREM PagesInvAlways == PagesSpec => []PagesInv
<1>1. PagesInit => PagesInv
  BY PagesInvInit
<1>2. PagesInv /\ [PagesNext]_pagesVars => PagesInv'
  BY InvNext
<1> QED
  BY <1>1, <1>2, PTL DEF PagesSpec

\* The walk keeps its types.
THEOREM PagesTypeOKAlways == PagesSpec => []PagesTypeOK
<1>1. PagesInv => PagesTypeOK
  BY DEF PagesInv
<1> QED
  BY <1>1, PagesInvAlways, PTL

\* ListApplicationsPage, ListNodeGroupsPage, ListAssignmentsPage, ListAuditPage and
\* handleListNodes: no row is shown twice, unless the Node of a cursor was deleted.
THEOREM NothingIsShownTwiceAlways == PagesSpec => []NothingIsShownTwice
<1>1. PagesInv => NothingIsShownTwice
  BY DEF PagesInv
<1> QED
  BY <1>1, PagesInvAlways, PTL

\* trimPage and handleListNodes: a walk to the end leaves out the rows that cursors were made
\* of and, of Assignments, those of their seconds, and no other row that was there all along.
THEOREM OnlyCursorsAreSkippedAlways == PagesSpec => []OnlyCursorsAreSkipped
<1>1. PagesInv => OnlyCursorsAreSkipped
  BY DEF PagesInv, DueIsAhead, OnlyCursorsAreSkipped, Excused
<1> QED
  BY <1>1, PagesInvAlways, PTL
=============================================================================
