-------------------------------- MODULE Pages --------------------------------
(***************************************************************************)
(* A walk through one of Core's paginated lists while rows come and go.    *)
(*                                                                         *)
(* Applications, Node Groups, Assignments and Audit Events are read page   *)
(* by page with a keyset cursor: one row more than the page is asked for,  *)
(* and when it is there trimPage makes the cursor of it.  Nodes are sorted *)
(* and cut in memory, with a cursor made of the last Node shown.           *)
(*                                                                         *)
(* A row has the time of the transaction that inserted it, so that one     *)
(* with an earlier time may appear after one with a later time; the same   *)
(* goes for the numbers of Audit Events.  A time is a second and a         *)
(* fraction of it.  Identifiers are never reused.                          *)
(*                                                                         *)
(* A sorted list is a set of rows, in which the index of a row is the      *)
(* number of rows that come before it.                                     *)
(***************************************************************************)
EXTENDS Naturals, FiniteSets

CONSTANTS
  RowIds,            \* identifiers, numbers so that they can be ordered
  Seconds,           \* creation times
  Fractions,
  DefaultLimit,      \* 25 in the code
  MaxLimit,          \* 100 in the code
  PageNumbers        \* the "page" of a request, 0 when it has none

\* Identifiers are not the empty string, and a page has room for a row.
ASSUME PagesAssumption ==
  /\ RowIds \subseteq Nat \ {0}
  /\ Seconds \subseteq Nat /\ Fractions \subseteq Nat
  /\ DefaultLimit \in Nat \ {0} /\ MaxLimit \in Nat \ {0}
  /\ PageNumbers \subseteq Nat

Lists == {"applications", "groups", "assignments", "audit", "nodes"}
Row == [at : Seconds, part : Fractions, id : RowIds]
NoCursor == [at |-> 0, part |-> 0, id |-> 0]
Cursor == [at : Seconds, part : Fractions \cup {0}, id : RowIds]

VARIABLES
  list,      \* the list that is walked
  rows,      \* the rows of its table
  used,      \* the identifiers that rows have or had
  cursor,    \* next_cursor of the last response
  walk,      \* "start", "walking", "ended": whether there is a next page
  shown,     \* the rows of the responses so far
  again,     \* a row was shown that had been shown before
  due,       \* rows that were in the part walked when it started and still exist
  cut,       \* rows that a cursor was made of without being shown
  restarted  \* the Node of the cursor was deleted, so the list starts over

pagesVars == <<list, rows, used, cursor, walk, shown, again, due, cut, restarted>>

PagesTypeOK ==
  /\ list \in Lists
  /\ rows \subseteq Row /\ IsFiniteSet(rows)
  /\ used \subseteq RowIds /\ \A r \in rows : r.id \in used
  /\ cursor \in Cursor \cup {NoCursor}
  /\ walk \in {"start", "walking", "ended"}
  /\ walk = "walking" <=> cursor # NoCursor
  /\ shown \subseteq Row /\ due \subseteq rows /\ cut \subseteq Row
  /\ again \in BOOLEAN /\ restarted \in BOOLEAN

-----------------------------------------------------------------------------
(* Limits, cursors and queries.                                            *)

\* What the handlers make of the "limit" of a request.
PageParams(limit) ==
  IF limit <= 0 THEN DefaultLimit ELSE IF limit > MaxLimit THEN MaxLimit ELSE limit

clampLimit(limit) == IF limit <= 0 \/ limit > MaxLimit THEN DefaultLimit ELSE limit

useOffset(c, page) == page > 1 /\ c.id = 0

pageOffset(page, limit) == IF page <= 1 THEN 0 ELSE (page - 1) * limit

\* (created_at, id) < ($1, $2), the order of the lists and of their cursors.
Below(r, s) ==
  \/ r.at < s.at
  \/ r.at = s.at /\ r.part < s.part
  \/ r.at = s.at /\ r.part = s.part /\ r.id < s.id

\* ORDER BY created_at DESC, id DESC; Audit Events have the order of their numbers.
Ahead(r, s) == IF list = "audit" THEN r.id > s.id ELSE Below(s, r)

\* The index of a row among the rows of S, in the order of the list.
Index(r, S) == Cardinality({q \in S : Ahead(q, r)})

\* LIMIT n OFFSET from
Slice(S, from, n) == {r \in S : from <= Index(r, S) /\ Index(r, S) < from + n}

FirstPage(limit) == Slice(rows, 0, limit + 1)

OffsetPage(limit, offset) == Slice(rows, offset, limit + 1)

\* Defect: the keyset is the time alone, so that rows of one moment are lost.
NextPageByTime(c, limit) == Slice({r \in rows : Below(r, [c EXCEPT !.id = 0])}, 0, limit + 1)

\* Defect: the keyset is the time alone, so that rows of one moment come again.
NextPageFromTime(c, limit) == Slice({r \in rows : ~Below(c, [r EXCEPT !.id = c.id])}, 0, limit + 1)

NextPage(c, limit) == Slice({r \in rows : Below(r, c)}, 0, limit + 1)

AuditNextPage(c, limit) == Slice({r \in rows : r.id < c.id}, 0, limit + 1)

\* A creation time as the response of an Assignment has it: no fraction of a second.
assignmentFromRow(r) == [r EXCEPT !.part = 0]

\* What a cursor says of the row it is made of.
Position(r) == IF list = "assignments" THEN assignmentFromRow(r) ELSE r

\* The cursor is made of the first row that is not on the page.
trimPage(items, limit) ==
  LET rest == {r \in items : Index(r, items) = limit}
  IN [items |-> Slice(items, 0, limit), cut |-> rest,
      next |-> IF rest = {} THEN NoCursor ELSE Position(CHOOSE r \in rest : TRUE)]

-----------------------------------------------------------------------------
(* Requests for a page.                                                    *)

\* A response, and what the walk has seen with it.
Respond(page, offset) ==
  /\ shown' = shown \cup page.items
  /\ again' = (again \/ shown \cap page.items # {})
  /\ cursor' = page.next
  /\ cut' = cut \cup page.cut
  /\ walk' = IF page.next = NoCursor THEN "ended" ELSE "walking"
  /\ due' = IF walk = "start" THEN {r \in rows : Index(r, rows) >= offset} ELSE due
  /\ UNCHANGED <<list, rows, used>>

\* The three keyset queries behind a page, whichever fits the request.
Query(limit, page) ==
  IF useOffset(cursor, page) THEN OffsetPage(limit, pageOffset(page, limit))
  ELSE IF cursor.id = 0 THEN FirstPage(limit)
  ELSE NextPage(cursor, limit)

Offset(page, limit) == IF useOffset(cursor, page) THEN pageOffset(page, limit) ELSE 0

ListPage(limit, page) ==
  LET n == clampLimit(PageParams(limit)) IN
  /\ Respond(trimPage(Query(n, page), n), Offset(page, n))
  /\ UNCHANGED restarted

ListApplicationsPage(limit, page) ==
  list = "applications" /\ ListPage(limit, page)

ListNodeGroupsPage(limit, page) ==
  list = "groups" /\ ListPage(limit, page)

ListAssignmentsPage(limit, page) ==
  list = "assignments" /\ ListPage(limit, page)

ListAuditPage(limit, page) ==
  LET n == clampLimit(limit)
      events == IF useOffset(cursor, page) THEN OffsetPage(n, pageOffset(page, n))
                ELSE IF cursor.id > 0 THEN AuditNextPage(cursor, n)
                ELSE FirstPage(n)
  IN
  /\ list = "audit"
  /\ Respond(trimPage(events, n), Offset(page, n))
  /\ UNCHANGED restarted

\* The page starts after the Node of the cursor, or at the first when there is none such.
handleListNodes(limit, page) ==
  LET n == PageParams(limit)
      nodes == Cardinality(rows)
      start == IF cursor \in rows THEN Index(cursor, rows) + 1 ELSE Offset(page, n)
      end == IF start + n > nodes THEN nodes ELSE start + n
      last == CHOOSE r \in rows : Index(r, rows) = end - 1
  IN
  /\ list = "nodes"
  /\ Respond([items |-> Slice(rows, start, n), cut |-> {},
              next |-> IF start < end /\ end < nodes THEN last ELSE NoCursor],
             Offset(page, n))
  /\ restarted' = (restarted \/ (cursor # NoCursor /\ cursor \notin rows))

\* The first page, any page by its number, or the one after the last response.
GetPage ==
  \E limit \in 0 .. MaxLimit + 1, page \in PageNumbers :
    /\ walk = "start" \/ (walk = "walking" /\ page = 0)
    /\ \/ ListApplicationsPage(limit, page)
       \/ ListNodeGroupsPage(limit, page)
       \/ ListAssignmentsPage(limit, page)
       \/ ListAuditPage(limit, page)
       \/ handleListNodes(limit, page)

-----------------------------------------------------------------------------
(* Other requests, between two pages.                                      *)

Insert ==
  \E r \in Row :
    /\ walk = "walking"
    /\ r.id \notin used
    /\ rows' = rows \cup {r}
    /\ used' = used \cup {r.id}
    /\ UNCHANGED <<list, cursor, walk, shown, again, due, cut, restarted>>

\* Audit Events are never deleted.
Delete ==
  \E r \in rows :
    /\ walk = "walking" /\ list # "audit"
    /\ rows' = rows \ {r}
    /\ due' = due \ {r}
    /\ UNCHANGED <<list, used, cursor, walk, shown, again, cut, restarted>>

PagesInit ==
  /\ list \in Lists
  /\ rows \in {R \in SUBSET Row : IsFiniteSet(R) /\ \A r, s \in R : r.id = s.id => r = s}
  /\ used = {r.id : r \in rows}
  /\ cursor = NoCursor /\ walk = "start"
  /\ shown = {} /\ due = {} /\ cut = {}
  /\ again = FALSE /\ restarted = FALSE

PagesNext == GetPage \/ Insert \/ Delete

PagesSpec == PagesInit /\ [][PagesNext]_pagesVars

-----------------------------------------------------------------------------
(* Properties.                                                             *)

\* A walk that rows come into and leave shows none of them twice.  The exception is the list
\* of Nodes: handleListNodes starts over when the Node of the cursor has been deleted.
NothingIsShownTwice == restarted \/ ~again

\* A walk that has ended has shown every row that was there all the time, but for the rows
\* that trimPage made cursors of; with the cursors of Assignments, which have no fraction of
\* a second, also for those of the same second.
OnlyCursorsAreSkipped ==
  walk = "ended" =>
    \A r \in due \ shown : r \in cut \/ (list = "assignments" /\ \E s \in cut : s.at = r.at)
=============================================================================
