---------------------------- MODULE BookListing ----------------------------
(***************************************************************************)
(* The paged list of books: the query handler, which counts the table and  *)
(* then reads one page of it in a second statement, a client that walks    *)
(* the pages with the links of the pager, and the writers that change the  *)
(* table between any two of its statements.                                *)
(*                                                                         *)
(* As in BookApi, Y_X is Y with a mistake in it.                           *)
(***************************************************************************)
EXTENDS FiniteSetsExt

CONSTANTS
  Id,           \* book identities, ordered as the database orders them
  Title,        \* titles, ordered as the database collates them
  PageRequest,  \* the page numbers a client may ask for
  SizeRequest,  \* the page sizes a client may ask for
  MaxPageSize,  \* the largest page the validator lets through
  IntBits       \* the width of an int

ASSUME ListingAssumption ==
  /\ Id \subseteq Nat /\ IsFiniteSet(Id)
  /\ Title \subseteq Nat
  /\ PageRequest \subseteq Nat
  /\ SizeRequest \subseteq Nat
  /\ MaxPageSize \in Nat \ {0}
  /\ IntBits \in Nat \ {0}
  /\ MaxPageSize <= 2^(IntBits - 1)   \* GetBooksQueryValidator: a hundred at most

VARIABLES
  book,      \* the Book table: the titles of the books present
  issued,    \* every identity that has been given to a book
  page,      \* the page last asked for
  size,      \* the page size last asked for
  phase,     \* where the request is
  total,     \* TotalCount of the response
  items,     \* Items of the response
  walking,   \* history: the pages have been asked for in order since the first
  present,   \* history: the books present when the walk began
  seen,      \* history: the books it has shown
  repeated,  \* history: those it has shown on more than one page
  written,   \* history: the kinds of write during the walk
  late       \* history: a book was added between the count and the page just read

request == <<page, size, phase, total, items>>
walk    == <<walking, present, seen, repeated, written, late>>
vars    == <<book, issued, request, walk>>

Phase == {"idle", "asked", "counted", "shown", "refused", "failed"}
Write == {"add", "remove", "retitle"}

----------------------------------------------------------------------------
(* Page arithmetic.                                                        *)

\* The value an int is left with after an unchecked operation.
AsInt(n) == ((n + 2^(IntBits - 1)) % 2^IntBits) - 2^(IntBits - 1)

\* Mistake: pages are counted from zero.
Offset_ZeroBased(p, s) == AsInt(p * s)

\* The argument of Skip.
Offset(p, s) == AsInt((p - 1) * s)

\* OrderBy(Title).ThenBy(Id).
Before(i, j) == book[i] < book[j] \/ (book[i] = book[j] /\ i < j)

Position(i) == Cardinality({j \in DOMAIN book : Before(j, i)})

\* Mistake: one row more than asked for, to see whether there is a next page.
PageAt_OneMore(offset, s) == {i \in DOMAIN book : Position(i) \in offset..(offset + s)}

\* Skip(offset).Take(s).
PageAt(offset, s) == {i \in DOMAIN book : Position(i) \in offset..(offset + s - 1)}

\* Mistake: the last, partial page is not counted.
TotalPages_Truncated(t, s) == IF s > 0 THEN t \div s ELSE 0

TotalPages(t, s) == IF s > 0 THEN (t + s - 1) \div s ELSE 0

\* Mistake: the last page is not a next page.
HasNextPage_Early == page + 1 < TotalPages(total, size)

HasNextPage == page < TotalPages(total, size)

\* GetBooksQueryValidator.
ValidQuery(p, s) == p >= 1 /\ s \in 1..MaxPageSize

----------------------------------------------------------------------------
(* The pager.                                                              *)

windowSize == 3

\* Mistake: the window starts at the current page.
pageWindow_FromCurrent(current, pages) == current..Min({current + windowSize - 1, pages})

pageWindow(current, pages) ==
  LET start == Max({1, Min({current - 1, pages - windowSize + 1})})
  IN  start..(start + Min({windowSize, pages}) - 1)

\* The pages the pager links to; it shows nothing for a single page.
Links(current, pages) ==
  IF pages <= 1
  THEN {}
  ELSE (IF current > 1 THEN {current - 1} ELSE {})
       \cup pageWindow(current, pages)
       \cup (IF current < pages THEN {current + 1} ELSE {})

\* What the client is typed for: a page of books, or a refusal of the query.
getApiV1BooksResponse == [shown |-> 200, refused |-> 422]

\* There are data of books on the page.
payload == phase \in DOMAIN getApiV1BooksResponse /\ getApiV1BooksResponse[phase] = 200

\* A number of the payload, if there is one.
toNumber(value, fallback) == IF payload THEN value ELSE fallback

\* What the list page hands the pager.
pagination == [page |-> page, totalPages |-> toNumber(TotalPages(total, size), 1)]

----------------------------------------------------------------------------
(* The client and the handler.                                             *)

Answered == phase \in {"idle", "shown", "refused", "failed"}

\* A query for page p enters, and with it the history starts over.
Ask(p, s) ==
  /\ page' = p /\ size' = s /\ phase' = "asked" /\ total' = 0 /\ items' = {}
  /\ late' = FALSE

\* Any page, from a link, a bookmark or an address typed in. The first page begins
\* a walk.
Open(p, s) ==
  /\ Answered
  /\ Ask(p, s)
  /\ walking' = (p = 1)
  /\ present' = {i \in DOMAIN book : p = 1}
  /\ seen' = {} /\ repeated' = {} /\ written' = {}
  /\ UNCHANGED <<book, issued>>

\* The next page of the walk.
FollowNext ==
  /\ phase = "shown"
  /\ HasNextPage
  /\ Ask(page + 1, size)
  /\ UNCHANGED <<book, issued, walking, present, seen, repeated, written>>

\* The validator answers instead of the handler.
Refuse ==
  /\ phase = "asked"
  /\ ~ValidQuery(page, size)
  /\ phase' = "refused"
  /\ UNCHANGED <<book, issued, page, size, total, items, walk>>

\* CountAsync.
Count ==
  /\ phase = "asked"
  /\ ValidQuery(page, size)
  /\ phase' = "counted"
  /\ total' = Cardinality(DOMAIN book)
  /\ UNCHANGED <<book, issued, page, size, items, walk>>

\* ToListAsync.
Fetch ==
  /\ phase = "counted"
  /\ Offset(page, size) >= 0
  /\ phase' = "shown"
  /\ items' = PageAt(Offset(page, size), size)
  /\ seen' = seen \cup {i \in items' : walking}
  /\ repeated' = repeated \cup (seen \cap items')
  /\ UNCHANGED <<book, issued, page, size, total, walking, present, written, late>>

\* The database refuses a negative offset, or one of the statements fails.
Fail ==
  /\ phase = "counted" \/ (phase = "asked" /\ ValidQuery(page, size))
  /\ phase' = "failed"
  /\ UNCHANGED <<book, issued, page, size, total, items, walk>>

----------------------------------------------------------------------------
(* Writers.                                                                *)

Wrote(kind) == written' = written \cup {k \in {kind} : walking}

\* Mistake: the identity of a new book is not recorded.
Add_NotIssued(i, t) ==
  /\ i \notin issued
  /\ book' = [j \in DOMAIN book \cup {i} |-> IF j = i THEN t ELSE book[j]]
  /\ Wrote("add")
  /\ late' = (late \/ (walking /\ phase = "counted"))
  /\ UNCHANGED <<issued, request, walking, present, seen, repeated>>

Add(i, t) ==
  /\ i \notin issued
  /\ book' = [j \in DOMAIN book \cup {i} |-> IF j = i THEN t ELSE book[j]]
  /\ issued' = issued \cup {i}
  /\ Wrote("add")
  /\ late' = (late \/ (walking /\ phase = "counted"))
  /\ UNCHANGED <<request, walking, present, seen, repeated>>

Remove(i) ==
  /\ i \in DOMAIN book
  /\ book' = [j \in DOMAIN book \ {i} |-> book[j]]
  /\ Wrote("remove")
  /\ UNCHANGED <<issued, request, walking, present, seen, repeated, late>>

Retitle(i, t) ==
  /\ i \in DOMAIN book
  /\ t # book[i]
  /\ book' = [book EXCEPT ![i] = t]
  /\ Wrote("retitle")
  /\ UNCHANGED <<issued, request, walking, present, seen, repeated, late>>

----------------------------------------------------------------------------

Init ==
  /\ issued \in SUBSET Id
  /\ book \in [issued -> Title]
  /\ page = 1 /\ size = 1 /\ phase = "idle" /\ total = 0 /\ items = {}
  /\ walking = FALSE /\ present = {} /\ seen = {} /\ repeated = {}
  /\ written = {} /\ late = FALSE

Read == \/ \E p \in PageRequest, s \in SizeRequest : Open(p, s)
        \/ FollowNext \/ Refuse \/ Count \/ Fetch \/ Fail

Change == \E i \in Id : Remove(i) \/ \E t \in Title : Add(i, t) \/ Retitle(i, t)

Next == Read \/ Change

Spec == Init /\ [][Next]_vars

----------------------------------------------------------------------------
(* Properties.                                                             *)

TypeOK ==
  /\ issued \subseteq Id
  /\ DOMAIN book \subseteq issued /\ book \in [DOMAIN book -> Title]
  /\ page \in Nat /\ size \in Nat
  /\ phase \in Phase
  /\ total \in 0..Cardinality(Id)
  /\ items \subseteq Id
  /\ walking \in BOOLEAN /\ late \in BOOLEAN
  /\ present \subseteq Id /\ seen \subseteq Id /\ repeated \subseteq seen
  /\ written \subseteq Write

\* The walk has reached what the response calls the last page.
WalkEnded == walking /\ phase = "shown" /\ ~HasNextPage

(* Nobody writes: walking the pages from the first to the last, as HasNextPage
   says, shows every book exactly once, books that share a title included. *)
QuietWalkIsExact == written = {} /\ WalkEnded => seen = present /\ repeated = {}

(* However books are removed during the walk, none is shown twice. *)
RemovalsRepeatNothing == walking /\ written \subseteq {"remove"} => repeated = {}

(* However books are added during the walk, it shows every book that was there
   when it began, unless one was added between the count and the rows of the
   last page. *)
AdditionsSkipNothing ==
  written \subseteq {"add"} /\ WalkEnded /\ ~late => present \subseteq seen

(* Items are the books of the page asked for: those whose rank in the order falls
   into the page-th run of size. *)
PageHoldsItsBooks ==
  [][phase = "counted" /\ phase' = "shown" =>
       items' = {i \in DOMAIN book : Position(i) \div size + 1 = page}]_vars

(* While there is more than one page, the pager stays within the pages there are,
   shows the current one, and even from a stale bookmark beyond the end has a link to
   a page that exists. *)
PagerLeadsBack ==
  LET current == pagination.page
      pages   == pagination.totalPages
  IN pages > 1 =>
       /\ pageWindow(current, pages) \subseteq 1..pages
       /\ current <= pages => current \in pageWindow(current, pages)
       /\ \E p \in Links(current, pages) : p \in 1..pages /\ p # current
=============================================================================
