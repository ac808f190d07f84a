----------------------------- MODULE BookAdmin -----------------------------
(***************************************************************************)
(* One browser tab of the admin: the query cache and its fetches, the list *)
(* page with its delete dialog, the detail page, the form that creates or  *)
(* edits a book, and the mutations they send, against an API whose books   *)
(* other users change too.                                                 *)
(*                                                                         *)
(* The content of a book is abstracted to the moment of its last change.   *)
(* A visit is the life of one mounted page: its form, its dialog and its   *)
(* pending flag go with it, the cache and the requests do not.             *)
(*                                                                         *)
(* The query library starts nothing while the browser is offline, and      *)
(* tries nothing again and resumes nothing until the tab is in front too   *)
(* (networkMode is left at its default). The connection may break and come *)
(* back between any two steps, so it has no variable: a request may be     *)
(* held at every start, a fetch as "paused" and a mutation as "unsent",    *)
(* and let go at any later moment, or never.                               *)
(*                                                                         *)
(* As in BookApi, Y_X is Y with a mistake in it.                           *)
(***************************************************************************)
EXTENDS Integers, Sequences, FiniteSets

CONSTANTS
  Book,             \* book identities
  NoBook,           \* no book
  RoleSets,         \* the sets of roles a session may carry
  MaxQueryRetries,  \* how often a failed fetch is tried again
  MaxClock,         \* bound: changes of the stored books
  MaxOthers,        \* bound: how many of them are other users'
  MaxVisits,        \* bound: pages opened
  MaxCalls          \* bound: mutations sent; the user types and deletes no more then

ASSUME AdminAssumption ==
  /\ NoBook \notin Book /\ "list" \notin Book
  /\ RoleSets \subseteq SUBSET {"view", "create", "edit", "delete"}
  /\ {MaxQueryRetries, MaxClock, MaxOthers, MaxVisits, MaxCalls} \subseteq Nat

VARIABLES
  server,   \* the stored books
  clock,    \* how many changes they have seen
  roles,    \* the roles of the session
  page,     \* the page shown
  visit,    \* how many pages have been mounted
  form,     \* the form: what it was filled from, and whether the user has typed
  dialog,   \* the book the delete dialog names, or NoBook when it is closed
  leaving,  \* a redirect to the list is under way
  rendered, \* the page shows the pending flag of what it has sent last
  query,    \* the query cache
  calls     \* the mutations submitted, oldest first

tab  == <<page, visit, form, dialog, leaving, rendered>>
vars == <<server, clock, roles, tab, query, calls>>

Key  == Book \cup {"list"}                    \* bookQueryKeys
Row  == [stamp : 0..MaxClock, live : BOOLEAN]
Page == [at : {"home", "list", "new"}, book : {NoBook}]
        \cup [at : {"detail", "edit"}, book : Book]
Op   == {"Create", "Update", "Delete"}

\* Where a mutation is on the client: waiting for its answer, then working through
\* the callbacks of a success (an ...ing awaits a refetch, an ...ed does not), or over.
Busy == {"waiting", "listing", "listed", "detailing", "detailed"}
Over == {"settled", "failed", "gone"}

Holds(k) == IF k = "list" THEN Book ELSE {k}
NoRow    == -1
NoQuery  == [rows |-> <<>>, stale |-> FALSE, phase |-> "idle", got |-> <<>>,
             tries |-> 0, error |-> FALSE, raced |-> FALSE]
HasData(q) == q.rows # <<>>

----------------------------------------------------------------------------
(* Permissions.                                                            *)

\* Mistake: every action asks for the role that deletes.
Offered_AdminOnly(op, R) == "delete" \in R

hasRole(R, role) == role \in R

\* useUserPermissions: canCreate, canEdit and canDelete.
Offered(op, R) ==
  hasRole(R, [Create |-> "create", Update |-> "edit", Delete |-> "delete"][op])

\* EditorPolicy and AdminPolicy.
Admitted(op, R) ==
  {"view", "create", "edit"} \cup (IF op = "Delete" THEN {"delete"} ELSE {}) \subseteq R

----------------------------------------------------------------------------
(* One query of the cache.                                                 *)

Started(q, held) ==
  [q EXCEPT !.phase = IF held THEN "paused" ELSE "sent", !.got = <<>>, !.tries = 0,
            !.error = @ /\ HasData(q), !.raced = FALSE]

\* The query functions pass the signal on, so a fetch dies with its last observer.
Cancelled(q) == [q EXCEPT !.phase = "idle", !.got = <<>>, !.tries = 0]

\* What remains of a query that no page shows any more; without data it is as good as new.
Left(q) == IF HasData(q) THEN Cancelled(q) ELSE NoQuery

Mounted(q, held) == IF HasData(q) /\ ~q.stale THEN q ELSE Started(q, held)

\* Mistake: a fetch already under way is taken for the refetch.
Invalidated_KeepsFetch(q, active, held) ==
  IF ~active THEN [q EXCEPT !.stale = TRUE]
  ELSE IF q.phase # "idle" THEN [q EXCEPT !.stale = TRUE]
  ELSE Started([q EXCEPT !.stale = TRUE], held)

\* invalidateQueries: mark the query, and fetch it anew if a page shows it. Only the
\* first load of a query is not cancelled for that; a paused one has read nothing yet.
Invalidated(q, active, held) ==
  LET marked == [q EXCEPT !.stale = TRUE] IN
  IF ~active THEN (IF HasData(q) THEN marked ELSE q)
  ELSE IF q.phase # "idle" /\ ~HasData(q) THEN [marked EXCEPT !.raced = @ \/ q.phase # "paused"]
  ELSE Started(marked, held)

Active(p) == CASE p.at = "list"             -> {"list"}
               [] p.at \in {"detail", "edit"} -> {p.book}
               [] OTHER                     -> {}

\* The queries after the pages have changed from page to p.
Switched(p, held) ==
  [k \in Key |->
     LET q == IF k \in Active(page) THEN Left(query[k]) ELSE query[k]
     IN  IF k \in Active(p) THEN Mounted(q, held) ELSE q]

----------------------------------------------------------------------------
(* Moving between pages.                                                   *)

\* The effect of BookForm: the form takes over the book the query holds.
FilledFrom(q, b) ==
  [base |-> IF HasData(q) THEN q.rows[b].stamp ELSE NoRow, typed |-> FALSE]

EmptyForm == [base |-> NoRow, typed |-> FALSE]

\* The rows of the table, which an error hides.
Listed == {b \in Book : /\ HasData(query["list"]) /\ ~query["list"].error
                        /\ query["list"].rows[b].live}

At(name, b) == [at |-> name, book |-> b]

\* The links of the table.
RowLinks == {At("detail", b) : b \in Listed}
            \cup IF Offered("Update", roles) THEN {At("edit", b) : b \in Listed} ELSE {}

\* What BookListPage tells its content, which asks no more.
canCreate == hasRole(roles, "create")

\* The links of the list page, beside those of its table.
ListLinks == RowLinks \cup IF canCreate THEN {At("new", NoBook)} ELSE {}

\* The one link of the detail page, which shows the book if it has one and no error.
DetailLinks(b) ==
  IF HasData(query[b]) /\ ~query[b].error /\ Offered("Update", roles) THEN {At("edit", b)} ELSE {}

\* A link of the page or of the sidebar, or a step back in the history to a book's page
\* with its data still there; one without it is as good as loaded.
Reachable(p) ==
  \/ p.at \in {"home", "list"}
  \/ page.at = "list" /\ p \in ListLinks
  \/ page.at = "detail" /\ p \in DetailLinks(page.book)
  \/ p.at \in {"detail", "edit"} /\ HasData(query[p.book])

Open(p) ==
  /\ page' = p
  /\ visit' = visit + 1
  /\ form' = IF p.at = "edit" THEN FilledFrom(query[p.book], p.book) ELSE EmptyForm
  /\ dialog' = NoBook
  /\ leaving' = FALSE
  /\ rendered' = TRUE
  /\ query' \in {Switched(p, held) : held \in BOOLEAN}

Navigate(p) ==
  /\ visit < MaxVisits
  /\ p # page
  /\ Reachable(p)
  /\ Open(p)
  /\ UNCHANGED <<server, clock, roles, calls>>

\* The address bar, or the way back from signing in: a new page with an empty cache.
Load(p) ==
  /\ visit < MaxVisits
  /\ page' = p
  /\ visit' = visit + 1
  /\ form' = EmptyForm
  /\ dialog' = NoBook
  /\ leaving' = FALSE
  /\ rendered' = TRUE
  /\ query' = [k \in Key |-> IF k \in Active(p) THEN Started(NoQuery, FALSE) ELSE NoQuery]
  /\ calls' = [i \in DOMAIN calls |->
                 IF calls[i].client \in Busy THEN [calls[i] EXCEPT !.client = "gone"] ELSE calls[i]]
  /\ UNCHANGED <<server, clock, roles>>

\* The redirect that follows a save; the tab may be on another page by now.
Arrive ==
  /\ leaving
  /\ visit < MaxVisits
  /\ IF page.at = "list"
     THEN leaving' = FALSE /\ UNCHANGED <<page, visit, form, dialog, rendered, query>>
     ELSE Open(At("list", NoBook))
  /\ UNCHANGED <<server, clock, roles, calls>>

----------------------------------------------------------------------------
(* The form, the dialog and the mutations they send.                       *)

\* isPending follows the last mutation of the page; a page sends one kind only.
Pending == LET n == Len(calls) IN n > 0 /\ calls[n].visit = visit /\ calls[n].client \in Busy

\* Mistake: the form and the dialog stay enabled while a request is under way.
Disabled_Never == FALSE

\* isSaving of the form, isDeleting of the dialog: an attribute of the last render.
Disabled == Pending /\ rendered

\* A disabled Button takes no press and submits no form.
Pressable == ~Disabled

Render ==
  /\ ~rendered
  /\ rendered' = TRUE
  /\ UNCHANGED <<server, clock, roles, page, visit, form, dialog, leaving, query, calls>>

\* The form, unless its book is loading; a paused load counts as none.
FormShown ==
  \/ page.at = "new"
  \/ page.at = "edit" /\ (HasData(query[page.book]) \/ query[page.book].phase \in {"idle", "paused"})

Type ==
  /\ FormShown /\ ~Disabled /\ ~form.typed /\ Len(calls) < MaxCalls
  /\ form' = [form EXCEPT !.typed = TRUE]
  /\ UNCHANGED <<server, clock, roles, page, visit, dialog, leaving, rendered, query, calls>>

\* The mutations that are held.
Held == {i \in DOMAIN calls : calls[i].client = "waiting" /\ calls[i].server = "unsent"}

\* mutate; early: the page has not rendered yet that it has a request under way. Nothing
\* is held any more when a request goes out, and the moment before a render has one fate.
Send(op, b) ==
  /\ Len(calls) < MaxCalls
  /\ \E s \in IF Held # {} THEN {"unsent"} ELSE IF rendered THEN {"sent", "unsent"} ELSE {"sent"} :
       calls' = Append(calls, [op |-> op, book |-> b, visit |-> visit, stamp |-> 0,
                               server |-> s, client |-> "waiting",
                               early |-> ~rendered])
  /\ rendered' = FALSE
  /\ UNCHANGED <<server, clock, roles, page, visit, form, dialog, leaving, query>>

\* The generated client's three mutations.
postApiV1Books        == Send("Create", NoBook)
putApiV1BooksId(b)    == Send("Update", b)
deleteApiV1BooksId(b) == Send("Delete", b)

isEditMode == page.at = "edit"

submit ==
  /\ FormShown /\ Pressable
  /\ form.typed \/ form.base # NoRow
  /\ IF isEditMode THEN putApiV1BooksId(page.book) ELSE postApiV1Books

\* Mistake: the dialog belongs to no page.
handleDeleteClick_Anywhere(b) ==
  /\ b \in Listed /\ dialog' = b
  /\ UNCHANGED <<server, clock, roles, page, visit, form, leaving, rendered, query, calls>>

\* The delete button of a row; the dialog covers the table while it is open.
handleDeleteClick(b) ==
  /\ page.at = "list" /\ b \in Listed
  /\ dialog = NoBook /\ Len(calls) < MaxCalls
  /\ Offered("Delete", roles)
  /\ dialog' = b
  /\ UNCHANGED <<server, clock, roles, page, visit, form, leaving, rendered, query, calls>>

\* The cross, Escape and the backdrop work during a deletion too.
handleCloseModal ==
  /\ dialog # NoBook
  /\ dialog' = NoBook
  /\ UNCHANGED <<server, clock, roles, page, visit, form, leaving, rendered, query, calls>>

handleConfirm ==
  /\ dialog # NoBook /\ Pressable
  /\ deleteApiV1BooksId(dialog)

----------------------------------------------------------------------------
(* The API.                                                                *)

Write(b, live) ==
  /\ clock < MaxClock
  /\ clock' = clock + 1
  /\ server' = [server EXCEPT ![b] = [stamp |-> clock + 1, live |-> live]]

Unborn == {b \in Book : server[b] = [stamp |-> 0, live |-> FALSE]}

OtherWrite(b) ==
  /\ clock - Cardinality({i \in DOMAIN calls : calls[i].server = "done"}) < MaxOthers
  /\ \/ (server[b].live \/ b \in Unborn) /\ Write(b, TRUE)
     \/ server[b].live /\ Write(b, FALSE)
  /\ UNCHANGED <<roles, tab, query, calls>>

\* The API carries a mutation out, perhaps long after the tab has given it up.
Commit(i) ==
  LET c == calls[i] IN
  /\ c.server = "sent" /\ Admitted(c.op, roles)
  /\ \E b \in IF c.op = "Create" THEN Unborn ELSE {x \in Book : x = c.book /\ server[x].live} :
       /\ Write(b, c.op # "Delete")
       /\ calls' = [calls EXCEPT ![i].server = "done", ![i].book = b, ![i].stamp = clock + 1]
  /\ UNCHANGED <<roles, tab, query>>

Refuse(i) ==
  /\ calls[i].server = "sent"
  /\ ~Admitted(calls[i].op, roles) \/ (calls[i].op # "Create" /\ ~server[calls[i].book].live)
  /\ calls' = [calls EXCEPT ![i].server = "refused",
                            ![i].client = IF @ = "waiting" THEN "failed" ELSE @]
  /\ UNCHANGED <<server, clock, roles, tab, query>>

----------------------------------------------------------------------------
(* The callbacks of a mutation.                                            *)

\* Mistake: no time limit, so only an answer on its way can be lost.
Lose_NoTimeout(i) ==
  /\ calls[i].client = "waiting" /\ calls[i].server = "done"
  /\ calls' = [calls EXCEPT ![i].client = "failed"]
  /\ UNCHANGED <<server, clock, roles, tab, query>>

\* The time limit, a broken connection or an error of the server, whatever the API
\* has done or will still do with the request. The limit starts with the request.
Lose(i) ==
  /\ calls[i].client = "waiting" /\ calls[i].server # "unsent"
  /\ calls' = [calls EXCEPT ![i].client = "failed"]
  /\ UNCHANGED <<server, clock, roles, tab, query>>

\* The mutations that were held make their requests now.
Resume ==
  /\ Held # {}
  /\ calls' = [i \in DOMAIN calls |-> IF i \in Held THEN [calls[i] EXCEPT !.server = "sent"] ELSE calls[i]]
  /\ UNCHANGED <<server, clock, roles, tab, query>>

\* invalidateQueries awaits the refetch it starts, but not one that is held.
Invalidate(i, k, awaiting, passing) ==
  /\ query' \in {[query EXCEPT ![k] = Invalidated(@, k \in Active(page), held)] : held \in BOOLEAN}
  /\ calls' = [calls EXCEPT ![i].client = IF query'[k].phase = "paused" THEN passing ELSE awaiting]
  /\ UNCHANGED <<server, clock, roles, tab>>

\* The refetch of key k is over, if it was awaited at all.
Through(i, k, awaiting, passing) ==
  \/ calls[i].client = passing
  \/ calls[i].client = awaiting /\ query[k].phase = "idle"

\* A success; useInvalidateBooks, its first step: await the invalidation of the list.
InvalidateList(i) ==
  /\ calls[i].client = "waiting" /\ calls[i].server = "done"
  /\ Invalidate(i, "list", "listing", "listed")

\* Its second step, only where the caller names the book: a save in edit mode.
InvalidateDetail(i) ==
  /\ calls[i].op = "Update" /\ Through(i, "list", "listing", "listed")
  /\ Invalidate(i, calls[i].book, "detailing", "detailed")

\* handleSaved redirects, onDeleted closes the dialog of its own visit.
Settle(i) ==
  LET c == calls[i] IN
  /\ IF c.op = "Update" THEN Through(i, c.book, "detailing", "detailed")
                        ELSE Through(i, "list", "listing", "listed")
  /\ calls' = [calls EXCEPT ![i].client = "settled"]
  /\ leaving' = (leaving \/ c.op # "Delete")
  /\ dialog' = IF c.op = "Delete" /\ c.visit = visit THEN NoBook ELSE dialog
  /\ UNCHANGED <<server, clock, roles, page, visit, form, rendered, query>>

----------------------------------------------------------------------------
(* Fetches.                                                                *)

\* The API answers a request for the books of key k, or that there is none.
Read(k, found) ==
  /\ query[k].phase = "sent"
  /\ query' = [query EXCEPT
       ![k].phase = IF found THEN "read" ELSE "missing",
       ![k].got = IF found THEN [b \in Holds(k) |-> server[b]] ELSE <<>>]
  /\ UNCHANGED <<server, clock, roles, tab, calls>>

\* The generated client's two queries.
getApiV1Books      == Read("list", TRUE)
getApiV1BooksId(b) == Read(b, server[b].live)

\* Mistake: every answer is a new object, so the form is filled in again.
Refilled_Always(k) ==
  IF page.at = "edit" /\ page.book = k
  THEN [base |-> query[k].got[k].stamp, typed |-> FALSE] ELSE form

\* The form is filled in again when the answer differs from the data it replaces:
\* equal data keeps its reference.
Refilled(k) ==
  IF page.at = "edit" /\ page.book = k /\ query[k].got # query[k].rows
  THEN [base |-> query[k].got[k].stamp, typed |-> FALSE] ELSE form

Receive(k) ==
  /\ query[k].phase = "read"
  /\ query' = [query EXCEPT ![k].rows = query[k].got, ![k].stale = FALSE, ![k].error = FALSE,
                            ![k].phase = "idle", ![k].got = <<>>, ![k].tries = 0]
  /\ form' = Refilled(k)
  /\ UNCHANGED <<server, clock, roles, page, visit, dialog, leaving, rendered, calls>>

\* shouldRetryQuery: a refusal, such as an answer of 404, is final; anything else is
\* tried again a few times.
Failed(q, refused, held) ==
  IF ~refused /\ q.phase # "missing" /\ q.tries < MaxQueryRetries
  THEN [q EXCEPT !.phase = IF held THEN "paused" ELSE "sent", !.got = <<>>, !.tries = @ + 1]
  ELSE [Cancelled(q) EXCEPT !.error = TRUE, !.stale = TRUE]

FetchFails(k) ==
  /\ query[k].phase \notin {"idle", "paused"}
  /\ query' \in {[query EXCEPT ![k] = Failed(@, refused, held)] : refused, held \in BOOLEAN}
  /\ UNCHANGED <<server, clock, roles, tab, calls>>

\* A fetch that was held makes its request now.
Continue(k) ==
  /\ query[k].phase = "paused"
  /\ query' = [query EXCEPT ![k].phase = "sent"]
  /\ UNCHANGED <<server, clock, roles, tab, calls>>

\* A minute goes by: everything cached is stale.
Age ==
  /\ query' = [k \in Key |-> [query[k] EXCEPT !.stale = @ \/ HasData(query[k])]]
  /\ UNCHANGED <<server, clock, roles, tab, calls>>

\* Five minutes without an observer: the entry is dropped.
Collect(k) ==
  /\ k \notin Active(page) /\ query[k] # NoQuery
  /\ query' = [query EXCEPT ![k] = NoQuery]
  /\ UNCHANGED <<server, clock, roles, tab, calls>>

\* Back online: what is shown and stale is fetched again.
Reconnect ==
  /\ \E k \in Active(page) : /\ query[k].stale /\ query[k].phase = "idle"
                             /\ query' = [query EXCEPT ![k] = Started(@, FALSE)]
  /\ UNCHANGED <<server, clock, roles, tab, calls>>

----------------------------------------------------------------------------
Init ==
  /\ server \in [Book -> [stamp : {0}, live : BOOLEAN]]
  /\ clock = 0
  /\ roles \in RoleSets
  /\ page = [at |-> "home", book |-> NoBook]
  /\ visit = 0
  /\ form = EmptyForm
  /\ dialog = NoBook
  /\ leaving = FALSE
  /\ rendered = TRUE
  /\ query = [k \in Key |-> NoQuery]
  /\ calls = <<>>

User     == \/ \E p \in Page : Navigate(p) \/ Load(p)
            \/ \E b \in Book : handleDeleteClick(b)
            \/ Type \/ handleCloseModal
Api      == \/ \E b \in Book : OtherWrite(b)
            \/ \E i \in DOMAIN calls : Commit(i) \/ Refuse(i)
Callback(i) == Lose(i) \/ InvalidateList(i) \/ InvalidateDetail(i) \/ Settle(i)
Fetch(k) == \/ k = "list" /\ getApiV1Books
            \/ k \in Book /\ getApiV1BooksId(k)
            \/ Receive(k) \/ FetchFails(k)
Step     == \/ User \/ Api \/ Arrive \/ Age \/ Reconnect \/ Resume
            \/ \E i \in DOMAIN calls : Callback(i)
            \/ \E k \in Key : Fetch(k) \/ Continue(k) \/ Collect(k)

\* The user may submit again until the page has rendered; whatever else happens in that
\* moment may as well happen after it.
Next == \/ submit \/ handleConfirm \/ Render
        \/ rendered /\ Step

Spec == Init /\ [][Next]_vars

\* The tab renders and runs its callbacks, a mutation that has been sent is timed out, and
\* a fetch that has been sent is answered or fails: orvalFetch's time limit is only for a
\* request without a signal of its own, so that of a fetch, which has the library's, is
\* ended by the server, the proxy or the browser. Neither the user nor the API owes a
\* step, nor does the connection to what is held. Strong fairness, because a callback
\* resumes when the fetch it awaits ends, even if another one starts at once; that some
\* callback does is enough, since each mutation has only a few.
Fairness == /\ SF_vars(\E i \in DOMAIN calls : Callback(i))
            /\ WF_vars(Render \/ \E k \in Key : Fetch(k))

FairSpec == Spec /\ Fairness
----------------------------------------------------------------------------
(* Properties.                                                             *)

Query == [rows : {<<>>} \cup UNION {[Holds(k) -> Row] : k \in Key}, stale : BOOLEAN,
          phase : {"idle", "paused", "sent", "read", "missing"},
          got : {<<>>} \cup UNION {[Holds(k) -> Row] : k \in Key},
          tries : 0..MaxQueryRetries, error : BOOLEAN, raced : BOOLEAN]

Call == [op : Op, book : Book \cup {NoBook}, visit : 0..MaxVisits, stamp : 0..MaxClock,
         server : {"unsent", "sent", "done", "refused"}, client : Busy \cup Over,
         early : BOOLEAN]

\* Types; what a query holds is the rows of its key; the dialog belongs to the list.
TypeOK ==
  /\ server \in [Book -> Row] /\ clock \in 0..MaxClock /\ roles \in RoleSets
  /\ page \in Page /\ visit \in 0..MaxVisits
  /\ form \in [base : NoRow..MaxClock, typed : BOOLEAN]
  /\ dialog \in Book \cup {NoBook} /\ (dialog # NoBook => page.at = "list")
  /\ leaving \in BOOLEAN /\ rendered \in BOOLEAN
  /\ query \in [Key -> Query]
  /\ \A k \in Key : HasData(query[k]) => DOMAIN query[k].rows = Holds(k)
  /\ calls \in Seq(Call) /\ Len(calls) <= MaxCalls

Older(k, c) == HasData(query[k]) /\ c.book \in Holds(k) /\ query[k].rows[c.book].stamp < c.stamp

\* Once a save or a deletion is over, every query that still holds older content of its
\* book is marked, and if a page shows it, it is being fetched or shown as an error
\* (useInvalidateBooks). Two are exempt: a first load that was under way at that moment,
\* which the library does not cancel, and the detail of a deleted book, which
\* useDeleteBook leaves as it is.
OwnSaveSeen ==
  \A i \in DOMAIN calls : calls[i].client = "settled" =>
    \A k \in Key : Older(k, calls[i]) =>
      \/ query[k].raced
      \/ calls[i].op = "Delete" /\ k = calls[i].book
      \/ /\ query[k].stale
         /\ k \in Active(page) => query[k].phase # "idle" \/ query[k].error

\* What one form or dialog sent is carried out in the order it was sent in, unless an
\* earlier request was given up unanswered (orvalFetch's time limit) and sent again, or
\* one of the later ones was submitted before the page had rendered its pending flag.
OwnSavesInOrder ==
  \A i, j \in DOMAIN calls :
    /\ i < j /\ calls[i].visit = calls[j].visit
    /\ \A k \in DOMAIN calls : i < k /\ k <= j => ~calls[k].early
    /\ calls[i].server = "done" /\ calls[j].server = "done"
    => calls[i].stamp < calls[j].stamp \/ calls[i].client = "failed"

\* Whatever the API would let a session do, with all of its roles or with any part of them,
\* the pages offer it (useUserPermissions against the policies; the converse does not hold).
AdmittedIsOffered ==
  \A R \in SUBSET roles : \A op \in Op : Admitted(op, R) => Offered(op, R)

\* While a page stays open, what the user typed is replaced only by a newer version of
\* the book than the one the form was filled from (the effect of BookForm).
EditsYieldToNewer ==
  [][visit' = visit /\ form.typed /\ ~form'.typed => form'.base > form.base]_vars

\* Nothing is held: neither a mutation nor a fetch.
LetGo == /\ Held = {}
         /\ \A k \in Key : query[k].phase # "paused"

\* Mutations come to an end, all of them, and with them the disabled form or dialog, unless
\* something is held on the way: the time limit ends the wait for the answer, and the
\* refetches it awaits end too. While the connection is down, a mutation that was submitted
\* without it stays pending, with no time limit.
MutationEnds ==
  (\E i \in DOMAIN calls : calls[i].client \in Busy)
    ~> (\A i \in DOMAIN calls : calls[i].client \in Over) \/ ~LetGo
=============================================================================
