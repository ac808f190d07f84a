-------------------------- MODULE BookAdminProofs --------------------------
(***************************************************************************)
(* Proofs about BookAdmin, for any books, roles, retries, changes, visits  *)
(* and mutations: its types, the order in which what one form sends is     *)
(* carried out, what a refetch may do to a form that is being edited, and  *)
(* that no query goes on holding what a save has overtaken.                *)
(***************************************************************************)
EXTENDS BookAdmin, TLAPS

LEMMA Bounds ==
  /\ MaxQueryRetries \in Nat /\ MaxClock \in Nat /\ MaxVisits \in Nat /\ MaxCalls \in Nat
  /\ NoBook \notin Book /\ "list" \notin Book
BY AdminAssumption DEF AdminAssumption

----------------------------------------------------------------------------
(* One query.                                                              *)

\* A query of key k: well typed, and what it holds or has been answered is the rows of k.
QueryOK(k, q) ==
  /\ q \in Query
  /\ HasData(q) => DOMAIN q.rows = Holds(k)
  /\ q.phase = "read" => q.got \in [Holds(k) -> Row]

\* What a query may hold or have been answered.
Contents == {<<>>} \cup UNION {[Holds(k) -> Row] : k \in Key}

LEMMA QueryIs ==
  /\ Query = [rows : Contents, stale : BOOLEAN, phase : {"idle", "paused", "sent", "read", "missing"},
              got : Contents, tries : 0..MaxQueryRetries, error : BOOLEAN, raced : BOOLEAN]
  /\ <<>> \in Contents /\ 0 \in 0..MaxQueryRetries
  /\ \A k \in Key : [Holds(k) -> Row] \subseteq Contents
<1>1. Query = [rows : Contents, stale : BOOLEAN, phase : {"idle", "paused", "sent", "read", "missing"},
               got : Contents, tries : 0..MaxQueryRetries, error : BOOLEAN, raced : BOOLEAN]
  BY Zenon DEF Query, Contents
<1>2. <<>> \in Contents /\ \A k \in Key : [Holds(k) -> Row] \subseteq Contents
  BY Zenon DEF Contents
<1>3. 0 \in 0..MaxQueryRetries
  BY Bounds
<1>4. QED
  BY <1>1, <1>2, <1>3, Zenon

LEMMA RowsTyped ==
  ASSUME NEW k \in Key, NEW q, QueryOK(k, q), HasData(q)
  PROVE  q.rows \in [Holds(k) -> Row]
BY DEF QueryOK, Query, HasData

LEMMA StartedOK ==
  ASSUME NEW k \in Key, NEW q, QueryOK(k, q), NEW held \in BOOLEAN
  PROVE  QueryOK(k, Started(q, held))
<1>1. (q.error /\ HasData(q)) \in BOOLEAN
  BY Zenon DEF QueryOK, Query, HasData
<1>2. /\ Started(q, held) \in Query /\ Started(q, held).rows = q.rows
      /\ Started(q, held).phase \in {"paused", "sent"}
  BY <1>1, QueryIs DEF QueryOK, Started
<1>3. QED
  BY <1>2 DEF QueryOK, HasData

LEMMA CancelledOK ==
  ASSUME NEW k \in Key, NEW q, QueryOK(k, q)
  PROVE  QueryOK(k, Cancelled(q)) /\ Cancelled(q).rows = q.rows
<1>1. Cancelled(q) \in Query /\ Cancelled(q).rows = q.rows /\ Cancelled(q).phase = "idle"
  BY QueryIs DEF QueryOK, Cancelled
<1>2. QED
  BY <1>1 DEF QueryOK, HasData

\* The flags of a query say nothing of what it holds.
LEMMA FlagsOK ==
  ASSUME NEW k \in Key, NEW q, QueryOK(k, q), NEW b \in BOOLEAN
  PROVE  /\ QueryOK(k, [q EXCEPT !.stale = b]) /\ QueryOK(k, [q EXCEPT !.raced = b])
         /\ QueryOK(k, [q EXCEPT !.error = b])
<1>1. /\ [q EXCEPT !.stale = b] \in Query /\ [q EXCEPT !.raced = b] \in Query
      /\ [q EXCEPT !.error = b] \in Query
  BY QueryIs DEF QueryOK
<1>2. QED
  BY <1>1, QueryIs DEF QueryOK, HasData

LEMMA EmptyQuery ==
  ASSUME NEW k \in Key
  PROVE  QueryOK(k, NoQuery) /\ ~HasData(NoQuery)
BY QueryIs DEF QueryOK, NoQuery, HasData

\* A query that no page shows any more keeps its rows, and fetches nothing.
LEMMA LeftOK ==
  ASSUME NEW k \in Key, NEW q, QueryOK(k, q)
  PROVE  QueryOK(k, Left(q)) /\ Left(q).rows = q.rows /\ Left(q).phase = "idle"
<1>1. QueryOK(k, Cancelled(q)) /\ Cancelled(q).rows = q.rows /\ Cancelled(q).phase = "idle"
  BY CancelledOK DEF Cancelled, QueryOK, Query
<1>2. QueryOK(k, NoQuery) /\ (~HasData(q) => NoQuery.rows = q.rows) /\ NoQuery.phase = "idle"
  BY EmptyQuery DEF NoQuery, HasData
<1>3. QED
  BY <1>1, <1>2 DEF Left

LEMMA MountedOK ==
  ASSUME NEW k \in Key, NEW q, QueryOK(k, q), NEW held \in BOOLEAN
  PROVE  QueryOK(k, Mounted(q, held))
BY StartedOK DEF Mounted

LEMMA InvalidatedOK ==
  ASSUME NEW k \in Key, NEW q, QueryOK(k, q), NEW active \in BOOLEAN, NEW held \in BOOLEAN
  PROVE  QueryOK(k, Invalidated(q, active, held))
<1> DEFINE marked == [q EXCEPT !.stale = TRUE]
           raced  == marked.raced \/ q.phase # "paused"
<1>1. QueryOK(k, marked)
  BY FlagsOK
<1>2. raced \in BOOLEAN
  BY <1>1, Zenon DEF QueryOK, Query
<1>3. Invalidated(q, active, held) \in {q, marked, [marked EXCEPT !.raced = raced], Started(marked, held)}
  BY DEF Invalidated
<1> HIDE DEF marked, raced
<1>4. QueryOK(k, [marked EXCEPT !.raced = raced]) /\ QueryOK(k, Started(marked, held))
  BY <1>1, <1>2, FlagsOK, StartedOK
<1>5. QED
  BY <1>1, <1>3, <1>4

LEMMA AgedOK ==
  ASSUME NEW k \in Key, NEW q, QueryOK(k, q)
  PROVE  QueryOK(k, [q EXCEPT !.stale = @ \/ HasData(q)])
<1>1. (q.stale \/ HasData(q)) \in BOOLEAN
  BY Zenon DEF QueryOK, Query, HasData
<1>2. QED
  BY <1>1, FlagsOK

----------------------------------------------------------------------------
(* The invariant.                                                          *)

ServerOK == server \in [Book -> Row] /\ clock \in 0..MaxClock /\ roles \in RoleSets

TabOK ==
  /\ page \in Page /\ visit \in 0..MaxVisits
  /\ form \in [base : NoRow..MaxClock, typed : BOOLEAN]
  /\ dialog \in Book \cup {NoBook} /\ (dialog # NoBook => page.at = "list")
  /\ leaving \in BOOLEAN /\ rendered \in BOOLEAN

CacheOK == query \in [Key -> Query] /\ \A k \in Key : QueryOK(k, query[k])

CallsOK == calls \in Seq(Call) /\ Len(calls) <= MaxCalls

Typed == ServerOK /\ TabOK /\ CacheOK /\ CallsOK

\* What the client has of a book is no newer than the book, and an answer under way no older
\* than what it will replace.
BookFresh(b) ==
  LET q == query[b] IN
  /\ HasData(q) => q.rows[b].live /\ q.rows[b].stamp <= server[b].stamp
  /\ q.phase = "read" => /\ q.got[b].live /\ q.got[b].stamp <= server[b].stamp
                         /\ HasData(q) => q.rows[b].stamp <= q.got[b].stamp

Fresh ==
  /\ \A b \in Book : server[b].stamp <= clock
  /\ \A b \in Book : BookFresh(b)
  /\ page.at = "edit" => form.base = FilledFrom(query[page.book], page.book).base

\* Where a call is on the client once its success is known there.
Succeeded == {"listing", "listed", "detailing", "detailed", "settled"}

\* A call belongs to a visit so far; an update names its book; a success on the client is
\* one at the API.
CallSound(c) ==
  /\ c.visit <= visit /\ (c.op = "Update" => c.book \in Book)
  /\ c.client = "gone" => c.visit < visit
  /\ c.server = "done" => c.stamp <= clock
  /\ c.client \in Succeeded => c.server = "done"

\* None of the calls from i to j was submitted before the page had rendered the one before.
NoneEarly(i, j) == \A k \in DOMAIN calls : i < k /\ k <= j => ~calls[k].early

\* The calls are in the order of the visits. A page that has rendered its pending flag sends
\* its next call only when the one before is over.
CallsInTurn ==
  /\ \A i \in DOMAIN calls : CallSound(calls[i])
  /\ \A i, j \in DOMAIN calls : i < j => calls[i].visit <= calls[j].visit
  /\ \A i, j \in DOMAIN calls :
       i < j /\ calls[i].visit = calls[j].visit /\ NoneEarly(i, j)
         => calls[i].client \in {"settled", "failed"}

IInv == Typed /\ Fresh /\ CallsInTurn /\ OwnSavesInOrder

LEMMA TypedIsTypeOK == Typed => TypeOK
BY DEF Typed, ServerOK, TabOK, CacheOK, CallsOK, QueryOK, TypeOK

LEMMA CallTyped ==
  ASSUME IInv, NEW i \in DOMAIN calls
  PROVE  /\ calls[i] \in Call /\ i \in Nat
         /\ calls[i].visit \in 0..MaxVisits /\ calls[i].visit \in Int
         /\ calls[i].stamp \in 0..MaxClock /\ calls[i].stamp \in Int
<1>1. calls[i] \in Call /\ i \in Nat
  BY DEF IInv, Typed, CallsOK
<1>2. calls[i].visit \in 0..MaxVisits /\ calls[i].stamp \in 0..MaxClock
  BY <1>1 DEF Call
<1>3. QED
  BY <1>1, <1>2, Bounds

LEMMA InitInvariant == Init => IInv
<1> SUFFICES ASSUME Init PROVE IInv
  OBVIOUS
<1>1. ServerOK
  BY Bounds DEF Init, ServerOK, Row
<1>2. TabOK
  <2>1. page \in Page
    BY Zenon DEF Init, Page
  <2>2. form \in [base : NoRow..MaxClock, typed : BOOLEAN] /\ visit \in 0..MaxVisits
    BY Bounds DEF Init, EmptyForm, NoRow
  <2>3. QED
    BY <2>1, <2>2, Zenon DEF Init, TabOK
<1>3. CacheOK
  BY EmptyQuery DEF Init, CacheOK, QueryOK
<1>4. CallsOK
  BY Bounds DEF Init, CallsOK
<1>5. Fresh
  BY EmptyQuery DEF Init, Fresh, BookFresh, NoQuery, Key
<1>6. CallsInTurn /\ OwnSavesInOrder
  BY DEF Init, CallsInTurn, OwnSavesInOrder
<1>7. QED
  BY <1>1, <1>2, <1>3, <1>4, <1>5, <1>6 DEF IInv, Typed

----------------------------------------------------------------------------
(* What several kinds of step share.                                       *)

\* A query goes on without new data: it may only lose what it has.
Tame(q, next) ==
  /\ next.rows = q.rows \/ ~HasData(next)
  /\ next.phase = "read" => q.phase = "read" /\ next.got = q.got /\ next.rows = q.rows

LEMMA TameSteps ==
  ASSUME NEW k \in Key, NEW q, QueryOK(k, q), NEW held \in BOOLEAN
  PROVE  /\ Tame(q, q) /\ Tame(q, NoQuery)
         /\ Tame(q, Started(q, held)) /\ Started(q, held).rows = q.rows
         /\ Tame(q, Cancelled(q)) /\ Cancelled(q).rows = q.rows
         /\ Tame(q, Left(q)) /\ Left(q).rows = q.rows
         /\ Tame(q, Mounted(q, held)) /\ Mounted(q, held).rows = q.rows
         /\ \A a \in BOOLEAN : /\ Tame(q, Invalidated(q, a, held))
                               /\ Invalidated(q, a, held).rows = q.rows
<1>1. /\ Tame(q, Started(q, held)) /\ Started(q, held).rows = q.rows
      /\ Tame(q, Cancelled(q)) /\ Cancelled(q).rows = q.rows
  BY DEF Tame, Started, Cancelled, QueryOK, Query
<1>2. Tame(q, Mounted(q, held)) /\ Mounted(q, held).rows = q.rows
  BY <1>1 DEF Mounted, Tame
<1>3. ASSUME NEW a \in BOOLEAN
      PROVE  Tame(q, Invalidated(q, a, held)) /\ Invalidated(q, a, held).rows = q.rows
  BY DEF Invalidated, Tame, Started, QueryOK, Query
<1>4. Tame(q, Left(q)) /\ Left(q).rows = q.rows
  BY LeftOK DEF Tame
<1>5. QED
  BY <1>1, <1>2, <1>3, <1>4 DEF Tame, NoQuery, HasData

LEMMA AgedTame ==
  ASSUME NEW k \in Key, NEW q, QueryOK(k, q)
  PROVE  Tame(q, [q EXCEPT !.stale = @ \/ HasData(q)])
BY DEF Tame, QueryOK, Query

LEMMA TameFresh ==
  ASSUME IInv, NEW b \in Book, Tame(query[b], query'[b]), server'[b] = server[b]
  PROVE  BookFresh(b)'
BY DEF IInv, Fresh, BookFresh, Tame, HasData

\* Every call keeps its request, and what the API has done with it; a page that is left for
\* good drops those it was waiting for.
LEMMA CallsRelabelled ==
  ASSUME IInv, calls' \in Seq(Call), Len(calls') = Len(calls), DOMAIN calls' = DOMAIN calls,
         visit' \in 0..MaxVisits, clock' \in 0..MaxClock, clock <= clock', visit <= visit',
         \A i \in DOMAIN calls :
           /\ calls'[i].visit = calls[i].visit /\ calls'[i].stamp = calls[i].stamp
           /\ calls'[i].op = calls[i].op /\ calls'[i].book = calls[i].book
           /\ calls'[i].early = calls[i].early
           /\ calls'[i].server = "done" <=> calls[i].server = "done"
           /\ \/ calls'[i].client = calls[i].client
              \/ calls'[i].client = "gone" /\ calls[i].client \in Busy /\ visit < visit'
  PROVE  CallsOK' /\ CallsInTurn' /\ OwnSavesInOrder'
<1>1. visit \in Int /\ clock \in Int /\ visit' \in Int /\ clock' \in Int
  BY Bounds DEF IInv, Typed, TabOK, ServerOK
<1>2. \A i \in DOMAIN calls : calls[i] \in Call /\ calls[i].visit \in Int /\ calls[i].stamp \in Int
  BY CallTyped
<1>3. ASSUME NEW i \in DOMAIN calls PROVE CallSound(calls[i])'
  <2>1. CallSound(calls[i])
    BY DEF IInv, CallsInTurn
  <2>2. QED
    BY <1>1, <1>2, <2>1 DEF CallSound, Succeeded
<1>4. \A i, j \in DOMAIN calls : NoneEarly(i, j)' => NoneEarly(i, j)
  BY DEF NoneEarly
<1>5. CallsInTurn'
  BY <1>3, <1>4 DEF IInv, CallsInTurn, Busy
<1>6. OwnSavesInOrder'
  <2>1. ASSUME NEW i \in DOMAIN calls, NEW j \in DOMAIN calls, i < j,
               calls'[i].visit = calls'[j].visit, NoneEarly(i, j)',
               calls'[i].server = "done", calls'[j].server = "done"
        PROVE  calls'[i].stamp < calls'[j].stamp \/ calls'[i].client = "failed"
    <3>1. NoneEarly(i, j) /\ calls[i].visit = calls[j].visit
      BY <1>4, <2>1
    <3>2. calls[i].stamp < calls[j].stamp \/ calls[i].client = "failed"
      BY <2>1, <3>1 DEF IInv, OwnSavesInOrder, NoneEarly
    <3>3. QED
      BY <3>2 DEF Busy
  <2>2. QED
    BY <2>1 DEF OwnSavesInOrder, NoneEarly
<1>7. QED
  BY <1>5, <1>6 DEF IInv, Typed, CallsOK

\* The calls stay as they are.
LEMMA CallsKept ==
  ASSUME IInv, UNCHANGED calls, visit' \in 0..MaxVisits, clock' \in 0..MaxClock,
         clock <= clock', visit <= visit'
  PROVE  CallsOK' /\ CallsInTurn' /\ OwnSavesInOrder'
BY CallsRelabelled DEF IInv, Typed, CallsOK

\* One call changes: it keeps its visit and its kind, and what is over stays over.
LEMMA CallChanged ==
  ASSUME IInv, NEW i \in DOMAIN calls, NEW c \in Call,
         calls' = [calls EXCEPT ![i] = c], UNCHANGED visit,
         clock <= clock', clock' \in 0..MaxClock,
         c.visit = calls[i].visit, c.early = calls[i].early, c.op = "Update" => c.book \in Book,
         calls[i].client \in {"settled", "failed"} => c.client = calls[i].client,
         c.client = "gone" => calls[i].client = "gone",
         c.server = "done" => c.stamp <= clock',
         c.client \in Succeeded => c.server = "done",
         c.server = "done" => \/ calls[i].server = "done" /\ c.stamp = calls[i].stamp
                              \/ calls[i].server = "sent" /\ clock < c.stamp
  PROVE  CallsOK' /\ CallsInTurn' /\ OwnSavesInOrder'
<1>1. visit \in Int /\ clock \in Int /\ clock' \in Int
  BY Bounds DEF IInv, Typed, TabOK, ServerOK
<1>2. \A j \in DOMAIN calls : /\ calls[j] \in Call /\ calls[j].visit \in Int
                              /\ calls[j].stamp \in Int /\ j \in Int
  BY CallTyped
<1>3. c.stamp \in Int
  <2>1. c.stamp \in 0..MaxClock
    BY DEF Call
  <2>2. QED
    BY <2>1, Bounds
<1>4. /\ calls' \in Seq(Call) /\ Len(calls') = Len(calls) /\ DOMAIN calls' = DOMAIN calls
      /\ calls'[i] = c /\ \A j \in DOMAIN calls : j # i => calls'[j] = calls[j]
  BY DEF IInv, Typed, CallsOK
<1>5. \A j \in DOMAIN calls : CallSound(calls[j])'
  <2>1. CallSound(c)'
    BY DEF IInv, CallsInTurn, CallSound
  <2>2. ASSUME NEW j \in DOMAIN calls, j # i PROVE CallSound(calls[j])'
    <3>1. calls'[j] = calls[j] /\ CallSound(calls[j])
      BY <1>4, <2>2 DEF IInv, CallsInTurn
    <3>2. QED
      BY <1>1, <1>2, <3>1 DEF CallSound
  <2>3. QED
    BY <1>4, <2>1, <2>2 DEF CallSound
<1>6. \A j \in DOMAIN calls : calls'[j].visit = calls[j].visit /\ calls'[j].early = calls[j].early
  BY <1>4
<1>7. \A j, m \in DOMAIN calls : NoneEarly(j, m)' => NoneEarly(j, m)
  BY <1>4, <1>6 DEF NoneEarly
<1>8. ASSUME NEW j \in DOMAIN calls, calls[j].client \in {"settled", "failed"}
      PROVE  calls'[j].client = calls[j].client
  BY <1>4, <1>8
<1>9. CallsInTurn'
  <2>1. \A j, m \in DOMAIN calls : j < m => calls'[j].visit <= calls'[m].visit
    BY <1>6 DEF IInv, CallsInTurn
  <2>2. ASSUME NEW j \in DOMAIN calls, NEW m \in DOMAIN calls, j < m,
               calls'[j].visit = calls'[m].visit, NoneEarly(j, m)'
        PROVE  calls'[j].client \in {"settled", "failed"}
    <3>1. calls[j].client \in {"settled", "failed"}
      BY <1>6, <1>7, <2>2 DEF IInv, CallsInTurn
    <3>2. QED
      BY <1>8, <3>1
  <2>3. QED
    BY <1>4, <1>5, <2>1, <2>2 DEF CallsInTurn
<1>10. ASSUME NEW j \in DOMAIN calls, NEW m \in DOMAIN calls, j < m, calls'[j].visit = calls'[m].visit,
              NoneEarly(j, m)', calls'[j].server = "done", calls'[m].server = "done"
       PROVE  calls'[j].stamp < calls'[m].stamp \/ calls'[j].client = "failed"
  <2>1. calls[j].visit = calls[m].visit /\ NoneEarly(j, m)
    BY <1>6, <1>7, <1>10
  <2>2. calls[j].client \in {"settled", "failed"} /\ (calls[j].client = "settled" => calls[j].server = "done")
    BY <1>10, <2>1 DEF IInv, CallsInTurn, CallSound, Succeeded
  <2>3. calls'[j].client = calls[j].client
    BY <1>8, <2>2
  <2>4. CASE calls[j].client = "settled"
    <3>1. calls[j].server = "done" /\ calls'[j].stamp = calls[j].stamp /\ calls[j].stamp <= clock
      BY <1>4, <1>10, <2>2, <2>4 DEF IInv, CallsInTurn, CallSound
    <3>2. CASE m = i /\ calls[i].server = "sent"
      BY <1>1, <1>2, <1>3, <1>4, <1>10, <3>1, <3>2
    <3>3. CASE ~(m = i /\ calls[i].server = "sent")
      <4>1. calls[m].server = "done" /\ calls'[m].stamp = calls[m].stamp
        BY <1>4, <1>10, <3>3
      <4>2. QED
        BY <1>10, <2>1, <2>4, <3>1, <4>1 DEF IInv, OwnSavesInOrder, NoneEarly
    <3>4. QED
      BY <3>2, <3>3
  <2>5. QED
    BY <2>2, <2>3, <2>4
<1>11. OwnSavesInOrder'
  BY <1>4, <1>10 DEF OwnSavesInOrder, NoneEarly
<1>12. QED
  BY <1>4, <1>9, <1>11 DEF CallsOK, IInv, Typed

----------------------------------------------------------------------------
(* Moving between pages.                                                   *)

LEMMA FilledTyped ==
  ASSUME NEW b \in Book, NEW q, QueryOK(b, q)
  PROVE  FilledFrom(q, b) \in [base : NoRow..MaxClock, typed : BOOLEAN]
<1>1. HasData(q) => q.rows[b] \in Row
  <2>1. b \in Key /\ b \in Holds(b)
    BY Bounds DEF Key, Holds
  <2>2. QED
    BY <2>1, RowsTyped
<1>2. (IF HasData(q) THEN q.rows[b].stamp ELSE NoRow) \in NoRow..MaxClock
  BY <1>1, Bounds DEF Row, NoRow
<1>3. QED
  BY <1>2 DEF FilledFrom

LEMMA SwitchedQueries ==
  ASSUME IInv, NEW p \in Page, NEW k \in Key, NEW held \in BOOLEAN
  PROVE  /\ QueryOK(k, Switched(p, held)[k])
         /\ Tame(query[k], Switched(p, held)[k]) /\ Switched(p, held)[k].rows = query[k].rows
<1> DEFINE q == IF k \in Active(page) THEN Left(query[k]) ELSE query[k]
<1>1. QueryOK(k, query[k])
  BY DEF IInv, Typed, CacheOK
<1>2. QueryOK(k, q) /\ Tame(query[k], q) /\ q.rows = query[k].rows
  BY <1>1, LeftOK, TameSteps
<1>3. Switched(p, held)[k] = IF k \in Active(p) THEN Mounted(q, held) ELSE q
  BY DEF Switched
<1> HIDE DEF q
<1>4. QueryOK(k, Mounted(q, held)) /\ Tame(q, Mounted(q, held)) /\ Mounted(q, held).rows = q.rows
  BY <1>2, MountedOK, TameSteps
<1>5. QED
  BY <1>2, <1>3, <1>4 DEF Tame, HasData

LEMMA OpenInvariant ==
  ASSUME IInv, NEW p \in Page, visit < MaxVisits, Open(p), UNCHANGED <<server, clock, roles, calls>>
  PROVE  IInv'
<1>1. PICK held \in BOOLEAN :
        /\ page' = p /\ visit' = visit + 1 /\ dialog' = NoBook /\ leaving' = FALSE
        /\ form' = IF p.at = "edit" THEN FilledFrom(query[p.book], p.book) ELSE EmptyForm
        /\ rendered' = TRUE /\ query' = Switched(p, held)
  BY Zenon DEF Open
<1>2. p.at = "edit" => p.book \in Book /\ p.book \in Key
  BY DEF Page, Key
<1>3. visit \in Int /\ visit' \in 0..MaxVisits /\ visit <= visit' /\ visit' # visit
  BY <1>1, Bounds DEF IInv, Typed, TabOK
<1>4. TabOK'
  <2>1. form' \in [base : NoRow..MaxClock, typed : BOOLEAN]
    <3>1. CASE p.at = "edit"
      BY <1>1, <1>2, <3>1, FilledTyped DEF IInv, Typed, CacheOK
    <3>2. CASE p.at # "edit"
      BY <1>1, <3>2, Bounds DEF EmptyForm, NoRow
    <3>3. QED
      BY <3>1, <3>2
  <2>2. QED
    BY <1>1, <1>3, <2>1 DEF TabOK
<1>5. /\ query' = [k \in Key |-> query'[k]]
      /\ \A k \in Key : /\ QueryOK(k, query'[k]) /\ Tame(query[k], query'[k])
                        /\ query'[k].rows = query[k].rows
  BY <1>1, SwitchedQueries DEF Switched
<1>6. CacheOK'
  BY <1>5 DEF CacheOK, QueryOK
<1>7. Fresh'
  <2>1. \A b \in Book : BookFresh(b)'
    BY <1>5, TameFresh DEF Key
  <2>2. p.at = "edit" => form'.base = FilledFrom(query'[p.book], p.book).base
    BY <1>1, <1>2, <1>5 DEF FilledFrom, HasData
  <2>3. QED
    BY <1>1, <2>1, <2>2 DEF Fresh, IInv
<1>8. ServerOK' /\ clock' \in 0..MaxClock /\ clock <= clock'
  BY Bounds DEF IInv, Typed, ServerOK
<1>9. CallsOK' /\ CallsInTurn' /\ OwnSavesInOrder'
  BY <1>3, <1>8, CallsKept
<1>10. QED
  BY <1>4, <1>6, <1>7, <1>8, <1>9 DEF IInv, Typed

LEMMA ArriveInvariant ==
  ASSUME IInv, Arrive
  PROVE  IInv'
<1>1. CASE page.at = "list"
  <2>1. /\ leaving' = FALSE
        /\ UNCHANGED <<server, clock, roles, calls, page, visit, form, dialog, rendered, query>>
    BY <1>1 DEF Arrive
  <2>2. Typed' /\ Fresh'
    BY <2>1 DEF IInv, Typed, ServerOK, TabOK, CacheOK, CallsOK, Fresh, BookFresh
  <2>3. CallsInTurn' /\ OwnSavesInOrder'
    BY <2>1 DEF IInv, CallsInTurn, CallSound, NoneEarly, OwnSavesInOrder
  <2>4. QED
    BY <2>2, <2>3 DEF IInv
<1>2. CASE page.at # "list"
  <2>1. At("list", NoBook) \in Page
    BY Zenon DEF Page, At
  <2>2. QED
    BY <1>2, <2>1, OpenInvariant DEF Arrive
<1>3. QED
  BY <1>1, <1>2

LEMMA LoadInvariant ==
  ASSUME IInv, NEW p \in Page, Load(p)
  PROVE  IInv'
<1>1. /\ visit < MaxVisits /\ page' = p /\ visit' = visit + 1
      /\ form' = EmptyForm /\ dialog' = NoBook /\ leaving' = FALSE /\ rendered' = TRUE
      /\ query' = [k \in Key |-> IF k \in Active(p) THEN Started(NoQuery, FALSE) ELSE NoQuery]
      /\ UNCHANGED <<server, clock, roles>>
  BY DEF Load
<1>2. visit \in Int /\ clock \in Int /\ visit' \in 0..MaxVisits /\ visit < visit'
  BY <1>1, Bounds DEF IInv, Typed, TabOK, ServerOK
<1>3. TabOK' /\ ServerOK'
  <2>1. form' \in [base : NoRow..MaxClock, typed : BOOLEAN]
    BY <1>1, Bounds DEF EmptyForm, NoRow
  <2>2. QED
    BY <1>1, <1>2, <2>1 DEF TabOK, ServerOK, IInv, Typed
<1>4. \A k \in Key : /\ QueryOK(k, query'[k]) /\ ~HasData(query'[k])
                     /\ query'[k].phase # "read"
  <2>1. \A k \in Key : QueryOK(k, NoQuery) /\ QueryOK(k, Started(NoQuery, FALSE))
    BY EmptyQuery, StartedOK
  <2>2. /\ ~HasData(NoQuery) /\ ~HasData(Started(NoQuery, FALSE))
        /\ NoQuery.phase # "read" /\ Started(NoQuery, FALSE).phase # "read"
    BY DEF NoQuery, Started, HasData
  <2>3. QED
    BY <1>1, <2>1, <2>2
<1>5. CacheOK'
  BY <1>1, <1>4 DEF CacheOK, QueryOK
<1>6. Fresh'
  <2>1. \A b \in Book : BookFresh(b)'
    BY <1>4 DEF BookFresh, Key
  <2>2. p.at = "edit" => p.book \in Key
    BY DEF Page, Key
  <2>3. QED
    BY <1>1, <1>4, <2>1, <2>2 DEF Fresh, FilledFrom, EmptyForm, IInv
<1>7. /\ calls' \in Seq(Call) /\ Len(calls') = Len(calls) /\ DOMAIN calls' = DOMAIN calls
      /\ \A i \in DOMAIN calls :
           calls'[i] = IF calls[i].client \in Busy THEN [calls[i] EXCEPT !.client = "gone"] ELSE calls[i]
  <2>1. calls' = [i \in DOMAIN calls |->
                    IF calls[i].client \in Busy THEN [calls[i] EXCEPT !.client = "gone"] ELSE calls[i]]
    BY DEF Load
  <2>2. \A i \in DOMAIN calls : [calls[i] EXCEPT !.client = "gone"] \in Call /\ calls[i] \in Call
    BY CallTyped DEF Call, Over
  <2>3. DOMAIN calls = 1..Len(calls) /\ Len(calls) \in Nat
    BY DEF IInv, Typed, CallsOK
  <2>4. QED
    BY <2>1, <2>2, <2>3
<1>8. \A i \in DOMAIN calls :
        /\ calls'[i].visit = calls[i].visit /\ calls'[i].stamp = calls[i].stamp
        /\ calls'[i].server = calls[i].server /\ calls'[i].op = calls[i].op
        /\ calls'[i].book = calls[i].book /\ calls'[i].early = calls[i].early
        /\ calls'[i].client = calls[i].client \/ (calls'[i].client = "gone" /\ calls[i].client \in Busy)
  BY <1>7, CallTyped DEF Call
<1>9. CallsOK' /\ CallsInTurn' /\ OwnSavesInOrder'
  BY <1>1, <1>2, <1>7, <1>8, CallsRelabelled DEF IInv, Typed, ServerOK
<1>10. QED
  BY <1>3, <1>5, <1>6, <1>9 DEF IInv, Typed

----------------------------------------------------------------------------
(* The form and the dialog.                                                *)

\* The cache, the API and the page stay as they are.
LEMMA FormInvariant ==
  ASSUME IInv, UNCHANGED <<server, clock, roles, page, visit, leaving, query, calls>>,
         form' = form \/ form' = [form EXCEPT !.typed = TRUE], rendered' \in BOOLEAN,
         dialog' = dialog \/ dialog' = NoBook \/ (dialog' \in Book /\ page.at = "list")
  PROVE  IInv'
<1>1. form' \in [base : NoRow..MaxClock, typed : BOOLEAN] /\ form'.base = form.base
  BY DEF IInv, Typed, TabOK
<1>2. Typed' /\ Fresh'
  BY <1>1 DEF IInv, Typed, ServerOK, TabOK, CacheOK, CallsOK, Fresh, BookFresh
<1>3. CallsInTurn' /\ OwnSavesInOrder'
  BY DEF IInv, CallsInTurn, CallSound, NoneEarly, OwnSavesInOrder
<1>4. QED
  BY <1>2, <1>3 DEF IInv

LEMMA RenderInvariant ==
  ASSUME IInv, Render
  PROVE  IInv'
BY FormInvariant DEF Render

\* The last call of this page that the page has rendered is over, and so are those before it.
LEMMA OthersAreOver ==
  ASSUME IInv, ~Pending, NEW i \in DOMAIN calls, calls[i].visit = visit, NoneEarly(i, Len(calls))
  PROVE  calls[i].client \in {"settled", "failed"}
<1> DEFINE n == Len(calls)
<1>1. n \in Nat /\ n \in DOMAIN calls /\ i \in Nat /\ i <= n
  BY DEF IInv, Typed, CallsOK
<1>2. visit \in Int /\ calls[n].visit \in Int /\ calls[n] \in Call
  BY <1>1, CallTyped, Bounds DEF IInv, Typed, TabOK
<1>3. calls[n].visit = visit
  <2>1. i < n => calls[i].visit <= calls[n].visit
    BY <1>1 DEF IInv, CallsInTurn
  <2>2. calls[n].visit <= visit
    BY <1>1 DEF IInv, CallsInTurn, CallSound
  <2>3. QED
    BY <1>1, <1>2, <2>1, <2>2
<1>4. calls[n].client \in {"settled", "failed"}
  <2>1. calls[n].client \notin Busy
    BY <1>1, <1>3 DEF Pending
  <2>2. calls[n].client # "gone"
    BY <1>1, <1>2, <1>3 DEF IInv, CallsInTurn, CallSound
  <2>3. QED
    BY <1>2, <2>1, <2>2 DEF Call, Over
<1>5. QED
  BY <1>1, <1>3, <1>4 DEF IInv, CallsInTurn

\* A page that has rendered sends a call only while none of its own is under way.
LEMMA SendInvariant ==
  ASSUME IInv, NEW op \in Op, NEW b \in Book \cup {NoBook}, Send(op, b), ~Disabled,
         op = "Update" => b \in Book
  PROVE  IInv'
<1> DEFINE n == Len(calls)
<1>1. PICK c \in Call :
        /\ calls' = Append(calls, c)
        /\ c.visit = visit /\ c.op = op /\ c.book = b /\ c.client = "waiting"
        /\ c.server # "done" /\ c.early = ~rendered
  <2>1. PICK s \in {"unsent", "sent"} :
          calls' = Append(calls, [op |-> op, book |-> b, visit |-> visit, stamp |-> 0,
                                  server |-> s, client |-> "waiting", early |-> ~rendered])
    BY DEF Send
  <2>2. visit \in 0..MaxVisits /\ 0 \in 0..MaxClock
    BY Bounds DEF IInv, Typed, TabOK
  <2>3. (~rendered) \in BOOLEAN
    BY Zenon
  <2> DEFINE c == [op |-> op, book |-> b, visit |-> visit, stamp |-> 0,
                   server |-> s, client |-> "waiting", early |-> ~rendered]
  <2>4. c \in Call
    BY <2>2, <2>3 DEF Call, Busy
  <2>5. /\ c.visit = visit /\ c.op = op /\ c.book = b /\ c.client = "waiting"
        /\ c.server # "done" /\ c.early = ~rendered
    OBVIOUS
  <2> HIDE DEF c
  <2>6. calls' = Append(calls, c)
    BY <2>1 DEF c
  <2>7. QED
    BY <2>4, <2>5, <2>6, Zenon
<1>2. /\ n < MaxCalls /\ rendered' = FALSE
      /\ UNCHANGED <<server, clock, roles, page, visit, form, dialog, leaving, query>>
  BY DEF Send
<1>3. /\ calls' \in Seq(Call) /\ Len(calls') = n + 1 /\ DOMAIN calls' = 1..(n + 1)
      /\ DOMAIN calls = 1..n /\ n \in Nat
      /\ calls'[n + 1] = c /\ \A i \in DOMAIN calls : calls'[i] = calls[i]
  BY <1>1 DEF IInv, Typed, CallsOK
<1>4. Typed' /\ Fresh'
  <2>1. TabOK'
    BY <1>2 DEF IInv, Typed, TabOK
  <2>2. CallsOK'
    BY <1>2, <1>3, Bounds DEF CallsOK
  <2>3. ServerOK' /\ CacheOK' /\ Fresh'
    BY <1>2 DEF IInv, Typed, ServerOK, CacheOK, Fresh, BookFresh
  <2>4. QED
    BY <2>1, <2>2, <2>3 DEF Typed
<1>5. visit \in Int
  BY Bounds DEF IInv, Typed, TabOK
<1>6. ASSUME NEW i \in DOMAIN calls' PROVE CallSound(calls[i])'
  <2>1. CASE i = n + 1
    BY <1>1, <1>2, <1>3, <1>5, <2>1 DEF CallSound, Succeeded
  <2>2. CASE i \in DOMAIN calls
    <3>1. CallSound(calls[i])
      BY <2>2 DEF IInv, CallsInTurn
    <3>2. QED
      BY <1>2, <1>3, <2>2, <3>1 DEF CallSound
  <2>3. QED
    BY <1>3, <2>1, <2>2
<1>7. ASSUME NEW i \in DOMAIN calls', NEW j \in DOMAIN calls', i < j
      PROVE  calls'[i].visit <= calls'[j].visit
  <2>1. i \in DOMAIN calls
    BY <1>3, <1>7
  <2>2. CASE j \in DOMAIN calls
    BY <1>3, <1>7, <2>1, <2>2 DEF IInv, CallsInTurn
  <2>3. CASE j = n + 1
    BY <1>1, <1>3, <2>1, <2>3 DEF IInv, CallsInTurn, CallSound
  <2>4. QED
    BY <1>3, <2>2, <2>3
<1>8. ASSUME NEW i \in DOMAIN calls, NEW j \in DOMAIN calls', NoneEarly(i, j)'
      PROVE  /\ j \in DOMAIN calls => NoneEarly(i, j)
             /\ j = n + 1 => rendered /\ NoneEarly(i, n)
  <2>1. \A k \in DOMAIN calls : k \in DOMAIN calls' /\ calls'[k].early = calls[k].early /\ k < n + 1
    BY <1>3
  <2>2. j \in DOMAIN calls => NoneEarly(i, j)
    BY <1>8, <2>1 DEF NoneEarly
  <2>3. j = n + 1 => NoneEarly(i, n)
    BY <1>3, <1>8, <2>1 DEF NoneEarly
  <2>4. j = n + 1 => rendered
    <3>1. ASSUME j = n + 1 PROVE ~calls'[n + 1].early
      BY <1>3, <1>8, <3>1 DEF NoneEarly
    <3>2. calls'[n + 1].early = ~rendered
      BY <1>1, <1>3
    <3>3. QED
      BY <3>1, <3>2, Zenon
  <2>5. QED
    BY <2>2, <2>3, <2>4
<1>9. ASSUME NEW i \in DOMAIN calls', NEW j \in DOMAIN calls', i < j,
             calls'[i].visit = calls'[j].visit, NoneEarly(i, j)'
      PROVE  calls'[i].client \in {"settled", "failed"}
  <2>1. i \in DOMAIN calls
    BY <1>3, <1>9
  <2>2. CASE j \in DOMAIN calls
    BY <1>3, <1>8, <1>9, <2>1, <2>2 DEF IInv, CallsInTurn
  <2>3. CASE j = n + 1
    <3>1. calls[i].visit = visit
      BY <1>1, <1>3, <1>9, <2>1, <2>3
    <3>2. ~Pending /\ NoneEarly(i, n)
      BY <1>8, <1>9, <2>1, <2>3 DEF Disabled
    <3>3. QED
      BY <1>3, <2>1, <3>1, <3>2, OthersAreOver
  <2>4. QED
    BY <1>3, <2>2, <2>3
<1>10. OwnSavesInOrder'
  <2>1. ASSUME NEW i \in DOMAIN calls', NEW j \in DOMAIN calls', i < j,
               calls'[i].visit = calls'[j].visit, NoneEarly(i, j)',
               calls'[i].server = "done", calls'[j].server = "done"
        PROVE  calls'[i].stamp < calls'[j].stamp \/ calls'[i].client = "failed"
    <3>1. i \in DOMAIN calls /\ j \in DOMAIN calls
      BY <1>1, <1>3, <2>1
    <3>2. NoneEarly(i, j)
      BY <1>8, <2>1, <3>1
    <3>3. QED
      BY <1>3, <2>1, <3>1, <3>2 DEF IInv, OwnSavesInOrder, NoneEarly
  <2>2. QED
    BY <2>1 DEF OwnSavesInOrder, NoneEarly
<1>11. QED
  BY <1>4, <1>6, <1>7, <1>9, <1>10 DEF IInv, CallsInTurn

LEMMA SubmitInvariant ==
  ASSUME IInv, submit
  PROVE  IInv'
<1>1. /\ FormShown /\ ~Disabled
      /\ IF page.at = "edit" THEN Send("Update", page.book) ELSE Send("Create", NoBook)
  BY DEF submit, Pressable, isEditMode, putApiV1BooksId, postApiV1Books
<1>2. page.at = "edit" => page.book \in Book
  BY DEF IInv, Typed, TabOK, Page
<1>3. CASE page.at = "edit"
  BY <1>1, <1>2, <1>3, SendInvariant DEF Op
<1>4. CASE page.at # "edit"
  BY <1>1, <1>4, SendInvariant DEF Op
<1>5. QED
  BY <1>3, <1>4

LEMMA ConfirmInvariant ==
  ASSUME IInv, handleConfirm
  PROVE  IInv'
<1>1. dialog \in Book /\ ~Disabled /\ Send("Delete", dialog)
  BY DEF handleConfirm, Pressable, deleteApiV1BooksId, IInv, Typed, TabOK
<1>2. QED
  BY <1>1, SendInvariant DEF Op

----------------------------------------------------------------------------
(* The API.                                                                *)

LEMMA WriteFresh ==
  ASSUME IInv, NEW b \in Book, NEW live \in BOOLEAN, Write(b, live),
         UNCHANGED <<roles, tab, query>>
  PROVE  /\ ServerOK' /\ TabOK' /\ CacheOK' /\ Fresh'
         /\ clock' = clock + 1 /\ clock \in Int /\ clock' \in 0..MaxClock /\ clock <= clock'
<1>1. /\ clock < MaxClock /\ clock' = clock + 1
      /\ server' = [server EXCEPT ![b] = [stamp |-> clock + 1, live |-> live]]
  BY DEF Write
<1>2. /\ clock \in Int /\ clock' \in 0..MaxClock /\ clock <= clock' /\ clock + 1 \in 0..MaxClock
  BY <1>1, Bounds DEF IInv, Typed, ServerOK
<1>3. server \in [Book -> Row] /\ [stamp |-> clock + 1, live |-> live] \in Row
  BY <1>2 DEF IInv, Typed, ServerOK, Row
<1>4. ServerOK' /\ TabOK' /\ CacheOK'
  BY <1>1, <1>2, <1>3 DEF IInv, Typed, ServerOK, TabOK, CacheOK, tab
<1>5. \A k \in Book : /\ server[k].stamp \in Int /\ server'[k].stamp \in Int
                      /\ server[k].stamp <= server'[k].stamp /\ server'[k].stamp <= clock'
  <2>1. \A k \in Book : server[k].stamp \in 0..MaxClock /\ server[k].stamp <= clock
    BY <1>3 DEF IInv, Fresh, Row
  <2>2. QED
    BY <1>1, <1>2, <1>3, <2>1, Bounds
<1>6. ASSUME NEW k \in Book PROVE BookFresh(k)'
  <2>1. QueryOK(k, query[k]) /\ k \in Key /\ k \in Holds(k)
    BY Bounds DEF IInv, Typed, CacheOK, Key, Holds
  <2>2. /\ HasData(query[k]) => query[k].rows[k].stamp \in Int
        /\ query[k].phase = "read" => query[k].got[k].stamp \in Int
    BY <2>1, RowsTyped, Bounds DEF QueryOK, Row
  <2>3. query' = query
    OBVIOUS
  <2>4. QED
    BY <1>5, <2>2, <2>3 DEF IInv, Fresh, BookFresh, HasData
<1>7. Fresh'
  BY <1>5, <1>6 DEF IInv, Fresh, tab
<1>8. QED
  BY <1>1, <1>2, <1>4, <1>7

LEMMA OtherWriteInvariant ==
  ASSUME IInv, NEW b \in Book, OtherWrite(b)
  PROVE  IInv'
<1>1. /\ \E live \in BOOLEAN : Write(b, live)
      /\ UNCHANGED <<roles, tab, query, calls>>
  BY DEF OtherWrite
<1>2. /\ ServerOK' /\ TabOK' /\ CacheOK' /\ Fresh'
      /\ clock' \in 0..MaxClock /\ clock <= clock'
  BY <1>1, WriteFresh
<1>3. visit' \in 0..MaxVisits /\ visit <= visit'
  BY <1>1, Bounds DEF tab, IInv, Typed, TabOK
<1>4. CallsOK' /\ CallsInTurn' /\ OwnSavesInOrder'
  BY <1>1, <1>2, <1>3, CallsKept
<1>5. QED
  BY <1>2, <1>4 DEF IInv, Typed

LEMMA CommitInvariant ==
  ASSUME IInv, NEW i \in DOMAIN calls, Commit(i)
  PROVE  IInv'
<1>1. PICK b \in Book :
        /\ calls[i].server = "sent"
        /\ Write(b, calls[i].op # "Delete")
        /\ calls' = [calls EXCEPT ![i].server = "done", ![i].book = b, ![i].stamp = clock + 1]
        /\ UNCHANGED <<roles, tab, query>>
  BY DEF Commit, Unborn
<1>2. /\ ServerOK' /\ TabOK' /\ CacheOK' /\ Fresh'
      /\ clock' = clock + 1 /\ clock \in Int /\ clock' \in 0..MaxClock /\ clock <= clock'
  <2>1. (calls[i].op # "Delete") \in BOOLEAN
    OBVIOUS
  <2>2. QED
    BY <1>1, <2>1, WriteFresh
<1> DEFINE c == [calls[i] EXCEPT !.server = "done", !.book = b, !.stamp = clock + 1]
<1>3. calls[i] \in Call
  BY CallTyped
<1>4. /\ c \in Call
      /\ c.visit = calls[i].visit /\ c.early = calls[i].early /\ c.client = calls[i].client
      /\ c.server = "done" /\ c.stamp = clock + 1 /\ c.book \in Book
  BY <1>2, <1>3 DEF Call
<1>5. calls' = [calls EXCEPT ![i] = c]
  BY <1>1, <1>3 DEF IInv, Typed, CallsOK
<1> HIDE DEF c
<1>6. UNCHANGED visit /\ c.stamp <= clock' /\ clock < c.stamp
  BY <1>1, <1>2, <1>4 DEF tab
<1>7. CallsOK' /\ CallsInTurn' /\ OwnSavesInOrder'
  <2>1. c.client = "gone" => calls[i].client = "gone"
    BY <1>4
  <2>2. calls[i].client \in {"settled", "failed"} => c.client = calls[i].client
    BY <1>4
  <2>3. QED
    BY <1>1, <1>2, <1>4, <1>5, <1>6, <2>1, <2>2, CallChanged
<1>8. QED
  BY <1>2, <1>7 DEF IInv, Typed

\* Only calls change, one of them, and its request is not carried out by that.
LEMMA ClientInvariant ==
  ASSUME IInv, NEW i \in DOMAIN calls, NEW s \in {"unsent", "sent", "done", "refused"},
         NEW v \in Busy \cup Over,
         calls' = [calls EXCEPT ![i] = [@ EXCEPT !.server = s, !.client = v]],
         s # calls[i].server => s # "done",
         calls[i].client \in {"settled", "failed"} => v = calls[i].client,
         v = "gone" => calls[i].client = "gone",
         v \in Succeeded => s = "done",
         UNCHANGED <<clock, visit>>
  PROVE  CallsOK' /\ CallsInTurn' /\ OwnSavesInOrder'
<1> DEFINE c == [calls[i] EXCEPT !.server = s, !.client = v]
<1>1. calls[i] \in Call /\ clock \in Int /\ clock' \in 0..MaxClock /\ clock <= clock'
  BY CallTyped, Bounds DEF IInv, Typed, ServerOK
<1>2. /\ c \in Call /\ c.visit = calls[i].visit /\ c.early = calls[i].early /\ c.op = calls[i].op
      /\ c.stamp = calls[i].stamp /\ c.server = s /\ c.client = v /\ c.book = calls[i].book
  BY <1>1 DEF Call
<1>3. calls' = [calls EXCEPT ![i] = c]
  BY DEF IInv, Typed, CallsOK
<1> HIDE DEF c
<1>4. c.server = "done" => calls[i].server = "done" /\ c.stamp = calls[i].stamp /\ c.stamp <= clock'
  BY <1>2 DEF IInv, CallsInTurn, CallSound
<1>5. /\ c.server = "done" => c.stamp <= clock'
      /\ c.server = "done" => \/ calls[i].server = "done" /\ c.stamp = calls[i].stamp
                              \/ calls[i].server = "sent" /\ clock < c.stamp
      /\ calls[i].client \in {"settled", "failed"} => c.client = calls[i].client
      /\ c.client = "gone" => calls[i].client = "gone"
      /\ c.client \in Succeeded => c.server = "done"
  BY <1>2, <1>4, Zenon
<1>6. UNCHANGED visit /\ (c.op = "Update" => c.book \in Book)
  BY <1>2 DEF IInv, CallsInTurn, CallSound
<1>7. QED
  BY <1>1, <1>2, <1>3, <1>5, <1>6, CallChanged

LEMMA RefuseInvariant ==
  ASSUME IInv, NEW i \in DOMAIN calls, Refuse(i)
  PROVE  IInv'
<1>1. /\ calls[i].server = "sent"
      /\ calls' = [calls EXCEPT ![i].server = "refused",
                                ![i].client = IF @ = "waiting" THEN "failed" ELSE @]
      /\ UNCHANGED <<server, clock, roles, tab, query>>
  BY DEF Refuse
<1> DEFINE v == IF calls[i].client = "waiting" THEN "failed" ELSE calls[i].client
<1>2. calls[i] \in Call /\ calls[i].client \in Busy \cup Over
  BY CallTyped DEF Call
<1>3. calls' = [calls EXCEPT ![i] = [@ EXCEPT !.server = "refused", !.client = v]]
  BY <1>1, <1>2 DEF IInv, Typed, CallsOK, Call
<1>4. calls[i].client \notin Succeeded
  BY <1>1 DEF IInv, CallsInTurn, CallSound
<1>5. /\ v \in Busy \cup Over /\ v \notin Succeeded /\ (v = "gone" => calls[i].client = "gone")
      /\ calls[i].client \in {"settled", "failed"} => v = calls[i].client
  BY <1>2, <1>4 DEF Over, Succeeded
<1> HIDE DEF v
<1>6. CallsOK' /\ CallsInTurn' /\ OwnSavesInOrder'
  BY <1>1, <1>3, <1>5, ClientInvariant DEF tab
<1>7. QED
  BY <1>1, <1>6 DEF IInv, Typed, ServerOK, TabOK, CacheOK, Fresh, BookFresh, tab

----------------------------------------------------------------------------
(* The callbacks of a mutation.                                            *)

\* A callback moves its call on at the client.
LEMMA CallbackCalls ==
  ASSUME IInv, NEW i \in DOMAIN calls, NEW v \in Busy \cup Over,
         calls' = [calls EXCEPT ![i].client = v],
         calls[i].client \notin {"settled", "failed"}, v # "gone",
         v \in Succeeded => calls[i].server = "done",
         UNCHANGED <<clock, visit>>
  PROVE  CallsOK' /\ CallsInTurn' /\ OwnSavesInOrder'
<1>1. calls[i] \in Call /\ calls[i].server \in {"unsent", "sent", "done", "refused"}
  BY CallTyped DEF Call
<1>2. calls' = [calls EXCEPT ![i] = [@ EXCEPT !.server = calls[i].server, !.client = v]]
  BY <1>1 DEF IInv, Typed, CallsOK, Call
<1>3. QED
  BY <1>1, <1>2, ClientInvariant

LEMMA LoseInvariant ==
  ASSUME IInv, NEW i \in DOMAIN calls, Lose(i)
  PROVE  IInv'
<1>1. /\ calls[i].client = "waiting" /\ calls' = [calls EXCEPT ![i].client = "failed"]
      /\ UNCHANGED <<server, clock, roles, tab, query>>
  BY DEF Lose
<1>2. CallsOK' /\ CallsInTurn' /\ OwnSavesInOrder'
  <2>1. "failed" \in Busy \cup Over /\ "failed" \notin Succeeded /\ UNCHANGED <<clock, visit>>
    BY <1>1 DEF Over, Succeeded, tab
  <2>2. QED
    BY <1>1, <2>1, CallbackCalls
<1>3. QED
  BY <1>1, <1>2 DEF IInv, Typed, ServerOK, TabOK, CacheOK, Fresh, BookFresh, tab

\* The mutations that were held are sent, and nothing else happens to them.
LEMMA ResumedCalls ==
  ASSUME IInv, Resume
  PROVE  /\ calls' \in Seq(Call) /\ Len(calls') = Len(calls) /\ DOMAIN calls' = DOMAIN calls
         /\ \A i \in DOMAIN calls :
              /\ calls'[i].visit = calls[i].visit /\ calls'[i].stamp = calls[i].stamp
              /\ calls'[i].op = calls[i].op /\ calls'[i].book = calls[i].book
              /\ calls'[i].early = calls[i].early /\ calls'[i].client = calls[i].client
              /\ calls'[i].server = "done" <=> calls[i].server = "done"
<1>1. calls' = [i \in DOMAIN calls |-> IF i \in Held THEN [calls[i] EXCEPT !.server = "sent"] ELSE calls[i]]
  BY DEF Resume
<1>2. \A i \in DOMAIN calls : calls[i] \in Call /\ [calls[i] EXCEPT !.server = "sent"] \in Call
  BY CallTyped DEF Call
<1>3. DOMAIN calls = 1..Len(calls) /\ Len(calls) \in Nat
  BY DEF IInv, Typed, CallsOK
<1>4. calls' \in Seq(Call) /\ Len(calls') = Len(calls) /\ DOMAIN calls' = DOMAIN calls
  BY <1>1, <1>2, <1>3
<1>5. ASSUME NEW i \in DOMAIN calls
      PROVE  /\ calls'[i].visit = calls[i].visit /\ calls'[i].stamp = calls[i].stamp
             /\ calls'[i].op = calls[i].op /\ calls'[i].book = calls[i].book
             /\ calls'[i].early = calls[i].early /\ calls'[i].client = calls[i].client
             /\ calls'[i].server = "done" <=> calls[i].server = "done"
  <2>1. calls'[i] = IF i \in Held THEN [calls[i] EXCEPT !.server = "sent"] ELSE calls[i]
    BY <1>1
  <2>2. i \in Held => calls[i].server = "unsent"
    BY DEF Held
  <2>3. QED
    BY <1>2, <2>1, <2>2 DEF Call
<1>6. QED
  BY <1>4, <1>5

LEMMA ResumeInvariant ==
  ASSUME IInv, Resume
  PROVE  IInv'
<1>1. UNCHANGED <<server, clock, roles, tab, query>>
  BY DEF Resume
<1>2. visit' \in 0..MaxVisits /\ clock' \in 0..MaxClock /\ clock <= clock' /\ visit <= visit'
  BY <1>1, Bounds DEF IInv, Typed, TabOK, ServerOK, tab
<1>3. CallsOK' /\ CallsInTurn' /\ OwnSavesInOrder'
  BY <1>2, ResumedCalls, CallsRelabelled
<1>4. QED
  BY <1>1, <1>3 DEF IInv, Typed, ServerOK, TabOK, CacheOK, Fresh, BookFresh, tab

\* One query goes on without new data, and the form stays.
LEMMA QueryInvariant ==
  ASSUME IInv, NEW k \in Key, NEW q, query' = [query EXCEPT ![k] = q],
         QueryOK(k, q), Tame(query[k], q), q.rows = query[k].rows \/ k \notin Active(page),
         UNCHANGED <<server, clock, form, page>>
  PROVE  CacheOK' /\ Fresh'
<1>1. query \in [Key -> Query] /\ \A j \in Key : QueryOK(j, query[j])
  BY DEF IInv, Typed, CacheOK
<1>2. query'[k] = q /\ \A j \in Key : j # k => query'[j] = query[j]
  BY <1>1
<1>3. CacheOK'
  BY <1>1, <1>2 DEF CacheOK, QueryOK
<1>4. \A b \in Book : BookFresh(b)'
  <2>1. \A j \in Key : Tame(query[j], query'[j])
    BY <1>1, <1>2, TameSteps
  <2>2. QED
    BY <2>1, TameFresh DEF Key
<1>5. page.at = "edit" => form.base = FilledFrom(query'[page.book], page.book).base
  <2>1. ASSUME page.at = "edit" PROVE query'[page.book].rows = query[page.book].rows
    <3>1. page.book \in Key /\ page.book \in Active(page)
      BY <2>1 DEF IInv, Typed, TabOK, Page, Key, Active
    <3>2. QED
      BY <1>2, <3>1
  <2>2. QED
    BY <2>1 DEF IInv, Fresh, FilledFrom, HasData
<1>6. QED
  BY <1>3, <1>4, <1>5 DEF IInv, Fresh

\* A step of a success: what it moves its call to, and the query it invalidates.
LEMMA InvalidateSteps ==
  ASSUME IInv, NEW i \in DOMAIN calls, InvalidateList(i) \/ InvalidateDetail(i)
  PROVE  \E k \in Key, held \in BOOLEAN, v \in Succeeded \ {"settled"} :
           /\ calls[i].server = "done" /\ calls[i].client \notin {"settled", "failed"}
           /\ query' = [query EXCEPT ![k] = Invalidated(query[k], k \in Active(page), held)]
           /\ calls' = [calls EXCEPT ![i].client = v]
           /\ \/ k = "list" /\ v \in {"listing", "listed"}
              \/ /\ k = calls[i].book /\ k \in Book /\ v \in {"detailing", "detailed"}
                 /\ calls[i].op = "Update" /\ calls[i].client \in {"listing", "listed"}
           /\ UNCHANGED <<server, clock, roles, tab>>
<1>1. CASE InvalidateList(i)
  <2>1. PICK held \in BOOLEAN :
          query' = [query EXCEPT !["list"] = Invalidated(query["list"], "list" \in Active(page), held)]
    BY <1>1 DEF InvalidateList, Invalidate, IInv, Typed, CacheOK, Key
  <2>2. PICK v \in {"listing", "listed"} : calls' = [calls EXCEPT ![i].client = v]
    BY <1>1, Zenon DEF InvalidateList, Invalidate
  <2>3. /\ calls[i].server = "done" /\ calls[i].client = "waiting"
        /\ UNCHANGED <<server, clock, roles, tab>>
    BY <1>1 DEF InvalidateList, Invalidate
  <2>4. "list" \in Key
    BY DEF Key
  <2>5. QED
    BY <2>1, <2>2, <2>3, <2>4 DEF Succeeded
<1>2. CASE InvalidateDetail(i)
  <2> DEFINE b == calls[i].book
  <2>1. calls[i].op = "Update" /\ calls[i].client \in {"listing", "listed"}
    BY <1>2 DEF InvalidateDetail, Through
  <2>2. b \in Book /\ b \in Key /\ calls[i].server = "done"
    BY <2>1 DEF IInv, CallsInTurn, CallSound, Succeeded, Key
  <2> HIDE DEF b
  <2>3. PICK held \in BOOLEAN :
          query' = [query EXCEPT ![b] = Invalidated(query[b], b \in Active(page), held)]
    BY <1>2, <2>2 DEF InvalidateDetail, Invalidate, IInv, Typed, CacheOK, b
  <2>4. PICK v \in {"detailing", "detailed"} : calls' = [calls EXCEPT ![i].client = v]
    BY <1>2, Zenon DEF InvalidateDetail, Invalidate
  <2>5. UNCHANGED <<server, clock, roles, tab>>
    BY <1>2 DEF InvalidateDetail, Invalidate
  <2>6. QED
    BY <2>1, <2>2, <2>3, <2>4, <2>5 DEF Succeeded, b
<1>3. QED
  BY <1>1, <1>2

LEMMA InvalidateInvariant ==
  ASSUME IInv, NEW i \in DOMAIN calls, InvalidateList(i) \/ InvalidateDetail(i)
  PROVE  IInv'
<1>1. PICK k \in Key, held \in BOOLEAN, v \in Succeeded \ {"settled"} :
        /\ calls[i].server = "done" /\ calls[i].client \notin {"settled", "failed"}
        /\ query' = [query EXCEPT ![k] = Invalidated(query[k], k \in Active(page), held)]
        /\ calls' = [calls EXCEPT ![i].client = v]
        /\ UNCHANGED <<server, clock, roles, tab>>
  BY InvalidateSteps
<1>2. CallsOK' /\ CallsInTurn' /\ OwnSavesInOrder'
  <2>1. v \in Busy \cup Over /\ v # "gone" /\ UNCHANGED <<clock, visit>>
    BY <1>1 DEF Busy, Over, Succeeded, tab
  <2>2. QED
    BY <1>1, <2>1, CallbackCalls
<1>3. CacheOK' /\ Fresh'
  <2> DEFINE q == Invalidated(query[k], k \in Active(page), held)
  <2>1. QueryOK(k, query[k]) /\ (k \in Active(page)) \in BOOLEAN
    BY DEF IInv, Typed, CacheOK
  <2>2. QueryOK(k, q) /\ Tame(query[k], q) /\ q.rows = query[k].rows
    BY <2>1, InvalidatedOK, TameSteps
  <2>3. UNCHANGED <<server, clock, form, page>>
    BY <1>1 DEF tab
  <2> HIDE DEF q
  <2>4. query' = [query EXCEPT ![k] = q]
    BY <1>1 DEF q
  <2>5. QED
    BY <2>2, <2>3, <2>4, QueryInvariant
<1>4. QED
  BY <1>1, <1>2, <1>3 DEF IInv, Typed, ServerOK, TabOK, tab

LEMMA SettleInvariant ==
  ASSUME IInv, NEW i \in DOMAIN calls, Settle(i)
  PROVE  IInv'
<1>1. /\ calls[i].client \in Succeeded \ {"settled"}
      /\ calls' = [calls EXCEPT ![i].client = "settled"]
      /\ UNCHANGED <<server, clock, roles, page, visit, form, rendered, query>>
  BY DEF Settle, Through, Succeeded
<1>2. leaving' \in BOOLEAN /\ (dialog' = dialog \/ dialog' = NoBook)
  BY Zenon DEF Settle, IInv, Typed, TabOK
<1>3. CallsOK' /\ CallsInTurn' /\ OwnSavesInOrder'
  <2>1. calls[i].server = "done" /\ "settled" \in Busy \cup Over /\ calls[i].client \notin {"settled", "failed"}
    BY <1>1 DEF IInv, CallsInTurn, CallSound, Over, Succeeded
  <2>2. QED
    BY <1>1, <2>1, CallbackCalls
<1>4. Typed' /\ Fresh'
  BY <1>1, <1>2, <1>3 DEF IInv, Typed, ServerOK, TabOK, CacheOK, Fresh, BookFresh
<1>5. QED
  BY <1>3, <1>4 DEF IInv

----------------------------------------------------------------------------
(* Fetches.                                                                *)

\* One query changes; what the client has of its book stays fresh, and the form follows it.
LEMMA FetchInvariant ==
  ASSUME IInv, NEW k \in Key, NEW q, query' = [query EXCEPT ![k] = q], QueryOK(k, q),
         k \in Book => BookFresh(k)',
         form' \in [base : NoRow..MaxClock, typed : BOOLEAN],
         page.at = "edit" => form'.base = FilledFrom(query'[page.book], page.book).base,
         UNCHANGED <<server, clock, roles, page, visit, dialog, leaving, rendered, calls>>
  PROVE  IInv'
<1>1. query \in [Key -> Query] /\ \A j \in Key : QueryOK(j, query[j])
  BY DEF IInv, Typed, CacheOK
<1>2. query'[k] = q /\ \A j \in Key : j # k => query'[j] = query[j]
  BY <1>1
<1>3. CacheOK'
  BY <1>1, <1>2 DEF CacheOK, QueryOK
<1>4. \A b \in Book : BookFresh(b)'
  BY <1>2 DEF IInv, Fresh, BookFresh, Key
<1>5. Fresh'
  BY <1>4 DEF IInv, Fresh
<1>6. Typed'
  BY <1>3 DEF IInv, Typed, ServerOK, TabOK, CallsOK
<1>7. CallsInTurn' /\ OwnSavesInOrder'
  BY DEF IInv, CallsInTurn, CallSound, NoneEarly, OwnSavesInOrder
<1>8. QED
  BY <1>5, <1>6, <1>7 DEF IInv

\* One query goes on without new data.
LEMMA TameInvariant ==
  ASSUME IInv, NEW k \in Key, NEW q, query' = [query EXCEPT ![k] = q],
         QueryOK(k, q), Tame(query[k], q), q.rows = query[k].rows \/ k \notin Active(page),
         UNCHANGED <<server, clock, roles, tab, calls>>
  PROVE  IInv'
<1>1. CacheOK' /\ Fresh'
  BY QueryInvariant DEF tab
<1>2. CallsInTurn' /\ OwnSavesInOrder'
  BY DEF IInv, CallsInTurn, CallSound, NoneEarly, OwnSavesInOrder, tab
<1>3. QED
  BY <1>1, <1>2 DEF IInv, Typed, ServerOK, TabOK, CallsOK, tab

\* A fetch is a request the API answers, an answer the library stores, or a failure.
LEMMA FetchReads ==
  ASSUME IInv, NEW k \in Key, Fetch(k)
  PROVE  \/ \E found \in BOOLEAN : Read(k, found) /\ (found <=> k \in Book => server[k].live)
         \/ Receive(k) \/ FetchFails(k)
<1>1. CASE k = "list" /\ getApiV1Books
  BY <1>1, Bounds DEF getApiV1Books
<1>2. CASE k \in Book /\ getApiV1BooksId(k)
  <2>1. server[k].live \in BOOLEAN
    BY <1>2 DEF IInv, Typed, ServerOK, Row
  <2>2. QED
    BY <1>2, <2>1 DEF getApiV1BooksId
<1>3. QED
  BY <1>1, <1>2 DEF Fetch

LEMMA ReadInvariant ==
  ASSUME IInv, NEW k \in Key, NEW found \in BOOLEAN, Read(k, found),
         found <=> k \in Book => server[k].live
  PROVE  IInv'
<1> DEFINE got == [b \in Holds(k) |-> server[b]]
           q   == [query[k] EXCEPT !.phase = IF found THEN "read" ELSE "missing",
                                   !.got = IF found THEN got ELSE <<>>]
<1>1. query[k].phase = "sent" /\ UNCHANGED <<server, clock, roles, tab, calls>>
  BY DEF Read
<1>2. QueryOK(k, query[k]) /\ query[k] \in Query
  BY DEF IInv, Typed, CacheOK, QueryOK
<1>3. query' = [query EXCEPT ![k] = q]
  BY <1>2 DEF Read, IInv, Typed, CacheOK, Query
<1>4. got \in [Holds(k) -> Row]
  <2>1. Holds(k) \subseteq Book
    BY DEF Key, Holds
  <2>2. QED
    BY <2>1 DEF IInv, Typed, ServerOK
<1>5. /\ q.rows = query[k].rows /\ q.phase = (IF found THEN "read" ELSE "missing")
      /\ q.got = IF found THEN got ELSE <<>>
  BY <1>2 DEF Query
<1>6. QueryOK(k, q)
  <2>1. got \in Contents
    BY <1>4, QueryIs
  <2>2. q \in Query
    BY <1>2, <2>1, QueryIs
  <2>3. QED
    BY <1>2, <1>4, <1>5, <2>2 DEF QueryOK, HasData
<1> HIDE DEF q
<1>7. query'[k] = q /\ UNCHANGED <<server, clock, roles, page, visit, form, dialog, leaving, rendered, calls>>
  BY <1>1, <1>3 DEF IInv, Typed, CacheOK, tab
<1>8. k \in Book => BookFresh(k)'
  <2>1. SUFFICES ASSUME k \in Book PROVE BookFresh(k)'
    OBVIOUS
  <2>2. k \in Holds(k) /\ server[k] \in Row /\ server[k].stamp \in Int
    BY <2>1, Bounds DEF Holds, IInv, Typed, ServerOK, Row
  <2>3. BookFresh(k)
    BY <2>1 DEF IInv, Fresh
  <2>4. q.phase = "read" => q.got[k] = server[k] /\ server[k].live
    BY <1>5, <2>1, <2>2
  <2>5. QED
    BY <1>5, <1>7, <2>2, <2>3, <2>4 DEF BookFresh, HasData
<1>9. page.at = "edit" => form.base = FilledFrom(query'[page.book], page.book).base
  <2>1. ASSUME page.at = "edit" PROVE query'[page.book].rows = query[page.book].rows
    BY <1>3, <1>5, <1>7, <2>1 DEF IInv, Typed, TabOK, CacheOK, Page, Key
  <2>2. QED
    BY <2>1 DEF IInv, Fresh, FilledFrom, HasData
<1>10. form \in [base : NoRow..MaxClock, typed : BOOLEAN]
  BY DEF IInv, Typed, TabOK
<1>11. QED
  BY <1>3, <1>6, <1>7, <1>8, <1>9, <1>10, FetchInvariant

\* The answer of a book that is received: at least as new as what it replaces.
LEMMA AnswerIsNewer ==
  ASSUME IInv, NEW k \in Book, query[k].phase = "read"
  PROVE  /\ query[k].got[k] \in Row /\ query[k].got[k].live
         /\ query[k].got[k].stamp \in 0..MaxClock /\ query[k].got[k].stamp \in Int
         /\ query[k].got # <<>>
         /\ HasData(query[k]) => /\ query[k].rows[k].stamp \in Int /\ query[k].rows[k].live
                                 /\ query[k].rows[k].stamp <= query[k].got[k].stamp
                                 /\ query[k].rows \in [{k} -> Row] /\ query[k].rows[k] \in Row
         /\ query[k].got \in [{k} -> Row]
<1>1. k \in Key /\ QueryOK(k, query[k]) /\ Holds(k) = {k}
  BY Bounds DEF IInv, Typed, CacheOK, Key, Holds
<1>2. query[k].got \in [{k} -> Row] /\ query[k].got[k] \in Row
  BY <1>1 DEF QueryOK
<1>3. query[k].got[k].stamp \in 0..MaxClock /\ query[k].got[k].stamp \in Int
  BY <1>2, Bounds DEF Row
<1>4. query[k].got # <<>>
  <2>1. DOMAIN query[k].got = {k}
    BY <1>2
  <2>2. DOMAIN << >> = {}
    OBVIOUS
  <2>3. QED
    BY <2>1, <2>2
<1>5. HasData(query[k]) => query[k].rows \in [{k} -> Row] /\ query[k].rows[k] \in Row
  BY <1>1, RowsTyped
<1>6. HasData(query[k]) => query[k].rows[k].stamp \in Int
  BY <1>5, Bounds DEF Row
<1>7. QED
  BY <1>2, <1>3, <1>4, <1>5, <1>6 DEF IInv, Fresh, BookFresh

LEMMA ReceiveInvariant ==
  ASSUME IInv, NEW k \in Key, Receive(k)
  PROVE  IInv'
<1> DEFINE q == [query[k] EXCEPT !.rows = query[k].got, !.stale = FALSE, !.error = FALSE,
                                 !.phase = "idle", !.got = <<>>, !.tries = 0]
<1>1. /\ query[k].phase = "read" /\ form' = Refilled(k)
      /\ UNCHANGED <<server, clock, roles, page, visit, dialog, leaving, rendered, calls>>
  BY DEF Receive
<1>2. QueryOK(k, query[k]) /\ query[k] \in Query
  BY DEF IInv, Typed, CacheOK, QueryOK
<1>3. query' = [query EXCEPT ![k] = q]
  BY <1>2 DEF Receive, IInv, Typed, CacheOK, Query
<1>4. q.rows = query[k].got /\ q.phase = "idle"
  BY <1>2 DEF Query
<1>5. QueryOK(k, q)
  <2>1. q \in Query
    BY <1>2, QueryIs DEF Query
  <2>2. QED
    BY <1>1, <1>2, <1>4, <2>1 DEF QueryOK, HasData
<1> HIDE DEF q
<1>6. query'[k] = q
  BY <1>3 DEF IInv, Typed, CacheOK
<1>7. k \in Book => BookFresh(k)'
  BY <1>1, <1>4, <1>6 DEF IInv, Fresh, BookFresh, HasData
<1>8. form' \in [base : NoRow..MaxClock, typed : BOOLEAN]
  <2>1. CASE page.at = "edit" /\ page.book = k /\ query[k].got # query[k].rows
    <3>1. k \in Book
      BY <2>1 DEF IInv, Typed, TabOK, Page
    <3>2. query[k].got[k].stamp \in NoRow..MaxClock
      <4>1. 0..MaxClock \subseteq NoRow..MaxClock
        BY Bounds DEF NoRow
      <4>2. query[k].got[k].stamp \in 0..MaxClock
        BY <1>1, <3>1, AnswerIsNewer
      <4>3. QED
        BY <4>1, <4>2, Zenon
    <3>3. QED
      BY <1>1, <2>1, <3>2 DEF Refilled
  <2>2. CASE ~(page.at = "edit" /\ page.book = k /\ query[k].got # query[k].rows)
    BY <1>1, <2>2 DEF Refilled, IInv, Typed, TabOK
  <2>3. QED
    BY <2>1, <2>2
<1>9. ASSUME page.at = "edit" PROVE form'.base = FilledFrom(query'[page.book], page.book).base
  <2>1. page.book \in Book /\ page.book \in Key
    BY <1>9 DEF IInv, Typed, TabOK, Page, Key
  <2>2. form.base = FilledFrom(query[page.book], page.book).base
    BY <1>9 DEF IInv, Fresh
  <2>3. CASE page.book # k
    BY <1>1, <1>3, <2>1, <2>2, <2>3 DEF Refilled, IInv, Typed, CacheOK
  <2>4. CASE page.book = k /\ query[k].got = query[k].rows
    <3>1. form' = form /\ query'[page.book].rows = query[page.book].rows
      BY <1>1, <1>4, <1>6, <2>4 DEF Refilled
    <3>2. QED
      BY <2>2, <3>1 DEF FilledFrom, HasData
  <2>5. CASE page.book = k /\ query[k].got # query[k].rows
    <3>1. form'.base = query[k].got[k].stamp
      BY <1>1, <1>9, <2>5 DEF Refilled
    <3>2. query'[k].rows = query[k].got /\ query[k].got # <<>>
      BY <1>1, <1>4, <1>6, <2>1, <2>5, AnswerIsNewer
    <3>3. QED
      BY <2>5, <3>1, <3>2 DEF FilledFrom, HasData
  <2>6. QED
    BY <2>3, <2>4, <2>5
<1>10. QED
  BY <1>1, <1>3, <1>5, <1>7, <1>8, <1>9, FetchInvariant

LEMMA FailedOK ==
  ASSUME NEW k \in Key, NEW q, QueryOK(k, q), NEW refused \in BOOLEAN, NEW held \in BOOLEAN
  PROVE  /\ QueryOK(k, Failed(q, refused, held)) /\ Tame(q, Failed(q, refused, held))
         /\ Failed(q, refused, held).rows = q.rows
<1>1. CASE ~refused /\ q.phase # "missing" /\ q.tries < MaxQueryRetries
  <2> DEFINE again == [q EXCEPT !.phase = IF held THEN "paused" ELSE "sent",
                                !.got = <<>>, !.tries = @ + 1]
  <2>1. q.tries + 1 \in 0..MaxQueryRetries
    <3>1. q.tries \in 0..MaxQueryRetries
      BY DEF QueryOK, Query
    <3>2. QED
      BY <1>1, <3>1, Bounds
  <2>2. again \in Query /\ again.phase \in {"paused", "sent"} /\ again.rows = q.rows
    BY <2>1, QueryIs DEF QueryOK
  <2>3. Failed(q, refused, held) = again
    BY <1>1 DEF Failed
  <2> HIDE DEF again
  <2>4. QED
    BY <2>2, <2>3 DEF QueryOK, Tame, HasData
<1>2. CASE ~(~refused /\ q.phase # "missing" /\ q.tries < MaxQueryRetries)
  <2> DEFINE c == Cancelled(q)
  <2>1. QueryOK(k, c) /\ c.rows = q.rows /\ Tame(q, c)
    BY CancelledOK, TameSteps
  <2>2. Failed(q, refused, held) = [[c EXCEPT !.error = TRUE] EXCEPT !.stale = TRUE]
    BY <1>2 DEF Failed
  <2> HIDE DEF c
  <2> DEFINE e == [c EXCEPT !.error = TRUE]
  <2>3. QueryOK(k, e)
    BY <2>1, FlagsOK
  <2>4. QueryOK(k, Failed(q, refused, held))
    <3> HIDE DEF e
    <3>1. QueryOK(k, [e EXCEPT !.stale = TRUE])
      BY <2>3, FlagsOK
    <3>2. QED
      BY <2>2, <3>1 DEF e
  <2>5. /\ Failed(q, refused, held).rows = c.rows /\ Failed(q, refused, held).phase = c.phase
       /\ Failed(q, refused, held).got = c.got
    BY <2>1, <2>2 DEF QueryOK, Query
  <2>6. QED
    BY <2>1, <2>4, <2>5 DEF Tame, HasData
<1>3. QED
  BY <1>1, <1>2

LEMMA FetchFailsInvariant ==
  ASSUME IInv, NEW k \in Key, FetchFails(k)
  PROVE  IInv'
<1>1. PICK refused \in BOOLEAN, held \in BOOLEAN :
        /\ query' = [query EXCEPT ![k] = Failed(query[k], refused, held)]
        /\ UNCHANGED <<server, clock, roles, tab, calls>>
  BY DEF FetchFails, IInv, Typed, CacheOK
<1>2. QueryOK(k, query[k])
  BY DEF IInv, Typed, CacheOK
<1>3. QED
  BY <1>1, <1>2, FailedOK, TameInvariant

\* A query that holds older content than call c left is marked, and is being fetched or
\* shown as an error while a page shows it; an older answer is on its way only to a first
\* load that c met.
Sees(q, c, active) ==
  /\ HasData(q) /\ q.rows[c.book].stamp < c.stamp =>
       q.raced \/ (q.stale /\ (active => q.phase # "idle" \/ q.error))
  /\ q.phase = "read" /\ q.got[c.book].stamp < c.stamp => q.raced

\* A fetch that was held is sent.
LEMMA ContinuedOK ==
  ASSUME NEW k \in Key, NEW q, QueryOK(k, q)
  PROVE  LET next == [q EXCEPT !.phase = "sent"] IN
         /\ QueryOK(k, next) /\ Tame(q, next) /\ next.rows = q.rows
         /\ \A c : Sees(q, c, TRUE) => Sees(next, c, TRUE)
<1> DEFINE next == [q EXCEPT !.phase = "sent"]
<1>1. /\ next \in Query /\ next.rows = q.rows /\ next.phase = "sent" /\ next.got = q.got
      /\ next.stale = q.stale /\ next.raced = q.raced
  BY QueryIs DEF QueryOK
<1> HIDE DEF next
<1>2. QueryOK(k, next) /\ Tame(q, next) /\ next.rows = q.rows
  BY <1>1 DEF QueryOK, Tame, HasData
<1>3. \A c : Sees(q, c, TRUE) => Sees(next, c, TRUE)
  BY <1>1 DEF Sees, HasData
<1>4. QED
  BY <1>2, <1>3 DEF next

LEMMA ContinueInvariant ==
  ASSUME IInv, NEW k \in Key, Continue(k)
  PROVE  IInv'
<1> DEFINE q == [query[k] EXCEPT !.phase = "sent"]
<1>1. QueryOK(k, query[k])
  BY DEF IInv, Typed, CacheOK
<1>2. query' = [query EXCEPT ![k] = q] /\ UNCHANGED <<server, clock, roles, tab, calls>>
  BY DEF Continue, IInv, Typed, CacheOK
<1>3. QueryOK(k, q) /\ Tame(query[k], q) /\ q.rows = query[k].rows
  BY <1>1, ContinuedOK
<1> HIDE DEF q
<1>4. QED
  BY <1>2, <1>3, TameInvariant

LEMMA CollectInvariant ==
  ASSUME IInv, NEW k \in Key, Collect(k)
  PROVE  IInv'
<1>1. QueryOK(k, NoQuery) /\ Tame(query[k], NoQuery)
  BY EmptyQuery, TameSteps DEF IInv, Typed, CacheOK
<1>2. QED
  BY <1>1, TameInvariant DEF Collect

LEMMA ReconnectInvariant ==
  ASSUME IInv, Reconnect
  PROVE  IInv'
<1>1. PICK k \in Active(page) : query' = [query EXCEPT ![k] = Started(query[k], FALSE)]
  BY DEF Reconnect, IInv, Typed, CacheOK
<1>2. k \in Key
  BY <1>1 DEF IInv, Typed, TabOK, Page, Active, Key
<1>3. /\ QueryOK(k, Started(query[k], FALSE)) /\ Tame(query[k], Started(query[k], FALSE))
      /\ Started(query[k], FALSE).rows = query[k].rows
  BY <1>2, StartedOK, TameSteps DEF IInv, Typed, CacheOK
<1>4. QED
  BY <1>1, <1>2, <1>3, TameInvariant DEF Reconnect

LEMMA AgeInvariant ==
  ASSUME IInv, Age
  PROVE  IInv'
<1>1. /\ query' = [k \in Key |-> [query[k] EXCEPT !.stale = @ \/ HasData(query[k])]]
      /\ UNCHANGED <<server, clock, roles, page, visit, form, dialog, leaving, rendered, calls>>
  BY Zenon DEF Age, tab
<1>2. \A k \in Key : QueryOK(k, query[k])
  BY DEF IInv, Typed, CacheOK
<1>3. ASSUME NEW k \in Key
      PROVE  QueryOK(k, query'[k]) /\ Tame(query[k], query'[k]) /\ query'[k].rows = query[k].rows
  <2>1. query'[k] = [query[k] EXCEPT !.stale = @ \/ HasData(query[k])]
    BY <1>1
  <2>2. QueryOK(k, query'[k]) /\ Tame(query[k], query'[k])
    BY <1>2, <2>1, AgedOK, AgedTame
  <2>3. QED
    BY <1>2, <2>1, <2>2 DEF QueryOK, Query
<1>4. CacheOK'
  BY <1>1, <1>3 DEF CacheOK, QueryOK
<1>5. Fresh'
  <2>1. \A b \in Book : BookFresh(b)'
    BY <1>1, <1>3, TameFresh DEF Key
  <2>2. page.at = "edit" => page.book \in Key
    BY DEF IInv, Typed, TabOK, Page, Key
  <2>3. page.at = "edit" => form.base = FilledFrom(query'[page.book], page.book).base
    BY <1>3, <2>2 DEF IInv, Fresh, FilledFrom, HasData
  <2>4. QED
    BY <1>1, <2>1, <2>3 DEF IInv, Fresh
<1>6. CallsInTurn' /\ OwnSavesInOrder'
  BY <1>1 DEF IInv, CallsInTurn, CallSound, NoneEarly, OwnSavesInOrder
<1>7. QED
  BY <1>1, <1>4, <1>5, <1>6 DEF IInv, Typed, ServerOK, TabOK, CallsOK

----------------------------------------------------------------------------
(* Every step.                                                             *)

LEMMA NextInvariant ==
  ASSUME IInv, Next
  PROVE  IInv'
<1>1. CASE submit \/ handleConfirm \/ Render
  BY <1>1, SubmitInvariant, ConfirmInvariant, RenderInvariant
<1>2. CASE Step
  <2>1. ASSUME NEW p \in Page, Navigate(p) PROVE IInv'
    BY <2>1, OpenInvariant DEF Navigate
  <2>2. ASSUME NEW p \in Page, Load(p) PROVE IInv'
    BY <2>2, LoadInvariant
  <2>3. rendered \in BOOLEAN
    BY DEF IInv, Typed, TabOK
  <2>4. ASSUME NEW b \in Book, handleDeleteClick(b) PROVE IInv'
    BY <2>3, <2>4, FormInvariant DEF handleDeleteClick
  <2>5. CASE Type \/ handleCloseModal
    BY <2>3, <2>5, FormInvariant DEF Type, handleCloseModal
  <2>6. CASE Api
    BY <2>6, OtherWriteInvariant, CommitInvariant, RefuseInvariant DEF Api
  <2>7. CASE Arrive \/ Age \/ Reconnect \/ Resume
    BY <2>7, ArriveInvariant, AgeInvariant, ReconnectInvariant, ResumeInvariant
  <2>8. ASSUME NEW i \in DOMAIN calls, Callback(i) PROVE IInv'
    BY <2>8, LoseInvariant, InvalidateInvariant, SettleInvariant DEF Callback
  <2>9. ASSUME NEW k \in Key, Fetch(k) \/ Continue(k) \/ Collect(k) PROVE IInv'
    BY <2>9, FetchReads, ReadInvariant, ReceiveInvariant, FetchFailsInvariant, ContinueInvariant,
       CollectInvariant DEF Fetch
  <2>10. QED
    BY <1>2, <2>1, <2>2, <2>4, <2>5, <2>6, <2>7, <2>8, <2>9 DEF Step, User
<1>3. QED
  BY <1>1, <1>2 DEF Next

LEMMA Invariance == Spec => []IInv
<1>1. Init => IInv
  BY InitInvariant
<1>2. IInv /\ [Next]_vars => IInv'
  <2>1. ASSUME IInv, Next PROVE IInv'
    BY <2>1, NextInvariant
  <2>2. ASSUME IInv, UNCHANGED vars PROVE IInv'
    BY <2>2 DEF vars, tab, IInv, Typed, ServerOK, TabOK, CacheOK, CallsOK, Fresh, BookFresh,
                CallsInTurn, CallSound, NoneEarly, OwnSavesInOrder
  <2>3. QED
    BY <2>1, <2>2
<1>3. QED
  BY <1>1, <1>2, PTL DEF Spec

----------------------------------------------------------------------------
(* What the queries still hold of a book after a save or a deletion.       *)

\* A query that holds nothing older than what call c left, nor will.
Newest(q, c) ==
  /\ HasData(q) => c.stamp <= q.rows[c.book].stamp
  /\ q.phase = "read" => c.stamp <= q.got[c.book].stamp

\* The invalidation after call c has reached query k.
Told(k, c) ==
  IF k = "list" THEN c.client \in Succeeded
  ELSE c.op = "Update" /\ c.client \in {"detailing", "detailed", "settled"}

\* The book is at least as new as call c left it.
Kept(c) == c.book \in Book /\ c.stamp <= server[c.book].stamp

\* A query without an observer does not fetch; of a book that is still to be created
\* nothing is known, so no query that knows it is older than its creation.
CacheInv ==
  /\ \A i \in DOMAIN calls : calls[i].server = "done" => Kept(calls[i])
  /\ \A k \in Key : k \in Active(page) \/ query[k].phase = "idle"
  /\ \A b \in Unborn : ~HasData(query[b]) /\ query[b].phase # "read"
  /\ \A i \in DOMAIN calls : \A k \in Key :
       Told(k, calls[i]) /\ calls[i].book \in Holds(k) => Sees(query[k], calls[i], k \in Active(page))
  /\ \A i \in DOMAIN calls : calls[i].op = "Create" /\ calls[i].server = "done" =>
       Newest(query[calls[i].book], calls[i])

\* One query, shown or not from now on, goes on as q without forgetting what it was told.
Follows(k, q, active) ==
  /\ active \/ q.phase = "idle"
  /\ \A c \in Call : Kept(c) /\ c.book \in Holds(k) =>
       /\ Sees(query[k], c, k \in Active(page)) => Sees(q, c, active)
       /\ Newest(query[k], c) => Newest(q, c)
  /\ k \in Unborn /\ ~HasData(query[k]) /\ query[k].phase # "read" => ~HasData(q) /\ q.phase # "read"

LEMMA TameNewest ==
  ASSUME NEW q, NEW r, Tame(q, r)
  PROVE  /\ \A c : Newest(q, c) => Newest(r, c)
         /\ ~HasData(q) /\ q.phase # "read" => ~HasData(r) /\ r.phase # "read"
BY DEF Tame, Newest, HasData

\* What each operation on a query leaves of what it was told.
LEMMA SeesSteps ==
  ASSUME NEW k \in Key, NEW q, QueryOK(k, q), NEW c, NEW a \in BOOLEAN, NEW held \in BOOLEAN
  PROVE  /\ Sees(NoQuery, c, a)
         /\ q.stale \/ ~HasData(q) => Sees(Started(q, held), c, a)
         /\ Sees(q, c, a) => Sees(Left(q), c, FALSE)
         /\ Sees(q, c, FALSE) /\ q.phase = "idle" => Sees(Mounted(q, held), c, TRUE)
         /\ a \/ q.phase = "idle" => Sees(Invalidated(q, a, held), c, a)
         /\ Sees(q, c, a) => Sees([q EXCEPT !.stale = @ \/ HasData(q)], c, a)
         /\ \A refused \in BOOLEAN : Sees(q, c, a) => Sees(Failed(q, refused, held), c, a)
<1>1. Sees(NoQuery, c, a)
  BY DEF Sees, NoQuery, HasData
<1>2. q.stale \/ ~HasData(q) => Sees(Started(q, held), c, a)
  BY DEF QueryOK, Query, Started, Sees, HasData
<1>3. Sees(q, c, a) => Sees(Left(q), c, FALSE)
  BY <1>1 DEF QueryOK, Query, Left, Cancelled, NoQuery, Sees, HasData
<1>4. Sees(q, c, FALSE) /\ q.phase = "idle" => Sees(Mounted(q, held), c, TRUE)
  <2>1. q.stale \/ ~HasData(q) => Sees(Started(q, held), c, TRUE)
    BY DEF QueryOK, Query, Started, Sees, HasData
  <2>2. QED
    BY <2>1 DEF Mounted, Sees, QueryOK, Query
<1>5. a \/ q.phase = "idle" => Sees(Invalidated(q, a, held), c, a)
  <2> DEFINE marked == [q EXCEPT !.stale = TRUE]
  <2>1. marked.stale = TRUE /\ marked.phase = q.phase /\ marked.rows = q.rows /\ QueryOK(k, marked)
    <3>1. QueryOK(k, marked)
      BY FlagsOK
    <3>2. QED
      BY <3>1 DEF QueryOK, Query
  <2>2. CASE ~a
    <3>1. ASSUME q.phase = "idle" PROVE Sees(q, c, a) \/ HasData(q)
      BY <3>1 DEF Sees
    <3>2. ASSUME q.phase = "idle" PROVE Sees(marked, c, a)
      BY <2>1, <2>2, <3>2 DEF Sees
    <3>3. QED
      BY <2>2, <3>1, <3>2 DEF Invalidated
  <2>3. CASE a /\ q.phase # "idle" /\ ~HasData(q)
    <3>1. Invalidated(q, a, held) = [marked EXCEPT !.raced = @ \/ q.phase # "paused"]
      BY <2>3 DEF Invalidated
    <3>2. /\ Invalidated(q, a, held).rows = q.rows /\ Invalidated(q, a, held).phase = q.phase
          /\ q.phase # "paused" => Invalidated(q, a, held).raced = TRUE
      BY <2>1, <3>1, Zenon DEF QueryOK, Query
    <3>3. QED
      BY <2>3, <3>2 DEF Sees, HasData
  <2>4. CASE a /\ ~(q.phase # "idle" /\ ~HasData(q))
    <3>1. Invalidated(q, a, held) = Started(marked, held)
      BY <2>4 DEF Invalidated
    <3> HIDE DEF marked
    <3>2. Sees(Started(marked, held), c, a)
      BY <2>1 DEF QueryOK, Query, Started, Sees, HasData
    <3>3. QED
      BY <3>1, <3>2
  <2>5. QED
    BY <2>2, <2>3, <2>4
<1>6. Sees(q, c, a) => Sees([q EXCEPT !.stale = @ \/ HasData(q)], c, a)
  BY DEF QueryOK, Query, Sees, HasData
<1>7. ASSUME NEW refused \in BOOLEAN, Sees(q, c, a) PROVE Sees(Failed(q, refused, held), c, a)
  BY <1>7 DEF QueryOK, Query, Failed, Cancelled, Sees, HasData
<1>8. QED
  BY <1>1, <1>2, <1>3, <1>4, <1>5, <1>6, <1>7

LEMMA SwitchedFollows ==
  ASSUME IInv, CacheInv, NEW p \in Page, NEW k \in Key, NEW held \in BOOLEAN
  PROVE  Follows(k, Switched(p, held)[k], k \in Active(p))
<1> DEFINE q == IF k \in Active(page) THEN Left(query[k]) ELSE query[k]
           r == Switched(p, held)[k]
<1>1. QueryOK(k, query[k]) /\ (k \in Active(page)) \in BOOLEAN /\ (k \in Active(p)) \in BOOLEAN
  BY DEF IInv, Typed, CacheOK
<1>2. Tame(query[k], r)
  BY SwitchedQueries
<1>3. QueryOK(k, q) /\ q.phase = "idle"
  <2>1. k \in Active(page) => QueryOK(k, q) /\ q.phase = "idle"
    BY <1>1, LeftOK
  <2>2. QED
    BY <1>1, <2>1 DEF CacheInv
<1>4. ASSUME NEW c \in Call, Sees(query[k], c, k \in Active(page)) PROVE Sees(q, c, FALSE)
  BY <1>1, <1>4, SeesSteps
<1>5. r = IF k \in Active(p) THEN Mounted(q, held) ELSE q
  BY DEF Switched
<1> HIDE DEF q, r
<1>6. ASSUME NEW c \in Call, Sees(query[k], c, k \in Active(page)) PROVE Sees(r, c, k \in Active(p))
  <2>1. Sees(q, c, FALSE)
    BY <1>4, <1>6
  <2>2. Sees(Mounted(q, held), c, TRUE)
    BY <1>3, <2>1, SeesSteps
  <2>3. CASE k \in Active(p)
    BY <1>5, <2>2, <2>3
  <2>4. CASE k \notin Active(p)
    BY <1>5, <2>1, <2>4 DEF Sees
  <2>5. QED
    BY <2>3, <2>4
<1>7. QED
  BY <1>2, <1>3, <1>5, <1>6, TameNewest DEF Follows, r

\* A step that leaves the API alone: every query goes on from what it was told, and a call
\* that is done stays what it was, unless it has just been told to the queries.
LEMMA CacheFollows ==
  ASSUME IInv, IInv', CacheInv, UNCHANGED server,
         \A k \in Key : Follows(k, query'[k], k \in Active(page')),
         \A i \in DOMAIN calls' :
           \/ calls'[i].server # "done"
           \/ /\ i \in DOMAIN calls /\ calls[i].server = "done" /\ calls'[i].op = calls[i].op
              /\ calls'[i].book = calls[i].book /\ calls'[i].stamp = calls[i].stamp
              /\ \A k \in Key : Told(k, calls'[i]) /\ calls'[i].book \in Holds(k) =>
                   Told(k, calls[i]) \/ Sees(query'[k], calls'[i], k \in Active(page'))
  PROVE  CacheInv'
<1>1. ASSUME NEW i \in DOMAIN calls', calls'[i].server = "done"
      PROVE  Kept(calls'[i]) /\ Kept(calls[i])'
  <2>1. /\ i \in DOMAIN calls /\ calls[i].server = "done"
        /\ calls[i].book = calls'[i].book /\ calls[i].stamp = calls'[i].stamp
    BY <1>1
  <2>2. QED
    BY <2>1 DEF CacheInv, Kept
<1>2. \A k \in Key : k \in Active(page') \/ query'[k].phase = "idle"
  BY DEF Follows
<1>3. \A b \in Unborn' : ~HasData(query'[b]) /\ query'[b].phase # "read"
  <2>1. Unborn' = Unborn /\ Unborn \subseteq Key
    BY DEF Unborn, Key
  <2>2. QED
    BY <2>1 DEF CacheInv, Follows
<1>4. \A i \in DOMAIN calls' : calls'[i] \in Call
  BY DEF IInv, Typed, CallsOK
<1>5. ASSUME NEW i \in DOMAIN calls', NEW k \in Key, Told(k, calls'[i]), calls'[i].book \in Holds(k)
      PROVE  Sees(query'[k], calls'[i], k \in Active(page'))
  <2>1. calls'[i].server = "done"
    BY <1>5 DEF IInv, CallsInTurn, CallSound, Told, Succeeded
  <2>2. CASE Told(k, calls[i])
    <3>1. /\ i \in DOMAIN calls /\ calls[i].book = calls'[i].book /\ calls[i].stamp = calls'[i].stamp
      BY <2>1
    <3>2. Sees(query[k], calls[i], k \in Active(page))
      BY <1>5, <2>2, <3>1 DEF CacheInv
    <3>3. Sees(query[k], calls'[i], k \in Active(page))
      BY <3>1, <3>2 DEF Sees
    <3>4. QED
      BY <1>1, <1>4, <1>5, <2>1, <3>3 DEF Follows
  <2>3. QED
    BY <1>5, <2>1, <2>2
<1>6. ASSUME NEW i \in DOMAIN calls', calls'[i].op = "Create", calls'[i].server = "done"
      PROVE  Newest(query'[calls'[i].book], calls'[i])
  <2>1. /\ i \in DOMAIN calls /\ calls[i].server = "done" /\ calls[i].op = "Create"
        /\ calls[i].book = calls'[i].book /\ calls[i].stamp = calls'[i].stamp
    BY <1>6
  <2>2. Newest(query[calls'[i].book], calls'[i])
    BY <2>1 DEF CacheInv, Newest
  <2>3. calls'[i].book \in Key /\ calls'[i].book \in Holds(calls'[i].book)
    BY <1>1, <1>6, Bounds DEF Kept, Key, Holds
  <2>4. QED
    BY <1>1, <1>4, <1>6, <2>2, <2>3 DEF Follows
<1>7. QED
  BY <1>1, <1>2, <1>3, <1>5, <1>6 DEF CacheInv, Told, Sees, Newest, Kept

\* Neither the API, the page nor the queries change.
LEMMA UndisturbedFollows ==
  ASSUME IInv, IInv', CacheInv, UNCHANGED <<server, page, query>>,
         \A i \in DOMAIN calls' :
           \/ calls'[i].server # "done"
           \/ /\ i \in DOMAIN calls /\ calls[i].server = "done" /\ calls'[i].op = calls[i].op
              /\ calls'[i].book = calls[i].book /\ calls'[i].stamp = calls[i].stamp
              /\ \A k \in Key : Told(k, calls'[i]) => Told(k, calls[i])
  PROVE  CacheInv'
<1>1. \A k \in Key : Follows(k, query'[k], k \in Active(page'))
  BY DEF Follows, CacheInv
<1>2. QED
  BY <1>1, CacheFollows

LEMMA OpenCache ==
  ASSUME IInv, IInv', CacheInv, NEW p \in Page, Open(p), UNCHANGED <<server, calls>>
  PROVE  CacheInv'
<1>1. PICK held \in BOOLEAN : page' = p /\ query' = Switched(p, held)
  BY Zenon DEF Open
<1>2. \A k \in Key : Follows(k, query'[k], k \in Active(page'))
  BY <1>1, SwitchedFollows
<1>3. QED
  BY <1>2, CacheFollows

LEMMA LoadCache ==
  ASSUME IInv, IInv', CacheInv, NEW p \in Page, Load(p)
  PROVE  CacheInv'
<1>1. /\ page' = p /\ UNCHANGED server
      /\ query' = [k \in Key |-> IF k \in Active(p) THEN Started(NoQuery, FALSE) ELSE NoQuery]
      /\ calls' = [i \in DOMAIN calls |->
                    IF calls[i].client \in Busy THEN [calls[i] EXCEPT !.client = "gone"] ELSE calls[i]]
  BY DEF Load
<1>2. \A k \in Key : Follows(k, query'[k], k \in Active(page'))
  <2>1. NoQuery.phase = "idle" /\ ~HasData(NoQuery) /\ ~HasData(Started(NoQuery, FALSE)) /\ Started(NoQuery, FALSE).phase = "sent"
    BY DEF NoQuery, Started, HasData
  <2>2. \A k \in Key : /\ ~HasData(query'[k]) /\ query'[k].phase # "read"
                       /\ k \in Active(p) \/ query'[k].phase = "idle"
    BY <1>1, <2>1
  <2>3. QED
    BY <1>1, <2>2 DEF Follows, Sees, Newest
<1>3. ASSUME NEW i \in DOMAIN calls', calls'[i].server = "done"
      PROVE  /\ i \in DOMAIN calls /\ calls[i].server = "done" /\ calls'[i].op = calls[i].op
             /\ calls'[i].book = calls[i].book /\ calls'[i].stamp = calls[i].stamp
             /\ \A k \in Key : Told(k, calls'[i]) => Told(k, calls[i])
  <2>1. i \in DOMAIN calls /\ calls[i] \in Call
    BY <1>1, <1>3, CallTyped
  <2>2. CASE calls[i].client \in Busy
    <3>1. calls'[i] = [calls[i] EXCEPT !.client = "gone"]
      BY <1>1, <2>1, <2>2
    <3>2. QED
      BY <1>3, <2>1, <3>1 DEF Call, Told, Succeeded
  <2>3. CASE calls[i].client \notin Busy
    BY <1>1, <1>3, <2>1, <2>3
  <2>4. QED
    BY <2>2, <2>3
<1>4. QED
  BY <1>1, <1>2, <1>3, CacheFollows

LEMMA SendCache ==
  ASSUME IInv, IInv', CacheInv, NEW op, NEW b, Send(op, b)
  PROVE  CacheInv'
<1>1. PICK s \in {"unsent", "sent"} :
        calls' = Append(calls, [op |-> op, book |-> b, visit |-> visit, stamp |-> 0,
                                server |-> s, client |-> "waiting", early |-> ~rendered])
  BY DEF Send
<1> DEFINE c == [op |-> op, book |-> b, visit |-> visit, stamp |-> 0, server |-> s,
                 client |-> "waiting", early |-> ~rendered]
<1>2. calls' = Append(calls, c) /\ calls \in Seq(Call) /\ c.server # "done"
  BY <1>1 DEF IInv, Typed, CallsOK
<1> HIDE DEF c
<1>3. \A i \in DOMAIN calls' : calls'[i].server # "done" \/ (i \in DOMAIN calls /\ calls'[i] = calls[i])
  <2>1. DOMAIN calls' = 1..(Len(calls) + 1) /\ DOMAIN calls = 1..Len(calls) /\ Len(calls) \in Nat
    BY <1>2
  <2>2. \A i \in 1..Len(calls) : calls'[i] = calls[i]
    BY <1>2
  <2>3. calls'[Len(calls) + 1] = c
    BY <1>2
  <2>4. QED
    BY <1>2, <2>1, <2>2, <2>3
<1>4. UNCHANGED <<server, page, query>>
  BY DEF Send
<1>5. QED
  BY <1>3, <1>4, UndisturbedFollows

LEMMA ResumeCache ==
  ASSUME IInv, IInv', CacheInv, Resume
  PROVE  CacheInv'
<1>1. UNCHANGED <<server, page, query>>
  BY DEF Resume, tab
<1>2. QED
  BY <1>1, ResumedCalls, UndisturbedFollows DEF Told

\* The API writes a book: what it makes of one that is still to be created nobody has seen.
LEMMA WriteCache ==
  ASSUME IInv, IInv', CacheInv, NEW b \in Book, NEW live \in BOOLEAN, Write(b, live),
         UNCHANGED <<page, query>>,
         \A i \in DOMAIN calls' :
           /\ i \in DOMAIN calls
           /\ \/ calls'[i] = calls[i]
              \/ /\ calls[i].server = "sent" /\ calls'[i].book = b /\ calls'[i].stamp = clock + 1
                 /\ calls'[i].client = calls[i].client /\ (calls'[i].op = "Create" => b \in Unborn)
  PROVE  CacheInv'
<1>1. /\ clock' = clock + 1 /\ clock \in Int
      /\ server' = [server EXCEPT ![b] = [stamp |-> clock + 1, live |-> live]]
      /\ server \in [Book -> Row]
  BY Bounds DEF Write, IInv, Typed, ServerOK
<1>2. \A x \in Book : /\ server[x].stamp \in Int /\ server'[x].stamp \in Int
                      /\ server[x].stamp <= server'[x].stamp
  <2>1. \A x \in Book : server[x].stamp \in 0..MaxClock /\ server[x].stamp <= clock
    BY <1>1 DEF IInv, Fresh, Row
  <2>2. QED
    BY <1>1, <2>1, Bounds
<1>3. server'[b].stamp = clock + 1 /\ b \notin Unborn' /\ Unborn' \subseteq Unborn
  <2>1. server'[b] = [stamp |-> clock + 1, live |-> live] /\ \A x \in Book : x # b => server'[x] = server[x]
    BY <1>1
  <2>2. clock + 1 # 0
    <3>1. clock \in 0..MaxClock
      BY DEF IInv, Typed, ServerOK
    <3>2. QED
      BY <3>1, Bounds
  <2>3. server'[b] # [stamp |-> 0, live |-> FALSE]
    BY <2>1, <2>2
  <2>4. QED
    BY <2>1, <2>3 DEF Unborn
<1>4. ASSUME NEW i \in DOMAIN calls', calls'[i].server = "done"
      PROVE  Kept(calls[i])'
  <2>1. CASE calls'[i] = calls[i]
    <3>1. calls[i].book \in Book /\ calls[i].stamp <= server[calls[i].book].stamp /\ calls[i].stamp \in Int
      BY <1>4, <2>1, CallTyped DEF CacheInv, Kept
    <3>2. calls[i].stamp <= server'[calls[i].book].stamp
      BY <1>2, <3>1
    <3>3. QED
      BY <2>1, <3>1, <3>2 DEF Kept
  <2>2. CASE calls'[i] # calls[i]
    <3>1. calls'[i].book = b /\ calls'[i].stamp = clock + 1
      BY <2>2
    <3>2. QED
      BY <1>1, <1>3, <3>1 DEF Kept
  <2>3. QED
    BY <2>1, <2>2
<1>5. ASSUME NEW i \in DOMAIN calls', NEW k \in Key, Told(k, calls'[i]), calls'[i].book \in Holds(k)
      PROVE  Sees(query[k], calls'[i], k \in Active(page))
  <2>1. CASE calls'[i] = calls[i]
    BY <1>5, <2>1 DEF CacheInv
  <2>2. CASE calls'[i] # calls[i]
    <3>1. calls[i].server = "sent" /\ calls'[i].client = calls[i].client
      BY <2>2
    <3>2. calls[i].client \notin Succeeded
      BY <3>1 DEF IInv, CallsInTurn, CallSound
    <3>3. QED
      BY <1>5, <3>1, <3>2 DEF Told, Succeeded
  <2>3. QED
    BY <2>1, <2>2
<1>6. ASSUME NEW i \in DOMAIN calls', calls'[i].op = "Create", calls'[i].server = "done"
      PROVE  Newest(query[calls'[i].book], calls'[i])
  <2>1. CASE calls'[i] = calls[i]
    BY <1>6, <2>1 DEF CacheInv
  <2>2. CASE calls'[i] # calls[i]
    BY <1>6, <2>2 DEF CacheInv, Newest
  <2>3. QED
    BY <2>1, <2>2
<1>7. QED
  BY <1>3, <1>4, <1>5, <1>6 DEF CacheInv, Told, Sees, Newest, Kept

LEMMA OtherWriteCache ==
  ASSUME IInv, IInv', CacheInv, NEW b \in Book, OtherWrite(b)
  PROVE  CacheInv'
<1>1. PICK live \in BOOLEAN : Write(b, live)
  BY DEF OtherWrite
<1>2. UNCHANGED <<page, query, calls>>
  BY DEF OtherWrite, tab
<1>3. QED
  BY <1>1, <1>2, WriteCache

LEMMA CommitCache ==
  ASSUME IInv, IInv', CacheInv, NEW i \in DOMAIN calls, Commit(i)
  PROVE  CacheInv'
<1>1. PICK b \in Book :
        /\ calls[i].server = "sent" /\ (calls[i].op = "Create" => b \in Unborn)
        /\ Write(b, calls[i].op # "Delete")
        /\ calls' = [calls EXCEPT ![i].server = "done", ![i].book = b, ![i].stamp = clock + 1]
        /\ UNCHANGED <<roles, tab, query>>
  BY DEF Commit, Unborn
<1>2. calls[i] \in Call /\ calls \in Seq(Call)
  BY CallTyped DEF IInv, Typed, CallsOK
<1>3. /\ DOMAIN calls' = DOMAIN calls /\ \A j \in DOMAIN calls : j # i => calls'[j] = calls[j]
      /\ calls'[i].book = b /\ calls'[i].stamp = clock + 1
      /\ calls'[i].client = calls[i].client /\ calls'[i].op = calls[i].op
  BY <1>1, <1>2 DEF Call
<1>4. (calls[i].op # "Delete") \in BOOLEAN /\ UNCHANGED <<page, query>>
  BY <1>1 DEF tab
<1>5. ASSUME NEW j \in DOMAIN calls'
      PROVE  /\ j \in DOMAIN calls
             /\ \/ calls'[j] = calls[j]
                \/ /\ calls[j].server = "sent" /\ calls'[j].book = b /\ calls'[j].stamp = clock + 1
                   /\ calls'[j].client = calls[j].client /\ (calls'[j].op = "Create" => b \in Unborn)
  BY <1>1, <1>3
<1>6. QED
  BY <1>1, <1>4, <1>5, WriteCache

\* A callback moves one call on at the client.
LEMMA CallMoves ==
  ASSUME IInv, NEW i \in DOMAIN calls, NEW v, calls' = [calls EXCEPT ![i].client = v]
  PROVE  /\ DOMAIN calls' = DOMAIN calls /\ calls'[i].client = v
         /\ \A j \in DOMAIN calls : j # i => calls'[j] = calls[j]
         /\ \A j \in DOMAIN calls : /\ calls'[j].server = calls[j].server /\ calls'[j].op = calls[j].op
                                    /\ calls'[j].book = calls[j].book /\ calls'[j].stamp = calls[j].stamp
BY CallTyped DEF IInv, Typed, CallsOK, Call

LEMMA RefuseCache ==
  ASSUME IInv, IInv', CacheInv, NEW i \in DOMAIN calls, Refuse(i)
  PROVE  CacheInv'
<1>1. /\ calls' = [calls EXCEPT ![i].server = "refused",
                                ![i].client = IF @ = "waiting" THEN "failed" ELSE @]
      /\ UNCHANGED <<server, page, query>>
  BY DEF Refuse, tab
<1>2. calls[i] \in Call /\ calls \in Seq(Call)
  BY CallTyped DEF IInv, Typed, CallsOK
<1>3. \A j \in DOMAIN calls' : calls'[j].server # "done" \/ (j \in DOMAIN calls /\ calls'[j] = calls[j])
  BY <1>1, <1>2 DEF Call
<1>4. QED
  BY <1>1, <1>3, UndisturbedFollows

\* A callback that leaves the cache alone has told every query what its call then claims.
LEMMA CallbackCache ==
  ASSUME IInv, IInv', CacheInv, NEW i \in DOMAIN calls, NEW v,
         calls' = [calls EXCEPT ![i].client = v], UNCHANGED <<server, page, query>>,
         \A k \in Key : Told(k, calls'[i]) => Told(k, calls[i])
  PROVE  CacheInv'
<1>1. ASSUME NEW j \in DOMAIN calls', calls'[j].server = "done"
      PROVE  /\ j \in DOMAIN calls /\ calls[j].server = "done" /\ calls'[j].op = calls[j].op
             /\ calls'[j].book = calls[j].book /\ calls'[j].stamp = calls[j].stamp
             /\ \A k \in Key : Told(k, calls'[j]) => Told(k, calls[j])
  <2>1. CASE j = i
    BY <1>1, <2>1, CallMoves
  <2>2. CASE j # i
    <3>1. calls'[j] = calls[j] /\ j \in DOMAIN calls
      BY <1>1, <2>2, CallMoves
    <3>2. QED
      BY <1>1, <3>1
  <2>3. QED
    BY <2>1, <2>2
<1>2. QED
  BY <1>1, UndisturbedFollows

LEMMA LoseCache ==
  ASSUME IInv, IInv', CacheInv, NEW i \in DOMAIN calls, Lose(i)
  PROVE  CacheInv'
<1>1. calls' = [calls EXCEPT ![i].client = "failed"] /\ UNCHANGED <<server, page, query>>
  BY DEF Lose, tab
<1>2. calls'[i].client = "failed"
  BY <1>1, CallMoves
<1>3. \A k \in Key : ~Told(k, calls'[i])
  BY <1>2 DEF Told, Succeeded
<1>4. QED
  BY <1>1, <1>3, CallbackCache

LEMMA SettleCache ==
  ASSUME IInv, IInv', CacheInv, NEW i \in DOMAIN calls, Settle(i)
  PROVE  CacheInv'
<1>1. /\ IF calls[i].op = "Update" THEN calls[i].client \in {"detailing", "detailed"}
         ELSE calls[i].client \in {"listing", "listed"}
      /\ calls' = [calls EXCEPT ![i].client = "settled"] /\ UNCHANGED <<server, page, query>>
  BY DEF Settle, Through
<1>2. calls'[i].op = calls[i].op
  BY <1>1, CallMoves
<1>3. \A k \in Key : Told(k, calls'[i]) => Told(k, calls[i])
  BY <1>1, <1>2 DEF Told, Succeeded
<1>4. QED
  BY <1>1, <1>3, CallbackCache

\* One query goes on, and a call may just have been told to it.
LEMMA QueryCache ==
  ASSUME IInv, IInv', CacheInv, NEW k \in Key, NEW q, query' = [query EXCEPT ![k] = q],
         Follows(k, q, k \in Active(page)), UNCHANGED <<server, page>>,
         \A i \in DOMAIN calls' :
           \/ calls'[i].server # "done"
           \/ /\ i \in DOMAIN calls /\ calls[i].server = "done" /\ calls'[i].op = calls[i].op
              /\ calls'[i].book = calls[i].book /\ calls'[i].stamp = calls[i].stamp
              /\ \A j \in Key : Told(j, calls'[i]) /\ calls'[i].book \in Holds(j) =>
                   Told(j, calls[i]) \/ (j = k /\ Sees(q, calls'[i], k \in Active(page)))
  PROVE  CacheInv'
<1>1. query'[k] = q /\ \A j \in Key : j # k => query'[j] = query[j]
  BY DEF IInv, Typed, CacheOK
<1>2. \A j \in Key : Follows(j, query[j], j \in Active(page))
  BY DEF Follows, CacheInv
<1>3. ASSUME NEW j \in Key PROVE Follows(j, query'[j], j \in Active(page'))
  <2>1. CASE j = k
    BY <1>1, <2>1
  <2>2. CASE j # k
    BY <1>1, <1>2, <2>2
  <2>3. QED
    BY <2>1, <2>2
<1>4. ASSUME NEW i \in DOMAIN calls', NEW j \in Key, calls'[i].server = "done",
             Told(j, calls'[i]), calls'[i].book \in Holds(j)
      PROVE  Told(j, calls[i]) \/ Sees(query'[j], calls'[i], j \in Active(page'))
  BY <1>1, <1>4
<1>5. QED
  BY <1>3, <1>4, CacheFollows

\* The calls stay as they are too.
LEMMA FetchCache ==
  ASSUME IInv, IInv', CacheInv, NEW k \in Key, NEW q, query' = [query EXCEPT ![k] = q],
         Follows(k, q, k \in Active(page)), UNCHANGED <<server, page, calls>>
  PROVE  CacheInv'
BY QueryCache

\* A query without new data goes on.
LEMMA TameFollows ==
  ASSUME IInv, NEW k \in Key, NEW q, NEW a \in BOOLEAN, Tame(query[k], q), a \/ q.phase = "idle",
         \A c \in Call : Sees(query[k], c, k \in Active(page)) => Sees(q, c, a)
  PROVE  Follows(k, q, a)
BY TameNewest DEF Follows

LEMMA InvalidatedFollows ==
  ASSUME IInv, CacheInv, NEW k \in Key, NEW held \in BOOLEAN
  PROVE  LET q == Invalidated(query[k], k \in Active(page), held) IN
         /\ Follows(k, q, k \in Active(page))
         /\ \A c \in Call : Sees(q, c, k \in Active(page))
<1> DEFINE a == k \in Active(page)
           q == Invalidated(query[k], a, held)
<1>1. QueryOK(k, query[k]) /\ a \in BOOLEAN /\ (a \/ query[k].phase = "idle")
  BY DEF IInv, Typed, CacheOK, CacheInv
<1>2. Tame(query[k], q) /\ \A c \in Call : Sees(q, c, a)
  <2>1. Tame(query[k], q)
    BY <1>1, TameSteps
  <2>2. ASSUME NEW c \in Call PROVE Sees(q, c, a)
    BY <1>1, SeesSteps
  <2>3. QED
    BY <2>1, <2>2
<1>3. a \/ q.phase = "idle"
  BY <1>1 DEF Invalidated, QueryOK, Query
<1>4. Follows(k, q, a)
  <2> HIDE DEF q
  <2>1. QED
    BY <1>1, <1>2, <1>3, TameFollows
<1>5. QED
  BY <1>2, <1>4

LEMMA InvalidateCache ==
  ASSUME IInv, IInv', CacheInv, NEW i \in DOMAIN calls, InvalidateList(i) \/ InvalidateDetail(i)
  PROVE  CacheInv'
<1>1. PICK k \in Key, held \in BOOLEAN, v \in Succeeded \ {"settled"} :
        /\ query' = [query EXCEPT ![k] = Invalidated(query[k], k \in Active(page), held)]
        /\ calls' = [calls EXCEPT ![i].client = v]
        /\ \/ k = "list" /\ v \in {"listing", "listed"}
           \/ /\ k = calls[i].book /\ k \in Book /\ v \in {"detailing", "detailed"}
              /\ calls[i].op = "Update" /\ calls[i].client \in {"listing", "listed"}
        /\ UNCHANGED <<server, clock, roles, tab>>
  BY InvalidateSteps
<1> DEFINE q == Invalidated(query[k], k \in Active(page), held)
<1>2. Follows(k, q, k \in Active(page)) /\ \A c \in Call : Sees(q, c, k \in Active(page))
  BY InvalidatedFollows
<1> HIDE DEF q
<1>3. \A j \in DOMAIN calls' : calls'[j] \in Call
  BY DEF IInv, Typed, CallsOK
<1>4. \A j \in Key : Told(j, calls'[i]) /\ calls[i].book \in Holds(j) => Told(j, calls[i]) \/ j = k
  <2>1. calls'[i].client = v /\ calls'[i].op = calls[i].op
    BY <1>1, CallMoves
  <2>2. CASE k = "list" /\ v \in {"listing", "listed"}
    BY <2>1, <2>2 DEF Told
  <2>3. CASE k = calls[i].book /\ k \in Book /\ calls[i].client \in {"listing", "listed"}
    <3>1. \A j \in Key : calls[i].book \in Holds(j) => j = "list" \/ j = k
      BY <2>3 DEF Key, Holds
    <3>2. Told("list", calls[i])
      BY <2>3 DEF Told, Succeeded
    <3>3. QED
      BY <3>1, <3>2
  <2>4. QED
    BY <1>1, <2>2, <2>3
<1>5. ASSUME NEW j \in DOMAIN calls', calls'[j].server = "done"
      PROVE  /\ j \in DOMAIN calls /\ calls[j].server = "done" /\ calls'[j].op = calls[j].op
             /\ calls'[j].book = calls[j].book /\ calls'[j].stamp = calls[j].stamp
             /\ \A m \in Key : Told(m, calls'[j]) /\ calls'[j].book \in Holds(m) =>
                  Told(m, calls[j]) \/ (m = k /\ Sees(q, calls'[j], k \in Active(page)))
  <2>1. /\ j \in DOMAIN calls /\ calls[j].server = "done" /\ calls'[j].op = calls[j].op
        /\ calls'[j].book = calls[j].book /\ calls'[j].stamp = calls[j].stamp
    BY <1>1, <1>5, CallMoves
  <2>2. CASE j = i
    BY <1>2, <1>3, <1>4, <2>1, <2>2
  <2>3. CASE j # i
    <3>1. calls'[j] = calls[j]
      BY <1>1, <2>1, <2>3, CallMoves
    <3>2. QED
      BY <2>1, <3>1
  <2>4. QED
    BY <2>2, <2>3
<1>6. query' = [query EXCEPT ![k] = q]
  BY <1>1 DEF q
<1>7. Follows(k, q, k \in Active(page)) /\ UNCHANGED <<server, page>>
  BY <1>1, <1>2 DEF tab
<1>8. \A j \in DOMAIN calls' :
        \/ calls'[j].server # "done"
        \/ /\ j \in DOMAIN calls /\ calls[j].server = "done" /\ calls'[j].op = calls[j].op
           /\ calls'[j].book = calls[j].book /\ calls'[j].stamp = calls[j].stamp
           /\ \A m \in Key : Told(m, calls'[j]) /\ calls'[j].book \in Holds(m) =>
                Told(m, calls[j]) \/ (m = k /\ Sees(q, calls'[j], k \in Active(page)))
  BY <1>5
<1>9. QED
  BY <1>6, <1>7, <1>8, QueryCache, Zenon

LEMMA ReadCache ==
  ASSUME IInv, IInv', CacheInv, NEW k \in Key, NEW found \in BOOLEAN, Read(k, found),
         found <=> k \in Book => server[k].live
  PROVE  CacheInv'
<1> DEFINE got == [b \in Holds(k) |-> server[b]]
           q   == [query[k] EXCEPT !.phase = IF found THEN "read" ELSE "missing",
                                   !.got = IF found THEN got ELSE <<>>]
<1>1. query[k].phase = "sent" /\ UNCHANGED <<server, page, calls>>
  BY DEF Read, tab
<1>2. query[k] \in Query /\ k \in Active(page)
  BY <1>1 DEF IInv, Typed, CacheOK, QueryOK, CacheInv
<1>3. query' = [query EXCEPT ![k] = q]
  BY <1>2 DEF Read, IInv, Typed, CacheOK, Query
<1>4. /\ q.rows = query[k].rows /\ q.stale = query[k].stale /\ q.raced = query[k].raced
      /\ q.error = query[k].error /\ q.phase = (IF found THEN "read" ELSE "missing")
      /\ q.phase = "read" => q.got = got
  BY <1>2 DEF Query
<1> HIDE DEF q
<1>5. ASSUME NEW c \in Call, Kept(c), c.book \in Holds(k), q.phase = "read"
      PROVE  ~(q.got[c.book].stamp < c.stamp) /\ c.stamp <= q.got[c.book].stamp
  <2>1. q.got[c.book] = server[c.book] /\ c.book \in Book
    BY <1>4, <1>5 DEF Kept
  <2>2. c.stamp \in 0..MaxClock /\ server[c.book].stamp \in 0..MaxClock
    BY <2>1 DEF Call, IInv, Typed, ServerOK, Row
  <2>3. c.stamp \in Int /\ server[c.book].stamp \in Int
    BY <2>2, Bounds
  <2>4. QED
    BY <1>5, <2>1, <2>3 DEF Kept
<1>6. ASSUME NEW c \in Call, Kept(c), c.book \in Holds(k)
      PROVE  /\ Sees(query[k], c, TRUE) => Sees(q, c, TRUE)
             /\ Newest(query[k], c) => Newest(q, c)
  BY <1>1, <1>4, <1>5, <1>6 DEF Sees, Newest, HasData
<1>7. k \in Unborn => q.phase # "read"
  <2>1. k \in Unborn => ~found
    BY DEF Unborn
  <2>2. QED
    BY <1>4, <2>1
<1>8. Follows(k, q, k \in Active(page))
  <2>1. HasData(q) <=> HasData(query[k])
    BY <1>4 DEF HasData
  <2>2. (k \in Active(page)) = TRUE
    BY <1>2
  <2>3. Follows(k, q, TRUE)
    BY <1>6, <1>7, <2>1, <2>2 DEF Follows
  <2>4. QED
    BY <2>2, <2>3
<1>9. QED
  BY <1>1, <1>3, <1>8, FetchCache

LEMMA ReceiveCache ==
  ASSUME IInv, IInv', CacheInv, NEW k \in Key, Receive(k)
  PROVE  CacheInv'
<1> DEFINE q == [query[k] EXCEPT !.rows = query[k].got, !.stale = FALSE, !.error = FALSE,
                                 !.phase = "idle", !.got = <<>>, !.tries = 0]
<1>1. query[k].phase = "read" /\ UNCHANGED <<server, page, calls>>
  BY DEF Receive
<1>2. query[k] \in Query /\ k \in Active(page)
  BY <1>1 DEF IInv, Typed, CacheOK, QueryOK, CacheInv
<1>3. query' = [query EXCEPT ![k] = q]
  BY <1>2 DEF Receive, IInv, Typed, CacheOK, Query
<1>4. q.rows = query[k].got /\ q.phase = "idle" /\ q.raced = query[k].raced
  BY <1>2 DEF Query
<1> HIDE DEF q
<1>5. Follows(k, q, TRUE)
  <2>1. (k \in Active(page)) = TRUE
    BY <1>2
  <2>2. \A c : Sees(query[k], c, TRUE) => Sees(q, c, TRUE)
    BY <1>1, <1>4 DEF Sees
  <2>3. \A c : Newest(query[k], c) => Newest(q, c)
    BY <1>1, <1>4 DEF Newest
  <2>4. QED
    BY <1>1, <2>1, <2>2, <2>3 DEF Follows
<1>6. Follows(k, q, k \in Active(page))
  <2>1. (k \in Active(page)) = TRUE
    BY <1>2
  <2>2. QED
    BY <1>5, <2>1
<1>7. QED
  BY <1>1, <1>3, <1>6, FetchCache

LEMMA FetchFailsCache ==
  ASSUME IInv, IInv', CacheInv, NEW k \in Key, FetchFails(k)
  PROVE  CacheInv'
<1>1. PICK refused \in BOOLEAN, held \in BOOLEAN :
        query' = [query EXCEPT ![k] = Failed(query[k], refused, held)]
  BY DEF FetchFails, IInv, Typed, CacheOK
<1>2. query[k].phase # "idle" /\ UNCHANGED <<server, page, calls>>
  BY DEF FetchFails, tab
<1> DEFINE q == Failed(query[k], refused, held)
           a == k \in Active(page)
<1>3. QueryOK(k, query[k]) /\ a \in BOOLEAN /\ a
  BY <1>2 DEF IInv, Typed, CacheOK, CacheInv
<1>4. Tame(query[k], q) /\ \A c \in Call : Sees(query[k], c, a) => Sees(q, c, a)
  BY <1>3, FailedOK, SeesSteps
<1> HIDE DEF q
<1>5. Follows(k, q, a)
  BY <1>3, <1>4, TameFollows
<1>6. query' = [query EXCEPT ![k] = q]
  BY <1>1 DEF q
<1>7. QED
  BY <1>2, <1>5, <1>6, FetchCache

LEMMA ContinueCache ==
  ASSUME IInv, IInv', CacheInv, NEW k \in Key, Continue(k)
  PROVE  CacheInv'
<1> DEFINE q == [query[k] EXCEPT !.phase = "sent"]
           a == k \in Active(page)
<1>1. query[k].phase = "paused" /\ UNCHANGED <<server, page, calls>>
  BY DEF Continue, tab
<1>2. QueryOK(k, query[k]) /\ a = TRUE
  BY <1>1 DEF IInv, Typed, CacheOK, CacheInv
<1>3. Tame(query[k], q) /\ \A c : Sees(query[k], c, TRUE) => Sees(q, c, TRUE)
  BY <1>2, ContinuedOK
<1>4. query' = [query EXCEPT ![k] = q]
  BY DEF Continue, IInv, Typed, CacheOK
<1> HIDE DEF q
<1>5. Follows(k, q, a)
  BY <1>2, <1>3, TameFollows
<1>6. QED
  BY <1>1, <1>4, <1>5, FetchCache

LEMMA CollectCache ==
  ASSUME IInv, IInv', CacheInv, NEW k \in Key, Collect(k)
  PROVE  CacheInv'
<1> DEFINE a == k \in Active(page)
<1>1. query' = [query EXCEPT ![k] = NoQuery] /\ UNCHANGED <<server, page, calls>>
  BY DEF Collect, tab
<1>2. QueryOK(k, query[k]) /\ a \in BOOLEAN
  BY DEF IInv, Typed, CacheOK
<1>3. /\ Tame(query[k], NoQuery) /\ NoQuery.phase = "idle"
      /\ \A c \in Call : Sees(NoQuery, c, a)
  BY <1>2, TameSteps, SeesSteps DEF NoQuery
<1>4. Follows(k, NoQuery, a)
  BY <1>2, <1>3, TameFollows
<1>5. QED
  BY <1>1, <1>4, FetchCache

LEMMA ReconnectCache ==
  ASSUME IInv, IInv', CacheInv, Reconnect
  PROVE  CacheInv'
<1>1. PICK k \in Active(page) :
        query[k].stale /\ query' = [query EXCEPT ![k] = Started(query[k], FALSE)]
  BY DEF Reconnect, IInv, Typed, CacheOK
<1> DEFINE a == k \in Active(page)
           q == Started(query[k], FALSE)
<1>2. k \in Key /\ UNCHANGED <<server, page, calls>>
  BY <1>1 DEF IInv, Typed, TabOK, Page, Active, Key, Reconnect, tab
<1>3. QueryOK(k, query[k]) /\ a \in BOOLEAN /\ a
  BY <1>1, <1>2 DEF IInv, Typed, CacheOK
<1>4. Tame(query[k], q) /\ \A c \in Call : Sees(q, c, a)
  BY <1>1, <1>2, <1>3, TameSteps, SeesSteps
<1> HIDE DEF q
<1>5. Follows(k, q, a)
  BY <1>2, <1>3, <1>4, TameFollows
<1>6. query' = [query EXCEPT ![k] = q]
  BY <1>1 DEF q
<1>7. QED
  BY <1>2, <1>5, <1>6, FetchCache

LEMMA AgeCache ==
  ASSUME IInv, IInv', CacheInv, Age
  PROVE  CacheInv'
<1>1. /\ query' = [k \in Key |-> [query[k] EXCEPT !.stale = @ \/ HasData(query[k])]]
      /\ UNCHANGED <<server, page, calls>>
  BY Zenon DEF Age, tab
<1>2. ASSUME NEW k \in Key PROVE Follows(k, query'[k], k \in Active(page'))
  <2> DEFINE q == [query[k] EXCEPT !.stale = @ \/ HasData(query[k])]
             a == k \in Active(page)
  <2>1. QueryOK(k, query[k]) /\ a \in BOOLEAN /\ (a \/ query[k].phase = "idle")
    BY DEF IInv, Typed, CacheOK, CacheInv
  <2>2. /\ Tame(query[k], q)
        /\ \A c \in Call : Sees(query[k], c, a) => Sees(q, c, a)
    BY <2>1, AgedTame, SeesSteps
  <2>3. query'[k] = q /\ q.phase = query[k].phase
    BY <1>1, <2>1 DEF QueryOK, Query
  <2> HIDE DEF q
  <2>4. Follows(k, q, a)
    BY <2>1, <2>2, <2>3, TameFollows
  <2>5. QED
    BY <1>1, <2>3, <2>4
<1>3. QED
  BY <1>1, <1>2, CacheFollows

LEMMA InitCache == Init => CacheInv
<1>1. ~HasData(NoQuery) /\ NoQuery.phase = "idle"
  BY DEF NoQuery, HasData
<1>2. Init => /\ DOMAIN calls = {}
              /\ \A k \in Key : query[k] = NoQuery
  BY DEF Init
<1>3. \A b \in Unborn : b \in Key
  BY DEF Unborn, Key
<1>4. QED
  BY <1>1, <1>2, <1>3 DEF CacheInv

LEMMA FormCache ==
  ASSUME IInv, IInv', CacheInv, UNCHANGED <<server, page, query, calls>>
  PROVE  CacheInv'
BY UndisturbedFollows

LEMMA NextCache ==
  ASSUME IInv, CacheInv, Next
  PROVE  CacheInv'
<1> USE NextInvariant
<1>1. CASE submit \/ handleConfirm
  <2>1. \E op, b : Send(op, b)
    BY <1>1 DEF submit, handleConfirm, putApiV1BooksId, postApiV1Books, deleteApiV1BooksId
  <2>2. QED
    BY <2>1, SendCache
<1>2. CASE Render
  BY <1>2, FormCache DEF Render
<1>3. CASE Step
  <2>1. ASSUME NEW p \in Page, Navigate(p) PROVE CacheInv'
    BY <2>1, OpenCache DEF Navigate
  <2>2. ASSUME NEW p \in Page, Load(p) PROVE CacheInv'
    BY <2>2, LoadCache
  <2>3. ASSUME NEW b \in Book, handleDeleteClick(b) PROVE CacheInv'
    BY <2>3, FormCache DEF handleDeleteClick
  <2>4. CASE Type \/ handleCloseModal
    BY <2>4, FormCache DEF Type, handleCloseModal
  <2>5. CASE Api
    BY <2>5, OtherWriteCache, CommitCache, RefuseCache DEF Api
  <2>6. CASE Arrive
    <3>1. CASE page.at = "list"
      BY <2>6, <3>1, FormCache DEF Arrive
    <3>2. CASE page.at # "list"
      <4>1. At("list", NoBook) \in Page
        BY Zenon DEF Page, At
      <4>2. QED
        BY <2>6, <3>2, <4>1, OpenCache DEF Arrive
    <3>3. QED
      BY <3>1, <3>2
  <2>7. CASE Age \/ Reconnect \/ Resume
    BY <2>7, AgeCache, ReconnectCache, ResumeCache
  <2>8. ASSUME NEW i \in DOMAIN calls, Callback(i) PROVE CacheInv'
    BY <2>8, LoseCache, InvalidateCache, SettleCache DEF Callback
  <2>9. ASSUME NEW k \in Key, Fetch(k) \/ Continue(k) \/ Collect(k) PROVE CacheInv'
    BY <2>9, FetchReads, ReadCache, ReceiveCache, FetchFailsCache, ContinueCache, CollectCache DEF Fetch
  <2>10. QED
    BY <1>3, <2>1, <2>2, <2>3, <2>4, <2>5, <2>6, <2>7, <2>8, <2>9 DEF Step, User
<1>4. QED
  BY <1>1, <1>2, <1>3 DEF Next

LEMMA CacheInvariance == Spec => []CacheInv
<1>1. Init => CacheInv
  BY InitCache
<1>2. IInv /\ CacheInv /\ [Next]_vars => CacheInv'
  <2>1. ASSUME IInv, CacheInv, Next PROVE CacheInv'
    BY <2>1, NextCache
  <2>2. ASSUME CacheInv, UNCHANGED vars PROVE CacheInv'
    BY <2>2 DEF vars, tab, CacheInv, Unborn, Kept, Told, Sees, Newest
  <2>3. QED
    BY <2>1, <2>2
<1>3. QED
  BY <1>1, <1>2, Invariance, PTL DEF Spec

----------------------------------------------------------------------------
(* The theorems.                                                           *)

\* The tab's state keeps its types, and what a query holds is the rows of its key,
\* whatever the pages opened, the fetches that fail and the answers that get lost.
THEOREM TypeCorrect == Spec => []TypeOK
BY Invariance, TypedIsTypeOK, PTL DEF IInv

\* The API carries out what one form or dialog sends in the order it was sent in, unless an
\* earlier request was given up unanswered, or one of the later ones was submitted before
\* the page had rendered its pending flag: the flag holds every other one back.
THEOREM SavesKeepOrder == Spec => []OwnSavesInOrder
BY Invariance, PTL DEF IInv

\* Only an answer that is newer than what the form was filled from clears what the user
\* has typed while the page stays open.
LEMMA StepYields ==
  ASSUME IInv, Next, visit' = visit, form.typed, ~form'.typed
  PROVE  form'.base > form.base
<1>1. visit' # visit + 1 /\ form' # form /\ form' # [form EXCEPT !.typed = TRUE]
  <2>1. visit \in Int /\ form \in [base : NoRow..MaxClock, typed : BOOLEAN]
    BY Bounds DEF IInv, Typed, TabOK
  <2>2. QED
    BY <2>1
<1>2. \E k \in Key : Receive(k)
  <2>1. ~submit /\ ~handleConfirm /\ ~Render
    BY <1>1, Zenon DEF submit, handleConfirm, Render, Send, putApiV1BooksId, postApiV1Books,
                       deleteApiV1BooksId
  <2>2. ~User
    BY <1>1, Zenon DEF User, Navigate, Open, Load, handleDeleteClick, Type, handleCloseModal
  <2>3. ~Api /\ ~Arrive /\ ~Age /\ ~Reconnect /\ ~Resume
    BY <1>1, Zenon DEF Api, OtherWrite, Commit, Refuse, Arrive, Open, Age, Reconnect, Resume, tab
  <2>4. \A i \in DOMAIN calls : ~Callback(i)
    BY <1>1, Zenon DEF Callback, Lose, InvalidateList, InvalidateDetail, Invalidate, Settle, tab
  <2>5. /\ ~getApiV1Books
        /\ \A k \in Key : ~getApiV1BooksId(k) /\ ~FetchFails(k) /\ ~Continue(k) /\ ~Collect(k)
    <3>1. UNCHANGED tab => form' = form
      BY DEF tab
    <3>2. QED
      BY <1>1, <3>1 DEF Read, getApiV1Books, getApiV1BooksId, FetchFails, Continue, Collect
  <2>6. QED
    BY <2>1, <2>2, <2>3, <2>4, <2>5, Zenon DEF Next, Step, Fetch
<1>3. PICK k \in Key : Receive(k)
  BY <1>2
<1>4. query[k].phase = "read" /\ form' = Refilled(k)
  BY <1>3 DEF Receive
<1>5. /\ page.at = "edit" /\ page.book = k /\ query[k].got # query[k].rows
      /\ form'.base = query[k].got[k].stamp
  BY <1>1, <1>4 DEF Refilled
<1>6. k \in Book
  BY <1>5 DEF IInv, Typed, TabOK, Page
<1>7. form.base = IF HasData(query[k]) THEN query[k].rows[k].stamp ELSE NoRow
  BY <1>5 DEF IInv, Fresh, FilledFrom
<1>8. CASE HasData(query[k])
  <2>1. /\ query[k].got[k] \in Row /\ query[k].rows[k] \in Row
        /\ query[k].got[k].live /\ query[k].rows[k].live
        /\ query[k].got \in [{k} -> Row] /\ query[k].rows \in [{k} -> Row]
    BY <1>4, <1>6, <1>8, AnswerIsNewer
  <2>2. query[k].got[k] # query[k].rows[k]
    BY <1>5, <2>1
  <2>3. query[k].got[k].stamp # query[k].rows[k].stamp
    BY <2>1, <2>2 DEF Row
  <2>4. /\ query[k].got[k].stamp \in Int /\ query[k].rows[k].stamp \in Int
        /\ query[k].rows[k].stamp <= query[k].got[k].stamp
    BY <1>4, <1>6, <1>8, AnswerIsNewer
  <2>5. QED
    BY <1>5, <1>7, <1>8, <2>3, <2>4
<1>9. CASE ~HasData(query[k])
  <2>1. query[k].got[k].stamp \in 0..MaxClock
    BY <1>4, <1>6, AnswerIsNewer
  <2>2. QED
    BY <1>5, <1>7, <1>9, <2>1, Bounds DEF NoRow
<1>10. QED
  BY <1>8, <1>9

\* While a page stays open, what the user typed is replaced only by a newer version of
\* the book than the one the form was filled from: a refetch that brings nothing new
\* leaves it alone.
THEOREM TypingYieldsToNewer == Spec => EditsYieldToNewer
<1>1. IInv /\ [Next]_vars => [visit' = visit /\ form.typed /\ ~form'.typed => form'.base > form.base]_vars
  BY StepYields
<1>2. QED
  BY <1>1, Invariance, PTL DEF Spec, EditsYieldToNewer

\* Once a save or a deletion is over, no query goes on holding an older version of its book
\* unmarked, or marked and shown without being fetched (useInvalidateBooks), apart from a
\* first load it met and the detail of a deleted book.
THEOREM OwnSavesAreSeen == Spec => []OwnSaveSeen
<1>1. ASSUME IInv, CacheInv PROVE OwnSaveSeen
  <2>1. SUFFICES ASSUME NEW i \in DOMAIN calls, calls[i].client = "settled",
                        NEW k \in Key, Older(k, calls[i])
                 PROVE  \/ query[k].raced
                        \/ calls[i].op = "Delete" /\ k = calls[i].book
                        \/ /\ query[k].stale
                           /\ k \in Active(page) => query[k].phase # "idle" \/ query[k].error
    BY DEF OwnSaveSeen
  <2>2. calls[i] \in Call /\ calls[i].server = "done"
    BY <1>1, <2>1, CallTyped DEF IInv, CallsInTurn, CallSound, Succeeded
  <2>3. calls[i].book \in Book /\ calls[i].op \in Op
    BY <1>1, <2>2 DEF CacheInv, Kept, Call
  <2>4. CASE Told(k, calls[i])
    <3>1. Sees(query[k], calls[i], k \in Active(page))
      BY <1>1, <2>1, <2>4 DEF CacheInv, Older
    <3>2. QED
      BY <2>1, <3>1 DEF Sees, Older
  <2>5. CASE ~Told(k, calls[i])
    <3>1. k # "list" /\ calls[i].op # "Update"
      BY <2>1, <2>5 DEF Told, Succeeded
    <3>2. k = calls[i].book /\ k \in Book
      BY <2>1, <2>3, <3>1 DEF Older, Holds
    <3>3. calls[i].op # "Create"
      <4>1. ASSUME calls[i].op = "Create" PROVE FALSE
        <5>1. calls[i].stamp <= query[k].rows[k].stamp /\ query[k].rows[k].stamp < calls[i].stamp
          BY <1>1, <2>1, <2>2, <3>2, <4>1 DEF CacheInv, Newest, Older
        <5>2. query[k].rows[k] \in Row
          <6>1. QueryOK(k, query[k]) /\ Holds(k) = {k} /\ HasData(query[k])
            BY <1>1, <2>1, <3>1 DEF IInv, Typed, CacheOK, Older, Holds
          <6>2. QED
            BY <6>1, RowsTyped
        <5>3. query[k].rows[k].stamp \in Int /\ calls[i].stamp \in Int
          BY <1>1, <5>2, CallTyped, Bounds DEF Row
        <5>4. QED
          BY <5>1, <5>3
      <4>2. QED
        BY <4>1
    <3>4. QED
      BY <2>3, <3>1, <3>2, <3>3 DEF Op
  <2>6. QED
    BY <2>4, <2>5
<1>2. QED
  BY <1>1, Invariance, CacheInvariance, PTL

\* Whatever the API would let a session do, with all of its roles or any part of them, the
\* pages offer it.
THEOREM AdmittedAlwaysOffered == Spec => []AdmittedIsOffered
<1>1. AdmittedIsOffered
  BY DEF AdmittedIsOffered, Op, Admitted, Offered, hasRole
<1>2. QED
  BY <1>1, PTL

=============================================================================
