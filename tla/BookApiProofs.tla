--------------------------- MODULE BookApiProofs ---------------------------
(***************************************************************************)
(* Proofs about BookApi for every value of its constants. The inductive    *)
(* invariant IInv is preserved by three kinds of step: one that only       *)
(* answers a request, one that changes what a request tracks, and one that *)
(* runs a statement against the table.                                     *)
(***************************************************************************)
EXTENDS BookApi, TLAPS

----------------------------------------------------------------------------
(* The rules.                                                              *)

(* A title the domain accepts is one the validators accept, and conversely. *)
LEMMA TitleRulesAgree ==
  ASSUME NEW t \in Title
  PROVE  ValidateTitle(t) = "None" <=> ValidBookTitle(t)
BY TitleAssumption
DEF ValidateTitle, ValidBookTitle, TitleMinLength, TitleMaxLength

(* What FromCode accepts, trimmed, is a canonical code that fits its column. *)
LEMMA StoredGenreFits ==
  ASSUME NEW g \in GenreCode, IsSupported(g)
  PROVE  /\ FromCode(g) \in SupportedGenre
         /\ FromCode(g) \in GenreCode
         /\ GenreLength[FromCode(g)] \in GenreMinLength..GenreMaxLength
BY GenreAssumption
DEF IsSupported, FromCode, SupportedGenre, GenreMinLength, GenreMaxLength

LEMMA StatusTyped ==
  /\ \A e \in SUBSET ErrorType : Classify(e) \in Status \ {0}
  /\ \A op \in Operation : SuccessStatus(op) \in Status \ {0}
BY DEF Classify, SuccessStatus, Status, ErrorType, Operation

LEMMA CallTyped ==
  ASSUME TypeOK, NEW r \in Request
  PROVE  /\ call[r] \in [op : Operation, user : User, id : Id \cup {NoId},
                         title : Title, genre : GenreCode]
         /\ call[r].op \in Operation /\ call[r].user \in User /\ call[r].id \in Id \cup {NoId}
         /\ call[r].title \in Title /\ call[r].genre \in GenreCode
BY ApiAssumption DEF TypeOK

----------------------------------------------------------------------------
(* The initial states.                                                     *)

LEMMA InitInvariant == Init => IInv
<1> SUFFICES ASSUME Init PROVE IInv
  OBVIOUS
<1>1. TypeOK
  <2>1. \A r \in Request : call[r] \in [op : Operation, user : User, id : Id \cup {NoId},
                                        title : Title, genre : GenreCode]
    BY ApiAssumption DEF Init
  <2>2. bookId \in [Request -> Id \cup {NoId}]
    BY <2>1 DEF Init
  <2>3. IsTable(book) /\ issued \subseteq Id
    BY ApiAssumption DEF Init, IsTable
  <2>4. DOMAIN tracked = {} /\ tracked \in [DOMAIN tracked -> Entry]
    BY DEF Init
  <2>5. attempts \in [Request -> 0..MaxRetry] /\ lostAcks \in 0..MaxLostAck
    BY ApiAssumption DEF Init
  <2>6. QED
    BY <2>2, <2>3, <2>4, <2>5 DEF Init, TypeOK, Stage, Status
<1>2. ContextScope
  BY DEF Init, ContextScope, Tracking, InFlight
<1>3. Identity
  BY DEF Init, Identity, Creates
<1>4. RowsSound
  BY ApiAssumption DEF Init, RowsSound
<1>5. EntriesSound /\ OneCreatedDate
  BY DEF Init, EntriesSound, OneCreatedDate
<1>6. QED
  BY <1>1, <1>2, <1>3, <1>4, <1>5 DEF IInv

----------------------------------------------------------------------------
(* Steps that only answer.                                                 *)

LEMMA AnswerInvariant ==
  ASSUME IInv, NEW r \in Request, NEW code \in Status, Answer(r, code)
  PROVE  IInv'
<1> USE DEF Answer, Finish
<1>1. /\ DOMAIN tracked' = DOMAIN tracked \ {r}
      /\ \A q \in DOMAIN tracked' : tracked'[q] = tracked[q] /\ q \in DOMAIN tracked
  OBVIOUS
<1>2. /\ pc' \in [Request -> Stage]
      /\ pc'[r] = "done"
      /\ \A q \in Request : q # r => pc'[q] = pc[q]
      /\ status' \in [Request -> Status]
  BY DEF IInv, TypeOK, Stage
<1>3. TypeOK'
  <2>1. tracked' \in [DOMAIN tracked' -> Entry] /\ DOMAIN tracked' \subseteq Request
    BY <1>1 DEF IInv, TypeOK
  <2>2. QED
    BY <1>2, <2>1 DEF IInv, TypeOK
<1>4. ContextScope'
  BY <1>1, <1>2 DEF IInv, TypeOK, ContextScope, Tracking, InFlight, Creates, Updates
<1>5. Identity'
  BY <1>2 DEF IInv, TypeOK, Identity, Creates
<1>6. RowsSound'
  BY DEF IInv, RowsSound
<1>7. EntriesSound'
  BY <1>1, <1>2 DEF IInv, TypeOK, EntriesSound
<1>8. OneCreatedDate'
  BY <1>1, <1>2 DEF IInv, TypeOK, OneCreatedDate
<1>9. QED
  BY <1>3, <1>4, <1>5, <1>6, <1>7, <1>8 DEF IInv

----------------------------------------------------------------------------
(* Steps that change what a request tracks, or where it is.                *)

LEMMA AcceptInvariant ==
  ASSUME IInv, NEW r \in Request, Accept(r)
  PROVE  IInv'
<1> USE DEF Accept
<1>1. /\ pc' \in [Request -> Stage]
      /\ pc'[r] = "accepted"
      /\ \A q \in Request : q # r => pc'[q] = pc[q]
  BY DEF IInv, TypeOK, Stage
<1>2. TypeOK'
  BY <1>1 DEF IInv, TypeOK
<1>3. ContextScope'
  BY <1>1 DEF IInv, TypeOK, ContextScope, Tracking, InFlight, Creates, Updates
<1>4. Identity'
  BY <1>1 DEF IInv, TypeOK, Identity, Creates
<1>5. RowsSound' /\ EntriesSound' /\ OneCreatedDate'
  BY <1>1 DEF IInv, TypeOK, ContextScope, Tracking, RowsSound, EntriesSound, OneCreatedDate
<1>6. QED
  BY <1>2, <1>3, <1>4, <1>5 DEF IInv

LEMMA RetryInvariant ==
  ASSUME IInv, NEW r \in Request, Retry(r)
  PROVE  IInv'
<1>1. attempts' \in [Request -> 0..MaxRetry]
  BY ApiAssumption DEF Retry, IInv, TypeOK
<1>2. TypeOK'
  BY <1>1 DEF Retry, IInv, TypeOK
<1>3. QED
  BY <1>2 DEF Retry, IInv, ContextScope, Tracking, InFlight, Creates, Updates, Identity,
              EntriesSound, RowsSound, OneCreatedDate

LEMMA HandleCreateInvariant ==
  ASSUME IInv, NEW r \in Request, HandleCreate(r)
  PROVE  IInv'
<1> DEFINE row == [title       |-> call[r].title,
                   genre       |-> FromCode(call[r].genre),
                   createdDate |-> clock,
                   updatedDate |-> clock,
                   updatedBy   |-> call[r].user]
           entry(i) == [state |-> "Added", original |-> row, current |-> row, events |-> {i}]
<1>1. PICK i \in Id \ issued :
        /\ issued' = issued \cup {i}
        /\ bookId' = [bookId EXCEPT ![r] = i]
        /\ Track(r, entry(i))
  BY Zenon DEF HandleCreate
<1>2. row \in Row /\ ValidContent(row) /\ clock \in Nat
  <2>1. IsSupported(call[r].genre) /\ ValidateTitle(call[r].title) = "None"
    BY DEF HandleCreate, DomainRejects
  <2>2. QED
    BY <2>1, CallTyped, StoredGenreFits DEF IInv, TypeOK, Row, ValidContent
<1>3. entry(i) \in Entry
  BY <1>2 DEF Entry
<1> HIDE DEF row, entry
<1>4. r \notin DOMAIN tracked
  BY DEF HandleCreate, IInv, ContextScope, Tracking
<1>5. /\ DOMAIN tracked' = DOMAIN tracked \cup {r}
      /\ tracked'[r] = entry(i)
      /\ \A q \in DOMAIN tracked : tracked'[q] = tracked[q] /\ q # r
      /\ tracked' \in [DOMAIN tracked' -> Entry]
  BY <1>1, <1>3, <1>4 DEF Track, IInv, TypeOK
<1>6. /\ pc' \in [Request -> Stage]
      /\ pc[r] = "accepted" /\ pc'[r] = "handled" /\ Creates(r)
      /\ \A q \in Request : q # r => pc'[q] = pc[q]
      /\ bookId' \in [Request -> Id \cup {NoId}]
      /\ bookId'[r] = i
      /\ \A q \in Request : q # r => bookId'[q] = bookId[q]
      /\ UNCHANGED <<book, clock, call, attempts, status, dispatched, committed, lostAcks>>
  BY <1>1 DEF HandleCreate, IInv, TypeOK, Stage, Creates
<1>7. TypeOK'
  BY <1>1, <1>5, <1>6 DEF IInv, TypeOK
<1>8. ContextScope'
  BY <1>1, <1>5, <1>6 DEF IInv, TypeOK, ContextScope, Tracking, InFlight, Creates, Updates, entry
<1>9. Identity'
  BY <1>1, <1>6, ApiAssumption DEF IInv, TypeOK, Identity, Creates
<1>10. RowsSound'
  BY <1>6 DEF IInv, RowsSound
<1>11. EntriesSound'
  <2>1. /\ entry(i).current = row /\ entry(i).original = row
        /\ entry(i).state = "Added" /\ row.createdDate = clock
    BY DEF entry, row
  <2>2. QED
    BY <1>2, <1>5, <1>6, <2>1 DEF IInv, TypeOK, EntriesSound
<1>12. OneCreatedDate'
  <2>1. \A q \in DOMAIN tracked : bookId'[q] # i /\ q # r
    BY <1>1, <1>5, <1>6 DEF IInv, TypeOK, ContextScope
  <2>2. i \notin DOMAIN book /\ entry(i).state = "Added"
    BY <1>1 DEF IInv, Identity, entry
  <2>3. QED
    BY <1>5, <1>6, <2>1, <2>2 DEF IInv, TypeOK, OneCreatedDate
<1>13. QED
  BY <1>7, <1>8, <1>9, <1>10, <1>11, <1>12 DEF IInv

\* A request that finds its row starts to track it.
LEMMA TrackedLoad ==
  ASSUME IInv, NEW r \in Request, NEW e \in Entry,
         pc[r] = "accepted",
         bookId[r] \in DOMAIN book,
         Track(r, e),
         e.original = book[bookId[r]],
         e.state = "Modified" <=> Updates(r),
         e.state = "Deleted" <=> Deletes(r),
         e.state # "Added", ~Creates(r),
         e.state # "Deleted" => /\ ValidContent(e.current)
                                /\ e.current.createdDate = e.original.createdDate,
         pc' = [pc EXCEPT ![r] = "handled"],
         UNCHANGED <<book, issued, clock, call, bookId, attempts, status,
                     dispatched, committed, lostAcks>>
  PROVE  IInv'
<1>1. r \notin DOMAIN tracked
  BY DEF IInv, ContextScope, Tracking
<1>2. /\ DOMAIN tracked' = DOMAIN tracked \cup {r}
      /\ tracked'[r] = e
      /\ \A q \in DOMAIN tracked : tracked'[q] = tracked[q] /\ q # r
      /\ tracked' \in [DOMAIN tracked' -> Entry]
  BY <1>1 DEF Track, IInv, TypeOK
<1>3. /\ pc' \in [Request -> Stage]
      /\ pc'[r] = "handled"
      /\ \A q \in Request : q # r => pc'[q] = pc[q]
  BY DEF IInv, TypeOK, Stage
<1>4. TypeOK'
  BY <1>2, <1>3 DEF IInv, TypeOK
<1>5. ContextScope'
  BY <1>2, <1>3 DEF IInv, TypeOK, ContextScope, Identity, Tracking, InFlight,
                    Creates, Updates, Deletes
<1>6. Identity'
  BY <1>3 DEF IInv, TypeOK, Identity, Creates
<1>7. RowsSound'
  BY DEF IInv, RowsSound
<1>8. EntriesSound'
  <2>1. e.original.createdDate <= clock
    BY DEF IInv, TypeOK, IsTable, RowsSound, Row
  <2>2. QED
    BY <1>2, <1>3, <2>1 DEF IInv, TypeOK, EntriesSound
<1>9. OneCreatedDate'
  BY <1>2, <1>3 DEF IInv, TypeOK, OneCreatedDate
<1>10. QED
  BY <1>4, <1>5, <1>6, <1>7, <1>8, <1>9 DEF IInv

LEMMA HandleUpdateInvariant ==
  ASSUME IInv, NEW r \in Request, HandleUpdate(r)
  PROVE  IInv'
<1> DEFINE row == book[bookId[r]]
           e == [state    |-> "Modified",
                 original |-> row,
                 current  |-> [row EXCEPT !.title = call[r].title,
                                          !.genre = FromCode(call[r].genre)],
                 events   |-> {}]
<1>1. IsSupported(call[r].genre) /\ ValidateTitle(call[r].title) = "None"
  BY DEF HandleUpdate, DomainRejects
<1>2. row \in Row
  BY DEF HandleUpdate, IInv, TypeOK, IsTable
<1>3. /\ e.current \in Row
      /\ e.current.title = call[r].title
      /\ e.current.genre = FromCode(call[r].genre)
      /\ e.current.createdDate = row.createdDate
  BY <1>1, <1>2, CallTyped, StoredGenreFits DEF IInv, Row
<1>4. e \in Entry
  BY <1>2, <1>3 DEF Entry
<1>5. ValidContent(e.current)
  BY <1>1, <1>3, CallTyped, StoredGenreFits DEF IInv, ValidContent
<1>6. /\ e.original = row /\ e.state = "Modified"
      /\ Updates(r) /\ ~Creates(r) /\ ~Deletes(r)
      /\ Track(r, e)
  BY DEF HandleUpdate, Updates, Creates, Deletes
<1> HIDE DEF row, e
<1>7. row = book[bookId[r]]
  BY DEF row
<1>8. QED
  BY <1>3, <1>4, <1>5, <1>6, <1>7, TrackedLoad DEF HandleUpdate, e

LEMMA HandleDeleteInvariant ==
  ASSUME IInv, NEW r \in Request, HandleDelete(r)
  PROVE  IInv'
<1> DEFINE row == book[bookId[r]]
           e == [state |-> "Deleted", original |-> row, current |-> row, events |-> {}]
<1>1. e \in Entry
  BY DEF HandleDelete, IInv, TypeOK, IsTable, Entry
<1>2. /\ e.original = book[bookId[r]] /\ e.state = "Deleted"
      /\ Deletes(r) /\ ~Creates(r) /\ ~Updates(r)
      /\ Track(r, e)
  BY DEF HandleDelete, Updates, Creates, Deletes
<1> HIDE DEF e
<1>3. QED
  BY <1>1, <1>2, TrackedLoad DEF HandleDelete

LEMMA BeginSaveInvariant ==
  ASSUME IInv, NEW r \in Request, BeginSave(r)
  PROVE  IInv'
<1> DEFINE e == tracked[r]
           a == Audited(e, clock', call[r].user)
           f == IF Entries(r, "AggregateRoot") = {} THEN a ELSE [a EXCEPT !.events = {}]
<1>1. /\ pc[r] = "handled" /\ clock' = clock + 1
      /\ Track(r, f)
      /\ pc' = [pc EXCEPT ![r] = "sent"]
      /\ dispatched' = dispatched \cup EventsToDispatch(r)
      /\ UNCHANGED <<book, issued, call, bookId, attempts, status, committed, lostAcks>>
  BY Zenon DEF BeginSave
<1>2. r \in DOMAIN tracked /\ e \in Entry /\ clock \in Nat
  BY <1>1 DEF IInv, TypeOK, ContextScope, Tracking
<1>3. /\ f \in Entry
      /\ f.state = e.state /\ f.original = e.original
      /\ f.state # "Deleted" =>
           /\ f.current.title = e.current.title /\ f.current.genre = e.current.genre
           /\ f.current.updatedDate = clock' /\ f.current.updatedBy = call[r].user
           /\ f.current.createdDate = IF e.state = "Added" THEN clock' ELSE e.current.createdDate
  <2>1. e.original \in Row /\ e.current \in Row /\ e.events \in SUBSET Id
    BY <1>2 DEF Entry
  <2>2. clock' \in Nat /\ call[r].user \in User
    BY <1>1, <1>2, CallTyped DEF IInv
  <2>3. a \in Entry
    BY <1>2, <2>1, <2>2 DEF Audited, Entry, Row
  <2>4. /\ a.state = e.state /\ a.original = e.original
        /\ a.state # "Deleted" =>
             /\ a.current.title = e.current.title /\ a.current.genre = e.current.genre
             /\ a.current.updatedDate = clock' /\ a.current.updatedBy = call[r].user
             /\ a.current.createdDate = IF e.state = "Added" THEN clock' ELSE e.current.createdDate
    BY <1>2, <2>1, <2>2 DEF Audited, Entry, Row
  <2> HIDE DEF a
  <2>5. QED
    BY <2>3, <2>4 DEF Entry
<1>4. UNION {x.events : x \in Entries(r, "AggregateRoot")} \subseteq Id
  BY <1>2 DEF Entries, Entry
<1> HIDE DEF f
<1>5. /\ DOMAIN tracked' = DOMAIN tracked
      /\ tracked'[r] = f
      /\ \A q \in DOMAIN tracked : q # r => tracked'[q] = tracked[q]
      /\ tracked' \in [DOMAIN tracked' -> Entry]
  BY <1>1, <1>2, <1>3 DEF Track, IInv, TypeOK
<1>6. /\ pc' \in [Request -> Stage]
      /\ pc'[r] = "sent"
      /\ \A q \in Request : q # r => pc'[q] = pc[q]
  BY <1>1 DEF IInv, TypeOK, Stage
<1>7. TypeOK'
  BY <1>1, <1>2, <1>4, <1>5, <1>6 DEF IInv, TypeOK, EventsToDispatch
<1>8. ContextScope'
  BY <1>1, <1>2, <1>3, <1>5, <1>6
  DEF IInv, TypeOK, ContextScope, Tracking, InFlight, Creates, Updates
<1>9. Identity'
  BY <1>1, <1>6 DEF IInv, TypeOK, Identity, Creates
<1>10. RowsSound'
  BY <1>1, <1>2 DEF IInv, TypeOK, IsTable, Row, RowsSound
<1>11. EntriesSound'
  <2>1. f.state # "Deleted" => Editor(call[r].user)
    BY <1>1, <1>2, <1>3, RoleAssumption, CallTyped
    DEF IInv, TypeOK, Entry, ContextScope, InFlight, Creates, Updates, Authorized
  <2>2. f.state # "Deleted" =>
          /\ ValidContent(f.current)
          /\ f.state = "Modified" => f.current.createdDate = f.original.createdDate
          /\ f.original.createdDate <= clock'
          /\ f.current.createdDate <= clock'
    BY <1>1, <1>2, <1>3 DEF IInv, EntriesSound, ValidContent, Entry, Row
  <2>3. \A q \in DOMAIN tracked \ {r} :
          LET g == tracked[q]
          IN  g.state # "Deleted" =>
                /\ ValidContent(g.current)
                /\ g.state = "Modified" => g.current.createdDate = g.original.createdDate
                /\ g.original.createdDate <= clock'
                /\ pc[q] = "sent" =>
                     /\ g.current.createdDate <= g.current.updatedDate
                     /\ g.current.updatedDate <= clock'
                     /\ Editor(g.current.updatedBy)
    BY <1>1, <1>2 DEF IInv, TypeOK, EntriesSound, Entry, Row
  <2>4. \A q \in DOMAIN tracked : q \in Request
    BY DEF IInv, TypeOK
  <2>5. QED
    BY <1>1, <1>2, <1>3, <1>5, <1>6, <2>1, <2>2, <2>3, <2>4 DEF EntriesSound
<1>12. OneCreatedDate'
  <2>1. \A q \in DOMAIN tracked : tracked'[q].state = tracked[q].state
                               /\ tracked'[q].original = tracked[q].original
    BY <1>3, <1>5
  <2>2. QED
    BY <1>1, <1>2, <1>5, <1>6, <2>1 DEF IInv, TypeOK, OneCreatedDate
<1>13. QED
  BY <1>7, <1>8, <1>9, <1>10, <1>11, <1>12 DEF IInv

----------------------------------------------------------------------------
(* Steps that run a statement.                                             *)

(* What the statement of a request leaves in the table: at most the row of its
   book changes, and what it becomes is sound and keeps the creation date. *)
LEMMA StatementTable ==
  ASSUME IInv, NEW r \in Request, pc[r] = "sent", StatementApplies(r)
  PROVE  LET T == TableAfter(r)
             i == bookId[r]
         IN
         /\ IsTable(T) /\ DOMAIN T \subseteq issued
         /\ \A j \in DOMAIN T : j # i => j \in DOMAIN book /\ T[j] = book[j]
         /\ i \in DOMAIN T =>
              /\ ValidContent(T[i])
              /\ T[i].createdDate <= T[i].updatedDate
              /\ T[i].updatedDate <= clock
              /\ Editor(T[i].updatedBy)
         /\ i \in DOMAIN T /\ Creates(r) =>
              i \notin DOMAIN book /\ T[i] = tracked[r].current
         /\ i \in DOMAIN T /\ ~Creates(r) =>
              i \in DOMAIN book /\ T[i].createdDate = book[i].createdDate
<1> DEFINE e == tracked[r]
           i == bookId[r]
           T == TableAfter(r)
<1>1. /\ r \in DOMAIN tracked /\ e \in Entry
      /\ e.state \in {"Added", "Modified", "Deleted"}
      /\ e.original \in Row /\ e.current \in Row
      /\ e.state = "Added" <=> Creates(r)
      /\ i \in issued /\ i \in Id
  BY DEF IInv, TypeOK, ContextScope, Tracking, Entry
<1>2. e.state # "Deleted" =>
        /\ ValidContent(e.current)
        /\ e.state = "Modified" => e.current.createdDate = e.original.createdDate
        /\ e.current.createdDate <= e.current.updatedDate
        /\ e.current.updatedDate <= clock
        /\ Editor(e.current.updatedBy)
  BY <1>1 DEF IInv, EntriesSound
<1>3. /\ book \in [DOMAIN book -> Row] /\ DOMAIN book \subseteq issued /\ DOMAIN book \subseteq Id
      /\ \A j \in DOMAIN book :
           /\ ValidContent(book[j])
           /\ book[j].createdDate <= book[j].updatedDate
           /\ book[j].updatedDate <= clock
           /\ Editor(book[j].updatedBy)
  BY DEF IInv, TypeOK, IsTable, Identity, RowsSound
<1>4. CASE e.state = "Added"
  <2>1. T = [j \in DOMAIN book \cup {i} |-> IF j = i THEN e.current ELSE book[j]]
    BY <1>4 DEF TableAfter
  <2>2. i \notin DOMAIN book
    BY <1>4 DEF StatementApplies
  <2>3. QED
    BY <1>1, <1>2, <1>3, <1>4, <2>1, <2>2 DEF IsTable
<1>5. CASE e.state = "Modified"
  <2> DEFINE u == UpdatedRow(book[i], e.original, e.current)
  <2>1. T = [book EXCEPT ![i] = u] /\ i \in DOMAIN book
    BY <1>5 DEF TableAfter, StatementApplies
  <2>2. book[i].createdDate = e.original.createdDate
    BY <1>1, <1>5, <2>1 DEF IInv, OneCreatedDate
  <2>3. book[i] \in Row
    BY <1>3, <2>1
  <2>4. u \in Row /\ u.createdDate = book[i].createdDate
    BY <1>1, <1>2, <1>5, <2>3 DEF UpdatedRow, Written, Row
  <2>5. ValidContent(u)
    BY <1>2, <1>3, <1>5, <2>1 DEF UpdatedRow, Written, ValidContent
  <2>6. u.createdDate <= u.updatedDate
    BY <1>1, <1>2, <1>3, <1>5, <2>1, <2>2, <2>3, <2>4 DEF UpdatedRow, Written, Row
  <2>7. u.updatedDate <= clock /\ Editor(u.updatedBy)
    BY <1>1, <1>2, <1>3, <1>5, <2>1 DEF UpdatedRow, Written
  <2> HIDE DEF u
  <2>8. QED
    BY <1>1, <1>3, <1>5, <2>1, <2>4, <2>5, <2>6, <2>7 DEF IsTable
<1>6. CASE e.state = "Deleted"
  <2>1. T = [j \in DOMAIN book \ {i} |-> book[j]]
    BY <1>6 DEF TableAfter
  <2>2. QED
    BY <1>1, <1>3, <1>6, <2>1 DEF IsTable
<1>7. QED
  BY <1>1, <1>4, <1>5, <1>6

LEMMA StatementInvariant ==
  ASSUME IInv, NEW r \in Request,
         pc[r] = "sent",
         StatementApplies(r),
         book' = TableAfter(r),
         committed' = committed \cup {r},
         UNCHANGED <<issued, clock, call, bookId, dispatched>>,
         attempts' \in [Request -> 0..MaxRetry],
         lostAcks' \in 0..MaxLostAck,
         \/ \E code \in Status : Finish(r, code)
         \/ UNCHANGED <<pc, status, tracked>>
  PROVE  IInv'
<1> DEFINE i == bookId[r]
<1>1. /\ IsTable(book') /\ DOMAIN book' \subseteq issued
      /\ \A j \in DOMAIN book' : j # i => j \in DOMAIN book /\ book'[j] = book[j]
      /\ i \in DOMAIN book' =>
           /\ ValidContent(book'[i])
           /\ book'[i].createdDate <= book'[i].updatedDate
           /\ book'[i].updatedDate <= clock
           /\ Editor(book'[i].updatedBy)
      /\ i \in DOMAIN book' /\ Creates(r) =>
           i \notin DOMAIN book /\ book'[i] = tracked[r].current
      /\ i \in DOMAIN book' /\ ~Creates(r) =>
           i \in DOMAIN book /\ book'[i].createdDate = book[i].createdDate
  BY StatementTable
<1>2. /\ DOMAIN tracked' \subseteq DOMAIN tracked
      /\ \A q \in DOMAIN tracked' : tracked'[q] = tracked[q]
      /\ \A q \in DOMAIN tracked : q # r => q \in DOMAIN tracked'
      /\ tracked' \in [DOMAIN tracked' -> Entry]
  BY DEF Finish, IInv, TypeOK
<1>3. /\ pc' \in [Request -> Stage]
      /\ \A q \in Request : q # r => pc'[q] = pc[q]
      /\ status' \in [Request -> Status]
      /\ \/ pc'[r] = "done" /\ r \notin DOMAIN tracked'
         \/ pc'[r] = "sent" /\ DOMAIN tracked' = DOMAIN tracked
  BY DEF Finish, IInv, TypeOK, Stage
<1>4. TypeOK'
  BY <1>1, <1>2, <1>3 DEF IInv, TypeOK
<1>5. ContextScope'
  BY <1>2, <1>3 DEF IInv, TypeOK, ContextScope, Tracking, InFlight, Creates, Updates
<1>6. Identity'
  BY <1>1, <1>3 DEF IInv, TypeOK, Identity, Creates
<1>7. RowsSound'
  BY <1>1 DEF IInv, RowsSound
<1>8. EntriesSound'
  BY <1>2, <1>3 DEF IInv, TypeOK, EntriesSound
<1>9. OneCreatedDate'
  <2>1. /\ r \in DOMAIN tracked
        /\ \A q \in DOMAIN tracked : /\ q \in Request
                                     /\ bookId[q] # NoId
                                     /\ tracked[q].state = "Added" <=> Creates(q)
    BY ApiAssumption DEF IInv, TypeOK, ContextScope, Tracking
  <2>2. \A q \in DOMAIN tracked : Creates(q) /\ Creates(r) /\ bookId[q] = i => q = r
    BY <2>1 DEF IInv, Identity
  <2>3. ASSUME NEW q \in DOMAIN tracked', tracked'[q].state = "Modified", bookId[q] \in DOMAIN book'
        PROVE  book'[bookId[q]].createdDate = tracked'[q].original.createdDate
    BY <1>1, <1>2, <2>1, <2>3 DEF IInv, OneCreatedDate
  <2>4. ASSUME NEW q \in DOMAIN tracked', tracked'[q].state = "Added", bookId[q] \in DOMAIN book'
        PROVE  pc'[q] = "sent" /\ book'[bookId[q]].createdDate = tracked'[q].current.createdDate
    BY <1>1, <1>2, <1>3, <2>1, <2>2, <2>4 DEF IInv, OneCreatedDate
  <2>5. ASSUME NEW q \in DOMAIN tracked', NEW m \in DOMAIN tracked',
               tracked'[q].state = "Added", tracked'[m].state = "Modified",
               bookId[m] = bookId[q]
        PROVE  pc'[q] = "sent" /\ tracked'[m].original.createdDate = tracked'[q].current.createdDate
    BY <1>2, <1>3, <2>1, <2>5 DEF IInv, OneCreatedDate
  <2>6. QED
    BY <2>3, <2>4, <2>5 DEF OneCreatedDate
<1>10. QED
  BY <1>4, <1>5, <1>6, <1>7, <1>8, <1>9 DEF IInv

LEMMA CommitInvariant ==
  ASSUME IInv, NEW r \in Request, Commit(r)
  PROVE  IInv'
<1>1. SuccessStatus(call[r].op) \in Status
  BY StatusTyped, CallTyped DEF IInv
<1>2. attempts' \in [Request -> 0..MaxRetry] /\ lostAcks' \in 0..MaxLostAck
  BY DEF Commit, IInv, TypeOK
<1>3. QED
  BY <1>1, <1>2, StatementInvariant DEF Commit

LEMMA LoseAckInvariant ==
  ASSUME IInv, NEW r \in Request, LoseAck(r)
  PROVE  IInv'
<1>1. Classify({"Failure"}) \in Status
  BY StatusTyped DEF ErrorType
<1>2. lostAcks' \in 0..MaxLostAck
  BY ApiAssumption DEF LoseAck, IInv, TypeOK
<1>3. attempts' \in [Request -> 0..MaxRetry]
  BY ApiAssumption DEF LoseAck, IInv, TypeOK
<1>4. \/ \E code \in Status : Finish(r, code)
      \/ UNCHANGED <<pc, status, tracked>>
  BY <1>1 DEF LoseAck
<1>5. QED
  BY <1>2, <1>3, <1>4, StatementInvariant DEF LoseAck

----------------------------------------------------------------------------
(* The invariant of the specification.                                     *)

LEMMA NextInvariant == IInv /\ [Next]_vars => IInv'
<1> SUFFICES ASSUME IInv, [Next]_vars PROVE IInv'
  OBVIOUS
<1>1. CASE UNCHANGED vars
  BY <1>1 DEF vars, requestVars, IInv, TypeOK, ContextScope, Tracking, InFlight, Creates,
              Updates, Identity, EntriesSound, RowsSound, OneCreatedDate
<1>2. ASSUME NEW r \in Request, Enter(r) PROVE IInv'
  <2>1. Classify({"Validation"}) \in Status /\ {400, 401, 403} \subseteq Status
    BY StatusTyped DEF ErrorType, Status
  <2>2. CASE Accept(r)
    BY <2>2, AcceptInvariant
  <2>3. CASE RejectToken(r) \/ RejectRole(r) \/ RejectMalformed(r) \/ RejectInvalid(r)
    BY <2>1, <2>3, AnswerInvariant DEF RejectToken, RejectRole, RejectMalformed, RejectInvalid
  <2>4. QED
    BY <1>2, <2>2, <2>3 DEF Enter
<1>3. ASSUME NEW r \in Request, Handle(r) PROVE IInv'
  <2>1. /\ Classify({"Validation"}) \in Status /\ Classify({"NotFound"}) \in Status
        /\ SuccessStatus("Get") \in Status /\ 500 \in Status
    BY StatusTyped DEF ErrorType, Operation, Status
  <2>2. CASE HandleRejected(r) \/ HandleMissing(r) \/ ReadFails(r) \/ HandleGet(r)
    BY <2>1, <2>2, AnswerInvariant DEF HandleRejected, HandleMissing, ReadFails, HandleGet
  <2>3. CASE HandleCreate(r)
    BY <2>3, HandleCreateInvariant
  <2>4. CASE HandleUpdate(r)
    BY <2>4, HandleUpdateInvariant
  <2>5. CASE HandleDelete(r)
    BY <2>5, HandleDeleteInvariant
  <2>6. QED
    BY <1>3, <2>2, <2>3, <2>4, <2>5 DEF Handle
<1>4. ASSUME NEW r \in Request, Save(r) PROVE IInv'
  <2>1. Classify({"Conflict"}) \in Status /\ Classify({"Failure"}) \in Status
    BY StatusTyped DEF ErrorType
  <2>2. CASE Conflict(r) \/ SaveFails(r)
    BY <2>1, <2>2, AnswerInvariant DEF Conflict, SaveFails
  <2>3. CASE BeginSave(r)
    BY <2>3, BeginSaveInvariant
  <2>4. CASE Commit(r)
    BY <2>4, CommitInvariant
  <2>5. CASE LoseAck(r)
    BY <2>5, LoseAckInvariant
  <2>6. CASE Retry(r)
    BY <2>6, RetryInvariant
  <2>7. QED
    BY <1>4, <2>2, <2>3, <2>4, <2>5, <2>6 DEF Save
<1>5. ASSUME NEW r \in Request, Abandon(r) PROVE IInv'
  <2>1. 499 \in Status
    BY DEF Status
  <2>2. QED
    BY <1>5, <2>1, AnswerInvariant DEF Abandon
<1>6. QED
  BY <1>1, <1>2, <1>3, <1>4, <1>5 DEF Next

(* The inductive invariant holds in every reachable state of every instance. *)
THEOREM Invariance == Spec => []IInv
BY InitInvariant, NextInvariant, PTL DEF Spec

(* Every variable keeps its type, whatever the requests, titles, users, retries
   and lost acknowledgements. *)
THEOREM TypeCorrect == Spec => []TypeOK
<1>1. IInv => TypeOK
  BY DEF IInv
<1>2. QED
  BY Invariance, <1>1, PTL

(* Every row satisfies the rules of the aggregate and has its audit columns in
   order, however many updates of one book are merged column by column. *)
THEOREM RowsAlwaysSound == Spec => []RowsSound
<1>1. IInv => RowsSound
  BY DEF IInv
<1>2. QED
  BY Invariance, <1>1, PTL

----------------------------------------------------------------------------
(* Action properties.                                                      *)

\* Only the statement of a request changes the table.
LEMMA TableStep ==
  ASSUME IInv, [Next]_vars
  PROVE  \/ book' = book
         \/ \E r \in Request : pc[r] = "sent" /\ StatementApplies(r) /\ book' = TableAfter(r)
<1>1. ASSUME NEW r \in Request, Enter(r) \/ Handle(r) \/ Abandon(r) PROVE book' = book
  BY <1>1 DEF Enter, RejectToken, RejectRole, RejectMalformed, RejectInvalid, Accept,
              Handle, HandleRejected, HandleMissing, ReadFails, HandleCreate, HandleUpdate, HandleDelete, HandleGet,
              Abandon, Answer
<1>2. ASSUME NEW r \in Request, Save(r)
      PROVE  \/ book' = book
             \/ pc[r] = "sent" /\ StatementApplies(r) /\ book' = TableAfter(r)
  BY <1>2 DEF Save, BeginSave, Commit, Conflict, SaveFails, Retry, LoseAck, Answer
<1>3. QED
  BY <1>1, <1>2 DEF Next, vars

(* No save of an existing row moves its CreatedDate. *)
THEOREM CreationDateIsKept == Spec => CreatedDateKept
<1>1. ASSUME IInv, [Next]_vars
      PROVE  [\A i \in DOMAIN book \cap DOMAIN book' :
                book'[i].createdDate = book[i].createdDate]_vars
  <2>1. CASE book' = book
    BY <2>1
  <2>2. ASSUME NEW r \in Request, pc[r] = "sent", StatementApplies(r), book' = TableAfter(r)
        PROVE  \A i \in DOMAIN book \cap DOMAIN book' :
                 book'[i].createdDate = book[i].createdDate
    BY <1>1, <2>2, StatementTable
  <2>3. QED
    BY <1>1, <2>1, <2>2, TableStep
<1>2. QED
  BY Invariance, <1>1, PTL DEF Spec, CreatedDateKept

(* A book that is gone, and whose creation is not still being retried, never
   comes back. *)
THEOREM GoneIsGone == Spec => NoResurrection
<1>1. ASSUME IInv, [Next]_vars
      PROVE  [\A i \in issued :
                i \notin DOMAIN book /\ ~CreationInFlight(i) => i \notin DOMAIN book']_vars
  <2>1. CASE book' = book
    BY <2>1
  <2>2. ASSUME NEW r \in Request, pc[r] = "sent", StatementApplies(r), book' = TableAfter(r)
        PROVE  \A i \in issued :
                 i \notin DOMAIN book /\ ~CreationInFlight(i) => i \notin DOMAIN book'
    <3>1. Creates(r) => CreationInFlight(bookId[r])
      BY <2>2 DEF CreationInFlight, InFlight
    <3>2. QED
      BY <1>1, <2>2, <3>1, StatementTable
  <2>3. QED
    BY <1>1, <2>1, <2>2, TableStep
<1>2. QED
  BY Invariance, <1>1, PTL DEF Spec, NoResurrection

============================================================================
