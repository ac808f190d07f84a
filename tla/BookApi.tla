------------------------------ MODULE BookApi ------------------------------
(***************************************************************************)
(* The book service: HTTP requests served concurrently over one Book       *)
(* table. A request is authorized and validated, its handler loads the     *)
(* aggregate into a DbContext of its own, the save interceptors stamp it   *)
(* and dispatch its domain events, and a single SQL statement, retried by  *)
(* the execution strategy, makes the change durable.                       *)
(*                                                                         *)
(* One action is the code between two awaits: everything a request does    *)
(* without yielding is one step, and other requests may step in between.   *)
(*                                                                         *)
(* A definition whose name ends in _X, Y_X, is no part of the model: it is *)
(* Y with a mistake in it, there to show which property catches it.        *)
(***************************************************************************)
EXTENDS BookRules

CONSTANTS
  Id,          \* book identities (version 7 GUIDs)
  NoId,        \* Guid.Empty, the identity of no book
  Request,     \* the HTTP requests of a behaviour
  Call,        \* the calls clients make
  InitialTable, \* the contents the Book table may have when the behaviour starts
  MaxRetry,    \* retries the execution strategy grants a save
  MaxLostAck   \* bound: commits whose acknowledgement is lost on the way back

\* A Book table: rows under the identities of some books.
IsTable(t) == DOMAIN t \subseteq Id /\ t \in [DOMAIN t -> Row]

ASSUME ApiAssumption ==
  /\ NoId \notin Id
  /\ MaxRetry \in Nat
  /\ MaxLostAck \in Nat
  /\ Call \subseteq [op    : Operation,
                     user  : User,
                     id    : Id \cup {NoId},
                     title : Title,
                     genre : GenreCode]
  /\ \A table \in InitialTable :
       /\ IsTable(table)
       /\ \A i \in DOMAIN table :
            /\ ValidContent(table[i])
            /\ Editor(table[i].updatedBy)
            /\ table[i].createdDate = 0 /\ table[i].updatedDate = 0

VARIABLES
  book,        \* the Book table: a function from the identities present to rows
  issued,      \* every GUID that has been given to a book
  clock,       \* number of readings taken from the TimeProvider so far
  call,        \* what each request asks for
  pc,          \* where each request is
  bookId,      \* the book each request is about: the route's id, or the new Book.Id
  tracked,     \* the ChangeTracker of each request that has loaded an aggregate
  attempts,    \* retries each save has used
  status,      \* the HTTP status answered, 0 while there is none
  dispatched,  \* books whose BookAddedEvent has reached its handler
  committed,   \* history: requests whose statement has taken effect at least once
  lostAcks     \* acknowledgements lost so far

requestVars == <<call, pc, bookId, tracked, attempts, status>>
vars == <<book, issued, clock, dispatched, committed, lostAcks, requestVars>>

Stage == {"idle", "accepted", "handled", "sent", "done"}

\* 499 stands for no answer at all: the caller has gone or the process stopped.
Status == {0, 200, 201, 204, 400, 401, 403, 404, 409, 422, 499, 500}

\* An entity in the ChangeTracker: the values it was loaded with, its values now,
\* and the domain events it has recorded.
Entry == [state    : {"Added", "Modified", "Deleted"},
          original : Row,
          current  : Row,
          events   : SUBSET Id]

InFlight(r) == pc[r] \notin {"idle", "done"}

----------------------------------------------------------------------------
(* Change tracking and persistence helpers.                                *)

\* The classes an entity of type Book is an instance of, by its base class list:
\* Book : AggregateRootAuditable : EntityAuditable : Entity.
BookTypes == {"Book", "AggregateRootAuditable", "EntityAuditable", "Entity"}

\* ChangeTracker.Entries<T>() of request r, as a set of zero or one entries.
Entries(r, type) ==
  IF r \in DOMAIN tracked /\ type \in BookTypes THEN {tracked[r]} ELSE {}

\* Mistake: CreatedDate is stamped on every save.
Audited_EverySaveCreates(entry, now, user) ==
  IF entry.state = "Deleted"
  THEN entry
  ELSE [entry EXCEPT !.current.createdDate = now,
                     !.current.updatedDate = now,
                     !.current.updatedBy   = user]

\* Mistake: a new book is not stamped as updated.
Audited_AddedNotUpdated(entry, now, user) ==
  CASE entry.state = "Added"    -> [entry EXCEPT !.current.createdDate = now]
    [] entry.state = "Modified" -> [entry EXCEPT !.current.updatedDate = now,
                                                 !.current.updatedBy   = user]
    [] entry.state = "Deleted"  -> entry

\* AuditableEntityInterceptor.UpdateEntities: an Added entry is stamped in full, a
\* Modified one (its replaced Genre counts as modified) keeps its CreatedDate, a
\* Deleted one is left alone. The clock is read once, before the entries are looked at.
Audited(entry, now, user) ==
  IF entry.state = "Deleted"
  THEN entry
  ELSE [entry EXCEPT !.current.createdDate = IF entry.state = "Added" THEN now ELSE @,
                     !.current.updatedDate = now,
                     !.current.updatedBy   = user]

\* The events dispatched before the save: those of the aggregates the interceptor finds.
EventsToDispatch(r) == UNION {entry.events : entry \in Entries(r, "AggregateRoot")}

\* An UPDATE writes only the columns whose value differs from the one loaded.
Written(loaded, now, stored) == IF now = loaded THEN stored ELSE now

UpdatedRow(stored, original, current) ==
  [title       |-> Written(original.title, current.title, stored.title),
   genre       |-> Written(original.genre, current.genre, stored.genre),
   createdDate |-> Written(original.createdDate, current.createdDate, stored.createdDate),
   updatedDate |-> Written(original.updatedDate, current.updatedDate, stored.updatedDate),
   updatedBy   |-> Written(original.updatedBy, current.updatedBy, stored.updatedBy)]

\* Whether the statement of r finds the rows it needs: a fresh key for an INSERT,
\* an existing one for an UPDATE or a DELETE. Values loaded earlier are not compared.
StatementApplies(r) ==
  IF tracked[r].state = "Added" THEN bookId[r] \notin DOMAIN book
                                ELSE bookId[r] \in DOMAIN book

\* The table after the statement of r.
TableAfter(r) ==
  LET i == bookId[r]
      e == tracked[r]
  IN CASE e.state = "Added" ->
            [j \in DOMAIN book \cup {i} |-> IF j = i THEN e.current ELSE book[j]]
       [] e.state = "Modified" ->
            [book EXCEPT ![i] = UpdatedRow(@, e.original, e.current)]
       [] e.state = "Deleted" ->
            [j \in DOMAIN book \ {i} |-> book[j]]

\* The request is answered and its scope, with the DbContext, disposed.
Finish(r, code) ==
  /\ pc' = [pc EXCEPT ![r] = "done"]
  /\ status' = [status EXCEPT ![r] = code]
  /\ tracked' = [q \in DOMAIN tracked \ {r} |-> tracked[q]]

\* An answer that leaves everything but the request itself as it was.
Answer(r, code) ==
  /\ Finish(r, code)
  /\ UNCHANGED <<book, issued, clock, call, bookId, attempts, dispatched, committed, lostAcks>>

Track(r, entry) ==
  tracked' = [q \in DOMAIN tracked \cup {r} |-> IF q = r THEN entry ELSE tracked[q]]

----------------------------------------------------------------------------
(* A request enters: authentication, authorization, validation.            *)

\* The validators of the commands and of the query; a delete has none.
ValidCall(c) ==
  /\ c.op \in {"Create", "Update"} => ValidBookTitle(c.title) /\ ValidBookGenre(c.genre)
  /\ c.op = "Get" => c.id # NoId

\* The token is missing, expired or not trusted.
RejectToken(r) ==
  /\ pc[r] = "idle"
  /\ Answer(r, 401)

RejectRole(r) ==
  /\ pc[r] = "idle"
  /\ ~Authorized(call[r].user, call[r].op)
  /\ Answer(r, 403)

\* The body of a command cannot be read as one.
RejectMalformed(r) ==
  /\ pc[r] = "idle"
  /\ Authorized(call[r].user, call[r].op)
  /\ call[r].op \in {"Create", "Update"}
  /\ Answer(r, 400)

RejectInvalid(r) ==
  /\ pc[r] = "idle"
  /\ Authorized(call[r].user, call[r].op)
  /\ ~ValidCall(call[r])
  /\ Answer(r, Classify({"Validation"}))

Accept(r) ==
  /\ pc[r] = "idle"
  /\ Authorized(call[r].user, call[r].op)
  /\ ValidCall(call[r])
  /\ pc' = [pc EXCEPT ![r] = "accepted"]
  /\ UNCHANGED <<book, issued, clock, call, bookId, tracked, attempts, status,
                 dispatched, committed, lostAcks>>

----------------------------------------------------------------------------
(* The handlers, up to their call of SaveEntitiesAsync.                    *)

\* Genre.FromCode or Book.ValidateTitle turns the content down.
DomainRejects(c) == ~IsSupported(c.genre) \/ ValidateTitle(c.title) # "None"

\* The genre or the title is turned down; an update gets that far only with a row.
HandleRejected(r) ==
  /\ pc[r] = "accepted"
  /\ \/ call[r].op = "Create"
     \/ call[r].op = "Update" /\ bookId[r] \in DOMAIN book
  /\ DomainRejects(call[r])
  /\ Answer(r, Classify({"Validation"}))

\* Mistake: the new id is any that no row has, a removed book's included.
HandleCreate_IdReused(r) ==
  /\ pc[r] = "accepted" /\ call[r].op = "Create" /\ ~DomainRejects(call[r])
  /\ \E i \in Id \ DOMAIN book :
       LET row == [title |-> call[r].title, genre |-> FromCode(call[r].genre),
                   createdDate |-> clock, updatedDate |-> clock, updatedBy |-> call[r].user]
       IN /\ issued' = issued \cup {i}
          /\ bookId' = [bookId EXCEPT ![r] = i]
          /\ Track(r, [state |-> "Added", original |-> row, current |-> row, events |-> {i}])
  /\ pc' = [pc EXCEPT ![r] = "handled"]
  /\ UNCHANGED <<book, clock, call, attempts, status, dispatched, committed, lostAcks>>

\* CreateBookCommandHandler: build the aggregate, which draws a GUID and records the
\* event, and add it to the context. The audit columns are placeholders until the save.
HandleCreate(r) ==
  /\ pc[r] = "accepted"
  /\ call[r].op = "Create"
  /\ ~DomainRejects(call[r])
  /\ \E i \in Id \ issued :
       LET row == [title       |-> call[r].title,
                   genre       |-> FromCode(call[r].genre),
                   createdDate |-> clock,
                   updatedDate |-> clock,
                   updatedBy   |-> call[r].user]
       IN /\ issued' = issued \cup {i}
          /\ bookId' = [bookId EXCEPT ![r] = i]
          /\ Track(r, [state |-> "Added", original |-> row, current |-> row, events |-> {i}])
  /\ pc' = [pc EXCEPT ![r] = "handled"]
  /\ UNCHANGED <<book, clock, call, attempts, status, dispatched, committed, lostAcks>>

\* FindAsync finds nothing: BookNotFound.
HandleMissing(r) ==
  /\ pc[r] = "accepted"
  /\ call[r].op \in {"Update", "Delete", "Get"}
  /\ bookId[r] \notin DOMAIN book
  /\ Answer(r, Classify({"NotFound"}))

\* Mistake: an update of a missing book adds it.
HandleUpdate_Upsert(r) ==
  /\ pc[r] = "accepted" /\ call[r].op = "Update" /\ ~DomainRejects(call[r])
  /\ LET row == [title |-> call[r].title, genre |-> FromCode(call[r].genre),
                 createdDate |-> clock, updatedDate |-> clock, updatedBy |-> call[r].user]
         old == IF bookId[r] \in DOMAIN book THEN book[bookId[r]] ELSE row
     IN Track(r, [state    |-> IF bookId[r] \in DOMAIN book THEN "Modified" ELSE "Added",
                  original |-> old,
                  current  |-> [old EXCEPT !.title = row.title, !.genre = row.genre],
                  events   |-> {}])
  /\ pc' = [pc EXCEPT ![r] = "handled"]
  /\ UNCHANGED <<book, issued, clock, call, bookId, attempts, status,
                 dispatched, committed, lostAcks>>

\* UpdateBookCommandHandler: the row is loaded and its content replaced.
HandleUpdate(r) ==
  /\ pc[r] = "accepted"
  /\ call[r].op = "Update"
  /\ bookId[r] \in DOMAIN book
  /\ ~DomainRejects(call[r])
  /\ LET row == book[bookId[r]]
     IN Track(r, [state    |-> "Modified",
                  original |-> row,
                  current  |-> [row EXCEPT !.title = call[r].title,
                                           !.genre = FromCode(call[r].genre)],
                  events   |-> {}])
  /\ pc' = [pc EXCEPT ![r] = "handled"]
  /\ UNCHANGED <<book, issued, clock, call, bookId, attempts, status,
                 dispatched, committed, lostAcks>>

\* Mistake: the removal ends up as an update.
HandleDelete_Soft(r) ==
  /\ pc[r] = "accepted" /\ call[r].op = "Delete" /\ bookId[r] \in DOMAIN book
  /\ LET row == book[bookId[r]]
     IN Track(r, [state |-> "Modified", original |-> row, current |-> row, events |-> {}])
  /\ pc' = [pc EXCEPT ![r] = "handled"]
  /\ UNCHANGED <<book, issued, clock, call, bookId, attempts, status, dispatched, committed, lostAcks>>

\* DeleteBookCommandHandler: the row is loaded and marked for removal.
HandleDelete(r) ==
  /\ pc[r] = "accepted"
  /\ call[r].op = "Delete"
  /\ bookId[r] \in DOMAIN book
  /\ LET row == book[bookId[r]]
     IN Track(r, [state |-> "Deleted", original |-> row, current |-> row, events |-> {}])
  /\ pc' = [pc EXCEPT ![r] = "handled"]
  /\ UNCHANGED <<book, issued, clock, call, bookId, attempts, status, dispatched, committed, lostAcks>>

\* GetBookQueryHandler: a projection without tracking, answered at once.
HandleGet(r) ==
  /\ pc[r] = "accepted"
  /\ call[r].op = "Get"
  /\ bookId[r] \in DOMAIN book
  /\ Answer(r, SuccessStatus("Get"))

\* A read the execution strategy could not carry through: an unhandled exception.
ReadFails(r) ==
  /\ pc[r] = "accepted"
  /\ call[r].op # "Create"
  /\ Answer(r, 500)

----------------------------------------------------------------------------
(* Saving: the interceptors once, then the statement until it is settled.  *)

\* SavingChangesAsync of both interceptors: audit first, then the events, cleared
\* before they are dispatched.
BeginSave(r) ==
  /\ pc[r] = "handled"
  /\ clock' = clock + 1
  /\ dispatched' = dispatched \cup EventsToDispatch(r)
  /\ LET audited == Audited(tracked[r], clock', call[r].user)
     IN Track(r, IF Entries(r, "AggregateRoot") = {} THEN audited
                                                    ELSE [audited EXCEPT !.events = {}])
  /\ pc' = [pc EXCEPT ![r] = "sent"]
  /\ UNCHANGED <<book, issued, call, bookId, attempts, status, committed, lostAcks>>

\* Mistake: nobody looks at the number of rows a DELETE affected.
Commit_RowsIgnored(r) ==
  /\ pc[r] = "sent"
  /\ tracked[r].state = "Deleted" \/ StatementApplies(r)
  /\ book' = TableAfter(r)
  /\ committed' = committed \cup {r}
  /\ Finish(r, SuccessStatus(call[r].op))
  /\ UNCHANGED <<issued, clock, call, bookId, attempts, dispatched, lostAcks>>

Commit(r) ==
  /\ pc[r] = "sent"
  /\ StatementApplies(r)
  /\ book' = TableAfter(r)
  /\ committed' = committed \cup {r}
  /\ Finish(r, SuccessStatus(call[r].op))
  /\ UNCHANGED <<issued, clock, call, bookId, attempts, dispatched, lostAcks>>

\* Mistake: an UPDATE or DELETE that affects no row is answered as done.
Conflict_Ignored(r) ==
  /\ pc[r] = "sent" /\ tracked[r].state # "Added" /\ ~StatementApplies(r)
  /\ Answer(r, SuccessStatus(call[r].op))

\* No row was affected: DbUpdateConcurrencyException, reported as ConcurrencyConflict.
Conflict(r) ==
  /\ pc[r] = "sent"
  /\ tracked[r].state # "Added"
  /\ ~StatementApplies(r)
  /\ Answer(r, Classify({"Conflict"}))

\* Mistake: the exception of the save is swallowed.
SaveFails_Swallowed(r) ==
  /\ pc[r] = "sent"
  /\ Answer(r, SuccessStatus(call[r].op))

\* DbUpdateException: the statement is refused, or an INSERT repeated after a lost
\* acknowledgement violates the primary key. Used-up retries raise an exception that
\* SaveEntitiesAsync does not catch, and GlobalExceptionHandler gives the same answer.
SaveFails(r) ==
  /\ pc[r] = "sent"
  /\ Answer(r, Classify({"Failure"}))

\* Mistake: one retry too many.
Retry_OneMore(r) ==
  /\ pc[r] = "sent" /\ attempts[r] <= MaxRetry
  /\ attempts' = [attempts EXCEPT ![r] = @ + 1]
  /\ UNCHANGED <<book, issued, clock, call, pc, bookId, tracked, status,
                 dispatched, committed, lostAcks>>

\* Mistake: used-up retries start over.
Retry_StartsOver(r) ==
  /\ pc[r] = "sent"
  /\ attempts' = [attempts EXCEPT ![r] = (@ + 1) % (MaxRetry + 1)]
  /\ UNCHANGED <<book, issued, clock, call, pc, bookId, tracked, status,
                 dispatched, committed, lostAcks>>

\* A transient failure before the statement ran: the execution strategy tries again.
Retry(r) ==
  /\ pc[r] = "sent"
  /\ attempts[r] < MaxRetry
  /\ attempts' = [attempts EXCEPT ![r] = @ + 1]
  /\ UNCHANGED <<book, issued, clock, call, pc, bookId, tracked, status,
                 dispatched, committed, lostAcks>>

\* The statement ran but the connection broke before the acknowledgement arrived,
\* which the execution strategy cannot tell from a statement that never ran.
LoseAck(r) ==
  /\ pc[r] = "sent"
  /\ lostAcks < MaxLostAck
  /\ StatementApplies(r)
  /\ book' = TableAfter(r)
  /\ committed' = committed \cup {r}
  /\ lostAcks' = lostAcks + 1
  /\ IF attempts[r] < MaxRetry
     THEN /\ attempts' = [attempts EXCEPT ![r] = @ + 1]
          /\ UNCHANGED <<pc, status, tracked>>
     ELSE /\ Finish(r, Classify({"Failure"}))
          /\ UNCHANGED attempts
  /\ UNCHANGED <<issued, clock, call, bookId, dispatched>>

\* The caller disconnects, which cancels the request, or the process stops.
Abandon(r) ==
  /\ InFlight(r)
  /\ Answer(r, 499)

----------------------------------------------------------------------------

Init ==
  /\ book \in InitialTable
  /\ issued = DOMAIN book
  /\ clock = 0
  /\ call \in [Request -> Call]
  /\ pc = [r \in Request |-> "idle"]
  /\ bookId = [r \in Request |-> IF call[r].op = "Create" THEN NoId ELSE call[r].id]
  /\ tracked = [r \in {} |-> 0]
  /\ attempts = [r \in Request |-> 0]
  /\ status = [r \in Request |-> 0]
  /\ dispatched = {}
  /\ committed = {}
  /\ lostAcks = 0

Enter(r)  == \/ RejectToken(r) \/ RejectRole(r) \/ RejectMalformed(r)
             \/ RejectInvalid(r) \/ Accept(r)

Handle(r) == \/ HandleRejected(r) \/ HandleMissing(r) \/ ReadFails(r)
             \/ HandleCreate(r) \/ HandleUpdate(r) \/ HandleDelete(r) \/ HandleGet(r)

Save(r)   == \/ BeginSave(r) \/ Commit(r) \/ Conflict(r)
             \/ SaveFails(r) \/ Retry(r) \/ LoseAck(r)

Next == \E r \in Request : Enter(r) \/ Handle(r) \/ Save(r) \/ Abandon(r)

Spec == Init /\ [][Next]_vars

\* The server keeps scheduling the continuation of every request it has accepted.
Fairness == \A r \in Request : WF_vars(Handle(r) \/ Save(r))

FairSpec == Spec /\ Fairness
----------------------------------------------------------------------------
(* Properties.                                                             *)

TypeOK ==
  /\ IsTable(book)
  /\ issued \subseteq Id
  /\ clock \in Nat
  /\ call \in [Request -> Call]
  /\ pc \in [Request -> Stage]
  /\ bookId \in [Request -> Id \cup {NoId}]
  /\ DOMAIN tracked \subseteq Request /\ tracked \in [DOMAIN tracked -> Entry]
  /\ attempts \in [Request -> 0..MaxRetry]
  /\ status \in [Request -> Status]
  /\ dispatched \subseteq Id
  /\ committed \subseteq Request
  /\ lostAcks \in 0..MaxLostAck

Creates(r) == call[r].op = "Create"
Updates(r) == call[r].op = "Update"
Deletes(r) == call[r].op = "Delete"

\* Books whose creation some request still has in hand.
CreationInFlight(i) == \E r \in Request : Creates(r) /\ InFlight(r) /\ bookId[r] = i

\* Books some request has deleted, whatever it was answered.
Removed == {bookId[r] : r \in {q \in committed : Deletes(q)}}

(* Every row, including one assembled column by column from two concurrent
   updates, satisfies the rules of the aggregate, and the audit columns agree:
   created no later than updated, updated no later than the clock has been
   read, by somebody the editor policy admits. *)
RowsSound ==
  \A i \in DOMAIN book :
    /\ ValidContent(book[i])
    /\ book[i].createdDate <= book[i].updatedDate
    /\ book[i].updatedDate <= clock
    /\ Editor(book[i].updatedBy)

(* A 2xx answer to a write means the write took effect, and a 4xx answer other
   than a conflict means it did not: no handler answers before its save is
   settled, and no refusal leaves a change behind. *)
AnswerMatchesEffect ==
  \A r \in Request :
    /\ status[r] \in {201, 204} => r \in committed
    /\ status[r] \in {400, 401, 403, 404, 422} => r \notin committed

(* A book whose creation was acknowledged stays in the table until some request
   deletes it: no concurrent update or retried save can lose it. *)
CreatedBookSurvives ==
  \A r \in Request : status[r] = 201 => bookId[r] \in DOMAIN book \cup Removed

(* A book that is gone, and whose creation is not still being retried, never
   comes back: the save of an update that loaded it earlier finds no row. *)
NoResurrection ==
  [][\A i \in issued :
       i \notin DOMAIN book /\ ~CreationInFlight(i) => i \notin DOMAIN book']_vars

(* CreatedDate is written once: no save of an existing row moves it. *)
CreatedDateKept ==
  [][\A i \in DOMAIN book \cap DOMAIN book' :
       book'[i].createdDate = book[i].createdDate]_vars

(* When no acknowledgement is lost: among concurrent deletes of one book a
   single one succeeds, the others learn that it is gone. *)
OneDeleteSucceeds ==
  \A r, q \in Request :
    Deletes(r) /\ Deletes(q) /\ {r, q} \subseteq committed /\ bookId[r] = bookId[q] => r = q

(* When no acknowledgement is lost: a book whose deletion was acknowledged, or
   whose update or deletion was answered with a conflict, is absent for good. So
   a conflict is never a concurrent modification, and the retry that its message
   proposes cannot succeed. *)
GoneForGood ==
  \A r \in Request :
    status[r] = 409 \/ (Deletes(r) /\ status[r] = 204) => bookId[r] \notin DOMAIN book

(* When no acknowledgement is lost: seen from the table alone, the service is
   the lifecycle of BookLifecycle. *)
Lifecycle == INSTANCE BookLifecycle WITH gone <- Removed

ImplementsLifecycle == Lifecycle!Spec

(* Every request the server accepts is answered, through any number of
   conflicts, failures and retries. *)
EveryRequestAnswered == \A r \in Request : pc[r] = "accepted" ~> status[r] # 0

----------------------------------------------------------------------------
(* The inductive invariant behind RowsSound, NoResurrection and             *)
(* CreatedDateKept.                                                         *)

Tracking(r) == pc[r] \in {"handled", "sent"}

\* A DbContext tracks its aggregate from the load to the answer, in the state the
\* operation gives it, on behalf of somebody the endpoint's policy admits.
ContextScope ==
  /\ DOMAIN tracked = {r \in Request : Tracking(r)}
  /\ \A r \in Request : InFlight(r) => Authorized(call[r].user, call[r].op)
  /\ \A r \in DOMAIN tracked :
       /\ tracked[r].state = "Added" <=> Creates(r)
       /\ tracked[r].state = "Modified" <=> Updates(r)
       /\ bookId[r] \in issued

\* A GUID belongs to at most one creation, and every row carries an issued one.
Identity ==
  /\ DOMAIN book \subseteq issued
  /\ \A r \in Request :
       /\ Creates(r) => bookId[r] \in issued \cup {NoId}
       /\ Creates(r) /\ pc[r] \in {"idle", "accepted"} => bookId[r] = NoId
  /\ \A r, q \in Request :
       Creates(r) /\ Creates(q) /\ bookId[r] = bookId[q] /\ bookId[r] # NoId => r = q

\* What a context holds is fit to be written: valid content, and once stamped, audit
\* columns that are in order and name an editor.
EntriesSound ==
  \A r \in DOMAIN tracked :
    LET e == tracked[r]
    IN e.state # "Deleted" =>
         /\ ValidContent(e.current)
         /\ e.state = "Modified" => e.current.createdDate = e.original.createdDate
         /\ e.original.createdDate <= clock
         /\ pc[r] = "sent" =>
              /\ e.current.createdDate <= e.current.updatedDate
              /\ e.current.updatedDate <= clock
              /\ Editor(e.current.updatedBy)

\* Everybody who knows the CreatedDate of a book knows the same one: its row, the
\* contexts that loaded it, and the context of a creation that may write it again.
OneCreatedDate ==
  /\ \A r \in DOMAIN tracked :
       tracked[r].state = "Modified" /\ bookId[r] \in DOMAIN book
         => book[bookId[r]].createdDate = tracked[r].original.createdDate
  /\ \A r \in DOMAIN tracked : tracked[r].state = "Added" =>
       /\ bookId[r] \in DOMAIN book =>
            pc[r] = "sent" /\ book[bookId[r]].createdDate = tracked[r].current.createdDate
       /\ \A q \in DOMAIN tracked : tracked[q].state = "Modified" /\ bookId[q] = bookId[r] =>
            pc[r] = "sent" /\ tracked[q].original.createdDate = tracked[r].current.createdDate

IInv == TypeOK /\ ContextScope /\ Identity /\ EntriesSound /\ RowsSound /\ OneCreatedDate

----------------------------------------------------------------------------
(* What comments of the code say, and the code does not do.                *)

(* DispatchDomainEventsInterceptor: recorded domain events are dispatched
   before the change is committed. *)
EventsDispatchedBeforeCommit ==
  \A r \in committed : Creates(r) => bookId[r] \in dispatched

(* EntityAuditable.UpdatedBy: the user who last updated the entity. *)
UpdatedByNamesLastWriter ==
  [][\A r \in Request :
       Updates(r) /\ pc[r] = "sent" /\ status'[r] = 204
         => book'[bookId[r]].updatedBy = call[r].user]_vars
============================================================================
