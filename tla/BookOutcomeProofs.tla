------------------------- MODULE BookOutcomeProofs -------------------------
(***************************************************************************)
(* Proofs about what the answers of BookApi say of the table: that they    *)
(* agree with what happened and, when no acknowledgement is lost, that a   *)
(* deletion is final and happens once and that the service implements      *)
(* BookLifecycle. The steps are sorted into four kinds: one that answers   *)
(* without a write, one that moves a request forward, and the statement    *)
(* with its acknowledgement received or lost.                              *)
(***************************************************************************)
EXTENDS BookApiProofs

----------------------------------------------------------------------------
(* The kinds of step.                                                      *)

\* A request is answered and nothing has been written: a refusal comes before the save,
\* and a conflict from a statement that found no row.
Refusal(r, code) ==
  /\ Answer(r, code)
  /\ code \notin {0, 201, 204}
  /\ code \in {400, 401, 403, 404, 422} => pc[r] \in {"idle", "accepted"}
  /\ code = 409 => ~Creates(r) /\ r \in DOMAIN tracked /\ bookId[r] \notin DOMAIN book

\* A request goes on without an answer: only a creation draws a new identity, and only a
\* request that found its row starts to track it.
Progress(r) ==
  /\ UNCHANGED <<book, call, status, committed, lostAcks>>
  /\ issued \subseteq issued'
  /\ pc[r] # "done" /\ pc'[r] # "done"
  /\ pc[r] = "sent" => pc'[r] = "sent"
  /\ \A q \in Request \ {r} : pc'[q] = pc[q] /\ bookId'[q] = bookId[q]
  /\ bookId'[r] # bookId[r] => Creates(r) /\ pc[r] = "accepted" /\ bookId'[r] \notin issued
  /\ \A q \in DOMAIN tracked' : q # r => q \in DOMAIN tracked /\ tracked'[q] = tracked[q]
  /\ r \in DOMAIN tracked' /\ r \notin DOMAIN tracked =>
       IF Creates(r) THEN bookId'[r] \notin issued ELSE bookId[r] \in DOMAIN book
  /\ r \in DOMAIN tracked' /\ r \notin DOMAIN tracked =>
       (tracked'[r].state = "Deleted" => Deletes(r))
  /\ r \in DOMAIN tracked' /\ r \in DOMAIN tracked => tracked'[r].state = tracked[r].state

LEMMA Codes ==
  /\ Classify({"Validation"}) = 422 /\ Classify({"NotFound"}) = 404
  /\ Classify({"Conflict"}) = 409 /\ Classify({"Failure"}) = 500
  /\ SuccessStatus("Get") = 200
  /\ \A op \in Operation : /\ SuccessStatus(op) \in {200, 201, 204}
                           /\ SuccessStatus(op) = 201 => op = "Create"
                           /\ SuccessStatus(op) = 204 => op \in {"Update", "Delete"}
<1>1. /\ Classify({"Validation"}) = 422 /\ Classify({"NotFound"}) = 404
      /\ Classify({"Conflict"}) = 409 /\ Classify({"Failure"}) = 500
  BY DEF Classify
<1>2. QED
  BY <1>1 DEF SuccessStatus, Operation

LEMMA EnterKind ==
  ASSUME IInv, NEW r \in Request, Enter(r)
  PROVE  Progress(r) \/ \E code \in Status : Refusal(r, code)
<1>1. CASE Accept(r)
  <2>1. Progress(r)
    BY <1>1 DEF Accept, Progress, IInv, TypeOK, ContextScope, Tracking
  <2>2. QED
    BY <2>1
<1>2. CASE RejectToken(r) \/ RejectRole(r) \/ RejectMalformed(r) \/ RejectInvalid(r)
  <2>1. \E code \in {400, 401, 403, 422} : Answer(r, code) /\ pc[r] = "idle"
    BY <1>2, Codes DEF RejectToken, RejectRole, RejectMalformed, RejectInvalid
  <2>2. QED
    BY <2>1 DEF Refusal, Status
<1>3. QED
  BY <1>1, <1>2 DEF Enter

LEMMA HandleKind ==
  ASSUME IInv, NEW r \in Request, Handle(r)
  PROVE  Progress(r) \/ \E code \in Status : Refusal(r, code)
<1>1. CASE HandleRejected(r) \/ HandleMissing(r) \/ ReadFails(r) \/ HandleGet(r)
  <2>1. \E code \in {200, 404, 422, 500} : Answer(r, code) /\ pc[r] = "accepted"
    BY <1>1, Codes DEF HandleRejected, HandleMissing, ReadFails, HandleGet
  <2>2. QED
    BY <2>1 DEF Refusal, Status
<1>2. r \in Request /\ pc \in [Request -> Stage] /\ bookId \in [Request -> Id \cup {NoId}]
  BY DEF IInv, TypeOK
<1>3. pc[r] = "accepted" => r \notin DOMAIN tracked
  BY DEF IInv, ContextScope, Tracking
<1>4. CASE HandleCreate(r)
  <2> DEFINE row == [title       |-> call[r].title,
                     genre       |-> FromCode(call[r].genre),
                     createdDate |-> clock,
                     updatedDate |-> clock,
                     updatedBy   |-> call[r].user]
             entry(i) == [state |-> "Added", original |-> row, current |-> row, events |-> {i}]
  <2>1. PICK i \in Id \ issued :
          /\ issued' = issued \cup {i}
          /\ bookId' = [bookId EXCEPT ![r] = i]
          /\ Track(r, entry(i))
    BY <1>4, Zenon DEF HandleCreate
  <2>2. entry(i).state = "Added"
    BY DEF entry
  <2> HIDE DEF entry, row
  <2>3. Progress(r)
    BY <1>2, <1>3, <1>4, <2>1, <2>2 DEF HandleCreate, Progress, Track, Creates
  <2>4. QED
    BY <2>3
<1>5. CASE HandleUpdate(r)
  <2>1. Progress(r)
    BY <1>2, <1>3, <1>5 DEF HandleUpdate, Progress, Track, Creates
  <2>2. QED
    BY <2>1
<1>6. CASE HandleDelete(r)
  <2>1. Progress(r)
    BY <1>2, <1>3, <1>6 DEF HandleDelete, Progress, Track, Creates, Deletes
  <2>2. QED
    BY <2>1
<1>7. QED
  BY <1>1, <1>4, <1>5, <1>6 DEF Handle

LEMMA BeginSaveKind ==
  ASSUME IInv, NEW r \in Request, BeginSave(r)
  PROVE  Progress(r)
<1> DEFINE a == Audited(tracked[r], clock', call[r].user)
           f == IF Entries(r, "AggregateRoot") = {} THEN a ELSE [a EXCEPT !.events = {}]
<1>1. /\ pc[r] = "handled" /\ Track(r, f)
      /\ pc' = [pc EXCEPT ![r] = "sent"]
      /\ UNCHANGED <<book, issued, call, bookId, attempts, status, committed, lostAcks>>
  BY Zenon DEF BeginSave
<1>2. r \in DOMAIN tracked /\ tracked[r] \in Entry /\ pc \in [Request -> Stage]
  BY <1>1 DEF IInv, TypeOK, ContextScope, Tracking
<1>3. f.state = tracked[r].state
  BY <1>2 DEF Audited, Entry
<1> HIDE DEF f
<1>4. QED
  BY <1>1, <1>2, <1>3 DEF Progress, Track

LEMMA SaveKind ==
  ASSUME IInv, NEW r \in Request, Save(r)
  PROVE  Progress(r) \/ Commit(r) \/ LoseAck(r) \/ \E code \in Status : Refusal(r, code)
<1>1. CASE Conflict(r)
  <2>1. pc[r] = "sent" /\ Answer(r, 409) /\ tracked[r].state # "Added" /\ bookId[r] \notin DOMAIN book
    BY <1>1, Codes DEF Conflict, StatementApplies
  <2>2. r \in DOMAIN tracked /\ ~Creates(r)
    BY <2>1 DEF IInv, ContextScope, Tracking
  <2>3. Refusal(r, 409) /\ 409 \in Status
    BY <2>1, <2>2 DEF Refusal, Status
  <2>4. QED
    BY <2>3
<1>2. CASE SaveFails(r)
  <2>1. Refusal(r, 500) /\ 500 \in Status
    BY <1>2, Codes DEF SaveFails, Refusal, Status
  <2>2. QED
    BY <2>1
<1>3. CASE BeginSave(r)
  BY <1>3, BeginSaveKind
<1>4. CASE Retry(r)
  <2>1. Progress(r)
    BY <1>4 DEF Retry, Progress
  <2>2. QED
    BY <2>1
<1>5. QED
  BY <1>1, <1>2, <1>3, <1>4 DEF Save

LEMMA StepKind ==
  ASSUME IInv, Next
  PROVE  \E r \in Request :
           Progress(r) \/ Commit(r) \/ LoseAck(r) \/ \E code \in Status : Refusal(r, code)
<1>1. ASSUME NEW r \in Request, Abandon(r) PROVE \E code \in Status : Refusal(r, code)
  <2>1. Refusal(r, 499) /\ 499 \in Status
    BY <1>1 DEF Abandon, Refusal, Status
  <2>2. QED
    BY <2>1
<1>2. QED
  BY <1>1, EnterKind, HandleKind, SaveKind DEF Next

----------------------------------------------------------------------------
(* What a statement does to the identities in the table.                   *)

LEMMA StatementIdentities ==
  ASSUME IInv, NEW r \in Request, pc[r] = "sent", StatementApplies(r),
         tracked[r].state = "Deleted" => Deletes(r)
  PROVE  /\ r \in DOMAIN tracked /\ bookId[r] \in issued
         /\ Creates(r) => /\ bookId[r] \notin DOMAIN book
                          /\ DOMAIN TableAfter(r) = DOMAIN book \cup {bookId[r]}
         /\ Deletes(r) => /\ bookId[r] \in DOMAIN book
                          /\ DOMAIN TableAfter(r) = DOMAIN book \ {bookId[r]}
         /\ ~Creates(r) /\ ~Deletes(r) => /\ Updates(r)
                                          /\ bookId[r] \in DOMAIN book
                                          /\ DOMAIN TableAfter(r) = DOMAIN book
<1>1. /\ r \in DOMAIN tracked /\ tracked[r] \in Entry /\ bookId[r] \in issued
      /\ tracked[r].state = "Added" <=> Creates(r)
      /\ tracked[r].state = "Modified" <=> Updates(r)
  BY DEF IInv, TypeOK, ContextScope, Tracking
<1>2. CASE tracked[r].state = "Added"
  BY <1>1, <1>2 DEF StatementApplies, TableAfter, Creates, Deletes
<1>3. CASE tracked[r].state = "Modified"
  BY <1>1, <1>3 DEF StatementApplies, TableAfter, Creates, Updates, Deletes
<1>4. CASE tracked[r].state = "Deleted"
  BY <1>1, <1>4 DEF StatementApplies, TableAfter, Creates, Deletes
<1>5. QED
  BY <1>1, <1>2, <1>3, <1>4 DEF Entry

----------------------------------------------------------------------------
(* Answers agree with what happened.                                       *)

\* Only a request that is over has an answer, only one whose statement has been sent has
\* had an effect, and only a delete removes.
Settled ==
  /\ \A r \in Request : pc[r] # "done" => status[r] = 0
  /\ \A r \in committed : pc[r] \in {"sent", "done"}
  /\ \A r \in DOMAIN tracked : tracked[r].state = "Deleted" => Deletes(r)

OutcomeInv == Settled /\ AnswerMatchesEffect /\ CreatedBookSurvives

LEMMA InitOutcome == Init => OutcomeInv
BY DEF Init, OutcomeInv, Settled, AnswerMatchesEffect, CreatedBookSurvives

LEMMA RefusalOutcome ==
  ASSUME IInv, OutcomeInv, NEW r \in Request, NEW code \in Status, Refusal(r, code)
  PROVE  OutcomeInv'
<1>1. /\ pc'[r] = "done" /\ status'[r] = code
      /\ \A q \in Request : q # r => pc'[q] = pc[q] /\ status'[q] = status[q]
      /\ \A q \in DOMAIN tracked' : q \in DOMAIN tracked /\ tracked'[q] = tracked[q]
      /\ UNCHANGED <<book, call, bookId, committed>>
  BY DEF Refusal, Answer, Finish, IInv, TypeOK
<1>2. Settled'
  BY <1>1 DEF IInv, TypeOK, OutcomeInv, Settled, Deletes
<1>3. AnswerMatchesEffect'
  BY <1>1 DEF Refusal, OutcomeInv, Settled, AnswerMatchesEffect
<1>4. CreatedBookSurvives'
  BY <1>1 DEF Refusal, OutcomeInv, CreatedBookSurvives, Removed, Deletes
<1>5. QED
  BY <1>2, <1>3, <1>4 DEF OutcomeInv

LEMMA ProgressOutcome ==
  ASSUME IInv, OutcomeInv, NEW r \in Request, Progress(r)
  PROVE  OutcomeInv'
<1>1. r \in committed => pc[r] = "sent" /\ pc'[r] = "sent" /\ bookId'[r] = bookId[r]
  BY DEF Progress, OutcomeInv, Settled
<1>2. Settled'
  BY <1>1 DEF Progress, IInv, TypeOK, OutcomeInv, Settled, Deletes
<1>3. AnswerMatchesEffect'
  BY DEF Progress, OutcomeInv, AnswerMatchesEffect
<1>4. CreatedBookSurvives'
  <2>1. status[r] = 0
    BY DEF Progress, OutcomeInv, Settled
  <2>2. Removed' = Removed
    BY <1>1 DEF Progress, IInv, TypeOK, Removed, Deletes
  <2>3. QED
    BY <2>1, <2>2 DEF Progress, OutcomeInv, CreatedBookSurvives
<1>5. QED
  BY <1>2, <1>3, <1>4 DEF OutcomeInv

\* A statement that takes effect removes a book only on behalf of a delete.
LEMMA StatementKeeps ==
  ASSUME IInv, OutcomeInv, NEW r \in Request, pc[r] = "sent", StatementApplies(r),
         book' = TableAfter(r), committed' = committed \cup {r}, UNCHANGED <<call, bookId>>
  PROVE  /\ Removed \subseteq Removed'
         /\ DOMAIN book \subseteq DOMAIN book' \cup Removed'
         /\ Creates(r) => bookId[r] \in DOMAIN book'
<1>1. tracked[r].state = "Deleted" => Deletes(r)
  BY DEF OutcomeInv, Settled, IInv, ContextScope, Tracking
<1>2. Removed \subseteq Removed' /\ (Deletes(r) => bookId[r] \in Removed')
  BY DEF Removed, Deletes
<1>3. QED
  BY <1>1, <1>2, StatementIdentities DEF Deletes, Creates

LEMMA CommitOutcome ==
  ASSUME IInv, OutcomeInv, NEW r \in Request, Commit(r)
  PROVE  OutcomeInv'
<1>1. /\ pc[r] = "sent" /\ StatementApplies(r) /\ book' = TableAfter(r)
      /\ committed' = committed \cup {r} /\ UNCHANGED <<call, bookId>>
      /\ pc'[r] = "done" /\ status'[r] = SuccessStatus(call[r].op)
      /\ \A q \in Request : q # r => pc'[q] = pc[q] /\ status'[q] = status[q]
      /\ \A q \in DOMAIN tracked' : q \in DOMAIN tracked /\ tracked'[q] = tracked[q]
  BY DEF Commit, Finish, IInv, TypeOK
<1>2. /\ Removed \subseteq Removed' /\ DOMAIN book \subseteq DOMAIN book' \cup Removed'
      /\ Creates(r) => bookId[r] \in DOMAIN book'
  BY <1>1, StatementKeeps
<1>3. status'[r] \in {200, 201, 204} /\ (status'[r] = 201 => Creates(r))
  BY <1>1, Codes, CallTyped DEF IInv, Creates
<1>4. Settled'
  BY <1>1 DEF IInv, TypeOK, OutcomeInv, Settled, Deletes
<1>5. AnswerMatchesEffect'
  BY <1>1, <1>3 DEF OutcomeInv, AnswerMatchesEffect
<1>6. CreatedBookSurvives'
  BY <1>1, <1>2, <1>3 DEF OutcomeInv, CreatedBookSurvives
<1>7. QED
  BY <1>4, <1>5, <1>6 DEF OutcomeInv

LEMMA LoseAckOutcome ==
  ASSUME IInv, OutcomeInv, NEW r \in Request, LoseAck(r)
  PROVE  OutcomeInv'
<1>1. /\ pc[r] = "sent" /\ StatementApplies(r) /\ book' = TableAfter(r)
      /\ committed' = committed \cup {r} /\ UNCHANGED <<call, bookId>>
      /\ \/ pc'[r] = "done" /\ status'[r] = 500
         \/ pc'[r] = "sent" /\ status'[r] = status[r]
      /\ \A q \in Request : q # r => pc'[q] = pc[q] /\ status'[q] = status[q]
      /\ \A q \in DOMAIN tracked' : q \in DOMAIN tracked /\ tracked'[q] = tracked[q]
  BY Codes DEF LoseAck, Finish, IInv, TypeOK
<1>2. Removed \subseteq Removed' /\ DOMAIN book \subseteq DOMAIN book' \cup Removed'
  BY <1>1, StatementKeeps
<1>3. status[r] = 0
  BY <1>1 DEF OutcomeInv, Settled
<1>4. Settled'
  BY <1>1, <1>3 DEF IInv, TypeOK, OutcomeInv, Settled, Deletes
<1>5. AnswerMatchesEffect'
  BY <1>1, <1>3 DEF OutcomeInv, AnswerMatchesEffect
<1>6. CreatedBookSurvives'
  BY <1>1, <1>2, <1>3 DEF OutcomeInv, CreatedBookSurvives
<1>7. QED
  BY <1>4, <1>5, <1>6 DEF OutcomeInv

LEMMA NextOutcome == IInv /\ OutcomeInv /\ [Next]_vars => OutcomeInv'
<1> SUFFICES ASSUME IInv, OutcomeInv, [Next]_vars PROVE OutcomeInv'
  OBVIOUS
<1>1. CASE UNCHANGED vars
  BY <1>1 DEF vars, requestVars, OutcomeInv, Settled, AnswerMatchesEffect, CreatedBookSurvives,
              Removed, Deletes
<1>2. CASE Next
  BY <1>2, StepKind, RefusalOutcome, ProgressOutcome, CommitOutcome, LoseAckOutcome
<1>3. QED
  BY <1>1, <1>2

(* A success is answered only for a write that took effect, and a refusal other than a
   conflict only for one that did not, whatever is retried, lost or abandoned. *)
THEOREM AnswersMatchEffects == Spec => []AnswerMatchesEffect
<1>1. OutcomeInv => AnswerMatchesEffect
  BY DEF OutcomeInv
<1>2. QED
  BY InitOutcome, NextOutcome, Invariance, <1>1, PTL DEF Spec

(* A book whose creation was acknowledged is in the table until some request deletes it. *)
THEOREM CreatedBooksSurvive == Spec => []CreatedBookSurvives
<1>1. OutcomeInv => CreatedBookSurvives
  BY DEF OutcomeInv
<1>2. QED
  BY InitOutcome, NextOutcome, Invariance, <1>1, PTL DEF Spec

----------------------------------------------------------------------------
(* No acknowledgement is lost.                                             *)

\* A request that has seen a book: it tracks it, changed it, or learned that it is gone.
Saw(r) == ~Creates(r) /\ (r \in DOMAIN tracked \/ r \in committed \/ status[r] = 409)

\* A request that knows its book to be gone.
KnowsGone(r) == status[r] = 409 \/ (Deletes(r) /\ r \in committed)

\* What has taken effect is answered; a conflict is no answer to a creation; a book under
\* creation has been in nobody's sight yet; and a book known to be gone is not in the table.
FinalInv ==
  /\ \A r \in committed : pc[r] = "done"
  /\ \A r \in Request : status[r] = 409 => ~Creates(r)
  /\ \A r \in Request : Saw(r) => bookId[r] \in issued
  /\ \A q \in DOMAIN tracked : Creates(q) =>
       /\ bookId[q] \notin DOMAIN book
       /\ \A r \in Request : Saw(r) => bookId[r] # bookId[q]
  /\ \A r \in Request : KnowsGone(r) => bookId[r] \notin DOMAIN book
  /\ OneDeleteSucceeds

LEMMA InitFinal == Init => FinalInv
BY DEF Init, FinalInv, Saw, KnowsGone, OneDeleteSucceeds

LEMMA RefusalFinal ==
  ASSUME IInv, OutcomeInv, FinalInv, NEW r \in Request, NEW code \in Status, Refusal(r, code)
  PROVE  FinalInv'
<1>1. /\ pc'[r] = "done" /\ status'[r] = code
      /\ \A q \in Request : q # r => pc'[q] = pc[q] /\ status'[q] = status[q]
      /\ \A q \in DOMAIN tracked' : q \in DOMAIN tracked
      /\ UNCHANGED <<book, issued, call, bookId, committed>>
  BY DEF Refusal, Answer, Finish, IInv, TypeOK
<1>2. code = 409 => Saw(r) /\ bookId[r] \notin DOMAIN book
  BY DEF Refusal, Saw
<1>3. \A q \in Request : Saw(q)' => Saw(q)
  BY <1>1, <1>2 DEF Saw, Creates
<1>4. \A q \in Request : KnowsGone(q)' => bookId[q] \notin DOMAIN book
  BY <1>1, <1>2 DEF FinalInv, KnowsGone, Deletes
<1>5. OneDeleteSucceeds'
  BY <1>1 DEF FinalInv, OneDeleteSucceeds, Deletes
<1>6. \A q \in committed' : pc'[q] = "done"
  BY <1>1 DEF FinalInv, IInv, TypeOK
<1>7. \A q \in Request : status'[q] = 409 => ~Creates(q)'
  BY <1>1, <1>2 DEF FinalInv, Saw, Creates
<1>8. \A q \in DOMAIN tracked' : Creates(q)' =>
        /\ bookId'[q] \notin DOMAIN book'
        /\ \A p \in Request : Saw(p)' => bookId'[p] # bookId'[q]
  BY <1>1, <1>3 DEF FinalInv, Creates
<1>9. \A q \in Request : Saw(q)' => bookId'[q] \in issued'
  BY <1>1, <1>3 DEF FinalInv
<1>10. QED
  BY <1>1, <1>4, <1>5, <1>6, <1>7, <1>8, <1>9 DEF FinalInv

LEMMA ProgressFinal ==
  ASSUME IInv, OutcomeInv, FinalInv, NEW r \in Request, Progress(r)
  PROVE  FinalInv'
<1>1. r \notin committed /\ status[r] = 0
  BY DEF Progress, FinalInv, OutcomeInv, Settled
<1>2. \A q \in Request : q # r \/ ~Creates(r) => bookId'[q] = bookId[q]
  BY DEF Progress
<1>3. \A q \in Request : Saw(q)' => Saw(q) \/ (q = r /\ ~Creates(r) /\ bookId[r] \in DOMAIN book)
  BY DEF Progress, Saw, Creates
<1>4. \A q \in Request : KnowsGone(q)' => KnowsGone(q) /\ q # r
  BY <1>1 DEF Progress, KnowsGone, Deletes
<1>5. \A q \in Request : Saw(q)' => bookId'[q] = bookId[q] /\ bookId[q] \in issued
  BY <1>2, <1>3 DEF FinalInv, IInv, Identity, Saw, Creates, Progress
<1>6. ASSUME NEW q \in DOMAIN tracked', Creates(q)'
      PROVE  /\ bookId'[q] \notin DOMAIN book
             /\ \A p \in Request : Saw(p)' => bookId'[p] # bookId'[q]
  <2>1. CASE q = r /\ r \notin DOMAIN tracked
    <3>1. Creates(r) /\ bookId'[r] \notin issued
      BY <1>6, <2>1 DEF Progress, Creates
    <3>2. QED
      BY <2>1, <3>1, <1>5 DEF IInv, Identity
  <2>2. CASE q \in DOMAIN tracked
    <3>1. q \in Request /\ Creates(q) /\ pc[q] # "accepted"
      BY <1>6, <2>2 DEF Progress, Creates, IInv, TypeOK, ContextScope, Tracking
    <3>2. bookId'[q] = bookId[q]
      BY <3>1 DEF Progress
    <3>3. QED
      BY <1>3, <1>5, <2>2, <3>1, <3>2 DEF FinalInv
  <2>3. QED
    BY <2>1, <2>2 DEF Progress
<1>7. OneDeleteSucceeds'
  BY <1>1, <1>2 DEF Progress, FinalInv, OneDeleteSucceeds, Deletes
<1>8. \A q \in committed' : pc'[q] = "done"
  BY <1>1 DEF Progress, FinalInv, IInv, TypeOK
<1>9. \A q \in Request : KnowsGone(q)' => bookId'[q] \notin DOMAIN book'
  BY <1>4 DEF Progress, FinalInv
<1>10. \A q \in Request : status'[q] = 409 => ~Creates(q)'
  BY DEF Progress, FinalInv, Creates
<1>11. \A q \in Request : Saw(q)' => bookId'[q] \in issued'
  BY <1>5 DEF Progress
<1>12. book' = book
  BY DEF Progress
<1>13. QED
  BY <1>6, <1>7, <1>8, <1>9, <1>10, <1>11, <1>12 DEF FinalInv

LEMMA CommitFinal ==
  ASSUME IInv, OutcomeInv, FinalInv, NEW r \in Request, Commit(r)
  PROVE  FinalInv'
<1>1. /\ pc[r] = "sent" /\ StatementApplies(r) /\ book' = TableAfter(r)
      /\ committed' = committed \cup {r} /\ UNCHANGED <<issued, call, bookId>>
      /\ pc'[r] = "done" /\ status'[r] = SuccessStatus(call[r].op)
      /\ \A q \in Request : q # r => pc'[q] = pc[q] /\ status'[q] = status[q]
      /\ DOMAIN tracked' = DOMAIN tracked \ {r}
  BY DEF Commit, Finish, IInv, TypeOK
<1>2. /\ r \in DOMAIN tracked /\ bookId[r] \in issued
      /\ Creates(r) => /\ bookId[r] \notin DOMAIN book
                       /\ DOMAIN book' = DOMAIN book \cup {bookId[r]}
      /\ Deletes(r) => /\ bookId[r] \in DOMAIN book
                       /\ DOMAIN book' = DOMAIN book \ {bookId[r]}
      /\ ~Creates(r) /\ ~Deletes(r) => DOMAIN book' = DOMAIN book
  <2>1. tracked[r].state = "Deleted" => Deletes(r)
    BY <1>1 DEF OutcomeInv, Settled, IInv, ContextScope, Tracking
  <2>2. QED
    BY <1>1, <2>1, StatementIdentities
<1>3. status'[r] # 409
  BY <1>1, Codes, CallTyped DEF IInv
<1>4. \A q \in Request : /\ Creates(q)' <=> Creates(q)
                         /\ Deletes(q)' <=> Deletes(q)
                         /\ Saw(q)' => Saw(q)
  BY <1>1, <1>2, <1>3 DEF Saw, Creates, Deletes
<1>5. bookId[r] \in Id /\ bookId[r] # NoId /\ (Deletes(r) => ~Creates(r))
  BY <1>2, ApiAssumption DEF IInv, TypeOK, Deletes, Creates
<1>6. \A q \in DOMAIN tracked' : q \in Request /\ q \in DOMAIN tracked /\ q # r
  BY <1>1 DEF IInv, TypeOK
<1>7. ASSUME NEW q \in DOMAIN tracked', Creates(q)'
      PROVE  /\ bookId'[q] \notin DOMAIN book'
             /\ \A p \in Request : Saw(p)' => bookId'[p] # bookId'[q]
  <2>1. bookId[q] # bookId[r]
    BY <1>2, <1>4, <1>5, <1>6, <1>7 DEF IInv, Identity, FinalInv, Saw
  <2>2. QED
    BY <1>1, <1>2, <1>4, <1>6, <1>7, <2>1 DEF FinalInv
<1>8. ASSUME NEW q \in Request, KnowsGone(q)'
      PROVE  bookId'[q] \notin DOMAIN book'
  <2>1. CASE q = r
    BY <1>1, <1>2, <1>3, <1>4, <1>8, <2>1 DEF KnowsGone
  <2>2. CASE q # r
    <3>1. KnowsGone(q) /\ Saw(q) /\ bookId[q] \notin DOMAIN book
      BY <1>1, <1>4, <1>8, <2>2 DEF KnowsGone, Saw, FinalInv, Creates, Deletes
    <3>2. Creates(r) => bookId[q] # bookId[r]
      BY <1>2, <3>1 DEF FinalInv
    <3>3. QED
      BY <1>1, <1>2, <3>1, <3>2
  <2>3. QED
    BY <2>1, <2>2
<1>9. OneDeleteSucceeds'
  <2>1. \A q \in Request : Deletes(q) /\ q \in committed /\ Deletes(r) => bookId[q] # bookId[r]
    BY <1>2 DEF FinalInv, KnowsGone
  <2>2. QED
    BY <1>1, <1>4, <2>1 DEF FinalInv, OneDeleteSucceeds
<1>10. \A q \in committed' : pc'[q] = "done"
  BY <1>1 DEF FinalInv, IInv, TypeOK
<1>11. \A q \in Request : status'[q] = 409 => ~Creates(q)'
  BY <1>1, <1>3, <1>4 DEF FinalInv
<1>12. \A q \in Request : Saw(q)' => bookId'[q] \in issued'
  BY <1>1, <1>4 DEF FinalInv
<1>13. QED
  BY <1>7, <1>8, <1>9, <1>10, <1>11, <1>12 DEF FinalInv

LEMMA NextFinal ==
  ASSUME MaxLostAck = 0
  PROVE  IInv /\ OutcomeInv /\ FinalInv /\ [Next]_vars => FinalInv'
<1> SUFFICES ASSUME IInv, OutcomeInv, FinalInv, [Next]_vars PROVE FinalInv'
  OBVIOUS
<1>1. CASE UNCHANGED vars
  BY <1>1 DEF vars, requestVars, FinalInv, Saw, KnowsGone, OneDeleteSucceeds, Creates, Deletes
<1>2. \A r \in Request : ~LoseAck(r)
  BY DEF LoseAck, IInv, TypeOK
<1>3. CASE Next
  BY <1>2, <1>3, StepKind, RefusalFinal, ProgressFinal, CommitFinal
<1>4. QED
  BY <1>1, <1>3

LEMMA Finality ==
  ASSUME MaxLostAck = 0
  PROVE  Spec => [](IInv /\ OutcomeInv /\ FinalInv)
BY InitInvariant, NextInvariant, InitOutcome, NextOutcome, InitFinal, NextFinal, PTL DEF Spec

(* When no acknowledgement is lost, a single one of the deletes of a book succeeds. *)
THEOREM OneDeleteWins ==
  ASSUME MaxLostAck = 0
  PROVE  Spec => []OneDeleteSucceeds
<1>1. FinalInv => OneDeleteSucceeds
  BY DEF FinalInv
<1>2. QED
  BY Finality, <1>1, PTL

(* When no acknowledgement is lost, a book whose deletion was acknowledged, or about which
   a conflict was answered, is absent for good. *)
THEOREM GoneStaysGone ==
  ASSUME MaxLostAck = 0
  PROVE  Spec => []GoneForGood
<1>1. OutcomeInv /\ FinalInv => GoneForGood
  BY DEF OutcomeInv, FinalInv, AnswerMatchesEffect, KnowsGone, GoneForGood
<1>2. QED
  BY Finality, <1>1, PTL

----------------------------------------------------------------------------
(* The service implements its lifecycle.                                   *)

LEMMA SoundRow ==
  ASSUME NEW row \in Row, ValidContent(row), row.createdDate <= row.updatedDate
  PROVE  Lifecycle!Sound(row)
<1>1. Lifecycle!ValidContent(row)
  BY DEF ValidContent, ValidateTitle, SupportedGenre, TitleMinLength, TitleMaxLength,
         Lifecycle!ValidContent, Lifecycle!ValidateTitle, Lifecycle!SupportedGenre,
         Lifecycle!TitleMinLength, Lifecycle!TitleMaxLength
<1>2. QED
  BY <1>1 DEF Lifecycle!Sound, Lifecycle!Row, Row

LEMMA InitLifecycle == Init => Lifecycle!Init
<1> SUFFICES ASSUME Init PROVE Lifecycle!Init
  OBVIOUS
<1>1. DOMAIN book \subseteq Id /\ \A i \in DOMAIN book : book[i] \in Row
  BY ApiAssumption DEF Init, IsTable
<1>2. \A i \in DOMAIN book : ValidContent(book[i]) /\ book[i].createdDate <= book[i].updatedDate
  BY ApiAssumption DEF Init
<1>3. Removed = {}
  BY DEF Init, Removed
<1>4. QED
  BY <1>1, <1>2, <1>3, SoundRow DEF Lifecycle!Init

LEMMA CommitLifecycle ==
  ASSUME IInv, IInv', OutcomeInv, FinalInv, NEW r \in Request, Commit(r)
  PROVE  Lifecycle!Next
<1> DEFINE i == bookId[r]
<1>1. /\ pc[r] = "sent" /\ StatementApplies(r) /\ book' = TableAfter(r)
      /\ committed' = committed \cup {r} /\ UNCHANGED <<call, bookId>>
  BY DEF Commit
<1>2. /\ r \in DOMAIN tracked /\ i \in issued
      /\ Creates(r) => i \notin DOMAIN book /\ DOMAIN book' = DOMAIN book \cup {i}
      /\ Deletes(r) => i \in DOMAIN book /\ DOMAIN book' = DOMAIN book \ {i}
      /\ ~Creates(r) /\ ~Deletes(r) => i \in DOMAIN book /\ DOMAIN book' = DOMAIN book
  <2>1. tracked[r].state = "Deleted" => Deletes(r)
    BY <1>1 DEF OutcomeInv, Settled, IInv, ContextScope, Tracking
  <2>2. QED
    BY <1>1, <2>1, StatementIdentities
<1>3. /\ \A j \in DOMAIN book' : j # i => book'[j] = book[j]
      /\ i \in DOMAIN book' /\ ~Creates(r) => book'[i].createdDate = book[i].createdDate
  BY <1>1, StatementTable
<1>4. \A j \in DOMAIN book' : Lifecycle!Sound(book'[j])
  BY SoundRow DEF IInv, TypeOK, IsTable, RowsSound
<1>5. Removed' = IF Deletes(r) THEN Removed \cup {i} ELSE Removed
  BY <1>1 DEF Removed, Deletes
<1>6. i \in Id
  BY <1>2 DEF IInv, TypeOK
<1>7. CASE Creates(r)
  <2>1. i \notin Removed
    BY <1>2, <1>7 DEF FinalInv, Saw, Removed, Creates, Deletes, IInv, TypeOK
  <2>2. ~Deletes(r)
    BY <1>7 DEF Creates, Deletes
  <2>3. Lifecycle!Add(i)
    BY <1>2, <1>3, <1>4, <1>5, <1>7, <2>1, <2>2 DEF Lifecycle!Add
  <2>4. QED
    BY <1>6, <2>3 DEF Lifecycle!Next
<1>8. CASE Deletes(r)
  <2>1. Lifecycle!Remove(i)
    BY <1>2, <1>3, <1>5, <1>8 DEF Lifecycle!Remove
  <2>2. QED
    BY <1>6, <2>1 DEF Lifecycle!Next
<1>9. CASE ~Creates(r) /\ ~Deletes(r)
  <2>1. Lifecycle!Revise(i)
    BY <1>2, <1>3, <1>4, <1>5, <1>9 DEF Lifecycle!Revise
  <2>2. QED
    BY <1>6, <2>1 DEF Lifecycle!Next
<1>10. QED
  BY <1>7, <1>8, <1>9

LEMMA StepLifecycle ==
  ASSUME MaxLostAck = 0
  PROVE  IInv /\ IInv' /\ OutcomeInv /\ FinalInv /\ [Next]_vars => [Lifecycle!Next]_(Lifecycle!vars)
<1> SUFFICES ASSUME IInv, IInv', OutcomeInv, FinalInv, [Next]_vars
             PROVE  Lifecycle!Next \/ (book' = book /\ Removed' = Removed)
  BY DEF Lifecycle!vars
<1>1. CASE UNCHANGED vars
  BY <1>1 DEF vars, requestVars, Removed, Deletes
<1>2. \A r \in Request : ~LoseAck(r)
  BY DEF LoseAck, IInv, TypeOK
<1>3. ASSUME NEW r \in Request, NEW code \in Status, Refusal(r, code)
      PROVE  book' = book /\ Removed' = Removed
  BY <1>3 DEF Refusal, Answer, Removed, Deletes
<1>4. ASSUME NEW r \in Request, Progress(r)
      PROVE  book' = book /\ Removed' = Removed
  <2>1. r \notin committed
    BY <1>4 DEF Progress, FinalInv
  <2>2. QED
    BY <1>4, <2>1 DEF Progress, Removed, Deletes, IInv, TypeOK
<1>5. QED
  BY <1>1, <1>2, <1>3, <1>4, StepKind, CommitLifecycle

(* When no acknowledgement is lost, the table behaves as BookLifecycle says: each book
   appears once, is revised in place and, once removed, stays away. *)
THEOREM ServiceImplementsLifecycle ==
  ASSUME MaxLostAck = 0
  PROVE  Spec => ImplementsLifecycle
BY InitLifecycle, StepLifecycle, Finality, PTL
DEF Spec, ImplementsLifecycle, Lifecycle!Spec

=============================================================================
