-------------------------- MODULE BookFormsProofs --------------------------
(***************************************************************************)
(* Proofs about BookForms: whatever is requested, retried, lost or given   *)
(* up, a request is only answered what its operation and its content call  *)
(* for, and the admin can make something of each of these answers.         *)
(***************************************************************************)
EXTENDS BookForms, BookApiProofs

\* What a call may be answered.
Answerable(c, code) ==
  /\ code \in {200, 201, 204} => code = SuccessStatus(c.op)
  /\ code = 400 => c.op \in Writes
  /\ code = 404 => c.op # "Create"
  /\ code = 409 => c.op \in {"Update", "Delete"}
  /\ code = 422 => ~ValidCall(c) \/ (c.op \in Writes /\ DomainRejects(c))

\* The inductive invariant: answers are of that kind, and a read never gets to a save.
AnswersFit ==
  \A r \in Request : /\ status[r] # 0 => Answerable(call[r], status[r])
                     /\ Tracking(r) => call[r].op # "Get"

----------------------------------------------------------------------------
(* Which steps answer, and what.                                           *)

LEMMA StatusOf ==
  /\ Classify({"Validation"}) = 422 /\ Classify({"NotFound"}) = 404
  /\ Classify({"Conflict"}) = 409 /\ Classify({"Failure"}) = 500
BY DEF Classify

\* Request r moves on without an answer, and a read not into a save.
GoesOn(r) ==
  /\ UNCHANGED <<call, status>>
  /\ \A q \in Request \ {r} : pc'[q] = pc[q]
  /\ (pc[r] = "handled" /\ pc'[r] = "sent") \/ pc'[r] = pc[r] \/ pc'[r] = "accepted" \/ call[r].op # "Get"

\* Request r is answered, with a code that fits it.
IsAnswered(r) ==
  /\ UNCHANGED call
  /\ \A q \in Request \ {r} : pc'[q] = pc[q] /\ status'[q] = status[q]
  /\ pc'[r] = "done" /\ Answerable(call[r], status'[r])

LEMMA FinishAnswers ==
  ASSUME IInv, NEW r \in Request, NEW code \in Status, Finish(r, code),
         UNCHANGED call, Answerable(call[r], code)
  PROVE  IsAnswered(r)
BY DEF Finish, IsAnswered, IInv, TypeOK

LEMMA EnterKinds ==
  ASSUME IInv, NEW r \in Request, Enter(r)
  PROVE  GoesOn(r) \/ IsAnswered(r)
<1>1. CASE RejectToken(r)
  <2>1. Answerable(call[r], 401) /\ 401 \in Status
    BY DEF Answerable, Status
  <2>2. QED
    BY <1>1, <2>1, FinishAnswers DEF RejectToken, Answer
<1>2. CASE RejectRole(r)
  <2>1. Answerable(call[r], 403) /\ 403 \in Status
    BY DEF Answerable, Status
  <2>2. QED
    BY <1>2, <2>1, FinishAnswers DEF RejectRole, Answer
<1>3. CASE RejectMalformed(r)
  <2>1. Answerable(call[r], 400) /\ 400 \in Status
    BY <1>3 DEF RejectMalformed, Answerable, Status, Writes
  <2>2. QED
    BY <1>3, <2>1, FinishAnswers DEF RejectMalformed, Answer
<1>4. CASE RejectInvalid(r)
  <2>1. Answerable(call[r], 422) /\ 422 \in Status
    BY <1>4 DEF RejectInvalid, Answerable, Status
  <2>2. QED
    BY <1>4, <2>1, StatusOf, FinishAnswers DEF RejectInvalid, Answer
<1>5. CASE Accept(r)
  BY <1>5 DEF Accept, GoesOn, IInv, TypeOK
<1>6. QED
  BY <1>1, <1>2, <1>3, <1>4, <1>5 DEF Enter

LEMMA HandleKinds ==
  ASSUME IInv, NEW r \in Request, Handle(r)
  PROVE  GoesOn(r) \/ IsAnswered(r)
<1>1. CASE HandleRejected(r)
  <2>1. Answerable(call[r], 422) /\ 422 \in Status
    BY <1>1 DEF HandleRejected, Answerable, Status, Writes
  <2>2. QED
    BY <1>1, <2>1, StatusOf, FinishAnswers DEF HandleRejected, Answer
<1>2. CASE HandleMissing(r)
  <2>1. Answerable(call[r], 404) /\ 404 \in Status
    BY <1>2 DEF HandleMissing, Answerable, Status
  <2>2. QED
    BY <1>2, <2>1, StatusOf, FinishAnswers DEF HandleMissing, Answer
<1>3. CASE ReadFails(r)
  <2>1. Answerable(call[r], 500) /\ 500 \in Status
    BY DEF Answerable, Status
  <2>2. QED
    BY <1>3, <2>1, FinishAnswers DEF ReadFails, Answer
<1>4. CASE HandleGet(r)
  <2>1. SuccessStatus("Get") = 200
    BY DEF SuccessStatus
  <2>2. Answerable(call[r], 200) /\ 200 \in Status
    BY <1>4, <2>1 DEF HandleGet, Answerable, Status
  <2>3. QED
    BY <1>4, <2>1, <2>2, FinishAnswers DEF HandleGet, Answer
<1>5. CASE HandleCreate(r) \/ HandleUpdate(r) \/ HandleDelete(r)
  <2>1. /\ UNCHANGED <<call, status>> /\ pc' = [pc EXCEPT ![r] = "handled"]
        /\ call[r].op # "Get"
    BY <1>5 DEF HandleCreate, HandleUpdate, HandleDelete
  <2>2. QED
    BY <2>1 DEF GoesOn, IInv, TypeOK
<1>6. QED
  BY <1>1, <1>2, <1>3, <1>4, <1>5 DEF Handle

LEMMA SaveKinds ==
  ASSUME IInv, AnswersFit, NEW r \in Request, Save(r)
  PROVE  GoesOn(r) \/ IsAnswered(r)
<1>1. CASE BeginSave(r) \/ Retry(r)
  <2>1. /\ UNCHANGED <<call, status>>
        /\ \/ pc[r] = "handled" /\ pc' = [pc EXCEPT ![r] = "sent"]
           \/ pc' = pc
    BY <1>1 DEF BeginSave, Retry
  <2>2. QED
    BY <2>1 DEF GoesOn, IInv, TypeOK
<1>2. pc[r] = "sent" => call[r].op \in {"Create", "Update", "Delete"}
  BY CallTyped DEF AnswersFit, Tracking, IInv, Operation
<1>3. CASE Commit(r)
  <2>1. SuccessStatus(call[r].op) \in Status \ {0}
    BY CallTyped, StatusTyped DEF IInv
  <2>2. Answerable(call[r], SuccessStatus(call[r].op))
    BY <1>2, <1>3 DEF Commit, Answerable, SuccessStatus
  <2>3. QED
    BY <1>3, <2>1, <2>2, FinishAnswers DEF Commit
<1>4. CASE Conflict(r)
  <2>1. call[r].op # "Create"
    BY <1>4 DEF Conflict, IInv, ContextScope, Tracking, Creates
  <2>2. Answerable(call[r], 409) /\ 409 \in Status
    BY <1>2, <1>4, <2>1 DEF Conflict, Answerable, Status
  <2>3. QED
    BY <1>4, <2>2, StatusOf, FinishAnswers DEF Conflict, Answer
<1>5. CASE SaveFails(r) \/ LoseAck(r)
  <2>1. Answerable(call[r], 500) /\ 500 \in Status
    BY DEF Answerable, Status
  <2>2. \/ UNCHANGED <<call, status, pc>>
        \/ Finish(r, 500) /\ UNCHANGED call
    BY <1>5, StatusOf DEF SaveFails, LoseAck, Answer
  <2>3. QED
    BY <2>1, <2>2, FinishAnswers DEF GoesOn
<1>6. QED
  BY <1>1, <1>3, <1>4, <1>5 DEF Save

LEMMA AnswersFitStep ==
  ASSUME IInv, AnswersFit, [Next]_vars
  PROVE  AnswersFit'
<1>1. CASE UNCHANGED vars
  BY <1>1 DEF vars, requestVars, AnswersFit, Tracking
<1>2. ASSUME NEW r \in Request, GoesOn(r) PROVE AnswersFit'
  BY <1>2 DEF GoesOn, AnswersFit, Tracking
<1>3. ASSUME NEW r \in Request, IsAnswered(r) PROVE AnswersFit'
  BY <1>3 DEF IsAnswered, AnswersFit, Tracking
<1>4. ASSUME NEW r \in Request, Abandon(r) PROVE IsAnswered(r)
  <2>1. Answerable(call[r], 499) /\ 499 \in Status
    BY DEF Answerable, Status
  <2>2. QED
    BY <1>4, <2>1, FinishAnswers DEF Abandon, Answer
<1>5. QED
  BY <1>1, <1>2, <1>3, <1>4, EnterKinds, HandleKinds, SaveKinds DEF Next

(* No request is answered anything its operation and content do not call for. *)
THEOREM AnswersAlwaysFit == Spec => []AnswersFit
<1>1. Init => AnswersFit
  BY DEF Init, AnswersFit, Tracking
<1>2. QED
  BY <1>1, AnswersFitStep, Invariance, PTL DEF Spec

----------------------------------------------------------------------------
(* What the pages show of such an answer.                                  *)

LEMMA BodyFields ==
  \A type, errors : Body(type, errors).type = type /\ Body(type, errors).errors = errors
BY DEF Body

(* Problem details are read, whether they arrive as an object or as a string. *)
LEMMA ErrorsRead ==
  /\ \A errors : errors # {} => extractApiErrors(Problem(errors)) = errors
  /\ extractApiErrors(Problem({})) = {"Unknown"}
  /\ extractApiErrors(Body("application/json", {})) = {"Unknown"}
  /\ extractApiErrors(Empty) = {"UnexpectedError"}
  /\ extractApiErrors(Body("text/plain", {})) = {"RequestError"}
<1>1. ASSUME NEW body, isProblemDetails(body)
      PROVE  /\ body.errors # {} => extractApiErrors(body) = body.errors
             /\ body.errors = {} => extractApiErrors(body) = {"Unknown"}
  BY <1>1 DEF extractApiErrors, extractResponseErrors, extractErrors
<1>2. \A errors : isProblemDetails(Problem(errors)) /\ Problem(errors).errors = errors
  BY DEF Problem, Body, isProblemDetails
<1>3. isProblemDetails(Body("application/json", {})) /\ Body("application/json", {}).errors = {}
  BY DEF Body, isProblemDetails
<1>4. extractApiErrors(Empty) = {"UnexpectedError"}
  BY DEF Empty, Body, extractApiErrors, extractResponseErrors, isProblemDetails, parseResponseBody
<1>5. extractApiErrors(Body("text/plain", {})) = {"RequestError"}
  BY DEF Body, extractApiErrors, extractResponseErrors, isProblemDetails, parseResponseBody
<1>6. QED
  BY <1>1, <1>2, <1>3, <1>4, <1>5

\* The errors a page may be told of, for each answer.
Told(c, code) == {extractApiErrors(body) : body \in Bodies(c, code)}

LEMMA ToldErrors ==
  ASSUME NEW c
  PROVE  /\ Told(c, 401) = {{"UnexpectedError"}, {"Unknown"}}
         /\ Told(c, 400) = {{"UnexpectedError"}}
         /\ Told(c, 403) = {{"UnexpectedError"}}
         /\ Told(c, 404) = {{"Book.NotFound"}}
         /\ Told(c, 409) = {{"Persistence.ConcurrencyConflict"}}
         /\ Told(c, 499) = {{"UnexpectedError"}, {"RequestError"}}
         /\ Told(c, 500) \subseteq {{"Unknown"}, {"Persistence.SaveFailed"}}
         /\ ValidCall(c) /\ DomainErrors(c) # {} => Told(c, 422) = {DomainErrors(c)}
         /\ ~ValidCall(c) /\ ValidationErrors(c) # {} => Told(c, 422) = {ValidationErrors(c)}
<1>1. /\ Bodies(c, 401) = {Empty, Body("application/json", {})}
      /\ Bodies(c, 400) = {Empty} /\ Bodies(c, 403) = {Empty}
      /\ Bodies(c, 404) = {Problem({"Book.NotFound"})}
      /\ Bodies(c, 409) = {Problem({"Persistence.ConcurrencyConflict"})}
      /\ Bodies(c, 499) = {Empty, Body("text/plain", {})}
  BY DEF Bodies, BookErrors, PersistenceErrors
<1>2. Bodies(c, 500) \subseteq {Problem({}), Problem({"Persistence.SaveFailed"})}
  BY DEF Bodies, PersistenceErrors
<1>3. Bodies(c, 422) = {Problem(IF ValidCall(c) THEN DomainErrors(c) ELSE ValidationErrors(c))}
  BY DEF Bodies
<1>4. /\ Told(c, 401) = {{"UnexpectedError"}, {"Unknown"}}
      /\ Told(c, 499) = {{"UnexpectedError"}, {"RequestError"}}
  BY <1>1, ErrorsRead DEF Told
<1>5. /\ Told(c, 400) = {{"UnexpectedError"}} /\ Told(c, 403) = {{"UnexpectedError"}}
      /\ Told(c, 404) = {{"Book.NotFound"}} /\ Told(c, 409) = {{"Persistence.ConcurrencyConflict"}}
  BY <1>1, ErrorsRead DEF Told
<1>6. Told(c, 500) \subseteq {{"Unknown"}, {"Persistence.SaveFailed"}}
  BY <1>2, ErrorsRead DEF Told
<1>7. /\ ValidCall(c) /\ DomainErrors(c) # {} => Told(c, 422) = {DomainErrors(c)}
      /\ ~ValidCall(c) /\ ValidationErrors(c) # {} => Told(c, 422) = {ValidationErrors(c)}
  BY <1>3, ErrorsRead DEF Told
<1>8. QED
  BY <1>4, <1>5, <1>6, <1>7

(* What is sent by the form has a genre the service supports. *)
LEMMA FormGenre ==
  ASSUME NEW c, bookSchema(c.title, c.genre)
  PROVE  ValidBookGenre(c.genre) /\ IsSupported(c.genre)
BY GenreAssumption
DEF bookSchema, genreValues, ValidBookGenre, IsSupported, FromCode, SupportedGenre, GenreMinLength, GenreMaxLength

LEMMA CodesDiffer ==
  /\ getFieldErrors({}) = {}
  /\ getFieldErrors({"Unknown"}) = {} /\ getFieldErrors({"UnexpectedError"}) = {}
  /\ getFieldErrors({"RequestError"}) = {} /\ getFieldErrors({"Book.NotFound"}) = {}
  /\ getFieldErrors({"Persistence.ConcurrencyConflict"}) = {}
  /\ getFieldErrors({"Persistence.SaveFailed"}) = {} /\ getFieldErrors({"Id"}) = {}
  /\ getFieldErrors({"Book.InvalidGenre"}) = {"genre"}
  /\ getFieldErrors({"Title"}) = {"title"} /\ getFieldErrors({"Genre"}) = {"genre"}
  /\ getFieldErrors({"Title", "Genre"}) = {"title", "genre"}
BY DEF getFieldErrors, fieldErrorMap, BookErrors

\* What a page makes of the errors of a refusal, before it shows them.
Sound(c, code, e) ==
  /\ e # {}
  /\ "RequestError" \in e => code = 499
  /\ IF code = 422 /\ c.op \in Writes
     THEN /\ getFieldErrors(e) # {} /\ getFieldErrors(e) \subseteq AtFault(c)
          /\ FormSends(c) => getFieldErrors(e) = AtFault(c)
     ELSE getFieldErrors(e) = {}

LEMMA RejectedSound ==
  ASSUME NEW c, c.op \in Operation, c.title \in Title, c.genre \in GenreCode, Answerable(c, 422)
  PROVE  \A e \in Told(c, 422) : Sound(c, 422, e)
<1>1. CASE ~ValidCall(c) /\ c.op \in Writes
  <2> DEFINE V == ValidationErrors(c)
  <2>1. /\ V \subseteq {"Title", "Genre"} /\ V # {}
        /\ "Title" \in V <=> ~ValidBookTitle(c.title)
        /\ "Genre" \in V <=> ~ValidBookGenre(c.genre)
    BY <1>1 DEF ValidationErrors, ValidCall, Writes
  <2>2. V \in {{"Title"}, {"Genre"}, {"Title", "Genre"}}
    BY <2>1
  <2>3. Told(c, 422) = {V}
    BY <1>1, <2>1, ToldErrors
  <2>4. "title" \in getFieldErrors(V) <=> ~ValidBookTitle(c.title)
    BY <2>1, <2>2, CodesDiffer
  <2>5. "genre" \in getFieldErrors(V) <=> ~ValidBookGenre(c.genre)
    BY <2>1, <2>2, CodesDiffer
  <2>6. getFieldErrors(V) # {} /\ getFieldErrors(V) \subseteq {"title", "genre"}
    BY <2>2, CodesDiffer
  <2>7. getFieldErrors(V) \subseteq AtFault(c)
    BY <2>4, <2>5, <2>6 DEF AtFault
  <2>8. FormSends(c) => getFieldErrors(V) = AtFault(c)
    BY <2>4, <2>5, <2>6, FormGenre DEF AtFault, FormSends
  <2>9. V # {} /\ "RequestError" \notin V
    BY <2>1
  <2> HIDE DEF V
  <2>10. QED
    BY <1>1, <2>3, <2>6, <2>7, <2>8, <2>9 DEF Sound
<1>2. CASE ~ValidCall(c) /\ c.op \notin Writes
  <2>1. ValidationErrors(c) = {"Id"}
    BY <1>2 DEF ValidationErrors, ValidCall, Writes
  <2>2. ValidationErrors(c) # {}
    BY <2>1
  <2>3. \A e \in Told(c, 422) : e = {"Id"}
    BY <1>2, <2>1, <2>2, ToldErrors
  <2>4. \A e \in Told(c, 422) : e # {} /\ "RequestError" \notin e
    BY <2>3
  <2>5. \A e \in Told(c, 422) : getFieldErrors(e) = {}
    BY <2>3, CodesDiffer, Zenon
  <2>6. QED
    BY <1>2, <2>4, <2>5 DEF Sound
<1>3. CASE ValidCall(c)
  <2>1. c.op \in Writes /\ DomainRejects(c) /\ ValidBookTitle(c.title)
    BY <1>3 DEF Answerable, ValidCall, Writes
  <2>2. ~IsSupported(c.genre)
    BY <2>1, TitleRulesAgree DEF DomainRejects
  <2>3. DomainErrors(c) = {"Book.InvalidGenre"}
    BY <2>2 DEF DomainErrors, BookErrors
  <2>4. DomainErrors(c) # {}
    BY <2>3
  <2>5. \A e \in Told(c, 422) : e = {"Book.InvalidGenre"}
    BY <1>3, <2>3, <2>4, ToldErrors
  <2>6. \A e \in Told(c, 422) : e # {} /\ "RequestError" \notin e
    BY <2>5
  <2>7. \A e \in Told(c, 422) : getFieldErrors(e) = {"genre"}
    BY <2>5, CodesDiffer, Zenon
  <2>8. "genre" \in AtFault(c) /\ ~FormSends(c)
    BY <2>2, FormGenre DEF AtFault, FormSends
  <2>9. QED
    BY <2>1, <2>6, <2>7, <2>8 DEF Sound
<1>4. QED
  BY <1>1, <1>2, <1>3

LEMMA ToldSound ==
  ASSUME NEW c, c.op \in Operation, c.title \in Title, c.genre \in GenreCode,
         NEW code \in Status \ {0, 200, 201, 204}, Answerable(c, code)
  PROVE  \A e \in Told(c, code) : Sound(c, code, e)
<1>1. CASE code = 422
  BY <1>1, RejectedSound
<1>2. CASE code # 422
  <2>1. code \in {400, 401, 403, 404, 409, 499, 500}
    BY <1>2 DEF Status
  <2>2. \A e \in Told(c, code) :
          /\ e \in {{"UnexpectedError"}, {"Unknown"}, {"Book.NotFound"}, {"RequestError"},
                    {"Persistence.ConcurrencyConflict"}, {"Persistence.SaveFailed"}}
          /\ e = {"RequestError"} => code = 499
    BY <2>1, ToldErrors
  <2>3. /\ \A e \in Told(c, code) : e # {}
        /\ \A e \in Told(c, code) : getFieldErrors(e) = {}
    <3>1. \A e \in Told(c, code) : e # {}
      BY <2>2
    <3>2. ASSUME NEW e \in Told(c, code) PROVE getFieldErrors(e) = {}
      <4>1. \/ e = {"UnexpectedError"} \/ e = {"Unknown"} \/ e = {"Book.NotFound"} \/ e = {"RequestError"}
            \/ e = {"Persistence.ConcurrencyConflict"} \/ e = {"Persistence.SaveFailed"}
        BY <2>2, <3>2
      <4>2. QED
        BY <4>1, CodesDiffer, Zenon
    <3>3. QED
      BY <3>1, <3>2
  <2>4. \A e \in Told(c, code) : "RequestError" \in e => code = 499
    BY <2>2
  <2>5. QED
    BY <1>2, <2>3, <2>4 DEF Sound
<1>3. QED
  BY <1>1, <1>2

(* What the pages show is the errors of the answer, or in a form that edits a book those
   of loading it; the marks are those of the answer in both cases. *)
LEMMA ShownErrors ==
  ASSUME NEW c, c.op \in Operation, NEW code \in Status \ {0, 200, 201, 204},
         NEW s \in Shown(c, code),
         \A e \in Told(c, code) : Sound(c, code, e)
  PROVE  \E e \in Told(c, code) :
           /\ s.alert = e \/ (c.op = "Update" /\ s.alert # {} /\ s.alert \in LoadErrors(c))
           /\ s.marked = IF c.op \in Writes THEN getFieldErrors(e) ELSE {}
<1>1. ~ok(code)
  BY DEF Status, ok
<1>2. CASE c.op = "Create"
  <2>1. PICK e \in Told(c, code) : s = BookForm({}, e)
    BY <1>1, <1>2 DEF Shown, Told, isEditMode
  <2>2. QED
    BY <1>2, <2>1 DEF BookForm, Writes
<1>3. CASE c.op = "Update"
  <2>1. Shown(c, code) = {BookForm(load, e) : load \in {{}} \cup LoadErrors(c), e \in Told(c, code)}
    BY <1>1, <1>3 DEF Shown, Told, isEditMode
  <2>2. PICK load \in {{}} \cup LoadErrors(c), e \in Told(c, code) : s = BookForm(load, e)
    BY <2>1
  <2>3. QED
    BY <1>3, <2>2 DEF BookForm, Writes
<1>4. CASE c.op \in {"Delete", "Get"}
  <2>1. PICK e \in Told(c, code) : s = ErrorAlert(e)
    BY <1>1, <1>4 DEF Shown, Told, isEditMode
  <2>2. QED
    BY <1>4, <2>1 DEF ErrorAlert, Writes
<1>5. QED
  BY <1>2, <1>3, <1>4 DEF Operation

(* A success has nothing to show. *)
LEMMA ShownSuccess ==
  ASSUME NEW c, c.op \in Operation, NEW code \in {200, 201, 204}, code = SuccessStatus(c.op)
  PROVE  /\ \A s \in Shown(c, code) : s.marked = {}
         /\ \E s \in Shown(c, code) : s.alert = {}
<1>1. ok(code) /\ handleSaved(code, SuccessStatus(c.op)) = {}
  BY DEF handleSaved, ok
<1>2. CASE c.op = "Create"
  <2>1. Shown(c, code) = {BookForm({}, {})}
    BY <1>1, <1>2 DEF Shown, isEditMode
  <2>2. BookForm({}, {}).alert = {} /\ BookForm({}, {}).marked = {}
    BY CodesDiffer DEF BookForm
  <2>3. QED
    BY <2>1, <2>2
<1>3. CASE c.op = "Update"
  <2>1. Shown(c, code) = {BookForm(load, {}) : load \in {{}} \cup LoadErrors(c)}
    <3>1. isEditMode(c) /\ c.op # "Create"
      BY <1>3 DEF isEditMode
    <3>2. QED
      BY <1>1, <3>1 DEF Shown
  <2>2. BookForm({}, {}).alert = {} /\ \A load : BookForm(load, {}).marked = {}
    BY CodesDiffer DEF BookForm
  <2>3. BookForm({}, {}) \in Shown(c, code)
    BY <2>1
  <2>4. QED
    BY <2>1, <2>2, <2>3
<1>4. CASE c.op \in {"Delete", "Get"}
  <2>1. Shown(c, code) = {ErrorAlert({})}
    BY <1>1, <1>4 DEF Shown, isEditMode
  <2>2. QED
    BY <2>1 DEF ErrorAlert
<1>5. QED
  BY <1>2, <1>3, <1>4 DEF Operation

LEMMA DeclaredAnswers ==
  ASSUME NEW c, c.op \in Operation, NEW code \in {200, 201, 204, 400, 404, 409, 422}, Answerable(c, code)
  PROVE  \/ code \in Declared[c.op]
         \/ code = 409 /\ c.op \in {"Update", "Delete"}
         \/ code = 422 /\ c.op = "Get" /\ c.id = NoId
<1>1. /\ Declared["Create"] = {201, 400, 422} /\ Declared["Update"] = {204, 400, 404, 422}
      /\ Declared["Delete"] = {204, 400, 404} /\ Declared["Get"] = {200, 404}
  BY DEF Declared, postApiV1BooksResponse, putApiV1BooksIdResponse, deleteApiV1BooksIdResponse,
         getApiV1BooksIdResponse
<1>2. CASE code \in {200, 201, 204}
  <2>1. code = SuccessStatus(c.op)
    BY <1>2 DEF Answerable
  <2>2. QED
    BY <1>1, <2>1 DEF SuccessStatus, Operation
<1>3. CASE code \in {400, 404, 409}
  BY <1>1, <1>3 DEF Answerable, Operation, Writes
<1>4. CASE code = 422 /\ c.op \in Writes
  BY <1>1, <1>4 DEF Writes
<1>5. CASE code = 422 /\ c.op \notin Writes
  <2>1. ~ValidCall(c)
    BY <1>5 DEF Answerable
  <2>2. QED
    BY <1>5, <2>1 DEF ValidCall, Writes
<1>6. QED
  BY <1>2, <1>3, <1>4, <1>5

(* Every answer is understood by the admin: refusals are told in words, fields at fault are
   marked and no others, and what was declared to the client is kept to, for any titles,
   genres, users, requests, retries and failures. *)
THEOREM AnswersAlwaysUnderstood == Spec => []AnswersAreUnderstood
<1>1. ASSUME TypeOK, AnswersFit PROVE AnswersAreUnderstood
  <2>1. \A r \in Request : /\ call[r].op \in Operation /\ call[r].title \in Title
                           /\ call[r].genre \in GenreCode /\ status[r] \in Status
    BY <1>1, CallTyped DEF TypeOK
  <2>2. \A r \in Request : Refused(r) => /\ status[r] \in Status \ {0, 200, 201, 204}
                                         /\ Answerable(call[r], status[r])
    BY <1>1, <2>1 DEF Refused, Succeeded, AnswersFit
  <2>3. \A r \in Request : Succeeded(r) => status[r] = SuccessStatus(call[r].op)
    BY <1>1 DEF Succeeded, AnswersFit, Answerable
  <2>4. \A r \in Request : Refused(r) => \A e \in Told(call[r], status[r]) : Sound(call[r], status[r], e)
    BY <2>1, <2>2, ToldSound
  <2>5. ASSUME NEW r \in Request, Refused(r), NEW s \in Shown(call[r], status[r])
        PROVE  /\ s.alert # {}
               /\ "RequestError" \in s.alert => status[r] = 499 \/ (Updates(r) /\ s.alert \in LoadErrors(call[r]))
    <3>1. PICK e \in Told(call[r], status[r]) :
            s.alert = e \/ (call[r].op = "Update" /\ s.alert # {} /\ s.alert \in LoadErrors(call[r]))
      BY <2>1, <2>2, <2>4, <2>5, ShownErrors
    <3>2. e # {} /\ ("RequestError" \in e => status[r] = 499)
      BY <2>4, <2>5 DEF Sound
    <3>3. QED
      BY <3>1, <3>2 DEF Updates
  <2>6. ASSUME NEW r \in Request, status[r] # 0, NEW s \in Shown(call[r], status[r])
        PROVE  IF status[r] = 422 /\ call[r].op \in Writes
               THEN /\ s.marked # {} /\ s.marked \subseteq AtFault(call[r])
                    /\ FormSends(call[r]) => s.marked = AtFault(call[r])
               ELSE s.marked = {}
    <3>1. CASE Succeeded(r)
      BY <2>1, <2>3, <2>6, <3>1, ShownSuccess DEF Succeeded
    <3>2. CASE ~Succeeded(r)
      <4>1. Refused(r)
        BY <2>6, <3>2 DEF Refused
      <4>2. PICK e \in Told(call[r], status[r]) :
              s.marked = IF call[r].op \in Writes THEN getFieldErrors(e) ELSE {}
        BY <2>1, <2>2, <2>4, <2>6, <4>1, ShownErrors
      <4>3. Sound(call[r], status[r], e)
        BY <2>4, <4>1
      <4>4. QED
        BY <4>2, <4>3 DEF Sound
    <3>3. QED
      BY <3>1, <3>2
  <2>7. MarksAreRight
    BY <2>6 DEF MarksAreRight
  <2>8. SuccessIsQuiet
    BY <2>1, <2>3, ShownSuccess DEF SuccessIsQuiet, Succeeded
  <2>9. AnswersAreDeclared
    BY <1>1, <2>1, DeclaredAnswers DEF AnswersAreDeclared, AnswersFit
  <2>10. QED
    BY <2>5, <2>7, <2>8, <2>9 DEF AnswersAreUnderstood, RefusalsAreTold
<1>2. QED
  BY <1>1, TypeCorrect, AnswersAlwaysFit, PTL

(* A book in the table, whoever wrote it and however its columns came together, fits the
   form: it can be opened there and saved again. *)
THEOREM StoredBooksFitTheForm ==
  Spec => [](\A i \in DOMAIN book : bookSchema(book[i].title, book[i].genre))
<1>1. ASSUME IInv PROVE \A i \in DOMAIN book : bookSchema(book[i].title, book[i].genre)
  <2>1. ASSUME NEW i \in DOMAIN book PROVE bookSchema(book[i].title, book[i].genre)
    <3>1. ValidContent(book[i]) /\ book[i].title \in Title
      BY <1>1 DEF IInv, RowsSound, TypeOK, IsTable, Row
    <3>2. ValidBookTitle(book[i].title)
      BY <3>1, TitleRulesAgree DEF ValidContent
    <3>3. QED
      BY <3>1, <3>2, TitleAssumption
      DEF bookSchema, genreValues, ValidContent, ValidBookTitle, SupportedGenre, TitleMinLength, TitleMaxLength
  <2>2. QED
    BY <2>1
<1>2. QED
  BY <1>1, Invariance, PTL
============================================================================
