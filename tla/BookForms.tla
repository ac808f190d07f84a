----------------------------- MODULE BookForms -----------------------------
(***************************************************************************)
(* The admin's side of a call of the book service: which books the form    *)
(* lets through to it, what an answer carries, how the pages read that,    *)
(* and the alert and the marked fields the user gets to see.               *)
(*                                                                         *)
(* All of it is a function of a call and its answer, so the module adds    *)
(* definitions to BookApi and no state. An error is told apart by its      *)
(* code; its message is never empty.                                       *)
(***************************************************************************)
EXTENDS BookApi

Writes == {"Create", "Update"}

----------------------------------------------------------------------------
(* What the form sends.                                                    *)

\* The options of the form.
genreValues == {"F", "NF", "M"}

\* bookSchema: min and max of the title as typed, and one of the options.
bookSchema(title, genre) ==
  /\ TitleLength[title] >= 1 /\ TitleLength[title] >= 3 /\ TitleLength[title] <= 200
  /\ genre \in genreValues

FormSends(c) == c.op \in Writes /\ bookSchema(c.title, c.genre)

----------------------------------------------------------------------------
(* What the service answers.                                               *)

\* Validation failures carry the name of the property.
ValidationErrors(c) ==
  {p \in {"Title", "Genre", "Id"} :
     \/ p = "Title" /\ c.op \in Writes /\ ~ValidBookTitle(c.title)
     \/ p = "Genre" /\ c.op \in Writes /\ ~ValidBookGenre(c.genre)
     \/ p = "Id" /\ c.op = "Get" /\ c.id = NoId}

\* Those of the domain carry a code of BookErrors.
BookErrors == [TitleIsRequired |-> "Book.TitleIsRequired", TitleTooLong |-> "Book.TitleTooLong",
               TitleIsTooShort |-> "Book.TitleIsTooShort", InvalidGenre |-> "Book.InvalidGenre",
               BookNotFound    |-> "Book.NotFound"]

DomainErrors(c) ==
  IF ~IsSupported(c.genre) THEN {BookErrors.InvalidGenre} ELSE {BookErrors[ValidateTitle(c.title)]}

\* The body of a refusal: its type, and the codes in its member errors, {} without one.
Body(type, errors) == [type |-> type, errors |-> errors]

Empty           == Body("none", {})
Problem(errors) == Body("application/problem+json", errors)

\* Those of a save that the database has turned down.
PersistenceErrors == [ConcurrencyConflict |-> "Persistence.ConcurrencyConflict",
                      SaveFailed          |-> "Persistence.SaveFailed"]

\* The bodies an answer may carry. A refusal by the framework has none; the proxy words
\* a missing session itself, and fails without a body when it cannot reach the service,
\* unless something on the way puts in a text of its own.
Bodies(c, code) ==
  CASE code = 401 -> {Empty, Body("application/json", {})}
    [] code \in {400, 403} -> {Empty}
    [] code = 404 -> {Problem({BookErrors.BookNotFound})}
    [] code = 409 -> {Problem({PersistenceErrors.ConcurrencyConflict})}
    [] code = 422 -> {Problem(IF ValidCall(c) THEN DomainErrors(c) ELSE ValidationErrors(c))}
    [] code = 499 -> {Empty, Body("text/plain", {})}
    [] code = 500 -> {Problem({})}
                     \cup (IF c.op = "Get" THEN {} ELSE {Problem({PersistenceErrors.SaveFailed})})

\* The answers the generated client has types for.
postApiV1BooksResponse     == {201, 400, 422}
putApiV1BooksIdResponse    == {204, 400, 404, 422}
deleteApiV1BooksIdResponse == {204, 400, 404}
getApiV1BooksIdResponse    == {200, 404}

Declared == [Create |-> postApiV1BooksResponse,     Update |-> putApiV1BooksIdResponse,
             Delete |-> deleteApiV1BooksIdResponse, Get    |-> getApiV1BooksIdResponse]

----------------------------------------------------------------------------
(* How the admin reads a refusal.                                          *)

\* Only application/json is parsed here; problem details stay a string.
parseResponseBody(body) ==
  CASE body.type = "none" -> "undefined"
    [] body.type = "application/json" -> "object"
    [] OTHER -> "string"

\* Problem details have a title and a status, and so has what the proxy words itself.
isProblemDetails(body) == body.type \in {"application/json", "application/problem+json"}

extractErrors(body) == IF body.errors = {} THEN {"Unknown"} ELSE body.errors

\* Mistake: a string is surfaced as it is.
extractResponseErrors_ObjectsOnly(body) ==
  CASE parseResponseBody(body) = "string" -> {"RequestError"}
    [] parseResponseBody(body) = "object" /\ isProblemDetails(body) -> extractErrors(body)
    [] OTHER -> {}

\* A string may still be problem details; any other is surfaced as it is. {} for undefined.
extractResponseErrors(body) ==
  CASE isProblemDetails(body) -> extractErrors(body)
    [] ~isProblemDetails(body) /\ parseResponseBody(body) = "string" -> {"RequestError"}
    [] OTHER -> {}

\* Without a body the error of the request itself is shown, which has a message.
extractApiErrors(body) ==
  IF extractResponseErrors(body) # {} THEN extractResponseErrors(body) ELSE {"UnexpectedError"}

\* The codes each entry of fieldErrorMap is a part of.
fieldErrorMap ==
  [title |-> {"Title", BookErrors.TitleIsRequired, BookErrors.TitleTooLong, BookErrors.TitleIsTooShort},
   genre |-> {"Genre", BookErrors.InvalidGenre}]

getFieldErrors(errors) == {f \in DOMAIN fieldErrorMap : errors \cap fieldErrorMap[f] # {}}

----------------------------------------------------------------------------
(* What the pages show: the codes in the alert, and the fields marked.     *)

unexpectedResponseError == {"UnexpectedResponse"}

\* handleSaved lets a success be only the expected one.
handleSaved(code, expected) == IF code = expected THEN {} ELSE unexpectedResponseError

\* The alert of the form shows the error of loading its book, if there is one, and that
\* of the save otherwise; the fields are marked by the save in both cases.
BookForm(bookError, serverErrors) ==
  [alert  |-> IF bookError # {} THEN bookError ELSE serverErrors,
   marked |-> getFieldErrors(serverErrors)]

\* The dialog and the detail page show what their own request was answered.
ErrorAlert(errors) == [alert |-> errors, marked |-> {}]

\* What a form that edits a book may have been answered when it loaded the book again.
LoadErrors(c) ==
  {extractApiErrors(body) : body \in UNION {Bodies([c EXCEPT !.op = "Get"], code) : code \in {404, 499, 500}}}

isEditMode(c) == c.op = "Update"

\* orvalFetch throws any other answer.
ok(code) == code \in 200..299

\* Everything the user may get to see of an answer.
Shown(c, code) ==
  LET errors == IF ok(code) THEN {handleSaved(code, SuccessStatus(c.op))}
                ELSE {extractApiErrors(body) : body \in Bodies(c, code)}
  IN CASE c.op = "Create" -> {BookForm({}, e) : e \in errors}
       [] isEditMode(c)   -> {BookForm(load, e) : load \in {{}} \cup LoadErrors(c), e \in errors}
       [] OTHER           -> {ErrorAlert(e) : e \in errors}

----------------------------------------------------------------------------
(* Properties.                                                             *)

Succeeded(r) == status[r] \in {200, 201, 204}
Refused(r)   == status[r] # 0 /\ ~Succeeded(r)

\* The fields of a write that break a rule of the service.
AtFault(c) ==
  {f \in {"title", "genre"} :
     \/ f = "title" /\ ~ValidBookTitle(c.title)
     \/ f = "genre" /\ ~(ValidBookGenre(c.genre) /\ IsSupported(c.genre))}

\* Every refusal shows an alert, and never the text of an answer of the service.
RefusalsAreTold ==
  \A r \in Request : Refused(r) => \A s \in Shown(call[r], status[r]) :
    /\ s.alert # {}
    /\ "RequestError" \in s.alert => status[r] = 499 \/ (Updates(r) /\ s.alert \in LoadErrors(call[r]))

\* Fields are marked by a refusal of their content and by nothing else, only such as are
\* at fault, and all of them if the form let the content through.
MarksAreRight ==
  \A r \in Request : status[r] # 0 => \A s \in Shown(call[r], status[r]) :
    IF status[r] = 422 /\ call[r].op \in Writes
    THEN /\ s.marked # {} /\ s.marked \subseteq AtFault(call[r])
         /\ FormSends(call[r]) => s.marked = AtFault(call[r])
    ELSE s.marked = {}

\* Nothing that went well is told as an error.
SuccessIsQuiet ==
  \A r \in Request : Succeeded(r) =>
    \E s \in Shown(call[r], status[r]) : s.alert = {}

\* What a handler answers is what its endpoint declares to the client, but for the conflict
\* of a save and the empty identity of a read.
AnswersAreDeclared ==
  \A r \in Request : status[r] \in {200, 201, 204, 400, 404, 409, 422} =>
    \/ status[r] \in Declared[call[r].op]
    \/ status[r] = 409 /\ call[r].op \in {"Update", "Delete"}
    \/ status[r] = 422 /\ call[r].op = "Get" /\ call[r].id = NoId

(* Whatever a request is answered, by its validator, its handler, its save or on the
   way, the admin makes something of it: an alert in words for every refusal, a mark
   at the field that is at fault and at no other, none of it for a success
   (handleMutationError, extractApiErrors and getFieldErrors against the codes of the
   validators, of BookErrors and of PersistenceErrors). *)
AnswersAreUnderstood ==
  RefusalsAreTold /\ MarksAreRight /\ SuccessIsQuiet /\ AnswersAreDeclared
============================================================================
