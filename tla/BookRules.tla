----------------------------- MODULE BookRules -----------------------------
(***************************************************************************)
(* The data of a book and the rules that guard it: the FluentValidation    *)
(* rules shared by the create and update commands, the domain checks of    *)
(* Book and Genre, the authorization policies of the endpoints, and the    *)
(* translation of a failed Result into an HTTP status.                     *)
(*                                                                         *)
(* Texts are abstract: a title is told apart only by its length and by     *)
(* whether it is all white space, a genre code by its length and by what   *)
(* is left of it after trimming.                                           *)
(***************************************************************************)
EXTENDS Integers

CONSTANTS
  Title,        \* the titles a client may send
  TitleLength,  \* the length of each title
  BlankTitle,   \* the titles that are null, empty or only white space
  GenreCode,    \* the genre codes a client may send
  GenreLength,  \* the length of each genre code, white space included
  Trim,         \* each genre code without surrounding white space
  User,         \* the user names an access token may carry
  RolesOf       \* the roles in each user's token

SupportedGenre == {"F", "NF", "M"}

Role == {"view", "create", "edit", "delete"}

\* BookRules.cs: the limits the domain, the validators and the columns share.
TitleMinLength == 3
TitleMaxLength == 200
GenreMinLength == 1
GenreMaxLength == 2

ASSUME TitleAssumption ==
  /\ TitleLength \in [Title -> Nat]
  /\ BlankTitle \subseteq Title

ASSUME GenreAssumption ==
  /\ SupportedGenre \subseteq GenreCode
  /\ GenreLength \in [GenreCode -> Nat]
  /\ Trim \in [GenreCode -> GenreCode]
  /\ \A g \in SupportedGenre : Trim[g] = g /\ GenreLength[g] \in 1..2

ASSUME RoleAssumption == RolesOf \in [User -> SUBSET Role]

----------------------------------------------------------------------------
(* Validation.                                                             *)

\* ValidBookTitle: NotEmpty, MinimumLength and MaximumLength on the raw title.
ValidBookTitle(t) ==
  /\ t \notin BlankTitle
  /\ TitleLength[t] \in TitleMinLength..TitleMaxLength

\* ValidBookGenre: NotEmpty and Length on the raw code, before any trimming.
ValidBookGenre(g) ==
  /\ GenreLength[Trim[g]] > 0
  /\ GenreLength[g] \in GenreMinLength..GenreMaxLength

\* Genre.FromCode trims first and then asks for an exact, case-sensitive match.
FromCode(g) == Trim[g]

IsSupported(g) == FromCode(g) \in SupportedGenre

\* Book.ValidateTitle: the first rule the title breaks, or "None".
ValidateTitle(t) ==
  CASE t \in BlankTitle -> "TitleIsRequired"
    [] t \notin BlankTitle /\ TitleLength[t] < TitleMinLength -> "TitleIsTooShort"
    [] t \notin BlankTitle /\ TitleLength[t] > TitleMaxLength -> "TitleTooLong"
    [] OTHER -> "None"

----------------------------------------------------------------------------
(* Rows of the Book table.                                                 *)

Row == [title       : Title,
        genre       : GenreCode,
        createdDate : Nat,
        updatedDate : Nat,
        updatedBy   : User]

\* What the aggregate promises of every book it lets into the table.
ValidContent(row) ==
  /\ ValidateTitle(row.title) = "None"
  /\ row.genre \in SupportedGenre

----------------------------------------------------------------------------
(* Authorization: the policy each endpoint requires.                       *)

Operation == {"Create", "Update", "Delete", "Get"}

Viewer(u) == RolesOf[u] \cap {"view", "create", "edit", "delete"} # {}
Editor(u) == {"view", "create", "edit"} \subseteq RolesOf[u]
Admin(u)  == {"view", "create", "edit", "delete"} \subseteq RolesOf[u]

Authorized(u, op) ==
  CASE op \in {"Create", "Update"} -> Editor(u)
    [] op = "Delete"               -> Admin(u)
    [] op = "Get"                  -> Viewer(u)

----------------------------------------------------------------------------
(* ResultExtensions: from the error types of a failed Result to a status.  *)

ErrorType == {"Validation", "NotFound", "Conflict", "Failure"}

Classify(errors) ==
  CASE "NotFound" \in errors -> 404
    [] "NotFound" \notin errors /\ "Conflict" \in errors -> 409
    [] errors = {"Validation"} -> 422
    [] OTHER -> 500

SuccessStatus(op) ==
  CASE op = "Create" -> 201
    [] op \in {"Update", "Delete"} -> 204
    [] op = "Get" -> 200

============================================================================
