---------------------------- MODULE TokenSession ----------------------------
(***************************************************************************)
(* The session of the admin application: the tokens in the encrypted       *)
(* cookie, the requests that read the session and refresh the access       *)
(* token, the proxy that attaches it to calls of the API, sign-in and      *)
(* sign-out, all over one browser's cookie and one identity provider.      *)
(*                                                                         *)
(* Time passes in ticks. A reader is a request that runs the jwt callback: *)
(* the session endpoint, whose response sets the cookie again, or a page   *)
(* rendered on the server, whose response cannot.                          *)
(*                                                                         *)
(* As in BookApi, Y_X is Y with a mistake in it.                           *)
(***************************************************************************)
EXTENDS Integers, Sequences

CONSTANTS
  Reader,         \* session reads that may be under way at once
  Page,           \* those that render a page on the server
  Call,           \* calls of the API that may be under way at once
  NoCookie,       \* the browser holds no session cookie
  Life,           \* lifetime of an access token
  Skew,           \* refreshSkewMs
  MaxDelay,       \* the longest an answer of the token endpoint takes to arrive
  Rotates,        \* the provider accepts each refresh token once
  ReportsExpiry,  \* the provider says when an access token expires
  RolesIn,        \* the tokens on which the provider puts the user's roles
  Leeway,         \* how long after its expiry the API still takes an access token
  MaxTime,        \* bound: ticks
  MaxGrant        \* bound: sign-ins after which the user stops working

ASSUME SessionAssumption ==
  /\ Page \subseteq Reader
  /\ Life \in Nat /\ Skew \in Nat /\ MaxDelay \in Nat
  /\ MaxDelay <= Skew /\ MaxDelay < Life
  /\ Rotates \in BOOLEAN /\ ReportsExpiry \in BOOLEAN
  /\ RolesIn \subseteq {"access", "id"}
  /\ Leeway \in Nat
  /\ MaxTime \in Nat /\ MaxGrant \in Nat

VARIABLES
  now,     \* ticks passed
  serial,  \* per sign-in, the refresh token issued last
  ended,   \* every sign-in up to this one has been ended at the provider
  cookie,  \* the session cookie of the browser
  reader,  \* per reader, where it is, the cookie it read and the one it will set
  call,    \* per call, where it is and the expiry of the token it carries
  page,    \* what the user's tab shows
  mishap   \* history: a refresh token was spent and its successor not kept

vars == <<now, serial, ended, cookie, reader, call, page, mishap>>

\* A time, or nothing.
NoTime == 0

Content ==
  [grant : Nat, refresh : Nat, access : Nat, expiresAt : Nat, error : BOOLEAN, roles : BOOLEAN]

\* The content of a session cookie: whether it names the roles of its user, and no access
\* token if it is in error.
Session == {s \in Content : s.error <=> s.access = NoTime}

ASSUME NoCookieAssumption == NoCookie \notin Content

Reading ==
  [phase : {"idle"}]
    \cup [phase : {"asking"}, held : Session]
    \cup [phase : {"granted"}, held : Session, refresh : Nat, access : Nat]
    \cup [phase : {"answering"}, held : Session, result : Session]

Calling ==
  [phase : {"idle", "ok", "unauthorized"}] \cup [phase : {"forwarded"}, access : Nat]

Idle == [phase |-> "idle"]

----------------------------------------------------------------------------
(* Tokens.                                                                 *)

\* What the application notes of a lifetime it is told now.
ExpiresAt == IF ReportsExpiry THEN now + Life ELSE NoTime

\* Mistake: the token is used to its last moment.
isAccessTokenValid_NoSkew(s) ==
  s.access # NoTime /\ (s.expiresAt = NoTime \/ now < s.expiresAt)

isAccessTokenValid(s) ==
  s.access # NoTime /\ (s.expiresAt = NoTime \/ now + Skew < s.expiresAt)

\* A token, read by the application, names the roles of the user.
extractRoles(token) == token \in RolesIn

\* Mistake: sign-in reads one token only.
applyAccount_AccessOnly == extractRoles("access")

\* The roles at sign-in: those of the access token or, if it has none, of the id token.
applyAccount == extractRoles("access") \/ extractRoles("id")

\* The provider takes the refresh token.
Accepts(s) == s.grant > ended /\ (Rotates => s.refresh = serial[s.grant])

\* Mistake: the refresh token is kept although a new one came with the answer.
Refreshed_OldRefreshToken(s, refresh, access) ==
  [s EXCEPT !.access = access, !.expiresAt = ExpiresAt, !.error = FALSE,
            !.roles = extractRoles("access")]

\* The session after a successful refresh.
Refreshed(s, refresh, access) ==
  [s EXCEPT !.refresh = refresh, !.access = access, !.expiresAt = ExpiresAt, !.error = FALSE,
            !.roles = extractRoles("access")]

\* Mistake: a failed refresh leaves the old access token in place.
Failed_KeepsToken(s) == [s EXCEPT !.error = TRUE]

\* The session after a failed one.
Failed(s) == [s EXCEPT !.access = NoTime, !.error = TRUE]

----------------------------------------------------------------------------
(* Reading the session.                                                    *)

\* The jwt callback: hand the session out as it is, or ask for a new token.
Ask(r) ==
  /\ reader[r].phase = "idle"
  /\ cookie # NoCookie
  /\ reader' = [reader EXCEPT ![r] =
       IF isAccessTokenValid(cookie)
       THEN [phase |-> "answering", held |-> cookie, result |-> cookie]
       ELSE [phase |-> "asking", held |-> cookie]]
  /\ UNCHANGED <<now, serial, ended, cookie, call, page, mishap>>

\* The provider issues an access token and, when it rotates them, a refresh token.
Grant(r) ==
  LET held == reader[r].held
      next == IF Rotates THEN held.refresh + 1 ELSE held.refresh
  IN /\ reader[r].phase = "asking"
     /\ Accepts(held)
     /\ serial' = [serial EXCEPT ![held.grant] = next]
     /\ reader' = [reader EXCEPT ![r] =
          [phase |-> "granted", held |-> held, refresh |-> next, access |-> now + Life]]
     /\ UNCHANGED <<now, ended, cookie, call, page, mishap>>

\* The answer reaches the application.
Refresh(r) ==
  /\ reader[r].phase = "granted"
  /\ reader' = [reader EXCEPT ![r] =
       [phase |-> "answering", held |-> reader[r].held,
        result |-> Refreshed(reader[r].held, reader[r].refresh, reader[r].access)]]
  /\ UNCHANGED <<now, serial, ended, cookie, call, page, mishap>>

\* The provider refuses, cannot be reached, or its answer is lost.
RefreshFails(r) ==
  /\ reader[r].phase \in {"asking", "granted"}
  /\ reader' = [reader EXCEPT ![r] =
       [phase |-> "answering", held |-> reader[r].held, result |-> Failed(reader[r].held)]]
  /\ mishap' = (mishap \/ reader[r].phase = "granted")
  /\ UNCHANGED <<now, serial, ended, cookie, call, page>>

\* The reader came with a refresh token that was spent for the one it brings back.
Spent(r) == reader[r].result.refresh # reader[r].held.refresh

\* The response of the session endpoint sets the cookie, whatever became of it since.
Deliver(r) ==
  /\ reader[r].phase = "answering"
  /\ r \notin Page
  /\ cookie' = reader[r].result
  /\ mishap' = (mishap \/ cookie # reader[r].held)
  /\ reader' = [reader EXCEPT ![r] = Idle]
  /\ UNCHANGED <<now, serial, ended, call, page>>

\* A rendered page sets no cookie, and a response may not reach the browser.
Discard(r) ==
  /\ reader[r].phase = "answering"
  /\ mishap' = (mishap \/ Spent(r))
  /\ reader' = [reader EXCEPT ![r] = Idle]
  /\ UNCHANGED <<now, serial, ended, cookie, call, page>>

----------------------------------------------------------------------------
(* Calling the API.                                                        *)

\* Mistake: nothing happens on a 401.
handleApiError_Ignored == UNCHANGED page

\* A 401 takes the tab to the sign-in page, unless it is there already.
handleApiError ==
  page' = IF page \in {"signin", "failed"} THEN page ELSE "signin"

\* The token that getAccessToken reads from the cookie.
getAccessToken == IF cookie = NoCookie \/ cookie.error THEN NoTime ELSE cookie.access

\* The proxy attaches the token of the cookie, or answers 401 itself.
Forward(c) ==
  /\ page = "app"
  /\ Len(serial) < MaxGrant
  /\ call[c].phase # "forwarded"
  /\ IF getAccessToken # NoTime
     THEN /\ call' = [call EXCEPT ![c] = [phase |-> "forwarded", access |-> getAccessToken]]
          /\ UNCHANGED page
     ELSE /\ call' = [call EXCEPT ![c] = [phase |-> "unauthorized"]]
          /\ handleApiError
  /\ UNCHANGED <<now, serial, ended, cookie, reader, mishap>>

\* The API checks the token, with the leeway of the bearer middleware.
Arrive(c) ==
  /\ call[c].phase = "forwarded"
  /\ IF now < call[c].access + Leeway
     THEN /\ call' = [call EXCEPT ![c] = [phase |-> "ok"]]
          /\ UNCHANGED page
     ELSE /\ call' = [call EXCEPT ![c] = [phase |-> "unauthorized"]]
          /\ handleApiError
  /\ UNCHANGED <<now, serial, ended, cookie, reader, mishap>>

----------------------------------------------------------------------------
(* Signing in and out.                                                     *)

\* A page asked for without a cookie is answered with the sign-in page.
Gate ==
  /\ page = "app"
  /\ cookie = NoCookie
  /\ page' = "signin"
  /\ UNCHANGED <<now, serial, ended, cookie, reader, call, mishap>>

\* The sign-in page goes to the provider at once, and back with fresh tokens, issued a
\* little earlier. Leaving the application gave up its calls.
SignIn ==
  /\ page = "signin"
  /\ serial' = Append(serial, 1)
  /\ \E delay \in 0..MaxDelay :
       cookie' = [grant |-> Len(serial) + 1, refresh |-> 1, access |-> now + Life - delay,
                  expiresAt |-> ExpiresAt, error |-> FALSE, roles |-> applyAccount]
  /\ page' = "app"
  /\ call' = [c \in Call |-> Idle]
  /\ UNCHANGED <<now, ended, reader, mishap>>

\* It comes back with an error, and waits for the user.
SignInFails ==
  /\ page = "signin"
  /\ page' = "failed"
  /\ UNCHANGED <<now, serial, ended, cookie, reader, call, mishap>>

TryAgain ==
  /\ page = "failed"
  /\ page' = "signin"
  /\ UNCHANGED <<now, serial, ended, cookie, reader, call, mishap>>

\* handleSignOut, once federated-logout has answered: the cookie is cleared, the tab
\* still has to leave for the provider.
SignOut ==
  /\ page = "app"
  /\ Len(serial) < MaxGrant
  /\ cookie' = NoCookie
  /\ page' = "leaving"
  /\ UNCHANGED <<now, serial, ended, reader, call, mishap>>

\* The provider ends its session and sends the browser to the sign-in page.
EndSession ==
  /\ page = "leaving"
  /\ ended' = Len(serial)
  /\ page' = "signin"
  /\ UNCHANGED <<now, serial, cookie, reader, call, mishap>>

\* There was no usable address to leave for: the tab goes home, through the gate.
StaySignedIn ==
  /\ page = "leaving"
  /\ page' = IF cookie = NoCookie THEN "signin" ELSE "app"
  /\ UNCHANGED <<now, serial, ended, cookie, reader, call, mishap>>

\* The provider ends an idle session.
Timeout ==
  /\ ended < Len(serial)
  /\ ended' = Len(serial)
  /\ UNCHANGED <<now, serial, cookie, reader, call, page, mishap>>

\* Time passes, no answer of the token endpoint being later than MaxDelay.
Tick ==
  /\ now < MaxTime
  /\ \A r \in Reader :
       reader[r].phase = "granted" => now + Life < reader[r].access + MaxDelay
  /\ now' = now + 1
  /\ UNCHANGED <<serial, ended, cookie, reader, call, page, mishap>>

----------------------------------------------------------------------------

Init ==
  /\ now = 0 /\ serial = << >> /\ ended = 0
  /\ cookie = NoCookie
  /\ reader = [r \in Reader |-> Idle]
  /\ call = [c \in Call |-> Idle]
  /\ page = "app"
  /\ mishap = FALSE

Read(r) == Ask(r) \/ Grant(r) \/ Refresh(r) \/ RefreshFails(r) \/ Deliver(r) \/ Discard(r)

Leave == SignIn \/ SignInFails \/ EndSession \/ StaySignedIn

Next ==
  \/ \E r \in Reader : Read(r)
  \/ \E c \in Call : Forward(c) \/ Arrive(c)
  \/ Leave \/ Gate \/ TryAgain \/ SignOut \/ Timeout \/ Tick

Spec == Init /\ [][Next]_vars

\* A redirect under way ends.
FairSpec == Spec /\ WF_vars(Leave)

----------------------------------------------------------------------------
(* Properties.                                                             *)

TypeOK ==
  /\ now \in Nat
  /\ serial \in Seq(Nat)
  /\ ended \in 0..Len(serial)
  /\ cookie \in Session \cup {NoCookie}
  /\ reader \in [Reader -> Reading]
  /\ call \in [Call -> Calling]
  /\ page \in {"app", "signin", "failed", "leaving"}
  /\ mishap \in BOOLEAN

\* A session whose refresh token was issued for its sign-in.
Known(s) ==
  /\ s.grant \in 1..Len(serial)
  /\ s.refresh <= serial[s.grant]
  /\ ~Rotates => s.refresh = serial[s.grant]

\* A session that believes its access token to live longer by MaxDelay at most.
Dated(s) ==
  ReportsExpiry /\ s.access # NoTime =>
    s.expiresAt # NoTime /\ s.expiresAt <= s.access + MaxDelay

Sound(s) == Known(s) /\ Dated(s)

\* The refresh token a reader brings back.
Brings(r) ==
  IF reader[r].phase = "granted" THEN reader[r].refresh ELSE reader[r].result.refresh

\* It differs from the one the reader came with.
Carries(r) ==
  /\ reader[r].phase \in {"granted", "answering"}
  /\ Brings(r) # reader[r].held.refresh

Reads(r, g) == reader[r].phase # "idle" /\ reader[r].held.grant = g

ReaderSound(r) ==
  /\ reader[r].phase # "idle" => Sound(reader[r].held)
  /\ reader[r].phase = "answering" =>
       /\ Dated(reader[r].result)
       /\ reader[r].result.grant = reader[r].held.grant
  /\ reader[r].phase = "granted" =>
       /\ reader[r].access <= now + Life
       /\ now + Life <= reader[r].access + MaxDelay

ReadersSound == \A r \in Reader : ReaderSound(r)

\* A new refresh token is the newest of its sign-in, and nobody else has it yet.
NewTokenIsAlone ==
  \A r \in Reader :
    LET g == reader[r].held.grant
    IN Carries(r) =>
         /\ Brings(r) = serial[g]
         /\ cookie # NoCookie /\ cookie.grant = g => cookie.refresh < serial[g]
         /\ \A q \in Reader : Reads(q, g) => reader[q].held.refresh < serial[g]
         /\ \A q \in Reader : Reads(q, g) /\ Carries(q) => q = r

\* The newest refresh token is in the cookie or on its way there.
NewestIsKept ==
  Rotates /\ ~mishap /\ cookie # NoCookie =>
    \/ cookie.refresh = serial[cookie.grant]
    \/ \E r \in Reader : Reads(r, cookie.grant) /\ Carries(r)

(* The inductive invariant behind NeverReturnsExpired and RotationKept: what every
   reader under way may hold and bring back. *)
IInv ==
  /\ TypeOK
  /\ cookie # NoCookie => Sound(cookie)
  /\ ReadersSound
  /\ NewTokenIsAlone
  /\ NewestIsKept

(* A session handed out holds an access token that is live at that moment, or says
   that the refresh failed: however late the token endpoint answered, the skew
   covers the delay. Only a provider that names no expiry leaves the application
   unable to tell. *)
NeverReturnsExpired ==
  [][ReportsExpiry =>
       \A r \in Reader :
         reader[r].phase # "answering" /\ reader'[r].phase = "answering" =>
           reader'[r].result.error \/ now < reader'[r].result.access]_vars

(* A provider that rotates refresh tokens still knows the one in the cookie, unless the
   successor of a spent token was lost, was obtained while rendering a page, or was
   overwritten by the response of another read. *)
RotationKept ==
  cookie # NoCookie /\ cookie.grant > ended /\ ~mishap
  /\ (\A r \in Reader : reader[r].phase = "idle")
    => Accepts(cookie)

\* The roles a session should name, by the refresh token it holds.
RolesRight(s) ==
  Rotates => (s.roles <=> "access" \in RolesIn \/ ("id" \in RolesIn /\ s.refresh = 1))

(* The session names the user's roles from sign-in to sign-out if the provider puts them on
   the access token. If it puts them on the id token only, a refresh does not read them
   again: the session has them exactly until its first refresh, whichever reads, lost
   answers and overwritten cookies lie in between. *)
RolesShown == cookie # NoCookie => RolesRight(cookie)

(* A call answered 401 leads to a live token, or to a sign-in page that tells of the
   failure. *)
UnauthorizedHeals ==
  \A c \in Call :
    call[c].phase = "unauthorized" ~>
      \/ cookie # NoCookie /\ ~cookie.error /\ now < cookie.access
      \/ page = "failed"
=============================================================================
