-------------------------- MODULE TokenSessionProofs --------------------------
(***************************************************************************)
(* Proofs about TokenSession, for every set of readers and calls, every    *)
(* lifetime, skew and delay that SessionAssumption allows, providers that  *)
(* rotate refresh tokens and providers that do not.                        *)
(***************************************************************************)
EXTENDS TokenSession, TLAPS

\* What the record of a reader holds in each of its phases.
LEMMA ReadingShape ==
  ASSUME NEW x \in Reading
  PROVE  /\ x.phase \in {"idle", "asking", "granted", "answering"}
         /\ x.phase # "idle" => x.held \in Session
         /\ x.phase = "granted" => x.refresh \in Nat /\ x.access \in Nat
         /\ x.phase = "answering" => x.result \in Session
BY DEF Reading, Session, Content

\* The session operators stay within Session.
LEMMA SessionOperators ==
  ASSUME NEW s \in Session, now \in Nat, NEW x \in Nat, NEW a \in Nat \ {NoTime}
  PROVE  /\ Failed(s) \in Session
         /\ Refreshed(s, x, a) \in Session
         /\ ExpiresAt \in Nat
         /\ NoCookie \notin Session
<1>1. ExpiresAt \in Nat
  BY SessionAssumption DEF ExpiresAt, NoTime
<1>2. Failed(s) \in Session
  BY DEF Session, Content, Failed, NoTime
<1>3. Refreshed(s, x, a) \in Session
  <2> DEFINE e == ExpiresAt
             b == extractRoles("access")
  <2>1. e \in Nat /\ b \in BOOLEAN
    BY <1>1 DEF extractRoles
  <2> HIDE DEF e, b
  <2>2. [s EXCEPT !.refresh = x, !.access = a, !.expiresAt = e, !.error = FALSE,
               !.roles = b] \in Session
    BY <2>1 DEF Session, Content, NoTime
  <2> QED BY <2>2 DEF Refreshed, e, b
<1>4. NoCookie \notin Session
  BY NoCookieAssumption DEF Session, Content, NoCookieAssumption
<1> QED BY <1>1, <1>2, <1>3, <1>4

\* Every step keeps the types, given that no token is granted for no time.
LEMMA TypeStep ==
  ASSUME TypeOK, ReadersSound, [Next]_vars
  PROVE  TypeOK'
<1> USE DEF TypeOK
<1>1. \A r \in Reader : reader[r] \in Reading
  OBVIOUS
<1>2. Idle \in Reading /\ Idle \in Calling
  BY DEF Idle, Reading, Calling
<1>3. ASSUME NEW r \in Reader, Ask(r) PROVE TypeOK'
  <2>1. cookie \in Session
    BY <1>3 DEF Ask
  <2>2. /\ [phase |-> "answering", held |-> cookie, result |-> cookie] \in Reading
        /\ [phase |-> "asking", held |-> cookie] \in Reading
    BY <2>1 DEF Reading
  <2>3. reader' \in [Reader -> Reading]
    BY <1>3, <2>2 DEF Ask
  <2> QED BY <1>3, <2>3 DEF Ask
<1>4. ASSUME NEW r \in Reader, Grant(r) PROVE TypeOK'
  <2> DEFINE next == IF Rotates THEN reader[r].held.refresh + 1 ELSE reader[r].held.refresh
  <2>1. reader[r].held \in Session /\ reader[r].held.grant \in 1..Len(serial)
    BY <1>1, <1>4, ReadingShape DEF Grant, ReadersSound, ReaderSound, Sound, Known
  <2>2. next \in Nat /\ now + Life \in Nat
    <3>1. reader[r].held.refresh \in Nat
      BY <2>1 DEF Session, Content
    <3>2. now \in Nat /\ Life \in Nat
      BY SessionAssumption DEF SessionAssumption
    <3> QED BY <3>1, <3>2
  <2>3. [phase |-> "granted", held |-> reader[r].held, refresh |-> next,
         access |-> now + Life] \in Reading
    BY <2>1, <2>2 DEF Reading
  <2>4. reader' \in [Reader -> Reading]
    BY <1>4, <2>3 DEF Grant
  <2>5. serial' \in Seq(Nat) /\ Len(serial') = Len(serial)
    BY <1>4, <2>1, <2>2 DEF Grant
  <2> QED BY <1>4, <2>4, <2>5 DEF Grant
<1>5. ASSUME NEW r \in Reader, Refresh(r) PROVE TypeOK'
  <2> DEFINE s == Refreshed(reader[r].held, reader[r].refresh, reader[r].access)
  <2>1. /\ reader[r].held \in Session /\ reader[r].refresh \in Nat
        /\ reader[r].access \in Nat \ {NoTime}
    <3>1. now + Life <= reader[r].access + MaxDelay
      BY <1>5 DEF Refresh, ReadersSound, ReaderSound
    <3> QED BY <1>1, <1>5, <3>1, ReadingShape, SessionAssumption DEF Refresh, NoTime
  <2>2. s \in Session
    BY <2>1, SessionOperators
  <2>3. [phase |-> "answering", held |-> reader[r].held, result |-> s] \in Reading
    BY <2>1, <2>2 DEF Reading
  <2>4. reader' \in [Reader -> Reading]
    BY <1>5, <2>3 DEF Refresh
  <2> QED BY <1>5, <2>4 DEF Refresh
<1>6. ASSUME NEW r \in Reader, RefreshFails(r) PROVE TypeOK'
  <2>1. reader[r].held \in Session
    BY <1>1, <1>6, ReadingShape DEF RefreshFails
  <2>2. Failed(reader[r].held) \in Session
    BY <2>1 DEF Failed, Session, Content, NoTime
  <2>3. [phase |-> "answering", held |-> reader[r].held,
         result |-> Failed(reader[r].held)] \in Reading
    BY <2>1, <2>2 DEF Reading
  <2>4. reader' \in [Reader -> Reading] /\ mishap' \in BOOLEAN
    BY <1>6, <2>3 DEF RefreshFails
  <2> QED BY <1>6, <2>4 DEF RefreshFails
<1>7. ASSUME NEW r \in Reader, Deliver(r) PROVE TypeOK'
  <2>1. reader[r].result \in Session
    BY <1>1, <1>7, ReadingShape DEF Deliver
  <2>2. reader' \in [Reader -> Reading] /\ mishap' \in BOOLEAN
    BY <1>2, <1>7 DEF Deliver
  <2> QED BY <1>7, <2>1, <2>2 DEF Deliver
<1>8. ASSUME NEW r \in Reader, Discard(r) PROVE TypeOK'
  <2>1. reader' \in [Reader -> Reading] /\ mishap' \in BOOLEAN
    BY <1>2, <1>8 DEF Discard
  <2> QED BY <1>8, <2>1 DEF Discard
<1>9. ASSUME NEW c \in Call, Forward(c) PROVE TypeOK'
  <2>1. getAccessToken \in Nat
    BY DEF getAccessToken, Session, Content, NoTime
  <2>2. /\ [phase |-> "forwarded", access |-> getAccessToken] \in Calling
        /\ [phase |-> "unauthorized"] \in Calling
    BY <2>1 DEF Calling
  <2>3. call' \in [Call -> Calling]
    BY <1>9, <2>2 DEF Forward
  <2>4. page' \in {"app", "signin", "failed", "leaving"}
    BY <1>9 DEF Forward, handleApiError
  <2> QED BY <1>9, <2>3, <2>4 DEF Forward
<1>10. ASSUME NEW c \in Call, Arrive(c) PROVE TypeOK'
  <2>1. [phase |-> "ok"] \in Calling /\ [phase |-> "unauthorized"] \in Calling
    BY DEF Calling
  <2>2. call' \in [Call -> Calling]
    BY <1>10, <2>1 DEF Arrive
  <2>3. page' \in {"app", "signin", "failed", "leaving"}
    BY <1>10 DEF Arrive, handleApiError
  <2> QED BY <1>10, <2>2, <2>3 DEF Arrive
<1>11. ASSUME SignIn PROVE TypeOK'
  <2>1. ExpiresAt \in Nat /\ Len(serial) + 1 \in Nat
    BY SessionAssumption DEF NoTime, ExpiresAt
  <2>2. cookie' \in Session
    <3>1. PICK delay \in 0..MaxDelay :
            cookie' = [grant |-> Len(serial) + 1, refresh |-> 1,
                       access |-> now + Life - delay, expiresAt |-> ExpiresAt, error |-> FALSE,
                       roles |-> applyAccount]
      BY <1>11 DEF SignIn
    <3>2. now + Life - delay \in Nat \ {NoTime}
      BY SessionAssumption DEF NoTime
    <3>3. applyAccount \in BOOLEAN
      BY DEF applyAccount, extractRoles
    <3> QED BY <2>1, <3>1, <3>2, <3>3 DEF Session, Content
  <2>3. call' \in [Call -> Calling]
    BY <1>2, <1>11 DEF SignIn
  <2>4. serial' \in Seq(Nat) /\ Len(serial') = Len(serial) + 1
    BY <1>11 DEF SignIn
  <2> QED BY <1>11, <2>2, <2>3, <2>4 DEF SignIn
<1>12. CASE SignInFails \/ EndSession \/ StaySignedIn \/ Gate \/ TryAgain \/ SignOut \/ Timeout
  BY <1>12 DEF SignInFails, EndSession, StaySignedIn, Gate, TryAgain, SignOut, Timeout
<1>13. CASE Tick
  BY <1>13 DEF Tick
<1>14. CASE UNCHANGED vars
  BY <1>14 DEF vars
<1> QED
  BY <1>3, <1>4, <1>5, <1>6, <1>7, <1>8, <1>9, <1>10, <1>11, <1>12, <1>13, <1>14
     DEF Next, Read, Leave

\* The parts of the invariant that speak of the cookie, the readers and the serials.
Around ==
  /\ cookie # NoCookie => Sound(cookie)
  /\ ReadersSound
  /\ NewTokenIsAlone
  /\ NewestIsKept

\* Nothing they depend on changes.
LEMMA Untouched ==
  ASSUME IInv, UNCHANGED <<now, serial, cookie, reader, mishap>>
  PROVE  Around'
BY DEF IInv, Around, Sound, Known, Dated, ReadersSound, ReaderSound, NewTokenIsAlone, NewestIsKept,
       Brings, Carries, Reads

\* A token trusted with a known expiry is live: the skew covers the delay with which
\* its expiry was noted.
LEMMA TrustedIsLive ==
  ASSUME NEW s \in Session, now \in Nat, Dated(s), ReportsExpiry, isAccessTokenValid(s)
  PROVE  now < s.access
BY SessionAssumption DEF Session, Content, Dated, isAccessTokenValid, NoTime

\* A reader that starts reads the cookie.
LEMMA AskKeeps ==
  ASSUME IInv, NEW r \in Reader, Ask(r)
  PROVE  Around'
<1>1. cookie \in Session /\ Sound(cookie) /\ cookie # NoCookie
  BY DEF IInv, TypeOK, Ask
<1>2. /\ reader'[r].phase \in {"asking", "answering"}
      /\ reader'[r].held = cookie
      /\ reader'[r].phase = "answering" => reader'[r].result = cookie
  BY DEF IInv, TypeOK, Ask
<1>3. \A q \in Reader \ {r} : reader'[q] = reader[q]
  BY DEF IInv, TypeOK, Ask
<1>4. UNCHANGED <<now, serial, cookie, mishap>> /\ reader[r].phase = "idle"
  BY DEF Ask
<1>5. (cookie # NoCookie => Sound(cookie))'
  BY <1>1, <1>4 DEF Sound, Known, Dated
<1>6. ReadersSound'
  BY <1>1, <1>2, <1>3, <1>4 DEF IInv, ReadersSound, ReaderSound, Sound, Known, Dated
<1>7. ~Carries(r)' /\ ~Carries(r)
  BY <1>2, <1>4 DEF Carries, Brings
<1>8. \A q \in Reader \ {r} : /\ Carries(q)' <=> Carries(q)
                              /\ Brings(q)' = Brings(q)
                              /\ \A g : Reads(q, g)' <=> Reads(q, g)
  BY <1>3 DEF Carries, Brings, Reads
<1>9. NewTokenIsAlone'
  BY <1>1, <1>2, <1>3, <1>4, <1>7, <1>8 DEF IInv, NewTokenIsAlone, Reads
<1>10. NewestIsKept'
  BY <1>3, <1>4, <1>7, <1>8 DEF IInv, NewestIsKept
<1> QED BY <1>5, <1>6, <1>9, <1>10 DEF Around

\* The provider's new refresh token becomes the newest of its sign-in, in the hands of
\* the reader alone: nobody has read a cookie with it.
LEMMA GrantKeeps ==
  ASSUME IInv, NEW r \in Reader, Grant(r)
  PROVE  Around'
<1>a. PICK held : held = reader[r].held
  OBVIOUS
<1>b. PICK g : g = held.grant
  OBVIOUS
<1>c. PICK next : next = IF Rotates THEN held.refresh + 1 ELSE held.refresh
  OBVIOUS
<1> USE <1>a, <1>b, <1>c
<1>1. held \in Session /\ Sound(held) /\ reader[r].phase = "asking"
  BY ReadingShape DEF IInv, TypeOK, ReadersSound, ReaderSound, Grant
<1>2. g \in 1..Len(serial) /\ held.refresh \in Nat /\ serial \in Seq(Nat)
      /\ (Rotates => held.refresh = serial[g])
  BY <1>1 DEF IInv, TypeOK, Grant, Accepts, Sound, Known, Session, Content
<1>3. /\ reader'[r].phase = "granted" /\ reader'[r].held = held
      /\ reader'[r].refresh = next /\ reader'[r].access = now + Life
  BY DEF IInv, TypeOK, Grant
<1>4. \A q \in Reader \ {r} : reader'[q] = reader[q]
  BY DEF IInv, TypeOK, Grant
<1>5. UNCHANGED <<now, cookie, mishap>>
      /\ serial' = [serial EXCEPT ![g] = next]
  BY DEF Grant
<1>6. /\ Len(serial') = Len(serial) /\ serial'[g] = next
      /\ \A h \in 1..Len(serial) : h # g => serial'[h] = serial[h]
  BY <1>2, <1>5
<1>7. next \in Nat /\ next >= held.refresh /\ (Rotates => next > held.refresh)
      /\ (~Rotates => next = serial[g])
  BY <1>1, <1>2 DEF Sound, Known
<1>8. ASSUME NEW s \in Session, Sound(s)
      PROVE  Sound(s)' /\ (Rotates /\ s.grant = g => s.refresh < serial'[g])
  <2>1. Known(s)' /\ (Rotates /\ s.grant = g => s.refresh < serial'[g])
    <3>1. /\ s.grant \in 1..Len(serial') /\ s.refresh \in Nat
          /\ s.refresh <= serial[s.grant]
          /\ ~Rotates => s.refresh = serial[s.grant]
      BY <1>6, <1>8 DEF Sound, Known, Session, Content
    <3>2. CASE s.grant = g
      BY <3>1, <3>2, <1>2, <1>6, <1>7 DEF Known
    <3>3. CASE s.grant # g
      BY <3>1, <3>3, <1>6 DEF Known
    <3> QED BY <3>2, <3>3
  <2>2. Dated(s)'
    BY <1>8 DEF Sound, Dated
  <2> QED BY <2>1, <2>2 DEF Sound
<1>9. \A q \in Reader : reader[q].phase # "idle" => reader[q].held \in Session /\ Sound(reader[q].held)
  BY ReadingShape DEF IInv, TypeOK, ReadersSound, ReaderSound
<1>10. cookie # NoCookie => cookie \in Session /\ Sound(cookie)
  BY DEF IInv, TypeOK
<1>11. (cookie # NoCookie => Sound(cookie))'
  BY <1>5, <1>8, <1>10
<1>12. ReadersSound'
  <2> SUFFICES ASSUME NEW q \in Reader
               PROVE  ReaderSound(q)'
    BY DEF ReadersSound
  <2>1. CASE q = r
    <3>1. Sound(held)'
      BY <1>1, <1>8
    <3>2. now \in Nat
      BY DEF IInv, TypeOK
    <3> QED BY <2>1, <3>1, <3>2, <1>3, <1>5, SessionAssumption DEF ReaderSound
  <2>2. CASE q # r
    <3>1. reader'[q] = reader[q] /\ ReaderSound(q)
      BY <2>2, <1>4 DEF IInv, ReadersSound
    <3>2. reader'[q].phase # "idle" => Sound(reader'[q].held)
      BY <3>1, <1>9
    <3>3. reader[q].phase # "idle" => reader[q].held \in Session
      BY <1>9
    <3>4. PICK h : h = reader[q].held
      OBVIOUS
    <3>5. reader[q].phase # "idle" => Sound(h)'
      BY <3>1, <3>3, <3>4, <1>8 DEF ReaderSound
    <3> QED BY <3>1, <3>4, <3>5, <1>5 DEF ReaderSound, Sound, Known, Dated
  <2> QED BY <2>1, <2>2
<1>13. Carries(r)' => Rotates /\ Brings(r)' = serial'[g]
  BY <1>1, <1>3, <1>6 DEF Carries, Brings
<1>14. \A q \in Reader \ {r} : /\ Carries(q)' <=> Carries(q)
                               /\ Brings(q)' = Brings(q)
                               /\ \A h : Reads(q, h)' <=> Reads(q, h)
  BY <1>4 DEF Carries, Brings, Reads
\* A reader that carries a token of this sign-in would have it newer than held.
<1>15. \A q \in Reader \ {r} : Rotates /\ Carries(q) => ~Reads(q, g)
  <2> SUFFICES ASSUME NEW q \in Reader \ {r}, Rotates, Carries(q), Reads(q, g)
               PROVE  FALSE
    OBVIOUS
  <2>1. reader[q].held.grant = g /\ Reads(r, g)
    BY <1>1 DEF Reads
  <2>2. held.refresh < serial[g]
    BY <2>1 DEF IInv, NewTokenIsAlone
  <2> QED BY <2>2, <1>2
<1>16. \A q \in Reader : ~Rotates => ~Carries(q)
  <2> SUFFICES ASSUME NEW q \in Reader, ~Rotates, Carries(q)
               PROVE  FALSE
    OBVIOUS
  <2>1. Reads(q, reader[q].held.grant)
    BY DEF Carries, Reads
  <2>2. reader[q].held.refresh < serial[reader[q].held.grant]
    BY <2>1 DEF IInv, NewTokenIsAlone
  <2>3. reader[q].held \in Session /\ Known(reader[q].held)
    BY <2>1, <1>9 DEF Reads, Sound
  <2> QED BY <2>2, <2>3, <1>2 DEF Known, Session, Content
<1>17. NewTokenIsAlone'
  <2> SUFFICES ASSUME NEW q \in Reader, Carries(q)',
                      NEW h, h = reader'[q].held.grant
               PROVE  /\ Brings(q)' = serial'[h]
                      /\ cookie' # NoCookie /\ cookie'.grant = h => cookie'.refresh < serial'[h]
                      /\ \A p \in Reader : Reads(p, h)' => reader'[p].held.refresh < serial'[h]
                      /\ \A p \in Reader : Reads(p, h)' /\ Carries(p)' => p = q
    BY DEF NewTokenIsAlone
  <2>1. Rotates
    BY <1>13, <1>14, <1>16
  <2>2. CASE q = r
    <3>1. h = g
      BY <2>2, <1>3
    <3>2. \A p \in Reader : Reads(p, g)' => reader'[p].held.refresh < serial'[g]
      BY <2>1, <1>1, <1>3, <1>4, <1>8, <1>9 DEF Reads
    <3>3. cookie' # NoCookie /\ cookie'.grant = g => cookie'.refresh < serial'[g]
      BY <2>1, <1>5, <1>8, <1>10
    <3> QED BY <2>1, <2>2, <3>1, <3>2, <3>3, <1>13, <1>14, <1>15
  <2>3. CASE q # r
    <3>1. Carries(q) /\ h = reader[q].held.grant /\ Reads(q, h)
      BY <2>3, <1>4, <1>14 DEF Carries, Reads
    <3>2. h # g
      BY <2>1, <2>3, <3>1, <1>15
    <3>3. h \in 1..Len(serial) /\ serial'[h] = serial[h]
      BY <3>1, <3>2, <1>6, <1>9 DEF Reads, Sound, Known
    <3>4. ~Reads(r, h)'
      BY <3>2, <1>3 DEF Reads
    <3> QED BY <2>3, <3>1, <3>3, <3>4, <1>4, <1>5, <1>14 DEF IInv, NewTokenIsAlone
  <2> QED BY <2>2, <2>3
<1>18. NewestIsKept'
  <2> SUFFICES ASSUME Rotates, ~mishap, cookie # NoCookie
               PROVE  \/ cookie.refresh = serial'[cookie.grant]
                      \/ \E q \in Reader : Reads(q, cookie.grant)' /\ Carries(q)'
    BY <1>5 DEF NewestIsKept
  <2>1. CASE cookie.grant = g
    <3>1. Reads(r, g)' /\ Carries(r)'
      BY <1>1, <1>2, <1>3, <1>7 DEF Reads, Carries, Brings, Session, Content
    <3> QED BY <2>1, <3>1, <1>5
  <2>2. CASE cookie.grant # g
    <3>1. serial'[cookie.grant] = serial[cookie.grant]
      BY <2>2, <1>6, <1>10 DEF Sound, Known
    <3>2. ~Carries(r)
      BY <1>1 DEF Carries
    <3> QED BY <2>2, <3>1, <3>2, <1>5, <1>14 DEF IInv, NewestIsKept
  <2> QED BY <2>1, <2>2
<1> QED BY <1>11, <1>12, <1>17, <1>18 DEF Around

\* A reader that keeps what it carries, drops it for good, or loses it and admits it.
LEMMA CarriedOn ==
  ASSUME IInv, NEW r \in Reader,
         UNCHANGED <<serial, cookie>>,
         \A q \in Reader \ {r} : reader'[q] = reader[q],
         reader'[r].phase # "idle" =>
           reader[r].phase # "idle" /\ reader'[r].held = reader[r].held,
         Carries(r)' => Carries(r) /\ Brings(r)' = Brings(r),
         ~mishap' => ~mishap /\ (Carries(r) => Carries(r)')
  PROVE  NewTokenIsAlone' /\ NewestIsKept'
<1>1. \A q \in Reader \ {r} : /\ Carries(q)' <=> Carries(q)
                              /\ Brings(q)' = Brings(q)
                              /\ \A h : Reads(q, h)' <=> Reads(q, h)
  BY DEF Carries, Brings, Reads
<1>2. \A q \in Reader : Carries(q)' => Carries(q) /\ Brings(q)' = Brings(q)
  BY <1>1
<1>3. \A q \in Reader : \A h : Reads(q, h)' => Reads(q, h) /\ reader'[q].held = reader[q].held
  BY <1>1 DEF Reads
<1>4. \A q \in Reader : Carries(q)' => reader'[q].held = reader[q].held
  BY <1>3 DEF Carries, Reads
<1>5. NewTokenIsAlone'
  BY <1>2, <1>3, <1>4 DEF IInv, NewTokenIsAlone
<1>6. ASSUME NEW h, ~mishap', Reads(r, h), Carries(r)
      PROVE  Reads(r, h)' /\ Carries(r)'
  BY <1>6, <1>4 DEF Reads, Carries
<1>7. NewestIsKept'
  BY <1>1, <1>6 DEF IInv, NewestIsKept
<1> QED BY <1>5, <1>7

\* The other readers, and what they hold, stay sound.
LEMMA OthersSound ==
  ASSUME IInv, NEW r \in Reader,
         UNCHANGED <<now, serial>>,
         \A q \in Reader \ {r} : reader'[q] = reader[q],
         ReaderSound(r)'
  PROVE  ReadersSound'
<1> SUFFICES ASSUME NEW q \in Reader \ {r}
             PROVE  ReaderSound(q)'
  BY DEF ReadersSound
<1> QED BY DEF IInv, ReadersSound, ReaderSound, Sound, Known, Dated

\* An answer that arrives is noted with an expiry late by its delay at most.
LEMMA RefreshKeeps ==
  ASSUME IInv, NEW r \in Reader, Refresh(r)
  PROVE  Around'
<1> DEFINE s == Refreshed(reader[r].held, reader[r].refresh, reader[r].access)
<1>1. /\ reader[r].phase = "granted" /\ reader[r].held \in Session
      /\ reader[r].access \in Nat /\ reader[r].refresh \in Nat /\ now \in Nat
      /\ ReaderSound(r)
  BY ReadingShape DEF IInv, TypeOK, ReadersSound, Refresh
<1>2. /\ s.grant = reader[r].held.grant /\ s.refresh = reader[r].refresh
      /\ s.access = reader[r].access /\ s.expiresAt = ExpiresAt
  BY <1>1 DEF Refreshed, Session, Content
<1> HIDE DEF s
<1>3. /\ reader'[r].phase = "answering" /\ reader'[r].held = reader[r].held
      /\ reader'[r].result = s
  BY DEF IInv, TypeOK, Refresh, s
<1>4. \A q \in Reader \ {r} : reader'[q] = reader[q]
  BY DEF IInv, TypeOK, Refresh
<1>5. UNCHANGED <<now, serial, cookie, mishap>>
  BY DEF Refresh
<1>6. ReaderSound(r)'
  <2>1. ReportsExpiry => ExpiresAt # NoTime /\ ExpiresAt <= reader[r].access + MaxDelay
    BY <1>1, SessionAssumption DEF ReaderSound, ExpiresAt, NoTime
  <2>2. Sound(reader[r].held)
    BY <1>1 DEF ReaderSound
  <2> QED BY <1>2, <1>3, <1>5, <2>1, <2>2 DEF ReaderSound, Sound, Known, Dated
<1>7. ReadersSound'
  BY <1>4, <1>5, <1>6, OthersSound
<1>8. Brings(r)' = Brings(r) /\ (Carries(r)' <=> Carries(r))
  BY <1>1, <1>2, <1>3 DEF Carries, Brings
<1>9. NewTokenIsAlone' /\ NewestIsKept'
  BY <1>1, <1>3, <1>4, <1>5, <1>8, CarriedOn
<1>10. (cookie # NoCookie => Sound(cookie))'
  BY <1>5 DEF IInv, Sound, Known, Dated
<1> QED BY <1>7, <1>9, <1>10 DEF Around

\* A failed refresh brings nothing back; if the provider had granted it, its refresh
\* token is lost.
LEMMA RefreshFailsKeeps ==
  ASSUME IInv, NEW r \in Reader, RefreshFails(r)
  PROVE  Around'
<1> DEFINE s == Failed(reader[r].held)
<1>1. /\ reader[r].phase \in {"asking", "granted"} /\ reader[r].held \in Session
      /\ ReaderSound(r)
  BY ReadingShape DEF IInv, TypeOK, ReadersSound, RefreshFails
<1>2. /\ s.grant = reader[r].held.grant /\ s.refresh = reader[r].held.refresh
      /\ s.access = NoTime
  BY <1>1 DEF Failed, Session, Content
<1> HIDE DEF s
<1>3. /\ reader'[r].phase = "answering" /\ reader'[r].held = reader[r].held
      /\ reader'[r].result = s
  BY DEF IInv, TypeOK, RefreshFails, s
<1>4. \A q \in Reader \ {r} : reader'[q] = reader[q]
  BY DEF IInv, TypeOK, RefreshFails
<1>5. UNCHANGED <<now, serial, cookie>> /\ mishap' = (mishap \/ reader[r].phase = "granted")
  BY DEF RefreshFails
<1>6. ReaderSound(r)'
  BY <1>1, <1>2, <1>3, <1>5 DEF ReaderSound, Sound, Known, Dated
<1>7. ReadersSound'
  BY <1>4, <1>5, <1>6, OthersSound
<1>8. ~Carries(r)' /\ (Carries(r) => reader[r].phase = "granted")
  BY <1>1, <1>2, <1>3 DEF Carries, Brings
<1>9. NewTokenIsAlone' /\ NewestIsKept'
  BY <1>1, <1>3, <1>4, <1>5, <1>8, CarriedOn
<1>10. (cookie # NoCookie => Sound(cookie))'
  BY <1>5 DEF IInv, Sound, Known, Dated
<1> QED BY <1>7, <1>9, <1>10 DEF Around

\* A response that goes nowhere.
LEMMA DiscardKeeps ==
  ASSUME IInv, NEW r \in Reader, Discard(r)
  PROVE  Around'
<1>1. reader'[r].phase = "idle"
  BY DEF IInv, TypeOK, Discard, Idle
<1>2. \A q \in Reader \ {r} : reader'[q] = reader[q]
  BY DEF IInv, TypeOK, Discard
<1>3. /\ UNCHANGED <<now, serial, cookie>>
      /\ reader[r].phase = "answering" /\ mishap' = (mishap \/ Spent(r))
  BY DEF Discard
<1>4. ReadersSound'
  BY <1>1, <1>2, <1>3, OthersSound DEF ReaderSound
<1>5. ~Carries(r)' /\ (Carries(r) => Spent(r))
  BY <1>1, <1>3 DEF Carries, Brings, Spent
<1>6. NewTokenIsAlone' /\ NewestIsKept'
  BY <1>1, <1>2, <1>3, <1>5, CarriedOn
<1>7. (cookie # NoCookie => Sound(cookie))'
  BY <1>3 DEF IInv, Sound, Known, Dated
<1> QED BY <1>4, <1>6, <1>7 DEF Around

\* The response of the session endpoint puts what its reader brings into the cookie.
LEMMA DeliverKeeps ==
  ASSUME IInv, NEW r \in Reader, Deliver(r)
  PROVE  Around'
<1>1. /\ reader[r].phase = "answering" /\ ReaderSound(r)
      /\ reader[r].held \in Session /\ reader[r].result \in Session
  BY ReadingShape DEF IInv, TypeOK, ReadersSound, Deliver
<1>2. reader'[r].phase = "idle" /\ cookie' = reader[r].result
  BY DEF IInv, TypeOK, Deliver, Idle
<1>3. \A q \in Reader \ {r} : reader'[q] = reader[q]
  BY DEF IInv, TypeOK, Deliver
<1>4. UNCHANGED <<now, serial>> /\ mishap' = (mishap \/ cookie # reader[r].held)
  BY DEF Deliver
<1>5. ReadersSound'
  BY <1>2, <1>3, <1>4, OthersSound DEF ReaderSound
<1>6. PICK s : s = reader[r].result
  OBVIOUS
<1>7. PICK g : g = reader[r].held.grant
  OBVIOUS
<1>8. /\ s \in Session /\ s.grant = g /\ g \in 1..Len(serial) /\ Dated(s)
      /\ Reads(r, g) /\ Known(reader[r].held) /\ serial \in Seq(Nat)
  BY <1>1, <1>6, <1>7 DEF IInv, TypeOK, ReaderSound, Sound, Known, Reads
<1>9. Carries(r) => s.refresh = serial[g]
  BY <1>1, <1>6, <1>7 DEF IInv, NewTokenIsAlone, Brings
<1>10. ~Carries(r) => s.refresh = reader[r].held.refresh
  BY <1>1, <1>6 DEF Carries, Brings
<1>11. Known(s)
  BY <1>7, <1>8, <1>9, <1>10 DEF Known, Session, Content
<1>12. Sound(cookie)'
  BY <1>2, <1>4, <1>6, <1>8, <1>11 DEF Sound, Known, Dated
<1>13. \A q \in Reader \ {r} : /\ Carries(q)' <=> Carries(q)
                               /\ Brings(q)' = Brings(q)
                               /\ \A h : Reads(q, h)' <=> Reads(q, h)
  BY <1>3 DEF Carries, Brings, Reads
<1>14. ~Carries(r)' /\ \A h : ~Reads(r, h)'
  BY <1>2 DEF Carries, Reads
\* While another reader carries the newest token of a sign-in, r brings an older one.
<1>15. ASSUME NEW q \in Reader \ {r}, Carries(q), reader[q].held.grant = g
       PROVE  s.refresh < serial[g]
  <2>1. ~Carries(r)
    BY <1>8, <1>15 DEF IInv, NewTokenIsAlone
  <2>2. reader[r].held.refresh < serial[g]
    BY <1>7, <1>8, <1>15 DEF IInv, NewTokenIsAlone
  <2> QED BY <2>1, <2>2, <1>10
<1>16. NewTokenIsAlone'
  <2> SUFFICES ASSUME NEW q \in Reader, Carries(q)',
                      NEW h, h = reader'[q].held.grant
               PROVE  /\ Brings(q)' = serial'[h]
                      /\ cookie' # NoCookie /\ cookie'.grant = h => cookie'.refresh < serial'[h]
                      /\ \A p \in Reader : Reads(p, h)' => reader'[p].held.refresh < serial'[h]
                      /\ \A p \in Reader : Reads(p, h)' /\ Carries(p)' => p = q
    BY DEF NewTokenIsAlone
  <2>1. q # r /\ Carries(q) /\ h = reader[q].held.grant
    BY <1>3, <1>13, <1>14
  <2>2. cookie'.grant = h => cookie'.refresh < serial'[h]
    BY <2>1, <1>2, <1>4, <1>6, <1>8, <1>15
  <2>3. \A p \in Reader : Reads(p, h)' => p # r /\ Reads(p, h) /\ reader'[p] = reader[p]
    BY <1>3, <1>13, <1>14
  <2> QED BY <2>1, <2>2, <2>3, <1>4, <1>13 DEF IInv, NewTokenIsAlone
<1>17. NewestIsKept'
  <2> SUFFICES ASSUME Rotates, ~mishap'
               PROVE  \/ s.refresh = serial[g]
                      \/ \E q \in Reader : Reads(q, g)' /\ Carries(q)'
    BY <1>2, <1>4, <1>6, <1>8 DEF NewestIsKept
  <2>1. ~mishap /\ cookie = reader[r].held /\ cookie # NoCookie
    BY <1>1, <1>4, NoCookieAssumption DEF Session, Content, NoCookieAssumption
  <2>2. CASE Carries(r)
    BY <2>2, <1>9
  <2>3. CASE ~Carries(r)
    <3>1. s.refresh = cookie.refresh /\ cookie.grant = g
      BY <2>1, <2>3, <1>7, <1>10
    <3>2. \/ cookie.refresh = serial[g]
          \/ \E q \in Reader : Reads(q, g) /\ Carries(q)
      BY <2>1, <3>1 DEF IInv, NewestIsKept
    <3> QED BY <2>3, <3>1, <3>2, <1>13
  <2> QED BY <2>2, <2>3
<1> QED BY <1>5, <1>12, <1>16, <1>17 DEF Around

\* A sign-in starts a sign-in of its own, which no reader has heard of.
LEMMA SignInKeeps ==
  ASSUME IInv, SignIn
  PROVE  Around'
<1>1. /\ serial \in Seq(Nat) /\ Len(serial') = Len(serial) + 1 /\ serial' \in Seq(Nat)
      /\ serial'[Len(serial) + 1] = 1
      /\ \A g \in 1..Len(serial) : serial'[g] = serial[g]
      /\ Len(serial) \in Nat
  BY DEF IInv, TypeOK, SignIn
<1>2. UNCHANGED <<now, reader, mishap>> /\ now \in Nat
  BY DEF IInv, TypeOK, SignIn
<1>3. PICK delay \in 0..MaxDelay :
        /\ cookie'.grant = Len(serial) + 1 /\ cookie'.refresh = 1
        /\ cookie'.access = now + Life - delay /\ cookie'.expiresAt = ExpiresAt
  BY DEF SignIn
<1>4. Sound(cookie)'
  <2>1. Dated(cookie)'
    BY <1>2, <1>3, SessionAssumption DEF Dated, ExpiresAt, NoTime
  <2>2. Known(cookie)'
    BY <1>1, <1>3 DEF Known
  <2> QED BY <2>1, <2>2 DEF Sound
<1>5. \A r \in Reader : reader[r].phase # "idle" =>
        /\ reader[r].held.grant \in 1..Len(serial)
        /\ serial'[reader[r].held.grant] = serial[reader[r].held.grant]
        /\ reader[r].held.grant # Len(serial) + 1
  BY <1>1 DEF IInv, ReadersSound, ReaderSound, Sound, Known
<1>6. ReadersSound'
  BY <1>1, <1>2, <1>5 DEF IInv, ReadersSound, ReaderSound, Sound, Known, Dated
<1>7. \A r \in Reader : /\ Carries(r)' <=> Carries(r)
                        /\ Brings(r)' = Brings(r)
                        /\ \A g : Reads(r, g)' <=> Reads(r, g)
                        /\ Carries(r) => reader[r].phase # "idle"
  BY <1>2 DEF Carries, Brings, Reads
<1>8. NewTokenIsAlone'
  BY <1>2, <1>3, <1>5, <1>7 DEF IInv, NewTokenIsAlone
<1>9. NewestIsKept'
  BY <1>1, <1>3 DEF NewestIsKept
<1> QED BY <1>4, <1>6, <1>8, <1>9 DEF Around

\* Signing out only takes the cookie away.
LEMMA SignOutKeeps ==
  ASSUME IInv, SignOut
  PROVE  Around'
<1>1. cookie' = NoCookie /\ UNCHANGED <<now, serial, reader, mishap>>
  BY DEF SignOut
<1> QED BY <1>1 DEF IInv, Around, ReadersSound, ReaderSound, Sound, Known, Dated,
                    NewTokenIsAlone, NewestIsKept, Brings, Carries, Reads

\* Time passes no faster than an answer of the token endpoint may be late.
LEMMA TickKeeps ==
  ASSUME IInv, Tick
  PROVE  Around'
<1>1. UNCHANGED <<serial, cookie, reader, mishap>> /\ now' = now + 1 /\ now \in Nat
  BY DEF IInv, TypeOK, Tick
<1>2. ASSUME NEW r \in Reader PROVE ReaderSound(r)'
  <2>1. ReaderSound(r) /\ reader[r] \in Reading
    BY DEF IInv, TypeOK, ReadersSound
  <2>2. reader[r].phase = "granted" =>
          /\ reader[r].access \in Nat
          /\ now + Life < reader[r].access + MaxDelay
    BY <2>1, ReadingShape DEF Tick
  <2>3. reader[r].phase = "granted" =>
          /\ reader[r].access <= now' + Life
          /\ now' + Life <= reader[r].access + MaxDelay
    BY <1>1, <2>1, <2>2, SessionAssumption DEF ReaderSound
  <2> QED BY <1>1, <2>1, <2>3 DEF ReaderSound, Sound, Known, Dated
<1>3. ReadersSound'
  BY <1>2 DEF ReadersSound
<1>4. (cookie # NoCookie => Sound(cookie))'
  BY <1>1 DEF IInv, Sound, Known, Dated
<1>5. NewTokenIsAlone' /\ NewestIsKept'
  BY <1>1 DEF IInv, NewTokenIsAlone, NewestIsKept, Brings, Carries, Reads
<1> QED BY <1>3, <1>4, <1>5 DEF Around

----------------------------------------------------------------------------
(* The roles of the user.                                                  *)

\* A session whose refresh token tells whether it was refreshed, and that names its roles
\* accordingly.
RolesKnown(s) == s.refresh >= 1 /\ RolesRight(s)

\* What a reader holds and brings back names its roles as it should, and a provider that
\* rotates refresh tokens has not granted the first one again.
ReaderRoles(x) ==
  /\ x.phase # "idle" => RolesKnown(x.held)
  /\ x.phase = "granted" => x.refresh >= 1 /\ (Rotates => x.refresh # 1)
  /\ x.phase = "answering" => RolesKnown(x.result)

\* The inductive invariant behind RolesShown.
RolesInv ==
  /\ cookie # NoCookie => RolesKnown(cookie)
  /\ \A r \in Reader : ReaderRoles(reader[r])

\* A refresh reads the roles of the access token only, a failed one leaves them.
LEMMA RolesAfterRefresh ==
  ASSUME NEW s \in Session, RolesKnown(s), NEW x \in Nat, x >= 1, Rotates => x # 1,
         NEW a \in Nat
  PROVE  RolesKnown(Refreshed(s, x, a)) /\ RolesKnown(Failed(s))
<1>1. /\ Refreshed(s, x, a).refresh = x
      /\ Refreshed(s, x, a).roles = extractRoles("access")
  BY DEF Refreshed, Session, Content
<1>2. Failed(s).refresh = s.refresh /\ Failed(s).roles = s.roles
  BY DEF Failed, Session, Content
<1>3. RolesKnown(Refreshed(s, x, a))
  BY <1>1 DEF RolesKnown, RolesRight, extractRoles
<1>4. RolesKnown(Failed(s))
  BY <1>2 DEF RolesKnown, RolesRight
<1> QED BY <1>3, <1>4

\* A step of a reader keeps the roles of the sessions it touches.
LEMMA ReadKeepsRoles ==
  ASSUME IInv, RolesInv, NEW r \in Reader, Read(r)
  PROVE  RolesInv'
<1> DEFINE x == reader[r]
<1>1. /\ reader \in [Reader -> Reading] /\ x \in Reading
      /\ cookie # NoCookie => cookie \in Session /\ RolesKnown(cookie)
      /\ \A q \in Reader : ReaderRoles(reader[q])
  BY DEF IInv, TypeOK, RolesInv, ReaderRoles
<1>2. ASSUME NEW y, reader' = [reader EXCEPT ![r] = y], ReaderRoles(y),
             cookie' # NoCookie => RolesKnown(cookie')
      PROVE  RolesInv'
  <2>1. \A q \in Reader : ReaderRoles(reader'[q])
    BY <1>1, <1>2
  <2>2. RolesInv' <=> /\ cookie' # NoCookie => RolesKnown(cookie')
                      /\ \A q \in Reader : ReaderRoles(reader'[q])
    BY DEF RolesInv, ReaderRoles, RolesKnown, RolesRight
  <2> QED BY <1>2, <2>1, <2>2
<1>3. CASE Ask(r)
  <2> DEFINE y == IF isAccessTokenValid(cookie)
                  THEN [phase |-> "answering", held |-> cookie, result |-> cookie]
                  ELSE [phase |-> "asking", held |-> cookie]
  <2>1. reader' = [reader EXCEPT ![r] = y] /\ cookie' = cookie /\ RolesKnown(cookie)
    BY <1>1, <1>3 DEF Ask
  <2>2. ReaderRoles(y)
    BY <2>1 DEF ReaderRoles
  <2> QED BY <1>1, <1>2, <2>1, <2>2
<1>4. CASE Grant(r)
  <2> DEFINE next == IF Rotates THEN x.held.refresh + 1 ELSE x.held.refresh
             y == [phase |-> "granted", held |-> x.held, refresh |-> next,
                   access |-> now + Life]
  <2>1. reader' = [reader EXCEPT ![r] = y] /\ cookie' = cookie /\ x.phase = "asking"
    BY <1>4 DEF Grant
  <2>2. x.held \in Session /\ RolesKnown(x.held)
    BY <1>1, <2>1, ReadingShape DEF ReaderRoles
  <2>3. next >= 1 /\ (Rotates => next # 1)
    BY <2>2 DEF RolesKnown, Session, Content
  <2>4. ReaderRoles(y)
    BY <2>2, <2>3 DEF ReaderRoles
  <2> QED BY <1>1, <1>2, <2>1, <2>4
<1>5. CASE Refresh(r)
  <2> DEFINE s == Refreshed(x.held, x.refresh, x.access)
             y == [phase |-> "answering", held |-> x.held, result |-> s]
  <2>1. reader' = [reader EXCEPT ![r] = y] /\ cookie' = cookie /\ x.phase = "granted"
    BY <1>5 DEF Refresh
  <2>2. /\ x.held \in Session /\ RolesKnown(x.held)
        /\ x.refresh \in Nat /\ x.access \in Nat
        /\ x.refresh >= 1 /\ (Rotates => x.refresh # 1)
    BY <1>1, <2>1, ReadingShape DEF ReaderRoles
  <2>3. RolesKnown(s)
    BY <2>2, RolesAfterRefresh
  <2>4. ReaderRoles(y)
    BY <2>2, <2>3 DEF ReaderRoles
  <2> QED BY <1>1, <1>2, <2>1, <2>4
<1>6. CASE RefreshFails(r)
  <2> DEFINE y == [phase |-> "answering", held |-> x.held, result |-> Failed(x.held)]
  <2>1. reader' = [reader EXCEPT ![r] = y] /\ cookie' = cookie /\ x.phase # "idle"
    BY <1>6 DEF RefreshFails
  <2>2. x.held \in Session /\ RolesKnown(x.held)
    BY <1>1, <2>1, ReadingShape DEF ReaderRoles
  <2>3. RolesKnown(Failed(x.held))
    BY <2>2 DEF RolesKnown, RolesRight, Failed, Session, Content
  <2>4. ReaderRoles(y)
    BY <2>2, <2>3 DEF ReaderRoles
  <2> QED BY <1>1, <1>2, <2>1, <2>4
<1>7. ReaderRoles(Idle)
  BY DEF ReaderRoles, Idle
<1>8. CASE Deliver(r)
  <2>1. /\ reader' = [reader EXCEPT ![r] = Idle] /\ cookie' = x.result
        /\ x.phase = "answering"
    BY <1>8 DEF Deliver
  <2>2. RolesKnown(x.result)
    BY <1>1, <2>1 DEF ReaderRoles
  <2> QED BY <1>2, <1>7, <2>1, <2>2
<1>9. CASE Discard(r)
  BY <1>1, <1>2, <1>7, <1>9 DEF Discard
<1> QED BY <1>3, <1>4, <1>5, <1>6, <1>8, <1>9 DEF Read

\* Sign-in reads both tokens and starts with the first refresh token.
LEMMA SignInKeepsRoles ==
  ASSUME RolesInv, SignIn
  PROVE  RolesInv'
<1>1. reader' = reader /\ cookie'.refresh = 1 /\ cookie'.roles = applyAccount
  BY DEF SignIn
<1>2. RolesRight(cookie')
  <2>1. applyAccount <=> "access" \in RolesIn \/ "id" \in RolesIn
    BY DEF applyAccount, extractRoles
  <2>2. cookie'.roles <=> applyAccount
    BY <1>1, Zenon
  <2> QED BY <1>1, <2>1, <2>2 DEF RolesRight
<1>3. RolesKnown(cookie')
  BY <1>1, <1>2 DEF RolesKnown
<1> QED BY <1>1, <1>3 DEF RolesInv, ReaderRoles, RolesKnown, RolesRight

----------------------------------------------------------------------------

(* IInv is inductive: what readers hold and carry stays in order, whichever requests,
   failures, sign-ins and sign-outs interleave. *)
THEOREM Invariance == Spec => []IInv
<1>1. Init => IInv
  <2> SUFFICES ASSUME Init PROVE IInv
    OBVIOUS
  <2>1. /\ now = 0 /\ serial = << >> /\ ended = 0 /\ cookie = NoCookie
        /\ page = "app" /\ mishap = FALSE /\ call = [c \in Call |-> Idle]
        /\ \A r \in Reader : reader[r].phase = "idle"
        /\ reader \in [Reader -> Reading]
    BY DEF Init, Idle, Reading
  <2>2. Idle \in Calling
    BY DEF Idle, Calling
  <2>3. call \in [Call -> Calling] /\ Len(serial) = 0 /\ serial \in Seq(Nat)
    BY <2>1, <2>2
  <2>4. ended = 0 /\ now = 0 => ended \in 0..Len(serial) /\ now \in Nat
    BY <2>3
  <2>5. TypeOK
    BY <2>1, <2>3, <2>4, Zenon DEF TypeOK
  <2> QED BY <2>1, <2>5
       DEF IInv, ReadersSound, ReaderSound, NewTokenIsAlone, NewestIsKept, Carries
<1>2. IInv /\ [Next]_vars => IInv'
  <2> SUFFICES ASSUME IInv, [Next]_vars PROVE IInv'
    OBVIOUS
  <2> SUFFICES Around'
    BY TypeStep DEF IInv, Around
  <2>2. CASE \E r \in Reader : Read(r)
    BY <2>2, AskKeeps, GrantKeeps, RefreshKeeps, RefreshFailsKeeps, DeliverKeeps,
       DiscardKeeps DEF Read
  <2>3. CASE \E c \in Call : Forward(c) \/ Arrive(c)
    BY <2>3, Untouched DEF Forward, Arrive
  <2>4. CASE Leave
    BY <2>4, SignInKeeps, Untouched DEF Leave, SignInFails, EndSession, StaySignedIn
  <2>5. CASE Gate \/ TryAgain \/ Timeout
    BY <2>5, Untouched DEF Gate, TryAgain, Timeout
  <2>6. CASE SignOut
    BY <2>6, SignOutKeeps
  <2>7. CASE Tick
    BY <2>7, TickKeeps
  <2>8. CASE UNCHANGED vars
    BY <2>8, Untouched DEF vars
  <2> QED BY <2>2, <2>3, <2>4, <2>5, <2>6, <2>7, <2>8 DEF Next
<1> QED BY <1>1, <1>2, PTL DEF Spec

(* With a provider that rotates refresh tokens, the one in the cookie is the one the
   provider knows, unless a new one was lost or overwritten. *)
THEOREM RotationIsKept == Spec => []RotationKept
<1>1. IInv => RotationKept
  <2> SUFFICES ASSUME IInv, cookie # NoCookie, cookie.grant > ended, ~mishap,
                      \A r \in Reader : reader[r].phase = "idle"
               PROVE  Accepts(cookie)
    BY DEF RotationKept
  <2> QED BY DEF IInv, NewestIsKept, Accepts, Carries
<1> QED BY <1>1, Invariance, PTL

(* A session handed out holds a live access token or an error. *)
THEOREM ExpiredIsNeverReturned == Spec => NeverReturnsExpired
<1>1. ASSUME IInv, [Next]_vars, ReportsExpiry, NEW r \in Reader,
             reader[r].phase # "answering", reader'[r].phase = "answering"
      PROVE  reader'[r].result.error \/ now < reader'[r].result.access
  <2>1. reader[r] \in Reading /\ now \in Nat /\ ReaderSound(r)
    BY <1>1 DEF IInv, TypeOK, ReadersSound
  <2>2. CASE Ask(r)
    <3>1. /\ cookie \in Session /\ Dated(cookie) /\ isAccessTokenValid(cookie)
          /\ reader'[r].result = cookie
      BY <1>1, <2>2 DEF IInv, TypeOK, Ask, Sound
    <3> QED BY <1>1, <2>1, <3>1, TrustedIsLive
  <2>3. CASE Refresh(r)
    <3>1. /\ reader[r].phase = "granted" /\ reader[r].held \in Session
          /\ reader'[r].result = Refreshed(reader[r].held, reader[r].refresh, reader[r].access)
      BY <1>1, <2>1, <2>3, ReadingShape DEF IInv, TypeOK, Refresh
    <3>2. reader'[r].result.access = reader[r].access /\ reader[r].access \in Nat
      BY <2>1, <3>1, ReadingShape DEF Refreshed, Session, Content
    <3> QED BY <2>1, <3>1, <3>2, SessionAssumption DEF ReaderSound
  <2>4. CASE RefreshFails(r)
    <3>1. /\ reader[r].held \in Session
          /\ reader'[r].result = Failed(reader[r].held)
      BY <1>1, <2>1, <2>4, ReadingShape DEF IInv, TypeOK, RefreshFails
    <3> QED BY <3>1 DEF Failed, Session, Content
  <2>5. CASE reader'[r] = reader[r]
    BY <1>1, <2>5
  <2>6. CASE \E q \in Reader : Read(q)
    <3>1. PICK q \in Reader : Read(q)
      BY <2>6
    <3>2. q # r => reader'[r] = reader[r]
      BY <1>1, <3>1
         DEF IInv, TypeOK, Read, Ask, Grant, Refresh, RefreshFails, Deliver, Discard
    <3>3. Grant(r) \/ Deliver(r) \/ Discard(r) => reader'[r].phase # "answering"
      BY <1>1 DEF IInv, TypeOK, Grant, Deliver, Discard, Idle
    <3> QED BY <1>1, <2>2, <2>3, <2>4, <2>5, <3>1, <3>2, <3>3 DEF Read
  <2>7. CASE ~\E q \in Reader : Read(q)
    <3>1. reader' = reader
      BY <1>1, <2>7
         DEF Next, Leave, Forward, Arrive, SignIn, SignInFails, EndSession, StaySignedIn,
             Gate, TryAgain, SignOut, Timeout, Tick, vars
    <3> QED BY <2>5, <3>1
  <2> QED BY <2>6, <2>7
<1>2. IInv /\ [Next]_vars =>
        (ReportsExpiry =>
           \A r \in Reader :
             reader[r].phase # "answering" /\ reader'[r].phase = "answering" =>
               reader'[r].result.error \/ now < reader'[r].result.access)
  BY <1>1
<1> QED BY <1>2, Invariance, PTL DEF Spec, NeverReturnsExpired

(* The session names its roles from sign-in on if they are on the access token, and until
   its first refresh if they are on the id token only. *)
THEOREM RolesAreShown == Spec => []RolesShown
<1>1. Init => RolesInv
  BY DEF Init, RolesInv, ReaderRoles, Idle
<1>2. IInv /\ RolesInv /\ [Next]_vars => RolesInv'
  <2> SUFFICES ASSUME IInv, RolesInv, [Next]_vars PROVE RolesInv'
    OBVIOUS
  <2>1. CASE \E r \in Reader : Read(r)
    BY <2>1, ReadKeepsRoles
  <2>2. CASE SignIn
    BY <2>2, SignInKeepsRoles
  <2>3. CASE reader' = reader /\ (cookie' = cookie \/ cookie' = NoCookie)
    BY <2>3 DEF RolesInv, ReaderRoles, RolesKnown, RolesRight
  <2>4. (\E r \in Reader : Read(r)) \/ SignIn
          \/ (reader' = reader /\ (cookie' = cookie \/ cookie' = NoCookie))
    BY DEF Next, Leave, Forward, Arrive, SignInFails, EndSession, StaySignedIn,
           Gate, TryAgain, SignOut, Timeout, Tick, vars
  <2> QED BY <2>1, <2>2, <2>3, <2>4
<1>3. RolesInv => RolesShown
  BY DEF RolesInv, RolesKnown, RolesShown
<1> QED BY <1>1, <1>2, <1>3, Invariance, PTL DEF Spec

\* The state keeps its types: in particular no session is at once in error and in
\* possession of an access token.
THEOREM TypeCorrect == Spec => []TypeOK
<1>1. IInv => TypeOK
  BY DEF IInv
<1> QED BY <1>1, Invariance, PTL
=============================================================================
