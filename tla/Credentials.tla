------------------------------- MODULE Credentials -------------------------------
(***************************************************************************)
(* Who connectors believe, and for how long: the roster each one loads at  *)
(* boot (internal/auth/roster.go, cmd/dsbox/main.go), the version it       *)
(* remembers (internal/store), the credentials it mints for every attempt  *)
(* of a push (internal/dsp/callback.go) and those it accepts               *)
(* (internal/auth/token.go, internal/dsp/auth_middleware.go).              *)
(*                                                                         *)
(* Time is real time plus an offset of each connector's clock.  Every      *)
(* judgement is made on the clock of the one that makes it: the issuer     *)
(* dates a credential, the verifier compares.  A roster expires under a    *)
(* running connector, between the attempts of a push, and rosters are      *)
(* replaced one connector at a time, by restarting it.                     *)
(*                                                                         *)
(* A participant need not run this code: it may date a credential as it    *)
(* likes and present it as often as it likes.  Signatures are taken to be  *)
(* what they should be.  Authentication is on.                             *)
(***************************************************************************)
EXTENDS Integers

CONSTANTS
  Participants,
  Rosters,            \* the signed documents there are
  Offsets,            \* how far ahead a participant's clock may be
  CredentialTTL,      \* credentialTTL
  ClockLeeway,        \* clockLeeway
  MaxCredentialLifetime, MaxRosterLifetime,
  Attempts,           \* len(callbackRetryBackoffs) + 1
  AttemptTimeout,     \* callbackHTTPClient.Timeout
  IntMax,             \* the largest int64
  Claims,             \* the dates an issuer may write into a credential
  MaxTime             \* bound: the last instant looked at

IntMin == -IntMax - 1

ASSUME TimeAssumption ==
  /\ CredentialTTL \in Nat /\ ClockLeeway \in Nat /\ MaxCredentialLifetime \in Nat
  /\ MaxRosterLifetime \in Nat
  /\ Attempts \in Nat \ {0}
  /\ AttemptTimeout \in Nat /\ AttemptTimeout < CredentialTTL
  /\ CredentialTTL <= MaxCredentialLifetime

\* Clocks and the numbers they are compared with are far from overflowing.
ASSUME RangeAssumption ==
  /\ MaxTime \in Nat /\ IntMax \in Nat
  /\ Offsets \subseteq Nat
  /\ \A o \in Offsets : MaxTime + o + CredentialTTL <= IntMax
  /\ ClockLeeway <= IntMax /\ MaxCredentialLifetime <= IntMax
  /\ Claims \subseteq [iat : IntMin..IntMax, exp : IntMin..IntMax]

\* A version is given to one document only, as its purpose requires.
ASSUME RosterAssumption ==
  /\ Rosters \subseteq [version : Nat, expiresAt : Nat, lists : SUBSET Participants]
  /\ \A r, s \in Rosters : r.version = s.version => r = s

VARIABLES
  now,      \* real time
  offset,   \* each participant's clock against it
  roster,   \* the roster each connector runs, if it is up
  highest,  \* table roster_version of each connector, 0 without a row
  push,     \* a push of one connector to another; they are independent
  held,     \* a credential its issuer presents again and again
  newest    \* history: the newest roster each connector ever ran

vars == <<now, offset, roster, highest, push, held, newest>>

-----------------------------------------------------------------------------
(* State *)

NoRoster == [version |-> 0, expiresAt |-> 0, lists |-> {}]

Token == [iss : Participants, aud : Participants, iat : Int, exp : IntMin..IntMax]

Answers == {"roster expired", "unknown issuer", "expired", "too long", "wrong audience",
            "admitted"}

\* A push sleeps before an attempt, is on the wire, or has been answered;
\* `token` is the credential of its last attempt, sent at `since`.
NoToken == [iss |-> "none"]
NoPush == [pc |-> "none"]
Asleep == [pc : {"sleep"}, from : Participants, to : Participants, attempt : 1..Attempts,
           token : {NoToken} \cup Token]
Sent == [pc : {"sent"}, from : Participants, to : Participants, attempt : 1..Attempts,
         token : Token, since : 0..MaxTime]
Answered == [pc : {"answered"}, from : Participants, to : Participants,
             attempt : 1..Attempts, token : Token, answer : Answers]

\* The first and the last time the verifier admitted it, -1 for never.
NotHeld == [token |-> NoToken, first |-> -1, last |-> -1]
Held == [token : Token, first : -1..MaxTime, last : -1..MaxTime]

TypeOK ==
  /\ now \in 0..MaxTime
  /\ offset \in [Participants -> Offsets]
  /\ roster \in [Participants -> Rosters \cup {NoRoster}]
  /\ highest \in [Participants -> Nat]
  /\ push \in {NoPush} \cup Asleep \cup Sent \cup Answered
  /\ held \in {NotHeld} \cup Held
  /\ newest \in [Participants -> Rosters \cup {NoRoster}]

Init ==
  /\ now = 0
  /\ offset \in [Participants -> Offsets]
  /\ roster = [c \in Participants |-> NoRoster]
  /\ highest = [c \in Participants |-> 0]
  /\ push = NoPush
  /\ held = NotHeld
  /\ newest = [c \in Participants |-> NoRoster]

Clock(c) == now + offset[c]
Up(c) == roster[c] # NoRoster

\* Roster.UsableAt: at every instant before the expiry and not at it.
UsableAt(r, t) == t < r.expiresAt

-----------------------------------------------------------------------------
(* Boot and stop *)

\* The document is verified and judged by the clock, before the store is open.
LoadRoster(c, r) ==
  /\ r.version >= 1
  /\ r.expiresAt <= Clock(c) + MaxRosterLifetime
  /\ UsableAt(r, Clock(c))

\* Not the code: an INSERT that leaves the row it finds.
RecordRosterVersionOnce(c, version) ==
  /\ version >= highest[c]
  /\ highest' = [highest EXCEPT ![c] = IF @ = 0 THEN version ELSE @]

\* Refuses a version below the highest; remembers a higher one.
RecordRosterVersion(c, version) ==
  /\ version >= highest[c]
  /\ highest' = [highest EXCEPT ![c] = version]

\* The version is recorded, and only then does NewRouter arm what is sent and
\* answered: the process may end in between.
boot(c, r) ==
  /\ ~Up(c)
  /\ LoadRoster(c, r)
  /\ RecordRosterVersion(c, r.version)
  /\ \/ /\ roster' = [roster EXCEPT ![c] = r]
        /\ newest' = [newest EXCEPT ![c] = IF r.version > @.version THEN r ELSE @]
     \/ UNCHANGED <<roster, newest>>
  /\ UNCHANGED <<now, offset, push, held>>

\* The process ends, by a signal or a crash.
exit(c) ==
  /\ Up(c)
  /\ roster' = [roster EXCEPT ![c] = NoRoster]
  /\ push' = IF push # NoPush /\ push.from = c THEN NoPush ELSE push
  /\ UNCHANGED <<now, offset, highest, held, newest>>

-----------------------------------------------------------------------------
(* Credentials *)

Mint(iss, aud) ==
  [iss |-> iss, aud |-> aud, iat |-> Clock(iss), exp |-> Clock(iss) + CredentialTTL]

\* A 64-bit difference.
minus(x, y) ==
  LET d == x - y IN
  IF d < IntMin THEN d + 2 * (IntMax + 1)
                ELSE IF d > IntMax THEN d - 2 * (IntMax + 1) ELSE d

IsExpired(token, t) == t - ClockLeeway >= token.exp
IsTooLong(token, t) == minus(token.exp, t) > MaxCredentialLifetime

\* Not the code: the lifetime taken from the issuer's own two claims.
VerifyAgainstIat(v, token) ==
  CASE token.iss \notin roster[v].lists  -> "unknown issuer"
    [] token.iss \in roster[v].lists ->
         IF IsExpired(token, Clock(v))           THEN "expired"
         ELSE IF IsTooLong(token, token.iat)     THEN "too long"
         ELSE IF token.aud # v                   THEN "wrong audience" ELSE "admitted"

\* The early returns of Verify, in their order.
Verify(v, token) ==
  CASE token.iss \notin roster[v].lists  -> "unknown issuer"
    [] token.iss \in roster[v].lists ->
         IF IsExpired(token, Clock(v))      THEN "expired"
         ELSE IF IsTooLong(token, Clock(v)) THEN "too long"
         ELSE IF token.aud # v              THEN "wrong audience" ELSE "admitted"

\* The roster is judged before the credential is read.
requireParticipant(v, token) ==
  IF UsableAt(roster[v], Clock(v)) THEN Verify(v, token) ELSE "roster expired"

-----------------------------------------------------------------------------
(* A push *)

pushCallback(c, to) ==
  /\ Up(c) /\ push = NoPush /\ to # c
  /\ push' = [pc |-> "sleep", from |-> c, to |-> to, attempt |-> 1, token |-> NoToken]
  /\ UNCHANGED <<now, offset, roster, highest, held, newest>>

sent(p, token) ==
  [pc |-> "sent", from |-> p.from, to |-> p.to, attempt |-> p.attempt, token |-> token,
   since |-> now]

\* Not the code: minted once per call.
mintOutboundCredentialOnce(p) ==
  IF p.token = NoToken THEN Mint(p.from, p.to) ELSE p.token

\* The credential of an attempt, whatever an earlier one carried.
mintOutboundCredential(p) == Mint(p.from, p.to)

\* Not the code: the roster judged once per call.
attemptPushJudgedOnce ==
  /\ push.pc = "sleep"
  /\ push' = IF push.attempt > 1 \/ UsableAt(roster[push.from], Clock(push.from))
               THEN sent(push, mintOutboundCredential(push)) ELSE NoPush
  /\ UNCHANGED <<now, offset, roster, highest, held, newest>>

\* Before each attempt: an expired roster abandons the schedule.
attemptPush ==
  /\ push.pc = "sleep"
  /\ push' = IF UsableAt(roster[push.from], Clock(push.from))
               THEN sent(push, mintOutboundCredential(push)) ELSE NoPush
  /\ UNCHANGED <<now, offset, roster, highest, held, newest>>

\* The attempt reaches the other connector.
arrive ==
  /\ push.pc = "sent" /\ Up(push.to)
  /\ push' = [pc |-> "answered", from |-> push.from, to |-> push.to,
              attempt |-> push.attempt, token |-> push.token,
              answer |-> requireParticipant(push.to, push.token)]
  /\ UNCHANGED <<now, offset, roster, highest, held, newest>>

\* Not the code: attempts counted from 0 and compared with their number.
isLastOffByOne(p) == p.attempt > Attempts

isLast(p) == p.attempt >= Attempts

\* The attempt failed: refused by the middleware or behind it, or the request
\* or its answer was lost.  What follows is a backoff, of any length, or the
\* end of the push.
attemptFails ==
  /\ push.pc \in {"sent", "answered"}
  /\ push' = IF isLast(push) THEN NoPush
             ELSE [pc |-> "sleep", from |-> push.from, to |-> push.to,
                   attempt |-> push.attempt + 1, token |-> push.token]
  /\ UNCHANGED <<now, offset, roster, highest, held, newest>>

attemptSucceeds ==
  /\ push.pc = "answered" /\ push.answer = "admitted"
  /\ push' = NoPush
  /\ UNCHANGED <<now, offset, roster, highest, held, newest>>

-----------------------------------------------------------------------------
(* Participants that do not run this code *)

issue(iss, aud, claims) ==
  /\ held = NotHeld
  /\ held' = [token |-> [iss |-> iss, aud |-> aud, iat |-> claims.iat, exp |-> claims.exp],
              first |-> -1, last |-> -1]
  /\ UNCHANGED <<now, offset, roster, highest, push, newest>>

\* Presented to the connector it is addressed to: nothing remembers that it
\* was seen before.
present ==
  LET v == held.token.aud
      admitted == requireParticipant(v, held.token) = "admitted" IN
  /\ held # NotHeld /\ Up(v)
  /\ held' = [held EXCEPT
       !.first = IF admitted /\ @ = -1 THEN now ELSE @,
       !.last = IF admitted THEN now ELSE @]
  /\ UNCHANGED <<now, offset, roster, highest, push, newest>>

-----------------------------------------------------------------------------
(* Next-state relation *)

\* Time passes, but no attempt outlives its timeout.
tick ==
  /\ now < MaxTime
  /\ push.pc = "sent" => now < push.since + AttemptTimeout
  /\ now' = now + 1
  /\ UNCHANGED <<offset, roster, highest, push, held, newest>>

Next ==
  \/ \E c \in Participants :
       \/ \E r \in Rosters : boot(c, r)
       \/ exit(c)
       \/ \E to \in Participants : pushCallback(c, to)
  \/ attemptPush
  \/ arrive
  \/ attemptFails
  \/ attemptSucceeds
  \/ \E iss, aud \in Participants, claims \in Claims : issue(iss, aud, claims)
  \/ present
  \/ tick

Spec == Init /\ [][Next]_vars
-----------------------------------------------------------------------------
(* Properties *)

\* A connector that is up runs the newest roster it ever ran: replaced ones do
\* not come back over restarts, crashes and rollbacks, so that a participant
\* the newest one has dropped is not admitted (RecordRosterVersion; main.go,
\* "has to be refused before anything can go out under it").
RevokedStaysOut ==
  \A v \in Participants : Up(v) =>
    /\ roster[v] = newest[v]
    /\ newest[v].version <= highest[v]

\* No credential is good for longer than the maximum and the leeway together,
\* from the first time it is accepted, whatever its issuer wrote into it and
\* wherever its clock stands (maxCredentialLifetime, "no issuer offset buys
\* lifetime").
SpanIsBounded ==
  held.first >= 0 => held.last - held.first < MaxCredentialLifetime + ClockLeeway

\* Neither clock is so far off that the leeway would not cover it.
Close(iss, v) ==
  /\ offset[v] - offset[iss] <= ClockLeeway
  /\ offset[iss] - offset[v] <= MaxCredentialLifetime - CredentialTTL

\* An attempt of this connector's own, however late in its schedule, is not
\* refused for its credential by a connector whose clock is close enough
\* (pushCallback, "Minted per attempt, not once per call").
HonestIsHeard ==
  push.pc = "answered" /\ push.answer \in {"expired", "too long", "wrong audience"} =>
    ~Close(push.from, push.to)

\* A connector whose roster has expired falls silent, also in the middle of a
\* push: what is still on the wire was sent before (pushCallback, "an expiry
\* landing mid-schedule [...] abandons the schedule").
SilentOnceExpired ==
  push.pc = "sent" =>
    Clock(push.from) < roster[push.from].expiresAt + AttemptTimeout
=============================================================================
