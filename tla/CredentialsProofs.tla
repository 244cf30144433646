---------------------------- MODULE CredentialsProofs ----------------------------
(***************************************************************************)
(* Theorems about Credentials, for any participants, rosters, clocks,      *)
(* claims and durations that satisfy its assumptions.                      *)
(***************************************************************************)
EXTENDS Credentials, TLAPS

-----------------------------------------------------------------------------
(* The inductive invariant *)

\* What keeps replaced rosters out: the newest roster is remembered before it
\* is run, and nothing older is run after it.
RostersOnlyRise ==
  \A c \in Participants :
    /\ newest[c].version <= highest[c]
    /\ Up(c) => roster[c] = newest[c]

\* What a push has on the wire: a credential minted when the attempt began, by
\* a connector that is up and whose roster had not expired.
AttemptIsFresh ==
  /\ push.pc # "none" => Up(push.from)
  /\ push.pc = "sent" =>
       /\ push.token = [iss |-> push.from, aud |-> push.to,
                        iat |-> push.since + offset[push.from],
                        exp |-> push.since + offset[push.from] + CredentialTTL]
       /\ push.since + offset[push.from] < roster[push.from].expiresAt
       /\ push.since <= now
       /\ now <= push.since + AttemptTimeout

\* What the verifier has established of a credential it admitted: how far from
\* its end it was the first time, and that it had not ended the last time.
AdmittedInTime ==
  /\ held.first <= held.last /\ held.last <= now
  /\ held.first >= 0 =>
       /\ held.token # NoToken
       /\ held.token.exp - (held.first + offset[held.token.aud]) <= MaxCredentialLifetime
       /\ held.last + offset[held.token.aud] - ClockLeeway < held.token.exp

IInv ==
  /\ TypeOK
  /\ RostersOnlyRise
  /\ AttemptIsFresh
  /\ AdmittedInTime
  /\ HonestIsHeard

-----------------------------------------------------------------------------
(* The verdicts *)

\* What the types say of the clocks.
LEMMA ClockType ==
  ASSUME TypeOK, NEW v \in Participants
  PROVE  /\ now \in Nat /\ now <= MaxTime
         /\ offset[v] \in Nat
         /\ Clock(v) \in Nat
         /\ Clock(v) + CredentialTTL <= IntMax
<1>1. now \in Nat /\ now <= MaxTime
  BY RangeAssumption DEF TypeOK
<1>2. offset[v] \in Offsets
  BY DEF TypeOK
<1>3. offset[v] \in Nat /\ MaxTime + offset[v] + CredentialTTL <= IntMax
  BY <1>2, RangeAssumption
<1> QED
  BY <1>1, <1>3, TimeAssumption, RangeAssumption DEF Clock

\* The difference of an expiry that has not passed and the verifier's clock
\* does not wrap, so the two comparisons of Verify mean what they say.
LEMMA NoWrap ==
  ASSUME NEW exp \in IntMin..IntMax, NEW t \in Nat, t - ClockLeeway < exp
  PROVE  minus(exp, t) = exp - t
  BY RangeAssumption, TimeAssumption DEF minus, IntMin

\* An answer is one of the six.
LEMMA AnswersType ==
  ASSUME NEW v \in Participants, NEW token
  PROVE  requireParticipant(v, token) \in Answers
  BY DEF requireParticipant, Verify, Answers

\* What an admitted credential has been found to be.
LEMMA Admitted ==
  ASSUME TypeOK, NEW v \in Participants, NEW token \in Token,
         requireParticipant(v, token) = "admitted"
  PROVE  /\ token.exp - Clock(v) <= MaxCredentialLifetime
         /\ Clock(v) - ClockLeeway < token.exp
<1>1. Clock(v) \in Nat
  BY ClockType
<1>2. token.exp \in IntMin..IntMax
  BY DEF Token
<1>3. ~IsExpired(token, Clock(v)) /\ ~IsTooLong(token, Clock(v))
  BY DEF requireParticipant, Verify
<1>4. Clock(v) - ClockLeeway < token.exp
  BY <1>1, <1>2, <1>3, TimeAssumption, RangeAssumption DEF IsExpired, IntMin
<1>5. minus(token.exp, Clock(v)) = token.exp - Clock(v)
  BY <1>1, <1>2, <1>4, NoWrap
<1>6. token.exp - Clock(v) <= MaxCredentialLifetime
  BY <1>1, <1>2, <1>3, <1>5, TimeAssumption, RangeAssumption DEF IsTooLong, IntMin
<1> QED
  BY <1>4, <1>6

\* The credential of an attempt is not found wanting before the attempt times
\* out, by a verifier whose clock is close enough.
LEMMA Heard ==
  ASSUME TypeOK, NEW i \in Participants, NEW v \in Participants, Close(i, v),
         NEW since \in Nat, since <= now, now <= since + AttemptTimeout,
         NEW token,
         token = [iss |-> i, aud |-> v, iat |-> since + offset[i],
                  exp |-> since + offset[i] + CredentialTTL]
  PROVE  requireParticipant(v, token) \notin {"expired", "too long", "wrong audience"}
<1> DEFINE t == Clock(v)
<1>1. /\ now \in Nat /\ offset[v] \in Nat /\ offset[i] \in Nat
      /\ t \in Nat /\ t = now + offset[v]
      /\ Clock(i) = now + offset[i] /\ Clock(i) + CredentialTTL <= IntMax
  BY ClockType DEF Clock
<1>2. token.exp = since + offset[i] + CredentialTTL /\ token.aud = v
  OBVIOUS
<1>3. token.exp \in IntMin..IntMax
  BY <1>1, <1>2, RangeAssumption, TimeAssumption DEF IntMin
<1>4. t - ClockLeeway < token.exp
  BY <1>1, <1>2, TimeAssumption DEF Close
<1>5. ~IsExpired(token, t)
  BY <1>1, <1>3, <1>4, TimeAssumption, RangeAssumption DEF IsExpired, IntMin
<1>6. token.exp - t <= MaxCredentialLifetime
  BY <1>1, <1>2, TimeAssumption DEF Close
<1>7. minus(token.exp, t) = token.exp - t
  BY <1>1, <1>3, <1>4, NoWrap
<1>8. ~IsTooLong(token, t)
  BY <1>1, <1>2, <1>6, <1>7, TimeAssumption DEF IsTooLong
<1> QED
  BY <1>2, <1>5, <1>8 DEF requireParticipant, Verify

-----------------------------------------------------------------------------
(* Types *)

\* What kind of thing the push is, by its stage.
LEMMA PushKinds ==
  ASSUME TypeOK
  PROVE  /\ push.pc = "none" => push = NoPush
         /\ push.pc = "sleep" => push \in Asleep
         /\ push.pc = "sent" => push \in Sent
         /\ push.pc = "answered" => push \in Answered
         /\ push # NoPush => push.pc # "none"
  BY DEF TypeOK, NoPush, Asleep, Sent, Answered

\* A minted credential is one, and within the integers.
LEMMA MintType ==
  ASSUME TypeOK, NEW i \in Participants, NEW v \in Participants
  PROVE  Mint(i, v) \in Token
<1>1. Clock(i) \in Nat /\ Clock(i) + CredentialTTL <= IntMax
  BY ClockType
<1> QED
  BY <1>1, TimeAssumption, RangeAssumption DEF Mint, Token, IntMin

\* The types hold at first, and every step keeps them.
LEMMA TypeStep ==
  /\ Init => TypeOK
  /\ TypeOK /\ [Next]_vars => TypeOK'
<1>1. Init => TypeOK
  BY RangeAssumption DEF Init, TypeOK, NoPush, NotHeld
<1> SUFFICES ASSUME TypeOK, [Next]_vars PROVE TypeOK'
  BY <1>1
<1>3. ASSUME NEW c \in Participants, NEW r \in Rosters, boot(c, r) PROVE TypeOK'
  <2>1. r.version \in Nat
    BY RosterAssumption
  <2>2. highest' \in [Participants -> Nat]
    BY <1>3, <2>1 DEF boot, RecordRosterVersion, TypeOK
  <2>3. /\ roster' \in [Participants -> Rosters \cup {NoRoster}]
        /\ newest' \in [Participants -> Rosters \cup {NoRoster}]
    BY <1>3 DEF boot, TypeOK
  <2> QED
    BY <1>3, <2>2, <2>3 DEF boot, TypeOK
<1>4. ASSUME NEW c \in Participants, exit(c) PROVE TypeOK'
  <2>1. push' \in {NoPush, push}
    BY <1>4 DEF exit
  <2> QED
    BY <1>4, <2>1 DEF exit, TypeOK
<1>5. ASSUME NEW c \in Participants, NEW to \in Participants, pushCallback(c, to)
      PROVE  TypeOK'
  <2>1. push' \in Asleep
    BY <1>5, TimeAssumption DEF pushCallback, Asleep
  <2> QED
    BY <1>5, <2>1 DEF pushCallback, TypeOK
<1>6. CASE attemptPush
  <2>1. push \in Asleep
    BY <1>6, PushKinds DEF attemptPush
  <2>2. Mint(push.from, push.to) \in Token
    BY <2>1, MintType DEF Asleep
  <2>3. sent(push, Mint(push.from, push.to)) \in Sent
    BY <2>1, <2>2 DEF sent, Asleep, Sent, TypeOK
  <2>4. push' \in {NoPush} \cup Sent
    BY <1>6, <2>3 DEF attemptPush, mintOutboundCredential
  <2> QED
    BY <1>6, <2>4 DEF attemptPush, TypeOK
<1>7. CASE arrive
  <2>1. push \in Sent
    BY <1>7, PushKinds DEF arrive
  <2>2. requireParticipant(push.to, push.token) \in Answers
    BY <2>1, AnswersType DEF Sent
  <2>3. push' \in Answered
    BY <1>7, <2>1, <2>2 DEF arrive, Sent, Answered
  <2> QED
    BY <1>7, <2>3 DEF arrive, TypeOK
<1>8. CASE attemptFails
  <2>1. push \in Sent \cup Answered
    BY <1>8, PushKinds DEF attemptFails
  <2>2. ~isLast(push) => push.attempt + 1 \in 1..Attempts
    BY <2>1, TimeAssumption DEF isLast, Sent, Answered
  <2>3. push' \in {NoPush} \cup Asleep
    BY <1>8, <2>1, <2>2 DEF attemptFails, Sent, Answered, Asleep
  <2> QED
    BY <1>8, <2>3 DEF attemptFails, TypeOK
<1>9. CASE attemptSucceeds
  BY <1>9 DEF attemptSucceeds, TypeOK
<1>10. ASSUME NEW iss \in Participants, NEW aud \in Participants, NEW claims \in Claims,
              issue(iss, aud, claims)
       PROVE  TypeOK'
  <2>1. claims.iat \in Int /\ claims.exp \in IntMin..IntMax
    BY RangeAssumption DEF IntMin
  <2>2. [iss |-> iss, aud |-> aud, iat |-> claims.iat, exp |-> claims.exp] \in Token
    BY <2>1 DEF Token
  <2>3. held' \in Held
    BY <1>10, <2>2, RangeAssumption DEF issue, Held
  <2> QED
    BY <1>10, <2>3 DEF issue, TypeOK
<1>11. CASE present
  <2>1. held \in Held /\ now \in -1..MaxTime
    BY <1>11, RangeAssumption DEF present, TypeOK
  <2>2. held' \in Held
    BY <1>11, <2>1 DEF present, Held
  <2> QED
    BY <1>11, <2>2 DEF present, TypeOK
<1>12. CASE tick
  BY <1>12, RangeAssumption DEF tick, TypeOK
<1>13. CASE UNCHANGED vars
  BY <1>13 DEF vars, TypeOK
<1> QED
  BY <1>3, <1>4, <1>5, <1>6, <1>7, <1>8, <1>9, <1>10, <1>11, <1>12, <1>13 DEF Next

-----------------------------------------------------------------------------
(* Rosters *)

\* A roster a connector runs is a document, and none at all has version 0.
LEMMA RosterType ==
  ASSUME TypeOK, NEW c \in Participants
  PROVE  /\ roster[c].version \in Nat /\ newest[c].version \in Nat
         /\ roster[c].expiresAt \in Nat
         /\ highest[c] \in Nat
  BY RosterAssumption DEF TypeOK, NoRoster

\* What is run does not go back: a version at least the one remembered is the
\* newest, and by the discipline of versions the same document.
LEMMA RosterStep ==
  /\ Init => RostersOnlyRise
  /\ TypeOK /\ RostersOnlyRise /\ [Next]_vars => RostersOnlyRise'
<1>1. Init => RostersOnlyRise
  <2> SUFFICES ASSUME Init, NEW p \in Participants
               PROVE  newest[p].version <= highest[p] /\ ~Up(p)
    BY DEF RostersOnlyRise
  <2>1. newest[p] = NoRoster /\ roster[p] = NoRoster /\ highest[p] = 0
    BY DEF Init
  <2> QED
    BY <2>1 DEF Up, NoRoster
<1> SUFFICES ASSUME TypeOK, RostersOnlyRise, [Next]_vars PROVE RostersOnlyRise'
  BY <1>1
<1>3. ASSUME NEW c \in Participants, NEW r \in Rosters, boot(c, r)
      PROVE  RostersOnlyRise'
  <2>1. /\ r.version \in Nat /\ r.version >= 1
        /\ newest[c].version <= highest[c] /\ highest[c] <= r.version
        /\ highest' = [highest EXCEPT ![c] = r.version]
    BY <1>3, RosterAssumption, RosterType
       DEF boot, LoadRoster, RecordRosterVersion, RostersOnlyRise
  <2>2. newest[c].version <= r.version
    BY <2>1, RosterType
  <2>3. newest[c].version = r.version => newest[c] = r
    BY <2>1, RosterAssumption DEF TypeOK, NoRoster
  <2>4. CASE UNCHANGED <<roster, newest>>
    <3>1. \A p \in Participants :
            highest'[p] = IF p = c THEN r.version ELSE highest[p]
      BY <2>1 DEF TypeOK
    <3>2. \A p \in Participants : newest'[p].version <= highest'[p]
      BY <2>2, <2>4, <3>1 DEF RostersOnlyRise
    <3>3. roster' = roster /\ newest' = newest
      BY <2>4
    <3>4. \A p \in Participants : Up(p)' => roster'[p] = newest'[p]
      BY <3>3 DEF RostersOnlyRise, Up
    <3> QED
      BY <3>2, <3>4 DEF RostersOnlyRise
  <2>5. CASE /\ roster' = [roster EXCEPT ![c] = r]
             /\ newest' = [newest EXCEPT ![c] = IF r.version > @.version THEN r ELSE @]
    <3>1. newest'[c] = r
      <4>1. newest'[c] = IF r.version > newest[c].version THEN r ELSE newest[c]
        BY <2>5 DEF TypeOK
      <4>2. newest[c].version \in Nat
        BY RosterType
      <4> QED
        BY <2>1, <2>2, <2>3, <4>1, <4>2
    <3>2. \A p \in Participants \ {c} :
            newest'[p] = newest[p] /\ roster'[p] = roster[p] /\ highest'[p] = highest[p]
      BY <2>1, <2>5 DEF TypeOK
    <3>3. roster'[c] = r /\ highest'[c] = r.version
      BY <2>1, <2>5 DEF TypeOK
    <3> QED
      BY <2>1, <3>1, <3>2, <3>3 DEF RostersOnlyRise, Up
  <2> QED
    BY <1>3, <2>4, <2>5 DEF boot
<1>4. ASSUME NEW c \in Participants, exit(c) PROVE RostersOnlyRise'
  BY <1>4 DEF exit, RostersOnlyRise, TypeOK, Up
<1>5. CASE UNCHANGED <<roster, highest, newest>>
  BY <1>5 DEF RostersOnlyRise, Up
<1>6. \/ \E c \in Participants : exit(c) \/ \E r \in Rosters : boot(c, r)
      \/ UNCHANGED <<roster, highest, newest>>
  BY DEF Next, vars, pushCallback, attemptPush, arrive, attemptFails, attemptSucceeds,
              issue, present, tick
<1> QED
  BY <1>3, <1>4, <1>5, <1>6

-----------------------------------------------------------------------------
(* The push *)

\* An attempt on the wire is fresh, and what it is answered is about the
\* clocks only.
LEMMA PushStep ==
  /\ Init => AttemptIsFresh /\ HonestIsHeard
  /\ TypeOK /\ AttemptIsFresh /\ HonestIsHeard /\ [Next]_vars
       => AttemptIsFresh' /\ HonestIsHeard'
<1>1. Init => AttemptIsFresh /\ HonestIsHeard
  BY DEF Init, AttemptIsFresh, HonestIsHeard, NoPush
<1> SUFFICES ASSUME TypeOK, AttemptIsFresh, HonestIsHeard, [Next]_vars
             PROVE  AttemptIsFresh' /\ HonestIsHeard'
  BY <1>1
<1>2. ASSUME NEW c \in Participants, NEW r \in Rosters, boot(c, r)
      PROVE  AttemptIsFresh' /\ HonestIsHeard'
  <2>1. push.pc # "none" => push.from # c
    BY <1>2 DEF boot, AttemptIsFresh
  <2>2. push.pc # "none" => push.from \in Participants
    BY DEF TypeOK, NoPush, Asleep, Sent, Answered
  <2>3. push.pc # "none" => roster'[push.from] = roster[push.from]
    BY <1>2, <2>1, <2>2 DEF boot, TypeOK
  <2>4. now' = now /\ offset' = offset /\ push' = push
    BY <1>2 DEF boot
  <2> QED
    BY <2>3, <2>4 DEF AttemptIsFresh, HonestIsHeard, Up, Close
<1>3. ASSUME NEW c \in Participants, exit(c)
      PROVE  AttemptIsFresh' /\ HonestIsHeard'
  <2>1. now' = now /\ offset' = offset
    BY <1>3 DEF exit
  <2>2. CASE push' = NoPush
    BY <2>2 DEF AttemptIsFresh, HonestIsHeard, NoPush
  <2>3. CASE push' = push /\ push # NoPush /\ push.from # c
    <3>1. push.from \in Participants
      BY <2>3 DEF TypeOK, Asleep, Sent, Answered
    <3>2. roster'[push.from] = roster[push.from]
      BY <1>3, <2>3, <3>1 DEF exit, TypeOK
    <3> QED
      BY <2>1, <2>3, <3>2 DEF AttemptIsFresh, HonestIsHeard, Up, Close
  <2> QED
    BY <1>3, <2>2, <2>3 DEF exit
<1>4. ASSUME NEW c \in Participants, NEW to \in Participants, pushCallback(c, to)
      PROVE  AttemptIsFresh' /\ HonestIsHeard'
  BY <1>4 DEF pushCallback, AttemptIsFresh, HonestIsHeard, Up
<1>5. CASE attemptPush
  <2>1. push \in Asleep
    BY <1>5, PushKinds DEF attemptPush
  <2>2. push.from \in Participants /\ push.to \in Participants
    BY <2>1 DEF Asleep
  <2>3. now' = now /\ offset' = offset /\ roster' = roster /\ Up(push.from)
    BY <1>5 DEF attemptPush, AttemptIsFresh
  <2>4. CASE UsableAt(roster[push.from], Clock(push.from))
    <3>1. push' = sent(push, Mint(push.from, push.to))
      BY <1>5, <2>4 DEF attemptPush, mintOutboundCredential
    <3>2. /\ push'.pc = "sent" /\ push'.from = push.from /\ push'.to = push.to
          /\ push'.token = Mint(push.from, push.to) /\ push'.since = now
      BY <3>1 DEF sent
    <3>3. now + offset[push.from] < roster[push.from].expiresAt
      BY <2>4 DEF UsableAt, Clock
    <3>4. now \in Nat
      BY <2>2, ClockType
    <3>5. push'.token = [iss |-> push.from, aud |-> push.to,
                         iat |-> now + offset[push.from],
                         exp |-> now + offset[push.from] + CredentialTTL]
      BY <3>2 DEF Mint, Clock
    <3>6. AttemptIsFresh'
      BY <2>3, <3>2, <3>3, <3>4, <3>5, TimeAssumption DEF AttemptIsFresh, Up
    <3> QED
      BY <3>2, <3>6 DEF HonestIsHeard
  <2>5. CASE ~UsableAt(roster[push.from], Clock(push.from))
    BY <1>5, <2>5 DEF attemptPush, AttemptIsFresh, HonestIsHeard, NoPush
  <2> QED
    BY <2>4, <2>5
<1>6. CASE arrive
  <2>1. push \in Sent
    BY <1>6, PushKinds DEF arrive
  <2>2. push.from \in Participants /\ push.to \in Participants /\ push.since \in Nat
    BY <2>1, RangeAssumption DEF Sent
  <2>3. Close(push.from, push.to) =>
          requireParticipant(push.to, push.token)
            \notin {"expired", "too long", "wrong audience"}
    BY <1>6, <2>2, Heard DEF arrive, AttemptIsFresh
  <2>4. /\ push'.pc = "answered" /\ push'.from = push.from /\ push'.to = push.to
        /\ push'.answer = requireParticipant(push.to, push.token)
        /\ offset' = offset /\ roster' = roster
    BY <1>6 DEF arrive
  <2> QED
    BY <1>6, <2>3, <2>4 DEF arrive, AttemptIsFresh, HonestIsHeard, Up, Close
<1>7. CASE attemptFails
  BY <1>7 DEF attemptFails, AttemptIsFresh, HonestIsHeard, NoPush, Up
<1>8. CASE attemptSucceeds
  BY <1>8 DEF attemptSucceeds, AttemptIsFresh, HonestIsHeard, NoPush
<1>9. CASE tick
  <2>1. push.pc = "sent" => push.since \in Nat /\ now \in Nat
    BY PushKinds, RangeAssumption DEF Sent, TypeOK
  <2> QED
    <3>1. /\ push' = push /\ offset' = offset /\ roster' = roster /\ now' = now + 1
          /\ push.pc = "sent" => now < push.since + AttemptTimeout
      BY <1>9 DEF tick
    <3>2. push.pc = "sent" =>
            push'.since <= now' /\ now' <= push'.since + AttemptTimeout
      BY <2>1, <3>1, TimeAssumption DEF AttemptIsFresh
    <3>3. AttemptIsFresh'
      BY <3>1, <3>2 DEF AttemptIsFresh, Up
    <3>4. HonestIsHeard'
      BY <3>1 DEF HonestIsHeard, Close
    <3> QED
      BY <3>3, <3>4
<1>10. CASE UNCHANGED <<now, offset, roster, push>>
  BY <1>10 DEF AttemptIsFresh, HonestIsHeard, Up, Close
<1>11. \/ \E c \in Participants :
            \/ exit(c)
            \/ \E r \in Rosters : boot(c, r)
            \/ \E to \in Participants : pushCallback(c, to)
       \/ attemptPush \/ arrive \/ attemptFails \/ attemptSucceeds \/ tick
       \/ UNCHANGED <<now, offset, roster, push>>
  BY DEF Next, vars, issue, present
<1> QED
  BY <1>2, <1>3, <1>4, <1>5, <1>6, <1>7, <1>8, <1>9, <1>10, <1>11

-----------------------------------------------------------------------------
(* The credential that is presented again and again *)

\* Whatever its dates, what the first and the last admission found of it.
LEMMA HeldStep ==
  /\ Init => AdmittedInTime
  /\ TypeOK /\ AdmittedInTime /\ [Next]_vars => AdmittedInTime'
<1>1. Init => AdmittedInTime
  BY DEF Init, AdmittedInTime, NotHeld
<1> SUFFICES ASSUME TypeOK, AdmittedInTime, [Next]_vars PROVE AdmittedInTime'
  BY <1>1
<1>2. held \in {NotHeld} \cup Held /\ now \in Nat
  BY RangeAssumption DEF TypeOK
<1>3. held.first \in Int /\ held.last \in Int
  BY <1>2, RangeAssumption DEF NotHeld, Held
<1>4. ASSUME NEW iss \in Participants, NEW aud \in Participants, NEW claims \in Claims,
             issue(iss, aud, claims)
      PROVE  AdmittedInTime'
  <2>1. held'.first = -1 /\ held'.last = -1 /\ now' = now
    BY <1>4 DEF issue
  <2> QED
    BY <1>2, <2>1 DEF AdmittedInTime
<1>5. CASE present
  <2> DEFINE v == held.token.aud
  <2>1. held \in Held
    BY <1>2, <1>5 DEF present
  <2>2. held.token \in Token /\ v \in Participants /\ held.token # NoToken
    BY <2>1 DEF Held, Token, NoToken
  <2>3. now' = now /\ offset' = offset /\ held'.token = held.token
    BY <1>5, <2>1 DEF present, Held
  <2>4. CASE requireParticipant(v, held.token) = "admitted"
    <3>1. /\ held.token.exp - Clock(v) <= MaxCredentialLifetime
          /\ Clock(v) - ClockLeeway < held.token.exp
      BY <2>2, <2>4, Admitted
    <3>2. /\ held'.first = (IF held.first = -1 THEN now ELSE held.first)
          /\ held'.last = now
      BY <1>5, <2>1, <2>4 DEF present, Held
    <3>3. held.first >= -1
      BY <2>1, RangeAssumption DEF Held
    <3>4. /\ held'.token # NoToken /\ offset'[held'.token.aud] = offset[v]
          /\ held'.token.exp = held.token.exp
      BY <2>2, <2>3
    <3>5. /\ held'.first <= held'.last /\ held'.last <= now'
          /\ held'.first >= 0
      BY <1>2, <1>3, <2>3, <3>2, <3>3 DEF AdmittedInTime
    <3>6. held'.last + offset'[held'.token.aud] - ClockLeeway < held'.token.exp
      <4>1. Clock(v) = held'.last + offset'[held'.token.aud]
        BY <3>2, <3>4 DEF Clock
      <4>2. held.token.exp \in Int /\ ClockLeeway \in Int /\ offset[v] \in Int
        BY <2>2, ClockType, TimeAssumption, RangeAssumption DEF Token, IntMin
      <4> QED
        BY <1>2, <3>1, <3>2, <3>4, <4>1, <4>2 DEF Clock
    <3>7. held'.token.exp - (held'.first + offset'[held'.token.aud])
            <= MaxCredentialLifetime
      <4>1. CASE held.first = -1
        BY <3>1, <3>2, <3>4, <4>1 DEF Clock
      <4>2. CASE held.first >= 0
        BY <1>3, <3>2, <3>4, <4>2 DEF AdmittedInTime
      <4> QED
        BY <1>3, <3>3, <4>1, <4>2
    <3> QED
      BY <3>4, <3>5, <3>6, <3>7 DEF AdmittedInTime
  <2>5. CASE requireParticipant(v, held.token) # "admitted"
    <3>1. held'.first = held.first /\ held'.last = held.last
      BY <1>5, <2>1, <2>5 DEF present, Held
    <3> QED
      BY <2>3, <3>1 DEF AdmittedInTime
  <2> QED
    BY <2>4, <2>5
<1>6. CASE tick
  BY <1>2, <1>3, <1>6 DEF tick, AdmittedInTime
<1>7. CASE UNCHANGED <<now, offset, held>>
  BY <1>7 DEF AdmittedInTime
<1>8. \/ \E iss, aud \in Participants, claims \in Claims : issue(iss, aud, claims)
      \/ present \/ tick
      \/ UNCHANGED <<now, offset, held>>
  BY DEF Next, vars, boot, exit, pushCallback, attemptPush, arrive, attemptFails,
         attemptSucceeds
<1> QED
  BY <1>4, <1>5, <1>6, <1>7, <1>8

-----------------------------------------------------------------------------
(* Theorems *)

\* The strengthening of all of them holds always.
LEMMA Invariance == Spec => []IInv
<1>1. Init => IInv
  BY TypeStep, RosterStep, PushStep, HeldStep DEF IInv
<1>2. IInv /\ [Next]_vars => IInv'
  BY TypeStep, RosterStep, PushStep, HeldStep DEF IInv
<1> QED
  BY <1>1, <1>2, PTL DEF Spec

\* Rosters, remembered versions, pushes and credentials keep their types, and
\* no push is tried more often than the schedule allows.
THEOREM TypeCorrect == Spec => []TypeOK
<1>1. IInv => TypeOK
  BY DEF IInv
<1> QED
  BY <1>1, Invariance, PTL

\* Over any number of restarts, crashes and rollbacks a connector that is up
\* runs the newest roster it ever ran.
THEOREM ReplacedRostersStayOut == Spec => []RevokedStaysOut
<1>1. IInv => RevokedStaysOut
  BY DEF IInv, RostersOnlyRise, RevokedStaysOut
<1> QED
  BY <1>1, Invariance, PTL

\* No dates and no clock make a credential good for longer than the maximum
\* and the leeway together.
THEOREM CredentialsAreShort == Spec => []SpanIsBounded
<1>1. IInv => SpanIsBounded
  <2> SUFFICES ASSUME IInv, held.first >= 0
               PROVE  held.last - held.first < MaxCredentialLifetime + ClockLeeway
    BY DEF SpanIsBounded
  <2>1. held \in Held /\ held.token # NoToken
    BY DEF IInv, TypeOK, AdmittedInTime, NotHeld
  <2>2. held.token \in Token
    BY <2>1 DEF Held
  <2>3. held.token.exp \in Int /\ offset[held.token.aud] \in Nat
    BY <2>2, ClockType, RangeAssumption DEF Token, IInv, IntMin
  <2>4. held.first \in Int /\ held.last \in Int
    BY <2>1, RangeAssumption DEF Held
  <2> QED
    BY <2>3, <2>4, TimeAssumption DEF IInv, AdmittedInTime
<1> QED
  BY <1>1, Invariance, PTL

\* An attempt at any place in the schedule is not refused for its credential
\* by a verifier whose clock is close enough.
THEOREM HonestAttemptsAreHeard == Spec => []HonestIsHeard
<1>1. IInv => HonestIsHeard
  BY DEF IInv
<1> QED
  BY <1>1, Invariance, PTL

\* Nothing is on the wire longer than one attempt after the sender's roster
\* expired.
THEOREM ExpiredFallSilent == Spec => []SilentOnceExpired
<1>1. IInv => SilentOnceExpired
  <2> SUFFICES ASSUME IInv, push.pc = "sent"
               PROVE  Clock(push.from) < roster[push.from].expiresAt + AttemptTimeout
    BY DEF SilentOnceExpired
  <2>1. TypeOK
    BY DEF IInv
  <2>2. push \in Sent
    BY <2>1, PushKinds
  <2>3. push.from \in Participants /\ push.since \in Nat
    BY <2>2, RangeAssumption DEF Sent
  <2>4. now \in Nat /\ offset[push.from] \in Nat /\ roster[push.from].expiresAt \in Nat
    BY <2>1, <2>3, ClockType, RosterType
  <2> QED
    BY <2>3, <2>4, TimeAssumption DEF IInv, AttemptIsFresh, Clock
<1> QED
  BY <1>1, Invariance, PTL
=============================================================================
