------------------------------ MODULE DataPullProofs ------------------------------
(***************************************************************************)
(* Theorems about DataPull, for any number of start messages and pulls at  *)
(* a time, any representations of the dataset and any ceiling.             *)
(***************************************************************************)
EXTENDS DataPull, TLAPS

-----------------------------------------------------------------------------
(* The inductive invariant *)

\* A pull that holds the transfer's entry in the map of running pulls.
Active(q) == q.pc \in {"request", "copy", "record", "release"}

\* At most one does.
GuardHolds ==
  /\ \A g \in Pulls : Active(pull[g]) => pulling
  /\ \A g, h \in Pulls : Active(pull[g]) /\ Active(pull[h]) => g = h

\* What a pull knows of the size of the partial file is true.
Measured(q) ==
  /\ q.pc = "request" => q.had = Len(partial)
  /\ q.pc = "copy" => q.had + q.n = Len(partial)
  /\ q.pc = "record" /\ q.outcome = "failed" => q.received = Len(partial)
  /\ q.pc = "record" /\ q.outcome = "completed" => q.received = Len(q.file)

\* What a pull copies and publishes is of the length on record, if every byte
\* was judged by it.
Judged(q) ==
  trust = "checked" =>
    /\ q.pc = "copy" => Length[q.of] = row.expected /\ q.expected = row.expected
    /\ q.pc = "record" /\ q.outcome = "completed" => Whole(q.file)

\* So is what is on disk.
JudgedPartial ==
  trust = "checked" => \A i \in 1..Len(partial) : Length[partial[i].version] = row.expected

\* The row's count is the size of the partial file.
Counted == ~lost /\ row.outcome # "completed" => row.received = Len(partial)

\* It is between pulls, and after a drain that reported success also during one.
CountedWhenQuiet ==
  (\A g \in Pulls : pull[g].pc \notin {"copy", "record"}) \/ mode = "clean" => Counted

\* A drain that reported success left no pull that has touched the disk.
DiskAtRest == mode = "clean" => \A g \in Pulls : ~At(g, "copy") /\ ~Publishes(g)

\* A pull whose outcome is waited for is on its way to it, and after a drain that
\* reported success none is.
OwedIsUnderWay ==
  /\ \A g \in owed : pull[g].pc \in {"spawned", "request", "copy", "record"}
  /\ mode = "clean" => owed = {}

IInv ==
  /\ TypeOK
  /\ GuardHolds
  /\ PartialIsPrefix
  /\ \A g \in Pulls : Measured(pull[g])
  /\ \A g \in Pulls : Judged(pull[g])
  /\ JudgedPartial
  /\ CountedWhenQuiet
  /\ DiskAtRest

-----------------------------------------------------------------------------
(* Types *)

AnyPull == {Idle} \cup Reading \cup Spawned \cup Requesting \cup Copying \cup Recording \cup Releasing

\* The stage of a pull tells its type.
LEMMA PullType ==
  ASSUME NEW q \in AnyPull
  PROVE  /\ q.pc = "read" => q \in Reading
         /\ q.pc = "spawned" => q \in Spawned
         /\ q.pc = "request" => q \in Requesting
         /\ q.pc = "copy" => q \in Copying
         /\ q.pc = "record" => q \in Recording
         /\ q.pc \in {"idle", "read", "spawned", "request", "copy", "record", "release"}
  BY DEF AnyPull, Idle, Reading, Spawned, Requesting, Copying, Recording, Releasing

\* What the types say of a pull in the table.
LEMMA PullIn ==
  ASSUME TypeOK, NEW g \in Pulls
  PROVE  pull[g] \in AnyPull
  BY DEF TypeOK, AnyPull

\* A pull that goes elsewhere leaves the others where they are.
LEMMA GotoEffect ==
  ASSUME TypeOK, NEW g \in Pulls, NEW q \in AnyPull, Goto(g, q)
  PROVE  /\ pull' \in [Pulls -> AnyPull]
         /\ pull'[g] = q
         /\ \A h \in Pulls \ {g} : pull'[h] = pull[h]
  BY DEF TypeOK, AnyPull, Goto

\* The kinds of steps.
LEMMA Cases ==
  ASSUME [Next]_vars
  PROVE  \/ \E g \in Pulls : lookup(g)
         \/ \E g \in Pulls : start(g)
         \/ \E g \in Pulls : begin(g)
         \/ \E g \in Pulls : refuse(g)
         \/ \E g \in Pulls, of \in Versions, stored \in BOOLEAN :
              \E stated \in {0, Length[of]} : answerFresh(g, of, stated, stored)
         \/ \E g \in Pulls, of \in Versions, stored \in BOOLEAN :
              \E stated \in {0, Length[of]} : answerResumed(g, of, stated, stored)
         \/ \E g \in Pulls, of \in Versions : answerUnsatisfiable(g, of)
         \/ \E g \in Pulls : copy(g)
         \/ \E g \in Pulls : cutoff(g)
         \/ \E g \in Pulls : finish(g)
         \/ \E g \in Pulls : record(g)
         \/ \E g \in Pulls : failRecord(g)
         \/ \E g \in Pulls : release(g)
         \/ suspend
         \/ shutdown \/ cancelPulls \/ drainPulls \/ restart
         \/ exit \/ kill
         \/ UNCHANGED vars
<1>1. ASSUME NEW g \in Pulls, NEW of \in Versions, NEW stored \in BOOLEAN, answer(g, of, stored)
      PROVE  \/ \E stated \in {0, Length[of]} : answerFresh(g, of, stated, stored)
             \/ \E stated \in {0, Length[of]} : answerResumed(g, of, stated, stored)
             \/ answerUnsatisfiable(g, of)
  BY <1>1 DEF answer
<1> QED
  BY <1>1 DEF Next, Pull, Stop, Fault

\* A length that an answer states is a number.
LEMMA StatedType ==
  ASSUME NEW of \in Versions, NEW stated \in {0, Length[of]}
  PROVE  stated \in Nat /\ Length[of] \in Nat /\ Length[of] > 0
         /\ (stated # 0 => stated = Length[of])
  BY DataAssumption

\* What is recorded of a length keeps the row's type and the rest of the row.
LEMMA ExpectedType ==
  ASSUME TypeOK, NEW expected \in Nat, NEW known, NEW stored \in BOOLEAN,
         row' = recordExpected(expected, known, stored)
  PROVE  /\ row' \in Row
         /\ row'.outcome = row.outcome /\ row'.received = row.received
         /\ expected = known => row' = row
  BY DEF TypeOK, recordExpected, Row

\* An outcome to record is of its type.
LEMMA OutcomeType ==
  ASSUME TypeOK, NEW n \in Nat
  PROVE  failed(n) \in Recording /\ published(n) \in Recording
         /\ failed(n) \in AnyPull /\ published(n) \in AnyPull
  BY DEF TypeOK, failed, published, Recording, AnyPull

\* The types hold at first, and every step keeps them.
LEMMA TypeStep ==
  ASSUME TypeOK, [Next]_vars
  PROVE  TypeOK'
<1> USE DEF AnyPull
<1>1. ASSUME NEW g \in Pulls, NEW q \in AnyPull, Goto(g, q), row' \in Row, partial' \in Seq(Byte),
             pulling' \in BOOLEAN, mode' \in Modes, trust' \in {"checked", "unchecked", "silent"},
             lost' \in BOOLEAN, owed' \subseteq Pulls
      PROVE  TypeOK'
  BY <1>1, GotoEffect DEF TypeOK
<1>0. /\ row \in Row /\ partial \in Seq(Byte) /\ pulling \in BOOLEAN /\ mode \in Modes
      /\ trust \in {"checked", "unchecked", "silent"} /\ lost \in BOOLEAN /\ owed \subseteq Pulls
      /\ <<>> \in Seq(Byte) /\ Idle \in AnyPull
  BY DEF TypeOK
<1>2. ASSUME NEW g \in Pulls, lookup(g) PROVE TypeOK'
  <2>1. [pc |-> "read", seen |-> row.state, known |-> row.expected] \in Reading
    BY <1>0, <1>2 DEF lookup, Row, Reading
  <2> QED
    BY <1>0, <1>1, <1>2, <2>1 DEF lookup
<1>3. ASSUME NEW g \in Pulls, start(g) PROVE TypeOK'
  <2>1. pull[g] \in Reading
    BY <1>3, PullIn, PullType DEF start, At
  <2>2. [pc |-> "spawned", known |-> pull[g].known] \in Spawned
    BY <2>1 DEF Reading, Spawned
  <2>3. row' \in Row
    BY <1>0, <1>3 DEF start, Row
  <2>4. owed' \subseteq Pulls
    BY <1>0, <1>3 DEF start
  <2> QED
    BY <1>0, <1>1, <1>3, <2>2, <2>3, <2>4 DEF start
<1>4. ASSUME NEW g \in Pulls, begin(g) PROVE TypeOK'
  <2>1. pull[g] \in Spawned
    BY <1>4, PullIn, PullType DEF begin, At
  <2>2. [pc |-> "request", known |-> pull[g].known, had |-> Len(partial)] \in Requesting
    BY <1>0, <2>1 DEF Spawned, Requesting
  <2> QED
    BY <1>0, <1>1, <1>4, <2>2 DEF begin, settle
<1>5. ASSUME NEW g \in Pulls, pull[g].pc = "request"
      PROVE  pull[g] \in Requesting /\ pull[g].had \in Nat /\ pull[g].known \in Nat
  BY <1>5, PullIn, PullType DEF Requesting
<1>6. ASSUME NEW g \in Pulls, refuse(g) PROVE TypeOK'
  <2>1. failed(pull[g].had) \in AnyPull
    BY <1>5, <1>6, OutcomeType DEF refuse, At
  <2> QED
    BY <1>0, <1>1, <1>6, <2>1 DEF refuse
<1>7. ASSUME NEW g \in Pulls, NEW of \in Versions, NEW stored \in BOOLEAN,
             NEW stated \in {0, Length[of]}, answerFresh(g, of, stated, stored)
      PROVE  TypeOK'
  <2>1. row' \in Row
    BY <1>7, StatedType, ExpectedType DEF answerFresh
  <2>2. [pc |-> "copy", had |-> 0, n |-> 0, of |-> of, expected |-> stated] \in Copying
    BY StatedType DEF Copying
  <2>3. trust' \in {"checked", "unchecked", "silent"}
    BY <1>7 DEF answerFresh
  <2> QED
    BY <1>0, <1>1, <1>7, <2>1, <2>2, <2>3 DEF answerFresh
<1>8. ASSUME NEW g \in Pulls, NEW of \in Versions, NEW stored \in BOOLEAN,
             NEW stated \in {0, Length[of]}, answerResumed(g, of, stated, stored)
      PROVE  TypeOK'
  <2>1. pull[g].had \in Nat /\ pull[g].known \in Nat /\ stated \in Nat
    BY <1>5, <1>8, StatedType DEF answerResumed, At
  <2>2. CASE differs(stated, pull[g].known)
    <3>1. failed(0) \in AnyPull
      BY OutcomeType
    <3> QED
      BY <1>0, <1>1, <1>8, <2>2, <3>1 DEF answerResumed, discardPartial
  <2>3. CASE ~differs(stated, pull[g].known)
    <3>1. PICK expected \in Nat :
            /\ row' = recordExpected(expected, pull[g].known, stored)
            /\ Goto(g, [pc |-> "copy", had |-> pull[g].had, n |-> 0, of |-> of,
                        expected |-> expected])
            /\ partial' = partial
      BY <1>8, <2>1, <2>3 DEF answerResumed
    <3>2. [pc |-> "copy", had |-> pull[g].had, n |-> 0, of |-> of, expected |-> expected] \in Copying
      BY <2>1 DEF Copying
    <3>3. trust' \in {"checked", "unchecked", "silent"} /\ UNCHANGED <<pulling, mode, lost, owed>>
      BY <1>0, <1>8, <2>3 DEF answerResumed
    <3>4. row' \in Row
      BY <3>1, ExpectedType
    <3> QED
      BY <1>0, <1>1, <3>1, <3>2, <3>3, <3>4
  <2> QED
    BY <2>2, <2>3
<1>9. ASSUME NEW g \in Pulls, NEW of \in Versions, answerUnsatisfiable(g, of) PROVE TypeOK'
  <2>1. failed(0) \in AnyPull
    BY OutcomeType
  <2> QED
    BY <1>0, <1>1, <1>9, <2>1 DEF answerUnsatisfiable, discardPartial
<1>10. ASSUME NEW g \in Pulls, pull[g].pc = "copy"
       PROVE  pull[g] \in Copying /\ pull[g].had \in Nat /\ pull[g].n \in Nat
              /\ pull[g].of \in Versions
  BY <1>10, PullIn, PullType DEF Copying
<1>11. ASSUME NEW g \in Pulls, copy(g) PROVE TypeOK'
  <2>1. pull[g] \in Copying /\ pull[g].had \in Nat /\ pull[g].n \in Nat /\ pull[g].of \in Versions
    BY <1>10, <1>11 DEF copy, At
  <2>2. [pull[g] EXCEPT !.n = @ + 1] \in Copying
    BY <2>1 DEF Copying
  <2>3. [version |-> pull[g].of, at |-> pull[g].had + pull[g].n + 1] \in Byte
    BY <2>1 DEF Byte
  <2>4. partial' \in Seq(Byte)
    BY <1>0, <1>11, <2>3 DEF copy
  <2> QED
    BY <1>0, <1>1, <1>11, <2>2, <2>4 DEF copy
<1>12. ASSUME NEW g \in Pulls, cutoff(g) PROVE TypeOK'
  <2>1. failed(pull[g].had + pull[g].n) \in AnyPull
    BY <1>10, <1>12, OutcomeType DEF cutoff, At
  <2> QED
    BY <1>0, <1>1, <1>12, <2>1 DEF cutoff
<1>13. ASSUME NEW g \in Pulls, finish(g) PROVE TypeOK'
  <2>1. /\ failed(pull[g].had + pull[g].n) \in AnyPull
        /\ published(pull[g].had + pull[g].n) \in AnyPull
    BY <1>10, <1>13, OutcomeType DEF finish, At
  <2> QED
    BY <1>0, <1>1, <1>13, <2>1 DEF finish
<1>14. ASSUME NEW g \in Pulls, record(g) \/ failRecord(g) PROVE TypeOK'
  <2>1. pull[g] \in Recording
    BY <1>14, PullIn, PullType DEF record, failRecord, At
  <2>2. [pc |-> "release"] \in Releasing
    BY DEF Releasing
  <2>3. row' \in Row
    BY <1>0, <1>14, <2>1 DEF record, failRecord, Recording, Row
  <2> QED
    BY <1>0, <1>1, <1>14, <2>2, <2>3 DEF record, failRecord, settle
<1>15. ASSUME NEW g \in Pulls, release(g) PROVE TypeOK'
  BY <1>0, <1>1, <1>15 DEF release
<1>16. CASE suspend
  BY <1>16 DEF suspend, TypeOK, Row
<1>17. CASE shutdown \/ cancelPulls \/ drainPulls \/ restart \/ UNCHANGED vars
  BY <1>17 DEF shutdown, cancelPulls, drainPulls, restart, vars, TypeOK, Modes
<1>18. CASE exit \/ kill
  BY <1>18 DEF exit, kill, gone, TypeOK, Modes
<1> QED
  BY <1>2, <1>3, <1>4, <1>6, <1>7, <1>8, <1>9, <1>11, <1>12, <1>13, <1>14, <1>15, <1>16, <1>17,
     <1>18, Cases

-----------------------------------------------------------------------------
(* One pull at a time *)

\* The stages of the pulls that copy, publish, or are counted, as sets.
LEMMA Stages ==
  ASSUME NEW q
  PROVE  /\ q.pc \in {"copy", "record"} => Active(q)
         /\ ~Active(q) => Measured(q) /\ Judged(q) /\ Measured(q)' /\ Judged(q)'
  BY DEF Active, Measured, Judged

\* What an active pull does, it does alone: what it makes true of itself holds
\* of all.
LEMMA Alone ==
  ASSUME IInv, NEW g \in Pulls, NEW q \in AnyPull, Active(pull[g]), Goto(g, q),
         Measured(q)', Judged(q)'
  PROVE  /\ \A h \in Pulls : Measured(pull[h])'
         /\ \A h \in Pulls : Judged(pull[h])'
<1>1. /\ pull'[g] = q
      /\ \A h \in Pulls \ {g} : pull'[h] = pull[h] /\ ~Active(pull[h])
  BY GotoEffect DEF IInv, GuardHolds
<1>2. ASSUME NEW h \in Pulls, NEW p, p = pull'[h] PROVE Measured(p)' /\ Judged(p)'
  BY <1>1, <1>2, Stages
<1>3. ASSUME NEW h \in Pulls PROVE Measured(pull[h])' /\ Judged(pull[h])'
  <2>1. PICK p : p = pull'[h]
    OBVIOUS
  <2>2. Measured(p)' /\ Judged(p)'
    BY <1>2, <2>1
  <2> QED
    BY <2>1, <2>2 DEF Measured, Judged, Whole
<1> QED
  BY <1>3

\* The guard is kept by a pull that stays active, or stays inactive.
LEMMA GuardKept ==
  ASSUME IInv, NEW g \in Pulls, NEW q \in AnyPull, Goto(g, q), pulling' = pulling,
         Active(q) => Active(pull[g])
  PROVE  GuardHolds'
<1>1. /\ pull'[g] = q
      /\ \A h \in Pulls \ {g} : pull'[h] = pull[h]
  BY GotoEffect DEF IInv
<1>2. \A h \in Pulls : Active(pull'[h]) => Active(pull[h])
  BY <1>1
<1> QED
  BY <1>2 DEF GuardHolds, IInv, Active

\* What every property but the types says is kept by a step of this kind.
Rest ==
  /\ GuardHolds
  /\ PartialIsPrefix
  /\ \A g \in Pulls : Measured(pull[g])
  /\ \A g \in Pulls : Judged(pull[g])
  /\ JudgedPartial
  /\ CountedWhenQuiet
  /\ DiskAtRest

\* What is known of the disk and the row does not change.
SameData ==
  /\ UNCHANGED <<partial, trust, lost>>
  /\ row'.expected = row.expected /\ row'.received = row.received /\ row'.outcome = row.outcome

\* A pull that does not touch the data changes nothing about it.
LEMMA DataKept ==
  ASSUME IInv, SameData
  PROVE  /\ PartialIsPrefix' /\ JudgedPartial' /\ (Counted' <=> Counted)
         /\ \A q : Measured(q) => Measured(q)'
         /\ \A q : Judged(q) => Judged(q)'
<1>1. PartialIsPrefix' /\ JudgedPartial' /\ (Counted' <=> Counted)
  BY DEF IInv, SameData, PartialIsPrefix, JudgedPartial, Counted
<1>2. ASSUME NEW q, Measured(q) PROVE Measured(q)'
  BY <1>2 DEF Measured, SameData
<1>3. ASSUME NEW q, Judged(q) PROVE Judged(q)'
  BY <1>3 DEF Judged, SameData, Whole
<1> QED
  BY <1>1, <1>2, <1>3

\* A step of a pull that is neither copying nor recording, nor about to, and
\* that leaves the data alone.
LEMMA QuietStep ==
  ASSUME IInv, NEW g \in Pulls, NEW q \in AnyPull, Goto(g, q), SameData, mode' = mode,
         GuardHolds', Measured(q),
         pull[g].pc \notin {"copy", "record"}, q.pc \notin {"copy", "record"}
  PROVE  Rest'
<1>1. /\ pull'[g] = q
      /\ \A h \in Pulls \ {g} : pull'[h] = pull[h]
  BY GotoEffect DEF IInv
<1>2. ASSUME NEW h \in Pulls PROVE Measured(pull[h])' /\ Judged(pull[h])'
  <2>1. PICK p : p = pull'[h]
    OBVIOUS
  <2>2. Measured(p) /\ Judged(p)
    BY <1>1, <2>1 DEF IInv, Judged
  <2>3. Measured(p)' /\ Judged(p)'
    BY <2>2, DataKept
  <2> QED
    BY <2>1, <2>3 DEF Measured, Judged, Whole
<1>3. \A h \in Pulls :
        pull'[h].pc \in {"copy", "record"} => pull'[h] = pull[h]
  BY <1>1
<1>4. \A h \in Pulls :
        pull[h].pc \in {"copy", "record"} => pull'[h] = pull[h]
  BY <1>1
<1>5. CountedWhenQuiet'
  BY <1>4, DataKept DEF CountedWhenQuiet, IInv
<1>6. DiskAtRest'
  BY <1>3 DEF DiskAtRest, IInv, At, Publishes
<1> QED
  BY <1>2, <1>5, <1>6, DataKept DEF Rest

\* A step of a pull that ends it in the middle of its work, outside a drain
\* that reported success.
LEMMA BusyStep ==
  ASSUME IInv, NEW g \in Pulls, NEW q \in AnyPull, Goto(g, q), Active(pull[g]),
         pulling' = pulling, mode' = mode, mode # "clean",
         Measured(q)', Judged(q)', q.pc \in {"copy", "record"},
         PartialIsPrefix', JudgedPartial'
  PROVE  Rest'
<1>1. pull'[g] = q
  BY GotoEffect DEF IInv
<1>2. GuardHolds'
  BY GuardKept, Stages
<1>3. CountedWhenQuiet' /\ DiskAtRest'
  BY <1>1 DEF CountedWhenQuiet, DiskAtRest
<1> QED
  BY <1>2, <1>3, Alone DEF Rest

-----------------------------------------------------------------------------
(* The steps *)

\* The steps that do not touch the data.
LEMMA QuietSteps ==
  ASSUME IInv, NEW g \in Pulls, lookup(g) \/ start(g) \/ begin(g) \/ release(g)
  PROVE  Rest'
<1>0. TypeOK /\ GuardHolds /\ pull[g] \in AnyPull
  BY PullIn DEF IInv
<1>1. CASE lookup(g)
  <2>1. PICK q \in AnyPull : q.pc = "read" /\ Goto(g, q)
    <3>1. [pc |-> "read", seen |-> row.state, known |-> row.expected] \in Reading
      BY <1>0, <1>1 DEF lookup, Row, Reading, TypeOK
    <3> QED
      BY <1>1, <3>1 DEF lookup, AnyPull
  <2>2. GuardHolds'
    BY <1>1, <2>1, GuardKept DEF lookup, Active
  <2> QED
    BY <1>1, <2>1, <2>2, QuietStep DEF lookup, SameData, At, Measured
<1>2. CASE start(g)
  <2>1. pull[g] \in Reading
    BY <1>0, <1>2, PullType DEF start, At
  <2>2. PICK q \in AnyPull : q.pc \in {"spawned", "idle"} /\ Goto(g, q)
    <3>1. [pc |-> "spawned", known |-> pull[g].known] \in Spawned
      BY <2>1 DEF Reading, Spawned
    <3> QED
      BY <1>2, <3>1 DEF start, AnyPull, Idle
  <2>3. GuardHolds'
    BY <1>2, <2>2, GuardKept DEF start, Active
  <2>4. SameData
    BY <1>0, <1>2 DEF start, SameData, TypeOK, Row
  <2> QED
    BY <1>2, <2>2, <2>3, <2>4, QuietStep DEF start, At, Measured
<1>3. CASE begin(g) /\ pulling
  <2>1. Goto(g, Idle) /\ pulling' = pulling /\ Idle \in AnyPull /\ Idle.pc = "idle"
    BY <1>3 DEF begin, AnyPull, Idle
  <2>2. GuardHolds'
    BY <2>1, GuardKept DEF Active
  <2> QED
    BY <1>3, <2>1, <2>2, QuietStep DEF begin, SameData, At, Measured
<1>4. CASE begin(g) /\ ~pulling
  <2>1. pull[g] \in Spawned
    BY <1>0, <1>4, PullType DEF begin, At
  <2>2. PICK q \in AnyPull : q.pc = "request" /\ q.had = Len(partial) /\ Goto(g, q)
    <3>1. [pc |-> "request", known |-> pull[g].known, had |-> Len(partial)] \in Requesting
      BY <1>0, <2>1 DEF Spawned, Requesting, TypeOK
    <3> QED
      BY <1>4, <3>1 DEF begin, AnyPull
  <2>3. /\ pull'[g] = q
        /\ \A h \in Pulls \ {g} : pull'[h] = pull[h]
    BY <1>0, <2>2, GotoEffect
  <2>4. GuardHolds'
    BY <1>0, <1>4, <2>3 DEF GuardHolds, begin, Active
  <2> QED
    BY <1>4, <2>2, <2>4, QuietStep DEF begin, SameData, At, Measured
<1>5. CASE release(g)
  <2>1. Goto(g, Idle) /\ pulling' = FALSE /\ Idle \in AnyPull /\ Idle.pc = "idle"
        /\ Active(pull[g])
    BY <1>5 DEF release, AnyPull, Idle, At, Active
  <2>2. /\ pull'[g] = Idle
        /\ \A h \in Pulls \ {g} : pull'[h] = pull[h] /\ ~Active(pull[h])
    BY <1>0, <2>1, GotoEffect DEF GuardHolds
  <2>3. GuardHolds'
    BY <2>1, <2>2 DEF GuardHolds, Active
  <2> QED
    BY <1>5, <2>1, <2>3, QuietStep DEF release, SameData, At, Measured
<1> QED
  BY <1>1, <1>2, <1>3, <1>4, <1>5

\* The request refused: the disk is as it was.
LEMMA RefuseStep ==
  ASSUME IInv, NEW g \in Pulls, refuse(g)
  PROVE  Rest'
<1>0. TypeOK /\ pull[g] \in Requesting /\ pull[g].pc = "request" /\ Active(pull[g])
  BY PullIn, PullType DEF IInv, refuse, At, Active
<1>1. pull[g].had = Len(partial) /\ pull[g].had \in Nat
  BY <1>0 DEF IInv, Measured, Requesting
<1>2. PICK q \in AnyPull : /\ q.pc = "record" /\ q.outcome = "failed" /\ q.received = Len(partial)
                           /\ Goto(g, q)
  <2>1. failed(pull[g].had) \in AnyPull
    BY <1>0, <1>1, OutcomeType
  <2> QED
    BY <1>0, <1>1, <2>1 DEF refuse, failed
<1>3. SameData /\ mode' = mode /\ pulling' = pulling
  BY DEF refuse, SameData
<1>4. GuardHolds'
  BY <1>0, <1>2, <1>3, GuardKept
<1>5. Measured(q)' /\ Judged(q)'
  BY <1>2, <1>3 DEF Measured, Judged, SameData
<1>6. (\A h \in Pulls : Measured(pull[h])') /\ (\A h \in Pulls : Judged(pull[h])')
  BY <1>0, <1>2, <1>5, Alone
<1>7. /\ pull'[g] = q
      /\ \A h \in Pulls \ {g} : pull'[h] = pull[h]
  BY <1>0, <1>2, GotoEffect
<1>8. CountedWhenQuiet'
  BY <1>2, <1>3, <1>7, DataKept DEF CountedWhenQuiet, IInv
<1>9. DiskAtRest'
  BY <1>2, <1>3, <1>7 DEF DiskAtRest, IInv, At, Publishes
<1> QED
  BY <1>3, <1>4, <1>6, <1>8, <1>9, DataKept DEF Rest

\* A fresh answer.
LEMMA FreshStep ==
  ASSUME IInv, NEW g \in Pulls, NEW of \in Versions, NEW stored \in BOOLEAN,
         NEW stated \in {0, Length[of]}, answerFresh(g, of, stated, stored)
  PROVE  Rest'
<1>0. TypeOK /\ pull[g].pc = "request" /\ Active(pull[g]) /\ mode # "clean"
  BY DEF IInv, answerFresh, At, Active, Uncancelled
<1>1. PICK q \in Copying : /\ q.pc = "copy" /\ q.had = 0 /\ q.n = 0 /\ q.of = of
                           /\ q.expected = stated /\ Goto(g, q)
  <2>1. [pc |-> "copy", had |-> 0, n |-> 0, of |-> of, expected |-> stated] \in Copying
    BY StatedType DEF Copying
  <2> QED
    BY <2>1 DEF answerFresh
<1>2. /\ partial' = <<>> /\ mode' = mode /\ pulling' = pulling
      /\ trust' = "checked" => stated # 0 /\ row'.expected = stated
  <2>1. trust' = IF stated = 0 \/ ~stored    THEN "silent"
                 ELSE IF row'.expected = stated THEN "checked" ELSE "unchecked"
    BY DEF answerFresh
  <2>2. trust' = "checked" => stated # 0 /\ row'.expected = stated
    BY <2>1
  <2> QED
    BY <2>2 DEF answerFresh
<1>3. Measured(q)' /\ Judged(q)'
  <2>1. Measured(q)'
    BY <1>1, <1>2 DEF Measured
  <2>2. Judged(q)'
    BY <1>1, <1>2, StatedType DEF Judged
  <2> QED
    BY <2>1, <2>2
<1>4. PartialIsPrefix' /\ JudgedPartial'
  BY <1>2, DataAssumption DEF PartialIsPrefix, JudgedPartial
<1> QED
  BY <1>0, <1>1, <1>2, <1>3, <1>4, BusyStep DEF AnyPull

\* An answer that makes the partial file go.
LEMMA DiscardStep ==
  ASSUME IInv, NEW g \in Pulls, pull[g].pc = "request", Uncancelled, discardPartial(g),
         UNCHANGED <<row, pulling, mode, trust, lost>>
  PROVE  Rest'
<1>0. TypeOK /\ Active(pull[g]) /\ mode # "clean"
  BY DEF IInv, Active, Uncancelled
<1>1. PICK q \in AnyPull : /\ q.pc = "record" /\ q.outcome = "failed" /\ q.received = 0
                           /\ Goto(g, q)
  <2>1. failed(0) \in AnyPull
    BY <1>0, OutcomeType
  <2> QED
    BY <2>1 DEF discardPartial, failed
<1>2. partial' = <<>>
  BY DEF discardPartial
<1>3. Measured(q)' /\ Judged(q)'
  BY <1>1, <1>2 DEF Measured, Judged
<1>4. PartialIsPrefix' /\ JudgedPartial'
  BY <1>2, DataAssumption DEF PartialIsPrefix, JudgedPartial
<1> QED
  BY <1>0, <1>1, <1>3, <1>4, BusyStep

\* A resumed answer: judged by the recorded length, if it is the one on record.
LEMMA ResumedStep ==
  ASSUME IInv, NEW g \in Pulls, NEW of \in Versions, NEW stored \in BOOLEAN,
         NEW stated \in {0, Length[of]}, answerResumed(g, of, stated, stored)
  PROVE  Rest'
<1>0. /\ TypeOK /\ pull[g].pc = "request" /\ Active(pull[g]) /\ mode # "clean" /\ Uncancelled
      /\ pull[g] \in Requesting
  BY PullIn, PullType DEF IInv, answerResumed, At, Active, Uncancelled
<1>1. PICK had \in Nat, known \in Nat : had = pull[g].had /\ known = pull[g].known
  BY <1>0 DEF Requesting
<1>2. CASE differs(stated, known)
  BY <1>0, <1>1, <1>2, DiscardStep DEF answerResumed
<1>3. CASE ~differs(stated, known)
  <2>1. PICK expected \in Nat :
          /\ expected = IF stated > 0 THEN stated ELSE known
          /\ row' = recordExpected(expected, known, stored)
          /\ trust' = IF stated = 0 \/ ~stored \/ trust = "silent" THEN "silent"
                      ELSE IF known = 0 \/ known # row.expected THEN "unchecked" ELSE trust
          /\ Goto(g, [pc |-> "copy", had |-> had, n |-> 0, of |-> of, expected |-> expected])
          /\ partial' = partial /\ mode' = mode /\ pulling' = pulling
    BY <1>1, <1>3, StatedType DEF answerResumed
  <2>2. PICK q \in Copying : /\ q.pc = "copy" /\ q.had = had /\ q.n = 0 /\ q.of = of
                             /\ q.expected = expected /\ Goto(g, q)
    <3>1. [pc |-> "copy", had |-> had, n |-> 0, of |-> of, expected |-> expected] \in Copying
      BY DEF Copying
    <3> QED
      BY <2>1, <3>1
  <2>3. trust' = "checked" =>
          /\ trust = "checked" /\ stated # 0 /\ known # 0 /\ known = row.expected
          /\ stated = known /\ expected = known /\ row' = row
    <3> SUFFICES ASSUME trust' = "checked"
                 PROVE  /\ trust = "checked" /\ stated # 0 /\ known # 0 /\ known = row.expected
                        /\ stated = known /\ expected = known /\ row' = row
      OBVIOUS
    <3>1. trust = "checked" /\ stated # 0 /\ known # 0 /\ known = row.expected
      BY <2>1
    <3>2. stated = known
      BY <1>3, <3>1, StatedType DEF differs
    <3>3. expected = known
      BY <2>1, <3>1, <3>2, StatedType
    <3> QED
      BY <1>0, <2>1, <3>1, <3>2, <3>3, ExpectedType
  <2>4. Judged(q)'
    BY <2>2, <2>3, StatedType DEF Judged
  <2>5. Measured(q)'
    <3>1. had = Len(partial)
      BY <1>0, <1>1 DEF IInv, Measured
    <3> QED
      BY <2>1, <2>2, <3>1 DEF Measured
  <2>6. PartialIsPrefix' /\ JudgedPartial'
    BY <2>1, <2>3 DEF IInv, PartialIsPrefix, JudgedPartial
  <2> QED
    BY <1>0, <2>1, <2>2, <2>4, <2>5, <2>6, BusyStep DEF AnyPull
<1> QED
  BY <1>2, <1>3

\* A byte arrives.
LEMMA CopyStep ==
  ASSUME IInv, NEW g \in Pulls, copy(g)
  PROVE  Rest'
<1>0. TypeOK /\ pull[g].pc = "copy" /\ Active(pull[g]) /\ mode # "clean"
      /\ pull[g] \in Copying /\ partial \in Seq(Byte)
  BY PullIn, PullType DEF IInv, copy, At, Active, DiskAtRest, TypeOK
<1>1. PICK q \in Copying : q = pull[g]
  BY <1>0
<1>2. /\ q.had \in Nat /\ q.n \in Nat /\ q.of \in Versions /\ Len(partial) = q.had + q.n
      /\ q.had + q.n <= MaxDownloadBytes
      /\ trust = "checked" => Length[q.of] = row.expected /\ q.expected = row.expected
  <2>1. Len(partial) = q.had + q.n
    BY <1>0, <1>1 DEF IInv, Measured
  <2>2. trust = "checked" => Length[q.of] = row.expected /\ q.expected = row.expected
    BY <1>0, <1>1 DEF IInv, Judged
  <2>3. q.had + q.n <= MaxDownloadBytes
    BY <1>1 DEF copy, more, withinLimit
  <2> QED
    BY <2>1, <2>2, <2>3 DEF Copying
<1>3. PICK b \in Byte : /\ b.version = q.of /\ b.at = Len(partial) + 1
                        /\ partial' = Append(partial, b)
  <2>1. [version |-> q.of, at |-> q.had + q.n + 1] \in Byte
    BY <1>2 DEF Byte
  <2> QED
    BY <1>1, <1>2, <2>1 DEF copy
<1>4. /\ Len(partial') = Len(partial) + 1 /\ Len(partial) \in Nat
      /\ \A i \in 1..Len(partial) : partial'[i] = partial[i]
      /\ partial'[Len(partial) + 1] = b
  BY <1>0, <1>3
<1>5. PICK r \in Copying : /\ r.pc = "copy" /\ r.had = q.had /\ r.n = q.n + 1 /\ r.of = q.of
                           /\ r.expected = q.expected /\ Goto(g, r)
  <2>1. [q EXCEPT !.n = @ + 1] \in Copying
    BY <1>2 DEF Copying
  <2>2. Goto(g, [q EXCEPT !.n = @ + 1])
    BY <1>1 DEF copy
  <2> QED
    BY <2>1, <2>2 DEF Copying
<1>6. Measured(r)' /\ Judged(r)'
  <2>1. Measured(r)'
    BY <1>2, <1>4, <1>5 DEF Measured
  <2>2. Judged(r)'
    BY <1>2, <1>5 DEF Judged, copy
  <2> QED
    BY <2>1, <2>2
<1>7. PartialIsPrefix' /\ JudgedPartial'
  <2>1. \A i \in 1..Len(partial') : i \in 1..Len(partial) \/ i = Len(partial) + 1
    BY <1>4
  <2>2. \A i \in 1..Len(partial') : partial'[i].at = i
    BY <1>3, <1>4, <2>1 DEF IInv, PartialIsPrefix
  <2>3. Len(partial') <= MaxDownloadBytes + 1
    BY <1>2, <1>4, DataAssumption
  <2>4. trust = "checked" => \A i \in 1..Len(partial') : Length[partial'[i].version] = row.expected
    BY <1>2, <1>3, <1>4, <2>1 DEF IInv, JudgedPartial
  <2> QED
    BY <2>2, <2>3, <2>4 DEF PartialIsPrefix, JudgedPartial, copy
<1> QED
  BY <1>0, <1>5, <1>6, <1>7, BusyStep DEF copy, AnyPull

\* The body ends, well or not.
LEMMA EndStep ==
  ASSUME IInv, NEW g \in Pulls, cutoff(g) \/ finish(g)
  PROVE  Rest'
<1>0. TypeOK /\ pull[g].pc = "copy" /\ Active(pull[g]) /\ mode # "clean"
      /\ pull[g] \in Copying /\ partial \in Seq(Byte)
  BY PullIn, PullType DEF IInv, cutoff, finish, At, Active, DiskAtRest, TypeOK
<1>1. PICK q \in Copying : q = pull[g]
  BY <1>0
<1>2. /\ q.had \in Nat /\ q.n \in Nat /\ q.of \in Versions /\ Len(partial) = q.had + q.n
      /\ trust = "checked" => q.expected = row.expected /\ Length[q.of] = row.expected
  <2>1. Len(partial) = q.had + q.n
    BY <1>0, <1>1 DEF IInv, Measured
  <2>2. trust = "checked" => q.expected = row.expected /\ Length[q.of] = row.expected
    BY <1>0, <1>1 DEF IInv, Judged
  <2> QED
    BY <2>1, <2>2 DEF Copying
<1>3. /\ UNCHANGED <<row, pulling, mode, trust, lost>>
      /\ \/ Goto(g, failed(q.had + q.n)) /\ partial' = partial
         \/ /\ q.expected \in {0, q.had + q.n}
            /\ Goto(g, published(q.had + q.n)) /\ partial' = <<>>
  BY <1>1 DEF cutoff, finish
<1>4. CASE Goto(g, failed(q.had + q.n)) /\ partial' = partial
  <2>1. PICK r \in AnyPull : /\ r.pc = "record" /\ r.outcome = "failed"
                             /\ r.received = Len(partial) /\ Goto(g, r)
    <3>1. failed(q.had + q.n) \in AnyPull
      BY <1>0, <1>2, OutcomeType
    <3> QED
      BY <1>2, <1>4, <3>1 DEF failed
  <2>2. Measured(r)' /\ Judged(r)' /\ PartialIsPrefix' /\ JudgedPartial'
    BY <1>3, <1>4, <2>1 DEF Measured, Judged, IInv, PartialIsPrefix, JudgedPartial
  <2> QED
    BY <1>0, <1>3, <2>1, <2>2, BusyStep
<1>5. CASE /\ q.expected \in {0, q.had + q.n}
           /\ Goto(g, published(q.had + q.n)) /\ partial' = <<>>
  <2>1. PICK r \in AnyPull : /\ r.pc = "record" /\ r.outcome = "completed" /\ r.file = partial
                             /\ r.received = Len(partial) /\ Goto(g, r)
    <3>1. published(q.had + q.n) \in AnyPull
      BY <1>0, <1>2, OutcomeType
    <3> QED
      BY <1>2, <1>5, <3>1 DEF published
  <2>2. trust = "checked" => Whole(partial)
    <3> SUFFICES ASSUME trust = "checked" PROVE Whole(partial)
      OBVIOUS
    <3>1. row.expected = Len(partial)
      BY <1>2, <1>5, DataAssumption
    <3> QED
      BY <3>1 DEF IInv, PartialIsPrefix, JudgedPartial, Whole
  <2>3. Measured(r)' /\ Judged(r)'
    BY <1>3, <2>1, <2>2 DEF Measured, Judged, Whole
  <2>4. PartialIsPrefix' /\ JudgedPartial'
    BY <1>5, DataAssumption DEF PartialIsPrefix, JudgedPartial
  <2> QED
    BY <1>0, <1>3, <2>1, <2>3, <2>4, BusyStep
<1> QED
  BY <1>3, <1>4, <1>5

\* The outcome reaches the row, or does not.
LEMMA RecordStep ==
  ASSUME IInv, NEW g \in Pulls, record(g) \/ failRecord(g)
  PROVE  Rest'
<1>0. TypeOK /\ pull[g].pc = "record" /\ Active(pull[g]) /\ pull[g] \in Recording
  BY PullIn, PullType DEF IInv, record, failRecord, At, Active
<1>1. PICK q \in AnyPull : q.pc = "release" /\ Goto(g, q)
  BY DEF record, failRecord, AnyPull, Releasing
<1>2. /\ pull'[g] = q
      /\ \A h \in Pulls \ {g} : pull'[h] = pull[h]
      /\ UNCHANGED <<partial, pulling, mode, trust>> /\ row'.expected = row.expected
  BY <1>0, <1>1, GotoEffect DEF record, failRecord, TypeOK, Row
<1>3. GuardHolds' /\ PartialIsPrefix' /\ JudgedPartial'
  <2>1. GuardHolds'
    BY <1>0, <1>1, <1>2, GuardKept
  <2> QED
    BY <1>2, <2>1 DEF IInv, PartialIsPrefix, JudgedPartial
<1>4. Measured(q)' /\ Judged(q)'
  BY <1>1 DEF Measured, Judged
<1>5. (\A h \in Pulls : Measured(pull[h])') /\ (\A h \in Pulls : Judged(pull[h])')
  BY <1>0, <1>1, <1>4, Alone
<1>6. Counted'
  <2>1. CASE failRecord(g)
    BY <2>1 DEF failRecord, Counted
  <2>2. CASE record(g)
    <3>1. row'.received = pull[g].received /\ row'.outcome = pull[g].outcome
      BY <1>0, <2>2 DEF record, TypeOK, Row
    <3>2. pull[g].outcome \in {"completed", "failed"}
      BY <1>0 DEF Recording
    <3>3. pull[g].outcome = "failed" => pull[g].received = Len(partial)
      BY <1>0 DEF IInv, Measured
    <3> QED
      BY <1>2, <3>1, <3>2, <3>3 DEF Counted
  <2> QED
    BY <2>1, <2>2
<1>7. DiskAtRest'
  BY <1>1, <1>2 DEF DiskAtRest, IInv, At, Publishes
<1> QED
  BY <1>3, <1>5, <1>6, <1>7 DEF Rest, CountedWhenQuiet

\* The steps that move no pull: a suspension, the stages of a stop, a restart.
LEMMA ModeSteps ==
  ASSUME IInv, suspend \/ shutdown \/ cancelPulls \/ drainPulls \/ restart \/ UNCHANGED vars
  PROVE  Rest'
<1>0. TypeOK
  BY DEF IInv
<1>1. SameData /\ pull' = pull /\ pulling' = pulling
  BY <1>0 DEF SameData, suspend, shutdown, cancelPulls, drainPulls, restart, vars, TypeOK, Row
<1>2. mode' = "clean" => mode = "clean" \/ \A g \in Pulls : pull[g].pc \in {"idle", "read"}
  BY DEF suspend, shutdown, cancelPulls, drainPulls, restart, vars, counted
<1>3. ASSUME NEW h \in Pulls PROVE Measured(pull[h])' /\ Judged(pull[h])'
  <2>1. PICK p : p = pull[h]
    OBVIOUS
  <2>2. Measured(p)' /\ Judged(p)'
    BY <1>1, <2>1, DataKept DEF IInv
  <2> QED
    BY <1>1, <2>1, <2>2 DEF Measured, Judged, Whole
<1>4. GuardHolds'
  BY <1>1 DEF IInv, GuardHolds, Active
<1>5. CountedWhenQuiet'
  BY <1>1, <1>2, DataKept DEF IInv, CountedWhenQuiet
<1>6. DiskAtRest'
  BY <1>1, <1>2 DEF IInv, DiskAtRest, At, Publishes
<1> QED
  BY <1>1, <1>3, <1>4, <1>5, <1>6, DataKept DEF Rest

\* The process is gone: what was counted and is gone too is lost.
LEMMA GoneSteps ==
  ASSUME IInv, exit \/ kill
  PROVE  Rest'
<1>1. /\ pull' = [g \in Pulls |-> Idle] /\ pulling' = FALSE /\ mode' = "down"
      /\ UNCHANGED <<row, partial, trust>>
  BY DEF exit, kill, gone
<1>2. ASSUME NEW h \in Pulls PROVE Measured(pull[h])' /\ Judged(pull[h])' /\ pull'[h].pc = "idle"
  BY <1>1 DEF Measured, Judged, Idle
<1>3. Counted'
  <2>1. ~lost' => ~lost /\ (mode = "clean" \/ \A g \in Pulls : pull[g].pc \in {"idle", "read"})
    BY DEF exit, kill, counted
  <2>2. ~lost' => Counted
    BY <2>1 DEF IInv, CountedWhenQuiet
  <2> QED
    BY <1>1, <2>1, <2>2 DEF Counted
<1>4. GuardHolds'
  BY <1>2 DEF GuardHolds, Active
<1>5. PartialIsPrefix' /\ JudgedPartial'
  BY <1>1 DEF IInv, PartialIsPrefix, JudgedPartial
<1> QED
  BY <1>1, <1>2, <1>3, <1>4, <1>5 DEF Rest, CountedWhenQuiet, DiskAtRest

-----------------------------------------------------------------------------
(* What a stop waits for *)

\* A pull that goes on towards its outcome, or was not owed one.
LEMMA OwedGoes ==
  ASSUME TypeOK, OwedIsUnderWay, NEW g \in Pulls, NEW q \in AnyPull, Goto(g, q), mode' = mode,
         \/ owed' = owed /\ (pull[g].pc \in {"idle", "read", "release"}
                             \/ q.pc \in {"spawned", "request", "copy", "record"})
         \/ owed' = owed \ {g}
  PROVE  OwedIsUnderWay'
<1>1. /\ pull'[g] = q
      /\ \A h \in Pulls \ {g} : pull'[h] = pull[h]
      /\ owed \subseteq Pulls
  BY GotoEffect DEF TypeOK
<1>2. owed' \subseteq owed
  OBVIOUS
<1>3. ASSUME NEW h \in owed' PROVE pull'[h].pc \in {"spawned", "request", "copy", "record"}
  BY <1>1, <1>2, <1>3 DEF OwedIsUnderWay
<1> QED
  BY <1>2, <1>3 DEF OwedIsUnderWay

\* A pull set off is owed an outcome unless the drain has reported.
LEMMA OwedStart ==
  ASSUME TypeOK, OwedIsUnderWay, NEW g \in Pulls, start(g)
  PROVE  OwedIsUnderWay'
<1>0. pull[g].pc = "read" /\ mode' = mode
  BY DEF start, At
<1>1. CASE Goto(g, Idle) /\ owed' = owed
  BY <1>0, <1>1, OwedGoes DEF AnyPull
<1>2. CASE /\ Goto(g, [pc |-> "spawned", known |-> pull[g].known])
           /\ owed' = IF Awaited THEN owed \cup {g} ELSE owed
  <2>1. /\ pull'[g].pc = "spawned"
        /\ \A h \in Pulls \ {g} : pull'[h] = pull[h]
        /\ owed \subseteq Pulls
    BY <1>2 DEF Goto, TypeOK
  <2>2. mode = "clean" => owed' = owed
    BY <1>2 DEF Awaited, Uncancelled
  <2> QED
    BY <1>0, <1>2, <2>1, <2>2 DEF OwedIsUnderWay
<1> QED
  BY <1>1, <1>2 DEF start

\* Every step keeps it: a drain that reports success found none counted.
LEMMA OwedStep ==
  ASSUME TypeOK, OwedIsUnderWay, [Next]_vars
  PROVE  OwedIsUnderWay'
<1>1. ASSUME NEW g \in Pulls, lookup(g) PROVE OwedIsUnderWay'
  <2>1. [pc |-> "read", seen |-> row.state, known |-> row.expected] \in AnyPull
    BY <1>1 DEF lookup, AnyPull, Reading, TypeOK, Row
  <2> QED
    BY <1>1, <2>1, OwedGoes DEF lookup, At
<1>2. ASSUME NEW g \in Pulls, begin(g) PROVE OwedIsUnderWay'
  BY <1>2 DEF begin, settle, At, Goto, TypeOK, OwedIsUnderWay
<1>3. ASSUME NEW g \in Pulls, record(g) \/ failRecord(g) \/ release(g) PROVE OwedIsUnderWay'
  BY <1>3 DEF record, failRecord, release, settle, At, Goto, TypeOK, OwedIsUnderWay
<1>4. ASSUME NEW g \in Pulls, refuse(g) \/ cutoff(g) \/ finish(g) \/ copy(g) PROVE OwedIsUnderWay'
  <2>1. /\ owed' = owed /\ mode' = mode
        /\ \E q : Goto(g, q) /\ q.pc \in {"copy", "record"}
    <3>1. CASE refuse(g) \/ cutoff(g)
      BY <3>1 DEF refuse, cutoff, failed
    <3>2. CASE finish(g)
      BY <3>2 DEF finish, failed, published
    <3>3. CASE copy(g)
      <4>1. pull[g] \in Copying /\ Goto(g, [pull[g] EXCEPT !.n = @ + 1])
        BY <3>3, PullIn, PullType DEF copy, At
      <4>2. [pull[g] EXCEPT !.n = @ + 1].pc = "copy"
        BY <4>1 DEF Copying
      <4> QED
        BY <3>3, <4>1, <4>2 DEF copy
    <3> QED
      BY <1>4, <3>1, <3>2, <3>3
  <2> QED
    BY <2>1 DEF Goto, TypeOK, OwedIsUnderWay
<1>5. ASSUME NEW g \in Pulls, NEW of \in Versions, NEW stored \in BOOLEAN,
             NEW stated \in {0, Length[of]},
             \/ answerFresh(g, of, stated, stored)
             \/ answerResumed(g, of, stated, stored)
             \/ answerUnsatisfiable(g, of)
      PROVE  OwedIsUnderWay'
  <2>1. /\ owed' = owed /\ mode' = mode
        /\ \E q : Goto(g, q) /\ q.pc \in {"copy", "record"}
    BY <1>5 DEF answerFresh, answerResumed, answerUnsatisfiable, discardPartial, failed
  <2> QED
    BY <2>1 DEF Goto, TypeOK, OwedIsUnderWay
<1>6. CASE suspend \/ shutdown \/ cancelPulls \/ restart \/ UNCHANGED vars
  BY <1>6 DEF suspend, shutdown, cancelPulls, restart, vars, OwedIsUnderWay
<1>7. CASE drainPulls
  BY <1>7 DEF drainPulls, counted, TypeOK, OwedIsUnderWay
<1>8. CASE exit \/ kill
  BY <1>8 DEF exit, kill, gone, OwedIsUnderWay
<1>9. ASSUME NEW g \in Pulls, NEW of \in Versions, answerUnsatisfiable(g, of) PROVE OwedIsUnderWay'
  BY <1>5, <1>9
<1> QED
  BY <1>1, <1>2, <1>3, <1>4, <1>5, <1>6, <1>7, <1>8, <1>9, OwedStart, Cases

-----------------------------------------------------------------------------
(* The theorems *)

\* The invariant is inductive.
LEMMA Invariance == Spec => []IInv
<1>1. Init => IInv
  <2> SUFFICES ASSUME Init PROVE IInv
    OBVIOUS
  <2>1. \A g \in Pulls : pull[g] = Idle /\ pull[g].pc = "idle"
    BY DEF Init, Idle
  <2>2. partial = <<>> /\ row \in Row /\ row.received = 0
    BY DEF Init, Row
  <2>3. TypeOK
    <3>1. partial \in Seq(Byte)
      BY <2>2
    <3>2. pull \in [Pulls -> {Idle}]
      BY DEF Init
    <3>3. /\ pulling \in BOOLEAN /\ mode \in Modes /\ lost \in BOOLEAN
          /\ trust \in {"checked", "unchecked", "silent"} /\ owed \subseteq Pulls
      BY DEF Init, Modes
    <3> QED
      BY <2>2, <3>1, <3>2, <3>3 DEF TypeOK
  <2>4. GuardHolds /\ DiskAtRest
    BY <2>1 DEF GuardHolds, Active, DiskAtRest, At, Publishes
  <2>5. PartialIsPrefix /\ JudgedPartial /\ CountedWhenQuiet
    BY <2>2, DataAssumption DEF PartialIsPrefix, JudgedPartial, CountedWhenQuiet, Counted
  <2>6. \A g \in Pulls : Measured(pull[g]) /\ Judged(pull[g])
    BY <2>1 DEF Measured, Judged
  <2> QED
    BY <2>3, <2>4, <2>5, <2>6 DEF IInv
<1>2. IInv /\ [Next]_vars => IInv'
  <2> SUFFICES ASSUME IInv, [Next]_vars PROVE IInv'
    OBVIOUS
  <2>1. TypeOK'
    BY TypeStep DEF IInv
  <2>2. ASSUME NEW g \in Pulls, NEW of \in Versions, answerUnsatisfiable(g, of) PROVE Rest'
    BY <2>2, DiscardStep DEF answerUnsatisfiable, At
  <2>3. Rest'
    BY <2>2, Cases, QuietSteps, RefuseStep, FreshStep, ResumedStep, CopyStep, EndStep, RecordStep,
       ModeSteps, GoneSteps
  <2> QED
    BY <2>1, <2>3 DEF IInv, Rest
<1> QED
  BY <1>1, <1>2, PTL DEF Spec

\* So is what a stop waits for.
LEMMA OwedInvariance == Spec => []OwedIsUnderWay
<1>1. Init => OwedIsUnderWay
  BY DEF Init, OwedIsUnderWay
<1>2. IInv /\ OwedIsUnderWay /\ [Next]_vars => OwedIsUnderWay'
  BY OwedStep DEF IInv
<1> QED
  BY <1>1, <1>2, Invariance, PTL DEF Spec

\* The variables stay within their types.
THEOREM TypeCorrect == Spec => []TypeOK
<1>1. IInv => TypeOK
  BY DEF IInv
<1> QED
  BY <1>1, Invariance, PTL

\* No byte of the partial file is there twice or missing, over any starts, cuts
\* and restarts.
THEOREM PrefixKept == Spec => []PartialIsPrefix
<1>1. IInv => PartialIsPrefix
  BY DEF IInv
<1> QED
  BY <1>1, Invariance, PTL

\* The row's count is the size of the partial file between pulls, unless a
\* write or a stop lost it.
THEOREM CountKept == Spec => []CountIsTrue
<1>1. IInv => CountIsTrue
  <2> SUFFICES ASSUME IInv PROVE CountIsTrue
    OBVIOUS
  <2>1. \A g \in Pulls : Publishes(g) => pull[g].received = Len(pull[g].file)
    BY DEF IInv, Measured, Publishes, At
  <2> QED
    BY <2>1 DEF IInv, CountIsTrue, CountedWhenQuiet, Counted
<1> QED
  BY <1>1, Invariance, PTL

\* What is reported complete is as long as the provider said, if every answer
\* was judged by the length on record.
THEOREM CompletedKept == Spec => []CompletedIsWhole
<1>1. IInv => CompletedIsWhole
  BY DEF IInv, CompletedIsWhole, Judged, Publishes, At
<1> QED
  BY <1>1, Invariance, PTL

\* A drain that reported success has the outcome of every pull set off before it
\* reported, and left none that has touched the disk.
THEOREM DrainKept == Spec => []DrainIsComplete
<1>1. IInv /\ OwedIsUnderWay => DrainIsComplete
  BY DEF IInv, OwedIsUnderWay, DiskAtRest, DrainIsComplete
<1> QED
  BY <1>1, Invariance, OwedInvariance, PTL
=============================================================================
