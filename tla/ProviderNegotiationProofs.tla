----------------------- MODULE ProviderNegotiationProofs -----------------------
(***************************************************************************)
(* Proofs about ProviderNegotiation, for any number of negotiations,       *)
(* concurrent requests, participants and datasets.                         *)
(***************************************************************************)
EXTENDS ProviderNegotiation, TLAPS

\* A stored row holds a DSP state; a missing one holds none of them.
LEMMA RowShape ==
  ASSUME row \in [Neg -> {NoRow} \cup Row], NEW n \in Neg
  PROVE  /\ row[n].state \in States \cup {"NONE"}
         /\ row[n].state \in States => row[n] \in Row
         /\ Exists(n) <=> row[n].state \in States
BY DEF NoRow, Row, States, Exists

\* A state change keeps the shape of the table.
LEMMA SetStateType ==
  ASSUME row \in [Neg -> {NoRow} \cup Row], NEW n \in Neg,
         NEW from \in States, NEW to \in States
  PROVE  SetState(n, from, to) \in [Neg -> {NoRow} \cup Row]
BY RowShape DEF SetState, Holds, Row

\* What dispatch starts is a goroutine.
LEMMA DispatchType ==
  ASSUME NEW from \in States, NEW outcome \in Outcomes
  PROVE  dispatch(from, outcome) \in Task
<1>1. [NoTask EXCEPT !.pc = "done"] \in Task
  BY DEF NoTask, Task, Stages, States
<1>2. ASSUME NEW to \in States, NEW withdraw \in BOOLEAN
      PROVE  pushing(from, to, withdraw) \in Task
  BY DEF pushing, Task, Stages
<1>3. ("termination" \in outcome) \in BOOLEAN
  OBVIOUS
<1> QED BY <1>1, <1>2, <1>3 DEF dispatch, States

\* A goroutine that goes on to another stage is still a goroutine.
LEMMA StageType ==
  ASSUME task \in [Neg -> [TaskIds -> Task]], NEW n \in Neg, NEW k \in TaskIds, NEW pc \in Stages
  PROVE  [task EXCEPT ![n][k].pc = pc] \in [Neg -> [TaskIds -> Task]]
BY DEF Task

\* A goroutine that moves to another stage is a goroutine.
LEMMA StageOfTask ==
  ASSUME NEW t \in Task, NEW pc \in Stages
  PROVE  [t EXCEPT !.pc = pc] \in Task
BY DEF Task

\* The dispatch that falls asleep for its delayed termination, entry by entry.
FallsAsleep(n) ==
  task' = [task EXCEPT ![n]["request"].pc = "done", ![n]["withdraw"].pc = "sleep"]

LEMMA TwoStages ==
  ASSUME task \in [Neg -> [TaskIds -> Task]], NEW n \in Neg, FallsAsleep(n)
  PROVE  /\ task'[n]["request"] = [task[n]["request"] EXCEPT !.pc = "done"]
         /\ task'[n]["withdraw"] = [task[n]["withdraw"] EXCEPT !.pc = "sleep"]
         /\ \A m \in Neg, j \in TaskIds :
              m # n \/ j \notin {"request", "withdraw"} => task'[m][j] = task[m][j]
<1> DEFINE a == [task[n]["request"] EXCEPT !.pc = "done"]
           b == [task[n]["withdraw"] EXCEPT !.pc = "sleep"]
<1>1. task' = [task EXCEPT ![n] = [task[n] EXCEPT !["request"] = a, !["withdraw"] = b]]
  BY DEF FallsAsleep, TaskIds
<1> HIDE DEF a, b
<1>2. /\ task'[n] = [task[n] EXCEPT !["request"] = a, !["withdraw"] = b]
      /\ \A m \in Neg : m # n => task'[m] = task[m]
  BY <1>1
<1>3. /\ task'[n]["request"] = a
      /\ task'[n]["withdraw"] = b
      /\ \A j \in TaskIds : j \notin {"request", "withdraw"} => task'[n][j] = task[n][j]
  BY <1>2 DEF TaskIds
<1> QED BY <1>2, <1>3 DEF a, b

\* afterStore touches only the stages of the goroutines of one negotiation.
LEMMA AfterStoreType ==
  ASSUME task \in [Neg -> [TaskIds -> Task]], NEW n \in Neg, NEW k \in TaskIds
  PROVE  afterStore(n, k) \in [Neg -> [TaskIds -> Task]]
<1>1. [task EXCEPT ![n][k].pc = "done", ![n]["withdraw"].pc = "sleep"]
        \in [Neg -> [TaskIds -> Task]]
  BY DEF Task, Stages, TaskIds
<1> QED BY <1>1, StageType DEF afterStore, Stages

\* What the decisions ask for is a set of messages.
LEMMA DecisionType ==
  ASSUME NEW advertised \in BOOLEAN, NEW matches \in BOOLEAN, NEW valid \in BOOLEAN
  PROVE  /\ decideInitialRequest(advertised, matches, valid) \in Outcomes
         /\ decideAccept(advertised, valid) \in Outcomes
BY DEF decideInitialRequest, decideAccept, Outcomes

\* A request about to write holds a copy of a row.
LEMMA WriteShape ==
  ASSUME handler \in [Handlers -> {Idle} \cup Writing \cup Answered], NEW h \in Handlers,
         handler[h].pc = "write"
  PROVE  /\ handler[h] \in Writing
         /\ handler[h].neg \in Neg /\ handler[h].seen \in States
         /\ handler[h].op \in Ops /\ handler[h].same \in BOOLEAN
<1>1. handler[h] \in Writing
  BY DEF Idle, Answered
<1> QED BY <1>1 DEF Writing

\* Answering a request leaves the table of requests well-typed.
LEMMA ReplyType ==
  ASSUME handler \in [Handlers -> {Idle} \cup Writing \cup Answered],
         NEW h \in Handlers, NEW n \in Neg, NEW ok \in BOOLEAN, Reply(h, n, ok)
  PROVE  handler' \in [Handlers -> {Idle} \cup Writing \cup Answered]
BY DEF Reply, Answered

\* So does the check a request starts with.
LEMMA LookupType ==
  ASSUME TypeOK, NEW h \in Handlers, NEW n \in Neg, NEW who, NEW op \in Ops,
         NEW legal, NEW same \in BOOLEAN, lookup(h, n, who, op, legal, same)
  PROVE  TypeOK'
<1>1. row[n].state \in States
  BY RowShape DEF TypeOK, lookup
<1>2. handler' \in [Handlers -> {Idle} \cup Writing \cup Answered]
  <2>1. CASE who = row[n].party /\ legal
    <3>1. [pc |-> "write", op |-> op, neg |-> n, seen |-> row[n].state, same |-> same] \in Writing
      BY <1>1 DEF Writing
    <3> QED BY <2>1, <3>1 DEF TypeOK, lookup
  <2>2. CASE ~(who = row[n].party /\ legal)
    BY <2>2, ReplyType DEF TypeOK, lookup
  <2> QED BY <2>1, <2>2
<1> QED BY <1>2 DEF TypeOK, lookup

-----------------------------------------------------------------------------
(* Type correctness *)

\* Every step, of a handler, a goroutine or a fault, keeps the types.
LEMMA TypeStep == TypeOK /\ [Next]_vars => TypeOK'
<1> SUFFICES ASSUME TypeOK, [Next]_vars PROVE TypeOK'
  OBVIOUS
<1> USE DEF TypeOK
<1>1. ASSUME NEW h \in Handlers, NEW n \in Neg, NEW who \in Participants, NEW d \in Datasets,
             NEW matches \in BOOLEAN, handleContractRequest(h, n, d, matches, who)
      PROVE  TypeOK'
  <2>1. row' \in [Neg -> {NoRow} \cup Row]
    BY <1>1 DEF handleContractRequest, Row, States
  <2>2. task' \in [Neg -> [TaskIds -> Task]]
    <3>1. /\ (d \in Advertised) \in BOOLEAN
          /\ isValid(d) \in BOOLEAN
      BY DEF isValid
    <3>2. dispatch("REQUESTED", decideInitialRequest(d \in Advertised, matches, isValid(d))) \in Task
      BY <3>1, DecisionType, DispatchType DEF States
    <3> QED BY <1>1, <3>2 DEF handleContractRequest, TaskIds
  <2>3. handler' \in [Handlers -> {Idle} \cup Writing \cup Answered]
    BY <1>1, ReplyType DEF handleContractRequest
  <2> QED BY <1>1, <2>1, <2>2, <2>3 DEF handleContractRequest
<1>2. ASSUME NEW h \in Handlers, NEW n \in Neg, NEW who \in Participants,
             \/ \E same \in BOOLEAN : handleReRequest(h, n, who, same)
             \/ handleProviderAcceptedEvent(h, n, who)
             \/ handleVerification(h, n, who)
             \/ handleProviderTermination(h, n, who)
      PROVE  TypeOK'
  <2> HIDE DEF TypeOK
  <2>1. ASSUME NEW op \in Ops, NEW legal, NEW same \in BOOLEAN, lookup(h, n, who, op, legal, same)
        PROVE  TypeOK'
    BY <2>1, LookupType
  <2>2. CASE \E same \in BOOLEAN : handleReRequest(h, n, who, same)
    BY <2>1, <2>2 DEF handleReRequest, Ops
  <2>3. CASE handleProviderAcceptedEvent(h, n, who)
    BY <2>1, <2>3 DEF handleProviderAcceptedEvent, Ops
  <2>4. CASE handleVerification(h, n, who)
    BY <2>1, <2>4 DEF handleVerification, Ops
  <2>5. CASE handleProviderTermination(h, n, who)
    BY <2>1, <2>5 DEF handleProviderTermination, Ops
  <2> QED BY <1>2, <2>2, <2>3, <2>4, <2>5
<1>3. ASSUME NEW h \in Handlers, storeReRequest(h) PROVE TypeOK'
  <2> DEFINE n == handler[h].neg
  <2>1. n \in Neg /\ handler[h].seen \in States
    BY <1>3, WriteShape DEF storeReRequest, AtWrite
  <2>2. row' \in [Neg -> {NoRow} \cup Row]
    <3>1. [row[n] EXCEPT !.rerequested = TRUE] \in {NoRow} \cup Row
      <4>1. CASE row[n] \in Row
        BY <4>1 DEF Row
      <4>2. CASE row[n] = NoRow
        BY <4>2 DEF NoRow
      <4> QED BY <2>1, <4>1, <4>2
    <3> QED BY <1>3, <2>1, <3>1 DEF storeReRequest
  <2>3. task' \in [Neg -> [TaskIds -> Task]]
    <3>1. pushing(handler[h].seen, "TERMINATED", FALSE) \in Task
      BY <2>1 DEF pushing, Task, Stages, States
    <3>2. CASE row[n].rerequested \/ handler[h].same
      BY <1>3, <3>2 DEF storeReRequest
    <3>3. CASE ~row[n].rerequested /\ ~handler[h].same
      <4>1. task' = [task EXCEPT ![n]["walkaway"] = pushing(handler[h].seen, "TERMINATED", FALSE)]
        BY <1>3, <3>3 DEF storeReRequest
      <4> QED BY <2>1, <3>1, <4>1 DEF TaskIds
    <3> QED BY <3>2, <3>3
  <2>4. handler' \in [Handlers -> {Idle} \cup Writing \cup Answered]
    BY <1>3, <2>1, ReplyType DEF storeReRequest
  <2> QED BY <1>3, <2>2, <2>3, <2>4 DEF storeReRequest
<1>4. ASSUME NEW h \in Handlers, storeAccepted(h) PROVE TypeOK'
  <2> DEFINE n == handler[h].neg
             d == row[n].dataset
  <2>1. n \in Neg /\ handler[h].seen \in States
    BY <1>4, WriteShape DEF storeAccepted, AtWrite
  <2>2. row' \in [Neg -> {NoRow} \cup Row]
    BY <1>4, <2>1, SetStateType DEF storeAccepted, States
  <2>3. task' \in [Neg -> [TaskIds -> Task]]
    <3>1. /\ (d \in Advertised) \in BOOLEAN
          /\ isValid(d) \in BOOLEAN
      BY DEF isValid
    <3>2. dispatch("ACCEPTED", decideAccept(d \in Advertised, isValid(d))) \in Task
      BY <3>1, DecisionType, DispatchType DEF States
    <3> QED BY <1>4, <2>1, <3>2 DEF storeAccepted, TaskIds
  <2>4. handler' \in [Handlers -> {Idle} \cup Writing \cup Answered]
    BY <1>4, <2>1, ReplyType DEF storeAccepted, Holds
  <2> QED BY <1>4, <2>2, <2>3, <2>4 DEF storeAccepted
<1>5. ASSUME NEW h \in Handlers, storeVerified(h) PROVE TypeOK'
  <2> DEFINE n == handler[h].neg
             to == IF row[n].dataset \in TerminateOnVerify THEN "TERMINATED" ELSE "FINALIZED"
  <2>1. n \in Neg /\ handler[h].seen \in States
    BY <1>5, WriteShape DEF storeVerified, AtWrite
  <2>2. row' \in [Neg -> {NoRow} \cup Row]
    BY <1>5, <2>1, SetStateType DEF storeVerified, States
  <2>3. task' \in [Neg -> [TaskIds -> Task]]
    <3>1. pushing("VERIFIED", to, FALSE) \in Task
      BY DEF pushing, Task, Stages, States
    <3> QED BY <1>5, <2>1, <3>1 DEF storeVerified, TaskIds
  <2>4. handler' \in [Handlers -> {Idle} \cup Writing \cup Answered]
    BY <1>5, <2>1, ReplyType DEF storeVerified, Holds
  <2> QED BY <1>5, <2>2, <2>3, <2>4 DEF storeVerified
<1>6. ASSUME NEW h \in Handlers, storeTermination(h) PROVE TypeOK'
  <2> DEFINE n == handler[h].neg
  <2>1. n \in Neg /\ handler[h].seen \in States
    BY <1>6, WriteShape DEF storeTermination, AtWrite
  <2>2. row' \in [Neg -> {NoRow} \cup Row]
    BY <1>6, <2>1, SetStateType DEF storeTermination, States
  <2>3. handler' \in [Handlers -> {Idle} \cup Writing \cup Answered]
    BY <1>6, <2>1, ReplyType DEF storeTermination, Holds
  <2> QED BY <1>6, <2>2, <2>3 DEF storeTermination
<1>7. ASSUME NEW h \in Handlers, return(h) PROVE TypeOK'
  BY <1>7 DEF return
<1>8. ASSUME NEW n \in Neg, NEW k \in TaskIds, endPush(n, k) PROVE TypeOK'
  BY <1>8, StageType DEF endPush, Stages
<1>9. ASSUME NEW n \in Neg, NEW k \in TaskIds, pushAndStore(n, k) PROVE TypeOK'
  <2>1. task[n][k].from \in States /\ task[n][k].to \in States
    BY DEF Task
  <2> QED BY <1>9, <2>1, SetStateType, AfterStoreType DEF pushAndStore
<1>10. ASSUME NEW n \in Neg, delayedTerminate(n) PROVE TypeOK'
  <2>1. pushing("OFFERED", "TERMINATED", FALSE) \in Task
    BY DEF pushing, Task, Stages, States
  <2>2. task' \in [Neg -> [TaskIds -> Task]]
    <3>1. task[n]["withdraw"] \in Task /\ "done" \in Stages
      BY DEF Stages, TaskIds
    <3>2. [task[n]["withdraw"] EXCEPT !.pc = "done"] \in Task
      BY <3>1, StageOfTask
    <3> QED BY <1>10, <2>1, <3>2 DEF delayedTerminate, TaskIds
  <2> QED BY <1>10, <2>2 DEF delayedTerminate
<1>11. ASSUME NEW n \in Neg, NEW k \in TaskIds, CreateAgreementIfNegotiationAgreed(n, k)
       PROVE  TypeOK'
  <2>1. agreements' \subseteq Agreement
    BY <1>11, RowShape DEF CreateAgreementIfNegotiationAgreed, IssuedStates, States, Agreement, Row
  <2>2. task' \in [Neg -> [TaskIds -> Task]]
    BY <1>11, StageType DEF CreateAgreementIfNegotiationAgreed, Stages
  <2> QED BY <1>11, <2>1, <2>2 DEF CreateAgreementIfNegotiationAgreed
<1>12. ASSUME NEW d \in Limited, expire(d) PROVE TypeOK'
  BY <1>12 DEF expire
<1>13. ASSUME NEW h \in Handlers, failWrite(h) PROVE TypeOK'
  BY <1>13, WriteShape, ReplyType DEF failWrite
<1>14. ASSUME NEW n \in Neg, NEW k \in TaskIds, failStore(n, k) PROVE TypeOK'
  BY <1>14, AfterStoreType DEF failStore
<1>15. ASSUME NEW n \in Neg, NEW k \in TaskIds, failTask(n, k) PROVE TypeOK'
  BY <1>15, StageType DEF failTask, Stages
<1>16. ASSUME crash PROVE TypeOK'
  <2>1. ASSUME NEW n \in Neg, NEW k \in TaskIds
        PROVE  [task[n][k] EXCEPT !.pc = "done"] \in Task
    <3>1. task[n][k] \in Task /\ "done" \in Stages
      BY DEF Stages
    <3> QED BY <3>1, StageOfTask
  <2>2. task' \in [Neg -> [TaskIds -> Task]]
    BY <1>16, <2>1 DEF crash
  <2> QED BY <1>16, <2>2 DEF crash
<1>17. ASSUME UNCHANGED vars PROVE TypeOK'
  BY <1>17 DEF vars
<1> QED BY <1>1, <1>2, <1>3, <1>4, <1>5, <1>6, <1>7, <1>8, <1>9, <1>10, <1>11, <1>12, <1>13,
           <1>14, <1>15, <1>16, <1>17
        DEF Next, Work, Fault, Request, Serve, Run

\* Every variable keeps its type, whatever requests arrive and however the
\* handlers and goroutines interleave, fail or crash.
THEOREM TypeCorrect == Spec => []TypeOK
<1>1. Init => TypeOK
  BY DEF Init, TypeOK, NoTask, Task, Stages, States
<1> QED BY <1>1, TypeStep, PTL DEF Spec
-----------------------------------------------------------------------------
(* The inductive invariant *)

Offered(n) == row[n].dataset \in Advertised /\ ~task[n]["request"].withdraw

\* Why only offered datasets are contracted: the informational counter-offer is
\* made for a dataset that has expired, for good, and each step towards an
\* agreement was decided on a dataset still offered.
OfferTracked(n) ==
  /\ task[n]["request"].withdraw => row[n].dataset \in expired
  /\ \A k \in TaskIds :
       /\ task[n][k].pc = "none" => task[n][k].to # "AGREED"
       /\ task[n][k].to = "AGREED" => Offered(n)
  /\ row[n].state \in IssuedStates => Offered(n)
  /\ \A a \in agreements : a.id = n => Offered(n)

OffersAreTracked == \A n \in Neg : OfferTracked(n)

IInv == TypeOK /\ InFlightIsLegal /\ OffersAreTracked /\ AgreementMatchesNegotiation

\* How one step may change a row: it appears, or it keeps what was agreed on
\* and makes at most one legal transition.
RowMoves(n) ==
  \/ row'[n] = row[n]
  \/ ~Exists(n) /\ row'[n] \in Row /\ row'[n].state = "REQUESTED"
  \/ /\ row[n] \in Row /\ row'[n] \in Row
     /\ row'[n].dataset = row[n].dataset /\ row'[n].party = row[n].party
     /\ row[n].rerequested => row'[n].rerequested
     /\ row'[n].state = row[n].state \/ <<row[n].state, row'[n].state>> \in Contract!Legal

\* The transitions only go forward.
LEMMA LegalIsForward ==
  ASSUME NEW s \in States, NEW t \in States, <<s, t>> \in Contract!Legal,
         NEW x \in States, s \in Past(x)
  PROVE  t \in Past(x)
BY DEF Contract!Legal, Contract!States, Contract!Terminal, States, Past, IssuedStates

\* What may follow a state is a set of states.
LEMMA PastRange ==
  ASSUME NEW x \in States
  PROVE  x \in Past(x) /\ Past(x) \subseteq States
BY DEF Past, States, IssuedStates

\* A conditional state write is a legal transition if its states are one.
LEMMA SetStateMoves ==
  ASSUME TypeOK, NEW n \in Neg, NEW from \in States, NEW to \in States,
         <<from, to>> \in Contract!Legal, row' = SetState(n, from, to)
  PROVE  \A m \in Neg : RowMoves(m)
<1>1. CASE Holds(n, from)
  <2>1. row[n] \in Row /\ row[n].state = from
    BY <1>1, RowShape DEF TypeOK, Holds
  <2>2. row'[n] = [row[n] EXCEPT !.state = to]
    BY <1>1 DEF TypeOK, SetState
  <2>3. \A m \in Neg \ {n} : row'[m] = row[m]
    BY <1>1 DEF TypeOK, SetState
  <2>4. RowMoves(n)
    BY <2>1, <2>2 DEF RowMoves, Row
  <2> QED BY <2>3, <2>4 DEF RowMoves
<1>2. CASE ~Holds(n, from)
  BY <1>2 DEF SetState, RowMoves
<1> QED BY <1>1, <1>2

\* The row of a request about to write exists, and has a state after the one seen.
LEMMA WriteLegal ==
  ASSUME TypeOK, InFlightIsLegal, NEW h \in Handlers, NEW op \in Ops, AtWrite(h, op)
  PROVE  /\ handler[h].neg \in Neg
         /\ handler[h].seen \in States
         /\ handler[h].seen \in SeenBy[op]
         /\ row[handler[h].neg] \in Row
         /\ row[handler[h].neg].state \in Past(handler[h].seen)
<1>1. handler[h].pc = "write" /\ handler[h].op = op
  BY DEF AtWrite
<1>2. handler[h].neg \in Neg /\ handler[h].seen \in States
  BY <1>1, WriteShape DEF TypeOK
<1>3. handler[h].seen \in SeenBy[op] /\ row[handler[h].neg].state \in Past(handler[h].seen)
  BY <1>1 DEF InFlightIsLegal
<1> QED BY <1>2, <1>3, PastRange, RowShape DEF TypeOK

\* A goroutine about to store is about to make a legal transition.
LEMMA PlanLegal ==
  ASSUME TypeOK, InFlightIsLegal, NEW n \in Neg, NEW k \in TaskIds,
         task[n][k].pc \in {"push", "store", "record"}
  PROVE  /\ task[n][k].from \in States /\ task[n][k].to \in States
         /\ <<task[n][k].from, task[n][k].to>> \in Contract!Legal
<1>1. <<task[n][k].from, task[n][k].to>> \in Plans[k]
  BY DEF InFlightIsLegal
<1>2. Plans[k] \subseteq Contract!Legal
  BY DEF Plans, TaskIds, Contract!Legal, Contract!States, Contract!Terminal
<1>3. task[n][k].from \in States /\ task[n][k].to \in States
  BY DEF TypeOK, Task
<1> QED BY <1>1, <1>2, <1>3

\* A lookup leaves the tables alone.
LEMMA LookupFrame ==
  ASSUME NEW h \in Handlers, NEW n \in Neg, NEW who \in Participants,
         \/ \E same \in BOOLEAN : handleReRequest(h, n, who, same)
         \/ handleProviderAcceptedEvent(h, n, who)
         \/ handleVerification(h, n, who)
         \/ handleProviderTermination(h, n, who)
  PROVE  UNCHANGED <<row, agreements, expired, task>>
BY DEF handleReRequest, handleProviderAcceptedEvent, handleVerification,
   handleProviderTermination, lookup

\* A step either leaves a row alone, creates it, or takes it one legal
\* transition further: the conditional writes let nothing else through.
LEMMA RowStep ==
  ASSUME TypeOK, InFlightIsLegal, [Next]_vars
  PROVE  \A n \in Neg : RowMoves(n)
<1> USE DEF Ops, States
<1>1. ASSUME NEW h \in Handlers, NEW n \in Neg, NEW who \in Participants, NEW d \in Datasets,
             NEW matches \in BOOLEAN, handleContractRequest(h, n, d, matches, who)
      PROVE  \A m \in Neg : RowMoves(m)
  BY <1>1 DEF handleContractRequest, RowMoves, TypeOK, Row
<1>2. ASSUME UNCHANGED row PROVE \A m \in Neg : RowMoves(m)
  BY <1>2 DEF RowMoves
<1>3. ASSUME NEW h \in Handlers, storeReRequest(h) PROVE \A m \in Neg : RowMoves(m)
  <2>1. handler[h].neg \in Neg /\ row[handler[h].neg] \in Row
    BY <1>3, WriteLegal DEF storeReRequest
  <2>2. \/ row' = row
        \/ row' = [row EXCEPT ![handler[h].neg].rerequested = TRUE]
    BY <1>3 DEF storeReRequest
  <2>3. [row[handler[h].neg] EXCEPT !.rerequested = TRUE] \in Row
    BY <2>1 DEF Row
  <2>4. CASE row' = row
    BY <2>4 DEF RowMoves
  <2>5. CASE row' = [row EXCEPT ![handler[h].neg].rerequested = TRUE]
    <3>1. \A m \in Neg \ {handler[h].neg} : row'[m] = row[m]
      BY <2>5 DEF TypeOK
    <3>2. RowMoves(handler[h].neg)
      BY <2>1, <2>3, <2>5 DEF RowMoves, TypeOK, Row
    <3> QED BY <3>1, <3>2 DEF RowMoves
  <2> QED BY <2>2, <2>4, <2>5
<1>4. ASSUME NEW h \in Handlers, storeAccepted(h) PROVE \A m \in Neg : RowMoves(m)
  <2>1. handler[h].neg \in Neg /\ handler[h].seen = "OFFERED"
    BY <1>4, WriteLegal DEF storeAccepted, SeenBy
  <2>2. <<"OFFERED", "ACCEPTED">> \in Contract!Legal
    BY DEF Contract!Legal
  <2> QED BY <1>4, <2>1, <2>2, SetStateMoves DEF storeAccepted
<1>5. ASSUME NEW h \in Handlers, storeVerified(h) PROVE \A m \in Neg : RowMoves(m)
  <2>1. handler[h].neg \in Neg /\ handler[h].seen = "AGREED"
    BY <1>5, WriteLegal DEF storeVerified, SeenBy
  <2>2. <<"AGREED", "VERIFIED">> \in Contract!Legal
    BY DEF Contract!Legal
  <2> QED BY <1>5, <2>1, <2>2, SetStateMoves DEF storeVerified
<1>6. ASSUME NEW h \in Handlers, storeTermination(h) PROVE \A m \in Neg : RowMoves(m)
  <2>1. handler[h].neg \in Neg /\ handler[h].seen \in States \ Terminal
    BY <1>6, WriteLegal DEF storeTermination, SeenBy
  <2>2. <<handler[h].seen, "TERMINATED">> \in Contract!Legal
    BY <2>1 DEF Contract!Legal, Contract!States, Contract!Terminal, Terminal
  <2> QED BY <1>6, <2>1, <2>2, SetStateMoves DEF storeTermination
<1>7. ASSUME NEW n \in Neg, NEW k \in TaskIds, pushAndStore(n, k)
      PROVE  \A m \in Neg : RowMoves(m)
  <2>1. /\ task[n][k].from \in States /\ task[n][k].to \in States
        /\ <<task[n][k].from, task[n][k].to>> \in Contract!Legal
    BY <1>7, PlanLegal DEF pushAndStore
  <2> QED BY <1>7, <2>1, SetStateMoves DEF pushAndStore
<1> QED
  BY <1>1, <1>2, <1>3, <1>4, <1>5, <1>6, <1>7, LookupFrame
  DEF Next, Work, Fault, Request, Serve, Run, return, endPush, delayedTerminate,
      CreateAgreementIfNegotiationAgreed, expire, failWrite, failStore, failTask, crash, vars
-----------------------------------------------------------------------------
(* What is in flight stays legal *)

\* The parts of InFlightIsLegal: a negotiation, one of its goroutines, a request.
NegotiationLegal(n) ==
  /\ Exists(n) <=> task[n]["request"].pc # "none"
  /\ task[n]["walkaway"].pc # "none" => row[n].rerequested
  /\ task[n]["withdraw"].pc # "none" => task[n]["request"].pc = "done"

GoroutineLegal(n, k) ==
  /\ task[n][k].pc # "none" => row[n].state \in Past(StartedFrom[k])
  /\ task[n][k].pc \in {"push", "store", "record"} =>
       <<task[n][k].from, task[n][k].to>> \in Plans[k]
  /\ task[n][k].pc = "sleep" => k = "withdraw"
  /\ task[n][k].withdraw => k = "request" /\ task[n][k].to = "OFFERED"

RequestLegal(h) ==
  handler[h].pc = "write" =>
    /\ handler[h].seen \in SeenBy[handler[h].op]
    /\ row[handler[h].neg].state \in Past(handler[h].seen)

\* InFlightIsLegal, one part per kind of actor.
LEMMA InFlightParts ==
  InFlightIsLegal <=> /\ \A n \in Neg : NegotiationLegal(n) /\ \A k \in TaskIds : GoroutineLegal(n, k)
                      /\ \A h \in Handlers : RequestLegal(h)
BY DEF InFlightIsLegal, NegotiationLegal, GoroutineLegal, RequestLegal

\* A row that moves stays past every state it was past, and keeps its flag.
LEMMA MovesForward ==
  ASSUME TypeOK, NEW n \in Neg, RowMoves(n), NEW x \in States
  PROVE  /\ row[n].state \in Past(x) => row'[n].state \in Past(x)
         /\ row[n] \in Row => row'[n] \in Row /\ (row[n].rerequested => row'[n].rerequested)
         /\ Exists(n) => Exists(n)'
<1>1. CASE row'[n] = row[n]
  BY <1>1 DEF Exists
<1>2. CASE ~Exists(n) /\ row'[n] \in Row /\ row'[n].state = "REQUESTED"
  BY <1>2, RowShape, PastRange DEF TypeOK, Exists, NoRow, Row, States
<1>3. CASE /\ row[n] \in Row /\ row'[n] \in Row
           /\ row[n].rerequested => row'[n].rerequested
           /\ row'[n].state = row[n].state \/ <<row[n].state, row'[n].state>> \in Contract!Legal
  <2>1. row[n].state \in States /\ row'[n].state \in States
    BY <1>3 DEF Row
  <2>2. Exists(n)'
    BY <2>1 DEF Exists, NoRow, States
  <2> QED BY <1>3, <2>1, <2>2, LegalIsForward
<1> QED BY <1>1, <1>2, <1>3 DEF RowMoves

\* Requests in flight stay legal, whatever the step.
LEMMA RequestsStep ==
  ASSUME TypeOK, InFlightIsLegal, [Next]_vars, NEW g \in Handlers
  PROVE  RequestLegal(g)'
<1>1. \A n \in Neg : RowMoves(n)
  BY RowStep
<1>2. CASE handler'[g] = handler[g]
  <2>1. ASSUME handler[g].pc = "write"
        PROVE  row'[handler[g].neg].state \in Past(handler[g].seen)
    BY <1>1, <2>1, WriteShape, MovesForward DEF TypeOK, InFlightIsLegal
  <2> QED BY <1>2, <2>1 DEF RequestLegal, InFlightIsLegal
<1>3. CASE handler'[g].pc # "write"
  BY <1>3 DEF RequestLegal
<1>4. ASSUME NEW n \in Neg, NEW who \in Participants, NEW same \in BOOLEAN, NEW op \in Ops, NEW legal,
             lookup(g, n, who, op, legal, same), legal <=> row[n].state \in SeenBy[op]
      PROVE  RequestLegal(g)'
  <2>1. row[n].state \in States
    BY <1>4, RowShape DEF TypeOK, lookup
  <2>2. CASE who = row[n].party /\ legal
    <3>1. /\ handler'[g] = [pc |-> "write", op |-> op, neg |-> n, seen |-> row[n].state, same |-> same]
          /\ row' = row
      BY <1>4, <2>2 DEF lookup, TypeOK
    <3> QED BY <1>4, <2>1, <2>2, <3>1, PastRange DEF RequestLegal
  <2>3. CASE ~(who = row[n].party /\ legal)
    BY <1>4, <2>3 DEF lookup, Reply, TypeOK, RequestLegal
  <2> QED BY <2>2, <2>3
<1>5. ASSUME NEW h \in Handlers, NEW n \in Neg, NEW who \in Participants,
             \/ \E same \in BOOLEAN : handleReRequest(h, n, who, same)
             \/ handleProviderAcceptedEvent(h, n, who)
             \/ handleVerification(h, n, who)
             \/ handleProviderTermination(h, n, who)
      PROVE  RequestLegal(g)'
  <2>1. CASE h # g
    <3>1. handler'[g] = handler[g]
      BY <1>5, <2>1 DEF handleReRequest, handleProviderAcceptedEvent, handleVerification,
         handleProviderTermination, lookup, Reply, TypeOK
    <3> QED BY <1>2, <3>1
  <2>2. CASE h = g
    <3>1. row[n].state \in States
      BY <1>5, RowShape DEF TypeOK, handleReRequest, handleProviderAcceptedEvent, handleVerification,
         handleProviderTermination, lookup
    <3>2. /\ row[n].state = "OFFERED" <=> row[n].state \in SeenBy["reRequest"]
          /\ row[n].state = "OFFERED" <=> row[n].state \in SeenBy["accepted"]
          /\ row[n].state = "AGREED" <=> row[n].state \in SeenBy["verification"]
          /\ row[n].state \notin Terminal <=> row[n].state \in SeenBy["termination"]
      BY <3>1 DEF SeenBy
    <3>3. CASE \E same \in BOOLEAN : handleReRequest(h, n, who, same)
      BY <1>4, <2>2, <3>2, <3>3 DEF handleReRequest, Ops
    <3>4. CASE handleProviderAcceptedEvent(h, n, who)
      BY <1>4, <2>2, <3>2, <3>4 DEF handleProviderAcceptedEvent, Ops
    <3>5. CASE handleVerification(h, n, who)
      BY <1>4, <2>2, <3>2, <3>5 DEF handleVerification, Ops
    <3>6. CASE handleProviderTermination(h, n, who)
      BY <1>4, <2>2, <3>2, <3>6 DEF handleProviderTermination, Ops
    <3> QED BY <1>5, <3>3, <3>4, <3>5, <3>6
  <2> QED BY <2>1, <2>2
<1>6. ASSUME NEW h \in Handlers, NEW n, NEW ok, Reply(h, n, ok)
      PROVE  handler'[g] = handler[g] \/ handler'[g].pc # "write"
  BY <1>6 DEF Reply, TypeOK
<1>7. ASSUME NEW h \in Handlers,
             \/ \E n \in Neg, who \in Participants, d \in Datasets, matches \in BOOLEAN :
                  handleContractRequest(h, n, d, matches, who)
             \/ storeReRequest(h) \/ storeAccepted(h) \/ storeVerified(h) \/ storeTermination(h)
             \/ failWrite(h)
      PROVE  RequestLegal(g)'
  BY <1>2, <1>3, <1>6, <1>7 DEF handleContractRequest, storeReRequest, storeAccepted, storeVerified,
     storeTermination, failWrite
<1>8. ASSUME NEW h \in Handlers, return(h) PROVE RequestLegal(g)'
  BY <1>2, <1>3, <1>8 DEF return, TypeOK, Idle
<1>9. ASSUME crash PROVE RequestLegal(g)'
  BY <1>3, <1>9 DEF crash, Idle
<1> QED
  BY <1>2, <1>5, <1>7, <1>8, <1>9
  DEF Next, Work, Fault, Request, Serve, Run, endPush, pushAndStore, delayedTerminate,
      CreateAgreementIfNegotiationAgreed, expire, failStore, failTask, vars

\* What the decision on an acceptance makes of a new goroutine.
LEMMA AcceptDispatch ==
  ASSUME NEW advertised \in BOOLEAN, NEW valid \in BOOLEAN,
         NEW t, t = dispatch("ACCEPTED", decideAccept(advertised, valid))
  PROVE  /\ t.pc = "push" /\ t.withdraw = FALSE
         /\ <<t.from, t.to>> \in Plans["accepted"]
         /\ t.to = "AGREED" => advertised /\ valid
<1>1. CASE advertised /\ valid
  <2>1. decideAccept(advertised, valid) = {"agreement"}
    BY <1>1 DEF decideAccept
  <2>2. t = pushing("ACCEPTED", "AGREED", FALSE)
    BY <2>1 DEF dispatch
  <2>3. t.pc = "push" /\ t.from = "ACCEPTED" /\ t.to = "AGREED" /\ t.withdraw = FALSE
    BY <2>2 DEF pushing
  <2> QED BY <1>1, <2>3 DEF Plans
<1>2. CASE ~(advertised /\ valid)
  <2>1. decideAccept(advertised, valid) = {"termination"}
    BY <1>2 DEF decideAccept
  <2>2. t = pushing("ACCEPTED", "TERMINATED", FALSE)
    BY <2>1 DEF dispatch
  <2>3. t.pc = "push" /\ t.from = "ACCEPTED" /\ t.to = "TERMINATED" /\ t.withdraw = FALSE
    BY <2>2 DEF pushing
  <2> QED BY <2>3 DEF Plans
<1> QED BY <1>1, <1>2

\* What the decision on a new request makes of a new goroutine.
LEMMA RequestDispatch ==
  ASSUME NEW d \in Datasets, NEW matches \in BOOLEAN,
         NEW t,
         t = dispatch("REQUESTED", decideInitialRequest(d \in Advertised, matches, isValid(d)))
  PROVE  /\ t.pc \in {"push", "done"}
         /\ t.pc = "push" => <<t.from, t.to>> \in Plans["request"]
         /\ t.to = "AGREED" => d \in Advertised /\ matches /\ t.withdraw = FALSE
         /\ t.withdraw => t.to = "OFFERED" /\ ~isValid(d)
         /\ d \in Advertised => t.pc = "push"
<1> DEFINE o == decideInitialRequest(d \in Advertised, matches, isValid(d))
<1>1. /\ o = {} <=> d \notin Advertised
      /\ "offer" \in o <=> d \in Advertised /\ ~matches
      /\ "agreement" \in o <=> d \in Advertised /\ matches /\ isValid(d)
      /\ "termination" \in o <=> d \in Advertised /\ ~isValid(d)
  <2>1. CASE d \in Advertised /\ matches /\ isValid(d)
    BY <2>1 DEF decideInitialRequest
  <2>2. CASE d \in Advertised /\ matches /\ ~isValid(d)
    BY <2>2 DEF decideInitialRequest
  <2>3. CASE d \in Advertised /\ ~matches
    BY <2>3 DEF decideInitialRequest
  <2>4. CASE d \notin Advertised
    BY <2>4 DEF decideInitialRequest
  <2> QED BY <2>1, <2>2, <2>3, <2>4
<1> HIDE DEF o
<1>2. t = dispatch("REQUESTED", o)
  BY DEF o
<1>3. CASE d \notin Advertised
  <2>1. t = [NoTask EXCEPT !.pc = "done"]
    BY <1>1, <1>2, <1>3 DEF dispatch
  <2> QED BY <1>3, <2>1 DEF NoTask
<1>4. CASE d \in Advertised /\ ~matches
  <2>1. t = pushing("REQUESTED", "OFFERED", "termination" \in o)
    BY <1>1, <1>2, <1>4 DEF dispatch
  <2>2. /\ t.pc = "push" /\ t.from = "REQUESTED" /\ t.to = "OFFERED"
        /\ t.withdraw = ("termination" \in o)
    BY <2>1 DEF pushing
  <2>3. t.withdraw => ~isValid(d)
    BY <1>1, <2>2
  <2> QED BY <2>2, <2>3 DEF Plans
<1>5. CASE d \in Advertised /\ matches /\ isValid(d)
  <2>1. t = pushing("REQUESTED", "AGREED", FALSE)
    BY <1>1, <1>2, <1>5 DEF dispatch
  <2>2. t.pc = "push" /\ t.from = "REQUESTED" /\ t.to = "AGREED" /\ t.withdraw = FALSE
    BY <2>1 DEF pushing
  <2> QED BY <1>5, <2>2 DEF Plans
<1>6. CASE d \in Advertised /\ matches /\ ~isValid(d)
  <2>1. t = pushing("REQUESTED", "TERMINATED", FALSE)
    BY <1>1, <1>2, <1>6 DEF dispatch
  <2>2. t.pc = "push" /\ t.from = "REQUESTED" /\ t.to = "TERMINATED" /\ t.withdraw = FALSE
    BY <2>1 DEF pushing
  <2> QED BY <2>2 DEF Plans
<1> QED BY <1>3, <1>4, <1>5, <1>6

\* A negotiation and a goroutine, as far as they depend on the rows: what they
\* need of a step to stay legal.
LEMMA GoroutineKept ==
  ASSUME TypeOK, NEW n \in Neg, NEW k \in TaskIds, RowMoves(n), GoroutineLegal(n, k),
         task'[n][k] = task[n][k]
  PROVE  GoroutineLegal(n, k)'
<1>1. StartedFrom[k] \in States
  BY DEF StartedFrom, TaskIds, States
<1> QED BY <1>1, MovesForward DEF GoroutineLegal

\* A legal goroutine that only changes stage stays legal.
LEMMA GoroutineGoesOn ==
  ASSUME TypeOK, NEW n \in Neg, NEW k \in TaskIds, RowMoves(n), GoroutineLegal(n, k),
         NEW pc \in {"store", "record", "done"},
         task[n][k].pc \in {"push", "store", "record"} \/ (pc = "done" /\ task[n][k].pc # "none"),
         task'[n][k] = [task[n][k] EXCEPT !.pc = pc]
  PROVE  GoroutineLegal(n, k)'
<1>1. StartedFrom[k] \in States
  BY DEF StartedFrom, TaskIds, States
<1>2. /\ task'[n][k].pc = pc
      /\ task'[n][k].from = task[n][k].from
      /\ task'[n][k].to = task[n][k].to
      /\ task'[n][k].withdraw = task[n][k].withdraw
  BY DEF TypeOK, Task
<1> QED BY <1>1, <1>2, MovesForward DEF GoroutineLegal

\* A negotiation whose goroutines do not change stays legal when its row
\* moves forward.
LEMMA NegotiationKept ==
  ASSUME TypeOK, NEW n \in Neg, RowMoves(n), NegotiationLegal(n), Exists(n)' <=> Exists(n),
         task'[n]["request"].pc # "none" <=> task[n]["request"].pc # "none",
         task[n]["request"].pc = "done" => task'[n]["request"].pc = "done",
         task'[n]["walkaway"].pc # "none" => task[n]["walkaway"].pc # "none" \/ row'[n].rerequested,
         task'[n]["withdraw"].pc # "none" =>
           task[n]["withdraw"].pc # "none" \/ task'[n]["request"].pc = "done"
  PROVE  NegotiationLegal(n)'
<1>1. task[n]["walkaway"].pc # "none" => row'[n].rerequested
  <2>1. CASE row'[n] = row[n]
    BY <2>1 DEF NegotiationLegal
  <2>2. CASE row[n] \in Row
    BY <2>2, MovesForward, RowShape DEF NegotiationLegal, States
  <2>3. ~(~Exists(n) /\ row'[n].state = "REQUESTED")
    BY DEF Exists, NoRow
  <2> QED BY <2>1, <2>2, <2>3 DEF RowMoves
<1> QED BY <1>1 DEF NegotiationLegal

\* A conditional write neither creates nor removes a row.
LEMMA SetStateExists ==
  ASSUME TypeOK, NEW n \in Neg, NEW from \in States, NEW to \in States,
         row' = SetState(n, from, to)
  PROVE  \A m \in Neg : Exists(m)' <=> Exists(m)
<1>1. CASE Holds(n, from)
  <2>1. row[n].state = from /\ row[n] \in Row
    BY <1>1, RowShape DEF TypeOK, Holds
  <2>2. row' = [row EXCEPT ![n].state = to]
    BY <1>1 DEF SetState
  <2>3. row'[n].state = to
    BY <2>1, <2>2 DEF TypeOK, Row
  <2>4. Exists(n) /\ Exists(n)'
    BY <2>1, <2>3 DEF Exists, NoRow, States
  <2>5. \A m \in Neg \ {n} : row'[m] = row[m]
    BY <2>2 DEF TypeOK
  <2> QED BY <2>4, <2>5 DEF Exists
<1>2. CASE ~Holds(n, from)
  BY <1>2 DEF SetState, Exists
<1> QED BY <1>1, <1>2

\* One goroutine goes on to another stage.
LEMMA StageStep ==
  ASSUME TypeOK, InFlightIsLegal, \A m \in Neg : RowMoves(m) /\ (Exists(m)' <=> Exists(m)),
         NEW n \in Neg, NEW k \in TaskIds, NEW pc \in {"store", "record", "done"},
         \/ task[n][k].pc \in {"push", "store", "record"}
         \/ pc = "done" /\ task[n][k].pc = "sleep",
         task' = [task EXCEPT ![n][k].pc = pc]
  PROVE  \A m \in Neg : NegotiationLegal(m)' /\ \A j \in TaskIds : GoroutineLegal(m, j)'
<1> SUFFICES ASSUME NEW m \in Neg
             PROVE  NegotiationLegal(m)' /\ \A j \in TaskIds : GoroutineLegal(m, j)'
  OBVIOUS
<1>1. NegotiationLegal(m) /\ \A j \in TaskIds : GoroutineLegal(m, j)
  BY InFlightParts
<1>2. \A j \in TaskIds : m # n \/ j # k => task'[m][j] = task[m][j]
  BY DEF TypeOK
<1>3. task'[n][k] = [task[n][k] EXCEPT !.pc = pc] /\ task'[n][k].pc = pc
  BY DEF TypeOK, Task
<1>4. ASSUME NEW j \in TaskIds PROVE GoroutineLegal(m, j)'
  <2>1. CASE m # n \/ j # k
    BY <1>1, <1>2, <2>1, GoroutineKept
  <2>2. CASE m = n /\ j = k
    BY <1>1, <1>3, <2>2, GoroutineGoesOn
  <2> QED BY <2>1, <2>2
<1>5. \A j \in TaskIds :
        /\ task'[m][j].pc # "none" <=> task[m][j].pc # "none"
        /\ task[m][j].pc = "done" => task'[m][j].pc = "done"
  <2> SUFFICES ASSUME NEW j \in TaskIds
               PROVE  /\ task'[m][j].pc # "none" <=> task[m][j].pc # "none"
                      /\ task[m][j].pc = "done" => task'[m][j].pc = "done"
    OBVIOUS
  <2>1. CASE m # n \/ j # k
    BY <1>2, <2>1
  <2>2. CASE m = n /\ j = k
    BY <1>3, <2>2
  <2> QED BY <2>1, <2>2
<1>6. NegotiationLegal(m)'
  BY <1>1, <1>5, NegotiationKept DEF TaskIds
<1> QED BY <1>4, <1>6

\* One goroutine starts, from nothing or from its sleep.
LEMMA StartStep ==
  ASSUME TypeOK, InFlightIsLegal, \A m \in Neg : RowMoves(m) /\ (Exists(m)' <=> Exists(m)),
         NEW n \in Neg, NEW k \in TaskIds \ {"request"}, NEW t \in Task,
         t.pc \in {"push", "done"}, ~t.withdraw,
         t.pc = "push" => <<t.from, t.to>> \in Plans[k],
         row'[n].state \in Past(StartedFrom[k]),
         k = "walkaway" => row'[n].rerequested,
         k = "withdraw" => task[n][k].pc # "none",
         task' = [task EXCEPT ![n][k] = t]
  PROVE  \A m \in Neg : NegotiationLegal(m)' /\ \A j \in TaskIds : GoroutineLegal(m, j)'
<1> SUFFICES ASSUME NEW m \in Neg
             PROVE  NegotiationLegal(m)' /\ \A j \in TaskIds : GoroutineLegal(m, j)'
  OBVIOUS
<1>1. NegotiationLegal(m) /\ \A j \in TaskIds : GoroutineLegal(m, j)
  BY InFlightParts
<1>2. \A j \in TaskIds : m # n \/ j # k => task'[m][j] = task[m][j]
  BY DEF TypeOK
<1>3. task'[n][k] = t
  BY DEF TypeOK
<1>4. ASSUME NEW j \in TaskIds PROVE GoroutineLegal(m, j)'
  <2>1. CASE m # n \/ j # k
    BY <1>1, <1>2, <2>1, GoroutineKept
  <2>2. CASE m = n /\ j = k
    BY <1>3, <2>2 DEF GoroutineLegal
  <2> QED BY <2>1, <2>2
<1>5. task'[m]["request"] = task[m]["request"]
  BY <1>2 DEF TaskIds
<1>6. task'[m]["walkaway"].pc # "none" => task[m]["walkaway"].pc # "none" \/ row'[m].rerequested
  BY <1>2, <1>3 DEF TaskIds
<1>7. task'[m]["withdraw"].pc # "none" => task[m]["withdraw"].pc # "none"
  BY <1>2, <1>3 DEF TaskIds
<1> QED BY <1>1, <1>4, <1>5, <1>6, <1>7, NegotiationKept

\* What pushAndStore leaves to dispatch: the goroutine ends, goes on to record
\* the agreement, or ends having started the withdrawal of its offer.
LEMMA AfterStoreStep ==
  ASSUME TypeOK, InFlightIsLegal, \A m \in Neg : RowMoves(m) /\ (Exists(m)' <=> Exists(m)),
         NEW n \in Neg, NEW k \in TaskIds, task[n][k].pc = "store", task' = afterStore(n, k)
  PROVE  \A m \in Neg : NegotiationLegal(m)' /\ \A j \in TaskIds : GoroutineLegal(m, j)'
<1>1. CASE \/ task' = [task EXCEPT ![n][k].pc = "record"]
           \/ task' = [task EXCEPT ![n][k].pc = "done"]
  <2>1. PICK pc \in {"record", "done"} : task' = [task EXCEPT ![n][k].pc = pc]
    BY <1>1
  <2> QED BY <2>1, StageStep
<1>2. CASE /\ task[n][k].withdraw
           /\ task' = [task EXCEPT ![n][k].pc = "done", ![n]["withdraw"].pc = "sleep"]
  <2> SUFFICES ASSUME NEW m \in Neg
               PROVE  NegotiationLegal(m)' /\ \A j \in TaskIds : GoroutineLegal(m, j)'
    OBVIOUS
  <2>1. NegotiationLegal(m) /\ \A j \in TaskIds : GoroutineLegal(m, j)
    BY InFlightParts
  <2>2. k = "request" /\ Exists(n)
    BY <1>2, InFlightParts DEF GoroutineLegal, NegotiationLegal
  <2>3. /\ task'[n]["request"] = [task[n]["request"] EXCEPT !.pc = "done"]
        /\ task'[n]["withdraw"] = [task[n]["withdraw"] EXCEPT !.pc = "sleep"]
        /\ \A j \in TaskIds : m # n \/ j \notin {"request", "withdraw"} => task'[m][j] = task[m][j]
    <3>1. FallsAsleep(n)
      BY <1>2, <2>2 DEF FallsAsleep
    <3> QED BY <3>1, TwoStages DEF TypeOK
  <2>4. ASSUME NEW j \in TaskIds, m # n \/ j \notin {"request", "withdraw"}
        PROVE  GoroutineLegal(m, j)'
    BY <2>1, <2>3, <2>4, GoroutineKept
  <2>5. GoroutineLegal(n, "request")'
    BY <2>2, <2>3, InFlightParts, GoroutineGoesOn DEF TaskIds
  <2>6. GoroutineLegal(n, "withdraw")'
    <3>1. row'[n].state \in States
      <4>1. row'[n] \in {NoRow} \cup Row
        BY DEF RowMoves, TypeOK
      <4> QED BY <2>2, <4>1 DEF Exists, Row
    <3>2. /\ task'[n]["withdraw"].pc = "sleep"
          /\ task'[n]["withdraw"].withdraw = task[n]["withdraw"].withdraw
          /\ task'[n]["withdraw"].to = task[n]["withdraw"].to
      BY <2>3 DEF TypeOK, Task, TaskIds
    <3>3. GoroutineLegal(n, "withdraw")
      BY InFlightParts DEF TaskIds
    <3> QED BY <3>1, <3>2, <3>3 DEF GoroutineLegal, StartedFrom, Past
  <2>7. NegotiationLegal(m)'
    <3>1. task'[n]["request"].pc = "done" /\ task[n]["request"].pc = "store"
      BY <2>2, <2>3 DEF TypeOK, Task, TaskIds
    <3>2. task'[m]["walkaway"] = task[m]["walkaway"]
      BY <2>3 DEF TaskIds
    <3>3. m # n => task'[m]["request"] = task[m]["request"] /\ task'[m]["withdraw"] = task[m]["withdraw"]
      BY <2>3 DEF TaskIds
    <3> QED BY <2>1, <3>1, <3>2, <3>3, NegotiationKept
  <2> QED BY <2>4, <2>5, <2>6, <2>7
<1> QED BY <1>1, <1>2 DEF afterStore

\* Goroutines in flight stay legal, whatever the step.
LEMMA GoroutinesStep ==
  ASSUME TypeOK, InFlightIsLegal, [Next]_vars
  PROVE  \A m \in Neg : NegotiationLegal(m)' /\ \A j \in TaskIds : GoroutineLegal(m, j)'
<1> DEFINE Goal == \A m \in Neg : NegotiationLegal(m)' /\ \A j \in TaskIds : GoroutineLegal(m, j)'
<1> HIDE DEF Goal
<1>1. \A m \in Neg : RowMoves(m)
  BY RowStep
<1>2. ASSUME UNCHANGED <<row, task>> PROVE Goal
  <2>1. \A m \in Neg : NegotiationLegal(m) /\ \A j \in TaskIds : GoroutineLegal(m, j)
    BY InFlightParts
  <2> QED BY <1>2, <2>1 DEF Goal, NegotiationLegal, GoroutineLegal, Exists
<1>3. ASSUME UNCHANGED row PROVE \A m \in Neg : RowMoves(m) /\ (Exists(m)' <=> Exists(m))
  BY <1>1, <1>3 DEF Exists
<1>4. ASSUME NEW h \in Handlers, NEW n \in Neg, NEW who \in Participants, NEW d \in Datasets,
             NEW matches \in BOOLEAN, handleContractRequest(h, n, d, matches, who)
      PROVE  Goal
  <2> SUFFICES ASSUME NEW m \in Neg
               PROVE  NegotiationLegal(m)' /\ \A j \in TaskIds : GoroutineLegal(m, j)'
    BY DEF Goal
  <2>1. NegotiationLegal(m) /\ \A j \in TaskIds : GoroutineLegal(m, j)
    BY InFlightParts
  <2>2. \A j \in TaskIds : m # n \/ j # "request" => task'[m][j] = task[m][j]
    BY <1>4 DEF handleContractRequest, TypeOK
  <2>3. ASSUME NEW j \in TaskIds, m # n \/ j # "request" PROVE GoroutineLegal(m, j)'
    BY <1>1, <2>1, <2>2, <2>3, GoroutineKept
  <2>4. row'[n].state = "REQUESTED" /\ row'[n] # NoRow
    BY <1>4 DEF handleContractRequest, TypeOK, NoRow
  <2>5. /\ task'[n]["request"].pc \in {"push", "done"}
        /\ task'[n]["request"].pc = "push" =>
             <<task'[n]["request"].from, task'[n]["request"].to>> \in Plans["request"]
        /\ task'[n]["request"].withdraw => task'[n]["request"].to = "OFFERED"
    <3>1. PICK t : t = dispatch("REQUESTED",
                                decideInitialRequest(d \in Advertised, matches, isValid(d)))
      OBVIOUS
    <3>2. task'[n]["request"] = t
      BY <1>4, <3>1 DEF handleContractRequest, TypeOK, TaskIds
    <3> QED BY <3>1, <3>2, RequestDispatch
  <2>6. GoroutineLegal(n, "request")'
    BY <2>4, <2>5 DEF GoroutineLegal, StartedFrom, Past, States
  <2>7. NegotiationLegal(m)'
    <3>1. CASE m # n
      <4>1. row'[m] = row[m]
        BY <1>4, <3>1 DEF handleContractRequest, TypeOK
      <4> QED BY <2>1, <2>2, <3>1, <4>1 DEF NegotiationLegal, Exists, TaskIds
    <3>2. CASE m = n
      <4>1. task[n]["request"].pc = "none" /\ task[n]["withdraw"].pc = "none"
        BY <1>4, <2>1, <3>2 DEF handleContractRequest, NegotiationLegal
      <4>2. task[n]["walkaway"].pc = "none"
        <5>1. row[n].state = "NONE"
          BY <1>4 DEF handleContractRequest, Exists, NoRow
        <5>2. GoroutineLegal(n, "walkaway")
          BY <2>1, <3>2 DEF TaskIds
        <5> QED BY <5>1, <5>2 DEF GoroutineLegal, StartedFrom, Past, States
      <4> QED BY <2>2, <2>4, <2>5, <3>2, <4>1, <4>2 DEF NegotiationLegal, Exists, TaskIds
    <3> QED BY <3>1, <3>2
  <2> QED BY <2>3, <2>6, <2>7
<1>5. ASSUME NEW h \in Handlers, storeReRequest(h) PROVE Goal
  <2> DEFINE n == handler[h].neg
             t == pushing(handler[h].seen, "TERMINATED", FALSE)
  <2>1. /\ n \in Neg /\ handler[h].seen = "OFFERED" /\ row[n] \in Row
        /\ row[n].state \in Past("OFFERED")
    BY <1>5, WriteLegal DEF storeReRequest, SeenBy, Ops
  <2>2. CASE row[n].rerequested
    BY <1>2, <1>5, <2>2 DEF storeReRequest
  <2>3. CASE ~row[n].rerequested
    <3>1. row' = [row EXCEPT ![n].rerequested = TRUE]
      BY <1>5, <2>3 DEF storeReRequest
    <3>2. row'[n].rerequested /\ row'[n].state = row[n].state /\ row'[n] \in Row
      <4>1. row'[n] = [row[n] EXCEPT !.rerequested = TRUE]
        BY <2>1, <3>1 DEF TypeOK
      <4> QED BY <2>1, <4>1 DEF Row
    <3>3. \A m \in Neg : Exists(m)' <=> Exists(m)
      <4>1. row[n] # NoRow /\ row'[n] # NoRow
        BY <2>1, <3>2 DEF NoRow, Row, States
      <4>2. \A m \in Neg \ {n} : row'[m] = row[m]
        BY <3>1 DEF TypeOK
      <4> QED BY <4>1, <4>2 DEF Exists
    <3>4. CASE handler[h].same
      <4>1. task' = task
        BY <1>5, <2>3, <3>4 DEF storeReRequest
      <4>2. \A m \in Neg : NegotiationLegal(m) /\ \A j \in TaskIds : GoroutineLegal(m, j)
        BY InFlightParts
      <4> QED BY <1>1, <3>3, <4>1, <4>2, GoroutineKept, NegotiationKept DEF Goal
    <3>5. CASE ~handler[h].same
      <4>1. task' = [task EXCEPT ![n]["walkaway"] = t]
        BY <1>5, <2>3, <3>5 DEF storeReRequest
      <4>2. /\ t \in Task /\ t.pc = "push" /\ t.withdraw = FALSE
            /\ t.from = "OFFERED" /\ t.to = "TERMINATED"
        BY <2>1 DEF pushing, Task, Stages, States
      <4> HIDE DEF t
      <4>3. row'[n].state \in Past("OFFERED")
        BY <2>1, <3>2
      <4> QED BY <1>1, <2>1, <3>2, <3>3, <4>1, <4>2, <4>3, StartStep
              DEF Goal, StartedFrom, Plans, TaskIds
    <3> QED BY <3>4, <3>5
  <2> QED BY <2>2, <2>3
<1>6. ASSUME NEW h \in Handlers, storeAccepted(h) PROVE Goal
  <2> DEFINE n == handler[h].neg
             d == row[n].dataset
             t == dispatch("ACCEPTED", decideAccept(d \in Advertised, isValid(d)))
  <2>1. n \in Neg /\ handler[h].seen = "OFFERED"
    BY <1>6, WriteLegal DEF storeAccepted, SeenBy, Ops
  <2>2. row' = SetState(n, "OFFERED", "ACCEPTED")
    BY <1>6, <2>1 DEF storeAccepted
  <2>3. CASE ~Holds(n, "OFFERED")
    BY <1>2, <1>6, <2>1, <2>2, <2>3 DEF storeAccepted, SetState
  <2>4. CASE Holds(n, "OFFERED")
    <3>1. task' = [task EXCEPT ![n]["accepted"] = t]
      BY <1>6, <2>1, <2>4 DEF storeAccepted
    <3>2. (d \in Advertised) \in BOOLEAN /\ isValid(d) \in BOOLEAN
      BY DEF isValid
    <3>3. t \in Task
      BY <3>2, DecisionType, DispatchType DEF States
    <3>4. t.pc = "push" /\ t.withdraw = FALSE /\ <<t.from, t.to>> \in Plans["accepted"]
      BY <3>2, AcceptDispatch
    <3> HIDE DEF t
    <3>5. row'[n].state \in Past("ACCEPTED")
      <4>1. row[n] \in Row
        BY <2>1, <2>4, RowShape DEF TypeOK, Holds, States
      <4> QED BY <2>1, <2>2, <2>4, <4>1 DEF SetState, TypeOK, Row, Past, States
    <3>6. \A m \in Neg : Exists(m)' <=> Exists(m)
      BY <2>1, <2>2, SetStateExists DEF States
    <3>7. row'[n].state \in Past(StartedFrom["accepted"])
      BY <3>5 DEF StartedFrom
    <3>8. "accepted" \in TaskIds \ {"request"}
      BY DEF TaskIds
    <3>9. \A m \in Neg : RowMoves(m) /\ (Exists(m)' <=> Exists(m))
      BY <1>1, <3>6
    <3> HIDE DEF n
    <3> QED BY <2>1, <3>1, <3>3, <3>4, <3>7, <3>8, <3>9, StartStep DEF Goal
  <2> QED BY <2>3, <2>4
<1>7. ASSUME NEW h \in Handlers, storeVerified(h) PROVE Goal
  <2> DEFINE n == handler[h].neg
             to == IF row[n].dataset \in TerminateOnVerify THEN "TERMINATED" ELSE "FINALIZED"
             t == pushing("VERIFIED", to, FALSE)
  <2>1. n \in Neg /\ handler[h].seen = "AGREED"
    BY <1>7, WriteLegal DEF storeVerified, SeenBy, Ops
  <2>2. row' = SetState(n, "AGREED", "VERIFIED")
    BY <1>7, <2>1 DEF storeVerified
  <2>3. CASE ~Holds(n, "AGREED")
    BY <1>2, <1>7, <2>1, <2>2, <2>3 DEF storeVerified, SetState
  <2>4. CASE Holds(n, "AGREED")
    <3>1. task' = [task EXCEPT ![n]["verified"] = t]
      BY <1>7, <2>1, <2>4 DEF storeVerified
    <3>2. to \in {"TERMINATED", "FINALIZED"}
      OBVIOUS
    <3> HIDE DEF to
    <3>3. /\ t \in Task /\ t.pc = "push" /\ t.withdraw = FALSE
          /\ t.from = "VERIFIED" /\ t.to = to
      BY <3>2 DEF pushing, Task, Stages, States
    <3> HIDE DEF t
    <3>4. <<t.from, t.to>> \in Plans["verified"]
      BY <3>2, <3>3 DEF Plans
    <3>5. row'[n].state \in Past("VERIFIED")
      <4>1. row[n] \in Row
        BY <2>1, <2>4, RowShape DEF TypeOK, Holds, States
      <4> QED BY <2>1, <2>2, <2>4, <4>1 DEF SetState, TypeOK, Row, Past, States
    <3>6. \A m \in Neg : Exists(m)' <=> Exists(m)
      BY <2>1, <2>2, SetStateExists DEF States
    <3>7. row'[n].state \in Past(StartedFrom["verified"])
      BY <3>5 DEF StartedFrom
    <3>8. "verified" \in TaskIds \ {"request"}
      BY DEF TaskIds
    <3>9. \A m \in Neg : RowMoves(m) /\ (Exists(m)' <=> Exists(m))
      BY <1>1, <3>6
    <3> HIDE DEF n
    <3> QED BY <2>1, <3>1, <3>3, <3>4, <3>7, <3>8, <3>9, StartStep DEF Goal
  <2> QED BY <2>3, <2>4
<1>8. ASSUME NEW h \in Handlers, storeTermination(h) PROVE Goal
  <2>1. handler[h].neg \in Neg /\ handler[h].seen \in States
    BY <1>8, WriteLegal DEF storeTermination, Ops
  <2>2. \A m \in Neg : Exists(m)' <=> Exists(m)
    BY <1>8, <2>1, SetStateExists DEF storeTermination, States
  <2>3. \A m \in Neg : NegotiationLegal(m) /\ \A j \in TaskIds : GoroutineLegal(m, j)
    BY InFlightParts
  <2> QED BY <1>1, <1>8, <2>2, <2>3, GoroutineKept, NegotiationKept DEF Goal, storeTermination
<1>9. ASSUME NEW n \in Neg, NEW k \in TaskIds, endPush(n, k) PROVE Goal
  BY <1>3, <1>9, StageStep DEF endPush, Goal
<1>10. ASSUME NEW n \in Neg, NEW k \in TaskIds, pushAndStore(n, k) PROVE Goal
  <2>1. task[n][k].from \in States /\ task[n][k].to \in States
    BY DEF TypeOK, Task
  <2>2. \A m \in Neg : Exists(m)' <=> Exists(m)
    BY <1>10, <2>1, SetStateExists DEF pushAndStore
  <2> QED BY <1>1, <1>10, <2>2, AfterStoreStep DEF pushAndStore, Goal
<1>11. ASSUME NEW n \in Neg, delayedTerminate(n) PROVE Goal
  <2> DEFINE t == pushing("OFFERED", "TERMINATED", FALSE)
  <2>1. CASE row[n].state = "OFFERED"
    <3>1. task' = [task EXCEPT ![n]["withdraw"] = t]
      BY <1>11, <2>1 DEF delayedTerminate
    <3>2. /\ t \in Task /\ t.pc = "push" /\ t.withdraw = FALSE
          /\ t.from = "OFFERED" /\ t.to = "TERMINATED"
      BY DEF pushing, Task, Stages, States
    <3> HIDE DEF t
    <3>3. row'[n].state \in Past("REQUESTED")
      BY <1>11, <2>1 DEF delayedTerminate, Past, States
    <3>4. task[n]["withdraw"].pc # "none" /\ UNCHANGED row
      BY <1>11 DEF delayedTerminate
    <3> QED BY <1>3, <3>1, <3>2, <3>3, <3>4, StartStep DEF Goal, StartedFrom, Plans, TaskIds
  <2>2. CASE row[n].state # "OFFERED"
    <3>1. task' = [task EXCEPT ![n]["withdraw"].pc = "done"]
      BY <1>11, <2>2 DEF delayedTerminate
    <3> QED BY <1>3, <1>11, <3>1, StageStep DEF Goal, delayedTerminate, TaskIds
  <2> QED BY <2>1, <2>2
<1>12. ASSUME NEW n \in Neg, NEW k \in TaskIds, CreateAgreementIfNegotiationAgreed(n, k)
       PROVE  Goal
  BY <1>3, <1>12, StageStep DEF CreateAgreementIfNegotiationAgreed, Goal
<1>13. ASSUME NEW n \in Neg, NEW k \in TaskIds, failStore(n, k) PROVE Goal
  BY <1>3, <1>13, AfterStoreStep DEF failStore, Goal
<1>14. ASSUME NEW n \in Neg, NEW k \in TaskIds, failTask(n, k) PROVE Goal
  BY <1>3, <1>14, StageStep DEF failTask, Goal
<1>15. ASSUME crash PROVE Goal
  <2> SUFFICES ASSUME NEW m \in Neg
               PROVE  NegotiationLegal(m)' /\ \A j \in TaskIds : GoroutineLegal(m, j)'
    BY DEF Goal
  <2>1. NegotiationLegal(m) /\ \A j \in TaskIds : GoroutineLegal(m, j)
    BY InFlightParts
  <2>2. ASSUME NEW j \in TaskIds
        PROVE  /\ GoroutineLegal(m, j)'
               /\ task'[m][j].pc # "none" <=> task[m][j].pc # "none"
               /\ task'[m][j].pc \in {"none", "done"}
    <3>1. CASE task[m][j].pc = "none"
      <4>1. task'[m][j] = task[m][j]
        BY <1>15, <3>1 DEF crash
      <4> QED BY <1>1, <2>1, <3>1, <4>1, GoroutineKept
    <3>2. CASE task[m][j].pc # "none"
      <4>1. task'[m][j] = [task[m][j] EXCEPT !.pc = "done"]
        BY <1>15, <3>2 DEF crash
      <4>2. GoroutineLegal(m, j)'
        BY <1>1, <2>1, <3>2, <4>1, GoroutineGoesOn
      <4>3. task'[m][j].pc = "done"
        BY <4>1 DEF TypeOK, Task
      <4> QED BY <3>2, <4>2, <4>3
    <3> QED BY <3>1, <3>2
  <2>3. NegotiationLegal(m)'
    <3>1. UNCHANGED row
      BY <1>15 DEF crash
    <3> QED BY <2>1, <2>2, <3>1 DEF NegotiationLegal, Exists, TaskIds
  <2> QED BY <2>2, <2>3
<1>16. Goal
  BY <1>2, <1>4, <1>5, <1>6, <1>7, <1>8, <1>9, <1>10, <1>11, <1>12, <1>13, <1>14, <1>15, LookupFrame
  DEF Next, Work, Fault, Request, Serve, Run, return, expire, failWrite, vars
<1> QED BY <1>16 DEF Goal

\* Requests and goroutines together.
LEMMA InFlightStep ==
  ASSUME TypeOK, InFlightIsLegal, [Next]_vars
  PROVE  InFlightIsLegal'
<1>1. \A m \in Neg : NegotiationLegal(m)' /\ \A j \in TaskIds : GoroutineLegal(m, j)'
  BY GoroutinesStep
<1>2. \A h \in Handlers : RequestLegal(h)'
  BY RequestsStep
<1> QED BY <1>1, <1>2 DEF InFlightIsLegal, NegotiationLegal, GoroutineLegal, RequestLegal

-----------------------------------------------------------------------------
(* Only offered datasets are contracted *)

\* The goroutines of a negotiation gain no agreement to push.
TasksKept(n) ==
  /\ task'[n]["request"].withdraw = task[n]["request"].withdraw
  /\ \A k \in TaskIds :
       /\ task'[n][k].pc = "none" => task'[n][k] = task[n][k]
       /\ task'[n][k].to = "AGREED" => task[n][k].to = "AGREED" \/ Offered(n)

\* What a step that leaves the offer itself alone may add to it.
LEMMA OfferKept ==
  ASSUME NEW n \in Neg, OfferTracked(n),
         expired \subseteq expired',
         row'[n].dataset = row[n].dataset, TasksKept(n),
         row'[n].state \in IssuedStates => row[n].state \in IssuedStates \/ Offered(n),
         \A a \in agreements' : a.id = n => a \in agreements \/ Offered(n)
  PROVE  OfferTracked(n)'
BY DEF OfferTracked, Offered, TasksKept

\* What SetState changes, seen from any negotiation.
LEMMA SetStateEffect ==
  ASSUME TypeOK, NEW n \in Neg, NEW from \in States, NEW to \in States,
         row' = SetState(n, from, to), NEW m \in Neg
  PROVE  /\ row'[m].dataset = row[m].dataset
         /\ \/ row'[m].state = row[m].state
            \/ m = n /\ row[m].state = from /\ row'[m].state = to
<1>1. CASE m = n /\ Holds(n, from)
  <2>1. row[n] \in Row /\ row[n].state = from
    BY <1>1, RowShape DEF TypeOK, Holds
  <2>2. row'[n] = [row[n] EXCEPT !.state = to]
    BY <1>1 DEF TypeOK, SetState
  <2> QED BY <1>1, <2>1, <2>2 DEF Row
<1>2. CASE ~(m = n /\ Holds(n, from))
  <2>1. row'[m] = row[m]
    BY <1>2 DEF TypeOK, SetState
  <2> QED BY <2>1
<1> QED BY <1>1, <1>2

\* A change of stage keeps what the goroutine was started for.
LEMMA StageKeeps ==
  ASSUME TypeOK, NEW n \in Neg, NEW k \in TaskIds, NEW pc \in Stages \ {"none"},
         task' = [task EXCEPT ![n][k].pc = pc], NEW m \in Neg
  PROVE  TasksKept(m)
<1>1. \A j \in TaskIds : m # n \/ j # k => task'[m][j] = task[m][j]
  BY DEF TypeOK
<1>2. /\ task'[n][k].pc = pc
      /\ task'[n][k].to = task[n][k].to
      /\ task'[n][k].withdraw = task[n][k].withdraw
  BY DEF TypeOK, Task
<1>3. "request" \in TaskIds
  BY DEF TaskIds
<1> QED BY <1>1, <1>2, <1>3 DEF TasksKept

\* Starting another goroutine keeps it too.
LEMMA StartKeeps ==
  ASSUME TypeOK, NEW n \in Neg, NEW k \in TaskIds \ {"request"}, NEW t \in Task, t.pc # "none",
         task' = [task EXCEPT ![n][k] = t], t.to = "AGREED" => Offered(n), NEW m \in Neg
  PROVE  TasksKept(m)
<1>1. \A j \in TaskIds : m # n \/ j # k => task'[m][j] = task[m][j]
  BY DEF TypeOK
<1>2. task'[n][k] = t
  BY DEF TypeOK
<1>3. "request" \in TaskIds
  BY DEF TaskIds
<1> QED BY <1>1, <1>2, <1>3 DEF TasksKept

\* And so does what dispatch does after its write.
LEMMA AfterStoreKeeps ==
  ASSUME TypeOK, NEW n \in Neg, NEW k \in TaskIds, task' = afterStore(n, k), NEW m \in Neg,
         task[n][k].withdraw => k = "request"
  PROVE  TasksKept(m)
<1>1. CASE \/ task' = [task EXCEPT ![n][k].pc = "record"]
           \/ task' = [task EXCEPT ![n][k].pc = "done"]
  <2>1. PICK pc \in {"record", "done"} : task' = [task EXCEPT ![n][k].pc = pc]
    BY <1>1
  <2> QED BY <2>1, StageKeeps DEF Stages
<1>2. CASE /\ k = "request"
           /\ task' = [task EXCEPT ![n][k].pc = "done", ![n]["withdraw"].pc = "sleep"]
  <2>1. \A j \in TaskIds : m # n \/ j \notin {"request", "withdraw"} => task'[m][j] = task[m][j]
    BY <1>2 DEF TypeOK, TaskIds
  <2>2. /\ task'[n]["request"].pc = "done"
        /\ task'[n]["request"].to = task[n]["request"].to
        /\ task'[n]["request"].withdraw = task[n]["request"].withdraw
        /\ task'[n]["withdraw"].pc = "sleep"
        /\ task'[n]["withdraw"].to = task[n]["withdraw"].to
    <3>1. FallsAsleep(n)
      BY <1>2 DEF FallsAsleep
    <3>2. /\ task'[n]["request"] = [task[n]["request"] EXCEPT !.pc = "done"]
          /\ task'[n]["withdraw"] = [task[n]["withdraw"] EXCEPT !.pc = "sleep"]
      BY <3>1, TwoStages DEF TypeOK
    <3>3. task[n]["request"] \in Task /\ task[n]["withdraw"] \in Task
      BY DEF TypeOK, TaskIds
    <3> QED BY <3>2, <3>3 DEF Task
  <2>3. CASE m # n
    BY <2>1, <2>3 DEF TasksKept, TaskIds
  <2>4. CASE m = n
    BY <2>1, <2>2, <2>4 DEF TasksKept, TaskIds
  <2> QED BY <2>3, <2>4
<1> QED BY <1>1, <1>2 DEF afterStore

\* What is known of the offer of every negotiation stays known.
LEMMA OffersStep ==
  ASSUME IInv, [Next]_vars
  PROVE  OffersAreTracked'
<1> SUFFICES ASSUME NEW m \in Neg PROVE OfferTracked(m)'
  BY DEF OffersAreTracked
<1>1. TypeOK /\ InFlightIsLegal /\ OfferTracked(m)
  BY DEF IInv, OffersAreTracked
<1>2. ASSUME UNCHANGED <<row, agreements, task>>, expired \subseteq expired' PROVE OfferTracked(m)'
  BY <1>1, <1>2 DEF OfferTracked, Offered
<1>3. ASSUME UNCHANGED <<agreements, expired>>,
             row'[m].dataset = row[m].dataset, TasksKept(m),
             row'[m].state \in IssuedStates => row[m].state \in IssuedStates \/ Offered(m)
      PROVE  OfferTracked(m)'
  BY <1>1, <1>3, OfferKept
<1>4. ASSUME NEW h \in Handlers, NEW n \in Neg, NEW who \in Participants, NEW d \in Datasets,
             NEW matches \in BOOLEAN, handleContractRequest(h, n, d, matches, who)
      PROVE  OfferTracked(m)'
  <2>1. CASE m # n
    <3>1. row'[m] = row[m] /\ task'[m] = task[m]
      BY <1>1, <1>4, <2>1 DEF handleContractRequest, TypeOK
    <3> QED BY <1>1, <1>4, <3>1 DEF OfferTracked, Offered, handleContractRequest
  <2>2. CASE m = n
    <3>1. PICK t : t = dispatch("REQUESTED",
                                decideInitialRequest(d \in Advertised, matches, isValid(d)))
      OBVIOUS
    <3>2. /\ t.pc \in {"push", "done"}
          /\ t.to = "AGREED" => d \in Advertised /\ t.withdraw = FALSE
          /\ t.withdraw => ~isValid(d)
      BY <3>1, RequestDispatch
    <3>3. /\ task'[n]["request"] = t
          /\ \A k \in TaskIds \ {"request"} : task'[n][k] = task[n][k]
          /\ row'[n].dataset = d /\ row'[n].state = "REQUESTED"
          /\ expired' = expired /\ agreements' = agreements
      BY <1>1, <1>4, <3>1 DEF handleContractRequest, TypeOK, TaskIds
    <3>4. row[n].state = "NONE"
      BY <1>4 DEF handleContractRequest, Exists, NoRow
    <3>5. \A a \in agreements : a.id # n
      BY <3>4 DEF IInv, AgreementMatchesNegotiation, IssuedStates
    <3>6. ASSUME NEW k \in TaskIds \ {"request"} PROVE task[n][k].to # "AGREED"
      <4>1. StartedFrom[k] \in States
        BY DEF StartedFrom, TaskIds, States
      <4>2. task[n][k].pc = "none"
        BY <1>1, <3>4, <4>1, PastRange, InFlightParts DEF GoroutineLegal, States
      <4> QED BY <1>1, <2>2, <4>2 DEF OfferTracked
    <3>7. t.withdraw => d \in expired
      BY <3>2 DEF isValid
    <3>8. "REQUESTED" \notin IssuedStates
      BY DEF IssuedStates
    <3> QED BY <2>2, <3>2, <3>3, <3>5, <3>6, <3>7, <3>8 DEF OfferTracked, Offered
  <2> QED BY <2>1, <2>2
<1>5. ASSUME NEW h \in Handlers, storeReRequest(h) PROVE OfferTracked(m)'
  <2> DEFINE n == handler[h].neg
             t == pushing(handler[h].seen, "TERMINATED", FALSE)
  <2>1. n \in Neg /\ handler[h].seen \in States /\ row[n] \in Row
    BY <1>1, <1>5, WriteLegal DEF storeReRequest, Ops
  <2>2. row'[m].dataset = row[m].dataset /\ row'[m].state = row[m].state
    <3>1. CASE row' = row
      BY <3>1
    <3>2. CASE row' = [row EXCEPT ![n].rerequested = TRUE]
      <4>1. row'[n] = [row[n] EXCEPT !.rerequested = TRUE]
        BY <1>1, <2>1, <3>2 DEF TypeOK
      <4>2. m # n => row'[m] = row[m]
        BY <1>1, <3>2 DEF TypeOK
      <4>3. row'[n].dataset = row[n].dataset /\ row'[n].state = row[n].state
        BY <2>1, <4>1 DEF Row
      <4> HIDE DEF n
      <4> QED BY <4>2, <4>3
    <3> QED BY <1>5, <3>1, <3>2 DEF storeReRequest
  <2>3. t \in Task /\ t.pc # "none" /\ t.to # "AGREED"
    BY <2>1 DEF pushing, Task, Stages, States
  <2> HIDE DEF t
  <2>4. task' = task \/ task' = [task EXCEPT ![n]["walkaway"] = t]
    BY <1>5 DEF storeReRequest, t
  <2>5. TasksKept(m)
    BY <1>1, <2>1, <2>3, <2>4, StartKeeps DEF TasksKept, TaskIds
  <2> QED BY <1>3, <1>5, <2>2, <2>5 DEF storeReRequest
<1>6. ASSUME NEW h \in Handlers, storeAccepted(h) PROVE OfferTracked(m)'
  <2> DEFINE n == handler[h].neg
             d == row[n].dataset
             t == dispatch("ACCEPTED", decideAccept(d \in Advertised, isValid(d)))
  <2>1. n \in Neg /\ handler[h].seen \in States
    BY <1>1, <1>6, WriteLegal DEF storeAccepted, Ops
  <2>2. (d \in Advertised) \in BOOLEAN /\ isValid(d) \in BOOLEAN
    BY DEF isValid
  <2>3. /\ t \in Task
        /\ t.pc = "push" /\ t.to = "AGREED" => d \in Advertised /\ isValid(d)
    BY <2>2, DecisionType, DispatchType, AcceptDispatch DEF States
  <2>4. t.pc # "none" /\ (t.to = "AGREED" => Offered(n))
    <3>1. OfferTracked(n)
      BY <2>1 DEF IInv, OffersAreTracked
    <3>2. t.pc = "push"
      BY <2>2, AcceptDispatch
    <3> QED BY <2>3, <3>1, <3>2 DEF OfferTracked, Offered, isValid
  <2> HIDE DEF t
  <2>5. task' = task \/ task' = [task EXCEPT ![n]["accepted"] = t]
    BY <1>6 DEF storeAccepted, t
  <2>6. TasksKept(m)
    BY <1>1, <2>1, <2>3, <2>4, <2>5, StartKeeps DEF TasksKept, TaskIds
  <2>7. /\ row'[m].dataset = row[m].dataset
        /\ row'[m].state = row[m].state \/ row'[m].state = "ACCEPTED"
    <3>1. row' = SetState(n, handler[h].seen, "ACCEPTED") /\ "ACCEPTED" \in States
      BY <1>6 DEF storeAccepted, States
    <3> HIDE DEF n
    <3> QED BY <1>1, <2>1, <3>1, SetStateEffect
  <2> QED BY <1>3, <1>6, <2>6, <2>7 DEF storeAccepted, IssuedStates
<1>7. ASSUME NEW h \in Handlers, storeVerified(h) PROVE OfferTracked(m)'
  <2> DEFINE n == handler[h].neg
             to == IF row[n].dataset \in TerminateOnVerify THEN "TERMINATED" ELSE "FINALIZED"
             t == pushing("VERIFIED", to, FALSE)
  <2>1. n \in Neg /\ handler[h].seen = "AGREED"
    BY <1>1, <1>7, WriteLegal DEF storeVerified, SeenBy, Ops
  <2>2. t \in Task /\ t.pc # "none" /\ t.to # "AGREED"
    <3>1. to \in {"TERMINATED", "FINALIZED"}
      OBVIOUS
    <3> HIDE DEF to
    <3> QED BY <3>1 DEF pushing, Task, Stages, States
  <2> HIDE DEF t
  <2>3. task' = task \/ task' = [task EXCEPT ![n]["verified"] = t]
    BY <1>7 DEF storeVerified, t
  <2>4. TasksKept(m)
    <3>1. CASE task' = task
      BY <3>1 DEF TasksKept
    <3>2. CASE task' = [task EXCEPT ![n]["verified"] = t]
      <4>1. "verified" \in TaskIds \ {"request"}
        BY DEF TaskIds
      <4> HIDE DEF n
      <4> QED BY <1>1, <2>1, <2>2, <3>2, <4>1, StartKeeps
    <3> QED BY <2>3, <3>1, <3>2
  <2>5. /\ row'[m].dataset = row[m].dataset
        /\ row'[m].state = row[m].state \/ row[m].state = "AGREED"
    <3>1. row' = SetState(n, handler[h].seen, "VERIFIED")
      BY <1>7 DEF storeVerified
    <3>2. handler[h].seen \in States /\ "VERIFIED" \in States
      BY <2>1 DEF States
    <3> HIDE DEF n
    <3> QED BY <1>1, <2>1, <3>1, <3>2, SetStateEffect
  <2> QED BY <1>3, <1>7, <2>4, <2>5 DEF storeVerified, IssuedStates
<1>8. ASSUME NEW h \in Handlers, storeTermination(h) PROVE OfferTracked(m)'
  <2>1. handler[h].neg \in Neg /\ handler[h].seen \in States
    BY <1>1, <1>8, WriteLegal DEF storeTermination, Ops
  <2>2. /\ row'[m].dataset = row[m].dataset
        /\ row'[m].state = row[m].state \/ row'[m].state = "TERMINATED"
    <3>1. row' = SetState(handler[h].neg, handler[h].seen, "TERMINATED") /\ "TERMINATED" \in States
      BY <1>8 DEF storeTermination, States
    <3> QED BY <1>1, <2>1, <3>1, SetStateEffect
  <2>3. TasksKept(m)
    BY <1>8 DEF storeTermination, TasksKept
  <2> QED BY <1>3, <1>8, <2>2, <2>3 DEF storeTermination, IssuedStates
<1>9. ASSUME NEW n \in Neg, NEW k \in TaskIds, NEW pc \in Stages \ {"none"},
             task' = [task EXCEPT ![n][k].pc = pc], UNCHANGED <<row, agreements, expired>>
      PROVE  OfferTracked(m)'
  BY <1>1, <1>3, <1>9, StageKeeps
<1>10. ASSUME NEW n \in Neg, NEW k \in TaskIds, pushAndStore(n, k) PROVE OfferTracked(m)'
  <2>1. /\ task[n][k].from \in States /\ task[n][k].to \in States
        /\ <<task[n][k].from, task[n][k].to>> \in Plans[k]
        /\ task[n][k].withdraw => k = "request"
    BY <1>1, <1>10, PlanLegal, InFlightParts DEF pushAndStore, GoroutineLegal
  <2>2. TasksKept(m)
    BY <1>1, <1>10, <2>1, AfterStoreKeeps DEF pushAndStore
  <2>3. /\ row'[m].dataset = row[m].dataset
        /\ \/ row'[m].state = row[m].state
           \/ m = n /\ row[m].state = task[n][k].from /\ row'[m].state = task[n][k].to
    BY <1>1, <1>10, <2>1, SetStateEffect DEF pushAndStore
  <2>4. task[n][k].to = "AGREED" => Offered(n)
    BY DEF IInv, OffersAreTracked, OfferTracked
  <2>5. task[n][k].to \in IssuedStates => task[n][k].to = "AGREED" \/ task[n][k].from \in IssuedStates
    BY <2>1 DEF Plans, TaskIds, IssuedStates
  <2> QED BY <1>3, <1>10, <2>2, <2>3, <2>4, <2>5 DEF pushAndStore
<1>11. ASSUME NEW n \in Neg, delayedTerminate(n) PROVE OfferTracked(m)'
  <2> DEFINE t == pushing("OFFERED", "TERMINATED", FALSE)
  <2>1. t \in Task /\ t.pc # "none" /\ t.to # "AGREED"
    BY DEF pushing, Task, Stages, States
  <2> HIDE DEF t
  <2>2. \/ task' = [task EXCEPT ![n]["withdraw"] = t]
        \/ task' = [task EXCEPT ![n]["withdraw"].pc = "done"]
    BY <1>11 DEF delayedTerminate, t
  <2>3. TasksKept(m)
    <3>1. CASE task' = [task EXCEPT ![n]["withdraw"] = t]
      BY <1>1, <2>1, <3>1, StartKeeps DEF TaskIds
    <3>2. CASE task' = [task EXCEPT ![n]["withdraw"].pc = "done"]
      <4>1. "withdraw" \in TaskIds /\ "done" \in Stages \ {"none"}
        BY DEF TaskIds, Stages
      <4> QED BY <1>1, <3>2, <4>1, StageKeeps
    <3> QED BY <2>2, <3>1, <3>2
  <2> QED BY <1>3, <1>11, <2>3 DEF delayedTerminate
<1>12. ASSUME NEW n \in Neg, NEW k \in TaskIds, CreateAgreementIfNegotiationAgreed(n, k)
       PROVE  OfferTracked(m)'
  <2>1. TasksKept(m)
    BY <1>1, <1>12, StageKeeps DEF CreateAgreementIfNegotiationAgreed, Stages
  <2>2. \A a \in agreements' : a.id = m => a \in agreements \/ Offered(m)
    BY <1>1, <1>12 DEF CreateAgreementIfNegotiationAgreed, OfferTracked
  <2> QED BY <1>1, <1>12, <2>1, <2>2, OfferKept DEF CreateAgreementIfNegotiationAgreed
<1>13. ASSUME NEW n \in Neg, NEW k \in TaskIds, failStore(n, k) PROVE OfferTracked(m)'
  <2>1. task[n][k].withdraw => k = "request"
    BY <1>1, InFlightParts DEF GoroutineLegal
  <2>2. TasksKept(m)
    BY <1>1, <1>13, <2>1, AfterStoreKeeps DEF failStore
  <2> QED BY <1>3, <1>13, <2>2 DEF failStore
<1>14. ASSUME crash PROVE OfferTracked(m)'
  <2>1. ASSUME NEW k \in TaskIds
        PROVE  /\ task'[m][k].to = task[m][k].to
               /\ task'[m][k].withdraw = task[m][k].withdraw
               /\ task'[m][k].pc = "none" => task'[m][k] = task[m][k]
    <3>1. CASE task[m][k].pc = "none"
      BY <1>14, <3>1 DEF crash
    <3>2. CASE task[m][k].pc # "none"
      <4>1. task'[m][k] = [task[m][k] EXCEPT !.pc = "done"]
        BY <1>14, <3>2 DEF crash
      <4> QED BY <1>1, <4>1 DEF TypeOK, Task
    <3> QED BY <3>1, <3>2
  <2>2. TasksKept(m)
    BY SMTT(40), <2>1 DEF TasksKept, TaskIds
  <2> QED BY <1>3, <1>14, <2>2 DEF crash
<1> QED
  BY <1>2, <1>4, <1>5, <1>6, <1>7, <1>8, <1>9, <1>10, <1>11, <1>12, <1>13, <1>14, LookupFrame
  DEF Next, Work, Fault, Request, Serve, Run, return, endPush, expire, failWrite, failTask, vars, Stages
-----------------------------------------------------------------------------
(* The table of agreements follows the negotiations *)

\* An agreement is inserted by a negotiation whose row shows that one was issued.
LEMMA AgreementsGain ==
  ASSUME [Next]_vars
  PROVE  \/ agreements' = agreements
         \/ \E n \in Neg :
              /\ UNCHANGED row /\ row[n].state \in IssuedStates
              /\ \A a \in agreements : a.id # n
              /\ agreements' = agreements \cup
                   {[id |-> n, dataset |-> row[n].dataset, party |-> row[n].party]}
BY ZenonT(60), LookupFrame
DEF Next, Work, Fault, Request, Serve, Run, handleContractRequest, storeReRequest, storeAccepted,
    storeVerified, storeTermination, return, endPush, pushAndStore, delayedTerminate,
    CreateAgreementIfNegotiationAgreed, expire, failWrite, failStore, failTask, crash, vars

\* The agreements table stays in agreement with the negotiations table.
LEMMA AgreementsStep ==
  ASSUME IInv, [Next]_vars
  PROVE  AgreementMatchesNegotiation'
<1>1. TypeOK /\ InFlightIsLegal /\ AgreementMatchesNegotiation /\ \A n \in Neg : RowMoves(n)
  BY RowStep DEF IInv
<1>2. \/ agreements' = agreements
      \/ \E n \in Neg :
           /\ UNCHANGED row /\ row[n].state \in IssuedStates
           /\ \A a \in agreements : a.id # n
           /\ agreements' = agreements \cup
                {[id |-> n, dataset |-> row[n].dataset, party |-> row[n].party]}
  BY AgreementsGain
<1>3. ASSUME NEW a \in agreements
      PROVE  /\ row'[a.id].state \in IssuedStates \cup {"TERMINATED"}
             /\ a.dataset = row'[a.id].dataset
             /\ a.party = row'[a.id].party
  <2>1. a.id \in Neg
    BY <1>1 DEF TypeOK, Agreement
  <2>2. /\ row[a.id].state \in Past("AGREED")
        /\ a.dataset = row[a.id].dataset /\ a.party = row[a.id].party
    BY <1>1 DEF AgreementMatchesNegotiation, Past
  <2>3. Exists(a.id)
    BY <1>1, <2>1, <2>2, PastRange, RowShape DEF TypeOK, States
  <2>4. row'[a.id].state \in Past("AGREED")
    BY <1>1, <2>1, <2>2, MovesForward DEF States
  <2>5. row'[a.id].dataset = row[a.id].dataset /\ row'[a.id].party = row[a.id].party
    BY <1>1, <2>1, <2>3 DEF RowMoves
  <2> QED BY <2>2, <2>4, <2>5 DEF Past
<1>4. CASE agreements' = agreements
  BY <1>1, <1>3, <1>4 DEF AgreementMatchesNegotiation
<1>5. ASSUME NEW n \in Neg, UNCHANGED row, row[n].state \in IssuedStates,
             \A a \in agreements : a.id # n,
             agreements' = agreements \cup
               {[id |-> n, dataset |-> row[n].dataset, party |-> row[n].party]}
      PROVE  AgreementMatchesNegotiation'
  BY <1>1, <1>5 DEF AgreementMatchesNegotiation
<1> QED BY <1>2, <1>4, <1>5

-----------------------------------------------------------------------------
(* The invariants, for every value of the constants *)

\* The invariant holds of the empty tables.
LEMMA Initially == Init => IInv
<1> SUFFICES ASSUME Init PROVE IInv
  OBVIOUS
<1>1. TypeOK
  BY DEF Init, TypeOK, NoTask, Task, Stages, States
<1>2. InFlightIsLegal
  BY DEF Init, InFlightIsLegal, NoRow, NoTask, Idle, Exists, TaskIds
<1>3. OffersAreTracked
  BY DEF Init, OffersAreTracked, OfferTracked, NoRow, NoTask, TaskIds, IssuedStates
<1>4. AgreementMatchesNegotiation
  BY DEF Init, AgreementMatchesNegotiation
<1> QED BY <1>1, <1>2, <1>3, <1>4 DEF IInv

\* Every step keeps the invariant.
LEMMA Inductive == IInv /\ [Next]_vars => IInv'
<1> SUFFICES ASSUME IInv, [Next]_vars PROVE IInv'
  OBVIOUS
<1>1. TypeOK'
  BY TypeStep DEF IInv
<1>2. InFlightIsLegal'
  BY InFlightStep DEF IInv
<1> QED BY <1>1, <1>2, OffersStep, AgreementsStep DEF IInv

\* Hence every behaviour has it.
LEMMA Invariance == Spec => []IInv
BY Initially, Inductive, PTL DEF Spec

\* Whatever a handler or a goroutine is about to write, on a copy of a row any
\* number of steps old, is still a legal continuation of that copy.
THEOREM InFlight == Spec => []InFlightIsLegal
<1>1. IInv => InFlightIsLegal
  BY DEF IInv
<1> QED BY <1>1, Invariance, PTL

\* Each agreement was issued by its negotiation, to the same party over the
\* same dataset, and at most once.
THEOREM AgreementsMatch == Spec => []AgreementMatchesNegotiation
<1>1. IInv => AgreementMatchesNegotiation
  BY DEF IInv
<1> QED BY <1>1, Invariance, PTL

\* No contract over a dataset that is not offered, nor on an expired offer.
THEOREM OffersOnly == Spec => []OnlyOfferedContracts
<1>1. IInv => OnlyOfferedContracts
  BY DEF IInv, OffersAreTracked, OfferTracked, Offered, OnlyOfferedContracts
<1> QED BY <1>1, Invariance, PTL

\* The write of a granted request finds its goroutine not yet started.
LEMMA StartsOnceHolds == IInv => StartsOnce
<1> SUFFICES ASSUME IInv PROVE StartsOnce
  OBVIOUS
<1>1. TypeOK /\ InFlightIsLegal
  BY DEF IInv
<1>2. ASSUME NEW h \in Handlers, handler[h].pc = "write"
      PROVE  LET n == handler[h].neg  op == handler[h].op IN
             /\ op = "accepted" /\ Holds(n, handler[h].seen) => task[n]["accepted"].pc = "none"
             /\ op = "verification" /\ Holds(n, handler[h].seen) => task[n]["verified"].pc = "none"
             /\ op = "reRequest" /\ ~row[n].rerequested => task[n]["walkaway"].pc = "none"
  <2> DEFINE n == handler[h].neg
             op == handler[h].op
  <2>1. n \in Neg /\ handler[h].seen \in SeenBy[op]
    BY <1>1, <1>2, WriteShape DEF TypeOK, InFlightIsLegal
  <2>2. /\ task[n]["walkaway"].pc # "none" => row[n].rerequested
        /\ task[n]["accepted"].pc # "none" => row[n].state \in Past("ACCEPTED")
        /\ task[n]["verified"].pc # "none" => row[n].state \in Past("VERIFIED")
    BY <1>1, <2>1, InFlightParts DEF NegotiationLegal, GoroutineLegal, StartedFrom, TaskIds
  <2>3. CASE op = "accepted" /\ Holds(n, handler[h].seen)
    BY <2>1, <2>2, <2>3 DEF SeenBy, Holds, Past, States
  <2>4. CASE op = "verification" /\ Holds(n, handler[h].seen)
    BY <2>1, <2>2, <2>4 DEF SeenBy, Holds, Past
  <2> QED BY <2>2, <2>3, <2>4
<1>3. ASSUME NEW n \in Neg, task[n]["request"].pc = "store"
      PROVE  task[n]["withdraw"].pc = "none"
  BY <1>1, <1>3, InFlightParts DEF NegotiationLegal
<1> QED BY <1>2, <1>3 DEF StartsOnce

\* No goroutine is started twice, whichever requests are served concurrently.
THEOREM GoroutinesStartOnce == Spec => []StartsOnce
BY StartsOnceHolds, Invariance, PTL
-----------------------------------------------------------------------------
(* The provider keeps the contract of one side of a negotiation *)

\* The refinement mapping of `state`, at a step.
LEMMA OneMoves ==
  ASSUME TypeOK, NEW n \in Neg, NEW s, row'[n].state = s,
         \A m \in Neg \ {n} : row'[m].state = row[m].state
  PROVE  [m \in Neg |-> row'[m].state] = [[m \in Neg |-> row[m].state] EXCEPT ![n] = s]
OBVIOUS

\* A step that leaves the states alone leaves the mapped states alone.
LEMMA NoneMoves ==
  ASSUME \A m \in Neg : row'[m].state = row[m].state, agreements' = agreements
  PROVE  UNCHANGED Contract!contractVars
<1>1. [m \in Neg |-> row'[m].state] = [m \in Neg |-> row[m].state]
  OBVIOUS
<1> QED BY <1>1 DEF Contract!contractVars

\* A conditional write of a legal successor is an Advance of the contract,
\* or nothing.
LEMMA SetStateAdvances ==
  ASSUME TypeOK, NEW n \in Neg, NEW from \in States, NEW to \in States,
         <<from, to>> \in Contract!Legal, row' = SetState(n, from, to), agreements' = agreements
  PROVE  [Contract!Next]_(Contract!contractVars)
<1>1. \A m \in Neg :
        \/ row'[m].state = row[m].state
        \/ m = n /\ row[m].state = from /\ row'[m].state = to
  BY SetStateEffect
<1>2. CASE row'[n].state = row[n].state
  BY <1>1, <1>2, NoneMoves
<1>3. CASE row'[n].state # row[n].state
  <2>1. row[n].state = from /\ row'[n].state = to /\ \A m \in Neg \ {n} : row'[m].state = row[m].state
    BY <1>1, <1>3
  <2>2. [m \in Neg |-> row'[m].state] = [[m \in Neg |-> row[m].state] EXCEPT ![n] = to]
    BY <2>1, OneMoves
  <2>3. Contract!Advance(n, to)
    BY <2>1, <2>2 DEF Contract!Advance
  <2>4. to \in Contract!States
    BY DEF Contract!States, States
  <2> QED BY <2>3, <2>4 DEF Contract!Next
<1> QED BY <1>2, <1>3

\* Every step of the provider is a step of the contract, or a stutter.
LEMMA ContractStep ==
  ASSUME IInv, [Next]_vars
  PROVE  [Contract!Next]_(Contract!contractVars)
<1> DEFINE Goal == [Contract!Next]_(Contract!contractVars)
<1> HIDE DEF Goal
<1>1. TypeOK /\ InFlightIsLegal
  BY DEF IInv
<1>2. ASSUME UNCHANGED <<row, agreements>> PROVE Goal
  BY <1>2, NoneMoves DEF Goal
<1>3. ASSUME NEW h \in Handlers, NEW n \in Neg, NEW who \in Participants, NEW d \in Datasets,
             NEW matches \in BOOLEAN, handleContractRequest(h, n, d, matches, who)
      PROVE  Goal
  <2>1. /\ row[n].state = "NONE" /\ row'[n].state = "REQUESTED"
        /\ \A m \in Neg \ {n} : row'[m].state = row[m].state
        /\ agreements' = agreements
    BY <1>1, <1>3 DEF handleContractRequest, TypeOK, Exists, NoRow
  <2>2. [m \in Neg |-> row'[m].state] = [[m \in Neg |-> row[m].state] EXCEPT ![n] = "REQUESTED"]
    BY <1>1, <2>1, OneMoves
  <2>3. Contract!Begin(n)
    BY <2>1, <2>2 DEF Contract!Begin
  <2> QED BY <2>3 DEF Goal, Contract!Next
<1>4. ASSUME NEW h \in Handlers, storeReRequest(h) PROVE Goal
  <2>1. handler[h].neg \in Neg /\ row[handler[h].neg] \in Row
    BY <1>1, <1>4, WriteLegal DEF storeReRequest, Ops
  <2>2. CASE row' = [row EXCEPT ![handler[h].neg].rerequested = TRUE]
    <3>1. row'[handler[h].neg] = [row[handler[h].neg] EXCEPT !.rerequested = TRUE]
      BY <1>1, <2>1, <2>2 DEF TypeOK
    <3>2. \A m \in Neg \ {handler[h].neg} : row'[m] = row[m]
      BY <1>1, <2>2 DEF TypeOK
    <3>3. \A m \in Neg : row'[m].state = row[m].state
      BY <2>1, <3>1, <3>2 DEF Row
    <3> QED BY <1>4, <3>3, NoneMoves DEF Goal, storeReRequest
  <2>3. CASE row' = row
    BY <1>2, <1>4, <2>3 DEF storeReRequest
  <2> QED BY <1>4, <2>2, <2>3 DEF storeReRequest
<1>5. ASSUME NEW h \in Handlers, storeAccepted(h) PROVE Goal
  <2>1. handler[h].neg \in Neg /\ handler[h].seen = "OFFERED"
    BY <1>1, <1>5, WriteLegal DEF storeAccepted, SeenBy, Ops
  <2>2. <<"OFFERED", "ACCEPTED">> \in Contract!Legal /\ {"OFFERED", "ACCEPTED"} \subseteq States
    BY DEF Contract!Legal, States
  <2> QED BY <1>1, <1>5, <2>1, <2>2, SetStateAdvances DEF storeAccepted, Goal
<1>6. ASSUME NEW h \in Handlers, storeVerified(h) PROVE Goal
  <2>1. handler[h].neg \in Neg /\ handler[h].seen = "AGREED"
    BY <1>1, <1>6, WriteLegal DEF storeVerified, SeenBy, Ops
  <2>2. <<"AGREED", "VERIFIED">> \in Contract!Legal /\ {"AGREED", "VERIFIED"} \subseteq States
    BY DEF Contract!Legal, States
  <2> QED BY <1>1, <1>6, <2>1, <2>2, SetStateAdvances DEF storeVerified, Goal
<1>7. ASSUME NEW h \in Handlers, storeTermination(h) PROVE Goal
  <2>1. handler[h].neg \in Neg /\ handler[h].seen \in States \ Terminal
    BY <1>1, <1>7, WriteLegal DEF storeTermination, SeenBy, Ops
  <2>2. <<handler[h].seen, "TERMINATED">> \in Contract!Legal /\ "TERMINATED" \in States
    BY <2>1 DEF Contract!Legal, Contract!States, Contract!Terminal, States, Terminal
  <2> QED BY <1>1, <1>7, <2>1, <2>2, SetStateAdvances DEF storeTermination, Goal
<1>8. ASSUME NEW n \in Neg, NEW k \in TaskIds, pushAndStore(n, k) PROVE Goal
  <2>1. /\ task[n][k].from \in States /\ task[n][k].to \in States
        /\ <<task[n][k].from, task[n][k].to>> \in Contract!Legal
    BY <1>1, <1>8, PlanLegal DEF pushAndStore
  <2> QED BY <1>1, <1>8, <2>1, SetStateAdvances DEF pushAndStore, Goal
<1>9. ASSUME NEW n \in Neg, NEW k \in TaskIds, CreateAgreementIfNegotiationAgreed(n, k)
      PROVE  Goal
  <2>1. CASE agreements' = agreements
    BY <1>2, <1>9, <2>1 DEF CreateAgreementIfNegotiationAgreed
  <2>2. CASE agreements' # agreements
    <3>1. /\ row[n].state \in IssuedStates
          /\ agreements' = agreements \cup
               {[id |-> n, dataset |-> row[n].dataset, party |-> row[n].party]}
          /\ row' = row
      BY <1>9, <2>2 DEF CreateAgreementIfNegotiationAgreed
    <3>2. {a.id : a \in agreements'} = {a.id : a \in agreements} \cup {n}
      <4> DEFINE new == [id |-> n, dataset |-> row[n].dataset, party |-> row[n].party]
      <4>1. new.id = n /\ agreements' = agreements \cup {new}
        BY <3>1
      <4> HIDE DEF new
      <4> QED BY <4>1
    <3>3. Contract!Record(n)
      BY <3>1, <3>2 DEF Contract!Record
    <3> QED BY <3>3 DEF Goal, Contract!Next
  <2> QED BY <2>1, <2>2
<1>10. Goal
  BY <1>2, <1>3, <1>4, <1>5, <1>6, <1>7, <1>8, <1>9, LookupFrame
  DEF Next, Work, Fault, Request, Serve, Run, return, endPush, delayedTerminate, expire,
      failWrite, failStore, failTask, crash, vars
<1> QED BY <1>10 DEF Goal

\* The provider implements NegotiationContract.
THEOREM ContractKept == Spec => KeepsContract
<1>1. Init => Contract!Init
  BY DEF Init, Contract!Init, NoRow
<1> QED BY <1>1, ContractStep, Invariance, PTL DEF Spec, KeepsContract, Contract!Spec
-----------------------------------------------------------------------------
(* What a step does to one negotiation, for those who compose this module *)

Started(n, k) == task[n][k].pc # "none"

\* A request past its checks is about to write.
Serving(n, op) ==
  \E h \in Handlers : handler[h].pc = "write" /\ handler[h].op = op /\ handler[h].neg = n

\* A goroutine is not there, or goes on with what it was started for.
Continues(n, k) ==
  /\ Started(n, k)' <=> Started(n, k)
  /\ task'[n][k].to = task[n][k].to
  /\ task'[n][k].withdraw = task[n][k].withdraw

\* What starts each goroutine.
Starts(n, k) ==
  /\ ~Started(n, k) /\ Started(n, k)'
  /\ \/ /\ k = "request" /\ ~Exists(n)
        /\ row'[n].state = "REQUESTED"
        /\ task'[n][k].to = "AGREED" => row'[n].matches
     \/ /\ k = "accepted" /\ Serving(n, "accepted")
        /\ row[n].state = "OFFERED" /\ row'[n].state = "ACCEPTED"
     \/ /\ k = "verified" /\ Serving(n, "verification")
        /\ row[n].state = "AGREED" /\ row'[n].state = "VERIFIED"
     \/ /\ k = "walkaway"
        /\ \E h \in Handlers : /\ handler[h].pc = "write" /\ handler[h].op = "reRequest"
                               /\ handler[h].neg = n /\ ~handler[h].same
     \/ /\ k = "withdraw" /\ Started(n, "request") /\ task[n]["request"].withdraw
        /\ task'[n][k].to = task[n][k].to

\* The withdrawal of an offer is decided on when its goroutine wakes.
Withdraws(n, k) ==
  /\ k = "withdraw" /\ Started(n, k) /\ Started(n, k)'
  /\ task'[n][k].to = "TERMINATED"

TaskMoves(n, k) == Continues(n, k) \/ Starts(n, k) \/ Withdraws(n, k)

\* What changes a state.
StateMoves(n) ==
  \/ row'[n].state = row[n].state
  \/ ~Exists(n) /\ row'[n].state = "REQUESTED"
  \/ Serving(n, "accepted") /\ row[n].state = "OFFERED" /\ row'[n].state = "ACCEPTED"
  \/ Serving(n, "verification") /\ row[n].state = "AGREED" /\ row'[n].state = "VERIFIED"
  \/ Serving(n, "termination") /\ row'[n].state = "TERMINATED"
  \/ \E k \in TaskIds :
       /\ Started(n, k) /\ task[n][k].pc = "store" /\ <<row[n].state, row'[n].state>> \in Plans[k]
       /\ task[n][k].to = row'[n].state

\* What a negotiation is about does not change.
TermsKept(n) ==
  Exists(n) => row'[n].dataset = row[n].dataset /\ row'[n].matches = row[n].matches

\* Goroutines that keep their `to` and `withdraw`, and are not started.
LEMMA StageContinues ==
  ASSUME TypeOK, NEW n \in Neg, NEW k \in TaskIds, NEW pc \in Stages \ {"none"},
         task[n][k].pc # "none", task' = [task EXCEPT ![n][k].pc = pc],
         NEW m \in Neg, NEW j \in TaskIds
  PROVE  Continues(m, j)
<1>1. CASE m # n \/ j # k
  BY <1>1 DEF Continues, Started, TypeOK
<1>2. CASE m = n /\ j = k
  BY <1>2 DEF Continues, Started, TypeOK, Task
<1> QED BY <1>1, <1>2

\* Starting one goroutine leaves the others.
LEMMA OthersContinue ==
  ASSUME TypeOK, NEW n \in Neg, NEW k \in TaskIds, NEW t, task' = [task EXCEPT ![n][k] = t],
         NEW m \in Neg, NEW j \in TaskIds, m # n \/ j # k
  PROVE  Continues(m, j)
BY DEF Continues, Started, TypeOK

\* What dispatch does after its write starts at most the withdrawal.
LEMMA AfterStoreMoves ==
  ASSUME TypeOK, InFlightIsLegal, NEW n \in Neg, NEW k \in TaskIds, task[n][k].pc = "store",
         task' = afterStore(n, k), NEW m \in Neg, NEW j \in TaskIds
  PROVE  TaskMoves(m, j)
<1>1. CASE \/ task' = [task EXCEPT ![n][k].pc = "record"]
           \/ task' = [task EXCEPT ![n][k].pc = "done"]
  <2>1. PICK pc \in {"record", "done"} : task' = [task EXCEPT ![n][k].pc = pc]
    BY <1>1
  <2> QED BY ZenonT(60), <2>1, StageContinues DEF Stages, TaskMoves
<1>2. CASE /\ task[n][k].withdraw
           /\ task' = [task EXCEPT ![n][k].pc = "done", ![n]["withdraw"].pc = "sleep"]
  <2>1. k = "request" /\ task[n]["withdraw"].pc = "none"
    BY <1>2, InFlightParts DEF NegotiationLegal, GoroutineLegal
  <2>2. \A i \in TaskIds : m # n \/ i \notin {"request", "withdraw"} => task'[m][i] = task[m][i]
    BY <1>2, <2>1 DEF TypeOK, TaskIds
  <2>3. /\ task'[n]["request"].pc = "done"
        /\ task'[n]["request"].to = task[n]["request"].to
        /\ task'[n]["request"].withdraw = task[n]["request"].withdraw
        /\ task'[n]["withdraw"].pc = "sleep"
        /\ task'[n]["withdraw"].to = task[n]["withdraw"].to
    BY <1>2, <2>1 DEF TypeOK, TaskIds, Task
  <2>4. CASE m # n \/ j \notin {"request", "withdraw"}
    BY <2>2, <2>4 DEF TaskMoves, Continues, Started
  <2>5. CASE m = n /\ j = "request"
    BY <2>1, <2>3, <2>5 DEF TaskMoves, Continues, Started
  <2>6. CASE m = n /\ j = "withdraw"
    BY <1>2, <2>1, <2>3, <2>6 DEF TaskMoves, Starts, Started
  <2> QED BY <2>4, <2>5, <2>6
<1> QED BY <1>1, <1>2 DEF afterStore

\* What a conditional write moves.
LEMMA SetStateTerms ==
  ASSUME TypeOK, NEW n \in Neg, NEW from \in States, NEW to \in States,
         row' = SetState(n, from, to), NEW m \in Neg
  PROVE  TermsKept(m)
<1>1. CASE m = n /\ Holds(n, from)
  <2>1. row[n] \in Row /\ row[n].state = from
    BY <1>1, RowShape DEF TypeOK, Holds
  <2>2. row'[n] = [row[n] EXCEPT !.state = to]
    BY <1>1 DEF TypeOK, SetState
  <2> QED BY <1>1, <2>1, <2>2 DEF Row, TermsKept
<1>2. CASE ~(m = n /\ Holds(n, from))
  <2>1. row'[m] = row[m]
    BY <1>2 DEF TypeOK, SetState
  <2> QED BY <2>1 DEF TermsKept
<1> QED BY <1>1, <1>2

\* Everything a step may do to a negotiation.
NegotiationMoves(m) ==
  /\ TermsKept(m)
  /\ StateMoves(m)
  /\ \A j \in TaskIds : TaskMoves(m, j)

\* A step that changes stages at most.
LEMMA QuietMoves ==
  ASSUME NEW m \in Neg, row' = row, \A j \in TaskIds : Continues(m, j)
  PROVE  NegotiationMoves(m)
BY DEF NegotiationMoves, TermsKept, StateMoves, TaskMoves

\* A request for a new negotiation starts the goroutine that answers it.
LEMMA RequestMoves ==
  ASSUME TypeOK, NEW h \in Handlers, NEW n \in Neg, NEW who \in Participants, NEW d \in Datasets,
         NEW matches \in BOOLEAN, handleContractRequest(h, n, d, matches, who), NEW m \in Neg,
         task[n]["request"].pc = "none"
  PROVE  /\ NegotiationMoves(m)
         /\ row'[n].dataset = d
<1> DEFINE t == dispatch("REQUESTED", decideInitialRequest(d \in Advertised, matches, isValid(d)))
<1>1. /\ t.pc \in {"push", "done"}
      /\ t.to = "AGREED" => matches
  BY RequestDispatch
<1> HIDE DEF t
<1>2. task' = [task EXCEPT ![n]["request"] = t]
  BY DEF handleContractRequest, t
<1>3. /\ row[n] = NoRow /\ ~Exists(n)
      /\ row'[n].state = "REQUESTED" /\ row'[n].dataset = d /\ row'[n].matches = matches
      /\ \A i \in Neg \ {n} : row'[i] = row[i]
  BY DEF handleContractRequest, TypeOK, Exists
<1>4. ASSUME NEW j \in TaskIds PROVE TaskMoves(m, j)
  <2>1. CASE m # n \/ j # "request"
    BY ZenonT(60), <1>2, <2>1, OthersContinue DEF TaskMoves, TaskIds
  <2>2. CASE m = n /\ j = "request"
    <3>1. task'[n]["request"] = t
      BY <1>2 DEF TypeOK, TaskIds
    <3> QED BY <1>1, <1>3, <2>2, <3>1 DEF TaskMoves, Starts, Started
  <2> QED BY <2>1, <2>2
<1>5. TermsKept(m) /\ StateMoves(m)
  BY <1>3 DEF TermsKept, StateMoves
<1> QED BY <1>3, <1>4, <1>5 DEF NegotiationMoves

\* A granted request that writes a state, and starts a goroutine with it.
LEMMA GrantMoves ==
  ASSUME TypeOK, NEW h \in Handlers, NEW op \in Ops, AtWrite(h, op),
         NEW n \in Neg, n = handler[h].neg, NEW from \in States, NEW to \in States,
         row' = SetState(n, from, to),
         NEW k \in TaskIds, NEW t \in Task, t.pc # "none",
         task' = IF ~Holds(n, from) THEN task ELSE [task EXCEPT ![n][k] = t],
         Holds(n, from) => task[n][k].pc = "none",
         \/ op = "accepted" /\ from = "OFFERED" /\ to = "ACCEPTED" /\ k = "accepted"
         \/ op = "verification" /\ from = "AGREED" /\ to = "VERIFIED" /\ k = "verified",
         NEW m \in Neg
  PROVE  NegotiationMoves(m)
<1>1. TermsKept(m)
  BY SetStateTerms
<1>2. \/ row'[m].state = row[m].state
      \/ m = n /\ row[m].state = from /\ row'[m].state = to
  BY SetStateEffect
<1>3. Serving(n, op)
  BY DEF Serving, AtWrite
<1>4. CASE Holds(n, from)
  <2>1. row[n].state = from /\ row'[n].state = to
    <3>1. row[n] \in Row /\ row[n].state = from
      BY <1>4, RowShape DEF TypeOK, Holds
    <3>2. row'[n] = [row[n] EXCEPT !.state = to]
      BY <1>4 DEF TypeOK, SetState
    <3> QED BY <3>1, <3>2 DEF Row
  <2>2. task' = [task EXCEPT ![n][k] = t]
    BY <1>4
  <2>3. task'[n][k] = t
    BY <2>2 DEF TypeOK
  <2>4. ASSUME NEW j \in TaskIds PROVE TaskMoves(m, j)
    <3>1. CASE m # n \/ j # k
      <4>1. Continues(m, j)
        BY <2>2, <3>1 DEF Continues, Started, TypeOK
      <4> QED BY <4>1 DEF TaskMoves
    <3>2. CASE m = n /\ j = k
      <4>1. ~Started(n, k) /\ Started(n, k)'
        BY <1>4, <2>3 DEF Started
      <4>2. Starts(n, k)
        BY <1>3, <2>1, <4>1 DEF Starts
      <4> QED BY <3>2, <4>2 DEF TaskMoves
    <3> QED BY <3>1, <3>2
  <2> QED BY <1>1, <1>2, <1>3, <2>4 DEF NegotiationMoves, StateMoves
<1>5. CASE ~Holds(n, from)
  <2>1. task' = task /\ row' = row
    BY <1>5 DEF SetState
  <2> QED BY <2>1, QuietMoves DEF Continues, Started
<1> QED BY <1>4, <1>5

\* A request that only ends the negotiation, or answers.
LEMMA TerminationMoves ==
  ASSUME TypeOK, NEW h \in Handlers, storeTermination(h),
         NEW n \in Neg, n = handler[h].neg, handler[h].seen \in States, NEW m \in Neg
  PROVE  NegotiationMoves(m)
<1>1. /\ row' = SetState(n, handler[h].seen, "TERMINATED")
      /\ task' = task /\ "TERMINATED" \in States
  BY DEF storeTermination, States
<1>2. TermsKept(m)
  BY <1>1, SetStateTerms
<1>3. row'[m].state = row[m].state \/ (m = n /\ row'[m].state = "TERMINATED")
  BY <1>1, SetStateEffect
<1>4. Serving(n, "termination")
  BY DEF storeTermination, Serving, AtWrite
<1>5. StateMoves(m)
  BY <1>3, <1>4 DEF StateMoves
<1>6. \A j \in TaskIds : TaskMoves(m, j)
  BY <1>1 DEF TaskMoves, Continues, Started
<1> QED BY <1>2, <1>5, <1>6 DEF NegotiationMoves

\* A granted re-request, which starts a push only if it is for another offer.
LEMMA ReRequestMoves ==
  ASSUME TypeOK, NEW h \in Handlers, storeReRequest(h),
         NEW n \in Neg, n = handler[h].neg, row[n] \in Row,
         ~row[n].rerequested => task[n]["walkaway"].pc = "none", NEW m \in Neg
  PROVE  NegotiationMoves(m)
<1>1. /\ row'[m].state = row[m].state /\ row'[m].dataset = row[m].dataset
      /\ row'[m].matches = row[m].matches
  <2>1. CASE row' = row
    BY <2>1
  <2>2. CASE row' = [row EXCEPT ![n].rerequested = TRUE]
    <3>1. row'[n] = [row[n] EXCEPT !.rerequested = TRUE] /\ (m # n => row'[m] = row[m])
      BY <2>2 DEF TypeOK
    <3> QED BY <3>1 DEF Row
  <2> QED BY <2>1, <2>2 DEF storeReRequest
<1>2. TermsKept(m) /\ StateMoves(m)
  BY <1>1 DEF TermsKept, StateMoves
<1>3. ASSUME NEW j \in TaskIds PROVE TaskMoves(m, j)
  <2>1. CASE task' = task
    BY <2>1 DEF TaskMoves, Continues, Started
  <2>2. CASE task' # task
    <3> DEFINE t == pushing(handler[h].seen, "TERMINATED", FALSE)
    <3>1. t.pc # "none"
      BY DEF pushing
    <3> HIDE DEF t
    <3>2. /\ task' = [task EXCEPT ![n]["walkaway"] = t]
          /\ ~handler[h].same /\ ~row[n].rerequested
      BY <2>2 DEF storeReRequest, t
    <3>3. CASE m # n \/ j # "walkaway"
      <4>1. Continues(m, j)
        BY <3>2, <3>3 DEF Continues, Started, TypeOK
      <4> QED BY <4>1 DEF TaskMoves
    <3>4. CASE m = n /\ j = "walkaway"
      <4>1. task'[n]["walkaway"] = t
        BY <3>2 DEF TypeOK, TaskIds
      <4>2. ~Started(n, "walkaway") /\ Started(n, "walkaway")'
        BY <3>1, <3>2, <4>1 DEF Started
      <4>3. Starts(n, "walkaway")
        BY <3>2, <4>2 DEF Starts, storeReRequest, AtWrite
      <4> QED BY <3>4, <4>3 DEF TaskMoves
    <3> QED BY <3>3, <3>4
  <2> QED BY <2>1, <2>2
<1> QED BY <1>2, <1>3 DEF NegotiationMoves

\* A goroutine's write of what it announced.
LEMMA StoreMoves ==
  ASSUME TypeOK, InFlightIsLegal, NEW n \in Neg, NEW k \in TaskIds,
         pushAndStore(n, k) \/ failStore(n, k), NEW m \in Neg
  PROVE  NegotiationMoves(m)
<1>1. task[n][k].pc = "store" /\ task' = afterStore(n, k)
  BY DEF pushAndStore, failStore
<1>2. \A j \in TaskIds : TaskMoves(m, j)
  BY <1>1, AfterStoreMoves
<1>3. CASE row' = row
  BY <1>2, <1>3 DEF NegotiationMoves, TermsKept, StateMoves
<1>4. CASE pushAndStore(n, k)
  <2>1. /\ task[n][k].from \in States /\ task[n][k].to \in States
        /\ <<task[n][k].from, task[n][k].to>> \in Plans[k]
    BY <1>1, PlanLegal, InFlightParts DEF GoroutineLegal
  <2>2. row' = SetState(n, task[n][k].from, task[n][k].to)
    BY <1>4 DEF pushAndStore
  <2>3. TermsKept(m)
    BY <2>1, <2>2, SetStateTerms
  <2>4. \/ row'[m].state = row[m].state
        \/ m = n /\ row[m].state = task[n][k].from /\ row'[m].state = task[n][k].to
    BY <2>1, <2>2, SetStateEffect
  <2>5. Started(n, k)
    BY <1>1 DEF Started
  <2>6. StateMoves(m)
    BY <1>1, <2>1, <2>4, <2>5 DEF StateMoves
  <2> QED BY <1>2, <2>3, <2>6 DEF NegotiationMoves
<1> QED BY <1>3, <1>4 DEF failStore

\* Every step of the provider does to a negotiation one of those things.
LEMMA Moves ==
  ASSUME IInv, [Next]_vars, NEW m \in Neg
  PROVE  NegotiationMoves(m)
<1>1. TypeOK /\ InFlightIsLegal /\ StartsOnce
  BY StartsOnceHolds DEF IInv
<1>2. ASSUME row' = row, task' = task PROVE NegotiationMoves(m)
  BY <1>2, QuietMoves DEF Continues, Started
<1>3. ASSUME NEW h \in Handlers, NEW n \in Neg, NEW who \in Participants, NEW d \in Datasets,
             NEW matches \in BOOLEAN, handleContractRequest(h, n, d, matches, who)
      PROVE  NegotiationMoves(m)
  <2>1. task[n]["request"].pc = "none"
    BY <1>1, <1>3, InFlightParts DEF NegotiationLegal, handleContractRequest
  <2> QED BY <1>1, <1>3, <2>1, RequestMoves
<1>4. ASSUME NEW h \in Handlers, storeReRequest(h) PROVE NegotiationMoves(m)
  <2>1. handler[h].neg \in Neg /\ row[handler[h].neg] \in Row
    BY <1>1, <1>4, WriteLegal DEF storeReRequest, Ops
  <2>2. ~row[handler[h].neg].rerequested => task[handler[h].neg]["walkaway"].pc = "none"
    BY <1>1, <1>4 DEF storeReRequest, AtWrite, StartsOnce
  <2> QED BY <1>1, <1>4, <2>1, <2>2, ReRequestMoves
<1>5. ASSUME NEW h \in Handlers, storeAccepted(h) PROVE NegotiationMoves(m)
  <2>1. PICK n \in Neg : n = handler[h].neg
    BY <1>1, <1>5, WriteLegal DEF storeAccepted, Ops
  <2>2. handler[h].seen = "OFFERED" /\ AtWrite(h, "accepted")
    BY <1>1, <1>5, WriteLegal DEF storeAccepted, SeenBy, Ops
  <2>3. (row[n].dataset \in Advertised) \in BOOLEAN /\ isValid(row[n].dataset) \in BOOLEAN
    BY DEF isValid
  <2>4. PICK t : t = dispatch("ACCEPTED", decideAccept(row[n].dataset \in Advertised,
                                                       isValid(row[n].dataset)))
    OBVIOUS
  <2>5. t \in Task /\ t.pc # "none"
    BY <2>3, <2>4, DecisionType, DispatchType, AcceptDispatch DEF States
  <2>6. /\ row' = SetState(n, "OFFERED", "ACCEPTED")
        /\ task' = IF ~Holds(n, "OFFERED") THEN task ELSE [task EXCEPT ![n]["accepted"] = t]
    BY <1>5, <2>1, <2>2, <2>4 DEF storeAccepted
  <2>7. Holds(n, "OFFERED") => task[n]["accepted"].pc = "none"
    BY <1>1, <2>1, <2>2 DEF StartsOnce, AtWrite
  <2>8. "accepted" \in Ops /\ "accepted" \in TaskIds /\ {"OFFERED", "ACCEPTED"} \subseteq States
    BY DEF Ops, TaskIds, States
  <2> QED BY <1>1, <2>1, <2>2, <2>5, <2>6, <2>7, <2>8, GrantMoves
<1>6. ASSUME NEW h \in Handlers, storeVerified(h) PROVE NegotiationMoves(m)
  <2>1. PICK n \in Neg : n = handler[h].neg
    BY <1>1, <1>6, WriteLegal DEF storeVerified, Ops
  <2>2. handler[h].seen = "AGREED" /\ AtWrite(h, "verification")
    BY <1>1, <1>6, WriteLegal DEF storeVerified, SeenBy, Ops
  <2>3. PICK to \in {"TERMINATED", "FINALIZED"} :
          to = IF row[n].dataset \in TerminateOnVerify THEN "TERMINATED" ELSE "FINALIZED"
    OBVIOUS
  <2>4. PICK t : t = pushing("VERIFIED", to, FALSE)
    OBVIOUS
  <2>5. t \in Task /\ t.pc # "none"
    BY <2>4 DEF pushing, Task, Stages, States
  <2>6. /\ row' = SetState(n, "AGREED", "VERIFIED")
        /\ task' = IF ~Holds(n, "AGREED") THEN task ELSE [task EXCEPT ![n]["verified"] = t]
    BY <1>6, <2>1, <2>2, <2>3, <2>4 DEF storeVerified
  <2>7. Holds(n, "AGREED") => task[n]["verified"].pc = "none"
    BY <1>1, <2>1, <2>2 DEF StartsOnce, AtWrite
  <2>8. "verification" \in Ops /\ "verified" \in TaskIds /\ {"AGREED", "VERIFIED"} \subseteq States
    BY DEF Ops, TaskIds, States
  <2> QED BY <1>1, <2>1, <2>2, <2>5, <2>6, <2>7, <2>8, GrantMoves
<1>7. ASSUME NEW h \in Handlers, storeTermination(h) PROVE NegotiationMoves(m)
  <2>1. handler[h].neg \in Neg /\ handler[h].seen \in States
    BY <1>1, <1>7, WriteLegal DEF storeTermination, Ops
  <2> QED BY <1>1, <1>7, <2>1, TerminationMoves
<1>8. ASSUME NEW n \in Neg, NEW k \in TaskIds, NEW pc \in {"store", "done"},
             task[n][k].pc # "none", task' = [task EXCEPT ![n][k].pc = pc], row' = row
      PROVE  NegotiationMoves(m)
  <2>1. \A j \in TaskIds : Continues(m, j)
    BY <1>1, <1>8, StageContinues DEF Stages
  <2> QED BY <1>8, <2>1, QuietMoves
<1>9. ASSUME NEW n \in Neg, delayedTerminate(n) PROVE NegotiationMoves(m)
  <2>1. CASE task' = [task EXCEPT ![n]["withdraw"].pc = "done"]
    BY <1>8, <1>9, <2>1 DEF delayedTerminate, TaskIds
  <2>2. CASE task' # [task EXCEPT ![n]["withdraw"].pc = "done"]
    <3>1. PICK t : t = pushing("OFFERED", "TERMINATED", FALSE)
      OBVIOUS
    <3>2. task' = [task EXCEPT ![n]["withdraw"] = t] /\ row' = row /\ task[n]["withdraw"].pc = "sleep"
      BY <1>9, <2>2, <3>1 DEF delayedTerminate
    <3>3. t.pc = "push" /\ t.to = "TERMINATED"
      BY <3>1 DEF pushing
    <3>4. ASSUME NEW j \in TaskIds PROVE TaskMoves(m, j)
      <4>1. CASE m # n \/ j # "withdraw"
        <5>1. Continues(m, j)
          BY <1>1, <3>2, <4>1 DEF Continues, Started, TypeOK
        <5> QED BY <5>1 DEF TaskMoves
      <4>2. CASE m = n /\ j = "withdraw"
        <5>1. task'[n]["withdraw"] = t
          BY <1>1, <3>2 DEF TypeOK, TaskIds
        <5>2. Withdraws(n, "withdraw")
          BY <3>2, <3>3, <5>1 DEF Withdraws, Started
        <5> QED BY <4>2, <5>2 DEF TaskMoves
      <4> QED BY <4>1, <4>2
    <3> QED BY <3>2, <3>4 DEF NegotiationMoves, TermsKept, StateMoves
  <2> QED BY <2>1, <2>2
<1>10. ASSUME NEW n \in Neg, NEW k \in TaskIds, pushAndStore(n, k) \/ failStore(n, k)
       PROVE  NegotiationMoves(m)
  BY <1>1, <1>10, StoreMoves
<1>11. ASSUME crash PROVE NegotiationMoves(m)
  <2>1. ASSUME NEW j \in TaskIds PROVE Continues(m, j)
    <3>1. CASE task[m][j].pc = "none"
      <4>1. task'[m][j] = task[m][j]
        BY <1>11, <3>1 DEF crash
      <4> QED BY <4>1 DEF Continues, Started
    <3>2. CASE task[m][j].pc # "none"
      <4>1. task'[m][j] = [task[m][j] EXCEPT !.pc = "done"]
        BY <1>11, <3>2 DEF crash
      <4> QED BY <1>1, <3>2, <4>1 DEF Continues, Started, TypeOK, Task
    <3> QED BY <3>1, <3>2
  <2> QED BY <1>11, <2>1, QuietMoves DEF crash
<1> QED
  BY <1>2, <1>3, <1>4, <1>5, <1>6, <1>7, <1>8, <1>9, <1>10, <1>11, LookupFrame
  DEF Next, Work, Fault, Request, Serve, Run, return, endPush,
      CreateAgreementIfNegotiationAgreed, expire, failWrite, failTask, vars

\* A request gets past its checks as the request it is.
LEMMA ChecksPassed ==
  ASSUME TypeOK, NEW h \in Handlers, NEW n \in Neg, NEW who, NEW op, NEW legal, NEW same,
         lookup(h, n, who, op, legal, same), NEW g \in Handlers, handler'[g].pc = "write"
  PROVE  \/ handler'[g] = handler[g]
         \/ handler'[g].op = op /\ handler'[g].neg = n /\ handler'[g].same = same
<1>1. CASE g # h
  BY <1>1 DEF lookup, Reply, TypeOK
<1>2. CASE g = h /\ who = row[n].party /\ legal
  BY <1>2 DEF lookup, TypeOK
<1>3. CASE g = h /\ ~(who = row[n].party /\ legal)
  BY SMTT(40), <1>3 DEF lookup, Reply, TypeOK
<1> QED BY <1>1, <1>2, <1>3

\* Nothing else makes a request go on to its write.
LEMMA NothingServedAnew ==
  ASSUME TypeOK,
         \/ \E h \in Handlers : Serve(h)
         \/ \E n \in Neg, k \in TaskIds : Run(n, k)
         \/ \E d \in Limited : expire(d)
         \/ Fault
         \/ \E h \in Handlers, n \in Neg, who \in Participants, d \in Datasets, matches \in BOOLEAN :
              handleContractRequest(h, n, d, matches, who),
         NEW g \in Handlers, handler'[g].pc = "write"
  PROVE  handler'[g] = handler[g]
<1>1. ASSUME NEW h \in Handlers, NEW n, NEW ok, Reply(h, n, ok)
      PROVE  handler'[g] = handler[g]
  BY <1>1 DEF Reply, TypeOK
<1>2. ASSUME NEW h \in Handlers, return(h) PROVE handler'[g] = handler[g]
  BY <1>2 DEF return, TypeOK, Idle
<1>3. ASSUME crash PROVE FALSE
  BY <1>3 DEF crash, Idle
<1> QED
  BY ZenonT(60), <1>1, <1>2, <1>3
  DEF Serve, Run, Fault, handleContractRequest, storeReRequest, storeAccepted, storeVerified,
      storeTermination, endPush, pushAndStore, delayedTerminate,
      CreateAgreementIfNegotiationAgreed, expire, failWrite, failStore, failTask

\* A negotiation comes into the table by a request for it.
LEMMA NothingCreated ==
  ASSUME TypeOK, InFlightIsLegal,
         \/ \E h \in Handlers : Serve(h)
         \/ \E n \in Neg, k \in TaskIds : Run(n, k)
         \/ \E d \in Limited : expire(d)
         \/ Fault,
         NEW m \in Neg, row[m].state = "NONE"
  PROVE  row'[m].state = "NONE"
<1>1. ASSUME NEW n, NEW from \in States, NEW to, row' = SetState(n, from, to)
      PROVE  row'[m].state = "NONE"
  <2>1. n = m => ~Holds(n, from)
    BY DEF Holds, States
  <2> QED BY <1>1, <2>1 DEF SetState, TypeOK
<1>2. CASE row' = row
  BY <1>2
<1>3. ASSUME NEW h \in Handlers, Serve(h) PROVE row'[m].state = "NONE"
  <2>1. ASSUME NEW op \in Ops, AtWrite(h, op) PROVE handler[h].seen \in States
    BY <1>3, <2>1, WriteLegal
  <2>2. CASE storeReRequest(h)
    <3>1. row[handler[h].neg] \in Row
      BY <2>2, WriteLegal DEF storeReRequest, Ops
    <3>2. handler[h].neg # m
      BY <3>1 DEF Row, States
    <3> QED BY <2>2, <3>2 DEF storeReRequest, TypeOK
  <2> QED
    BY <1>1, <1>2, <1>3, <2>1, <2>2
    DEF Serve, storeAccepted, storeVerified, storeTermination, return, Ops
<1>4. ASSUME NEW n \in Neg, NEW k \in TaskIds, Run(n, k) PROVE row'[m].state = "NONE"
  <2>1. task[n][k].pc = "store" => task[n][k].from \in States
    BY PlanLegal
  <2> QED
    BY <1>1, <1>2, <1>4, <2>1
    DEF Run, endPush, pushAndStore, delayedTerminate, CreateAgreementIfNegotiationAgreed
<1> QED
  BY <1>2, <1>3, <1>4 DEF expire, Fault, failWrite, failStore, failTask, crash
-----------------------------------------------------------------------------
(* What the liveness of the decisions rests on *)

\* Goroutine k of n is on its way to a write that its row still allows.
Answers(n, k) == task[n][k].pc \in {"push", "store"} /\ task[n][k].from = row[n].state

\* Every state EveryDecisionLands and AgreedIsRecorded promise to leave has a
\* goroutine at work that leaves it.
DecisionPending(n) ==
  /\ Advertises(n) /\ row[n].state = "REQUESTED" => Answers(n, "request")
  /\ row[n].state = "ACCEPTED" => Answers(n, "accepted")
  /\ row[n].state = "VERIFIED" => Answers(n, "verified")
  /\ row[n].state = "OFFERED" /\ task[n]["request"].withdraw =>
       task[n]["withdraw"].pc = "sleep" \/ Answers(n, "withdraw")
  /\ row[n].state \in IssuedStates =>
       \/ \E a \in agreements : a.id = n
       \/ \E k \in {"request", "accepted"} : task[n][k].pc = "record"

DecisionsPending == \A n \in Neg : DecisionPending(n)

\* A step that leaves the row's state, and loses no goroutine at work on it.
LEMMA PendingThrough ==
  ASSUME NEW n \in Neg, DecisionPending(n),
         row'[n].state = row[n].state, Advertises(n)' => Advertises(n),
         agreements \subseteq agreements',
         \A k \in TaskIds : Answers(n, k) => Answers(n, k)',
         task'[n]["request"].withdraw = task[n]["request"].withdraw,
         task[n]["withdraw"].pc = "sleep" =>
           \/ task'[n]["withdraw"].pc = "sleep"
           \/ row[n].state # "OFFERED"
           \/ Answers(n, "withdraw")',
         \A k \in {"request", "accepted"} : task[n][k].pc = "record" =>
           \/ task'[n][k].pc = "record"
           \/ row[n].state \notin IssuedStates
           \/ \E a \in agreements' : a.id = n
  PROVE  DecisionPending(n)'
BY DEF DecisionPending, TaskIds

\* A step that does not touch the negotiation's goroutines, or starts the push
\* that ends it.
LEMMA PendingKept ==
  ASSUME NEW n \in Neg, DecisionPending(n),
         row'[n].state = row[n].state, row'[n].dataset = row[n].dataset,
         Exists(n)' => Exists(n),
         agreements \subseteq agreements',
         \A k \in TaskIds \ {"walkaway"} : task'[n][k] = task[n][k]
  PROVE  DecisionPending(n)'
BY DEF DecisionPending, Answers, Advertises, TaskIds

\* The stage a goroutine is in is all that a change of stage changes.
LEMMA StageEffect ==
  ASSUME TypeOK, NEW n \in Neg, NEW k \in TaskIds, NEW pc \in Stages,
         task' = [task EXCEPT ![n][k].pc = pc], NEW m \in Neg, NEW j \in TaskIds
  PROVE  /\ m # n \/ j # k => task'[m][j] = task[m][j]
         /\ task'[m][j].from = task[m][j].from
         /\ task'[m][j].to = task[m][j].to
         /\ task'[m][j].withdraw = task[m][j].withdraw
         /\ m = n /\ j = k => task'[m][j].pc = pc
BY DEF TypeOK, Task

\* What dispatch does once its write is over, goroutine by goroutine.
LEMMA AfterStoreEffect ==
  ASSUME TypeOK, InFlightIsLegal, NEW n \in Neg, NEW k \in TaskIds, task[n][k].pc = "store",
         task' = afterStore(n, k)
  PROVE  /\ \A m \in Neg : m # n => task'[m] = task[m]
         /\ \A j \in TaskIds : j # k =>
              \/ task'[n][j] = task[n][j]
              \/ /\ j = "withdraw" /\ k = "request"
                 /\ task[n][j].pc = "none" /\ task'[n][j].pc = "sleep"
         /\ task'[n][k].withdraw = task[n][k].withdraw
         /\ task[n][k].to = "AGREED" => task'[n][k].pc = "record"
         /\ task[n][k].to = "OFFERED" /\ task[n][k].withdraw => task'[n]["withdraw"].pc = "sleep"
<1>1. CASE task[n][k].to = "AGREED"
  <2>1. task' = [task EXCEPT ![n][k].pc = "record"]
    <3>1. ~task[n][k].withdraw
      BY <1>1, InFlightParts DEF GoroutineLegal
    <3> QED BY <1>1, <3>1 DEF afterStore
  <2>2. \A j \in TaskIds : j # k => task'[n][j] = task[n][j]
    BY <2>1 DEF TypeOK
  <2>3. task'[n][k].pc = "record" /\ task'[n][k].withdraw = task[n][k].withdraw
    BY <2>1 DEF TypeOK, Task
  <2>4. \A m \in Neg : m # n => task'[m] = task[m]
    BY <2>1 DEF TypeOK
  <2> QED BY <1>1, <2>2, <2>3, <2>4
<1>2. CASE task[n][k].to # "AGREED" /\ task[n][k].withdraw
  <2>1. k = "request" /\ task[n]["withdraw"].pc = "none"
    BY <1>2, InFlightParts DEF NegotiationLegal, GoroutineLegal
  <2>2. FallsAsleep(n)
    BY <1>2, <2>1 DEF afterStore, FallsAsleep
  <2>3. /\ task'[n]["request"] = [task[n]["request"] EXCEPT !.pc = "done"]
        /\ task'[n]["withdraw"] = [task[n]["withdraw"] EXCEPT !.pc = "sleep"]
        /\ \A j \in TaskIds : j \notin {"request", "withdraw"} => task'[n][j] = task[n][j]
    BY <2>2, TwoStages DEF TypeOK
  <2>4. task[n]["request"] \in Task /\ task[n]["withdraw"] \in Task
    BY DEF TypeOK, TaskIds
  <2>5. task'[n]["request"].withdraw = task[n]["request"].withdraw
        /\ task'[n]["withdraw"].pc = "sleep"
    BY <2>3, <2>4 DEF Task
  <2>6. \A m \in Neg : m # n => task'[m] = task[m]
    BY <2>2 DEF FallsAsleep, TypeOK
  <2> QED BY <1>2, <2>1, <2>3, <2>5, <2>6
<1>3. CASE task[n][k].to # "AGREED" /\ ~task[n][k].withdraw
  <2>1. task' = [task EXCEPT ![n][k].pc = "done"]
    BY <1>3 DEF afterStore
  <2>2. \A j \in TaskIds : j # k => task'[n][j] = task[n][j]
    BY <2>1 DEF TypeOK
  <2>3. task'[n][k].withdraw = task[n][k].withdraw
    BY <2>1 DEF TypeOK, Task
  <2>4. \A m \in Neg : m # n => task'[m] = task[m]
    BY <2>1 DEF TypeOK
  <2> QED BY <1>3, <2>2, <2>3, <2>4
<1> QED BY <1>1, <1>2, <1>3

\* A write a goroutine makes is the one its state waited for, or is dropped and
\* was waited for by nobody.
LEMMA StorePending ==
  ASSUME TypeOK, InFlightIsLegal, NEW n \in Neg, NEW k \in TaskIds, pushAndStore(n, k),
         NEW m \in Neg, DecisionPending(m)
  PROVE  DecisionPending(m)'
<1> DEFINE from == task[n][k].from
           to == task[n][k].to
<1>1. /\ task[n][k].pc = "store" /\ task' = afterStore(n, k)
      /\ row' = SetState(n, from, to) /\ agreements' = agreements /\ expired' = expired
  BY DEF pushAndStore
<1>2. from \in States /\ to \in States /\ <<from, to>> \in Plans[k]
  BY <1>1, PlanLegal DEF InFlightIsLegal
<1>3. CASE m # n
  <2>1. task'[m] = task[m]
    BY <1>1, <1>3, AfterStoreEffect
  <2>2. row'[m] = row[m]
    BY <1>1, <1>3 DEF SetState, TypeOK
  <2> QED BY <1>1, <2>1, <2>2, PendingKept DEF Exists
<1>4. CASE m = n /\ row[n].state # from
  <2>1. row' = row
    BY <1>1, <1>4 DEF SetState, Holds
  <2>2. \A j \in TaskIds : Answers(n, j) => Answers(n, j)'
    BY <1>1, <1>4, <2>1, AfterStoreEffect DEF Answers
  <2>3. /\ task'[n]["request"].withdraw = task[n]["request"].withdraw
        /\ task[n]["withdraw"].pc = "sleep" => task'[n]["withdraw"].pc = "sleep"
        /\ \A j \in {"request", "accepted"} :
             task[n][j].pc = "record" => task'[n][j].pc = "record"
    BY <1>1, AfterStoreEffect DEF TaskIds
  <2> QED BY <1>1, <1>4, <2>1, <2>2, <2>3, PendingThrough DEF Advertises, Exists
<1>5. CASE m = n /\ row[n].state = from
  <2>1. row'[n].state = to
    <3>1. row[n] \in Row
      BY <1>2, <1>5, RowShape DEF TypeOK
    <3>2. row'[n] = [row[n] EXCEPT !.state = to]
      BY <1>1, <1>5 DEF SetState, Holds, TypeOK
    <3> HIDE DEF to
    <3> QED BY <3>1, <3>2 DEF Row
  <2>2. CASE k = "request"
    <3>1. to \in {"OFFERED", "AGREED", "TERMINATED"}
      BY <1>2, <2>2 DEF Plans
    <3>2. to = "AGREED" => task'[n]["request"].pc = "record"
      BY <1>1, <2>2, AfterStoreEffect
    <3>3. to = "OFFERED" /\ task'[n]["request"].withdraw => task'[n]["withdraw"].pc = "sleep"
      BY <1>1, <2>2, AfterStoreEffect
    <3> HIDE DEF to
    <3> QED BY <1>5, <2>1, <3>1, <3>2, <3>3 DEF DecisionPending, IssuedStates
  <2>3. CASE k = "accepted"
    <3>1. to \in {"AGREED", "TERMINATED"}
      BY <1>2, <2>3 DEF Plans
    <3>2. to = "AGREED" => task'[n]["accepted"].pc = "record"
      BY <1>1, <2>3, AfterStoreEffect
    <3> HIDE DEF to
    <3> QED BY <1>5, <2>1, <3>1, <3>2 DEF DecisionPending, IssuedStates
  <2>4. CASE k = "verified"
    <3>1. from = "VERIFIED" /\ to \in {"FINALIZED", "TERMINATED"}
      BY <1>2, <2>4 DEF Plans
    <3>2. \A j \in {"request", "accepted"} : task'[n][j] = task[n][j]
      BY <1>1, <2>4, AfterStoreEffect DEF TaskIds
    <3>3. \/ \E a \in agreements' : a.id = n
          \/ \E j \in {"request", "accepted"} : task'[n][j].pc = "record"
      BY <1>1, <1>5, <3>1, <3>2 DEF DecisionPending, IssuedStates
    <3> HIDE DEF to
    <3> QED BY <1>5, <2>1, <3>1, <3>3 DEF DecisionPending
  <2>5. CASE k \in {"walkaway", "withdraw"}
    <3>1. to = "TERMINATED"
      BY <1>2, <2>5 DEF Plans
    <3> HIDE DEF to
    <3> QED BY <1>5, <2>1, <3>1 DEF DecisionPending, IssuedStates
  <2> QED BY <2>2, <2>3, <2>4, <2>5 DEF TaskIds
<1> QED BY <1>3, <1>4, <1>5

\* A change of stage that ends no push, and no record that is still owed.
LEMMA StagePending ==
  ASSUME TypeOK, NEW n \in Neg, NEW k \in TaskIds, NEW pc \in Stages,
         task' = [task EXCEPT ![n][k].pc = pc], row' = row, agreements \subseteq agreements',
         Answers(n, k) => pc \in {"push", "store"},
         task[n][k].pc = "sleep" => row[n].state # "OFFERED",
         task[n][k].pc = "record" =>
           row[n].state \notin IssuedStates \/ \E a \in agreements' : a.id = n,
         NEW m \in Neg, DecisionPending(m)
  PROVE  DecisionPending(m)'
<1>1. \A j \in TaskIds : Answers(m, j) => Answers(m, j)'
  BY StageEffect DEF Answers
<1>2. \A j \in TaskIds : m # n \/ j # k => task'[m][j] = task[m][j]
  BY StageEffect
<1>3. "request" \in TaskIds /\ "accepted" \in TaskIds /\ "withdraw" \in TaskIds
  BY DEF TaskIds
<1>4. task'[m]["request"].withdraw = task[m]["request"].withdraw
  BY <1>3, StageEffect
<1>5. /\ task[m]["withdraw"].pc = "sleep" =>
           task'[m]["withdraw"].pc = "sleep" \/ row[m].state # "OFFERED"
      /\ \A j \in {"request", "accepted"} : task[m][j].pc = "record" =>
           \/ task'[m][j].pc = "record"
           \/ row[m].state \notin IssuedStates
           \/ \E a \in agreements' : a.id = m
  BY <1>2, <1>3
<1> QED BY <1>1, <1>4, <1>5, PendingThrough DEF Advertises, Exists

\* The steps of the goroutines.
LEMMA RunPending ==
  ASSUME TypeOK, InFlightIsLegal, NEW n \in Neg, NEW k \in TaskIds, Run(n, k),
         NEW m \in Neg, DecisionPending(m)
  PROVE  DecisionPending(m)'
<1>1. CASE endPush(n, k)
  BY <1>1, StagePending DEF endPush, Stages
<1>2. CASE pushAndStore(n, k)
  BY <1>2, StorePending
<1>3. CASE k = "withdraw" /\ delayedTerminate(n)
  <2>1. CASE row[n].state = "OFFERED"
    <3> DEFINE t == pushing("OFFERED", "TERMINATED", FALSE)
    <3>1. t.pc = "push" /\ t.from = "OFFERED"
      BY DEF pushing
    <3> HIDE DEF t
    <3>2. /\ task' = [task EXCEPT ![n]["withdraw"] = t]
          /\ task[n]["withdraw"].pc = "sleep" /\ row' = row /\ agreements' = agreements
      BY <1>3, <2>1 DEF delayedTerminate, t
    <3>3. \A j \in TaskIds : m # n \/ j # "withdraw" => task'[m][j] = task[m][j]
      BY <3>2 DEF TypeOK
    <3>4. task'[n]["withdraw"] = t
      BY <3>2 DEF TypeOK, TaskIds
    <3>5. \A j \in TaskIds : Answers(m, j) => Answers(m, j)'
      BY <3>1, <3>2, <3>3, <3>4 DEF Answers
    <3>6. /\ task'[m]["request"] = task[m]["request"]
          /\ task'[m]["accepted"] = task[m]["accepted"]
          /\ m # n => task'[m]["withdraw"] = task[m]["withdraw"]
          /\ m = n => Answers(m, "withdraw")'
      BY <2>1, <3>1, <3>2, <3>3, <3>4 DEF TaskIds, Answers
    <3> QED BY <3>2, <3>5, <3>6, PendingThrough DEF Advertises, Exists
  <2>2. CASE row[n].state # "OFFERED"
    <3>1. /\ task' = [task EXCEPT ![n]["withdraw"].pc = "done"]
          /\ task[n]["withdraw"].pc = "sleep" /\ row' = row /\ agreements' = agreements
      BY <1>3, <2>2 DEF delayedTerminate
    <3>2. ~Answers(n, "withdraw")
      BY <3>1 DEF Answers
    <3> QED BY <1>3, <2>2, <3>1, <3>2, StagePending DEF Stages
  <2> QED BY <2>1, <2>2
<1>4. CASE CreateAgreementIfNegotiationAgreed(n, k)
  <2>1. /\ task' = [task EXCEPT ![n][k].pc = "done"]
        /\ task[n][k].pc = "record" /\ row' = row /\ agreements \subseteq agreements'
    BY <1>4 DEF CreateAgreementIfNegotiationAgreed
  <2>2. row[n].state \in IssuedStates => \E a \in agreements' : a.id = n
    <3> SUFFICES ASSUME row[n].state \in IssuedStates, \A a \in agreements : a.id # n
                 PROVE  \E a \in agreements' : a.id = n
      BY <2>1
    <3> DEFINE b == [id |-> n, dataset |-> row[n].dataset, party |-> row[n].party]
    <3>1. b \in agreements'
      BY <1>4 DEF CreateAgreementIfNegotiationAgreed
    <3>2. b.id = n
      OBVIOUS
    <3> QED BY <3>1, <3>2
  <2>3. ~Answers(n, k)
    BY <2>1 DEF Answers
  <2> QED BY <2>1, <2>2, <2>3, StagePending DEF Stages
<1> QED BY <1>1, <1>2, <1>3, <1>4 DEF Run

\* A request that starts no goroutine but the one that walks away.
LEMMA LookupPending ==
  ASSUME NEW m \in Neg, DecisionPending(m), UNCHANGED <<row, agreements, task>>
  PROVE  DecisionPending(m)'
BY PendingKept DEF Exists

\* A new negotiation starts the goroutine that answers it, if its dataset is one
\* this connector advertises.
LEMMA RequestPending ==
  ASSUME TypeOK, NEW h \in Handlers, NEW n \in Neg, NEW who \in Participants, NEW d \in Datasets,
         NEW matches \in BOOLEAN, handleContractRequest(h, n, d, matches, who),
         NEW m \in Neg, DecisionPending(m)
  PROVE  DecisionPending(m)'
<1> DEFINE t == dispatch("REQUESTED", decideInitialRequest(d \in Advertised, matches, isValid(d)))
<1>1. /\ d \in Advertised => t.pc = "push"
      /\ t.pc = "push" => t.from = "REQUESTED"
  BY RequestDispatch DEF Plans
<1> HIDE DEF t
<1>2. task' = [task EXCEPT ![n]["request"] = t] /\ agreements' = agreements
  BY DEF handleContractRequest, t
<1>3. /\ row'[n].state = "REQUESTED" /\ row'[n].dataset = d
      /\ \A i \in Neg : i # n => row'[i] = row[i]
  BY DEF handleContractRequest, TypeOK
<1>4. CASE m # n
  <2>1. task'[m] = task[m]
    BY <1>2, <1>4 DEF TypeOK
  <2> QED BY <1>2, <1>3, <1>4, <2>1, PendingKept DEF Exists
<1>5. CASE m = n
  <2>1. task'[n]["request"] = t
    BY <1>2 DEF TypeOK, TaskIds
  <2>2. d \in Advertised => Answers(n, "request")'
    BY <1>1, <1>3, <2>1 DEF Answers
  <2> QED BY <1>3, <1>5, <2>2 DEF DecisionPending, Advertises, IssuedStates
<1> QED BY <1>4, <1>5

\* The writes of the requests: a granted one starts the goroutine that the state
\* it stores waits for.
LEMMA ServePending ==
  ASSUME TypeOK, InFlightIsLegal, NEW h \in Handlers, Serve(h), NEW m \in Neg, DecisionPending(m)
  PROVE  DecisionPending(m)'
<1> DEFINE n == handler[h].neg
<1>1. CASE storeReRequest(h)
  <2>1. n \in Neg /\ row[n] \in Row
    BY <1>1, WriteLegal DEF storeReRequest, Ops
  <2>2. /\ row' = row \/ row' = [row EXCEPT ![n].rerequested = TRUE]
        /\ agreements' = agreements
    BY <1>1 DEF storeReRequest
  <2>3. row'[m].state = row[m].state /\ row'[m].dataset = row[m].dataset /\ (Exists(m)' => Exists(m))
    <3>1. CASE row'[m] = row[m]
      BY <3>1 DEF Exists
    <3>2. CASE m = n /\ row'[n] = [row[n] EXCEPT !.rerequested = TRUE]
      BY <2>1, <3>2 DEF Row, Exists, NoRow
    <3> HIDE DEF n
    <3> QED BY <2>1, <2>2, <3>1, <3>2 DEF TypeOK
  <2>4. \A j \in TaskIds \ {"walkaway"} : task'[m][j] = task[m][j]
    <3> DEFINE t == pushing(handler[h].seen, "TERMINATED", FALSE)
    <3>1. task' = task \/ task' = [task EXCEPT ![n]["walkaway"] = t]
      BY <1>1 DEF storeReRequest
    <3> HIDE DEF n, t
    <3> QED BY <2>1, <3>1 DEF TypeOK
  <2> QED BY <2>2, <2>3, <2>4, PendingKept
<1>2. CASE storeAccepted(h)
  <2> DEFINE d == row[n].dataset
             t == dispatch("ACCEPTED", decideAccept(d \in Advertised, isValid(d)))
  <2>1. n \in Neg /\ handler[h].seen = "OFFERED"
    BY <1>2, WriteLegal DEF storeAccepted, SeenBy, Ops
  <2>2. t.pc = "push" /\ t.from = "ACCEPTED"
    <3>1. isValid(d) \in BOOLEAN /\ (d \in Advertised) \in BOOLEAN
      BY DEF isValid
    <3>2. t.pc = "push" /\ <<t.from, t.to>> \in Plans["accepted"]
      BY <3>1, AcceptDispatch
    <3> HIDE DEF t
    <3> QED BY <3>2 DEF Plans
  <2> HIDE DEF t
  <2>3. /\ row' = SetState(n, "OFFERED", "ACCEPTED") /\ agreements' = agreements
        /\ task' = IF Holds(n, "OFFERED") THEN [task EXCEPT ![n]["accepted"] = t] ELSE task
    BY <1>2, <2>1 DEF storeAccepted, t
  <2> HIDE DEF n
  <2>4. CASE m # n \/ ~Holds(n, "OFFERED")
    <3>1. row'[m] = row[m] /\ task'[m] = task[m]
      BY <2>3, <2>4 DEF SetState, TypeOK
    <3> QED BY <2>3, <3>1, PendingKept DEF Exists
  <2>5. CASE m = n /\ Holds(n, "OFFERED")
    <3>1. row'[n].state = "ACCEPTED"
      <4>1. row[n] \in Row
        BY <2>1, <2>5, RowShape DEF TypeOK, Holds, States
      <4>2. row'[n] = [row[n] EXCEPT !.state = "ACCEPTED"]
        BY <2>1, <2>3, <2>5 DEF SetState, TypeOK
      <4> QED BY <4>1, <4>2 DEF Row
    <3>2. task'[n]["accepted"] = t
      BY <2>1, <2>3, <2>5 DEF TypeOK, TaskIds
    <3> QED BY <2>2, <2>5, <3>1, <3>2 DEF DecisionPending, Answers, IssuedStates
  <2> QED BY <2>4, <2>5
<1>3. CASE storeVerified(h)
  <2> DEFINE to == IF row[n].dataset \in TerminateOnVerify THEN "TERMINATED" ELSE "FINALIZED"
             t == pushing("VERIFIED", to, FALSE)
  <2>1. n \in Neg /\ handler[h].seen = "AGREED"
    BY <1>3, WriteLegal DEF storeVerified, SeenBy, Ops
  <2>2. t.pc = "push" /\ t.from = "VERIFIED"
    BY DEF pushing
  <2> HIDE DEF t
  <2>3. /\ row' = SetState(n, "AGREED", "VERIFIED") /\ agreements' = agreements
        /\ task' = IF Holds(n, "AGREED") THEN [task EXCEPT ![n]["verified"] = t] ELSE task
    BY <1>3, <2>1 DEF storeVerified, t
  <2> HIDE DEF n
  <2>4. CASE m # n \/ ~Holds(n, "AGREED")
    <3>1. row'[m] = row[m] /\ task'[m] = task[m]
      BY <2>3, <2>4 DEF SetState, TypeOK
    <3> QED BY <2>3, <3>1, PendingKept DEF Exists
  <2>5. CASE m = n /\ Holds(n, "AGREED")
    <3>1. row'[n].state = "VERIFIED" /\ row[n].state \in IssuedStates
      <4>1. row[n] \in Row
        BY <2>1, <2>5, RowShape DEF TypeOK, Holds, States
      <4>2. row'[n] = [row[n] EXCEPT !.state = "VERIFIED"]
        BY <2>1, <2>3, <2>5 DEF SetState, TypeOK
      <4> QED BY <2>5, <4>1, <4>2 DEF Row, Holds, IssuedStates
    <3>2. /\ task'[n]["verified"] = t
          /\ \A j \in {"request", "accepted"} : task'[n][j] = task[n][j]
      BY <2>1, <2>3, <2>5 DEF TypeOK, TaskIds
    <3> QED BY <2>2, <2>3, <2>5, <3>1, <3>2 DEF DecisionPending, Answers
  <2> QED BY <2>4, <2>5
<1>4. CASE storeTermination(h)
  <2>1. n \in Neg /\ handler[h].seen \in States
    BY <1>4, WriteLegal DEF storeTermination, Ops
  <2>2. row' = SetState(n, handler[h].seen, "TERMINATED") /\ UNCHANGED <<agreements, task>>
    BY <1>4 DEF storeTermination
  <2> HIDE DEF n
  <2>3. CASE m # n \/ ~Holds(n, handler[h].seen)
    <3>1. row'[m] = row[m]
      BY <2>2, <2>3 DEF SetState, TypeOK
    <3> QED BY <2>2, <3>1, PendingKept DEF Exists
  <2>4. CASE m = n /\ Holds(n, handler[h].seen)
    <3>1. row[n] \in Row
      BY <2>1, <2>4, RowShape DEF TypeOK, Holds
    <3>2. row'[n] = [row[n] EXCEPT !.state = "TERMINATED"]
      BY <2>1, <2>2, <2>4 DEF SetState, TypeOK
    <3>3. row'[n].state = "TERMINATED"
      BY <3>1, <3>2 DEF Row
    <3> QED BY <2>4, <3>3 DEF DecisionPending, IssuedStates
  <2> QED BY <2>3, <2>4
<1>5. CASE return(h)
  BY <1>5, LookupPending DEF return
<1> QED BY <1>1, <1>2, <1>3, <1>4, <1>5 DEF Serve

LEMMA PendingStep ==
  ASSUME TypeOK, InFlightIsLegal, DecisionsPending, [Work]_vars
  PROVE  DecisionsPending'
<1> SUFFICES ASSUME NEW m \in Neg PROVE DecisionPending(m)'
  BY DEF DecisionsPending
<1>1. DecisionPending(m)
  BY DEF DecisionsPending
<1>2. CASE Request
  <2>1. PICK h \in Handlers, n \in Neg, who \in Participants :
          \/ \E d \in Datasets, matches \in BOOLEAN : handleContractRequest(h, n, d, matches, who)
          \/ \E same \in BOOLEAN : handleReRequest(h, n, who, same)
          \/ handleProviderAcceptedEvent(h, n, who)
          \/ handleVerification(h, n, who)
          \/ handleProviderTermination(h, n, who)
    BY <1>2 DEF Request
  <2>2. CASE \E d \in Datasets, matches \in BOOLEAN : handleContractRequest(h, n, d, matches, who)
    BY <1>1, <2>2, RequestPending
  <2>3. CASE UNCHANGED <<row, agreements, expired, task>>
    BY <1>1, <2>3, LookupPending
  <2> QED BY <2>1, <2>2, <2>3, LookupFrame
<1>3. CASE \E h \in Handlers : Serve(h)
  BY <1>1, <1>3, ServePending
<1>4. CASE \E n \in Neg, k \in TaskIds : Run(n, k)
  BY <1>1, <1>4, RunPending
<1>5. CASE (\E d \in Limited : expire(d)) \/ UNCHANGED vars
  BY <1>1, <1>5, LookupPending DEF expire, vars
<1> QED BY <1>2, <1>3, <1>4, <1>5 DEF Work

\* While nothing fails, no negotiation is left in a state nobody will take it out
\* of: an answer, an agreement, an end or a withdrawal that is due has a goroutine
\* on its way to store it, on a copy of the row that is still current, and an
\* agreement that is announced is recorded or about to be.  The safety that
\* EveryDecisionLands and AgreedIsRecorded rest on; what remains is that
\* goroutines go on.
THEOREM DecisionsAreInFlight == FairSpec => []DecisionsPending
<1>1. Init => DecisionsPending
  BY DEF Init, DecisionsPending, DecisionPending, NoRow, Advertises, Exists, IssuedStates
<1>2. IInv /\ [Work]_vars => IInv'
  BY Inductive DEF Next
<1>3. IInv => TypeOK /\ InFlightIsLegal
  BY DEF IInv
<1>4. IInv /\ DecisionsPending /\ [Work]_vars => DecisionsPending'
  BY <1>3, PendingStep
<1>5. Init /\ [][Work]_vars => []DecisionsPending
  BY <1>1, <1>2, <1>4, Initially, PTL
<1> QED BY <1>5, PTL DEF FairSpec
=============================================================================
