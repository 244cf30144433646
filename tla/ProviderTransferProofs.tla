-------------------------- MODULE ProviderTransferProofs --------------------------
(***************************************************************************)
(* Theorems about ProviderTransfer, for any transfers, agreements,         *)
(* participants, datasets and requests, and any configured sequences.      *)
(***************************************************************************)
EXTENDS ProviderTransfer, TLAPS

-----------------------------------------------------------------------------
(* The inductive invariant *)

\* What holds of a driver: InFlightIsLegal, and where its copy starts.
DriverLegal(t) ==
  /\ Exists(t) <=> driver[t].pc # "none"
  /\ Exists(t) => row[t].state \in Past(driver[t].at)
  /\ driver[t].pc \in {"sleep", "push", "store"} => driver[t].todo # <<>>
  /\ driver[t].pc \in {"push", "store"} =>
       driver[t].at \in transferStepMessage(Head(driver[t].todo))
  /\ driver[t].pc \in {"none", "begin"} => driver[t].at = "REQUESTED"

\* What holds of a request being served.
HandlerLegal(h) ==
  /\ handler[h].pc # "idle" => Exists(handler[h].transfer)
  /\ handler[h].pc = "write" =>
       /\ handler[h].seen \in providerInboundLegalFrom(handler[h].to)
       /\ row[handler[h].transfer].state \in Past(handler[h].seen)

IInv ==
  /\ TypeOK
  /\ \A t \in Transfers : DriverLegal(t)
  /\ \A h \in Handlers : HandlerLegal(h)
  /\ GateHolds
  /\ StartedByProvider

-----------------------------------------------------------------------------
(* Helpers *)

\* The kinds of steps.
LEMMA Cases ==
  ASSUME [Next]_vars
  PROVE  \/ \E a \in Agreements, origin \in Origins, d \in Datasets,
               p \in Participants \cup {""} : CreateAgreement(a, origin, d, p)
         \/ \E t \in Transfers, a \in Agreements, who \in Participants :
              handleTransferRequest(t, a, who)
         \/ \E h \in Handlers, t \in Transfers, to \in Targets, who \in Participants :
              lookup(h, t, to, who)
         \/ \E h \in Handlers : setTransferState(h)
         \/ \E h \in Handlers, t \in Transfers, who \in Participants : handleData(h, t, who)
         \/ \E h \in Handlers : openSource(h) \/ copyUnderRollingDeadline(h) \/ failHandler(h)
         \/ \E t \in Transfers : driveTransfer(t) \/ failRead(t)
         \/ \E t \in Transfers : wake(t) \/ endPush(t) \/ failStep(t)
         \/ \E t \in Transfers : pushTransferStep(t)
         \/ \E d \in Limited : close(d)
         \/ crash
         \/ UNCHANGED vars
<1>1. Agree => \E a \in Agreements, origin \in Origins, d \in Datasets,
                 p \in Participants \cup {""} : CreateAgreement(a, origin, d, p)
  BY DEF Agree, importAgreement, concludeAgreement, Origins
<1> QED
  BY <1>1 DEF Next, TransferWork, Request, Serve, Run, Fault

\* A configured sequence names targets.
LEMMA SequenceType ==
  ASSUME NEW a, NEW datasets
  PROVE  resolveTransferSequence(a, datasets) \in Seq(Targets)
<1>1. a \in DOMAIN TransferPolicies => TransferPolicies[a] \in Seq(Targets)
  BY ConfigAssumption
<1>2. \A d \in DOMAIN TransferSequences : TransferSequences[d] \in Seq(Targets)
  BY ConfigAssumption
<1>3. <<"STARTED">> \in Seq(Targets)
  BY DEF Targets, States
<1> QED
  BY <1>1, <1>2, <1>3 DEF resolveTransferSequence

\* Onward is a driver with the todo it was given.
LEMMA OnwardType ==
  ASSUME NEW at \in States, NEW todo \in Seq(Targets)
  PROVE  /\ onward(at, todo) \in Driver
         /\ onward(at, todo).at = at
         /\ onward(at, todo).pc \in {"sleep", "done"}
         /\ onward(at, todo).pc = "sleep" => onward(at, todo).todo # <<>>
  BY DEF onward, Driver

\* What the types say of the parts of a row, a driver and a handler.
LEMMA RowType ==
  ASSUME TypeOK, NEW t \in Transfers
  PROVE  /\ Exists(t) => row[t] \in Row /\ row[t].state \in States
         /\ ~Exists(t) => row[t] = NoRow /\ row[t].state = "NONE"
         /\ row[t].state \in States => Exists(t)
         /\ driver[t] \in Driver
  BY DEF TypeOK, Exists, Row, NoRow, States

\* The kinds of requests by their stage.
LEMMA HandlerType ==
  ASSUME TypeOK, NEW h \in Handlers
  PROVE  /\ handler[h] \in {Idle} \cup Writing \cup Serving
         /\ handler[h].pc = "write" => handler[h] \in Writing
         /\ handler[h].pc \in {"admitted", "stream"} => handler[h] \in Serving
         /\ handler[h].pc \notin {"write", "admitted", "stream"} => handler[h] = Idle
  BY DEF TypeOK, Idle, Writing, Serving

\* What a message or a step may be written from, it is legal from.
LEMMA LegalMoves ==
  ASSUME NEW to \in Targets, NEW from
  PROVE  /\ from \in providerInboundLegalFrom(to) => from \in transferStepMessage(to)
         /\ from \in transferStepMessage(to) =>
              /\ from \in States /\ <<from, to>> \in Contract!Legal
              /\ to \in Past(from)
         /\ from \in providerInboundLegalFrom(to) /\ to # "TERMINATED" =>
              from \in {"STARTED", "SUSPENDED"}
  BY DEF providerInboundLegalFrom, providerInboundStartLegalFrom, transferStepMessage,
         startLegalFrom, suspensionLegalFrom, completionLegalFrom, terminationLegalFrom,
         Targets, States, Contract!Legal, Past

\* The past grows.
LEMMA PastGrows ==
  ASSUME NEW a \in States, NEW b \in Past(a), NEW c \in Past(b)
  PROVE  a \in Past(a) /\ c \in Past(a) /\ b \in States
  BY DEF Past, States

-----------------------------------------------------------------------------
(* Types *)

\* A conditional write keeps the type of the table.
LEMMA SetType ==
  ASSUME TypeOK, NEW t \in Transfers, NEW from \in States, NEW to \in Targets
  PROVE  SetTransferState(t, from, to) \in [Transfers -> {NoRow} \cup Row]
<1>1. CASE Holds(t, from)
  <2>1. row[t] \in Row
    BY <1>1, RowType DEF Holds
  <2>2. [row[t] EXCEPT !.state = to] \in Row
    BY <2>1 DEF Row, Targets
  <2> QED
    BY <1>1, <2>2 DEF SetTransferState, TypeOK
<1>2. CASE ~Holds(t, from)
  BY <1>2 DEF SetTransferState, TypeOK
<1> QED
  BY <1>1, <1>2

\* The types hold at first, and every step keeps them.
LEMMA TypeStep ==
  /\ Init => TypeOK
  /\ TypeOK /\ (\A t \in Transfers : DriverLegal(t)) /\ [Next]_vars => TypeOK'
<1>1. Init => TypeOK
  BY DEF Init, TypeOK, NoDriver, Driver, States
<1> SUFFICES ASSUME TypeOK, \A t \in Transfers : DriverLegal(t), [Next]_vars
             PROVE  TypeOK'
  BY <1>1
<1>2. ASSUME NEW a \in Agreements, NEW origin \in Origins, NEW d \in Datasets,
             NEW p \in Participants \cup {""}, CreateAgreement(a, origin, d, p)
      PROVE  TypeOK'
  <2>1. [origin |-> origin, dataset |-> d, party |-> p] \in Agreement
    BY DEF Agreement
  <2>2. agreement' \in [Agreements -> {NoAgreement} \cup Agreement]
    BY <1>2, <2>1 DEF CreateAgreement, TypeOK
  <2> QED
    BY <1>2, <2>2 DEF CreateAgreement, TypeOK
<1>3. ASSUME NEW t \in Transfers, NEW a \in Agreements, NEW who \in Participants,
             handleTransferRequest(t, a, who)
      PROVE  TypeOK'
  <2>1. [state |-> "REQUESTED", agreement |-> a, party |-> who] \in Row
    BY DEF Row, States
  <2>2. [NoDriver EXCEPT !.pc = "begin"] \in Driver
    <3>1. NoDriver \in Driver
      BY DEF NoDriver, Driver, States
    <3> QED
      BY <3>1 DEF Driver
  <2>3. row' \in [Transfers -> {NoRow} \cup Row] /\ driver' \in [Transfers -> Driver]
    BY <1>3, <2>1, <2>2 DEF handleTransferRequest, TypeOK
  <2> QED
    BY <1>3, <2>3 DEF handleTransferRequest, TypeOK
<1>4. ASSUME NEW h \in Handlers, NEW t \in Transfers, NEW to \in Targets,
             NEW who \in Participants, lookup(h, t, to, who)
      PROVE  TypeOK'
  <2>1. row[t].state \in States
    BY <1>4, RowType DEF lookup
  <2>2. [pc |-> "write", transfer |-> t, to |-> to, seen |-> row[t].state] \in Writing
    BY <2>1 DEF Writing
  <2>3. handler' \in [Handlers -> {Idle} \cup Writing \cup Serving]
    BY <1>4, <2>2 DEF lookup, TypeOK
  <2> QED
    BY <1>4, <2>3 DEF lookup, TypeOK
<1>5. ASSUME NEW h \in Handlers, setTransferState(h) PROVE TypeOK'
  <2>1. handler[h] \in Writing
    BY <1>5, HandlerType DEF setTransferState
  <2>2. row' \in [Transfers -> {NoRow} \cup Row]
    BY <1>5, <2>1, SetType DEF setTransferState, Writing
  <2>3. handler' \in [Handlers -> {Idle} \cup Writing \cup Serving]
    BY <1>5 DEF setTransferState, TypeOK
  <2> QED
    BY <1>5, <2>2, <2>3 DEF setTransferState, TypeOK
<1>6. ASSUME NEW h \in Handlers, NEW t \in Transfers, NEW who \in Participants,
             handleData(h, t, who)
      PROVE  TypeOK'
  <2>1. handler' \in [Handlers -> {Idle} \cup Writing \cup Serving]
    BY <1>6 DEF handleData, TypeOK, Serving
  <2> QED
    BY <1>6, <2>1 DEF handleData, TypeOK
<1>7. ASSUME NEW h \in Handlers,
             openSource(h) \/ copyUnderRollingDeadline(h) \/ failHandler(h)
      PROVE  TypeOK'
  <2>1. CASE openSource(h)
    <3>1. handler[h] \in Serving
      BY <2>1, HandlerType DEF openSource
    <3>2. [handler[h] EXCEPT !.pc = "stream"] \in Serving
      BY <3>1 DEF Serving
    <3>3. handler' \in [Handlers -> {Idle} \cup Writing \cup Serving]
      BY <2>1, <3>2 DEF openSource, TypeOK
    <3> QED
      BY <2>1, <3>3 DEF openSource, TypeOK
  <2>2. CASE copyUnderRollingDeadline(h) \/ failHandler(h)
    BY <2>2 DEF copyUnderRollingDeadline, failHandler, TypeOK
  <2> QED
    BY <1>7, <2>1, <2>2
<1>8. ASSUME NEW t \in Transfers, driveTransfer(t) \/ failRead(t) PROVE TypeOK'
  <2>1. PICK todo \in Seq(Targets) : driver' = [driver EXCEPT ![t] = onward("REQUESTED", todo)]
    BY <1>8, SequenceType DEF driveTransfer, failRead
  <2>2. onward("REQUESTED", todo) \in Driver
    BY OnwardType DEF States
  <2>3. driver' \in [Transfers -> Driver]
    BY <2>1, <2>2 DEF TypeOK
  <2> QED
    BY <1>8, <2>3 DEF driveTransfer, failRead, TypeOK
<1>9. ASSUME NEW t \in Transfers, wake(t) \/ endPush(t) \/ failStep(t) PROVE TypeOK'
  <2>1. PICK pc \in {"push", "store", "done"} : driver' = [driver EXCEPT ![t].pc = pc]
    BY <1>9 DEF wake, endPush, failStep
  <2>2. [driver[t] EXCEPT !.pc = pc] \in Driver
    BY RowType DEF Driver
  <2>3. driver' \in [Transfers -> Driver]
    BY <2>1, <2>2 DEF TypeOK
  <2> QED
    BY <1>9, <2>3 DEF wake, endPush, failStep, TypeOK
<1>10. ASSUME NEW t \in Transfers, pushTransferStep(t) PROVE TypeOK'
  <2> DEFINE to == Head(driver[t].todo)
  <2>1. driver[t] \in Driver /\ driver[t].at \in States /\ driver[t].todo \in Seq(Targets)
    BY RowType DEF Driver
  <2>2. CASE Holds(t, driver[t].at)
    <3>0. driver[t].todo # <<>>
      BY <1>10 DEF pushTransferStep, DriverLegal
    <3>1. to \in Targets /\ Tail(driver[t].todo) \in Seq(Targets)
      BY <2>1, <3>0
    <3>2. onward(to, Tail(driver[t].todo)) \in Driver
      BY <3>1, OnwardType DEF Targets
    <3>3. row' \in [Transfers -> {NoRow} \cup Row]
      BY <1>10, <2>1, <3>1, SetType DEF pushTransferStep
    <3>4. driver' \in [Transfers -> Driver]
      BY <1>10, <2>2, <3>2 DEF pushTransferStep, TypeOK
    <3> QED
      BY <1>10, <3>3, <3>4 DEF pushTransferStep, TypeOK
  <2>3. CASE ~Holds(t, driver[t].at)
    <3>1. [driver[t] EXCEPT !.pc = "done"] \in Driver
      BY <2>1 DEF Driver
    <3>2. driver' \in [Transfers -> Driver]
      BY <1>10, <2>3, <3>1 DEF pushTransferStep, TypeOK
    <3> QED
      BY <1>10, <2>3, <3>2 DEF pushTransferStep, SetTransferState, TypeOK
  <2> QED
    BY <2>2, <2>3
<1>11. ASSUME NEW d \in Limited, close(d) PROVE TypeOK'
  BY <1>11 DEF close, TypeOK
<1>12. CASE crash
  BY <1>12, RowType DEF crash, TypeOK, Driver
<1>13. CASE UNCHANGED vars
  BY <1>13 DEF vars, TypeOK
<1> QED
  BY <1>2, <1>3, <1>4, <1>5, <1>6, <1>7, <1>8, <1>9, <1>10, <1>11, <1>12, <1>13, Cases

-----------------------------------------------------------------------------
(* Rows *)

\* A row is left as it is but for its state, which only goes forward.
Kept(u) ==
  Exists(u) =>
    /\ Exists(u)'
    /\ row'[u].agreement = row[u].agreement
    /\ row'[u].party = row[u].party
    /\ row'[u].state \in Past(row[u].state)

\* A conditional write that is legal takes its row one step, or does nothing.
LEMMA SetEffect ==
  ASSUME TypeOK, NEW t \in Transfers, NEW to \in Targets,
         NEW from \in transferStepMessage(to), row' = SetTransferState(t, from, to)
  PROVE  /\ ~Holds(t, from) => row' = row
         /\ Holds(t, from) =>
              /\ row' = [row EXCEPT ![t].state = to]
              /\ row[t].state = from /\ row[t] \in Row
              /\ row'[t] = [row[t] EXCEPT !.state = to]
              /\ \A u \in Transfers \ {t} : row'[u] = row[u]
         /\ \A u \in Transfers : Kept(u) /\ (Exists(u)' => Exists(u))
<1>1. from \in States /\ to \in Past(from)
  BY LegalMoves
<1>2. CASE ~Holds(t, from)
  <2>1. row' = row
    BY <1>2 DEF SetTransferState
  <2>2. \A u \in Transfers : Exists(u) => row[u].state \in Past(row[u].state)
    BY RowType, PastGrows DEF Past
  <2> QED
    BY <1>2, <2>1, <2>2 DEF Kept, Exists
<1>3. CASE Holds(t, from)
  <2>1. row[t].state = from /\ row[t] \in Row /\ Exists(t)
    BY <1>1, <1>3, RowType DEF Holds
  <2>2. row' = [row EXCEPT ![t].state = to]
    BY <1>3 DEF SetTransferState
  <2>3. row'[t] = [row[t] EXCEPT !.state = to] /\ row'[t] \in Row
    BY <2>1, <2>2 DEF TypeOK, Row, Targets
  <2>4. \A u \in Transfers \ {t} : row'[u] = row[u]
    BY <2>2 DEF TypeOK
  <2>5. row'[t] # NoRow
    BY <2>3 DEF Row, NoRow
  <2>6. Kept(t) /\ Exists(t)'
    BY <1>1, <2>1, <2>3, <2>5 DEF Kept, Exists, Row
  <2>7. \A u \in Transfers \ {t} : Kept(u) /\ (Exists(u)' => Exists(u))
    BY <2>4, RowType DEF Kept, Exists, Past
  <2> QED
    BY <1>3, <2>1, <2>2, <2>3, <2>4, <2>6, <2>7
<1> QED
  BY <1>2, <1>3

\* What a message writes, it may write.
LEMMA MessageIsLegal ==
  ASSUME IInv, NEW h \in Handlers, setTransferState(h)
  PROVE  /\ handler[h] \in Writing
         /\ handler[h].transfer \in Transfers /\ Exists(handler[h].transfer)
         /\ handler[h].to \in Targets
         /\ handler[h].seen \in providerInboundLegalFrom(handler[h].to)
         /\ handler[h].seen \in transferStepMessage(handler[h].to)
<1>1. handler[h] \in Writing /\ handler[h].pc = "write"
  BY HandlerType DEF setTransferState, IInv
<1>2. handler[h].to \in Targets /\ handler[h].transfer \in Transfers
  BY <1>1 DEF Writing
<1>3. Exists(handler[h].transfer) /\ handler[h].seen \in providerInboundLegalFrom(handler[h].to)
  BY <1>1 DEF IInv, HandlerLegal
<1> QED
  BY <1>1, <1>2, <1>3, LegalMoves

\* What a driver writes, it may write.
LEMMA StepIsLegal ==
  ASSUME IInv, NEW t \in Transfers, pushTransferStep(t)
  PROVE  /\ Exists(t)
         /\ driver[t].todo \in Seq(Targets) /\ driver[t].todo # <<>>
         /\ Head(driver[t].todo) \in Targets
         /\ driver[t].at \in transferStepMessage(Head(driver[t].todo))
<1>1. driver[t].todo \in Seq(Targets)
  BY RowType DEF IInv, Driver
<1>2. /\ Exists(t) /\ driver[t].todo # <<>>
      /\ driver[t].at \in transferStepMessage(Head(driver[t].todo))
  BY DEF pushTransferStep, IInv, DriverLegal
<1> QED
  BY <1>1, <1>2

\* Every step keeps the rows there are, and adds at most the one requested.
LEMMA RowStep ==
  ASSUME IInv, [Next]_vars
  PROVE  /\ \A u \in Transfers : Kept(u)
         /\ \/ \E t \in Transfers, a \in Agreements, who \in Participants :
                 handleTransferRequest(t, a, who)
            \/ \A u \in Transfers : Exists(u)' => Exists(u)
<1>1. ASSUME row' = row
      PROVE  \A u \in Transfers : Kept(u) /\ (Exists(u)' => Exists(u))
  BY <1>1, RowType DEF Kept, Exists, IInv, Past, States
<1>2. ASSUME NEW t \in Transfers, NEW a \in Agreements, NEW who \in Participants,
             handleTransferRequest(t, a, who)
      PROVE  \A u \in Transfers : Kept(u)
  <2>1. ~Exists(t) /\ \A u \in Transfers \ {t} : row'[u] = row[u]
    BY <1>2 DEF handleTransferRequest, IInv, TypeOK
  <2> QED
    BY <2>1, RowType DEF Kept, Exists, IInv, Past, States
<1>3. ASSUME NEW h \in Handlers, setTransferState(h)
      PROVE  \A u \in Transfers : Kept(u) /\ (Exists(u)' => Exists(u))
  <2>1. /\ handler[h].transfer \in Transfers /\ handler[h].to \in Targets
        /\ handler[h].seen \in transferStepMessage(handler[h].to)
    BY <1>3, MessageIsLegal
  <2>2. row' = SetTransferState(handler[h].transfer, handler[h].seen, handler[h].to)
    BY <1>3 DEF setTransferState
  <2> QED
    BY <2>1, <2>2, SetEffect DEF IInv
<1>4. ASSUME NEW t \in Transfers, pushTransferStep(t)
      PROVE  \A u \in Transfers : Kept(u) /\ (Exists(u)' => Exists(u))
  <2>1. /\ Head(driver[t].todo) \in Targets
        /\ driver[t].at \in transferStepMessage(Head(driver[t].todo))
    BY <1>4, StepIsLegal
  <2>2. row' = SetTransferState(t, driver[t].at, Head(driver[t].todo))
    BY <1>4 DEF pushTransferStep
  <2> QED
    BY <2>1, <2>2, SetEffect DEF IInv
<1>5. \/ \E t \in Transfers, a \in Agreements, who \in Participants :
           handleTransferRequest(t, a, who)
      \/ \E h \in Handlers : setTransferState(h)
      \/ \E t \in Transfers : pushTransferStep(t)
      \/ row' = row
  BY Cases DEF CreateAgreement, lookup, handleData, openSource, copyUnderRollingDeadline,
     failHandler, driveTransfer, failRead, wake, endPush, failStep, close, crash, vars
<1> QED
  BY <1>1, <1>2, <1>3, <1>4, <1>5

-----------------------------------------------------------------------------
(* Drivers *)

\* A driver that takes no step stays legal, because its row only goes forward.
LEMMA Unmoved ==
  ASSUME IInv, NEW t \in Transfers, Kept(t), Exists(t)' => Exists(t),
         driver'[t] = driver[t]
  PROVE  DriverLegal(t)'
<1>1. DriverLegal(t)
  BY DEF IInv
<1>2. Exists(t)' <=> Exists(t)
  BY DEF Kept
<1>3. Exists(t) => row'[t].state \in Past(driver[t].at)
  <2> SUFFICES ASSUME Exists(t) PROVE row'[t].state \in Past(driver[t].at)
    OBVIOUS
  <2>1. /\ driver[t].at \in States
        /\ row[t].state \in Past(driver[t].at) /\ row'[t].state \in Past(row[t].state)
    BY <1>1, RowType DEF IInv, Driver, DriverLegal, Kept
  <2> QED
    BY <2>1, PastGrows
<1> QED
  BY <1>1, <1>2, <1>3 DEF DriverLegal

\* Every step keeps every driver legal.
LEMMA DriverStep ==
  IInv /\ [Next]_vars => \A t \in Transfers : DriverLegal(t)'
<1> SUFFICES ASSUME IInv, [Next]_vars, NEW u \in Transfers PROVE DriverLegal(u)'
  OBVIOUS
<1>1. Kept(u) /\ TypeOK /\ DriverLegal(u) /\ driver[u] \in Driver
  BY RowStep, RowType DEF IInv
<1>2. ASSUME NEW t \in Transfers, NEW a \in Agreements, NEW who \in Participants,
             handleTransferRequest(t, a, who)
      PROVE  DriverLegal(u)'
  <2>1. CASE u = t
    <3>1. /\ driver'[u] = [NoDriver EXCEPT !.pc = "begin"]
          /\ row'[u] = [state |-> "REQUESTED", agreement |-> a, party |-> who]
      BY <1>1, <1>2, <2>1 DEF handleTransferRequest, TypeOK
    <3>2. driver'[u].pc = "begin" /\ driver'[u].at = "REQUESTED"
      BY <3>1 DEF NoDriver
    <3>3. row'[u].state = "REQUESTED" /\ row'[u] # NoRow
      BY <3>1 DEF NoRow
    <3> QED
      BY <3>2, <3>3 DEF DriverLegal, Exists, Past, States
  <2>2. CASE u # t
    <3>1. driver'[u] = driver[u] /\ row'[u] = row[u]
      BY <1>1, <1>2, <2>2 DEF handleTransferRequest, TypeOK
    <3> QED
      BY <1>1, <3>1, Unmoved DEF Exists
  <2> QED
    BY <2>1, <2>2
<1>3. ASSUME NEW t \in Transfers, driveTransfer(t) \/ failRead(t) PROVE DriverLegal(u)'
  <2>1. row' = row /\ driver[t].pc = "begin"
    BY <1>3 DEF driveTransfer, failRead
  <2>2. PICK todo \in Seq(Targets) : driver' = [driver EXCEPT ![t] = onward("REQUESTED", todo)]
    BY <1>3, SequenceType DEF driveTransfer, failRead
  <2>3. CASE u = t
    <3>1. driver'[u] = onward("REQUESTED", todo)
      BY <1>1, <2>2, <2>3 DEF TypeOK
    <3>2. /\ driver'[u].at = "REQUESTED" /\ driver'[u].pc \in {"sleep", "done"}
          /\ driver'[u].pc = "sleep" => driver'[u].todo # <<>>
      BY <3>1, OnwardType DEF States
    <3>3. Exists(u) /\ Exists(u)' /\ row'[u].state \in Past("REQUESTED")
      BY <1>1, <2>1, <2>3 DEF DriverLegal, Exists
    <3> QED
      BY <3>2, <3>3 DEF DriverLegal
  <2>4. CASE u # t
    <3>1. driver'[u] = driver[u]
      BY <1>1, <2>2, <2>4 DEF TypeOK
    <3> QED
      BY <1>1, <2>1, <3>1, Unmoved DEF Exists
  <2> QED
    BY <2>3, <2>4
<1>4. ASSUME NEW t \in Transfers, wake(t) \/ endPush(t) \/ failStep(t) PROVE DriverLegal(u)'
  <2>1. row' = row
    BY <1>4 DEF wake, endPush, failStep
  <2>2. CASE u = t
    <3>1. /\ driver'[u].at = driver[u].at /\ driver'[u].todo = driver[u].todo
          /\ driver'[u].pc \in {"push", "store", "done"} /\ driver[u].pc # "none"
          /\ driver[u].pc \in {"sleep", "push", "store"}
      BY <1>1, <1>4, <2>2 DEF wake, endPush, failStep, TypeOK, Driver
    <3>2. driver'[u].pc \in {"push", "store"} =>
            driver[u].at \in transferStepMessage(Head(driver[u].todo))
      BY <1>1, <1>4, <2>2 DEF wake, endPush, failStep, TypeOK, Driver, DriverLegal
    <3> QED
      BY <1>1, <2>1, <3>1, <3>2 DEF DriverLegal, Exists
  <2>3. CASE u # t
    <3>1. driver'[u] = driver[u]
      BY <1>1, <1>4, <2>3 DEF wake, endPush, failStep, TypeOK
    <3> QED
      BY <1>1, <2>1, <3>1, Unmoved DEF Exists
  <2> QED
    BY <2>2, <2>3
<1>5. ASSUME NEW t \in Transfers, pushTransferStep(t) PROVE DriverLegal(u)'
  <2>1. /\ Exists(t)
        /\ driver[t].todo \in Seq(Targets) /\ driver[t].todo # <<>>
        /\ Head(driver[t].todo) \in Targets
        /\ driver[t].at \in transferStepMessage(Head(driver[t].todo))
    BY <1>5, StepIsLegal
  <2>2. row' = SetTransferState(t, driver[t].at, Head(driver[t].todo))
    BY <1>5 DEF pushTransferStep
  <2>3. Exists(u)' => Exists(u)
    BY <1>1, <2>1, <2>2, SetEffect
  <2>4. CASE u = t /\ Holds(t, driver[t].at)
    <3>1. driver'[u] = onward(Head(driver[t].todo), Tail(driver[t].todo))
      BY <1>1, <1>5, <2>4 DEF pushTransferStep, TypeOK
    <3>2. Tail(driver[t].todo) \in Seq(Targets) /\ Head(driver[t].todo) \in States
      BY <2>1 DEF Targets
    <3>3. /\ driver'[u].at = Head(driver[t].todo) /\ driver'[u].pc \in {"sleep", "done"}
          /\ driver'[u].pc = "sleep" => driver'[u].todo # <<>>
      BY <3>1 DEF onward
    <3>4. row'[u].state = Head(driver[t].todo)
      <4>1. row'[t] = [row[t] EXCEPT !.state = Head(driver[t].todo)] /\ row[t] \in Row
        BY <1>1, <2>1, <2>2, <2>4, SetEffect
      <4> QED
        BY <2>4, <4>1 DEF Row
    <3>5. Exists(u)'
      BY <1>1, <2>1, <2>4 DEF Kept
    <3>6. row'[u].state \in Past(driver'[u].at)
      BY <3>2, <3>3, <3>4 DEF Past
    <3> QED
      BY <3>3, <3>5, <3>6 DEF DriverLegal
  <2>5. CASE u = t /\ ~Holds(t, driver[t].at)
    <3>1. driver'[u].pc = "done" /\ driver'[u].at = driver[u].at
      BY <1>1, <1>5, <2>5 DEF pushTransferStep, TypeOK, Driver
    <3>2. row' = row
      BY <1>1, <2>1, <2>2, <2>5, SetEffect
    <3> QED
      BY <1>1, <2>1, <2>5, <3>1, <3>2 DEF DriverLegal, Exists
  <2>6. CASE u # t
    <3>1. driver'[u] = driver[u]
      BY <1>1, <1>5, <2>6 DEF pushTransferStep, TypeOK
    <3> QED
      BY <1>1, <2>3, <3>1, Unmoved
  <2> QED
    BY <2>4, <2>5, <2>6
<1>6. CASE crash
  <2>1. row' = row
    BY <1>6 DEF crash
  <2>2. CASE driver[u].pc = "none"
    <3>1. driver'[u] = driver[u]
      BY <1>6, <2>2 DEF crash
    <3> QED
      BY <1>1, <2>1, <3>1, Unmoved DEF Exists
  <2>3. CASE driver[u].pc # "none"
    <3>1. driver'[u].pc = "done" /\ driver'[u].at = driver[u].at
      BY <1>1, <1>6, <2>3 DEF crash, Driver
    <3> QED
      BY <1>1, <2>1, <2>3, <3>1 DEF DriverLegal, Exists
  <2> QED
    BY <2>2, <2>3
<1>7. ASSUME NEW h \in Handlers, setTransferState(h) PROVE DriverLegal(u)'
  <2>1. /\ handler[h].transfer \in Transfers /\ handler[h].to \in Targets
        /\ handler[h].seen \in transferStepMessage(handler[h].to)
    BY <1>7, MessageIsLegal
  <2>2. /\ row' = SetTransferState(handler[h].transfer, handler[h].seen, handler[h].to)
        /\ driver' = driver
    BY <1>7 DEF setTransferState
  <2>3. Exists(u)' => Exists(u)
    BY <1>1, <2>1, <2>2, SetEffect
  <2> QED
    BY <1>1, <2>2, <2>3, Unmoved
<1>8. CASE driver' = driver /\ row' = row
  BY <1>1, <1>8, Unmoved DEF Exists
<1>9. \/ \E t \in Transfers, a \in Agreements, who \in Participants :
           handleTransferRequest(t, a, who)
      \/ \E t \in Transfers :
           \/ driveTransfer(t) \/ failRead(t)
           \/ wake(t) \/ endPush(t) \/ failStep(t)
           \/ pushTransferStep(t)
      \/ \E h \in Handlers : setTransferState(h)
      \/ crash
      \/ driver' = driver /\ row' = row
  BY Cases DEF CreateAgreement, lookup, handleData, openSource, copyUnderRollingDeadline,
     failHandler, close, vars
<1> QED
  BY <1>2, <1>3, <1>4, <1>5, <1>6, <1>7, <1>8, <1>9

-----------------------------------------------------------------------------
(* Requests *)

\* A request that takes no step stays legal, for the same reason.
LEMMA Unserved ==
  ASSUME IInv, \A t \in Transfers : Kept(t), NEW h \in Handlers,
         handler'[h] = handler[h]
  PROVE  HandlerLegal(h)'
<1>1. HandlerLegal(h)
  BY DEF IInv
<1>2. /\ handler[h].pc # "idle" => handler[h].transfer \in Transfers
      /\ handler[h].pc = "write" => handler[h].seen \in States
  BY HandlerType DEF IInv, Idle, Writing, Serving
<1>3. handler[h].pc # "idle" => Exists(handler[h].transfer)'
  BY <1>1, <1>2 DEF HandlerLegal, Kept
<1>4. handler[h].pc = "write" => row'[handler[h].transfer].state \in Past(handler[h].seen)
  <2> SUFFICES ASSUME handler[h].pc = "write"
               PROVE  row'[handler[h].transfer].state \in Past(handler[h].seen)
    OBVIOUS
  <2>1. /\ handler[h].seen \in States
        /\ row[handler[h].transfer].state \in Past(handler[h].seen)
        /\ row'[handler[h].transfer].state \in Past(row[handler[h].transfer].state)
    BY <1>1, <1>2 DEF HandlerLegal, Kept
  <2> QED
    BY <2>1, PastGrows
<1> QED
  BY <1>1, <1>3, <1>4 DEF HandlerLegal, Exists

\* Every step keeps every request legal.
LEMMA HandlerStep ==
  IInv /\ [Next]_vars => \A h \in Handlers : HandlerLegal(h)'
<1> SUFFICES ASSUME IInv, [Next]_vars, NEW g \in Handlers PROVE HandlerLegal(g)'
  OBVIOUS
<1>1. TypeOK /\ HandlerLegal(g) /\ \A t \in Transfers : Kept(t)
  BY RowStep DEF IInv
<1>2. ASSUME NEW h \in Handlers, NEW t \in Transfers, NEW to \in Targets,
             NEW who \in Participants, lookup(h, t, to, who)
      PROVE  HandlerLegal(g)'
  <2>1. CASE g = h
    <3>1. handler'[g] = [pc |-> "write", transfer |-> t, to |-> to, seen |-> row[t].state]
      BY <1>1, <1>2, <2>1 DEF lookup, TypeOK
    <3>2. /\ row' = row /\ Exists(t) /\ row[t].state \in providerInboundLegalFrom(to)
          /\ row[t].state \in Past(row[t].state)
      BY <1>1, <1>2, RowType, PastGrows DEF lookup, Past
    <3> QED
      BY <3>1, <3>2 DEF HandlerLegal, Exists
  <2>2. CASE g # h
    <3>1. handler'[g] = handler[g]
      BY <1>1, <1>2, <2>2 DEF lookup, TypeOK
    <3> QED
      BY <1>1, <3>1, Unserved
  <2> QED
    BY <2>1, <2>2
<1>3. ASSUME NEW h \in Handlers, NEW t \in Transfers, NEW who \in Participants,
             handleData(h, t, who)
      PROVE  HandlerLegal(g)'
  <2>1. CASE g = h
    <3>1. handler'[g] = [pc |-> "admitted", transfer |-> t] /\ row' = row /\ Exists(t)
      BY <1>1, <1>3, <2>1 DEF handleData, TypeOK
    <3> QED
      BY <3>1 DEF HandlerLegal, Exists
  <2>2. CASE g # h
    <3>1. handler'[g] = handler[g]
      BY <1>1, <1>3, <2>2 DEF handleData, TypeOK
    <3> QED
      BY <1>1, <3>1, Unserved
  <2> QED
    BY <2>1, <2>2
<1>4. ASSUME NEW h \in Handlers,
             setTransferState(h) \/ openSource(h) \/ copyUnderRollingDeadline(h) \/ failHandler(h)
      PROVE  HandlerLegal(g)'
  <2>1. CASE g = h /\ handler'[g] = Idle
    BY <2>1 DEF HandlerLegal, Idle
  <2>2. CASE g = h /\ openSource(h) /\ handler'[g] = [handler[g] EXCEPT !.pc = "stream"]
    <3>1. handler[g] \in Serving /\ handler[g].pc = "admitted"
      BY <1>1, <2>2, HandlerType DEF openSource
    <3>2. handler'[g].pc = "stream" /\ handler'[g].transfer = handler[g].transfer
      BY <2>2, <3>1 DEF Serving
    <3>3. Exists(handler[g].transfer) /\ row' = row
      BY <1>1, <2>2, <3>1 DEF HandlerLegal, openSource
    <3> QED
      BY <3>2, <3>3 DEF HandlerLegal, Exists
  <2>3. CASE g # h
    <3>1. handler'[g] = handler[g]
      BY <1>1, <1>4, <2>3
         DEF setTransferState, openSource, copyUnderRollingDeadline, failHandler, TypeOK
    <3> QED
      BY <1>1, <3>1, Unserved
  <2> QED
    BY <1>1, <1>4, <2>1, <2>2, <2>3
       DEF setTransferState, openSource, copyUnderRollingDeadline, failHandler, TypeOK
<1>5. CASE crash
  BY <1>5 DEF crash, HandlerLegal, Idle
<1>6. CASE handler' = handler
  BY <1>1, <1>6, Unserved
<1>7. \/ \E h \in Handlers, t \in Transfers, to \in Targets, who \in Participants :
           lookup(h, t, to, who)
      \/ \E h \in Handlers, t \in Transfers, who \in Participants : handleData(h, t, who)
      \/ \E h \in Handlers :
           setTransferState(h) \/ openSource(h) \/ copyUnderRollingDeadline(h) \/ failHandler(h)
      \/ crash
      \/ handler' = handler
  BY Cases DEF CreateAgreement, handleTransferRequest, driveTransfer, failRead, wake, endPush,
     failStep, pushTransferStep, close, vars
<1> QED
  BY <1>2, <1>3, <1>4, <1>5, <1>6, <1>7

-----------------------------------------------------------------------------
(* The gate, and who starts a transfer *)

\* A recorded agreement is never rewritten.
LEMMA AgreementKept ==
  ASSUME IInv, [Next]_vars, NEW a \in Agreements, agreement[a].origin \in Origins
  PROVE  agreement'[a] = agreement[a]
<1>1. ASSUME NEW b \in Agreements, NEW origin \in Origins, NEW d \in Datasets,
             NEW p \in Participants \cup {""}, CreateAgreement(b, origin, d, p)
      PROVE  agreement'[a] = agreement[a]
  <2>1. agreement[b].origin \notin Origins
    <3>1. agreement[b] = NoAgreement
      BY <1>1 DEF CreateAgreement
    <3>2. NoAgreement.origin \notin Origins
      BY DEF NoAgreement, Origins
    <3> QED
      BY <3>1, <3>2
  <2> QED
    BY <1>1, <2>1 DEF CreateAgreement, IInv, TypeOK
<1>2. \/ \E b \in Agreements, origin \in Origins, d \in Datasets,
            p \in Participants \cup {""} : CreateAgreement(b, origin, d, p)
      \/ agreement' = agreement
  BY Cases DEF handleTransferRequest, lookup, setTransferState, handleData, openSource,
     copyUnderRollingDeadline, failHandler, driveTransfer, failRead, wake, endPush, failStep,
     pushTransferStep, close, crash, vars
<1> QED
  BY <1>1, <1>2

\* The gate stays shut behind every transfer.
LEMMA GateStep ==
  IInv /\ [Next]_vars => GateHolds'
<1> SUFFICES ASSUME IInv, [Next]_vars, NEW u \in Transfers, Exists(u)'
             PROVE  /\ agreement'[row'[u].agreement].origin \in {"negotiated", "imported"}
                    /\ agreement'[row'[u].agreement].party \in {"", row'[u].party}
  BY DEF GateHolds
<1>1. CASE Exists(u)
  <2>1. /\ row'[u].agreement = row[u].agreement /\ row'[u].party = row[u].party
        /\ row[u].agreement \in Agreements
    BY <1>1, RowStep, RowType DEF Kept, IInv, Row
  <2>2. /\ agreement[row[u].agreement].origin \in {"negotiated", "imported"}
        /\ agreement[row[u].agreement].party \in {"", row[u].party}
    BY <1>1 DEF IInv, GateHolds
  <2>3. agreement'[row[u].agreement] = agreement[row[u].agreement]
    BY <2>1, <2>2, AgreementKept DEF Origins
  <2> QED
    BY <2>1, <2>2, <2>3
<1>2. CASE ~Exists(u)
  <2>1. PICK t \in Transfers, a \in Agreements, who \in Participants :
               handleTransferRequest(t, a, who)
    BY <1>2, RowStep
  <2>2. u = t
    BY <1>2, <2>1 DEF handleTransferRequest, IInv, TypeOK, Exists
  <2>3. row'[u] = [state |-> "REQUESTED", agreement |-> a, party |-> who]
    BY <2>1, <2>2 DEF handleTransferRequest, IInv, TypeOK
  <2>4. row'[u].agreement = a /\ row'[u].party = who
    BY <2>3
  <2>5. /\ agreement' = agreement
        /\ agreement[a].origin \in {"negotiated", "imported"}
        /\ agreement[a].party \in {"", who}
    BY <2>1 DEF handleTransferRequest, servableAsProvider
  <2> QED
    BY <2>4, <2>5
<1> QED
  BY <1>1, <1>2

\* A driver that has left REQUESTED never returns to it, and a new one is begun
\* only for a transfer that was not there.
LEMMA NeverBack ==
  ASSUME IInv, [Next]_vars, NEW u \in Transfers, driver[u].at # "REQUESTED"
  PROVE  driver'[u].at # "REQUESTED"
<1>1. TypeOK /\ DriverLegal(u) /\ driver[u] \in Driver /\ driver[u].pc \notin {"none", "begin"}
  BY RowType DEF IInv, DriverLegal
<1>2. ASSUME NEW t \in Transfers, NEW a \in Agreements, NEW who \in Participants,
             handleTransferRequest(t, a, who)
      PROVE  driver'[u] = driver[u]
  <2>1. u # t
    BY <1>1, <1>2 DEF handleTransferRequest, DriverLegal
  <2> QED
    BY <1>1, <1>2, <2>1 DEF handleTransferRequest, TypeOK
<1>3. ASSUME NEW t \in Transfers, driveTransfer(t) \/ failRead(t) PROVE driver'[u] = driver[u]
  <2>1. u # t
    BY <1>1, <1>3 DEF driveTransfer, failRead
  <2> QED
    BY <1>1, <1>3, <2>1 DEF driveTransfer, failRead, TypeOK
<1>4. ASSUME NEW t \in Transfers, wake(t) \/ endPush(t) \/ failStep(t)
      PROVE  driver'[u].at = driver[u].at
  <2>1. PICK pc : driver' = [driver EXCEPT ![t].pc = pc]
    BY <1>4 DEF wake, endPush, failStep
  <2>2. driver'[u] \in {driver[u], [driver[u] EXCEPT !.pc = pc]}
    BY <1>1, <2>1 DEF TypeOK
  <2> QED
    BY <1>1, <2>2 DEF Driver
<1>5. ASSUME NEW t \in Transfers, pushTransferStep(t) PROVE driver'[u].at # "REQUESTED"
  <2>1. driver[t].todo \in Seq(Targets) /\ Head(driver[t].todo) \in Targets
        /\ driver[t].todo # <<>>
    BY <1>5, StepIsLegal
  <2>2. CASE u = t /\ Holds(t, driver[t].at)
    <3>1. driver'[u] = onward(Head(driver[t].todo), Tail(driver[t].todo))
      BY <1>1, <1>5, <2>2 DEF pushTransferStep, TypeOK
    <3>2. driver'[u].at = Head(driver[t].todo)
      BY <3>1 DEF onward
    <3> QED
      BY <2>1, <3>2 DEF Targets
  <2>3. CASE u = t /\ ~Holds(t, driver[t].at)
    <3>1. driver'[u] = [driver[u] EXCEPT !.pc = "done"]
      BY <1>1, <1>5, <2>3 DEF pushTransferStep, TypeOK
    <3> QED
      BY <1>1, <3>1 DEF Driver
  <2>4. CASE u # t
    BY <1>1, <1>5, <2>4 DEF pushTransferStep, TypeOK
  <2> QED
    BY <2>2, <2>3, <2>4
<1>6. CASE crash
  <2>1. driver'[u] = [driver[u] EXCEPT !.pc = "done"]
    BY <1>1, <1>6 DEF crash
  <2> QED
    BY <1>1, <2>1 DEF Driver
<1>7. \/ \E t \in Transfers, a \in Agreements, who \in Participants :
           handleTransferRequest(t, a, who)
      \/ \E t \in Transfers : driveTransfer(t) \/ failRead(t)
      \/ \E t \in Transfers : wake(t) \/ endPush(t) \/ failStep(t)
      \/ \E t \in Transfers : pushTransferStep(t)
      \/ crash
      \/ driver' = driver
  BY Cases DEF CreateAgreement, lookup, setTransferState, handleData, openSource,
     copyUnderRollingDeadline, failHandler, close, vars
<1> QED
  BY <1>2, <1>3, <1>4, <1>5, <1>6, <1>7

\* The states that show a start happened.
Running == {"STARTED", "SUSPENDED", "COMPLETED"}

\* A transfer comes to one of them by its driver, or from another of them.
LEMMA RunsOnce ==
  ASSUME IInv, [Next]_vars, NEW u \in Transfers, row'[u].state \in Running
  PROVE  row[u].state \in Running \/ driver'[u].at # "REQUESTED"
<1>0. TypeOK
  BY DEF IInv
<1>1. ASSUME NEW t \in Transfers, NEW a \in Agreements, NEW who \in Participants,
             handleTransferRequest(t, a, who)
      PROVE  row[u].state \in Running
  <2>1. CASE u = t
    <3>1. row'[u] = [state |-> "REQUESTED", agreement |-> a, party |-> who]
      BY <1>0, <1>1, <2>1 DEF handleTransferRequest, TypeOK
    <3> QED
      BY <3>1 DEF Running
  <2>2. CASE u # t
    <3>1. row'[u] = row[u]
      BY <1>0, <1>1, <2>2 DEF handleTransferRequest, TypeOK
    <3> QED
      BY <3>1
  <2> QED
    BY <2>1, <2>2
<1>2. ASSUME NEW h \in Handlers, setTransferState(h) PROVE row[u].state \in Running
  <2> DEFINE t == handler[h].transfer
             to == handler[h].to
             from == handler[h].seen
  <2>1. /\ t \in Transfers /\ to \in Targets
        /\ from \in providerInboundLegalFrom(to) /\ from \in transferStepMessage(to)
    BY <1>2, MessageIsLegal
  <2>2. row' = SetTransferState(t, from, to)
    BY <1>2 DEF setTransferState
  <2> HIDE DEF t, to, from
  <2>3. CASE row'[u] = row[u]
    BY <2>3
  <2>4. CASE row'[u] # row[u]
    <3>1. u = t /\ row[t].state = from /\ row'[t] = [row[t] EXCEPT !.state = to] /\ row[t] \in Row
      BY <1>0, <2>1, <2>2, <2>4, SetEffect
    <3>2. to # "TERMINATED"
      BY <3>1 DEF Running, Row
    <3> QED
      BY <2>1, <3>1, <3>2, LegalMoves DEF Running
  <2> QED
    BY <2>3, <2>4
<1>3. ASSUME NEW t \in Transfers, pushTransferStep(t)
      PROVE  row[u].state \in Running \/ driver'[u].at # "REQUESTED"
  <2>1. /\ driver[t].todo \in Seq(Targets) /\ Head(driver[t].todo) \in Targets
        /\ driver[t].at \in transferStepMessage(Head(driver[t].todo))
    BY <1>3, StepIsLegal
  <2>2. row' = SetTransferState(t, driver[t].at, Head(driver[t].todo))
    BY <1>3 DEF pushTransferStep
  <2>3. CASE row'[u] = row[u]
    BY <2>3
  <2>4. CASE row'[u] # row[u]
    <3>1. u = t /\ Holds(t, driver[t].at)
      BY <1>0, <2>1, <2>2, <2>4, SetEffect
    <3>2. driver'[u] = onward(Head(driver[t].todo), Tail(driver[t].todo))
      BY <1>0, <1>3, <3>1 DEF pushTransferStep, TypeOK
    <3>3. driver'[u].at = Head(driver[t].todo)
      BY <3>2 DEF onward
    <3> QED
      BY <2>1, <3>3 DEF Targets
  <2> QED
    BY <2>3, <2>4
<1>4. \/ \E t \in Transfers, a \in Agreements, who \in Participants :
           handleTransferRequest(t, a, who)
      \/ \E h \in Handlers : setTransferState(h)
      \/ \E t \in Transfers : pushTransferStep(t)
      \/ row' = row
  BY Cases DEF CreateAgreement, lookup, handleData, openSource, copyUnderRollingDeadline,
     failHandler, driveTransfer, failRead, wake, endPush, failStep, close, crash, vars
<1> QED
  BY <1>1, <1>2, <1>3, <1>4

\* Data that moves was moving, or was admitted for a STARTED transfer.
LEMMA CarriesOn ==
  ASSUME IInv, [Next]_vars, NEW u \in Transfers, Carrying(u)'
  PROVE  \/ Carrying(u)
         \/ row[u].state = "STARTED" /\ \E h \in Handlers, who \in Participants : handleData(h, u, who)
<1>0. TypeOK
  BY DEF IInv
<1>1. PICK g \in Handlers : handler'[g].pc \in {"admitted", "stream"} /\ handler'[g].transfer = u
  BY DEF Carrying
<1>2. CASE handler'[g] = handler[g]
  BY <1>1, <1>2 DEF Carrying
<1>3. CASE handler'[g] # handler[g]
  <2>1. ASSUME NEW h \in Handlers, NEW t \in Transfers, NEW to \in Targets,
               NEW who \in Participants, lookup(h, t, to, who)
        PROVE  FALSE
    <3>1. g = h
      BY <1>0, <1>3, <2>1 DEF lookup, TypeOK
    <3>2. handler'[g].pc = "write"
      BY <1>0, <2>1, <3>1 DEF lookup, TypeOK
    <3> QED
      BY <1>1, <3>2
  <2>2. ASSUME NEW h \in Handlers, NEW t \in Transfers, NEW who \in Participants,
               handleData(h, t, who)
        PROVE  t = u /\ row[u].state = "STARTED"
    <3>1. g = h
      BY <1>0, <1>3, <2>2 DEF handleData, TypeOK
    <3>2. handler'[g] = [pc |-> "admitted", transfer |-> t]
      BY <1>0, <2>2, <3>1 DEF handleData, TypeOK
    <3> QED
      BY <1>1, <2>2, <3>2 DEF handleData
  <2>3. ASSUME NEW h \in Handlers, openSource(h) PROVE Carrying(u)
    <3>1. g = h
      BY <1>0, <1>3, <2>3 DEF openSource, TypeOK
    <3>2. handler[g].pc = "admitted" /\ handler[g] \in Serving
      BY <1>0, <2>3, <3>1, HandlerType DEF openSource
    <3>3. handler'[g] \in {[handler[g] EXCEPT !.pc = "stream"], Idle}
      BY <1>0, <2>3, <3>1 DEF openSource, TypeOK
    <3>4. handler[g].transfer = u
      BY <1>1, <3>2, <3>3 DEF Idle, Serving
    <3> QED
      BY <3>2, <3>4 DEF Carrying
  <2>4. ASSUME NEW h \in Handlers,
               setTransferState(h) \/ copyUnderRollingDeadline(h) \/ failHandler(h)
        PROVE  FALSE
    <3>1. g = h
      BY <1>0, <1>3, <2>4 DEF setTransferState, copyUnderRollingDeadline, failHandler, TypeOK
    <3>2. handler'[g] = Idle
      BY <1>0, <2>4, <3>1 DEF setTransferState, copyUnderRollingDeadline, failHandler, TypeOK
    <3> QED
      BY <1>1, <3>2 DEF Idle
  <2>5. ~crash
    BY <1>1 DEF crash, Idle
  <2>6. handler' # handler
    BY <1>3
  <2> QED
    BY <2>1, <2>2, <2>3, <2>4, <2>5, <2>6, Cases
    DEF CreateAgreement, handleTransferRequest, driveTransfer, failRead, wake, endPush,
        failStep, pushTransferStep, close, vars
<1> QED
  BY <1>2, <1>3

\* No step starts a transfer but the driver's.
LEMMA StartedStep ==
  IInv /\ [Next]_vars => StartedByProvider'
<1> SUFFICES ASSUME IInv, [Next]_vars, NEW u \in Transfers,
                    row'[u].state \in Running \/ Carrying(u)'
             PROVE  driver'[u].at # "REQUESTED"
  BY DEF StartedByProvider, Running
<1>1. CASE driver[u].at # "REQUESTED"
  BY <1>1, NeverBack
<1>2. CASE driver[u].at = "REQUESTED"
  <2>1. row[u].state \notin Running /\ ~Carrying(u)
    BY <1>2 DEF IInv, StartedByProvider, Running
  <2>2. ~Carrying(u)'
    BY <2>1, CarriesOn DEF Running
  <2> QED
    BY <2>1, <2>2, RunsOnce
<1> QED
  BY <1>1, <1>2

-----------------------------------------------------------------------------
(* The theorems *)

\* The first states satisfy the inductive invariant.
LEMMA InitIInv == Init => IInv
<1> SUFFICES ASSUME Init PROVE IInv
  OBVIOUS
<1>1. TypeOK
  BY TypeStep
<1>2. \A t \in Transfers : ~Exists(t) /\ driver[t].pc = "none" /\ driver[t].at = "REQUESTED"
                           /\ row[t].state = "NONE"
  BY DEF Init, Exists, NoDriver, NoRow
<1>3. \A h \in Handlers : handler[h].pc = "idle"
  BY DEF Init, Idle
<1> QED
  BY <1>1, <1>2, <1>3 DEF IInv, DriverLegal, HandlerLegal, GateHolds, StartedByProvider, Carrying

\* The invariant is inductive.
LEMMA Invariance == Spec => []IInv
<1>1. IInv /\ [Next]_vars => IInv'
  <2> SUFFICES ASSUME IInv, [Next]_vars PROVE IInv'
    OBVIOUS
  <2>1. TypeOK'
    BY TypeStep DEF IInv
  <2> QED
    BY <2>1, DriverStep, HandlerStep, GateStep, StartedStep DEF IInv
<1> QED
  BY InitIInv, <1>1, PTL DEF Spec

\* The variables stay within their types.
THEOREM TypeCorrect == Spec => []TypeOK
<1>1. IInv => TypeOK
  BY DEF IInv
<1> QED
  BY <1>1, Invariance, PTL

\* Nothing in flight is about to write what the state machine forbids.
THEOREM InFlight == Spec => []InFlightIsLegal
<1>1. IInv => InFlightIsLegal
  BY DEF IInv, InFlightIsLegal, DriverLegal, HandlerLegal
<1> QED
  BY <1>1, Invariance, PTL

\* No transfer stands under an agreement that is not its own.
THEOREM GateKept == Spec => []GateHolds
<1>1. IInv => GateHolds
  BY DEF IInv
<1> QED
  BY <1>1, Invariance, PTL

\* No transfer is started by its consumer.
THEOREM ProviderStarts == Spec => []StartedByProvider
<1>1. IInv => StartedByProvider
  BY DEF IInv
<1> QED
  BY <1>1, Invariance, PTL

-----------------------------------------------------------------------------
(* The contract *)

\* The contract's two variables, as functions of the rows and the requests.
stateMap == [u \in Transfers |-> row[u].state]
carryingSet == {u \in Transfers : Carrying(u)}

\* A write that is legal, and leaves the data that moves alone, is a move.
LEMMA WriteMoves ==
  ASSUME TypeOK, NEW t \in Transfers, NEW to \in Targets,
         NEW from \in transferStepMessage(to), row' = SetTransferState(t, from, to),
         carryingSet' = carryingSet
  PROVE  [Contract!Next]_(Contract!contractVars)
<1>1. CASE ~Holds(t, from)
  <2>1. row' = row
    BY <1>1, SetEffect
  <2>2. stateMap' = stateMap
    BY <2>1 DEF stateMap
  <2> QED
    BY <2>2 DEF Contract!contractVars, stateMap, carryingSet
<1>2. CASE Holds(t, from)
  <2>1. /\ row[t].state = from /\ row[t] \in Row
        /\ row'[t] = [row[t] EXCEPT !.state = to]
        /\ \A u \in Transfers \ {t} : row'[u] = row[u]
    BY <1>2, SetEffect
  <2>2. row'[t].state = to
    BY <2>1 DEF Row
  <2>3. stateMap[t] = from
    BY <2>1 DEF stateMap
  <2>4. stateMap' = [stateMap EXCEPT ![t] = to]
    BY <2>1, <2>2 DEF stateMap
  <2>5. <<stateMap[t], to>> \in Contract!Legal /\ to \in States
    BY <2>3, LegalMoves DEF Targets
  <2>6. Contract!Move(t, to)
    BY <2>4, <2>5 DEF Contract!Move, stateMap, carryingSet
  <2>7. to \in Contract!States
    BY <2>5 DEF Contract!States, States
  <2> QED
    BY <2>6, <2>7 DEF Contract!Next
<1> QED
  BY <1>1, <1>2

\* Every step of the provider is a step of the contract, or a stutter.
LEMMA ContractStep ==
  ASSUME IInv, [Next]_vars
  PROVE  [Contract!Next]_(Contract!contractVars)
<1> DEFINE Goal == [Contract!Next]_(Contract!contractVars)
<1> HIDE DEF Goal
<1>0. TypeOK
  BY DEF IInv
<1>1. ASSUME NEW t \in Transfers, NEW a \in Agreements, NEW who \in Participants,
             handleTransferRequest(t, a, who)
      PROVE  Goal
  <2>1. /\ row[t] = NoRow
        /\ row'[t] = [state |-> "REQUESTED", agreement |-> a, party |-> who]
        /\ \A u \in Transfers \ {t} : row'[u] = row[u]
        /\ handler' = handler
    BY <1>0, <1>1 DEF handleTransferRequest, TypeOK, Exists
  <2>2. row[t].state = "NONE" /\ row'[t].state = "REQUESTED"
    BY <2>1 DEF NoRow
  <2>3. stateMap[t] = "NONE" /\ stateMap' = [stateMap EXCEPT ![t] = "REQUESTED"]
    BY <2>1, <2>2 DEF stateMap
  <2>4. carryingSet' = carryingSet
    BY <2>1 DEF carryingSet, Carrying
  <2>5. Contract!Open(t)
    BY <2>3, <2>4 DEF Contract!Open, stateMap, carryingSet
  <2> QED
    BY <2>5 DEF Goal, Contract!Next
<1>2. ASSUME NEW h \in Handlers, setTransferState(h) PROVE Goal
  <2>1. /\ handler[h].transfer \in Transfers /\ handler[h].to \in Targets
        /\ handler[h].seen \in transferStepMessage(handler[h].to)
    BY <1>2, MessageIsLegal
  <2>2. /\ row' = SetTransferState(handler[h].transfer, handler[h].seen, handler[h].to)
        /\ handler[h].pc = "write" /\ handler'[h] = Idle
        /\ \A g \in Handlers \ {h} : handler'[g] = handler[g]
    BY <1>0, <1>2 DEF setTransferState, TypeOK
  <2>3. carryingSet' = carryingSet
    BY <2>2 DEF carryingSet, Carrying, Idle
  <2> QED
    BY <1>0, <2>1, <2>2, <2>3, WriteMoves DEF Goal
<1>3. ASSUME NEW t \in Transfers, pushTransferStep(t) PROVE Goal
  <2>1. /\ Head(driver[t].todo) \in Targets
        /\ driver[t].at \in transferStepMessage(Head(driver[t].todo))
    BY <1>3, StepIsLegal
  <2>2. /\ row' = SetTransferState(t, driver[t].at, Head(driver[t].todo))
        /\ handler' = handler
    BY <1>3 DEF pushTransferStep
  <2>3. carryingSet' = carryingSet
    BY <2>2 DEF carryingSet, Carrying
  <2> QED
    BY <1>0, <2>1, <2>2, <2>3, WriteMoves DEF Goal
<1>4. ASSUME NEW h \in Handlers, NEW t \in Transfers, NEW who \in Participants,
             handleData(h, t, who)
      PROVE  Goal
  <2>1. /\ row' = row /\ row[t].state = "STARTED"
        /\ handler[h] = Idle /\ handler'[h] = [pc |-> "admitted", transfer |-> t]
        /\ \A g \in Handlers \ {h} : handler'[g] = handler[g]
    BY <1>0, <1>4 DEF handleData, TypeOK
  <2>2. \A u \in Transfers : Carrying(u)' <=> (Carrying(u) \/ u = t)
    BY <2>1 DEF Carrying, Idle
  <2>3. carryingSet' = carryingSet \cup {t}
    BY <2>2 DEF carryingSet
  <2>4. stateMap' = stateMap /\ stateMap[t] = "STARTED"
    BY <2>1 DEF stateMap
  <2>5. Contract!Carry(t)
    BY <2>3, <2>4 DEF Contract!Carry, stateMap, carryingSet
  <2> QED
    BY <2>5 DEF Goal, Contract!Next
<1>5. ASSUME row' = row, ~\E h \in Handlers, t \in Transfers, who \in Participants :
                             handleData(h, t, who)
      PROVE  Goal
  <2>1. stateMap' = stateMap
    BY <1>5 DEF stateMap
  <2>2. carryingSet' \in SUBSET carryingSet
    BY <1>5, CarriesOn DEF carryingSet
  <2>3. Contract!Drop
    BY <2>1, <2>2 DEF Contract!Drop, stateMap, carryingSet
  <2> QED
    BY <2>3 DEF Goal, Contract!Next
<1>6. \/ \E t \in Transfers, a \in Agreements, who \in Participants :
           handleTransferRequest(t, a, who)
      \/ \E h \in Handlers : setTransferState(h)
      \/ \E t \in Transfers : pushTransferStep(t)
      \/ row' = row
  BY Cases DEF CreateAgreement, lookup, handleData, openSource, copyUnderRollingDeadline,
     failHandler, driveTransfer, failRead, wake, endPush, failStep, close, crash, vars
<1>7. Goal
  BY <1>1, <1>2, <1>3, <1>4, <1>5, <1>6
<1> QED
  BY <1>7 DEF Goal

\* The provider implements TransferContract: its rows walk the state machine,
\* and it sets data moving only for a transfer that is STARTED then.
THEOREM ContractKept == Spec => KeepsContract
<1>1. Init => Contract!Init
  BY DEF Init, Contract!Init, NoRow, Carrying, Idle
<1> QED
  BY <1>1, ContractStep, Invariance, PTL DEF Spec, KeepsContract, Contract!Spec

-----------------------------------------------------------------------------
(* What the liveness of the starts and of the streams rests on *)

\* A transfer whose sequence begins with a start waits in REQUESTED only while
\* its driver has that start ahead of it, on a copy that still agrees.
StartPending(t) ==
  StartsFirst(t) /\ row[t].state = "REQUESTED" =>
    /\ driver[t].at = "REQUESTED"
    /\ \/ driver[t].pc = "begin"
       \/ driver[t].pc \in {"sleep", "push", "store"} /\ Head(driver[t].todo) = "STARTED"

StartsPending == \A t \in Transfers : StartPending(t)

\* The provider while nothing fails.
NoFaultSpec == Init /\ [][Agree \/ TransferWork]_vars

\* The requests that stream the transfer's dataset, or may yet begin to.
MayStream(t) ==
  {h \in Handlers :
     /\ handler[h].pc \in {"admitted", "stream"} /\ handler[h].transfer = t
     /\ handler[h].pc = "stream" \/ agreement[row[t].agreement].dataset \notin closed}

\* A transfer that is over stays over, and no request may stream it that could
\* not before.
Drains(t) == Over(t) => Over(t)' /\ MayStream(t)' \subseteq MayStream(t)

\* What a transfer refers to is what it referred to.
LEMMA ReferenceKept ==
  ASSUME IInv, [Next]_vars, NEW u \in Transfers, Exists(u)
  PROVE  /\ row'[u].agreement = row[u].agreement
         /\ agreement'[row[u].agreement] = agreement[row[u].agreement]
<1>1. row'[u].agreement = row[u].agreement
  BY RowStep DEF Kept
<1>2. /\ row[u].agreement \in Agreements
      /\ agreement[row[u].agreement].origin \in Origins
  BY RowType DEF IInv, Row, GateHolds, Origins
<1> QED
  BY <1>1, <1>2, AgreementKept

\* A transfer that waits to be started has waited since it was requested, for
\* the same sequence.
LEMMA WaitedBefore ==
  ASSUME IInv, [Next]_vars, NEW u \in Transfers, Exists(u),
         StartsFirst(u)', row'[u].state = "REQUESTED"
  PROVE  StartsFirst(u) /\ row[u].state = "REQUESTED"
<1>1. row[u].state \in States /\ "REQUESTED" \in Past(row[u].state)
  BY RowStep, RowType DEF Kept, IInv
<1>2. row[u].state = "REQUESTED"
  BY <1>1 DEF Past, States
<1>3. resolveTransferSequence(row[u].agreement, Datasets)'
      = resolveTransferSequence(row[u].agreement, Datasets)
  BY ReferenceKept DEF resolveTransferSequence
<1> QED
  BY <1>2, <1>3 DEF StartsFirst

\* Every step of a provider that does not fail keeps the starts in flight.
LEMMA StartPendingStep ==
  ASSUME IInv, StartsPending, [Agree \/ TransferWork]_vars, NEW u \in Transfers
  PROVE  StartPending(u)'
<1> SUFFICES ASSUME StartsFirst(u)', row'[u].state = "REQUESTED"
             PROVE  /\ driver'[u].at = "REQUESTED"
                    /\ \/ driver'[u].pc = "begin"
                       \/ /\ driver'[u].pc \in {"sleep", "push", "store"}
                          /\ Head(driver'[u].todo) = "STARTED"
  BY DEF StartPending
<1> DEFINE Goal == /\ driver'[u].at = "REQUESTED"
                   /\ \/ driver'[u].pc = "begin"
                      \/ /\ driver'[u].pc \in {"sleep", "push", "store"}
                         /\ Head(driver'[u].todo) = "STARTED"
<1>0. TypeOK /\ [Next]_vars /\ driver[u] \in Driver /\ DriverLegal(u)
  BY RowType DEF IInv, Next
<1>1. CASE ~Exists(u)
  <2>1. PICK t \in Transfers, a \in Agreements, who \in Participants :
               handleTransferRequest(t, a, who)
    BY <1>0, <1>1, RowStep DEF StartsFirst
  <2>2. u = t
    BY <1>0, <1>1, <2>1 DEF handleTransferRequest, TypeOK, Exists, StartsFirst
  <2>3. driver'[u] = [NoDriver EXCEPT !.pc = "begin"]
    BY <1>0, <2>1, <2>2 DEF handleTransferRequest, TypeOK
  <2> QED
    BY <2>3 DEF NoDriver
<1>2. CASE Exists(u)
  <2>1. StartsFirst(u) /\ row[u].state = "REQUESTED"
    BY <1>0, <1>2, WaitedBefore
  <2>2. /\ driver[u].at = "REQUESTED"
        /\ \/ driver[u].pc = "begin"
           \/ driver[u].pc \in {"sleep", "push", "store"} /\ Head(driver[u].todo) = "STARTED"
    BY <2>1 DEF StartsPending, StartPending
  <2>3. CASE driver'[u] = driver[u]
    BY <2>2, <2>3
  <2>4. CASE driveTransfer(u)
    <3> DEFINE todo == resolveTransferSequence(row[u].agreement, Datasets)
    <3>1. driver'[u] = onward("REQUESTED", todo)
      BY <1>0, <2>4 DEF driveTransfer, TypeOK
    <3>2. todo # <<>> /\ Head(todo) = "STARTED"
      BY <2>1 DEF StartsFirst
    <3> HIDE DEF todo
    <3> QED
      BY <3>1, <3>2 DEF onward
  <2>5. CASE wake(u)
    <3>1. driver[u].pc = "sleep" /\ driver[u].at \in transferStepMessage(Head(driver[u].todo))
      BY <2>2, <2>5 DEF wake, transferStepMessage, startLegalFrom
    <3>2. driver'[u] = [driver[u] EXCEPT !.pc = "push"]
      BY <1>0, <2>5, <3>1 DEF wake, TypeOK
    <3> QED
      BY <1>0, <2>2, <3>1, <3>2 DEF Driver
  <2>6. CASE endPush(u)
    <3>1. driver[u].pc = "push" /\ driver'[u] = [driver[u] EXCEPT !.pc = "store"]
      BY <1>0, <2>6 DEF endPush, TypeOK
    <3> QED
      BY <1>0, <2>2, <3>1 DEF Driver
  <2>7. ~pushTransferStep(u)
    <3> SUFFICES ASSUME pushTransferStep(u) PROVE FALSE
      OBVIOUS
    <3>1. Head(driver[u].todo) = "STARTED" /\ Holds(u, "REQUESTED")
      BY <2>1, <2>2 DEF pushTransferStep, Holds
    <3>2. row' = [row EXCEPT ![u].state = "STARTED"]
      BY <2>2, <3>1 DEF pushTransferStep, SetTransferState
    <3>3. row[u] \in Row /\ row'[u] = [row[u] EXCEPT !.state = "STARTED"]
      BY <1>0, <1>2, <3>2, RowType DEF TypeOK
    <3> QED
      BY <3>3 DEF Row
  <2>8. \/ driver'[u] = driver[u]
        \/ driveTransfer(u) \/ wake(u) \/ endPush(u) \/ pushTransferStep(u)
    <3>1. ASSUME NEW t \in Transfers, NEW a \in Agreements, NEW who \in Participants,
                 handleTransferRequest(t, a, who)
          PROVE  driver'[u] = driver[u]
      BY <1>0, <1>2, <3>1 DEF handleTransferRequest, TypeOK
    <3>2. ASSUME NEW t \in Transfers, Run(t), t # u PROVE driver'[u] = driver[u]
      BY <1>0, <3>2 DEF Run, driveTransfer, wake, endPush, pushTransferStep, TypeOK
    <3>3. \/ \E t \in Transfers, a \in Agreements, who \in Participants :
               handleTransferRequest(t, a, who)
          \/ \E t \in Transfers : Run(t)
          \/ driver' = driver
      BY DEF Agree, importAgreement, concludeAgreement, CreateAgreement, TransferWork, Request,
             lookup, handleData, Serve, setTransferState, openSource, copyUnderRollingDeadline,
             close, vars
    <3> QED
      BY <3>1, <3>2, <3>3 DEF Run
  <2> QED
    BY <2>3, <2>4, <2>5, <2>6, <2>7, <2>8
<1> QED
  BY <1>1, <1>2

\* While nothing fails, no transfer is stranded in REQUESTED: the driver that
\* is to start it still runs, and what it will write is still legal, whatever
\* messages came in.  Fairness then makes EveryStartLands of it.
THEOREM StartsAreInFlight == NoFaultSpec => []StartsPending
<1>1. Init => IInv /\ StartsPending
  <2>1. Init => \A t \in Transfers : ~Exists(t)
    BY DEF Init, Exists
  <2> QED
    BY <2>1, InitIInv DEF StartsPending, StartPending, StartsFirst
<1>2. IInv /\ StartsPending /\ [Agree \/ TransferWork]_vars => (IInv /\ StartsPending)'
  <2> SUFFICES ASSUME IInv, StartsPending, [Agree \/ TransferWork]_vars
               PROVE  IInv' /\ StartsPending'
    OBVIOUS
  <2>1. [Next]_vars
    BY DEF Next
  <2>2. IInv'
    BY <2>1, TypeStep, DriverStep, HandlerStep, GateStep, StartedStep DEF IInv
  <2>3. StartsPending'
    BY StartPendingStep DEF StartsPending
  <2> QED
    BY <2>2, <2>3
<1> QED
  BY <1>1, <1>2, PTL DEF NoFaultSpec

\* What is over stays over.
LEMMA OverStays ==
  ASSUME IInv, [Next]_vars, NEW u \in Transfers, Over(u)
  PROVE  Over(u)' /\ closed \subseteq closed'
<1>1. closed \subseteq closed'
  BY Cases DEF CreateAgreement, handleTransferRequest, lookup, setTransferState, handleData,
     openSource, copyUnderRollingDeadline, failHandler, driveTransfer, failRead, wake, endPush,
     failStep, pushTransferStep, close, crash, vars
<1>2. Exists(u) /\ Exists(u)' /\ row'[u].state \in Past(row[u].state)
  BY RowStep DEF Over, Kept
<1>3. row[u].state \in Terminal => row'[u].state = row[u].state
  BY <1>2 DEF Past, Terminal
<1>4. agreement'[row'[u].agreement].dataset = agreement[row[u].agreement].dataset
  BY <1>2, ReferenceKept
<1> QED
  BY <1>1, <1>2, <1>3, <1>4 DEF Over

\* No request joins those that may stream what is over.
LEMMA DrainStep ==
  ASSUME IInv, [Next]_vars, NEW u \in Transfers, Over(u)
  PROVE  MayStream(u)' \subseteq MayStream(u)
<1> SUFFICES ASSUME NEW g \in Handlers, g \in MayStream(u)' PROVE g \in MayStream(u)
  BY DEF MayStream
<1>0. TypeOK /\ Exists(u)
  BY DEF IInv, Over
<1>1. /\ handler'[g].pc \in {"admitted", "stream"} /\ handler'[g].transfer = u
      /\ handler'[g].pc = "stream" \/ agreement[row[u].agreement].dataset \notin closed
  <2>1. agreement'[row'[u].agreement].dataset = agreement[row[u].agreement].dataset
    BY <1>0, ReferenceKept
  <2> QED
    BY <2>1, OverStays DEF MayStream
<1>2. CASE handler'[g] = handler[g]
  BY <1>1, <1>2 DEF MayStream
<1>3. ASSUME NEW t \in Transfers, NEW to \in Targets, NEW who \in Participants,
             lookup(g, t, to, who)
      PROVE  FALSE
  <2>1. handler'[g] = [pc |-> "write", transfer |-> t, to |-> to, seen |-> row[t].state]
    BY <1>0, <1>3 DEF lookup, TypeOK
  <2> QED
    BY <1>1, <2>1
<1>4. ASSUME NEW t \in Transfers, NEW who \in Participants, handleData(g, t, who)
      PROVE  FALSE
  <2>1. handler'[g] = [pc |-> "admitted", transfer |-> t] /\ row[t].state = "STARTED"
    BY <1>0, <1>4 DEF handleData, TypeOK
  <2>2. row[u].state = "STARTED" /\ agreement[row[u].agreement].dataset \notin closed
    BY <1>1, <2>1
  <2> QED
    BY <2>2 DEF Over, Terminal
<1>5. CASE openSource(g)
  <2>1. handler[g].pc = "admitted" /\ handler[g] \in Serving
    BY <1>0, <1>5, HandlerType DEF openSource
  <2>2. /\ handler'[g] = [handler[g] EXCEPT !.pc = "stream"]
        /\ datasetFor(handler[g].transfer) # {}
    <3>1. handler'[g] # Idle
      BY <1>1 DEF Idle
    <3> QED
      BY <1>0, <1>5, <3>1 DEF openSource, TypeOK
  <2>3. handler[g].transfer = u
    BY <1>1, <2>1, <2>2 DEF Serving
  <2>4. agreement[row[u].agreement].dataset \notin closed
    BY <2>2, <2>3 DEF datasetFor
  <2> QED
    BY <2>1, <2>3, <2>4 DEF MayStream
<1>6. ASSUME setTransferState(g) \/ copyUnderRollingDeadline(g) \/ failHandler(g)
      PROVE  FALSE
  <2>1. handler'[g] = Idle
    BY <1>0, <1>6 DEF setTransferState, copyUnderRollingDeadline, failHandler, TypeOK
  <2> QED
    BY <1>1, <2>1 DEF Idle
<1>7. ~crash
  BY <1>1 DEF crash, Idle
<1>8. \/ handler'[g] = handler[g]
      \/ \E t \in Transfers, to \in Targets, who \in Participants : lookup(g, t, to, who)
      \/ \E t \in Transfers, who \in Participants : handleData(g, t, who)
      \/ openSource(g)
      \/ setTransferState(g) \/ copyUnderRollingDeadline(g) \/ failHandler(g)
  <2>1. ASSUME NEW h \in Handlers, h # g,
               \/ \E t \in Transfers, to \in Targets, who \in Participants : lookup(h, t, to, who)
               \/ \E t \in Transfers, who \in Participants : handleData(h, t, who)
               \/ openSource(h)
               \/ setTransferState(h) \/ copyUnderRollingDeadline(h) \/ failHandler(h)
        PROVE  handler'[g] = handler[g]
    BY <1>0, <2>1 DEF lookup, handleData, openSource, setTransferState,
       copyUnderRollingDeadline, failHandler, TypeOK
  <2>2. \/ \E h \in Handlers :
             \/ \E t \in Transfers, to \in Targets, who \in Participants : lookup(h, t, to, who)
             \/ \E t \in Transfers, who \in Participants : handleData(h, t, who)
             \/ openSource(h)
             \/ setTransferState(h) \/ copyUnderRollingDeadline(h) \/ failHandler(h)
        \/ handler' = handler
    BY <1>7, Cases DEF CreateAgreement, handleTransferRequest, driveTransfer, failRead, wake,
       endPush, failStep, pushTransferStep, close, vars
  <2> QED
    BY <2>1, <2>2
<1> QED
  BY <1>2, <1>3, <1>4, <1>5, <1>6, <1>8

\* Once a transfer has ended or its window has closed, the requests that may
\* still hand out its bytes only grow fewer, also across failures and restarts.
\* With fairness none is left: OverMeansQuiet.
THEOREM OverDrains == Spec => [][\A t \in Transfers : Drains(t)]_vars
<1>1. IInv /\ [Next]_vars => [\A t \in Transfers : Drains(t)]_vars
  <2> SUFFICES ASSUME IInv, [Next]_vars, NEW u \in Transfers, Over(u)
               PROVE  Over(u)' /\ MayStream(u)' \subseteq MayStream(u)
    BY DEF Drains
  <2> QED
    BY OverStays, DrainStep
<1> QED
  BY <1>1, Invariance, PTL DEF Spec
=============================================================================
