-------------------------- MODULE ConsumerTransferProofs --------------------------
(***************************************************************************)
(* Theorems about ConsumerTransfer, for any transfers, agreements,         *)
(* providers, requests and drivers, and any configured policies.           *)
(***************************************************************************)
EXTENDS ConsumerTransfer, TLAPS

-----------------------------------------------------------------------------
(* The inductive invariant: the types, and InFlightIsLegal by its parts *)

\* What holds of a driver d of transfer c.
Sound(c, d) ==
  /\ d.pc # "none" =>
       /\ Exists(c)
       /\ row[c].state \in Past(d.at)
       /\ d.todo # <<>>
       /\ d.known => row[c].known
  /\ d.pc \in {"push", "store"} =>
       d.known /\ d.at \in consumerTransferStepMessage(Head(d.todo))

\* What holds of a message m about to be written.
Checked(m) ==
  m.pc = "write" =>
    /\ Exists(m.transfer)
    /\ m.seen \in consumerInboundLegalFrom(m.to)
    /\ row[m.transfer].state \in Past(m.seen)
    /\ m.known => row[m.transfer].known

RequestLegal == \A c \in Transfers : Exists(c) <=> request[c] # "none"
DriversSound == \A c \in Transfers, k \in Slots : Sound(c, driver[c][k])
HandlersChecked == \A h \in Handlers : Checked(handler[h])

IInv ==
  /\ TypeOK
  /\ RequestLegal
  /\ DriversSound
  /\ HandlersChecked

-----------------------------------------------------------------------------
(* Helpers *)

\* The kinds of steps.
LEMMA Cases ==
  ASSUME [Next]_vars
  PROVE  \/ \E c \in Transfers, a \in Agreements, p \in Providers : handleTransferInitiate(c, a, p)
         \/ \E c \in Transfers : requestTransfer(c) \/ endPull(c) \/ failRecord(c)
         \/ \E c \in Transfers : onTransferRequestAcknowledged(c)
         \/ \E c \in Transfers, k \in Slots : step(c, k) \/ endPush(c, k) \/ failStep(c, k)
         \/ \E c \in Transfers, k \in Slots : pushConsumerStep(c, k)
         \/ \E h \in Handlers, c \in Transfers, to \in Targets, address \in BOOLEAN,
               who \in Providers : lookup(h, c, to, address, who)
         \/ \E h \in Handlers : setTransferState(h)
         \/ \E h \in Handlers : failWrite(h)
         \/ crash
         \/ UNCHANGED vars
  BY DEF Next

\* What the policies are made of.
LEMMA PolicyType ==
  ASSUME NEW a
  PROVE  resolveConsumerTransferPolicy(a).sequence \in Seq(Targets)
<1>1. CASE a \in DOMAIN ConsumerTransferPolicies
  <2>1. ConsumerTransferPolicies[a] \in Policy
    BY <1>1, ConfigAssumption
  <2> QED
    BY <1>1, <2>1 DEF resolveConsumerTransferPolicy, Policy
<1>2. CASE a \notin DOMAIN ConsumerTransferPolicies
  BY <1>2 DEF resolveConsumerTransferPolicy
<1> QED
  BY <1>1, <1>2

\* A driver with steps left is at the state, and has the knowledge, it was given.
LEMMA DrivingType ==
  ASSUME NEW at \in States, NEW known \in BOOLEAN, NEW todo \in Seq(Targets)
  PROVE  /\ driving(at, known, todo) \in Driver
         /\ todo = <<>> => driving(at, known, todo).pc = "none"
         /\ todo # <<>> =>
              /\ driving(at, known, todo).pc = "step"
              /\ driving(at, known, todo).at = at
              /\ driving(at, known, todo).known = known
              /\ driving(at, known, todo).todo = todo
  BY DEF driving, NoDriver, Driver, States

\* What the types say of a row, a driver and a message.
LEMMA RowType ==
  ASSUME TypeOK, NEW c \in Transfers
  PROVE  /\ Exists(c) => row[c] \in Row /\ row[c].state \in States
         /\ ~Exists(c) => row[c] = NoRow /\ row[c].state = "NONE"
         /\ row[c].state \in States => Exists(c)
  BY DEF TypeOK, Exists, Row, NoRow, States

\* The empty driver is one, and is sound for any transfer.
LEMMA NoDriverSound ==
  NoDriver \in Driver /\ NoDriver.pc = "none"
  BY DEF NoDriver, Driver, States

\* A request is idle or a message.
LEMMA HandlerType ==
  ASSUME TypeOK, NEW h \in Handlers
  PROVE  /\ handler[h].pc = "write" => handler[h] \in Writing
         /\ handler[h].pc # "write" => handler[h] = Idle
  BY DEF TypeOK, Idle, Writing

\* What may be written from a state, the state machine allows from there.
LEMMA LegalMoves ==
  ASSUME NEW to \in Targets, NEW from
  PROVE  /\ from \in consumerInboundLegalFrom(to) => from \in transferStepMessage(to)
         /\ from \in consumerTransferStepMessage(to) =>
              from \in transferStepMessage(to) /\ to # "STARTED"
         /\ from \in transferStepMessage(to) =>
              /\ from \in States /\ <<from, to>> \in Contract!Legal
              /\ to \in Past(from)
  BY DEF consumerInboundLegalFrom, consumerTransferStepMessage, transferStepMessage,
         startLegalFrom, suspensionLegalFrom, completionLegalFrom, terminationLegalFrom,
         Targets, States, Contract!Legal, Past

\* The past grows.
LEMMA PastGrows ==
  ASSUME NEW a \in States, NEW b \in Past(a), NEW c \in Past(b)
  PROVE  a \in Past(a) /\ c \in Past(a) /\ b \in States
  BY DEF Past, States

-----------------------------------------------------------------------------
(* Rows *)

\* A row stays, only its state goes forward, and a pid once known is kept.
Kept(c) ==
  Exists(c) =>
    /\ Exists(c)'
    /\ row'[c].known = row[c].known \/ row'[c].known = TRUE
    /\ row'[c].state \in Past(row[c].state)

\* A conditional write that is legal takes its row one step, or does nothing.
LEMMA SetEffect ==
  ASSUME TypeOK, NEW c \in Transfers, NEW to \in Targets,
         NEW from \in transferStepMessage(to), row' = SetConsumerTransferState(c, from, to)
  PROVE  /\ ~Holds(c, from) => row' = row
         /\ Holds(c, from) =>
              /\ row[c].state = from /\ row'[c].state = to
              /\ Exists(c)' /\ row'[c].known = row[c].known
              /\ \A u \in Transfers \ {c} : row'[u] = row[u]
         /\ row' \in [Transfers -> {NoRow} \cup Row]
         /\ \A u \in Transfers : Kept(u) /\ (Exists(u)' <=> Exists(u))
<1>1. from \in States /\ to \in Past(from)
  BY LegalMoves
<1>2. CASE ~Holds(c, from)
  <2>1. row' = row
    BY <1>2 DEF SetConsumerTransferState
  <2>2. \A u \in Transfers : Exists(u) => row[u].state \in Past(row[u].state)
    BY RowType, PastGrows DEF Past
  <2> QED
    BY <1>2, <2>1, <2>2 DEF Kept, Exists, TypeOK
<1>3. CASE Holds(c, from)
  <2>1. row[c].state = from /\ row[c] \in Row /\ Exists(c)
    BY <1>1, <1>3, RowType DEF Holds
  <2>2. row' = [row EXCEPT ![c].state = to]
    BY <1>3 DEF SetConsumerTransferState
  <2>3. [row[c] EXCEPT !.state = to] \in Row
    BY <2>1 DEF Row, Targets
  <2>4. row'[c] = [row[c] EXCEPT !.state = to] /\ \A u \in Transfers \ {c} : row'[u] = row[u]
    BY <2>2 DEF TypeOK
  <2>5. row' \in [Transfers -> {NoRow} \cup Row]
    BY <2>2, <2>3 DEF TypeOK
  <2>6. row'[c].state = to /\ row'[c].known = row[c].known /\ row'[c] # NoRow
    BY <2>1, <2>3, <2>4 DEF Row, NoRow
  <2>7. Kept(c) /\ Exists(c)'
    BY <1>1, <2>1, <2>6 DEF Kept, Exists
  <2>8. \A u \in Transfers \ {c} : Kept(u) /\ (Exists(u)' <=> Exists(u))
    BY <2>4, RowType DEF Kept, Exists, Past
  <2> QED
    BY <1>3, <2>1, <2>4, <2>5, <2>6, <2>7, <2>8
<1> QED
  BY <1>2, <1>3

\* What a message writes, it may write.
LEMMA MessageIsLegal ==
  ASSUME IInv, NEW h \in Handlers, handler[h].pc = "write"
  PROVE  /\ handler[h] \in Writing
         /\ handler[h].transfer \in Transfers /\ Exists(handler[h].transfer)
         /\ handler[h].to \in Targets /\ handler[h].to \in States
         /\ handler[h].known \in BOOLEAN
         /\ handler[h].seen \in States
         /\ handler[h].seen \in transferStepMessage(handler[h].to)
         /\ row[handler[h].transfer].state \in Past(handler[h].seen)
         /\ handler[h].known => row[handler[h].transfer].known
<1>1. handler[h] \in Writing
  BY HandlerType DEF IInv
<1>2. /\ handler[h].to \in Targets /\ handler[h].transfer \in Transfers
      /\ handler[h].known \in BOOLEAN
  BY <1>1 DEF Writing
<1>3. /\ Exists(handler[h].transfer)
      /\ handler[h].seen \in consumerInboundLegalFrom(handler[h].to)
      /\ row[handler[h].transfer].state \in Past(handler[h].seen)
      /\ handler[h].known => row[handler[h].transfer].known
  BY DEF IInv, HandlersChecked, Checked
<1>4. handler[h].seen \in transferStepMessage(handler[h].to)
  BY <1>2, <1>3, LegalMoves
<1> QED
  BY <1>1, <1>2, <1>3, <1>4, LegalMoves DEF Targets

\* What a driver writes, it may write.
LEMMA StepIsLegal ==
  ASSUME IInv, NEW c \in Transfers, NEW k \in Slots, driver[c][k].pc = "store"
  PROVE  /\ Exists(c)
         /\ driver[c][k] \in Driver /\ driver[c][k].known \in BOOLEAN
         /\ driver[c][k].known => row[c].known
         /\ driver[c][k].todo \in Seq(Targets) /\ driver[c][k].todo # <<>>
         /\ Head(driver[c][k].todo) \in Targets
         /\ Tail(driver[c][k].todo) \in Seq(Targets)
         /\ driver[c][k].at \in transferStepMessage(Head(driver[c][k].todo))
         /\ Head(driver[c][k].todo) # "STARTED"
<1>1. driver[c][k] \in Driver
  BY DEF IInv, TypeOK
<1>2. driver[c][k].todo \in Seq(Targets) /\ driver[c][k].known \in BOOLEAN
  BY <1>1 DEF Driver
<1>3. /\ Exists(c) /\ driver[c][k].todo # <<>>
      /\ driver[c][k].known => row[c].known
      /\ driver[c][k].at \in consumerTransferStepMessage(Head(driver[c][k].todo))
  BY DEF IInv, DriversSound, Sound
<1>4. Head(driver[c][k].todo) \in Targets /\ Tail(driver[c][k].todo) \in Seq(Targets)
  BY <1>2, <1>3
<1> QED
  BY <1>1, <1>2, <1>3, <1>4, LegalMoves

\* Rows that are not written are kept.
LEMMA RowsKept ==
  ASSUME TypeOK, NEW c \in Transfers, row'[c] = row[c]
  PROVE  Kept(c) /\ (Exists(c)' <=> Exists(c))
<1>1. Exists(c) => row[c].state \in Past(row[c].state)
  BY RowType, PastGrows DEF Past
<1> QED
  BY <1>1 DEF Kept, Exists

\* Every step keeps the table's type and its rows, and a row comes into being
\* together with its request.
LEMMA RowStep ==
  ASSUME IInv, [Next]_vars
  PROVE  /\ row' \in [Transfers -> {NoRow} \cup Row]
         /\ \A u \in Transfers : Kept(u)
         /\ request' \in [Transfers -> {"none", "send", "record", "done"}]
         /\ RequestLegal'
<1> DEFINE Goal == /\ row' \in [Transfers -> {NoRow} \cup Row]
                   /\ \A u \in Transfers : Kept(u)
                   /\ request' \in [Transfers -> {"none", "send", "record", "done"}]
                   /\ RequestLegal'
<1>0. TypeOK /\ RequestLegal
  BY DEF IInv
<1>1. ASSUME NEW c \in Transfers, NEW a \in Agreements, NEW p \in Providers,
             handleTransferInitiate(c, a, p)
      PROVE  Goal
  <2> DEFINE new == [state |-> "REQUESTED", agreement |-> a, party |-> p, known |-> FALSE]
  <2>1. new \in Row /\ new # NoRow
    BY DEF Row, States, NoRow
  <2>2. ~Exists(c) /\ row' = [row EXCEPT ![c] = new] /\ request' = [request EXCEPT ![c] = "send"]
    BY <1>1 DEF handleTransferInitiate
  <2> HIDE DEF new
  <2>3. /\ row' \in [Transfers -> {NoRow} \cup Row]
        /\ request' \in [Transfers -> {"none", "send", "record", "done"}]
        /\ row'[c] = new /\ request'[c] = "send"
        /\ \A u \in Transfers \ {c} : row'[u] = row[u] /\ request'[u] = request[u]
    BY <1>0, <2>1, <2>2 DEF TypeOK
  <2>4. \A u \in Transfers \ {c} : Kept(u) /\ (Exists(u)' <=> Exists(u))
    BY <1>0, <2>3, RowsKept
  <2>5. Kept(c) /\ Exists(c)'
    BY <2>1, <2>2, <2>3 DEF Kept, Exists
  <2>6. RequestLegal'
    BY <1>0, <2>3, <2>4, <2>5 DEF RequestLegal
  <2> QED
    BY <2>3, <2>4, <2>5, <2>6
<1>2. ASSUME NEW c \in Transfers, requestTransfer(c) \/ failRecord(c) PROVE Goal
  <2>1. PICK s \in {"record", "done"} : request' = [request EXCEPT ![c] = s]
    BY <1>2 DEF requestTransfer, failRecord
  <2>2. row' = row /\ request[c] # "none"
    BY <1>2 DEF requestTransfer, failRecord
  <2>3. /\ request' \in [Transfers -> {"none", "send", "record", "done"}]
        /\ request'[c] # "none" /\ \A u \in Transfers \ {c} : request'[u] = request[u]
    BY <1>0, <2>1 DEF TypeOK
  <2>4. RequestLegal'
    BY <1>0, <2>2, <2>3 DEF RequestLegal, Exists
  <2> QED
    BY <1>0, <2>2, <2>3, <2>4, RowsKept DEF TypeOK
<1>3. ASSUME NEW c \in Transfers, onTransferRequestAcknowledged(c) PROVE Goal
  <2>1. /\ request[c] = "record"
        /\ row' = [row EXCEPT ![c].known = TRUE]
        /\ request' = [request EXCEPT ![c] = "done"]
    BY <1>3 DEF onTransferRequestAcknowledged
  <2>2. Exists(c) /\ row[c] \in Row /\ row[c].state \in States
    BY <1>0, <2>1, RowType DEF RequestLegal
  <2>3. [row[c] EXCEPT !.known = TRUE] \in Row
    BY <2>2 DEF Row
  <2>4. /\ row' \in [Transfers -> {NoRow} \cup Row]
        /\ row'[c] = [row[c] EXCEPT !.known = TRUE]
        /\ request' \in [Transfers -> {"none", "send", "record", "done"}]
        /\ request'[c] = "done"
        /\ \A u \in Transfers \ {c} : row'[u] = row[u] /\ request'[u] = request[u]
    BY <1>0, <2>1, <2>3 DEF TypeOK
  <2>5. row'[c].known = TRUE /\ row'[c].state = row[c].state /\ row'[c] # NoRow
    BY <2>2, <2>3, <2>4 DEF Row, NoRow
  <2>6. Kept(c) /\ Exists(c)'
    BY <2>2, <2>5, PastGrows DEF Kept, Exists, Past
  <2>7. \A u \in Transfers \ {c} : Kept(u) /\ (Exists(u)' <=> Exists(u))
    BY <1>0, <2>4, RowsKept
  <2>8. RequestLegal'
    BY <1>0, <2>4, <2>6, <2>7 DEF RequestLegal
  <2> QED
    BY <2>4, <2>6, <2>7, <2>8
<1>4. ASSUME NEW h \in Handlers, setTransferState(h) PROVE Goal
  <2>1. /\ handler[h].pc = "write"
        /\ row' = SetConsumerTransferState(handler[h].transfer, handler[h].seen, handler[h].to)
        /\ request' = request
    BY <1>4 DEF setTransferState
  <2>2. /\ handler[h].transfer \in Transfers /\ handler[h].to \in Targets
        /\ handler[h].seen \in transferStepMessage(handler[h].to)
    BY <2>1, MessageIsLegal
  <2>3. /\ row' \in [Transfers -> {NoRow} \cup Row]
        /\ \A u \in Transfers : Kept(u) /\ (Exists(u)' <=> Exists(u))
    BY <1>0, <2>1, <2>2, SetEffect
  <2>4. RequestLegal'
    BY <1>0, <2>1, <2>3 DEF RequestLegal
  <2> QED
    BY <1>0, <2>1, <2>3, <2>4 DEF TypeOK
<1>5. ASSUME NEW c \in Transfers, NEW k \in Slots, pushConsumerStep(c, k) PROVE Goal
  <2>1. /\ driver[c][k].pc = "store"
        /\ row' = SetConsumerTransferState(c, driver[c][k].at, Head(driver[c][k].todo))
        /\ request' = request
    BY <1>5 DEF pushConsumerStep
  <2>2. /\ Head(driver[c][k].todo) \in Targets
        /\ driver[c][k].at \in transferStepMessage(Head(driver[c][k].todo))
    BY <2>1, StepIsLegal
  <2>3. /\ row' \in [Transfers -> {NoRow} \cup Row]
        /\ \A u \in Transfers : Kept(u) /\ (Exists(u)' <=> Exists(u))
    BY <1>0, <2>1, <2>2, SetEffect
  <2>4. RequestLegal'
    BY <1>0, <2>1, <2>3 DEF RequestLegal
  <2> QED
    BY <1>0, <2>1, <2>3, <2>4 DEF TypeOK
<1>6. CASE crash
  <2>1. /\ row' = row
        /\ request' = [c \in Transfers |-> IF request[c] = "none" THEN "none" ELSE "done"]
    BY <1>6 DEF crash
  <2>2. RequestLegal'
    BY <1>0, <2>1 DEF RequestLegal, Exists
  <2> QED
    BY <1>0, <2>1, <2>2, RowsKept DEF TypeOK
<1>7. CASE row' = row /\ request' = request
  <2>1. RequestLegal'
    BY <1>0, <1>7 DEF RequestLegal, Exists
  <2> QED
    BY <1>0, <1>7, <2>1, RowsKept DEF TypeOK
<1>8. \/ \E c \in Transfers, a \in Agreements, p \in Providers : handleTransferInitiate(c, a, p)
      \/ \E c \in Transfers : requestTransfer(c) \/ failRecord(c)
      \/ \E c \in Transfers : onTransferRequestAcknowledged(c)
      \/ \E h \in Handlers : setTransferState(h)
      \/ \E c \in Transfers, k \in Slots : pushConsumerStep(c, k)
      \/ crash
      \/ row' = row /\ request' = request
  BY Cases DEF endPull, step, endPush, failStep, lookup, failWrite, vars
<1> QED
  BY <1>1, <1>2, <1>3, <1>4, <1>5, <1>6, <1>7, <1>8

-----------------------------------------------------------------------------
(* Drivers *)

\* A driver that stands still stays sound, because its row only goes forward.
LEMMA SoundKept ==
  ASSUME TypeOK, NEW c \in Transfers, Kept(c), NEW d \in Driver, Sound(c, d)
  PROVE  Sound(c, d)'
<1> SUFFICES ASSUME d.pc # "none"
             PROVE  Exists(c)' /\ row'[c].state \in Past(d.at) /\ (d.known => row'[c].known)
  BY DEF Sound, Exists
<1>1. d.at \in States
  BY DEF Driver
<1>2. /\ Exists(c) /\ row[c].state \in Past(d.at) /\ (d.known => row[c].known)
      /\ Exists(c)' /\ row'[c].state \in Past(row[c].state)
      /\ row'[c].known = row[c].known \/ row'[c].known = TRUE
  BY DEF Sound, Kept
<1> QED
  BY <1>1, <1>2, PastGrows

\* What every step does to the drivers: one of them becomes a sound driver, or
\* nothing happens, or they are all gone.
DriverMove ==
  \/ driver' = driver
  \/ driver' = [c \in Transfers |-> [k \in Slots |-> NoDriver]]
  \/ \E c \in Transfers, k \in Slots, d \in Driver :
       driver' = [driver EXCEPT ![c][k] = d] /\ Sound(c, d)'

\* A driver that is released is at the state that released it.
LEMMA Release ==
  ASSUME TypeOK, NEW c \in Transfers, NEW reached \in States, NEW known \in BOOLEAN,
         maybeDriveConsumerTransfer(c, reached, known),
         Exists(c)', row'[c].state \in Past(reached), known => row'[c].known
  PROVE  DriverMove
<1>1. CASE driver' = driver
  BY <1>1 DEF DriverMove
<1>2. CASE driver' # driver
  <2> DEFINE todo == resolveConsumerTransferPolicy(row[c].agreement).sequence
             d == driving(reached, known, todo)
  <2>1. todo \in Seq(Targets) /\ todo # <<>>
    BY <1>2, PolicyType DEF maybeDriveConsumerTransfer
  <2>2. PICK k \in Slots : driver' = [driver EXCEPT ![c][k] = d]
    BY <1>2 DEF maybeDriveConsumerTransfer
  <2>3. d \in Driver /\ d.pc = "step" /\ d.at = reached /\ d.known = known /\ d.todo # <<>>
    BY <2>1, DrivingType
  <2> HIDE DEF d, todo
  <2>4. PICK e \in Driver : e = d
    BY <2>3
  <2>5. Sound(c, e)'
    BY <2>3, <2>4 DEF Sound, Exists
  <2> QED
    BY <2>2, <2>4, <2>5 DEF DriverMove
<1> QED
  BY <1>1, <1>2

\* Every step moves the drivers so.
LEMMA DriverMoves ==
  ASSUME IInv, [Next]_vars
  PROVE  DriverMove
<1>0. TypeOK /\ DriversSound /\ \A u \in Transfers : Kept(u)
  BY RowStep DEF IInv
<1>1. ASSUME NEW c \in Transfers, onTransferRequestAcknowledged(c) PROVE DriverMove
  <2>1. request[c] = "record" /\ row' = [row EXCEPT ![c].known = TRUE]
        /\ maybeDriveConsumerTransfer(c, "REQUESTED", TRUE)
    BY <1>1 DEF onTransferRequestAcknowledged
  <2>2. Exists(c) /\ row[c] \in Row /\ row[c].state \in States
    BY <1>0, <2>1, RowType DEF IInv, RequestLegal
  <2>3. row'[c] = [row[c] EXCEPT !.known = TRUE]
    BY <1>0, <2>1 DEF TypeOK
  <2>4. row'[c].known = TRUE /\ row'[c].state = row[c].state
    BY <2>2, <2>3 DEF Row
  <2>5. Exists(c)' /\ row'[c].state \in Past("REQUESTED") /\ "REQUESTED" \in States
    BY <1>0, <2>2, <2>4 DEF Kept, Past, States
  <2> QED
    BY <1>0, <2>1, <2>4, <2>5, Release
<1>2. ASSUME NEW h \in Handlers, setTransferState(h) PROVE DriverMove
  <2>0. PICK m : m = handler[h]
    OBVIOUS
  <2>1. /\ m.pc = "write"
        /\ row' = SetConsumerTransferState(m.transfer, m.seen, m.to)
        /\ \/ driver' = driver
           \/ Holds(m.transfer, m.seen) /\ maybeDriveConsumerTransfer(m.transfer, m.to, m.known)
    BY <1>2, <2>0 DEF setTransferState
  <2>2. /\ m.transfer \in Transfers /\ m.to \in Targets /\ m.to \in States
        /\ m.known \in BOOLEAN /\ m.seen \in transferStepMessage(m.to)
        /\ m.known => row[m.transfer].known
    BY <2>0, <2>1, MessageIsLegal
  <2>3. CASE driver' = driver
    BY <2>3 DEF DriverMove
  <2>4. CASE Holds(m.transfer, m.seen) /\ maybeDriveConsumerTransfer(m.transfer, m.to, m.known)
    <3>1. /\ Exists(m.transfer)' /\ row'[m.transfer].state = m.to
          /\ row'[m.transfer].known = row[m.transfer].known
      BY <1>0, <2>1, <2>2, <2>4, SetEffect
    <3>2. row'[m.transfer].state \in Past(m.to)
      BY <2>2, <3>1 DEF Past, Targets
    <3> QED
      BY <1>0, <2>2, <2>4, <3>1, <3>2, Release
  <2> QED
    BY <2>1, <2>3, <2>4
<1>3. ASSUME NEW c \in Transfers, NEW k \in Slots, pushConsumerStep(c, k) PROVE DriverMove
  <2>0. PICK d : d = driver[c][k]
    OBVIOUS
  <2>1. /\ d.pc = "store"
        /\ row' = SetConsumerTransferState(c, d.at, Head(d.todo))
        /\ driver' = [driver EXCEPT ![c][k] =
             IF Holds(c, d.at) THEN driving(Head(d.todo), d.known, Tail(d.todo)) ELSE NoDriver]
    BY <1>3, <2>0 DEF pushConsumerStep
  <2>2. /\ d \in Driver /\ d.known \in BOOLEAN
        /\ d.known => row[c].known
        /\ Head(d.todo) \in Targets /\ Head(d.todo) \in States /\ Tail(d.todo) \in Seq(Targets)
        /\ d.at \in transferStepMessage(Head(d.todo))
    BY <2>0, <2>1, StepIsLegal DEF Targets
  <2>3. CASE Holds(c, d.at)
    <3>1. driver' = [driver EXCEPT ![c][k] = driving(Head(d.todo), d.known, Tail(d.todo))]
      BY <2>1, <2>3
    <3>2. PICK to \in States, rest \in Seq(Targets), known \in BOOLEAN :
            to = Head(d.todo) /\ rest = Tail(d.todo) /\ known = d.known
      BY <2>2
    <3>3. PICK e \in Driver : e = driving(to, known, rest)
      BY DrivingType
    <3>4. \/ e.pc = "none"
          \/ e.pc = "step" /\ e.at = to /\ e.known = known /\ e.todo # <<>>
      BY <3>3, DrivingType
    <3>5. Exists(c)' /\ row'[c].state = to /\ row'[c].known = row[c].known
      BY <1>0, <2>1, <2>2, <2>3, <3>2, SetEffect
    <3>6. row'[c].state \in Past(to)
      BY <2>2, <3>2, <3>5 DEF Past, Targets
    <3>7. Sound(c, e)'
      BY <2>2, <3>2, <3>4, <3>5, <3>6 DEF Sound, Exists
    <3> QED
      BY <3>1, <3>2, <3>3, <3>7 DEF DriverMove
  <2>4. CASE ~Holds(c, d.at)
    <3>1. driver' = [driver EXCEPT ![c][k] = NoDriver]
      BY <2>1, <2>4
    <3>2. Sound(c, NoDriver)'
      BY NoDriverSound DEF Sound
    <3> QED
      BY <3>1, <3>2, NoDriverSound DEF DriverMove
  <2> QED
    BY <2>3, <2>4
<1>4. ASSUME NEW c \in Transfers, NEW k \in Slots, step(c, k) \/ endPush(c, k) \/ failStep(c, k)
      PROVE  DriverMove
  <2>1. PICK d \in Driver : d = driver[c][k]
    BY <1>0 DEF TypeOK
  <2>2. Sound(c, d)
    BY <1>0, <2>1 DEF DriversSound
  <2>3. Sound(c, d)'
    BY <1>0, <2>2, SoundKept
  <2>4. CASE driver' = [driver EXCEPT ![c][k] = NoDriver]
    <3>1. Sound(c, NoDriver)'
      BY NoDriverSound DEF Sound
    <3> QED
      BY <2>4, <3>1, NoDriverSound DEF DriverMove
  <2>5. CASE step(c, k) /\ driver' # [driver EXCEPT ![c][k] = NoDriver]
    <3>1. /\ d.pc = "step" /\ d.known /\ d.at \in consumerTransferStepMessage(Head(d.todo))
          /\ driver' = [driver EXCEPT ![c][k] = [d EXCEPT !.pc = "push"]]
      BY <2>1, <2>5 DEF step
    <3>2. PICK e \in Driver : e = [d EXCEPT !.pc = "push"]
      BY DEF Driver
    <3>3. e.pc = "push" /\ e.at = d.at /\ e.todo = d.todo /\ e.known = d.known
      BY <3>2 DEF Driver
    <3>4. Sound(c, e)'
      BY <2>3, <3>1, <3>3 DEF Sound, Exists
    <3> QED
      BY <3>1, <3>2, <3>4 DEF DriverMove
  <2>6. CASE endPush(c, k)
    <3>1. d.pc = "push" /\ driver' = [driver EXCEPT ![c][k] = [driver[c][k] EXCEPT !.pc = "store"]]
      BY <1>0, <2>1, <2>6 DEF endPush, TypeOK
    <3>2. PICK e \in Driver : e = [d EXCEPT !.pc = "store"]
      BY DEF Driver
    <3>3. e.pc = "store" /\ e.at = d.at /\ e.todo = d.todo /\ e.known = d.known
      BY <3>2 DEF Driver
    <3>4. Sound(c, e)'
      BY <2>3, <3>1, <3>3 DEF Sound, Exists
    <3> QED
      BY <2>1, <3>1, <3>2, <3>4 DEF DriverMove
  <2> QED
    BY <1>4, <2>4, <2>5, <2>6 DEF failStep
<1>5. \/ \E c \in Transfers : onTransferRequestAcknowledged(c)
      \/ \E h \in Handlers : setTransferState(h)
      \/ \E c \in Transfers, k \in Slots : pushConsumerStep(c, k)
      \/ \E c \in Transfers, k \in Slots : step(c, k) \/ endPush(c, k) \/ failStep(c, k)
      \/ driver' = [c \in Transfers |-> [k \in Slots |-> NoDriver]]
      \/ driver' = driver
  BY Cases DEF handleTransferInitiate, requestTransfer, endPull, failRecord, lookup, failWrite,
     crash, vars
<1> QED
  BY <1>1, <1>2, <1>3, <1>4, <1>5 DEF DriverMove

\* Every step keeps the drivers' type, and every driver sound.
LEMMA DriverStep ==
  ASSUME IInv, [Next]_vars
  PROVE  driver' \in [Transfers -> [Slots -> Driver]] /\ DriversSound'
<1>0. TypeOK /\ DriversSound /\ \A u \in Transfers : Kept(u)
  BY RowStep DEF IInv
<1>1. ASSUME NEW u \in Transfers, NEW j \in Slots, NEW d \in Driver, d = driver[u][j]
      PROVE  Sound(u, d)'
  <2>1. Sound(u, d)
    BY <1>0, <1>1 DEF DriversSound
  <2> QED
    BY <1>0, <2>1, SoundKept
<1>2. CASE driver' = driver
  <2>1. ASSUME NEW u \in Transfers, NEW j \in Slots PROVE Sound(u, driver[u][j])'
    <3>1. PICK d \in Driver : d = driver[u][j]
      BY <1>0 DEF TypeOK
    <3>2. Sound(u, d)' /\ driver'[u][j] = d
      BY <1>1, <1>2, <3>1
    <3> QED
      BY <3>2 DEF Sound, Exists
  <2> QED
    BY <1>0, <1>2, <2>1 DEF TypeOK, DriversSound
<1>3. CASE driver' = [c \in Transfers |-> [k \in Slots |-> NoDriver]]
  <2>1. ASSUME NEW u \in Transfers, NEW j \in Slots PROVE Sound(u, driver[u][j])'
    <3>1. driver'[u][j] = NoDriver
      BY <1>3
    <3> QED
      BY <3>1, NoDriverSound DEF Sound
  <2> QED
    BY <1>3, <2>1, NoDriverSound DEF DriversSound
<1>4. ASSUME NEW c \in Transfers, NEW k \in Slots, NEW e \in Driver,
             driver' = [driver EXCEPT ![c][k] = e], Sound(c, e)'
      PROVE  driver' \in [Transfers -> [Slots -> Driver]] /\ DriversSound'
  <2>1. /\ driver' \in [Transfers -> [Slots -> Driver]]
        /\ driver'[c][k] = e
        /\ \A u \in Transfers, j \in Slots : u # c \/ j # k => driver'[u][j] = driver[u][j]
    BY <1>0, <1>4 DEF TypeOK
  <2>2. ASSUME NEW u \in Transfers, NEW j \in Slots PROVE Sound(u, driver[u][j])'
    <3>1. CASE u = c /\ j = k
      BY <1>4, <2>1, <3>1 DEF Sound, Exists
    <3>2. CASE u # c \/ j # k
      <4>1. PICK d \in Driver : d = driver[u][j]
        BY <1>0 DEF TypeOK
      <4>2. Sound(u, d)' /\ driver'[u][j] = d
        BY <1>1, <2>1, <3>2, <4>1
      <4> QED
        BY <4>2 DEF Sound, Exists
    <3> QED
      BY <3>1, <3>2
  <2> QED
    BY <2>1, <2>2 DEF DriversSound
<1> QED
  BY <1>2, <1>3, <1>4, DriverMoves DEF DriverMove

-----------------------------------------------------------------------------
(* Messages and pulls *)

\* A message that stands still stays checked.
LEMMA CheckedKept ==
  ASSUME TypeOK, \A c \in Transfers : Kept(c), NEW m \in Writing, Checked(m)
  PROVE  Checked(m)'
<1>1. m.transfer \in Transfers /\ m.seen \in States
  BY DEF Writing
<1>2. m.pc = "write"
  BY DEF Writing
<1>3. /\ Exists(m.transfer) /\ row[m.transfer].state \in Past(m.seen)
      /\ m.seen \in consumerInboundLegalFrom(m.to)
      /\ m.known => row[m.transfer].known
  BY <1>2 DEF Checked
<1>4. /\ Exists(m.transfer)'
      /\ row'[m.transfer].known = row[m.transfer].known \/ row'[m.transfer].known = TRUE
      /\ row'[m.transfer].state \in Past(row[m.transfer].state)
  BY <1>1, <1>3 DEF Kept
<1>5. row'[m.transfer].state \in Past(m.seen)
  BY <1>1, <1>3, <1>4, PastGrows
<1> QED
  BY <1>3, <1>4, <1>5 DEF Checked, Exists

\* Every step keeps the requests' type, and every message checked.
LEMMA HandlerStep ==
  ASSUME IInv, [Next]_vars
  PROVE  handler' \in [Handlers -> {Idle} \cup Writing] /\ HandlersChecked'
<1>0. TypeOK /\ HandlersChecked /\ \A u \in Transfers : Kept(u)
  BY RowStep DEF IInv
<1>1. ASSUME NEW g \in Handlers, handler'[g] = handler[g] PROVE Checked(handler[g])'
  <2>1. CASE handler[g].pc = "write"
    <3>1. PICK m \in Writing : m = handler[g]
      BY <1>0, <2>1, HandlerType
    <3>2. Checked(m)
      BY <1>0, <3>1 DEF HandlersChecked
    <3>3. Checked(m)' /\ handler'[g] = m
      BY <1>0, <1>1, <3>1, <3>2, CheckedKept
    <3> QED
      BY <3>3 DEF Checked, Exists
  <2>2. CASE handler[g].pc # "write"
    BY <1>1, <2>2 DEF Checked
  <2> QED
    BY <2>1, <2>2
<1>2. ASSUME NEW g \in Handlers, handler'[g] = Idle PROVE Checked(handler[g])'
  BY <1>2 DEF Checked, Idle
<1>3. ASSUME NEW h \in Handlers, NEW c \in Transfers, NEW to \in Targets,
             NEW address \in BOOLEAN, NEW who \in Providers, lookup(h, c, to, address, who)
      PROVE  handler' \in [Handlers -> {Idle} \cup Writing] /\ HandlersChecked'
  <2>1. Exists(c) /\ row' = row /\ row[c] \in Row /\ row[c].state \in States
        /\ row[c].state \in consumerInboundLegalFrom(to)
    BY <1>0, <1>3, RowType DEF lookup
  <2>2. PICK m \in Writing :
          /\ m.pc = "write" /\ m.transfer = c /\ m.to = to
          /\ m.seen = row[c].state /\ m.known = row[c].known
          /\ handler' = [handler EXCEPT ![h] = m]
    <3> DEFINE m == [pc |-> "write", transfer |-> c, to |-> to, address |-> address,
                     seen |-> row[c].state, known |-> row[c].known]
    <3>1. m \in Writing
      BY <2>1 DEF Writing, Row
    <3>2. handler' = [handler EXCEPT ![h] = m]
      BY <1>3 DEF lookup
    <3> QED
      BY <3>1, <3>2
  <2>3. /\ handler' \in [Handlers -> {Idle} \cup Writing]
        /\ handler'[h] = m /\ \A g \in Handlers \ {h} : handler'[g] = handler[g]
    BY <1>0, <2>2 DEF TypeOK
  <2>4. row[c].state \in Past(row[c].state)
    BY <2>1, PastGrows DEF Past
  <2>5. Checked(handler[h])'
    BY <2>1, <2>2, <2>3, <2>4 DEF Checked, Exists
  <2> QED
    BY <1>1, <2>3, <2>5 DEF HandlersChecked
<1>4. ASSUME NEW h \in Handlers, handler' = [handler EXCEPT ![h] = Idle]
      PROVE  handler' \in [Handlers -> {Idle} \cup Writing] /\ HandlersChecked'
  <2>1. /\ handler' \in [Handlers -> {Idle} \cup Writing]
        /\ handler'[h] = Idle /\ \A g \in Handlers \ {h} : handler'[g] = handler[g]
    BY <1>0, <1>4 DEF TypeOK
  <2> QED
    BY <1>1, <1>2, <2>1 DEF HandlersChecked
<1>5. CASE handler' = [h \in Handlers |-> Idle]
  BY <1>2, <1>5 DEF HandlersChecked
<1>6. CASE handler' = handler
  BY <1>0, <1>1, <1>6 DEF HandlersChecked, TypeOK
<1>7. \/ \E h \in Handlers, c \in Transfers, to \in Targets, address \in BOOLEAN,
             who \in Providers : lookup(h, c, to, address, who)
      \/ \E h \in Handlers : handler' = [handler EXCEPT ![h] = Idle]
      \/ handler' = [h \in Handlers |-> Idle]
      \/ handler' = handler
  BY Cases DEF handleTransferInitiate, requestTransfer, endPull, failRecord,
     onTransferRequestAcknowledged, step, endPush, failStep, pushConsumerStep,
     setTransferState, failWrite, crash, vars
<1> QED
  BY <1>3, <1>4, <1>5, <1>6, <1>7

\* Every step either sets off the pull of a start that was granted, or takes
\* pulls away at most, or leaves them alone.
LEMMA PullStep ==
  ASSUME IInv, [Next]_vars
  PROVE  /\ pulling' \subseteq Transfers
         /\ \/ pulling' = pulling
            \/ pulling' \subseteq pulling /\ row' = row
            \/ \E h \in Handlers :
                 /\ setTransferState(h)
                 /\ handler[h].to = "STARTED"
                 /\ Holds(handler[h].transfer, handler[h].seen)
                 /\ pulling' = pulling \cup {handler[h].transfer}
<1>0. pulling \subseteq Transfers
  BY DEF IInv, TypeOK
<1>1. ASSUME NEW h \in Handlers, setTransferState(h)
      PROVE  \/ pulling' = pulling
             \/ /\ handler[h].to = "STARTED"
                /\ Holds(handler[h].transfer, handler[h].seen)
                /\ pulling' = pulling \cup {handler[h].transfer}
  BY <1>1 DEF setTransferState, pulls
<1>2. ASSUME NEW h \in Handlers, setTransferState(h) PROVE handler[h].transfer \in Transfers
  <2>1. handler[h].pc = "write"
    BY <1>2 DEF setTransferState
  <2> QED
    BY <2>1, MessageIsLegal
<1>3. \/ \E h \in Handlers : setTransferState(h)
      \/ pulling' \subseteq pulling /\ row' = row
      \/ pulling' = pulling
  BY Cases DEF handleTransferInitiate, requestTransfer, endPull, failRecord,
     onTransferRequestAcknowledged, step, endPush, failStep, pushConsumerStep,
     lookup, failWrite, crash, vars
<1> QED
  BY <1>0, <1>1, <1>2, <1>3

-----------------------------------------------------------------------------
(* The theorems *)

\* The invariant is inductive.
LEMMA Invariance == Spec => []IInv
<1>1. Init => IInv
  <2> SUFFICES ASSUME Init PROVE IInv
    OBVIOUS
  <2>1. TypeOK
    BY NoDriverSound DEF Init, TypeOK
  <2>2. RequestLegal
    BY DEF Init, RequestLegal, Exists
  <2>3. DriversSound
    BY NoDriverSound DEF Init, DriversSound, Sound
  <2>4. HandlersChecked
    BY DEF Init, HandlersChecked, Checked, Idle
  <2> QED
    BY <2>1, <2>2, <2>3, <2>4 DEF IInv
<1>2. IInv /\ [Next]_vars => IInv'
  <2> SUFFICES ASSUME IInv, [Next]_vars PROVE IInv'
    OBVIOUS
  <2>1. TypeOK'
    BY RowStep, DriverStep, HandlerStep, PullStep DEF TypeOK
  <2> QED
    BY <2>1, RowStep, DriverStep, HandlerStep DEF IInv
<1> QED
  BY <1>1, <1>2, PTL DEF Spec

\* The variables stay within their types.
THEOREM TypeCorrect == Spec => []TypeOK
<1>1. IInv => TypeOK
  BY DEF IInv
<1> QED
  BY <1>1, Invariance, PTL

\* Nothing in flight, of however many drivers and messages, is about to write
\* what the state machine forbids.
THEOREM InFlight == Spec => []InFlightIsLegal
<1>1. IInv => InFlightIsLegal
  BY DEF IInv, InFlightIsLegal, RequestLegal, DriversSound, Sound, HandlersChecked, Checked
<1> QED
  BY <1>1, Invariance, PTL

-----------------------------------------------------------------------------
(* The contract *)

\* The contract's state, as a function of the rows.
stateMap == [u \in Transfers |-> row[u].state]

\* A write that is legal, and at most sets off the pull of its own start, is a
\* move of the contract.
LEMMA WriteMoves ==
  ASSUME TypeOK, NEW c \in Transfers, NEW to \in Targets,
         NEW from \in transferStepMessage(to), row' = SetConsumerTransferState(c, from, to),
         \/ pulling' = pulling
         \/ to = "STARTED" /\ Holds(c, from) /\ pulling' = pulling \cup {c}
  PROVE  [Contract!Next]_(Contract!contractVars)
<1>1. CASE ~Holds(c, from)
  <2>1. row' = row /\ pulling' = pulling
    BY <1>1, SetEffect
  <2> QED
    BY <2>1 DEF Contract!contractVars
<1>2. CASE Holds(c, from)
  <2>1. /\ row[c].state = from /\ row'[c].state = to
        /\ \A u \in Transfers \ {c} : row'[u] = row[u]
    BY <1>2, SetEffect
  <2>2. stateMap[c] = from /\ stateMap' = [stateMap EXCEPT ![c] = to]
    BY <2>1 DEF stateMap
  <2>3. <<stateMap[c], to>> \in Contract!Legal /\ to \in Contract!States
    BY <2>2, LegalMoves DEF Targets, States, Contract!States
  <2>4. Contract!Move(c, to)
    BY <2>2, <2>3 DEF Contract!Move, stateMap
  <2> QED
    BY <2>3, <2>4 DEF Contract!Next
<1> QED
  BY <1>1, <1>2

\* Every step of the consumer is a step of the contract, or a stutter.
LEMMA ContractStep ==
  ASSUME IInv, [Next]_vars
  PROVE  [Contract!Next]_(Contract!contractVars)
<1> DEFINE Goal == [Contract!Next]_(Contract!contractVars)
<1> HIDE DEF Goal
<1>0. TypeOK
  BY DEF IInv
<1>1. ASSUME NEW c \in Transfers, NEW a \in Agreements, NEW p \in Providers,
             handleTransferInitiate(c, a, p)
      PROVE  Goal
  <2>1. /\ row[c] = NoRow
        /\ row'[c] = [state |-> "REQUESTED", agreement |-> a, party |-> p, known |-> FALSE]
        /\ \A u \in Transfers \ {c} : row'[u] = row[u]
        /\ pulling' = pulling
    BY <1>0, <1>1 DEF handleTransferInitiate, TypeOK, Exists
  <2>2. row[c].state = "NONE" /\ row'[c].state = "REQUESTED"
    BY <2>1 DEF NoRow
  <2>3. stateMap[c] = "NONE" /\ stateMap' = [stateMap EXCEPT ![c] = "REQUESTED"]
    BY <2>1, <2>2 DEF stateMap
  <2>4. Contract!Open(c)
    BY <2>1, <2>3 DEF Contract!Open, stateMap
  <2> QED
    BY <2>4 DEF Goal, Contract!Next
<1>2. ASSUME NEW h \in Handlers, setTransferState(h) PROVE Goal
  <2>1. /\ handler[h].pc = "write"
        /\ row' = SetConsumerTransferState(handler[h].transfer, handler[h].seen, handler[h].to)
        /\ \/ pulling' = pulling
           \/ /\ handler[h].to = "STARTED"
              /\ Holds(handler[h].transfer, handler[h].seen)
              /\ pulling' = pulling \cup {handler[h].transfer}
    BY <1>2 DEF setTransferState, pulls
  <2>2. /\ handler[h].transfer \in Transfers /\ handler[h].to \in Targets
        /\ handler[h].seen \in transferStepMessage(handler[h].to)
    BY <2>1, MessageIsLegal
  <2> QED
    BY <1>0, <2>1, <2>2, WriteMoves DEF Goal
<1>3. ASSUME NEW c \in Transfers, NEW k \in Slots, pushConsumerStep(c, k) PROVE Goal
  <2>1. /\ driver[c][k].pc = "store" /\ pulling' = pulling
        /\ row' = SetConsumerTransferState(c, driver[c][k].at, Head(driver[c][k].todo))
    BY <1>3 DEF pushConsumerStep
  <2>2. /\ Head(driver[c][k].todo) \in Targets
        /\ driver[c][k].at \in transferStepMessage(Head(driver[c][k].todo))
    BY <2>1, StepIsLegal
  <2> QED
    BY <1>0, <2>1, <2>2, WriteMoves DEF Goal
<1>4. ASSUME NEW c \in Transfers, onTransferRequestAcknowledged(c) PROVE Goal
  <2>1. /\ request[c] = "record" /\ pulling' = pulling
        /\ row' = [row EXCEPT ![c].known = TRUE]
    BY <1>4 DEF onTransferRequestAcknowledged
  <2>2. row[c] \in Row
    BY <1>0, <2>1, RowType DEF IInv, RequestLegal
  <2>3. /\ row'[c] = [row[c] EXCEPT !.known = TRUE]
        /\ \A u \in Transfers \ {c} : row'[u] = row[u]
    BY <1>0, <2>1 DEF TypeOK
  <2>4. \A u \in Transfers : row'[u].state = row[u].state
    BY <2>2, <2>3 DEF Row
  <2>5. stateMap' = stateMap
    BY <2>4 DEF stateMap
  <2> QED
    BY <2>1, <2>5 DEF Goal, Contract!contractVars, stateMap
<1>5. ASSUME row' = row, pulling' \subseteq pulling PROVE Goal
  <2>1. Contract!Drop
    BY <1>5 DEF Contract!Drop
  <2> QED
    BY <2>1 DEF Goal, Contract!Next
<1>6. \/ \E c \in Transfers, a \in Agreements, p \in Providers : handleTransferInitiate(c, a, p)
      \/ \E h \in Handlers : setTransferState(h)
      \/ \E c \in Transfers, k \in Slots : pushConsumerStep(c, k)
      \/ \E c \in Transfers : onTransferRequestAcknowledged(c)
      \/ row' = row /\ pulling' \subseteq pulling
  BY Cases DEF requestTransfer, endPull, failRecord, step, endPush, failStep, lookup, failWrite,
     crash, vars
<1>7. Goal
  BY <1>1, <1>2, <1>3, <1>4, <1>5, <1>6
<1> QED
  BY <1>7 DEF Goal

\* The consumer implements TransferContract: its rows walk the state machine,
\* and a pull is set off only by a start that was granted just then.
THEOREM ContractKept == Spec => KeepsContract
<1>1. Init => Contract!Init
  BY DEF Init, Contract!Init, NoRow
<1> QED
  BY <1>1, ContractStep, Invariance, PTL DEF Spec, KeepsContract, Contract!Spec
=============================================================================
