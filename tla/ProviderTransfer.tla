---------------------------- MODULE ProviderTransfer ----------------------------
(***************************************************************************)
(* The provider role of a transfer process: the agreements a transfer may  *)
(* cite (internal/mgmt, internal/store), the transfer and the goroutine    *)
(* that drives it (internal/dsp/transfer_handler.go), the messages the     *)
(* consumer moves it with, and the data endpoint (data_handler.go).        *)
(*                                                                         *)
(* Every store call is one step.  What lies between two calls is split: a  *)
(* message is judged on a copy of the row and then written, the driver     *)
(* sleeps and pushes for seconds on a copy of its own, and data is served  *)
(* for as long as it takes after the row has allowed it once.              *)
(*                                                                         *)
(* The consumer is not constrained: any message and any request for data   *)
(* may arrive at any time, from any participant.  The result of a push is  *)
(* discarded by the code and not modelled.                                 *)
(***************************************************************************)
EXTENDS TransferRules, Sequences

CONSTANTS
  Transfers,         \* transfers, by provider pid
  Agreements,        \* agreement ids
  Participants,      \* verified issuers of requests
  Datasets,          \* dataset identifiers an agreement may name
  Configured,        \* the configured datasets
  Sourced,           \* those of them with a source_file
  Limited,           \* those of them with a validity_until
  TransferPolicies,  \* the configured sequences of some agreements
  TransferSequences, \* the configured sequences of some datasets
  Handlers           \* concurrently served requests

ASSUME ConfigAssumption ==
  /\ Configured \subseteq Datasets
  /\ Sourced \subseteq Configured
  /\ Limited \subseteq Configured
  /\ "" \notin Participants
  /\ TransferPolicies \in [DOMAIN TransferPolicies -> Seq(Targets)]
  /\ TransferSequences \in [DOMAIN TransferSequences -> Seq(Targets)]

VARIABLES
  agreement,  \* table agreements
  closed,     \* the datasets whose validity_until has passed
  row,        \* table transfer_processes
  driver,     \* the driveTransfer goroutine of each transfer
  handler     \* requests being served

vars == <<agreement, closed, row, driver, handler>>

-----------------------------------------------------------------------------
(* State *)

Origins == {"negotiated", "imported", "agreed"}

\* An imported agreement may name no counterparty.
NoAgreement == [origin |-> "none"]
Agreement == [origin : Origins, dataset : Datasets, party : Participants \cup {""}]

NoRow == [state |-> "NONE"]
Row == [state : States, agreement : Agreements, party : Participants]

\* `at` is the state of the goroutine's copy of the row, `todo` the steps left.
Driver == [pc : {"none", "begin", "sleep", "push", "store", "done"},
           at : States, todo : Seq(Targets)]
NoDriver == [pc |-> "none", at |-> "REQUESTED", todo |-> <<>>]

\* A message past its checks is about to be written (`seen` is the state read);
\* a request for data has passed the transfer's state, or is being streamed.
Idle == [pc |-> "idle"]
Writing == [pc : {"write"}, transfer : Transfers, to : Targets, seen : States]
Serving == [pc : {"admitted", "stream"}, transfer : Transfers]

TypeOK ==
  /\ agreement \in [Agreements -> {NoAgreement} \cup Agreement]
  /\ closed \subseteq Limited
  /\ row \in [Transfers -> {NoRow} \cup Row]
  /\ driver \in [Transfers -> Driver]
  /\ handler \in [Handlers -> {Idle} \cup Writing \cup Serving]

Init ==
  /\ agreement = [a \in Agreements |-> NoAgreement]
  /\ closed = {}
  /\ row = [t \in Transfers |-> NoRow]
  /\ driver = [t \in Transfers |-> NoDriver]
  /\ handler = [h \in Handlers |-> Idle]

-----------------------------------------------------------------------------
(* The store, and the helpers of the handlers *)

Exists(t) == row[t] # NoRow

\* Not the code: an import that replaces the row it finds.
CreateAgreementUpsert(a, origin, d, p) ==
  /\ agreement' = [agreement EXCEPT ![a] = [origin |-> origin, dataset |-> d, party |-> p]]
  /\ UNCHANGED <<closed, row, driver, handler>>

\* A duplicate id fails the insert: an agreement is never rewritten.
CreateAgreement(a, origin, d, p) ==
  /\ agreement[a] = NoAgreement
  /\ agreement' = [agreement EXCEPT ![a] = [origin |-> origin, dataset |-> d, party |-> p]]
  /\ UNCHANGED <<closed, row, driver, handler>>

\* Not the code: an UPDATE without its `AND state = ?`.
HoldsAlways(t, from) == Exists(t)

\* SetTransferState: the UPDATE matches only while the stored state is `from`.
Holds(t, from) == row[t].state = from

SetTransferState(t, from, to) ==
  IF Holds(t, from) THEN [row EXCEPT ![t].state = to] ELSE row

servableAsProvider(a) == agreement[a].origin \in {"negotiated", "imported"}

\* The sequence of an agreement: its own, else its dataset's, else one start.
resolveTransferSequence(a, datasets) ==
  CASE a \in DOMAIN TransferPolicies -> TransferPolicies[a]
    [] a \notin DOMAIN TransferPolicies
         /\ agreement[a].dataset \in datasets \cap DOMAIN TransferSequences ->
       TransferSequences[agreement[a].dataset]
    [] OTHER -> <<"STARTED">>

-----------------------------------------------------------------------------
(* Agreements: the three writers of the table *)

\* The management listener's import, with or without a counterparty.
importAgreement(a, d, p) == CreateAgreement(a, "imported", d, p)

\* A negotiation of this connector ends in an agreement, as provider
\* (negotiated) or as consumer (agreed).
concludeAgreement(a, origin, d, p) ==
  /\ origin # "imported"
  /\ CreateAgreement(a, origin, d, p)

-----------------------------------------------------------------------------
(* Requests *)

\* Not the code: a transfer whose party is not recorded.
handleTransferRequestAnonymous(t, a, who) ==
  /\ ~Exists(t)
  /\ agreement[a] # NoAgreement
  /\ servableAsProvider(a)
  /\ row' = [row EXCEPT ![t] = [state |-> "REQUESTED", agreement |-> a, party |-> ""]]
  /\ driver' = [driver EXCEPT ![t] = [NoDriver EXCEPT !.pc = "begin"]]
  /\ UNCHANGED <<agreement, closed, handler>>

\* The agreement is read once, and never changes: the whole handler is a step.
handleTransferRequest(t, a, who) ==
  /\ ~Exists(t)
  /\ agreement[a] # NoAgreement
  /\ servableAsProvider(a)
  /\ agreement[a].party \in {"", who}
  /\ row' = [row EXCEPT ![t] = [state |-> "REQUESTED", agreement |-> a, party |-> who]]
  /\ driver' = [driver EXCEPT ![t] = [NoDriver EXCEPT !.pc = "begin"]]
  /\ UNCHANGED <<agreement, closed, handler>>

\* The first half of applyTransition: a message that announces `to` is read
\* against the row, and refused with no effect unless it is the party's and
\* legal from the state read.
lookup(h, t, to, who) ==
  /\ handler[h] = Idle
  /\ Exists(t)
  /\ who = row[t].party
  /\ row[t].state \in providerInboundLegalFrom(to)
  /\ handler' = [handler EXCEPT ![h] =
       [pc |-> "write", transfer |-> t, to |-> to, seen |-> row[t].state]]
  /\ UNCHANGED <<agreement, closed, row, driver>>

\* The second half: the conditional write, and 200 or 400.
setTransferState(h) ==
  /\ handler[h].pc = "write"
  /\ row' = SetTransferState(handler[h].transfer, handler[h].seen, handler[h].to)
  /\ handler' = [handler EXCEPT ![h] = Idle]
  /\ UNCHANGED <<agreement, closed, driver>>

-----------------------------------------------------------------------------
(* Data *)

\* Not the code: the state of the transfer not looked at.
handleDataAnyState(h, t, who) ==
  /\ handler[h] = Idle
  /\ Exists(t)
  /\ who = row[t].party
  /\ handler' = [handler EXCEPT ![h] = [pc |-> "admitted", transfer |-> t]]
  /\ UNCHANGED <<agreement, closed, row, driver>>

\* A request for data is the party's, and the transfer is STARTED.
handleData(h, t, who) ==
  /\ handler[h] = Idle
  /\ Exists(t)
  /\ who = row[t].party
  /\ row[t].state = "STARTED"
  /\ handler' = [handler EXCEPT ![h] = [pc |-> "admitted", transfer |-> t]]
  /\ UNCHANGED <<agreement, closed, row, driver>>

\* The dataset behind the transfer's agreement, if it may be served now.
datasetFor(t) ==
  {d \in Sourced \ closed :
     servableAsProvider(row[t].agreement) /\ agreement[row[t].agreement].dataset = d}

\* Not the code: the validity window not looked at again.
openSourceUnchecked(h) ==
  /\ handler[h].pc = "admitted"
  /\ handler' = [handler EXCEPT ![h] =
       IF agreement[row[@.transfer].agreement].dataset \in Sourced
         THEN [@ EXCEPT !.pc = "stream"] ELSE Idle]
  /\ UNCHANGED <<agreement, closed, row, driver>>

\* The rest of the checks, after which the bytes flow.
openSource(h) ==
  /\ handler[h].pc = "admitted"
  /\ handler' = [handler EXCEPT ![h] =
       IF datasetFor(@.transfer) # {} THEN [@ EXCEPT !.pc = "stream"] ELSE Idle]
  /\ UNCHANGED <<agreement, closed, row, driver>>

\* The file is sent, or nothing was taken for data_idle_timeout.  Nothing here
\* looks at the transfer again.
copyUnderRollingDeadline(h) ==
  /\ handler[h].pc = "stream"
  /\ handler' = [handler EXCEPT ![h] = Idle]
  /\ UNCHANGED <<agreement, closed, row, driver>>

-----------------------------------------------------------------------------
(* The driver *)

\* A goroutine with `todo` left to do, on a copy in state `at`.
onward(at, todo) ==
  [pc |-> IF todo = <<>> THEN "done" ELSE "sleep", at |-> at, todo |-> todo]

driveTransfer(t) ==
  /\ driver[t].pc = "begin"
  /\ driver' = [driver EXCEPT ![t] =
       onward("REQUESTED", resolveTransferSequence(row[t].agreement, Datasets))]
  /\ UNCHANGED <<agreement, closed, row, handler>>

\* After the delay the next step is judged on the goroutine's own copy; an
\* illegal one ends the sequence.
wake(t) ==
  /\ driver[t].pc = "sleep"
  /\ driver' = [driver EXCEPT ![t].pc =
       IF driver[t].at \in transferStepMessage(Head(driver[t].todo)) THEN "push" ELSE "done"]
  /\ UNCHANGED <<agreement, closed, row, handler>>

\* pushCallback is over: delivered, refused, or its retries exhausted.
endPush(t) ==
  /\ driver[t].pc = "push"
  /\ driver' = [driver EXCEPT ![t].pc = "store"]
  /\ UNCHANGED <<agreement, closed, row, handler>>

\* The state write of pushTransferStep.  One that finds the row moved on is
\* dropped and ends the sequence.
pushTransferStep(t) ==
  LET to == Head(driver[t].todo) IN
  /\ driver[t].pc = "store"
  /\ row' = SetTransferState(t, driver[t].at, to)
  /\ driver' = [driver EXCEPT ![t] =
       IF Holds(t, driver[t].at) THEN onward(to, Tail(driver[t].todo))
                                 ELSE [@ EXCEPT !.pc = "done"]]
  /\ UNCHANGED <<agreement, closed, handler>>

-----------------------------------------------------------------------------
(* Time, failures and crashes *)

\* A dataset's validity_until passes.
close(d) ==
  /\ d \notin closed
  /\ closed' = closed \cup {d}
  /\ UNCHANGED <<agreement, row, driver, handler>>

\* A message's write, or the read of an agreement or a file for data, fails.
failHandler(h) ==
  /\ handler[h].pc \in {"write", "admitted"}
  /\ handler' = [handler EXCEPT ![h] = Idle]
  /\ UNCHANGED <<agreement, closed, row, driver>>

\* The driver cannot read the agreement, and goes on without the dataset.
failRead(t) ==
  /\ driver[t].pc = "begin"
  /\ driver' = [driver EXCEPT ![t] =
       onward("REQUESTED", resolveTransferSequence(row[t].agreement, {}))]
  /\ UNCHANGED <<agreement, closed, row, handler>>

\* The callback address is refused, or the state write fails: the sequence ends.
failStep(t) ==
  /\ driver[t].pc \in {"sleep", "store"}
  /\ driver' = [driver EXCEPT ![t].pc = "done"]
  /\ UNCHANGED <<agreement, closed, row, handler>>

\* The process stops and starts again: the tables survive, nothing resumes
\* the requests or the drivers.  A dead driver's copy is kept as history.
crash ==
  /\ handler' = [h \in Handlers |-> Idle]
  /\ driver' = [t \in Transfers |->
       IF driver[t].pc = "none" THEN driver[t] ELSE [driver[t] EXCEPT !.pc = "done"]]
  /\ UNCHANGED <<agreement, closed, row>>

-----------------------------------------------------------------------------
(* Next-state relation *)

Agree ==
  \E a \in Agreements, d \in Datasets :
    \/ \E p \in Participants \cup {""} : importAgreement(a, d, p)
    \/ \E p \in Participants, origin \in Origins : concludeAgreement(a, origin, d, p)

Request ==
  \E t \in Transfers, who \in Participants :
    \/ \E a \in Agreements : handleTransferRequest(t, a, who)
    \/ \E h \in Handlers :
         \/ \E to \in Targets : lookup(h, t, to, who)
         \/ handleData(h, t, who)

Serve(h) ==
  \/ setTransferState(h)
  \/ openSource(h)
  \/ copyUnderRollingDeadline(h)

Run(t) ==
  \/ driveTransfer(t)
  \/ wake(t)
  \/ endPush(t)
  \/ pushTransferStep(t)

\* Everything but the writers of agreements, which other components may be.
TransferWork ==
  \/ Request
  \/ \E h \in Handlers : Serve(h)
  \/ \E t \in Transfers : Run(t)
  \/ \E d \in Limited : close(d)

Fault ==
  \/ \E h \in Handlers : failHandler(h)
  \/ \E t \in Transfers : failRead(t) \/ failStep(t)
  \/ crash

Next == Agree \/ TransferWork \/ Fault

Spec == Init /\ [][Next]_vars

\* The Go scheduler runs every handler and driver, a push is bounded by its
\* timeouts and retries, and a stream by the file and the idle timeout.
Fairness ==
  /\ \A h \in Handlers : WF_vars(Serve(h))
  /\ \A t \in Transfers : WF_vars(Run(t))
-----------------------------------------------------------------------------
(* Properties *)

\* The states a transfer may be in once it has been in s.
Past(s) ==
  CASE s = "REQUESTED"               -> States
    [] s \in {"STARTED", "SUSPENDED"} -> States \ {"REQUESTED"}
    [] OTHER                         -> {s}

\* Nothing in flight is about to write nonsense: the driver pushes and stores
\* only a legal successor of its own copy's state, however odd the configured
\* sequence, a message was checked against a state it may be written from, and
\* the row has only moved forward from either copy.  At stake in every read
\* that is used after other steps ran.
InFlightIsLegal ==
  /\ \A t \in Transfers :
       /\ Exists(t) <=> driver[t].pc # "none"
       /\ Exists(t) => row[t].state \in Past(driver[t].at)
       /\ driver[t].pc \in {"sleep", "push", "store"} => driver[t].todo # <<>>
       /\ driver[t].pc \in {"push", "store"} =>
            driver[t].at \in transferStepMessage(Head(driver[t].todo))
  /\ \A h \in Handlers :
       /\ handler[h].pc # "idle" => Exists(handler[h].transfer)
       /\ handler[h].pc = "write" =>
            /\ handler[h].seen \in providerInboundLegalFrom(handler[h].to)
            /\ row[handler[h].transfer].state \in Past(handler[h].seen)

\* Every transfer stands under an agreement this connector is provider of and
\* that is with the transfer's own party, or with nobody in particular, for as
\* long as the transfer exists.  At stake in the three writers of one table,
\* which a transfer refers to by id long after it was checked.
GateHolds ==
  \A t \in Transfers : Exists(t) =>
    LET a == agreement[row[t].agreement] IN
    /\ a.origin \in {"negotiated", "imported"}
    /\ a.party \in {"", row[t].party}

Carrying(t) ==
  \E h \in Handlers : handler[h].pc \in {"admitted", "stream"} /\ handler[h].transfer = t

\* A consumer cannot start its own transfer: one that runs, has run or hands
\* out data was started by a step of this connector's own driver (transfer.go,
\* "would let a counterparty drive its own transfer to STARTED").
StartedByProvider ==
  \A t \in Transfers :
    row[t].state \in {"STARTED", "SUSPENDED", "COMPLETED"} \/ Carrying(t) =>
      driver[t].at # "REQUESTED"

\* The provider keeps the contract of one side of a transfer: it walks the DSP
\* state machine, and sets data moving only for a transfer STARTED just then.
Contract == INSTANCE TransferContract WITH
  state <- [t \in Transfers |-> row[t].state],
  carrying <- {t \in Transfers : Carrying(t)}

KeepsContract == Contract!Spec

\* The first step configured for the transfer's agreement.
StartsFirst(t) ==
  LET todo == resolveTransferSequence(row[t].agreement, Datasets) IN
  Exists(t) /\ todo # <<>> /\ Head(todo) = "STARTED"

\* A transfer whose sequence begins with a start leaves REQUESTED, whatever
\* the consumer sends while the start is pushed.  At stake in the conditional
\* write of pushTransferStep: a dropped one is not tried again.
EveryStartLands ==
  \A t \in Transfers :
    StartsFirst(t) /\ row[t].state = "REQUESTED" ~> row[t].state # "REQUESTED"

\* The transfer has ended, or its dataset's window has closed.
Over(t) ==
  Exists(t) /\ (row[t].state \in Terminal \/ agreement[row[t].agreement].dataset \in closed)

Streaming(t) == \E h \in Handlers : handler[h].pc = "stream" /\ handler[h].transfer = t

\* Once a transfer has ended or its window has closed, its bytes stop for
\* good: streams that outlive the check run out and none is begun again.  At
\* stake in handleData, which looks at the state and at the window only once.
OverMeansQuiet ==
  \A t \in Transfers : Over(t) ~> []~Streaming(t)
=============================================================================
