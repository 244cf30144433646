---------------------------- MODULE ConsumerTransfer ----------------------------
(***************************************************************************)
(* The consumer role of a transfer process                                 *)
(* (internal/dsp/transfer_consumer_handler.go and the consumer branches of *)
(* transfer_handler.go): the transfer, the goroutine that requests it, the *)
(* messages the provider moves it with, the pull a start sets off and the  *)
(* goroutines that send the configured steps.                              *)
(*                                                                         *)
(* Three writers meet in one row: the goroutine that learns the provider   *)
(* pid from the answer to the request, the handlers of the provider's      *)
(* messages, and the drivers.  Each works on a copy of its own, read or    *)
(* made earlier; nothing orders the provider's first message after the     *)
(* answer to the request.                                                  *)
(*                                                                         *)
(* The provider is not constrained.  The bytes of a pull are DataPull's;   *)
(* here it is only whether one runs.                                       *)
(***************************************************************************)
EXTENDS TransferRules, Sequences

CONSTANTS
  Transfers,   \* transfers, by consumer pid
  Agreements,  \* the agreements held; a request citing another is refused
  Providers,   \* the participants of the roster
  ConsumerTransferPolicies,  \* the policies of some agreements
  Handlers,    \* concurrently served requests
  Slots        \* the driver goroutines one transfer may have at a time

Policy == [after : AfterStates, sequence : Seq(Targets)]

ASSUME ConfigAssumption ==
  ConsumerTransferPolicies \in [DOMAIN ConsumerTransferPolicies -> Policy]

VARIABLES
  row,      \* table consumer_transfer_processes
  request,  \* the requestTransfer goroutine of each transfer
  handler,  \* requests being served
  driver,   \* the driveConsumerTransfer goroutines of each transfer
  pulling   \* the transfers a pullTransferData goroutine runs for

vars == <<row, request, handler, driver, pulling>>

-----------------------------------------------------------------------------
(* State *)

\* `known`: the provider pid is recorded.
NoRow == [state |-> "NONE"]
Row == [state : States, agreement : Agreements, party : Providers, known : BOOLEAN]

\* A message past its checks is about to be written; `seen` and `known` are
\* its copy of the row, `address` whether it carries a dataAddress.
Idle == [pc |-> "idle"]
Writing == [pc : {"write"}, transfer : Transfers, to : Targets, address : BOOLEAN,
            seen : States, known : BOOLEAN]

\* `at` and `known` are the goroutine's copy of the row, `todo` the steps left.
Driver == [pc : {"none", "step", "push", "store"},
           at : States, known : BOOLEAN, todo : Seq(Targets)]
NoDriver == [pc |-> "none", at |-> "REQUESTED", known |-> FALSE, todo |-> <<>>]

TypeOK ==
  /\ row \in [Transfers -> {NoRow} \cup Row]
  /\ request \in [Transfers -> {"none", "send", "record", "done"}]
  /\ handler \in [Handlers -> {Idle} \cup Writing]
  /\ driver \in [Transfers -> [Slots -> Driver]]
  /\ pulling \subseteq Transfers

Init ==
  /\ row = [c \in Transfers |-> NoRow]
  /\ request = [c \in Transfers |-> "none"]
  /\ handler = [h \in Handlers |-> Idle]
  /\ driver = [c \in Transfers |-> [k \in Slots |-> NoDriver]]
  /\ pulling = {}

-----------------------------------------------------------------------------
(* The store, and the policy *)

Exists(c) == row[c] # NoRow

\* SetConsumerTransferState: matches only while the stored state is `from`.
Holds(c, from) == row[c].state = from

SetConsumerTransferState(c, from, to) ==
  IF Holds(c, from) THEN [row EXCEPT ![c].state = to] ELSE row

\* Without an entry nothing is sent.
resolveConsumerTransferPolicy(a) ==
  IF a \in DOMAIN ConsumerTransferPolicies THEN ConsumerTransferPolicies[a]
                                           ELSE [after |-> "STARTED", sequence |-> <<>>]

\* A goroutine with `todo` left to send, on a copy in `at`; over without any.
driving(at, known, todo) ==
  IF todo = <<>> THEN NoDriver
                 ELSE [pc |-> "step", at |-> at, known |-> known, todo |-> todo]

\* A new goroutine if `reached` is the state the policy waits for.  One that
\* was released earlier may still be running.
maybeDriveConsumerTransfer(c, reached, known) ==
  LET policy == resolveConsumerTransferPolicy(row[c].agreement) IN
  IF policy.sequence = <<>> \/ reached # policy.after
    THEN UNCHANGED driver
    ELSE \E k \in Slots :
           /\ driver[c][k] = NoDriver
           /\ driver' = [driver EXCEPT ![c][k] = driving(reached, known, policy.sequence)]

-----------------------------------------------------------------------------
(* The request, and the answer to it *)

\* Not the code: a transfer stored without the participant it is with.
handleTransferInitiateAnonymous(c, a, p) ==
  /\ ~Exists(c)
  /\ row' = [row EXCEPT ![c] =
       [state |-> "REQUESTED", agreement |-> a, party |-> "", known |-> FALSE]]
  /\ request' = [request EXCEPT ![c] = "send"]
  /\ UNCHANGED <<handler, driver, pulling>>

\* The management listener's hook, once the agreement, the roster and the
\* address have been looked up.
handleTransferInitiate(c, a, p) ==
  /\ ~Exists(c)
  /\ row' = [row EXCEPT ![c] =
       [state |-> "REQUESTED", agreement |-> a, party |-> p, known |-> FALSE]]
  /\ request' = [request EXCEPT ![c] = "send"]
  /\ UNCHANGED <<handler, driver, pulling>>

\* sendTransferRequest returns: answered with a pid, or not, and then the
\* transfer stays where it is, whether or not the provider took the request.
requestTransfer(c) ==
  /\ request[c] = "send"
  /\ \E answer \in {"record", "done"} : request' = [request EXCEPT ![c] = answer]
  /\ UNCHANGED <<row, handler, driver, pulling>>

\* The pid is recorded unconditionally; a policy that waits for REQUESTED is
\* released on the copy the goroutine started with, whatever the row is by now.
onTransferRequestAcknowledged(c) ==
  /\ request[c] = "record"
  /\ row' = [row EXCEPT ![c].known = TRUE]
  /\ request' = [request EXCEPT ![c] = "done"]
  /\ maybeDriveConsumerTransfer(c, "REQUESTED", TRUE)
  /\ UNCHANGED <<handler, pulling>>

-----------------------------------------------------------------------------
(* The provider's messages *)

\* The first half of applyTransition: resolved by the consumer pid, refused
\* with no effect unless it is the party's and legal from the state read.
lookup(h, c, to, address, who) ==
  /\ handler[h] = Idle
  /\ Exists(c)
  /\ who = row[c].party
  /\ row[c].state \in consumerInboundLegalFrom(to)
  /\ handler' = [handler EXCEPT ![h] =
       [pc |-> "write", transfer |-> c, to |-> to, address |-> address,
        seen |-> row[c].state, known |-> row[c].known]]
  /\ UNCHANGED <<row, request, driver, pulling>>

\* A start that brought an address makes this connector fetch; one that finds
\* the transfer being fetched adds nothing.
pulls(m) == IF m.to = "STARTED" /\ m.address THEN {m.transfer} ELSE {}

\* Not the code: the pull and the steps released although the write was lost.
setTransferStateUnconditional(h) ==
  LET m == handler[h] IN
  /\ m.pc = "write"
  /\ row' = SetConsumerTransferState(m.transfer, m.seen, m.to)
  /\ pulling' = pulling \cup pulls(m)
  /\ maybeDriveConsumerTransfer(m.transfer, m.to, m.known)
  /\ handler' = [handler EXCEPT ![h] = Idle]
  /\ UNCHANGED request

\* The second half: the conditional write, and what a granted message sets off.
setTransferState(h) ==
  LET m == handler[h] IN
  /\ m.pc = "write"
  /\ row' = SetConsumerTransferState(m.transfer, m.seen, m.to)
  /\ IF Holds(m.transfer, m.seen)
       THEN /\ pulling' = pulling \cup pulls(m)
            /\ maybeDriveConsumerTransfer(m.transfer, m.to, m.known)
       ELSE UNCHANGED <<pulling, driver>>
  /\ handler' = [handler EXCEPT ![h] = Idle]
  /\ UNCHANGED request

\* pullTransferData returns.
endPull(c) ==
  /\ c \in pulling
  /\ pulling' = pulling \ {c}
  /\ UNCHANGED <<row, request, handler, driver>>

-----------------------------------------------------------------------------
(* The drivers *)

\* Not the code: a step sent although its state has no message for it.
stepUnchecked(c, k) ==
  /\ driver[c][k].pc = "step"
  /\ driver' = [driver EXCEPT ![c][k] =
       IF driver[c][k].known THEN [@ EXCEPT !.pc = "push"] ELSE NoDriver]
  /\ UNCHANGED <<row, request, handler, pulling>>

\* The next step is judged on the goroutine's own copy.  One that has no
\* message, is illegal, or has no provider pid to be sent to ends the sequence.
step(c, k) ==
  LET d == driver[c][k] IN
  /\ d.pc = "step"
  /\ driver' = [driver EXCEPT ![c][k] =
       IF d.at \in consumerTransferStepMessage(Head(d.todo)) /\ d.known
         THEN [d EXCEPT !.pc = "push"] ELSE NoDriver]
  /\ UNCHANGED <<row, request, handler, pulling>>

\* pushCallback is over: delivered, refused, or its retries exhausted.
endPush(c, k) ==
  /\ driver[c][k].pc = "push"
  /\ driver' = [driver EXCEPT ![c][k].pc = "store"]
  /\ UNCHANGED <<row, request, handler, pulling>>

\* The state write of pushConsumerStep; a dropped one ends the sequence.
pushConsumerStep(c, k) ==
  LET d == driver[c][k] IN
  /\ d.pc = "store"
  /\ row' = SetConsumerTransferState(c, d.at, Head(d.todo))
  /\ driver' = [driver EXCEPT ![c][k] =
       IF Holds(c, d.at) THEN driving(Head(d.todo), d.known, Tail(d.todo)) ELSE NoDriver]
  /\ UNCHANGED <<request, handler, pulling>>

-----------------------------------------------------------------------------
(* Failures and crashes *)

\* A message's write fails: 500, and nothing follows.
failWrite(h) ==
  /\ handler[h].pc = "write"
  /\ handler' = [handler EXCEPT ![h] = Idle]
  /\ UNCHANGED <<row, request, driver, pulling>>

\* The pid cannot be recorded: nothing is ever sent for this transfer.
failRecord(c) ==
  /\ request[c] = "record"
  /\ request' = [request EXCEPT ![c] = "done"]
  /\ UNCHANGED <<row, handler, driver, pulling>>

\* The provider's address is refused, or the state write fails.
failStep(c, k) ==
  /\ driver[c][k].pc \in {"step", "store"}
  /\ driver' = [driver EXCEPT ![c][k] = NoDriver]
  /\ UNCHANGED <<row, request, handler, pulling>>

\* The process stops and starts again: only the table survives.
crash ==
  /\ request' = [c \in Transfers |-> IF request[c] = "none" THEN "none" ELSE "done"]
  /\ handler' = [h \in Handlers |-> Idle]
  /\ driver' = [c \in Transfers |-> [k \in Slots |-> NoDriver]]
  /\ pulling' = {}
  /\ UNCHANGED row

-----------------------------------------------------------------------------
(* Next-state relation *)

Next ==
  \/ \E c \in Transfers :
       \/ \E a \in Agreements, p \in Providers : handleTransferInitiate(c, a, p)
       \/ requestTransfer(c)
       \/ onTransferRequestAcknowledged(c)
       \/ endPull(c)
       \/ failRecord(c)
       \/ \E k \in Slots : step(c, k) \/ endPush(c, k) \/ pushConsumerStep(c, k) \/ failStep(c, k)
  \/ \E h \in Handlers :
       \/ \E c \in Transfers, to \in Targets, address \in BOOLEAN, who \in Providers :
            (address => to = "STARTED") /\ lookup(h, c, to, address, who)
       \/ setTransferState(h)
       \/ failWrite(h)
  \/ crash

Spec == Init /\ [][Next]_vars
-----------------------------------------------------------------------------
(* Properties *)

\* The states a transfer may be in once it has been in s.
Past(s) ==
  CASE s = "REQUESTED"                -> States
    [] s \in {"STARTED", "SUSPENDED"} -> States \ {"REQUESTED"}
    [] OTHER                          -> {s}

\* Nothing in flight is about to write nonsense: of all drivers of a transfer,
\* each sends and stores only a legal successor of its own copy's state, never
\* a start, and only to a provider whose pid is on record; a message was
\* checked against a state it may be written from; and the row has only moved
\* forward from any of these copies.  At stake in every restart, which
\* releases a driver while an earlier one may still be pushing.
InFlightIsLegal ==
  /\ \A c \in Transfers : Exists(c) <=> request[c] # "none"
  /\ \A c \in Transfers, k \in Slots :
       LET d == driver[c][k] IN
       /\ d.pc # "none" =>
            /\ Exists(c)
            /\ row[c].state \in Past(d.at)
            /\ d.todo # <<>>
            /\ d.known => row[c].known
       /\ d.pc \in {"push", "store"} =>
            d.known /\ d.at \in consumerTransferStepMessage(Head(d.todo))
  /\ \A h \in Handlers : handler[h].pc = "write" =>
       LET m == handler[h] IN
       /\ Exists(m.transfer)
       /\ m.seen \in consumerInboundLegalFrom(m.to)
       /\ row[m.transfer].state \in Past(m.seen)
       /\ m.known => row[m.transfer].known

\* The consumer keeps the contract of one side of a transfer: it walks the DSP
\* state machine, and a pull is set off only by a start that was granted.
Contract == INSTANCE TransferContract WITH
  state <- [c \in Transfers |-> row[c].state],
  carrying <- pulling

KeepsContract == Contract!Spec
=============================================================================
