-------------------------- MODULE ConsumerNegotiation --------------------------
(***************************************************************************)
(* The consumer role of a contract negotiation                             *)
(* (internal/dsp/negotiation_consumer_handler.go over internal/store): the *)
(* consumer_negotiations and agreements tables, the handlers of a          *)
(* provider's pushes, and the goroutines that react to them by policy.     *)
(*                                                                         *)
(* As in ProviderNegotiation a store call is one step and whatever lies    *)
(* between two of them is not.  Here the result of a push matters: a       *)
(* verification is recorded only if the provider acknowledged it.  The     *)
(* urls of the pushes are made with the provider's pid, which is not known *)
(* until the answer to the initial request has been stored.                *)
(*                                                                         *)
(* The provider is not constrained: it may push anything at any time, and  *)
(* acknowledge or refuse anything.                                         *)
(***************************************************************************)
EXTENDS NegotiationRules

CONSTANTS
  Neg,             \* negotiations, by consumer pid
  Participants,    \* counterparties, and verified issuers of requests
  Datasets,        \* dataset identifiers
  AgreementIds,    \* identifiers a provider may give an agreement
  OnOffer,         \* the on_offer policy of each dataset, defaults applied
  OnAgreement,     \* the on_agreement policy
  OnIdle,          \* the on_idle policy
  Handlers         \* concurrently served requests

ASSUME PolicyAssumption ==
  /\ OnOffer \in [Datasets -> OfferPolicies]
  /\ OnAgreement \in [Datasets -> AgreementPolicies]
  /\ OnIdle \in [Datasets -> IdlePolicies]

VARIABLES
  row,         \* table consumer_negotiations
  agreements,  \* table agreements, the rows of origin "agreed"
  handler,     \* requests being served
  task,        \* the goroutines of each negotiation
  answer       \* history: the agreement each negotiation reports, and whether
               \* the provider acknowledged a verification

vars == <<row, agreements, handler, task, answer>>

-----------------------------------------------------------------------------
(* State *)

NoRow == [state |-> "NONE"]

\* `pid`: the provider's pid is recorded.
Row == [state : States, dataset : Datasets, party : Participants, pid : BOOLEAN]

\* `neg` is the row's consumer_pid.
Agreement == [id : AgreementIds, neg : Neg, dataset : Datasets, party : Participants]

\* A request past its checks holds a copy of the row (the copy's state is
\* `seen`), and what it still needs of the message.  An agreement is first to
\* be inserted, with its id and its dataset, and then to be stored like any
\* other message; what is left of it by then is whether its terms are ones this
\* connector cannot enforce and whether it is over another dataset.
Idle == [pc |-> "idle"]
Ops == {"offer", "agreement", "finalized", "termination"}
NoId == ""
Message == [id : AgreementIds, dataset : Datasets, unenforceable : BOOLEAN]
Recording == [pc : {"record"}, neg : Neg, seen : States, pid : BOOLEAN, msg : Message]
Writing == [pc : {"write"}, op : Ops, neg : Neg, seen : States, pid : BOOLEAN,
            unenforceable : BOOLEAN, wrongTarget : BOOLEAN, id : AgreementIds \cup {NoId}]

\* The goroutines of a negotiation: startNegotiation, reactToOffer and
\* reactToAgreement, with the state and the provider pid of their copy of the
\* row, and the action their policy asks for.
TaskIds == {"start", "offer", "agreement"}
Stages == {"none", "request", "pid", "resolve", "push", "store", "done"}
Actions == OfferPolicies \cup AgreementPolicies \cup IdlePolicies
Task == [pc : Stages, from : States, pid : BOOLEAN, action : Actions]
NoTask == [pc |-> "none", from |-> "REQUESTED", pid |-> FALSE, action |-> "wait"]

Answer == [to : AgreementIds \cup {NoId}, acknowledged : BOOLEAN]
NoAnswer == [to |-> NoId, acknowledged |-> FALSE]

TypeOK ==
  /\ row \in [Neg -> {NoRow} \cup Row]
  /\ agreements \subseteq Agreement
  /\ handler \in [Handlers -> {Idle} \cup Recording \cup Writing]
  /\ task \in [Neg -> [TaskIds -> Task]]
  /\ answer \in [Neg -> Answer]

Init ==
  /\ row = [n \in Neg |-> NoRow]
  /\ agreements = {}
  /\ handler = [h \in Handlers |-> Idle]
  /\ task = [n \in Neg |-> [k \in TaskIds |-> NoTask]]
  /\ answer = [n \in Neg |-> NoAnswer]

-----------------------------------------------------------------------------
(* The store, and the helpers of the handlers *)

Exists(n) == row[n] # NoRow

\* Not the code: an UPDATE without its `AND state = ?`.
HoldsAlways(n, from) == Exists(n)

\* SetConsumerState: the UPDATE matches only while the state is still `from`.
Holds(n, from) == row[n].state = from

SetConsumerState(n, from, to) ==
  IF Holds(n, from) THEN [row EXCEPT ![n].state = to] ELSE row

\* CreateAgreement fails on an id an agreement already has.  (One that an
\* agreement of another origin has is an insert that fails: see failWrite.)
IsNewId(id) == \A a \in agreements : a.id # id

\* The state an action ends in, for those that end in one.
Store == [accept |-> "ACCEPTED", verify |-> "VERIFIED", reject |-> "TERMINATED",
          abandon |-> "TERMINATED"]

react(from, pid, action) == [pc |-> "resolve", from |-> from, pid |-> pid, action |-> action]

\* The handler answers and is over.  What it answers is not told apart: the
\* provider may take any push for delivered or not.
return(h) == handler' = [handler EXCEPT ![h] = Idle]

\* What the handlers share: read the row, refuse a caller it is not with,
\* check the message is legal from the state read.
lookup(h, n, who, legal, copy) ==
  /\ handler[h] = Idle
  /\ Exists(n)
  /\ handler' = IF who = row[n].party /\ legal THEN [handler EXCEPT ![h] = copy] ELSE handler
  /\ UNCHANGED <<row, agreements, task, answer>>

\* A request about to write the state, with the row as it is now.
writing(op, n, unenforceable, wrongTarget) ==
  [pc |-> "write", op |-> op, neg |-> n, seen |-> row[n].state, pid |-> row[n].pid,
   unenforceable |-> unenforceable, wrongTarget |-> wrongTarget, id |-> NoId]

AtWrite(h, op) == handler[h].pc = "write" /\ handler[h].op = op

\* The state write a handler ends with; `reaction` is the goroutine it starts.
store(h, to, reaction) ==
  LET n == handler[h].neg  lands == Holds(n, handler[h].seen) IN
  /\ row' = SetConsumerState(n, handler[h].seen, to)
  /\ return(h)
  /\ task' = IF lands THEN reaction ELSE task
  /\ answer' = IF lands /\ to = "AGREED" THEN [answer EXCEPT ![n].to = handler[h].id] ELSE answer
  /\ UNCHANGED agreements

-----------------------------------------------------------------------------
(* Initiation *)

\* Not the code: the row stored without the participant it is with.
handleInitiateAnonymous(n, d, who) ==
  /\ ~Exists(n)
  /\ row' = [row EXCEPT ![n] = [state |-> "REQUESTED", dataset |-> d, party |-> "", pid |-> FALSE]]
  /\ task' = [task EXCEPT ![n]["start"] =
       [pc |-> "request", from |-> "REQUESTED", pid |-> FALSE, action |-> OnIdle[d]]]
  /\ UNCHANGED <<agreements, handler, answer>>

\* The management hook, past its checks of the roster and the address.
handleInitiate(n, d, who) ==
  /\ ~Exists(n)
  /\ row' = [row EXCEPT ![n] = [state |-> "REQUESTED", dataset |-> d, party |-> who, pid |-> FALSE]]
  /\ task' = [task EXCEPT ![n]["start"] =
       [pc |-> "request", from |-> "REQUESTED", pid |-> FALSE, action |-> OnIdle[d]]]
  /\ UNCHANGED <<agreements, handler, answer>>

\* sendInitialRequest, which is not retried: without a provider pid in a good
\* answer the goroutine is over.
sendInitialRequest(n, answered) ==
  /\ task[n]["start"].pc = "request"
  /\ task' = [task EXCEPT ![n]["start"].pc = IF answered THEN "pid" ELSE "done"]
  /\ UNCHANGED <<row, agreements, handler, answer>>

SetConsumerProviderPID(n) ==
  /\ task[n]["start"].pc = "pid"
  /\ row' = [row EXCEPT ![n].pid = TRUE]
  /\ task' = [task EXCEPT ![n]["start"].pid = TRUE,
                          ![n]["start"].pc = IF task[n]["start"].action = "abandon"
                                               THEN "push" ELSE "done"]
  /\ UNCHANGED <<agreements, handler, answer>>

-----------------------------------------------------------------------------
(* Requests: the first step of each handler *)

handleOffers(h, n, who, unenforceable) ==
  lookup(h, n, who, offerLegalFrom(row[n].state), writing("offer", n, unenforceable, FALSE))

handleAgreement(h, n, who, m) ==
  lookup(h, n, who, agreementLegalFrom(row[n].state),
         [pc |-> "record", neg |-> n, seen |-> row[n].state, pid |-> row[n].pid, msg |-> m])

handleConsumerFinalizedEvent(h, n, who) ==
  lookup(h, n, who, finalizedEventLegalFrom(row[n].state), writing("finalized", n, FALSE, FALSE))

handleConsumerTermination(h, n, who) ==
  lookup(h, n, who, row[n].state \notin Terminal, writing("termination", n, FALSE, FALSE))

-----------------------------------------------------------------------------
(* Requests: the writes, the answer and the goroutine each handler ends with *)

\* Not the code: reactToOffer given the copy as read, still in REQUESTED.
storeOfferedStaleCopy(h) ==
  LET n == handler[h].neg IN
  /\ AtWrite(h, "offer")
  /\ store(h, "OFFERED", [task EXCEPT ![n]["offer"] =
       react(handler[h].seen, handler[h].pid,
             decideOfferReaction(OnOffer[row[n].dataset], handler[h].unenforceable))])

storeOffered(h) ==
  LET n == handler[h].neg IN
  /\ AtWrite(h, "offer")
  /\ store(h, "OFFERED", [task EXCEPT ![n]["offer"] =
       react("OFFERED", handler[h].pid,
             decideOfferReaction(OnOffer[row[n].dataset], handler[h].unenforceable))])

\* The agreement in hand, and the request once it is inserted.
Received(h) == [id |-> handler[h].msg.id, neg |-> handler[h].neg,
                dataset |-> handler[h].msg.dataset, party |-> row[handler[h].neg].party]
recorded(h) ==
  [pc |-> "write", op |-> "agreement", neg |-> handler[h].neg, seen |-> handler[h].seen,
   pid |-> handler[h].pid, unenforceable |-> handler[h].msg.unenforceable,
   wrongTarget |-> handler[h].msg.dataset # row[handler[h].neg].dataset,
   id |-> handler[h].msg.id]

\* Not the code: an insert that fails is logged, and the state written all the same.
CreateAgreementAnyway(h) ==
  /\ handler[h].pc = "record"
  /\ \/ UNCHANGED agreements
     \/ IsNewId(handler[h].msg.id) /\ agreements' = agreements \cup {Received(h)}
  /\ handler' = [handler EXCEPT ![h] = recorded(h)]
  /\ UNCHANGED <<row, task, answer>>

\* The insert, before the state: a duplicate id is a 500 and nothing follows.
CreateAgreement(h) ==
  /\ handler[h].pc = "record"
  /\ IF IsNewId(handler[h].msg.id)
       THEN /\ agreements' = agreements \cup {Received(h)}
            /\ handler' = [handler EXCEPT ![h] = recorded(h)]
       ELSE return(h) /\ UNCHANGED agreements
  /\ UNCHANGED <<row, task, answer>>

storeAgreed(h) ==
  LET n == handler[h].neg IN
  /\ AtWrite(h, "agreement")
  /\ store(h, "AGREED", [task EXCEPT ![n]["agreement"] =
       react("AGREED", handler[h].pid,
             decideAgreementReaction(OnAgreement[row[n].dataset], handler[h].unenforceable,
                                     handler[h].wrongTarget))])

storeFinalized(h) ==
  /\ AtWrite(h, "finalized")
  /\ store(h, "FINALIZED", task)

storeTermination(h) ==
  /\ AtWrite(h, "termination")
  /\ store(h, "TERMINATED", task)

-----------------------------------------------------------------------------
(* Goroutines *)

\* Not the code: the whole row adopted, its state included.
resolveWholeRow(n, k) ==
  /\ task[n][k].pc = "resolve"
  /\ task' = [task EXCEPT ![n][k].pid = row[n].pid,
                          ![n][k].from = row[n].state,
                          ![n][k].pc = IF task[n][k].action = "passive" THEN "done" ELSE "push"]
  /\ UNCHANGED <<row, agreements, handler, answer>>

\* The pid, and only the pid, is re-read if the copy has none.
resolveProviderPID(n, k) ==
  /\ task[n][k].pc = "resolve"
  /\ task' = [task EXCEPT ![n][k].pid = @ \/ row[n].pid,
                          ![n][k].pc = IF task[n][k].action = "passive" THEN "done" ELSE "push"]
  /\ UNCHANGED <<row, agreements, handler, answer>>

\* The provider answered a verification with a success.
acknowledge(n, k, delivered) ==
  answer' = IF delivered /\ task[n][k].action = "verify"
              THEN [answer EXCEPT ![n].acknowledged = TRUE] ELSE answer

\* Not the code: VERIFIED stored like every other reaction, acknowledged or not.
endPushUngated(n, k, delivered) ==
  /\ task[n][k].pc = "push"
  /\ acknowledge(n, k, delivered)
  /\ task' = [task EXCEPT ![n][k].pc = IF task[n][k].action = "counter" THEN "done" ELSE "store"]
  /\ UNCHANGED <<row, agreements, handler>>

\* pushCallback is over.  Only a verification looks at the result; a counter
\* request stores nothing.  Any answer below 300 counts, also one to the url
\* that a push without a pid goes to.
endPush(n, k, delivered) ==
  /\ task[n][k].pc = "push"
  /\ acknowledge(n, k, delivered)
  /\ task' = [task EXCEPT ![n][k].pc =
       IF \/ task[n][k].action = "counter"
          \/ task[n][k].action = "verify" /\ ~delivered
         THEN "done" ELSE "store"]
  /\ UNCHANGED <<row, agreements, handler>>

\* The state write of a reaction, dropped if the row has moved on.
storeReaction(n, k) ==
  /\ task[n][k].pc = "store"
  /\ row' = SetConsumerState(n, task[n][k].from, Store[task[n][k].action])
  /\ task' = [task EXCEPT ![n][k].pc = "done"]
  /\ UNCHANGED <<agreements, handler, answer>>

-----------------------------------------------------------------------------
(* Failing store calls, and crashes *)

\* A handler's write fails: 500, and nothing follows.
failWrite(h) ==
  /\ handler[h].pc \in {"record", "write"}
  /\ return(h)
  /\ UNCHANGED <<row, agreements, task, answer>>

\* A goroutine's write fails: logged, and the goroutine is over.
failStore(n, k) ==
  /\ task[n][k].pc \in {"pid", "store"}
  /\ task' = [task EXCEPT ![n][k].pc = "done"]
  /\ UNCHANGED <<row, agreements, handler, answer>>

\* resolveProviderPID's read fails: the push goes ahead without a pid.
failResolve(n, k) ==
  /\ task[n][k].pc = "resolve" /\ ~task[n][k].pid
  /\ task' = [task EXCEPT ![n][k].pc = IF task[n][k].action = "passive" THEN "done" ELSE "push"]
  /\ UNCHANGED <<row, agreements, handler, answer>>

\* The tables survive; no request and no goroutine is resumed.
crash ==
  /\ handler' = [h \in Handlers |-> Idle]
  /\ task' = [n \in Neg |-> [k \in TaskIds |->
       IF task[n][k].pc = "none" THEN task[n][k] ELSE [task[n][k] EXCEPT !.pc = "done"]]]
  /\ UNCHANGED <<row, agreements, answer>>

-----------------------------------------------------------------------------
(* Next-state relation *)

Request ==
  \E n \in Neg, who \in Participants :
    \/ \E d \in Datasets : handleInitiate(n, d, who)
    \/ \E h \in Handlers :
         \/ \E unenforceable \in BOOLEAN : handleOffers(h, n, who, unenforceable)
         \/ \E m \in Message : handleAgreement(h, n, who, m)
         \/ handleConsumerFinalizedEvent(h, n, who)
         \/ handleConsumerTermination(h, n, who)

Serve(h) ==
  \/ storeOffered(h)
  \/ CreateAgreement(h)
  \/ storeAgreed(h)
  \/ storeFinalized(h)
  \/ storeTermination(h)

Run(n, k) ==
  \/ k = "start" /\ \E answered \in BOOLEAN : sendInitialRequest(n, answered)
  \/ k = "start" /\ SetConsumerProviderPID(n)
  \/ resolveProviderPID(n, k)
  \/ \E delivered \in BOOLEAN : endPush(n, k, delivered)
  \/ storeReaction(n, k)

Work ==
  \/ Request
  \/ \E h \in Handlers : Serve(h)
  \/ \E n \in Neg, k \in TaskIds : Run(n, k)

Fault ==
  \/ \E h \in Handlers : failWrite(h)
  \/ \E n \in Neg, k \in TaskIds : failStore(n, k) \/ failResolve(n, k)
  \/ crash

Next == Work \/ Fault

Spec == Init /\ [][Next]_vars

\* As for the provider: handlers and goroutines are scheduled and a push ends,
\* one way or the other.  Nothing promises that the provider answers.
FairSpec ==
  /\ Init /\ [][Work]_vars
  /\ \A h \in Handlers : WF_vars(Serve(h))
  /\ \A n \in Neg, k \in TaskIds : WF_vars(Run(n, k))
-----------------------------------------------------------------------------
(* Properties *)

\* The states a negotiation may be in once it has been in s.  AGREED is
\* reached from REQUESTED too: a provider need not make an offer first.
Past(s) ==
  CASE s = "REQUESTED" -> States
    [] s = "OFFERED"   -> States \ {"REQUESTED"}
    [] s = "ACCEPTED"  -> States \ {"REQUESTED", "OFFERED"}
    [] s = "AGREED"    -> IssuedStates \cup {"TERMINATED"}
    [] s = "VERIFIED"  -> {"VERIFIED", "FINALIZED", "TERMINATED"}
    [] OTHER           -> {s}

\* The state each goroutine was started in, and what it may do there.
StartedFrom == [start |-> "REQUESTED", offer |-> "OFFERED", agreement |-> "AGREED"]
Plans == [start |-> IdlePolicies, offer |-> OfferPolicies, agreement |-> AgreementPolicies]

\* The states each handler goes on to its write from.
SeenBy ==
  [offer |-> {"REQUESTED"}, agreement |-> {"REQUESTED", "ACCEPTED"},
   finalized |-> {"VERIFIED"}, termination |-> States \ Terminal]

\* Nothing in flight is about to write nonsense: every goroutine still acts on
\* the state it was started in, for a policy that applies there, every handler
\* checked a state it may write from, and the row has only moved forward
\* since.  At stake in every copy of a row that is used after other steps ran,
\* and in resolveProviderPID, which refreshes part of such a copy.
InFlightIsLegal ==
  /\ \A n \in Neg, k \in TaskIds : task[n][k].pc # "none" =>
       /\ row[n].state \in Past(StartedFrom[k])
       /\ task[n][k].from = StartedFrom[k]
       /\ task[n][k].action \in Plans[k]
       /\ task[n][k].pid => row[n].pid
       /\ task[n][k].pc \in {"request", "pid"} => k = "start"
       /\ task[n][k].pc = "resolve" => k # "start"
       /\ task[n][k].pc = "push" => task[n][k].action \notin {"wait", "passive"}
       /\ task[n][k].pc = "store" => task[n][k].action \in DOMAIN Store
  /\ \A n \in Neg : Exists(n) <=> task[n]["start"].pc # "none"
  /\ \A h \in Handlers : handler[h].pc \in {"record", "write"} =>
       /\ row[handler[h].neg].state \in Past(handler[h].seen)
       /\ handler[h].pid => row[handler[h].neg].pid
       /\ handler[h].pc = "record" => handler[h].seen \in SeenBy["agreement"]
       /\ handler[h].pc = "write" => handler[h].seen \in SeenBy[handler[h].op]

\* The write of a push that can still succeed finds the reaction it starts not
\* yet started: a provider that sends an offer or an agreement twice is
\* answered once.  At stake in SetConsumerState, which alone decides which of
\* two concurrent requests is the one to react to.
ReactsOnce ==
  \A h \in Handlers : handler[h].pc = "write" /\ Holds(handler[h].neg, handler[h].seen) =>
    /\ handler[h].op = "offer" => task[handler[h].neg]["offer"].pc = "none"
    /\ handler[h].op = "agreement" => task[handler[h].neg]["agreement"].pc = "none"

\* A negotiation is VERIFIED only once the provider acknowledged the
\* verification of an agreement (reactToAgreement, "must not report VERIFIED
\* unless the provider actually acknowledged it"), and the one that was
\* verified, of all that the provider sent, is in the table with the party and
\* the dataset this connector asked for.  At stake in agreements that arrive
\* together, each inserted before the state write that one of them wins.
VerifiedWasAskedFor ==
  \A n \in Neg : row[n].state \in {"VERIFIED", "FINALIZED"} =>
    /\ answer[n].acknowledged
    /\ OnAgreement[row[n].dataset] = "verify"
    /\ \E a \in agreements : /\ a.id = answer[n].to /\ a.neg = n
                             /\ a.dataset = row[n].dataset /\ a.party = row[n].party

\* The consumer keeps the contract of one side of a negotiation, and reports
\* AGREED only after the agreement is in the table (handleAgreement, "record
\* what was agreed to before recording that it was agreed").
Contract == INSTANCE NegotiationContract WITH
  RecordIn <- States,
  RecordedBefore <- {"AGREED"},
  state <- [n \in Neg |-> row[n].state],
  ledger <- {a.neg : a \in agreements}

KeepsContract == Contract!Spec

\* A state whose policy is to leave it is left, without waiting for the
\* provider and whether or not any message can be delivered: an idle request
\* is abandoned once its provider pid is known, an offer accepted or rejected,
\* an agreement rejected.  At stake in the conditional writes of the
\* reactions: one made on a stale copy is dropped, and nothing retries it.
EveryReactionLands ==
  \A n \in Neg :
    /\ row[n].state = "REQUESTED" /\ row[n].pid /\ OnIdle[row[n].dataset] = "abandon"
         ~> row[n].state # "REQUESTED"
    /\ row[n].state = "OFFERED" /\ OnOffer[row[n].dataset] \in {"accept", "reject"}
         ~> row[n].state # "OFFERED"
    /\ row[n].state = "AGREED" /\ OnAgreement[row[n].dataset] = "reject"
         ~> row[n].state # "AGREED"
=============================================================================
