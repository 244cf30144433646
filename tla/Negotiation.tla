------------------------------ MODULE Negotiation ------------------------------
(***************************************************************************)
(* Two connectors negotiating with each other: ProviderNegotiation on one  *)
(* side, ConsumerNegotiation on the other, and HTTP requests between them. *)
(*                                                                         *)
(* A goroutine at its push may send its message any number of times; every *)
(* copy may be lost, late, or overtaken by another message, and the answer *)
(* to it may be lost.  (The code stops after five attempts and the ten     *)
(* seconds each may take; leaving that out adds behaviours and drops none.)*)
(* Either side may fail or crash at any point.                             *)
(*                                                                         *)
(* A negotiation has one name here, where the code gives it a pid on each  *)
(* side: the provider's is learnt by the consumer, which is what its `pid` *)
(* records.                                                                *)
(***************************************************************************)
EXTENDS NegotiationRules

CONSTANTS
  Neg, Datasets,
  Consumer, Provider,                        \* the two participants
  Advertised, Limited, TerminateOnVerify,    \* the provider's configuration
  OnOffer, OnAgreement, OnIdle,              \* the consumer's
  ProviderHandlers, ConsumerHandlers

\* What either side assumes of its configuration.
ASSUME ConfigAssumption ==
  /\ Advertised \subseteq Datasets
  /\ Limited \subseteq Advertised
  /\ TerminateOnVerify \subseteq Advertised

ASSUME PolicyAssumption ==
  /\ OnOffer \in [Datasets -> OfferPolicies]
  /\ OnAgreement \in [Datasets -> AgreementPolicies]
  /\ OnIdle \in [Datasets -> IdlePolicies]

VARIABLES
  pRow, pAgreements, expired, pHandler, pTask,   \* the provider
  cRow, cAgreements, cHandler, cTask, cAnswer,   \* the consumer
  wire                                           \* requests under way

providerVars == <<pRow, pAgreements, expired, pHandler, pTask>>
consumerVars == <<cRow, cAgreements, cHandler, cTask, cAnswer>>
vars == <<providerVars, consumerVars, wire>>

P == INSTANCE ProviderNegotiation WITH
  Participants <- {Consumer}, Handlers <- ProviderHandlers,
  row <- pRow, agreements <- pAgreements, handler <- pHandler, task <- pTask

\* An agreement's id is the negotiation's pid.
C == INSTANCE ConsumerNegotiation WITH
  Participants <- {Provider}, Handlers <- ConsumerHandlers, AgreementIds <- Neg,
  row <- cRow, agreements <- cAgreements, handler <- cHandler, task <- cTask,
  answer <- cAnswer

ToProvider == {"request", "reRequest", "accepted", "verification", "termination"}
ToConsumer == {"offer", "agreement", "finalized", "termination"}
Packet == [to : {"provider"}, op : ToProvider, neg : Neg]
            \cup [to : {"consumer"}, op : ToConsumer, neg : Neg]

Init == P!Init /\ C!Init /\ wire = {}

-----------------------------------------------------------------------------
(* Sending: the paths of negotiation_handler.go and negotiation_client.go *)

\* Not the code: terminations pushed to the agreement's path.
terminationToAgreementPath ==
  [OFFERED |-> "offer", AGREED |-> "agreement", FINALIZED |-> "finalized",
   TERMINATED |-> "agreement"]

\* What the provider pushes on its way to each state.
callbackPath ==
  [OFFERED |-> "offer", AGREED |-> "agreement", FINALIZED |-> "finalized",
   TERMINATED |-> "termination"]

\* What the consumer sends for each reaction.
consumerPath ==
  [accept |-> "accepted", counter |-> "reRequest", verify |-> "verification",
   reject |-> "termination", abandon |-> "termination"]

toConsumer(n, op) == [to |-> "consumer", op |-> op, neg |-> n]
toProvider(n, op) == [to |-> "provider", op |-> op, neg |-> n]

attemptPush(n, k) ==
  /\ pTask[n][k].pc = "push"
  /\ wire' = wire \cup {toConsumer(n, callbackPath[pTask[n][k].to])}
  /\ UNCHANGED <<providerVars, consumerVars>>

\* Without the provider's pid the message goes nowhere.
attemptSend(n, k) ==
  /\ cTask[n][k].pc = "push" /\ cTask[n][k].pid
  /\ wire' = wire \cup {toProvider(n, consumerPath[cTask[n][k].action])}
  /\ UNCHANGED <<providerVars, consumerVars>>

\* The operator asks for a negotiation; its request goes out once.
initiate(n, d) ==
  /\ C!handleInitiate(n, d, Provider)
  /\ wire' = wire \cup {toProvider(n, "request")}
  /\ UNCHANGED providerVars

-----------------------------------------------------------------------------
(* Receiving *)

\* A request that is under way reaches its handler.
ProviderReceives(h, n, op) ==
  /\ toProvider(n, op) \in wire
  /\ wire' = wire \ {toProvider(n, op)}
  /\ UNCHANGED consumerVars
  /\ \/ op = "request" /\ \E matches \in BOOLEAN :
          P!handleContractRequest(h, n, cRow[n].dataset, matches, Consumer)
     \/ op = "reRequest" /\ P!handleReRequest(h, n, Consumer, TRUE)
     \/ op = "accepted" /\ P!handleProviderAcceptedEvent(h, n, Consumer)
     \/ op = "verification" /\ P!handleVerification(h, n, Consumer)
     \/ op = "termination" /\ P!handleProviderTermination(h, n, Consumer)

\* The provider's own terms are only ever a validity window, which the
\* consumer can enforce; the agreement is over the dataset of its row.
ConsumerReceives(h, n, op) ==
  /\ toConsumer(n, op) \in wire
  /\ wire' = wire \ {toConsumer(n, op)}
  /\ UNCHANGED providerVars
  /\ \/ op = "offer" /\ C!handleOffers(h, n, Provider, FALSE)
     \/ op = "agreement" /\ C!handleAgreement(h, n, Provider,
          [id |-> n, dataset |-> pRow[n].dataset, unenforceable |-> FALSE])
     \/ op = "finalized" /\ C!handleConsumerFinalizedEvent(h, n, Provider)
     \/ op = "termination" /\ C!handleConsumerTermination(h, n, Provider)

-----------------------------------------------------------------------------
(* Everything else each side does *)

\* The provider answered the verification with a success.
Acknowledged(n) == pTask[n]["verified"].pc # "none"

\* The answers a sender can see: a success only if there was one.
ConsumerRuns(n, k) ==
  \/ k = "start" /\ C!sendInitialRequest(n, FALSE)
  \/ k = "start" /\ P!Exists(n) /\ C!sendInitialRequest(n, TRUE)
  \/ k = "start" /\ C!SetConsumerProviderPID(n)
  \/ C!resolveProviderPID(n, k)
  \/ C!endPush(n, k, FALSE)
  \/ cTask[n][k].action = "verify" /\ Acknowledged(n) /\ C!endPush(n, k, TRUE)
  \/ C!storeReaction(n, k)

ProviderStep ==
  \/ \E h \in ProviderHandlers : P!Serve(h)
  \/ \E n \in Neg, k \in P!TaskIds : P!Run(n, k)
  \/ \E d \in Limited : P!expire(d)
  \/ P!Fault

ConsumerStep ==
  \/ \E h \in ConsumerHandlers : C!Serve(h)
  \/ \E n \in Neg, k \in C!TaskIds : ConsumerRuns(n, k)
  \/ C!Fault

Next ==
  \/ \E n \in Neg, d \in Datasets : initiate(n, d)
  \/ \E n \in Neg, k \in P!TaskIds : attemptPush(n, k)
  \/ \E n \in Neg, k \in C!TaskIds : attemptSend(n, k)
  \/ \E h \in ProviderHandlers, n \in Neg, op \in ToProvider : ProviderReceives(h, n, op)
  \/ \E h \in ConsumerHandlers, n \in Neg, op \in ToConsumer : ConsumerReceives(h, n, op)
  \/ ProviderStep /\ UNCHANGED <<consumerVars, wire>>
  \/ ConsumerStep /\ UNCHANGED <<providerVars, wire>>

Spec == Init /\ [][Next]_vars

-----------------------------------------------------------------------------
(* Properties *)

\* The consumer reports VERIFIED only of a negotiation the provider verified
\* (reactToAgreement's "03-06 verification-ack rule").  At stake when messages
\* are late and either side terminates meanwhile.
VerifiedByBoth ==
  \A n \in Neg : cRow[n].state \in {"VERIFIED", "FINALIZED"} =>
    pRow[n].state \in {"VERIFIED", "FINALIZED", "TERMINATED"}

\* The two sides do not end a negotiation differently: what one of them has
\* finalized the other has not terminated, unless the consumer abandons idle
\* requests, whose termination may arrive at any later time.
SameEnd ==
  \A n \in Neg : cRow[n] # C!NoRow /\ pRow[n] # P!NoRow =>
    \/ {cRow[n].state, pRow[n].state} # Terminal
    \/ OnIdle[cRow[n].dataset] = "abandon"

\* An agreement in the consumer's table was decided on by the provider, over
\* the dataset that was asked for, and one in the provider's was asked for or
\* accepted by the consumer.  At stake in the pushes, which announce what is
\* stored only afterwards or not at all.
AgreementsWereMade ==
  /\ \A a \in cAgreements :
       /\ \E k \in P!TaskIds : pTask[a.neg][k].to = "AGREED"
       /\ a.dataset = cRow[a.neg].dataset
  /\ \A a \in pAgreements :
       /\ a.dataset = cRow[a.id].dataset
       /\ pRow[a.id].matches \/ OnOffer[a.dataset] = "accept"
=============================================================================
