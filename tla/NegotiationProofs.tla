--------------------------- MODULE NegotiationProofs ---------------------------
(***************************************************************************)
(* Proofs about Negotiation: what two connectors promise each other, for   *)
(* any number of negotiations and of requests served at once, and any      *)
(* configuration of either side.                                           *)
(*                                                                         *)
(* Whatever happens between the two, the provider makes a provider's step  *)
(* and the consumer a consumer's (Halves), so what is proved of either     *)
(* alone holds here.  What neither shows alone is CrossInv: what each side *)
(* has heard, the other has said.                                          *)
(***************************************************************************)
EXTENDS Negotiation, TLAPS

\* The proofs about either side, over its variables here.
PP == INSTANCE ProviderNegotiationProofs WITH
  Participants <- {Consumer}, Handlers <- ProviderHandlers,
  row <- pRow, agreements <- pAgreements, handler <- pHandler, task <- pTask

CC == INSTANCE ConsumerNegotiationProofs WITH
  Participants <- {Provider}, Handlers <- ConsumerHandlers, AgreementIds <- Neg,
  row <- cRow, agreements <- cAgreements, handler <- cHandler, task <- cTask,
  answer <- cAnswer

-----------------------------------------------------------------------------
(* The sides composed here are the ones the proofs are about *)

\* The provider's operations.
LEMMA ProviderOperations ==
  /\ P!Init => PP!Init
  /\ P!TaskIds = PP!TaskIds
  /\ \A h, n, d, matches, who :
       P!handleContractRequest(h, n, d, matches, who) =>
               PP!handleContractRequest(h, n, d, matches, who)
  /\ \A h, n, who, same : P!handleReRequest(h, n, who, same) => PP!handleReRequest(h, n, who, same)
  /\ \A h, n, who : P!handleProviderAcceptedEvent(h, n, who) =>
         PP!handleProviderAcceptedEvent(h, n, who)
  /\ \A h, n, who : P!handleVerification(h, n, who) => PP!handleVerification(h, n, who)
  /\ \A h, n, who : P!handleProviderTermination(h, n, who) =>
         PP!handleProviderTermination(h, n, who)
  /\ \A h : P!Serve(h) => PP!Serve(h)
  /\ \A n, k : P!Run(n, k) => PP!Run(n, k)
  /\ \A d : P!expire(d) => PP!expire(d)
  /\ P!Fault => PP!Fault
<1>1. P!Init => PP!Init
  BY DEF P!Init, PP!Init, P!NoRow, PP!NoRow, P!Idle, PP!Idle, P!TaskIds, PP!TaskIds,
         P!NoTask, PP!NoTask
<1>2. P!TaskIds = PP!TaskIds
  BY DEF P!TaskIds, PP!TaskIds
<1>3. \A n, k : P!afterStore(n, k) = PP!afterStore(n, k)
  BY DEF P!afterStore, PP!afterStore
<1>4. \A from, outcome : P!dispatch(from, outcome) = PP!dispatch(from, outcome)
  BY DEF P!dispatch, PP!dispatch, P!pushing, PP!pushing, P!NoTask, PP!NoTask
<1>5. \A h, n, d, matches, who :
        P!handleContractRequest(h, n, d, matches, who) =>
                PP!handleContractRequest(h, n, d, matches, who)
  <2> SUFFICES ASSUME NEW h, NEW n, NEW d, NEW matches, NEW who,
                      P!handleContractRequest(h, n, d, matches, who)
               PROVE  PP!handleContractRequest(h, n, d, matches, who)
    OBVIOUS
  <2>1. P!dispatch("REQUESTED", P!decideInitialRequest(d \in Advertised, matches, P!isValid(d)))
          = PP!dispatch("REQUESTED", PP!decideInitialRequest(d \in Advertised, matches, PP!isValid(d)))
    BY <1>4 DEF P!decideInitialRequest, PP!decideInitialRequest, P!isValid, PP!isValid
  <2> QED
    BY Zenon, <2>1
    DEF P!handleContractRequest, PP!handleContractRequest, P!Exists, PP!Exists, P!NoRow, PP!NoRow,
        P!Idle, PP!Idle, P!Reply, PP!Reply
<1>6. \A h, n, who, same : P!handleReRequest(h, n, who, same) => PP!handleReRequest(h, n, who, same)
  <2> SUFFICES ASSUME NEW h, NEW n, NEW who, NEW same, P!handleReRequest(h, n, who, same)
               PROVE  PP!handleReRequest(h, n, who, same)
    OBVIOUS
  <2> QED BY DEF P!handleReRequest, PP!handleReRequest, P!lookup, PP!lookup, P!Exists,
                 PP!Exists, P!NoRow, PP!NoRow,
                 P!Idle, PP!Idle, P!Reply, PP!Reply, P!Terminal, PP!Terminal
<1>7. \A h, n, who : P!handleProviderAcceptedEvent(h, n, who) =>
          PP!handleProviderAcceptedEvent(h, n, who)
  <2> SUFFICES ASSUME NEW h, NEW n, NEW who, P!handleProviderAcceptedEvent(h, n, who)
               PROVE  PP!handleProviderAcceptedEvent(h, n, who)
    OBVIOUS
  <2> QED BY DEF P!handleProviderAcceptedEvent, PP!handleProviderAcceptedEvent, P!lookup,
                 PP!lookup, P!Exists, PP!Exists, P!NoRow, PP!NoRow,
                 P!Idle, PP!Idle, P!Reply, PP!Reply, P!Terminal, PP!Terminal
<1>8. \A h, n, who : P!handleVerification(h, n, who) => PP!handleVerification(h, n, who)
  <2> SUFFICES ASSUME NEW h, NEW n, NEW who, P!handleVerification(h, n, who)
               PROVE  PP!handleVerification(h, n, who)
    OBVIOUS
  <2> QED BY DEF P!handleVerification, PP!handleVerification, P!lookup, PP!lookup, P!Exists,
                 PP!Exists, P!NoRow, PP!NoRow,
                 P!Idle, PP!Idle, P!Reply, PP!Reply, P!Terminal, PP!Terminal
<1>9. \A h, n, who : P!handleProviderTermination(h, n, who) =>
          PP!handleProviderTermination(h, n, who)
  <2> SUFFICES ASSUME NEW h, NEW n, NEW who, P!handleProviderTermination(h, n, who)
               PROVE  PP!handleProviderTermination(h, n, who)
    OBVIOUS
  <2> QED BY DEF P!handleProviderTermination, PP!handleProviderTermination, P!lookup,
                 PP!lookup, P!Exists, PP!Exists, P!NoRow, PP!NoRow,
                 P!Idle, PP!Idle, P!Reply, PP!Reply, P!Terminal, PP!Terminal
<1>10. \A h : P!Serve(h) => PP!Serve(h)
  BY ZenonT(60), <1>4
  DEF P!Serve, PP!Serve, P!storeReRequest, PP!storeReRequest, P!storeAccepted, PP!storeAccepted,
    P!storeVerified, PP!storeVerified, P!storeTermination, PP!storeTermination, P!return,
    PP!return, P!SetState, PP!SetState, P!Holds, PP!Holds, P!AtWrite, PP!AtWrite, P!Reply,
    PP!Reply, P!pushing, PP!pushing, P!decideAccept, PP!decideAccept, P!isValid, PP!isValid,
    P!Idle, PP!Idle
<1>11. \A n, k : P!Run(n, k) => PP!Run(n, k)
  BY ZenonT(60), <1>3
  DEF P!Run, PP!Run, P!endPush, PP!endPush, P!pushAndStore, PP!pushAndStore, P!delayedTerminate,
    PP!delayedTerminate, P!CreateAgreementIfNegotiationAgreed,
    PP!CreateAgreementIfNegotiationAgreed, P!SetState, PP!SetState, P!Holds, PP!Holds,
    P!pushing, PP!pushing, P!IssuedStates, PP!IssuedStates
<1>12. \A d : P!expire(d) => PP!expire(d)
  BY DEF P!expire, PP!expire
<1>13. P!Fault => PP!Fault
  BY Zenon, <1>3
  DEF P!Fault, PP!Fault, P!failWrite, PP!failWrite, P!failStore, PP!failStore, P!failTask,
    PP!failTask, P!crash, PP!crash, P!Reply, PP!Reply, P!Idle, PP!Idle, P!TaskIds, PP!TaskIds
<1> QED BY <1>1, <1>2, <1>5, <1>6, <1>7, <1>8, <1>9, <1>10, <1>11, <1>12, <1>13

\* The consumer's operations.
LEMMA ConsumerOperations ==
  /\ C!Init => CC!Init
  /\ C!TaskIds = CC!TaskIds
  /\ \A n, d, who : C!handleInitiate(n, d, who) => CC!handleInitiate(n, d, who)
  /\ \A h, n, who, u : C!handleOffers(h, n, who, u) => CC!handleOffers(h, n, who, u)
  /\ \A h, n, who, m : C!handleAgreement(h, n, who, m) => CC!handleAgreement(h, n, who, m)
  /\ \A h, n, who : C!handleConsumerFinalizedEvent(h, n, who) =>
         CC!handleConsumerFinalizedEvent(h, n, who)
  /\ \A h, n, who : C!handleConsumerTermination(h, n, who) =>
         CC!handleConsumerTermination(h, n, who)
  /\ \A h : C!Serve(h) => CC!Serve(h)
  /\ \A n, answered : C!sendInitialRequest(n, answered) => CC!sendInitialRequest(n, answered)
  /\ \A n : C!SetConsumerProviderPID(n) => CC!SetConsumerProviderPID(n)
  /\ \A n, k : C!resolveProviderPID(n, k) => CC!resolveProviderPID(n, k)
  /\ \A n, k, delivered : C!endPush(n, k, delivered) => CC!endPush(n, k, delivered)
  /\ \A n, k : C!storeReaction(n, k) => CC!storeReaction(n, k)
  /\ C!Fault => CC!Fault
BY ZenonT(60)
DEF C!States, CC!States, C!Terminal, CC!Terminal, C!decideOfferReaction,
    CC!decideOfferReaction, C!decideAgreementReaction, CC!decideAgreementReaction,
    C!offerLegalFrom, CC!offerLegalFrom, C!agreementLegalFrom, CC!agreementLegalFrom,
    C!finalizedEventLegalFrom, CC!finalizedEventLegalFrom, C!Init, CC!Init, C!NoRow, CC!NoRow,
    C!Idle, CC!Idle, C!TaskIds, CC!TaskIds, C!NoTask, CC!NoTask, C!NoId, CC!NoId, C!NoAnswer,
    CC!NoAnswer, C!acknowledge, CC!acknowledge, C!Exists, CC!Exists, C!Holds,
    CC!Holds, C!SetConsumerState, CC!SetConsumerState, C!IsNewId, CC!IsNewId, C!Store,
    CC!Store, C!react, CC!react, C!lookup, CC!lookup, C!writing, CC!writing, C!AtWrite,
    CC!AtWrite, C!store, CC!store, C!Received, CC!Received, C!recorded, CC!recorded, C!return,
    CC!return, C!handleInitiate, CC!handleInitiate, C!handleOffers, CC!handleOffers,
    C!handleAgreement, CC!handleAgreement, C!handleConsumerFinalizedEvent,
    CC!handleConsumerFinalizedEvent, C!handleConsumerTermination,
    CC!handleConsumerTermination, C!Serve, CC!Serve, C!storeOffered, CC!storeOffered,
    C!CreateAgreement, CC!CreateAgreement, C!storeAgreed, CC!storeAgreed, C!storeFinalized,
    CC!storeFinalized, C!storeTermination, CC!storeTermination, C!sendInitialRequest,
    CC!sendInitialRequest, C!SetConsumerProviderPID, CC!SetConsumerProviderPID,
    C!resolveProviderPID, CC!resolveProviderPID, C!endPush, CC!endPush, C!storeReaction,
    CC!storeReaction, C!Fault, CC!Fault, C!failWrite, CC!failWrite, C!failStore, CC!failStore,
    C!failResolve, CC!failResolve, C!crash, CC!crash
-----------------------------------------------------------------------------
(* What each side knows of the other *)

\* A goroutine of the provider has been started; it announces s.
Started(n, k) == pTask[n][k].pc # "none"
Announces(n, k, s) == Started(n, k) /\ pTask[n][k].to = s

\* A reaction of the consumer has been started; its policy asks for a.
Reacting(n, k) == cTask[n][k].pc # "none"
Reacts(n, k, a) == Reacting(n, k) /\ cTask[n][k].action = a

\* The consumer may end the negotiation: by its policy for what it received,
\* or for what it is not sent.
Abandons(n) == Reacts(n, "start", "abandon")
Rejects(n) == Reacts(n, "offer", "reject") \/ Reacts(n, "agreement", "reject")

\* A message is under way, or read and about to be stored.
ToldProvider(n, op) ==
  \/ toProvider(n, op) \in wire
  \/ \E h \in ProviderHandlers :
       pHandler[h].pc = "write" /\ pHandler[h].op = op /\ pHandler[h].neg = n

Recording(n) == \E h \in ConsumerHandlers : cHandler[h].pc = "record" /\ cHandler[h].neg = n

ToldConsumer(n, op) ==
  \/ toConsumer(n, op) \in wire
  \/ \E h \in ConsumerHandlers :
       cHandler[h].pc = "write" /\ cHandler[h].op = op /\ cHandler[h].neg = n

\* The consumer's own part: an agreement is only reacted to once no offer was,
\* or the offer was accepted; and what it does is what its policies say.
ConsumerTracked(n) ==
  /\ cRow[n].state = "ACCEPTED" => Reacts(n, "offer", "accept")
  /\ Reacting(n, "offer") /\ Reacting(n, "agreement") => Reacts(n, "offer", "accept")
  /\ Reacts(n, "offer", "accept") => OnOffer[cRow[n].dataset] = "accept"
  /\ Abandons(n) => OnIdle[cRow[n].dataset] = "abandon"

\* What the provider has heard the consumer has said.
ProviderHeard(n) ==
  /\ toProvider(n, "request") \in wire \/ pRow[n].state # "NONE" => cRow[n].state # "NONE"
  /\ pRow[n].state # "NONE" => pRow[n].dataset = cRow[n].dataset
  /\ ToldProvider(n, "accepted") \/ Started(n, "accepted") => Reacts(n, "offer", "accept")
  /\ ToldProvider(n, "verification") \/ Started(n, "verified") => Reacts(n, "agreement", "verify")
  /\ ToldProvider(n, "termination") => Rejects(n) \/ Abandons(n)
  /\ ~Started(n, "walkaway")

\* The re-requests a consumer of this kind sends repeat the offer.
ReRequestsRepeat ==
  \A h \in ProviderHandlers :
    pHandler[h].pc = "write" /\ pHandler[h].op = "reRequest" => pHandler[h].same

\* The provider's own part: what it announces before an agreement is not
\* announced of a negotiation that gets one, an agreement without a matching
\* request was accepted, and a finalized negotiation ends otherwise only if the
\* consumer abandons it.
ProviderTracked(n) ==
  /\ Announces(n, "request", "TERMINATED") => pRow[n].state \in {"REQUESTED", "TERMINATED"}
  /\ Announces(n, "accepted", "TERMINATED") => pRow[n].state \in {"ACCEPTED", "TERMINATED"}
  /\ Started(n, "withdraw") => pTask[n]["request"].withdraw
  /\ pTask[n]["withdraw"].to \in {"REQUESTED", "TERMINATED"}
  /\ Announces(n, "request", "AGREED") => pRow[n].matches
  /\ pRow[n].state \in PP!IssuedStates \/ (\E a \in pAgreements : a.id = n) =>
       pRow[n].matches \/ Started(n, "accepted")
  /\ pRow[n].state = "FINALIZED" => Announces(n, "verified", "FINALIZED")
  /\ Announces(n, "verified", "FINALIZED") /\ pRow[n].state = "TERMINATED" => Abandons(n)

\* What the consumer has heard the provider has said.
ConsumerHeard(n) ==
  /\ toConsumer(n, "agreement") \in wire \/ Recording(n) \/ (\E a \in cAgreements : a.neg = n) =>
       \E k \in PP!TaskIds : Announces(n, k, "AGREED")
  /\ \A h \in ConsumerHandlers : cHandler[h].pc = "record" /\ cHandler[h].neg = n =>
       cHandler[h].msg.dataset = cRow[n].dataset
  /\ \A a \in cAgreements : a.neg = n => a.dataset = cRow[n].dataset
  /\ ToldConsumer(n, "finalized") \/ cRow[n].state = "FINALIZED" =>
       Announces(n, "verified", "FINALIZED")
  /\ ToldConsumer(n, "termination") => \E k \in PP!TaskIds : Announces(n, k, "TERMINATED")
  /\ cRow[n].state = "TERMINATED" =>
       Rejects(n) \/ Abandons(n) \/ \E k \in PP!TaskIds : Announces(n, k, "TERMINATED")
  /\ cRow[n].state = "VERIFIED" \/ (Reacts(n, "agreement", "verify") /\ cTask[n]["agreement"].pc = "store") =>
       Started(n, "verified")

CrossInv ==
  /\ ReRequestsRepeat
  /\ \A n \in Neg : ConsumerTracked(n) /\ ProviderHeard(n) /\ ProviderTracked(n) /\ ConsumerHeard(n)

-----------------------------------------------------------------------------
(* Either side makes the steps of its own module *)

\* A goroutine of the provider is one of a stored negotiation.
LEMMA ProviderRow ==
  ASSUME PP!IInv, NEW n \in Neg, NEW k \in PP!TaskIds, Started(n, k)
  PROVE  /\ pRow[n] \in PP!Row
         /\ pRow[n].state \in PP!Past(PP!StartedFrom[k])
<1>1. pRow[n].state \in PP!Past(PP!StartedFrom[k])
  BY DEF PP!IInv, PP!InFlightIsLegal, Started
<1>2. pRow[n].state \in PP!States
  BY <1>1 DEF PP!Past, PP!StartedFrom, PP!TaskIds, PP!States, PP!IssuedStates
<1> QED BY <1>1, <1>2 DEF PP!IInv, PP!TypeOK, PP!NoRow, PP!States

\* So is a reaction of the consumer.
LEMMA ConsumerRow ==
  ASSUME CC!IInv, NEW n \in Neg, NEW k \in CC!TaskIds, Reacting(n, k)
  PROVE  /\ cRow[n] \in CC!Row
         /\ cRow[n].state \in CC!Past(CC!StartedFrom[k])
<1>1. cRow[n].state \in CC!Past(CC!StartedFrom[k])
  BY DEF CC!IInv, CC!InFlightIsLegal, Reacting
<1>2. cRow[n].state \in CC!States
  BY <1>1 DEF CC!Past, CC!StartedFrom, CC!TaskIds, CC!States, CC!IssuedStates
<1> QED BY <1>1, <1>2 DEF CC!IInv, CC!TypeOK, CC!NoRow, CC!States

\* A stored row is over a dataset.
LEMMA StoredDatasets ==
  ASSUME NEW n \in Neg
  PROVE  /\ PP!IInv /\ pRow[n].state # "NONE" => pRow[n] \in PP!Row /\ pRow[n].dataset \in Datasets
         /\ CC!IInv /\ cRow[n].state # "NONE" => cRow[n] \in CC!Row /\ cRow[n].dataset \in Datasets
BY DEF PP!IInv, PP!TypeOK, PP!NoRow, PP!Row, CC!IInv, CC!TypeOK, CC!NoRow, CC!Row

\* The consumer's policies are the ones its module assumes.
LEMMA ConsumerPolicies ==
  /\ OnOffer \in [Datasets -> CC!OfferPolicies]
  /\ OnAgreement \in [Datasets -> CC!AgreementPolicies]
  /\ OnIdle \in [Datasets -> CC!IdlePolicies]
BY PolicyAssumption
DEF OfferPolicies, AgreementPolicies, IdlePolicies,
    CC!OfferPolicies, CC!AgreementPolicies, CC!IdlePolicies

\* Whatever step the two take, the provider takes one of its own or none: a
\* request names the dataset the consumer asked for.
LEMMA ProviderHalf ==
  ASSUME CC!IInv, CrossInv, [Next]_vars
  PROVE  [PP!Next]_(PP!vars)
<1>1. CASE UNCHANGED providerVars
  BY <1>1 DEF providerVars, PP!vars
<1>2. ASSUME NEW h \in ProviderHandlers, NEW n \in Neg, NEW op \in ToProvider,
             ProviderReceives(h, n, op)
      PROVE  PP!Request
  <2>1. op = "request" => cRow[n].dataset \in Datasets
    BY <1>2, StoredDatasets DEF ProviderReceives, CrossInv, ProviderHeard
  <2> QED BY ZenonT(60), <1>2, <2>1, ProviderOperations DEF ProviderReceives, PP!Request
<1>3. CASE ProviderStep
  <2>1. \/ \E h \in ProviderHandlers : PP!Serve(h)
        \/ \E n \in Neg, k \in PP!TaskIds : PP!Run(n, k)
        \/ \E d \in Limited : PP!expire(d)
        \/ PP!Fault
    BY <1>3, ProviderOperations DEF ProviderStep
  <2> QED BY <2>1 DEF PP!Next, PP!Work
<1> QED
  BY <1>1, <1>2, <1>3
  DEF Next, vars, initiate, attemptPush, attemptSend, ConsumerReceives, PP!Next, PP!Work

\* And so does the consumer: an agreement is over the dataset of a stored row.
LEMMA ConsumerHalf ==
  ASSUME PP!IInv, CrossInv, [Next]_vars
  PROVE  [CC!Next]_(CC!vars)
<1>1. CASE UNCHANGED consumerVars
  BY <1>1 DEF consumerVars, CC!vars
<1>2. ASSUME NEW n \in Neg, NEW d \in Datasets, initiate(n, d) PROVE CC!Request
  BY <1>2, ConsumerOperations DEF initiate, CC!Request
<1>3. ASSUME NEW h \in ConsumerHandlers, NEW n \in Neg, NEW op \in ToConsumer,
             ConsumerReceives(h, n, op)
      PROVE  CC!Request
  <2>1. op = "agreement" =>
          [id |-> n, dataset |-> pRow[n].dataset, unenforceable |-> FALSE] \in CC!Message
    <3>1. op = "agreement" => \E k \in PP!TaskIds : Announces(n, k, "AGREED")
      BY <1>3 DEF ConsumerReceives, CrossInv, ConsumerHeard
    <3>2. op = "agreement" => pRow[n].dataset \in Datasets
      BY <3>1, ProviderRow DEF Announces, PP!Row
    <3> QED BY <3>2 DEF CC!Message
  <2>2. CASE op = "offer" /\ C!handleOffers(h, n, Provider, FALSE)
    <3>1. CC!handleOffers(h, n, Provider, FALSE)
      BY <2>2, ConsumerOperations
    <3> QED BY <3>1 DEF CC!Request
  <2>3. CASE op = "agreement" /\ C!handleAgreement(h, n, Provider,
                                   [id |-> n, dataset |-> pRow[n].dataset, unenforceable |-> FALSE])
    <3>1. PICK m \in CC!Message : CC!handleAgreement(h, n, Provider, m)
      BY <2>1, <2>3, ConsumerOperations
    <3> QED BY <3>1 DEF CC!Request
  <2>4. CASE op = "finalized" /\ C!handleConsumerFinalizedEvent(h, n, Provider)
    <3>1. CC!handleConsumerFinalizedEvent(h, n, Provider)
      BY <2>4, ConsumerOperations
    <3> QED BY <3>1 DEF CC!Request
  <2>5. CASE op = "termination" /\ C!handleConsumerTermination(h, n, Provider)
    <3>1. CC!handleConsumerTermination(h, n, Provider)
      BY <2>5, ConsumerOperations
    <3> QED BY <3>1 DEF CC!Request
  <2> QED BY <1>3, <2>2, <2>3, <2>4, <2>5 DEF ConsumerReceives
<1>4. CASE ConsumerStep
  <2>1. ASSUME NEW n \in Neg, NEW k \in C!TaskIds, ConsumerRuns(n, k)
        PROVE  k \in CC!TaskIds /\ CC!Run(n, k)
    BY <2>1, ConsumerOperations DEF ConsumerRuns, CC!Run
  <2>2. \/ \E h \in ConsumerHandlers : CC!Serve(h)
        \/ \E n \in Neg, k \in CC!TaskIds : CC!Run(n, k)
        \/ CC!Fault
    BY <1>4, <2>1, ConsumerOperations DEF ConsumerStep
  <2> QED BY <2>2 DEF CC!Next, CC!Work
<1> QED
  BY <1>1, <1>2, <1>3, <1>4
  DEF Next, vars, attemptPush, attemptSend, ProviderReceives, CC!Next, CC!Work

\* What the modules of either side prove of one of their steps.
LEMMA ProviderMoves ==
  ASSUME PP!IInv, CC!IInv, CrossInv, [Next]_vars
  PROVE  /\ PP!IInv'
         /\ \A n \in Neg : PP!NegotiationMoves(n)
<1>1. [PP!Next]_(PP!vars)
  BY ProviderHalf
<1>2. PP!IInv'
  BY <1>1, PP!Inductive, ConfigAssumption DEF PP!Inductive
<1>3. ASSUME NEW n \in Neg PROVE PP!NegotiationMoves(n)
  BY <1>1, PP!Moves, ConfigAssumption DEF PP!Moves
<1> QED BY <1>2, <1>3

LEMMA ConsumerMoves ==
  ASSUME PP!IInv, CC!IInv, CrossInv, [Next]_vars
  PROVE  /\ CC!IInv'
         /\ \A n \in Neg : CC!NegotiationMoves(n)
<1>1. [CC!Next]_(CC!vars)
  BY ConsumerHalf
<1>2. CC!IInv'
  BY <1>1, ConsumerPolicies, CC!Inductive DEF CC!Inductive
<1>3. ASSUME NEW n \in Neg PROVE CC!NegotiationMoves(n)
  BY <1>1, ConsumerPolicies, CC!Moves DEF CC!Moves
<1> QED BY <1>2, <1>3

\* An agreement in either table was there, or comes from its own side.
LEMMA ProviderGains ==
  ASSUME PP!IInv, CC!IInv, CrossInv, [Next]_vars, NEW a \in pAgreements', a \notin pAgreements
  PROVE  /\ a.id \in Neg
         /\ pRow' = pRow /\ pRow[a.id].state \in PP!IssuedStates
<1>1. [PP!Next]_(PP!vars)
  BY ProviderHalf
<1> QED BY <1>1, PP!AgreementsGain, ConfigAssumption DEF PP!AgreementsGain

LEMMA ConsumerGains ==
  ASSUME PP!IInv, CC!IInv, CrossInv, [Next]_vars, NEW a \in cAgreements', a \notin cAgreements
  PROVE  \E h \in ConsumerHandlers :
           /\ cHandler[h].pc = "record"
           /\ a.neg = cHandler[h].neg /\ a.dataset = cHandler[h].msg.dataset
<1>1. [CC!Next]_(CC!vars)
  BY ConsumerHalf
<1>2. CC!TypeOK /\ CC!InFlightIsLegal
  BY DEF CC!IInv
<1> QED BY <1>1, <1>2, CC!AgreementsGain, ConsumerPolicies DEF CC!AgreementsGain
-----------------------------------------------------------------------------
(* What is said, and what is heard *)

\* A message under way was already, or is one a goroutine pushes, or the
\* request of a new negotiation.
LEMMA Sent ==
  ASSUME [Next]_vars, NEW w \in wire', w \notin wire
  PROVE  \/ \E n \in Neg, k \in PP!TaskIds :
              pTask[n][k].pc = "push" /\ w = toConsumer(n, callbackPath[pTask[n][k].to])
         \/ \E n \in Neg, k \in CC!TaskIds :
              cTask[n][k].pc = "push" /\ w = toProvider(n, consumerPath[cTask[n][k].action])
         \/ \E n \in Neg, d \in Datasets : initiate(n, d) /\ w = toProvider(n, "request")
<1>1. ASSUME NEW n \in Neg, NEW k \in P!TaskIds, attemptPush(n, k)
      PROVE  /\ k \in PP!TaskIds
             /\ pTask[n][k].pc = "push"
             /\ w = toConsumer(n, callbackPath[pTask[n][k].to])
  BY <1>1, ProviderOperations DEF attemptPush
<1>2. ASSUME NEW n \in Neg, NEW k \in C!TaskIds, attemptSend(n, k)
      PROVE  /\ k \in CC!TaskIds
             /\ cTask[n][k].pc = "push"
             /\ w = toProvider(n, consumerPath[cTask[n][k].action])
  BY <1>2, ConsumerOperations DEF attemptSend
<1>3. ASSUME NEW n \in Neg, NEW d \in Datasets, initiate(n, d)
      PROVE  w = toProvider(n, "request")
  BY <1>3 DEF initiate
<1>4. \/ wire' \subseteq wire
      \/ \E n \in Neg, k \in P!TaskIds : attemptPush(n, k)
      \/ \E n \in Neg, k \in C!TaskIds : attemptSend(n, k)
      \/ \E n \in Neg, d \in Datasets : initiate(n, d)
  BY DEF Next, vars, ProviderReceives, ConsumerReceives
<1> QED BY <1>1, <1>2, <1>3, <1>4

\* What a consumer's request is to the provider.
LEMMA ProviderReads ==
  ASSUME PP!TypeOK, NEW h \in ProviderHandlers, NEW n \in Neg, NEW op \in ToProvider,
         ProviderReceives(h, n, op), NEW g \in ProviderHandlers, pHandler'[g].pc = "write"
  PROVE  \/ pHandler'[g] = pHandler[g]
         \/ pHandler'[g].op = op /\ pHandler'[g].neg = n /\ (op = "reRequest" => pHandler'[g].same)
<1>1. ASSUME NEW legal, NEW same, PP!lookup(h, n, Consumer, op, legal, same)
      PROVE  \/ pHandler'[g] = pHandler[g]
             \/ pHandler'[g].op = op /\ pHandler'[g].neg = n /\ pHandler'[g].same = same
  BY <1>1, PP!ChecksPassed, ConfigAssumption DEF PP!ChecksPassed
<1>2. CASE op = "request"
  <2>1. PICK matches \in BOOLEAN :
          P!handleContractRequest(h, n, cRow[n].dataset, matches, Consumer)
    BY <1>2 DEF ProviderReceives
  <2>2. PP!handleContractRequest(h, n, cRow[n].dataset, matches, Consumer)
    BY <2>1, ProviderOperations
  <2>3. g # h
    BY <2>2 DEF PP!handleContractRequest, PP!Reply, PP!TypeOK
  <2> QED BY <2>2, <2>3 DEF PP!handleContractRequest, PP!Reply
<1>3. CASE op = "reRequest"
  <2>1. PP!handleReRequest(h, n, Consumer, TRUE)
    BY <1>3, ProviderOperations DEF ProviderReceives
  <2> QED BY <1>1, <1>3, <2>1 DEF PP!handleReRequest
<1>4. CASE op = "accepted"
  <2>1. PP!handleProviderAcceptedEvent(h, n, Consumer)
    BY <1>4, ProviderOperations DEF ProviderReceives
  <2> QED BY <1>1, <1>4, <2>1 DEF PP!handleProviderAcceptedEvent
<1>5. CASE op = "verification"
  <2>1. PP!handleVerification(h, n, Consumer)
    BY <1>5, ProviderOperations DEF ProviderReceives
  <2> QED BY <1>1, <1>5, <2>1 DEF PP!handleVerification
<1>6. CASE op = "termination"
  <2>1. PP!handleProviderTermination(h, n, Consumer)
    BY <1>6, ProviderOperations DEF ProviderReceives
  <2> QED BY <1>1, <1>6, <2>1 DEF PP!handleProviderTermination
<1> QED BY <1>2, <1>3, <1>4, <1>5, <1>6 DEF ToProvider

\* A request the provider goes on to write for was being served already, or
\* has just been read.
LEMMA ProviderServes ==
  ASSUME PP!TypeOK, [Next]_vars, NEW g \in ProviderHandlers, pHandler'[g].pc = "write"
  PROVE  \/ pHandler'[g] = pHandler[g]
         \/ /\ toProvider(pHandler'[g].neg, pHandler'[g].op) \in wire
            /\ pHandler'[g].op = "reRequest" => pHandler'[g].same
<1>1. ASSUME NEW h \in ProviderHandlers, NEW n \in Neg, NEW op \in ToProvider,
             ProviderReceives(h, n, op)
      PROVE  \/ pHandler'[g] = pHandler[g]
             \/ /\ toProvider(pHandler'[g].neg, pHandler'[g].op) \in wire
                /\ pHandler'[g].op = "reRequest" => pHandler'[g].same
  <2>1. toProvider(n, op) \in wire
    BY <1>1 DEF ProviderReceives
  <2> QED BY <1>1, <2>1, ProviderReads
<1>2. CASE ProviderStep
  <2>1. \/ \E h \in ProviderHandlers : PP!Serve(h)
        \/ \E n \in Neg, k \in PP!TaskIds : PP!Run(n, k)
        \/ \E d \in Limited : PP!expire(d)
        \/ PP!Fault
    BY <1>2, ProviderOperations DEF ProviderStep
  <2> QED BY <2>1, PP!NothingServedAnew, ConfigAssumption DEF PP!NothingServedAnew
<1>3. CASE pHandler' = pHandler
  BY <1>3
<1> QED
  BY <1>1, <1>2, <1>3
  DEF Next, vars, initiate, attemptPush, attemptSend, ConsumerReceives, providerVars

\* What a provider's message is to the consumer.
LEMMA ConsumerReads ==
  ASSUME CC!TypeOK, NEW h \in ConsumerHandlers, NEW n \in Neg, NEW op \in ToConsumer,
         ConsumerReceives(h, n, op), NEW g \in ConsumerHandlers
  PROVE  \/ cHandler'[g] = cHandler[g]
         \/ cHandler'[g].pc = "write" /\ cHandler'[g].op = op /\ cHandler'[g].neg = n
         \/ /\ cHandler'[g].pc = "record" /\ op = "agreement" /\ cHandler'[g].neg = n
            /\ cHandler'[g].msg.dataset = pRow[n].dataset
<1>1. ASSUME NEW legal, NEW copy, CC!lookup(h, n, Provider, legal, copy)
      PROVE  cHandler'[g] = cHandler[g] \/ cHandler'[g] = copy
  BY <1>1, CC!ChecksPassed, ConsumerPolicies DEF CC!ChecksPassed
<1>2. CASE op = "offer"
  <2>1. CC!handleOffers(h, n, Provider, FALSE)
    BY <1>2, ConsumerOperations DEF ConsumerReceives
  <2> QED BY <1>1, <1>2, <2>1 DEF CC!handleOffers, CC!writing
<1>3. CASE op = "agreement"
  <2>1. CC!handleAgreement(h, n, Provider,
          [id |-> n, dataset |-> pRow[n].dataset, unenforceable |-> FALSE])
    BY <1>3, ConsumerOperations DEF ConsumerReceives
  <2> QED BY <1>1, <1>3, <2>1 DEF CC!handleAgreement
<1>4. CASE op = "finalized"
  <2>1. CC!handleConsumerFinalizedEvent(h, n, Provider)
    BY <1>4, ConsumerOperations DEF ConsumerReceives
  <2> QED BY <1>1, <1>4, <2>1 DEF CC!handleConsumerFinalizedEvent, CC!writing
<1>5. CASE op = "termination"
  <2>1. CC!handleConsumerTermination(h, n, Provider)
    BY <1>5, ConsumerOperations DEF ConsumerReceives
  <2> QED BY <1>1, <1>5, <2>1 DEF CC!handleConsumerTermination, CC!writing
<1> QED BY <1>2, <1>3, <1>4, <1>5 DEF ToConsumer

\* Everything else the consumer does is a step of a reaction or a fault of one.
LEMMA ConsumerSteps ==
  ASSUME ConsumerStep
  PROVE  \/ \E h \in ConsumerHandlers : CC!Serve(h)
         \/ \E n \in Neg, k \in CC!TaskIds : CC!RunOrFail(n, k)
         \/ CC!Fault
<1>1. ASSUME NEW n \in Neg, NEW k \in C!TaskIds, ConsumerRuns(n, k)
      PROVE  k \in CC!TaskIds /\ CC!RunOrFail(n, k)
  BY <1>1, ConsumerOperations DEF ConsumerRuns, CC!RunOrFail
<1> QED BY <1>1, ConsumerOperations DEF ConsumerStep

\* A message the consumer goes on to write for was being served already, has
\* just been read, or is an agreement that has just been inserted.
LEMMA ConsumerServes ==
  ASSUME CC!TypeOK, [Next]_vars, NEW g \in ConsumerHandlers, cHandler'[g].pc \in {"record", "write"}
  PROVE  \/ cHandler'[g] = cHandler[g]
         \/ cHandler'[g].pc = "write" /\ cHandler'[g].op = "agreement"
         \/ cHandler'[g].pc = "write" /\ toConsumer(cHandler'[g].neg, cHandler'[g].op) \in wire
         \/ /\ cHandler'[g].pc = "record"
            /\ toConsumer(cHandler'[g].neg, "agreement") \in wire
            /\ cHandler'[g].msg.dataset = pRow[cHandler'[g].neg].dataset
<1> USE DEF CC!Idle
<1>1. ASSUME NEW h \in ConsumerHandlers, NEW n \in Neg, NEW op \in ToConsumer,
             ConsumerReceives(h, n, op)
      PROVE  \/ cHandler'[g] = cHandler[g]
             \/ cHandler'[g].pc = "write" /\ toConsumer(cHandler'[g].neg, cHandler'[g].op) \in wire
             \/ /\ cHandler'[g].pc = "record"
                /\ toConsumer(cHandler'[g].neg, "agreement") \in wire
                /\ cHandler'[g].msg.dataset = pRow[cHandler'[g].neg].dataset
  <2>1. toConsumer(n, op) \in wire
    BY <1>1 DEF ConsumerReceives
  <2> QED BY <1>1, <2>1, ConsumerReads
<1>2. ASSUME \/ \E h \in ConsumerHandlers : CC!Serve(h)
             \/ \E n \in Neg, k \in CC!TaskIds : CC!RunOrFail(n, k)
             \/ CC!Fault
             \/ \E n \in Neg, who \in {Provider}, d \in Datasets : CC!handleInitiate(n, d, who)
      PROVE  \/ cHandler'[g] = cHandler[g]
             \/ cHandler'[g].pc = "write" /\ cHandler'[g].op = "agreement"
  BY <1>2, CC!NothingServedAnew, ConsumerPolicies DEF CC!NothingServedAnew
<1>3. CASE \E n \in Neg, d \in Datasets : initiate(n, d)
  <2>1. \E n \in Neg, d \in Datasets : CC!handleInitiate(n, d, Provider)
    BY <1>3, ConsumerOperations DEF initiate
  <2> QED BY <1>2, <2>1
<1>4. CASE cHandler' = cHandler
  BY <1>4
<1> QED
  BY <1>1, <1>2, <1>3, <1>4, ConsumerSteps
  DEF Next, vars, attemptPush, attemptSend, ProviderReceives, consumerVars

\* A goroutine of the provider pushes what it announces.
LEMMA PushesAnnounce ==
  ASSUME PP!IInv, NEW n \in Neg, NEW k \in PP!TaskIds, pTask[n][k].pc = "push"
  PROVE  /\ Started(n, k)
         /\ callbackPath[pTask[n][k].to] = "agreement" => Announces(n, k, "AGREED")
         /\ callbackPath[pTask[n][k].to] = "finalized" =>
                 k = "verified" /\ Announces(n, k, "FINALIZED")
         /\ callbackPath[pTask[n][k].to] = "termination" => Announces(n, k, "TERMINATED")
<1>1. <<pTask[n][k].from, pTask[n][k].to>> \in PP!Plans[k]
  BY DEF PP!IInv, PP!InFlightIsLegal
<1>2. /\ pTask[n][k].to \in {"OFFERED", "AGREED", "FINALIZED", "TERMINATED"}
      /\ pTask[n][k].to = "FINALIZED" => k = "verified"
  BY <1>1 DEF PP!Plans, PP!TaskIds
<1>3. Started(n, k)
  BY DEF Started
<1> QED BY <1>2, <1>3 DEF Announces, callbackPath

\* A reaction of the consumer sends what its action says.
LEMMA PushesReact ==
  ASSUME CC!IInv, NEW n \in Neg, NEW k \in CC!TaskIds, cTask[n][k].pc = "push"
  PROVE  /\ consumerPath[cTask[n][k].action] # "request"
         /\ consumerPath[cTask[n][k].action] = "accepted" => Reacts(n, "offer", "accept")
         /\ consumerPath[cTask[n][k].action] = "verification" => Reacts(n, "agreement", "verify")
         /\ consumerPath[cTask[n][k].action] = "termination" => Rejects(n) \/ Abandons(n)
<1>1. cTask[n][k].action \in CC!Plans[k] /\ cTask[n][k].action \notin {"wait", "passive"}
  BY DEF CC!IInv, CC!InFlightIsLegal
<1>2. \/ k = "start" /\ cTask[n][k].action = "abandon"
      \/ k = "offer" /\ cTask[n][k].action \in {"accept", "reject", "counter"}
      \/ k = "agreement" /\ cTask[n][k].action \in {"verify", "reject"}
  BY <1>1 DEF CC!Plans, CC!TaskIds, CC!IdlePolicies, CC!OfferPolicies, CC!AgreementPolicies
<1>3. Reacting(n, k)
  BY DEF Reacting
<1> QED BY <1>2, <1>3 DEF Reacts, Rejects, Abandons, consumerPath

\* Either side hears only of what the other pushes.
LEMMA ProviderHears ==
  ASSUME PP!IInv, [Next]_vars, NEW n \in Neg,
         NEW op \in {"accepted", "verification", "termination"},
         ToldProvider(n, op)'
  PROVE  \/ ToldProvider(n, op)
         \/ \E k \in CC!TaskIds : cTask[n][k].pc = "push" /\ consumerPath[cTask[n][k].action] = op
<1>1. CASE toProvider(n, op) \in wire' /\ toProvider(n, op) \notin wire
  BY <1>1, Sent DEF toProvider, toConsumer
<1>2. ASSUME NEW g \in ProviderHandlers,
             pHandler'[g].pc = "write", pHandler'[g].op = op, pHandler'[g].neg = n
      PROVE  ToldProvider(n, op)
  BY <1>2, ProviderServes DEF ToldProvider, PP!IInv
<1> QED BY <1>1, <1>2 DEF ToldProvider

LEMMA ConsumerHears ==
  ASSUME CC!IInv, [Next]_vars, NEW n \in Neg, NEW op \in {"finalized", "termination"},
         ToldConsumer(n, op)'
  PROVE  \/ ToldConsumer(n, op)
         \/ \E k \in PP!TaskIds : pTask[n][k].pc = "push" /\ callbackPath[pTask[n][k].to] = op
<1>1. CASE toConsumer(n, op) \in wire' /\ toConsumer(n, op) \notin wire
  BY <1>1, Sent DEF toProvider, toConsumer
<1>2. ASSUME NEW g \in ConsumerHandlers,
             cHandler'[g].pc = "write", cHandler'[g].op = op, cHandler'[g].neg = n
      PROVE  ToldConsumer(n, op)
  BY <1>2, ConsumerServes DEF ToldConsumer, CC!IInv
<1> QED BY <1>1, <1>2 DEF ToldConsumer

\* And so it is with an agreement, up to its insert.
AgreementHeard(n) ==
  toConsumer(n, "agreement") \in wire \/ Recording(n) \/ (\E a \in cAgreements : a.neg = n)

LEMMA AgreementHears ==
  ASSUME PP!IInv, CC!IInv, CrossInv, [Next]_vars, NEW n \in Neg, AgreementHeard(n)'
  PROVE  \/ AgreementHeard(n)
         \/ \E k \in PP!TaskIds : pTask[n][k].pc = "push" /\ callbackPath[pTask[n][k].to] = "agreement"
<1>1. CASE toConsumer(n, "agreement") \in wire' /\ toConsumer(n, "agreement") \notin wire
  BY <1>1, Sent DEF toProvider, toConsumer
<1>2. ASSUME NEW g \in ConsumerHandlers, cHandler'[g].pc = "record", cHandler'[g].neg = n
      PROVE  AgreementHeard(n)
  BY <1>2, ConsumerServes DEF AgreementHeard, Recording, CC!IInv
<1>3. ASSUME NEW a \in cAgreements', a \notin cAgreements, a.neg = n
      PROVE  AgreementHeard(n)
  BY <1>3, ConsumerGains DEF AgreementHeard, Recording
<1> QED BY <1>1, <1>2, <1>3 DEF AgreementHeard, Recording

-----------------------------------------------------------------------------
(* What was said stays said *)

\* All that the proofs need of a state.
Inv == PP!IInv /\ CC!IInv /\ CrossInv

\* A stored row of either side stays, over its dataset.
LEMMA RowsKept ==
  ASSUME Inv, [Next]_vars, NEW n \in Neg
  PROVE  /\ cRow[n].state # "NONE" => cRow'[n].state # "NONE" /\ cRow'[n].dataset = cRow[n].dataset
         /\ pRow[n].state # "NONE" => /\ pRow'[n].state # "NONE"
                                      /\ pRow'[n].dataset = pRow[n].dataset
                                      /\ pRow'[n].matches = pRow[n].matches
<1>1. cRow[n].state # "NONE" => cRow'[n].state # "NONE" /\ cRow'[n].dataset = cRow[n].dataset
  <2>1. CC!DatasetKept(n) /\ CC!TypeOK /\ CC!TypeOK'
    BY ConsumerMoves DEF Inv, CC!NegotiationMoves, CC!IInv
  <2>2. cRow[n].state # "NONE" => CC!Exists(n)
    BY DEF CC!Exists, CC!NoRow
  <2>3. CC!Exists(n)' => cRow'[n].state # "NONE"
    BY <2>1 DEF CC!Exists, CC!TypeOK, CC!Row, CC!States
  <2> QED BY <2>1, <2>2, <2>3 DEF CC!DatasetKept
<1>2. pRow[n].state # "NONE" => /\ pRow'[n].state # "NONE"
                                /\ pRow'[n].dataset = pRow[n].dataset
                                /\ pRow'[n].matches = pRow[n].matches
  <2>1. PP!TermsKept(n) /\ PP!StateMoves(n) /\ PP!TypeOK
    BY ProviderMoves DEF Inv, PP!NegotiationMoves, PP!IInv
  <2>2. pRow[n].state # "NONE" => PP!Exists(n)
    BY DEF PP!Exists, PP!NoRow
  <2>3. pRow[n].state # "NONE" => pRow'[n].state # "NONE"
    BY <2>1 DEF PP!StateMoves, PP!Plans, PP!TaskIds
  <2> QED BY <2>1, <2>2, <2>3 DEF PP!TermsKept
<1> QED BY <1>1, <1>2

\* A reaction of the consumer stays the reaction it is.
LEMMA ReactionsKept ==
  ASSUME Inv, [Next]_vars, NEW n \in Neg
  PROVE  /\ \A k \in CC!TaskIds : \A a : Reacts(n, k, a) => Reacts(n, k, a)'
         /\ Rejects(n) => Rejects(n)'
         /\ Abandons(n) => Abandons(n)'
<1>1. \A k \in CC!TaskIds : CC!Continues(n, k) \/ CC!Begins(n, k)
  BY ConsumerMoves DEF Inv, CC!NegotiationMoves
<1>2. \A k \in CC!TaskIds : \A a : Reacts(n, k, a) => Reacts(n, k, a)'
  BY <1>1 DEF CC!Continues, CC!Begins, CC!Reacting, Reacting, Reacts
<1>3. {"start", "offer", "agreement"} \subseteq CC!TaskIds
  BY DEF CC!TaskIds
<1> QED BY <1>2, <1>3 DEF Rejects, Abandons

\* What a goroutine of the provider announces it announces from then on: only
\* a withdrawal is decided on later.
LEMMA AnnouncementsKept ==
  ASSUME Inv, [Next]_vars, NEW n \in Neg, NEW k \in PP!TaskIds
  PROVE  /\ Started(n, k) => Started(n, k)'
         /\ Announces(n, k, "AGREED") => Announces(n, k, "AGREED")'
         /\ Announces(n, k, "FINALIZED") => Announces(n, k, "FINALIZED")'
         /\ Announces(n, k, "TERMINATED") => Announces(n, k, "TERMINATED")'
<1>1. PP!TaskMoves(n, k)
  BY ProviderMoves DEF Inv, PP!NegotiationMoves
<1>2. k = "withdraw" => pTask[n][k].to \in {"REQUESTED", "TERMINATED"}
  BY DEF Inv, CrossInv, ProviderTracked
<1> QED
  BY <1>1, <1>2
  DEF PP!TaskMoves, PP!Continues, PP!Starts, PP!Withdraws, PP!Started, Started, Announces

-----------------------------------------------------------------------------
(* The consumer's own part *)

LEMMA ConsumerTrackedStep ==
  ASSUME Inv, [Next]_vars, NEW n \in Neg
  PROVE  ConsumerTracked(n)'
<1>1. /\ ConsumerTracked(n)
      /\ CC!InFlightIsLegal
  BY DEF Inv, CrossInv, CC!IInv
<1>2. /\ CC!StateMoves(n)
      /\ \A k \in CC!TaskIds : CC!Continues(n, k) \/ CC!Begins(n, k)
  BY ConsumerMoves DEF Inv, CC!NegotiationMoves
<1>3. {"start", "offer", "agreement"} \subseteq CC!TaskIds
  BY DEF CC!TaskIds
<1>4. ASSUME NEW k \in CC!TaskIds, Reacting(n, k)'
      PROVE  \/ Reacting(n, k) /\ cTask'[n][k].action = cTask[n][k].action
             \/ CC!Begins(n, k)
  BY <1>2, <1>4 DEF CC!Continues, CC!Reacting, Reacting
<1>5. cRow[n].state = "ACCEPTED" => Reacts(n, "offer", "accept")
  BY <1>1 DEF ConsumerTracked
<1>6. cRow'[n].state = "ACCEPTED" => Reacts(n, "offer", "accept")
  <2>1. ASSUME NEW k \in CC!TaskIds, cTask[n][k].pc = "store",
               CC!Store[cTask[n][k].action] = "ACCEPTED"
        PROVE  Reacts(n, "offer", "accept")
    <3>1. cTask[n][k].action \in CC!Plans[k] /\ cTask[n][k].action \in DOMAIN CC!Store
      BY <1>1, <2>1 DEF CC!InFlightIsLegal
    <3>2. k = "offer" /\ cTask[n][k].action = "accept"
      BY <2>1, <3>1
      DEF CC!Plans, CC!Store, CC!TaskIds, CC!IdlePolicies, CC!OfferPolicies,
          CC!AgreementPolicies
    <3> QED BY <2>1, <3>2 DEF Reacts, Reacting
  <2> QED BY <1>2, <1>5, <2>1 DEF CC!StateMoves
<1>7. Reacts(n, "offer", "accept") => Reacts(n, "offer", "accept")'
  BY <1>3, ReactionsKept
<1>8. Reacting(n, "offer")' /\ Reacting(n, "agreement")' => Reacts(n, "offer", "accept")'
  <2> SUFFICES ASSUME Reacting(n, "offer")', Reacting(n, "agreement")'
               PROVE  Reacts(n, "offer", "accept")'
    OBVIOUS
  <2>1. CASE Reacting(n, "offer") /\ Reacting(n, "agreement")
    BY <1>1, <1>7, <2>1 DEF ConsumerTracked
  <2>2. CASE Reacting(n, "offer") /\ CC!Begins(n, "agreement")
    <3>1. cRow[n].state \in CC!Past("OFFERED")
      BY <1>1, <1>3, <2>2 DEF CC!InFlightIsLegal, CC!StartedFrom, Reacting
    <3>2. cRow[n].state = "ACCEPTED"
      BY <2>2, <3>1 DEF CC!Begins, CC!Past
    <3> QED BY <1>5, <1>7, <3>2
  <2>3. CASE CC!Begins(n, "offer") /\ Reacting(n, "agreement")
    <3>1. cRow[n].state \in CC!Past("AGREED")
      BY <1>1, <1>3, <2>3 DEF CC!InFlightIsLegal, CC!StartedFrom, Reacting
    <3> QED BY <2>3, <3>1 DEF CC!Begins, CC!Past, CC!IssuedStates
  <2>4. CASE CC!Begins(n, "offer") /\ CC!Begins(n, "agreement")
    BY <2>4 DEF CC!Begins, CC!StartedFrom
  <2> QED BY <1>3, <1>4, <2>1, <2>2, <2>3, <2>4
<1>9. Reacts(n, "offer", "accept")' => OnOffer[cRow'[n].dataset] = "accept"
  <2>1. CASE Reacts(n, "offer", "accept")
    <3>1. cRow[n].state \in CC!Past("OFFERED")
      BY <1>1, <1>3, <2>1 DEF CC!InFlightIsLegal, CC!StartedFrom, Reacts, Reacting
    <3>2. cRow[n].state # "NONE"
      BY <3>1 DEF CC!Past, CC!States
    <3> QED BY <1>1, <2>1, <3>2, RowsKept DEF ConsumerTracked
  <2>2. CASE CC!Begins(n, "offer")
    <3>1. cRow[n].state # "NONE"
      BY <2>2 DEF CC!Begins
    <3> QED BY <2>2, <3>1, RowsKept DEF CC!Begins, Reacts
  <2> QED BY <1>3, <1>4, <2>1, <2>2 DEF Reacts
<1>10. Abandons(n)' => OnIdle[cRow'[n].dataset] = "abandon"
  <2>1. CASE Abandons(n)
    <3>1. cRow[n].state \in CC!Past("REQUESTED")
      BY <1>1, <1>3, <2>1 DEF CC!InFlightIsLegal, CC!StartedFrom, Abandons, Reacts, Reacting
    <3>2. cRow[n].state # "NONE"
      BY <3>1 DEF CC!Past, CC!States
    <3> QED BY <1>1, <2>1, <3>2, RowsKept DEF ConsumerTracked
  <2>2. CASE CC!Begins(n, "start")
    BY <2>2 DEF CC!Begins, Abandons, Reacts
  <2> QED BY <1>3, <1>4, <2>1, <2>2 DEF Abandons, Reacts
<1> QED BY <1>6, <1>7, <1>8, <1>9, <1>10 DEF ConsumerTracked

-----------------------------------------------------------------------------
(* What the provider has heard *)

\* A negotiation comes to the provider by the request the consumer sent.
LEMMA RequestIsRead ==
  ASSUME Inv, [Next]_vars, NEW n \in Neg, pRow[n].state = "NONE", pRow'[n].state # "NONE"
  PROVE  toProvider(n, "request") \in wire /\ pRow'[n].dataset = cRow[n].dataset
<1>1. PP!TypeOK /\ PP!InFlightIsLegal
  BY DEF Inv, PP!IInv
<1>2. CASE ProviderStep
  <2>1. \/ \E h \in ProviderHandlers : PP!Serve(h)
        \/ \E m \in Neg, k \in PP!TaskIds : PP!Run(m, k)
        \/ \E d \in Limited : PP!expire(d)
        \/ PP!Fault
    BY <1>2, ProviderOperations DEF ProviderStep
  <2> QED BY <1>1, <2>1, PP!NothingCreated, ConfigAssumption DEF PP!NothingCreated
<1>3. ASSUME NEW h \in ProviderHandlers, NEW m \in Neg, NEW op \in ToProvider,
             ProviderReceives(h, m, op)
      PROVE  toProvider(n, "request") \in wire /\ pRow'[n].dataset = cRow[n].dataset
  <2>1. CASE op = "request"
    <3>1. PICK matches \in BOOLEAN : PP!handleContractRequest(h, m, cRow[m].dataset, matches, Consumer)
      BY <1>3, <2>1, ProviderOperations DEF ProviderReceives
    <3>2. m = n /\ pRow'[n].dataset = cRow[n].dataset
      BY <1>1, <3>1 DEF PP!handleContractRequest, PP!TypeOK
    <3> QED BY <1>3, <2>1, <3>2 DEF ProviderReceives
  <2>2. CASE op # "request"
    <3>1. \/ PP!handleReRequest(h, m, Consumer, TRUE)
          \/ PP!handleProviderAcceptedEvent(h, m, Consumer)
          \/ PP!handleVerification(h, m, Consumer)
          \/ PP!handleProviderTermination(h, m, Consumer)
      BY <1>3, <2>2, ProviderOperations DEF ProviderReceives
    <3>2. pRow' = pRow
      BY <3>1
      DEF PP!handleReRequest, PP!handleProviderAcceptedEvent, PP!handleVerification,
          PP!handleProviderTermination, PP!lookup
    <3> QED BY <3>2
  <2> QED BY <2>1, <2>2
<1>4. pRow' # pRow
  OBVIOUS
<1> QED
  BY <1>2, <1>3, <1>4
  DEF Next, vars, initiate, attemptPush, attemptSend, ConsumerReceives, providerVars

\* The request of a negotiation is sent when its row is stored.
LEMMA RequestIsSent ==
  ASSUME Inv, [Next]_vars, NEW n \in Neg,
         toProvider(n, "request") \in wire', toProvider(n, "request") \notin wire
  PROVE  cRow'[n].state # "NONE"
<1>1. CC!TypeOK /\ CC!IInv
  BY DEF Inv, CC!IInv
<1>2. \E d \in Datasets : initiate(n, d)
  BY <1>1, Sent, PushesReact DEF toProvider, toConsumer
<1>3. \E d \in Datasets : CC!handleInitiate(n, d, Provider)
  BY <1>2, ConsumerOperations DEF initiate
<1> QED BY <1>1, <1>3 DEF CC!handleInitiate, CC!TypeOK

LEMMA ProviderHeardStep ==
  ASSUME Inv, [Next]_vars, NEW n \in Neg
  PROVE  ProviderHeard(n)'
<1>1. ProviderHeard(n) /\ PP!IInv /\ CC!IInv
  BY DEF Inv, CrossInv
<1>2. \A k \in PP!TaskIds : PP!TaskMoves(n, k)
  BY ProviderMoves DEF Inv, PP!NegotiationMoves
<1>3. {"accepted", "verified", "walkaway"} \subseteq PP!TaskIds
  BY DEF PP!TaskIds
<1>4. /\ Reacts(n, "offer", "accept") => Reacts(n, "offer", "accept")'
      /\ Reacts(n, "agreement", "verify") => Reacts(n, "agreement", "verify")'
  BY ReactionsKept DEF CC!TaskIds
<1>5. toProvider(n, "request") \in wire' \/ pRow'[n].state # "NONE" => cRow'[n].state # "NONE"
  BY <1>1, RequestIsRead, RequestIsSent, RowsKept DEF ProviderHeard
<1>6. pRow'[n].state # "NONE" => pRow'[n].dataset = cRow'[n].dataset
  <2>1. CASE pRow[n].state = "NONE"
    BY <1>1, <2>1, RequestIsRead, RowsKept DEF ProviderHeard
  <2>2. CASE pRow[n].state # "NONE"
    BY <1>1, <2>2, RowsKept DEF ProviderHeard
  <2> QED BY <2>1, <2>2
<1>7. ToldProvider(n, "accepted")' => Reacts(n, "offer", "accept")
  BY <1>1, ProviderHears, PushesReact DEF ProviderHeard
<1>8. Started(n, "accepted")' => Reacts(n, "offer", "accept")
  <2>1. CASE PP!Starts(n, "accepted")
    <3>1. ToldProvider(n, "accepted")
      BY <2>1 DEF PP!Starts, PP!Serving, ToldProvider
    <3> QED BY <1>1, <3>1 DEF ProviderHeard
  <2>2. CASE Started(n, "accepted")
    BY <1>1, <2>2 DEF ProviderHeard
  <2> QED
    BY <1>2, <1>3, <2>1, <2>2 DEF PP!TaskMoves, PP!Continues, PP!Withdraws, PP!Started, Started
<1>9. ToldProvider(n, "verification")' => Reacts(n, "agreement", "verify")
  BY <1>1, ProviderHears, PushesReact DEF ProviderHeard
<1>10. Started(n, "verified")' => Reacts(n, "agreement", "verify")
  <2>1. CASE PP!Starts(n, "verified")
    <3>1. ToldProvider(n, "verification")
      BY <2>1 DEF PP!Starts, PP!Serving, ToldProvider
    <3> QED BY <1>1, <3>1 DEF ProviderHeard
  <2>2. CASE Started(n, "verified")
    BY <1>1, <2>2 DEF ProviderHeard
  <2> QED
    BY <1>2, <1>3, <2>1, <2>2 DEF PP!TaskMoves, PP!Continues, PP!Withdraws, PP!Started, Started
<1>11. ToldProvider(n, "termination")' => Rejects(n)' \/ Abandons(n)'
  <2>1. ToldProvider(n, "termination")' => Rejects(n) \/ Abandons(n)
    BY <1>1, ProviderHears, PushesReact DEF ProviderHeard
  <2> QED BY <2>1, ReactionsKept
<1>12. ~Started(n, "walkaway")'
  <2>1. ~PP!Starts(n, "walkaway")
    BY DEF PP!Starts, Inv, CrossInv, ReRequestsRepeat
  <2>2. ~Started(n, "walkaway")
    BY <1>1 DEF ProviderHeard
  <2> QED BY <1>2, <1>3, <2>1, <2>2
          DEF PP!TaskMoves, PP!Continues, PP!Withdraws, PP!Started, Started
<1> QED BY <1>4, <1>5, <1>6, <1>7, <1>8, <1>9, <1>10, <1>11, <1>12 DEF ProviderHeard

\* A re-request it reads repeats the offer.
LEMMA ReRequestsRepeatStep ==
  ASSUME Inv, [Next]_vars
  PROVE  ReRequestsRepeat'
BY ProviderServes DEF ReRequestsRepeat, Inv, CrossInv, PP!IInv

-----------------------------------------------------------------------------
(* The provider's own part *)

\* What a goroutine announces it was started to announce, or announced before.
LEMMA Announced ==
  ASSUME Inv, [Next]_vars, NEW n \in Neg, NEW k \in PP!TaskIds, k # "withdraw",
         NEW s, Announces(n, k, s)'
  PROVE  Announces(n, k, s) \/ PP!Starts(n, k)
<1>1. PP!TaskMoves(n, k)
  BY ProviderMoves DEF Inv, PP!NegotiationMoves
<1> QED
  BY <1>1 DEF PP!TaskMoves, PP!Continues, PP!Withdraws, PP!Started, Started, Announces

\* A goroutine writes what it announces, from the state it was started in.
LEMMA Stored ==
  ASSUME NEW n \in Neg, NEW k \in PP!TaskIds, pTask[n][k].pc = "store",
         <<pRow[n].state, pRow'[n].state>> \in PP!Plans[k], pTask[n][k].to = pRow'[n].state
  PROVE  /\ Announces(n, k, pRow'[n].state)
         /\ pRow[n].state = "REQUESTED" => k = "request"
         /\ pRow[n].state = "ACCEPTED" => k = "accepted"
         /\ pRow[n].state = "VERIFIED" => k = "verified"
         /\ pRow[n].state \in {"REQUESTED", "OFFERED", "ACCEPTED", "VERIFIED"}
         /\ pRow'[n].state = "AGREED" => k \in {"request", "accepted"}
         /\ pRow'[n].state = "FINALIZED" => k = "verified"
         /\ pRow'[n].state \in {"OFFERED", "AGREED", "FINALIZED", "TERMINATED"}
BY DEF PP!Plans, PP!TaskIds, Announces, Started

\* What is announced before an agreement.
LEMMA EarlyEnds ==
  ASSUME Inv, [Next]_vars, NEW n \in Neg
  PROVE  /\ Announces(n, "request", "TERMINATED")' => pRow'[n].state \in {"REQUESTED", "TERMINATED"}
         /\ Announces(n, "accepted", "TERMINATED")' => pRow'[n].state \in {"ACCEPTED", "TERMINATED"}
<1>1. ProviderTracked(n)
  BY DEF Inv, CrossInv
<1>2. PP!StateMoves(n) /\ PP!IInv
  BY ProviderMoves DEF Inv, PP!NegotiationMoves
<1>3. {"request", "accepted"} \subseteq PP!TaskIds
  BY DEF PP!TaskIds
<1>4. ASSUME NEW k \in {"request", "accepted"}, Announces(n, k, "TERMINATED"),
             NEW s \in {"REQUESTED", "ACCEPTED"}, k = "request" <=> s = "REQUESTED",
             pRow[n].state \in {s, "TERMINATED"}
      PROVE  pRow'[n].state \in {s, "TERMINATED"}
  <2>1. PP!Exists(n)
    BY <1>4 DEF PP!Exists, PP!NoRow
  <2>2. ASSUME NEW j \in PP!TaskIds, pTask[n][j].pc = "store",
               <<pRow[n].state, pRow'[n].state>> \in PP!Plans[j], pTask[n][j].to = pRow'[n].state
        PROVE  pRow'[n].state \in {s, "TERMINATED"}
    <3>1. j = k /\ Announces(n, j, pRow'[n].state)
      BY <1>4, <2>2, Stored
    <3> QED BY <1>4, <3>1 DEF Announces
  <2> QED BY <1>2, <1>4, <2>1, <2>2 DEF PP!StateMoves
<1>5. Announces(n, "request", "TERMINATED")' => pRow'[n].state \in {"REQUESTED", "TERMINATED"}
  <2>1. CASE Announces(n, "request", "TERMINATED")
    BY <1>1, <1>4, <2>1 DEF ProviderTracked
  <2>2. CASE PP!Starts(n, "request")
    BY <2>2 DEF PP!Starts
  <2> QED BY <1>3, <2>1, <2>2, Announced
<1>6. Announces(n, "accepted", "TERMINATED")' => pRow'[n].state \in {"ACCEPTED", "TERMINATED"}
  <2>1. CASE Announces(n, "accepted", "TERMINATED")
    BY <1>1, <1>4, <2>1 DEF ProviderTracked
  <2>2. CASE PP!Starts(n, "accepted")
    BY <2>2 DEF PP!Starts
  <2> QED BY <1>3, <2>1, <2>2, Announced
<1> QED BY <1>5, <1>6

\* Only a counter-offer that is to be withdrawn is withdrawn.
LEMMA Withdrawals ==
  ASSUME Inv, [Next]_vars, NEW n \in Neg
  PROVE  /\ Started(n, "withdraw")' => pTask'[n]["request"].withdraw
         /\ pTask'[n]["withdraw"].to \in {"REQUESTED", "TERMINATED"}
<1>1. ProviderTracked(n) /\ PP!InFlightIsLegal
  BY DEF Inv, CrossInv, PP!IInv
<1>2. PP!TaskMoves(n, "request") /\ PP!TaskMoves(n, "withdraw")
  BY ProviderMoves DEF Inv, PP!NegotiationMoves, PP!TaskIds
<1>3. Started(n, "withdraw")' => pTask'[n]["request"].withdraw
  <2> SUFFICES ASSUME Started(n, "withdraw")' PROVE pTask'[n]["request"].withdraw
    OBVIOUS
  <2>1. Started(n, "request") /\ pTask[n]["request"].withdraw
    <3>1. CASE Started(n, "withdraw")
      <4>1. pTask[n]["request"].pc = "done"
        BY <1>1, <3>1 DEF PP!InFlightIsLegal, Started
      <4> QED BY <1>1, <3>1, <4>1 DEF ProviderTracked, Started
    <3>2. CASE PP!Starts(n, "withdraw")
      BY <3>2 DEF PP!Starts, PP!Started, Started
    <3> QED
      BY <1>2, <3>1, <3>2 DEF PP!TaskMoves, PP!Continues, PP!Withdraws, PP!Started, Started
  <2> QED BY <1>2, <2>1 DEF PP!TaskMoves, PP!Continues, PP!Starts, PP!Withdraws, PP!Started, Started
<1>4. pTask'[n]["withdraw"].to \in {"REQUESTED", "TERMINATED"}
  BY <1>1, <1>2 DEF ProviderTracked, PP!TaskMoves, PP!Continues, PP!Starts, PP!Withdraws
<1> QED BY <1>3, <1>4

\* An agreement was asked for, or accepted.
LEMMA AgreementsAskedFor ==
  ASSUME Inv, [Next]_vars, NEW n \in Neg
  PROVE  /\ Announces(n, "request", "AGREED")' => pRow'[n].matches
         /\ pRow'[n].state \in PP!IssuedStates \/ (\E a \in pAgreements' : a.id = n) =>
              pRow'[n].matches \/ Started(n, "accepted")'
<1>1. ProviderTracked(n) /\ PP!IInv /\ PP!InFlightIsLegal
  BY DEF Inv, CrossInv, PP!IInv
<1>2. PP!StateMoves(n)
  BY ProviderMoves DEF Inv, PP!NegotiationMoves
<1>3. {"request", "accepted"} \subseteq PP!TaskIds
  BY DEF PP!TaskIds
<1>4. Announces(n, "request", "AGREED") => pRow'[n].matches
  <2>1. Started(n, "request") => pRow[n].state # "NONE"
    BY <1>1, <1>3, ProviderRow DEF PP!Row, PP!States
  <2> QED BY <1>1, <2>1, RowsKept DEF ProviderTracked, Announces
<1>5. Announces(n, "request", "AGREED")' => pRow'[n].matches
  <2>1. PP!Starts(n, "request") /\ Announces(n, "request", "AGREED")' => pRow'[n].matches
    BY DEF PP!Starts, Announces
  <2> QED BY <1>3, <1>4, <2>1, Announced
<1>6. Started(n, "accepted") => Started(n, "accepted")'
  BY <1>3, AnnouncementsKept
<1>7. ASSUME pRow[n].state \in PP!IssuedStates \/ \E a \in pAgreements : a.id = n
      PROVE  pRow'[n].matches \/ Started(n, "accepted")'
  <2>1. pRow[n].state # "NONE"
    BY <1>1, <1>7 DEF PP!IInv, PP!AgreementMatchesNegotiation, PP!IssuedStates
  <2> QED BY <1>1, <1>6, <1>7, <2>1, RowsKept DEF ProviderTracked
<1>8. (\E a \in pAgreements' : a.id = n) => pRow'[n].matches \/ Started(n, "accepted")'
  BY <1>7, ProviderGains DEF Inv
<1>9. pRow'[n].state \in PP!IssuedStates => pRow'[n].matches \/ Started(n, "accepted")'
  <2>1. ASSUME NEW k \in PP!TaskIds, pTask[n][k].pc = "store",
               <<pRow[n].state, pRow'[n].state>> \in PP!Plans[k], pTask[n][k].to = pRow'[n].state,
               pRow'[n].state \in PP!IssuedStates
        PROVE  pRow'[n].matches \/ Started(n, "accepted")'
    <3>1. CASE pRow'[n].state = "AGREED"
      BY <1>4, <1>6, <2>1, <3>1, Stored DEF Announces
    <3>2. CASE pRow'[n].state # "AGREED"
      <4>1. pRow[n].state = "VERIFIED"
        BY <2>1, <3>2 DEF PP!Plans, PP!TaskIds, PP!IssuedStates
      <4> QED BY <1>7, <4>1 DEF PP!IssuedStates
    <3> QED BY <3>1, <3>2
  <2> QED BY <1>2, <1>7, <2>1 DEF PP!StateMoves, PP!IssuedStates
<1> QED BY <1>5, <1>8, <1>9

\* What was finalized was announced so, and ends otherwise only if abandoned.
LEMMA FinalEnds ==
  ASSUME Inv, [Next]_vars, NEW n \in Neg
  PROVE  /\ pRow'[n].state = "FINALIZED" => Announces(n, "verified", "FINALIZED")'
         /\ Announces(n, "verified", "FINALIZED")' /\ pRow'[n].state = "TERMINATED" => Abandons(n)'
<1>1. /\ ProviderTracked(n) /\ ProviderHeard(n) /\ ConsumerTracked(n)
      /\ PP!InFlightIsLegal
  BY DEF Inv, CrossInv, PP!IInv
<1>2. PP!StateMoves(n)
  BY ProviderMoves DEF Inv, PP!NegotiationMoves
<1>3. "verified" \in PP!TaskIds
  BY DEF PP!TaskIds
<1>4. pRow'[n].state = "FINALIZED" => Announces(n, "verified", "FINALIZED")
  <2>1. ASSUME NEW k \in PP!TaskIds, pTask[n][k].pc = "store",
               <<pRow[n].state, pRow'[n].state>> \in PP!Plans[k], pTask[n][k].to = pRow'[n].state,
               pRow'[n].state = "FINALIZED"
        PROVE  Announces(n, "verified", "FINALIZED")
    BY <2>1, Stored
  <2> QED BY <1>1, <1>2, <2>1 DEF PP!StateMoves, ProviderTracked
<1>5. ASSUME Announces(n, "verified", "FINALIZED"), pRow'[n].state = "TERMINATED"
      PROVE  Abandons(n)
  <2>1. pRow[n].state \in {"VERIFIED", "FINALIZED", "TERMINATED"}
    BY <1>1, <1>3, <1>5 DEF PP!InFlightIsLegal, PP!StartedFrom, PP!Past, Announces, Started
  <2>2. CASE PP!Serving(n, "termination")
    <3>1. ToldProvider(n, "termination")
      BY <2>2 DEF PP!Serving, ToldProvider
    <3>2. Reacts(n, "agreement", "verify")
      BY <1>1, <1>5 DEF ProviderHeard, Announces
    <3> QED BY <1>1, <3>1, <3>2 DEF ProviderHeard, Rejects, Reacts, ConsumerTracked
  <2>3. ASSUME NEW k \in PP!TaskIds, pTask[n][k].pc = "store",
               <<pRow[n].state, pRow'[n].state>> \in PP!Plans[k], pTask[n][k].to = pRow'[n].state
        PROVE  FALSE
    <3>1. k = "verified"
      BY <2>1, <2>3, Stored
    <3> QED BY <1>5, <2>3, <3>1 DEF Announces
  <2> QED BY <1>1, <1>2, <1>5, <2>1, <2>2, <2>3 DEF PP!StateMoves, ProviderTracked
<1>6. PP!Starts(n, "verified") => pRow'[n].state = "VERIFIED"
  BY DEF PP!Starts
<1>7. Abandons(n) => Abandons(n)'
  BY ReactionsKept
<1> QED BY <1>3, <1>4, <1>5, <1>6, <1>7, Announced, AnnouncementsKept

LEMMA ProviderTrackedStep ==
  ASSUME Inv, [Next]_vars, NEW n \in Neg
  PROVE  ProviderTracked(n)'
BY EarlyEnds, Withdrawals, AgreementsAskedFor, FinalEnds DEF ProviderTracked

-----------------------------------------------------------------------------
(* What the consumer has heard *)

\* About to store VERIFIED, which the provider has to have acknowledged.
Verifying(n) == Reacts(n, "agreement", "verify") /\ cTask[n]["agreement"].pc = "store"

\* A reaction gets there only from a verification that was.
LEMMA VerificationIsAcknowledged ==
  ASSUME Inv, [Next]_vars, NEW n \in Neg, Verifying(n)'
  PROVE  Verifying(n) \/ Started(n, "verified")
<1>1. CC!TypeOK /\ CC!InFlightIsLegal /\ "agreement" \in CC!TaskIds
  BY DEF Inv, CC!IInv, CC!TaskIds
<1>2. CASE cTask'[n]["agreement"] = cTask[n]["agreement"]
  BY <1>2 DEF Verifying, Reacts, Reacting
<1>3. ASSUME NEW m \in Neg, NEW k \in CC!TaskIds, NEW t,
             cTask' = [cTask EXCEPT ![m][k] = t], t.pc # "store"
      PROVE  cTask'[n]["agreement"] = cTask[n]["agreement"]
  <2>1. ~(m = n /\ k = "agreement")
    <3>1. m = n /\ k = "agreement" => cTask'[n]["agreement"] = t
      BY <1>1, <1>3 DEF CC!TypeOK
    <3> QED BY <1>3, <3>1 DEF Verifying
  <2> QED BY <1>1, <1>3, <2>1 DEF CC!TypeOK
<1>4. ASSUME NEW m \in Neg, NEW k \in CC!TaskIds, NEW pc, pc # "store",
             cTask' = [cTask EXCEPT ![m][k].pc = pc]
      PROVE  cTask'[n]["agreement"] = cTask[n]["agreement"]
  <2>1. PICK t : t = [cTask[m][k] EXCEPT !.pc = pc]
    OBVIOUS
  <2>2. cTask' = [cTask EXCEPT ![m][k] = t] /\ t.pc # "store"
    BY <1>1, <1>4, <2>1 DEF CC!TypeOK, CC!Task
  <2> QED BY <1>3, <2>2
<1>5. ASSUME NEW m \in Neg, NEW d \in Datasets, CC!handleInitiate(m, d, Provider)
      PROVE  cTask'[n]["agreement"] = cTask[n]["agreement"]
  BY <1>1, <1>5 DEF CC!handleInitiate, CC!TypeOK, CC!TaskIds
<1>6. ASSUME NEW h \in ConsumerHandlers, CC!Serve(h) \/ CC!failWrite(h)
      PROVE  cTask'[n]["agreement"] = cTask[n]["agreement"]
  <2>1. CASE cTask' = cTask
    BY <2>1
  <2>2. CASE CC!storeOffered(h) \/ CC!storeAgreed(h)
    <3>1. cHandler[h].neg \in Neg
      BY <1>1, <2>2 DEF CC!storeOffered, CC!storeAgreed, CC!AtWrite, CC!TypeOK,
         CC!Idle, CC!Recording, CC!Writing
    <3>2. {"offer", "agreement"} \subseteq CC!TaskIds
      BY DEF CC!TaskIds
    <3>3. \E k \in CC!TaskIds : \E from, pid, action :
            \/ cTask' = cTask
            \/ cTask' = [cTask EXCEPT ![cHandler[h].neg][k] = CC!react(from, pid, action)]
      BY <2>2, <3>2 DEF CC!storeOffered, CC!storeAgreed, CC!store
    <3>4. \A from, pid, action : CC!react(from, pid, action).pc # "store"
      BY DEF CC!react
    <3> QED BY <1>3, <3>1, <3>3, <3>4
  <2> QED
    BY <1>6, <2>1, <2>2
    DEF CC!Serve, CC!failWrite, CC!CreateAgreement, CC!storeFinalized, CC!storeTermination, CC!store
<1>7. ASSUME NEW m \in Neg, NEW k \in CC!TaskIds,
             \/ CC!resolveProviderPID(m, k) \/ CC!storeReaction(m, k)
             \/ CC!failStore(m, k) \/ CC!failResolve(m, k)
             \/ k = "start" /\ \E answered \in BOOLEAN : CC!sendInitialRequest(m, answered)
      PROVE  cTask'[n]["agreement"] = cTask[n]["agreement"]
  <2>1. CASE CC!resolveProviderPID(m, k)
    <3>1. m # n \/ k # "agreement"
      BY <1>1, <2>1 DEF CC!resolveProviderPID, CC!TypeOK, CC!Task, Verifying
    <3> QED BY <1>1, <2>1, <3>1 DEF CC!resolveProviderPID, CC!TypeOK
  <2> QED
    BY <1>4, <1>7, <2>1 DEF CC!storeReaction, CC!failStore, CC!failResolve, CC!sendInitialRequest
<1>8. ASSUME NEW m \in Neg, CC!SetConsumerProviderPID(m)
      PROVE  cTask'[n]["agreement"] = cTask[n]["agreement"]
  BY <1>1, <1>8 DEF CC!SetConsumerProviderPID, CC!TypeOK, CC!TaskIds
<1>9. ASSUME NEW m \in Neg, NEW k \in CC!TaskIds, CC!endPush(m, k, FALSE)
      PROVE  cTask'[n]["agreement"] = cTask[n]["agreement"]
  <2>1. CASE m # n \/ k # "agreement"
    BY <1>1, <1>9, <2>1 DEF CC!endPush, CC!TypeOK
  <2>2. CASE m = n /\ k = "agreement"
    <3>1. cTask'[n]["agreement"].action = cTask[n]["agreement"].action
      BY <1>1, <1>9, <2>2 DEF CC!endPush, CC!TypeOK, CC!Task
    <3>2. cTask[n]["agreement"].action = "verify"
      BY <3>1 DEF Verifying, Reacts
    <3> QED BY <1>4, <1>9, <2>2, <3>2 DEF CC!endPush
  <2> QED BY <2>1, <2>2
<1>10. ASSUME NEW m \in Neg, NEW k \in CC!TaskIds,
              cTask[m][k].action = "verify", Acknowledged(m), CC!endPush(m, k, TRUE)
       PROVE  cTask'[n]["agreement"] = cTask[n]["agreement"] \/ Started(n, "verified")
  <2>1. CASE m # n \/ k # "agreement"
    BY <1>1, <1>10, <2>1 DEF CC!endPush, CC!TypeOK
  <2>2. CASE m = n
    BY <1>10, <2>2 DEF Acknowledged, Started
  <2> QED BY <2>1, <2>2
<1>11. ASSUME CC!crash PROVE cTask'[n]["agreement"] = cTask[n]["agreement"]
  BY <1>1, <1>11 DEF CC!crash, CC!TypeOK, CC!Task, Verifying
<1>12. ASSUME NEW m \in Neg, NEW k \in C!TaskIds, ConsumerRuns(m, k)
       PROVE  cTask'[n]["agreement"] = cTask[n]["agreement"] \/ Started(n, "verified")
  BY <1>7, <1>8, <1>9, <1>10, <1>12, ConsumerOperations DEF ConsumerRuns
<1>13. CASE ConsumerStep
  BY <1>2, <1>6, <1>7, <1>11, <1>12, <1>13, ConsumerOperations DEF ConsumerStep, CC!Fault
<1>14. ASSUME NEW m \in Neg, NEW d \in Datasets, initiate(m, d)
       PROVE  cTask'[n]["agreement"] = cTask[n]["agreement"]
  BY <1>5, <1>14, ConsumerOperations DEF initiate
<1>15. ASSUME NEW h \in ConsumerHandlers, NEW m \in Neg, NEW op \in ToConsumer,
              ConsumerReceives(h, m, op)
       PROVE  cTask' = cTask
  BY <1>15, ConsumerOperations
  DEF ConsumerReceives, CC!handleOffers, CC!handleAgreement, CC!handleConsumerFinalizedEvent,
      CC!handleConsumerTermination, CC!lookup
<1> QED
  BY <1>2, <1>13, <1>14, <1>15
  DEF Next, vars, attemptPush, attemptSend, ProviderReceives, consumerVars

\* An agreement that was heard of was announced, and over the dataset.
LEMMA AgreementsAnnounced ==
  ASSUME Inv, [Next]_vars, NEW n \in Neg
  PROVE  /\ AgreementHeard(n)' => \E k \in PP!TaskIds : Announces(n, k, "AGREED")'
         /\ \A h \in ConsumerHandlers : cHandler'[h].pc = "record" /\ cHandler'[h].neg = n =>
              cHandler'[h].msg.dataset = cRow'[n].dataset
         /\ \A a \in cAgreements' : a.neg = n => a.dataset = cRow'[n].dataset
<1>1. ConsumerHeard(n) /\ ProviderHeard(n) /\ PP!IInv /\ CC!IInv /\ CrossInv /\ CC!TypeOK
  BY DEF Inv, CrossInv, CC!IInv
<1>2. AgreementHeard(n)' => \E k \in PP!TaskIds : Announces(n, k, "AGREED")'
  <2>1. AgreementHeard(n)' => \E k \in PP!TaskIds : Announces(n, k, "AGREED")
    BY <1>1, AgreementHears, PushesAnnounce DEF ConsumerHeard, AgreementHeard
  <2> QED BY <2>1, AnnouncementsKept
<1>3. AgreementHeard(n) =>
        /\ pRow[n].dataset = cRow[n].dataset
        /\ cRow'[n].dataset = cRow[n].dataset
  <2> SUFFICES ASSUME AgreementHeard(n)
               PROVE  pRow[n].dataset = cRow[n].dataset /\ cRow'[n].dataset = cRow[n].dataset
    OBVIOUS
  <2>1. PICK k \in PP!TaskIds : Announces(n, k, "AGREED")
    BY <1>1 DEF ConsumerHeard, AgreementHeard
  <2>2. pRow[n].state # "NONE"
    BY <1>1, <2>1, ProviderRow DEF Announces, PP!Row, PP!States
  <2> QED BY <1>1, <2>2, RowsKept DEF ProviderHeard
<1>4. ASSUME NEW h \in ConsumerHandlers, cHandler'[h].pc = "record", cHandler'[h].neg = n
      PROVE  cHandler'[h].msg.dataset = cRow'[n].dataset
  <2>1. AgreementHeard(n)
    BY <1>1, <1>4, ConsumerServes DEF AgreementHeard, Recording
  <2> QED BY <1>1, <1>3, <1>4, <2>1, ConsumerServes DEF ConsumerHeard
<1>5. ASSUME NEW a \in cAgreements', a.neg = n
      PROVE  a.dataset = cRow'[n].dataset
  <2>1. CASE a \in cAgreements
    BY <1>1, <1>3, <1>5, <2>1 DEF ConsumerHeard, AgreementHeard
  <2>2. CASE a \notin cAgreements
    <3>1. PICK h \in ConsumerHandlers : /\ cHandler[h].pc = "record"
                                        /\ a.neg = cHandler[h].neg /\ a.dataset = cHandler[h].msg.dataset
      BY <1>1, <1>5, <2>2, ConsumerGains
    <3> QED BY <1>1, <1>3, <1>5, <3>1 DEF ConsumerHeard, AgreementHeard, Recording
  <2> QED BY <2>1, <2>2
<1> QED BY <1>2, <1>4, <1>5

\* An end the consumer shows was announced, or is its own.
LEMMA EndsAnnounced ==
  ASSUME Inv, [Next]_vars, NEW n \in Neg
  PROVE  /\ ToldConsumer(n, "finalized")' \/ cRow'[n].state = "FINALIZED" =>
              Announces(n, "verified", "FINALIZED")'
         /\ ToldConsumer(n, "termination")' => \E k \in PP!TaskIds : Announces(n, k, "TERMINATED")'
         /\ cRow'[n].state = "TERMINATED" =>
              Rejects(n)' \/ Abandons(n)' \/ \E k \in PP!TaskIds : Announces(n, k, "TERMINATED")'
         /\ cRow'[n].state = "VERIFIED" \/ Verifying(n)' => Started(n, "verified")'
<1>1. ConsumerHeard(n) /\ PP!IInv /\ CC!IInv /\ CC!InFlightIsLegal
  BY DEF Inv, CrossInv, CC!IInv
<1>2. CC!StateMoves(n)
  BY ConsumerMoves DEF Inv, CC!NegotiationMoves
<1>3. \A op \in {"finalized", "termination"} : CC!Serving(n, op) => ToldConsumer(n, op)
  BY DEF CC!Serving, ToldConsumer
<1>4. ASSUME NEW k \in CC!TaskIds, cTask[n][k].pc = "store"
      PROVE  /\ CC!Store[cTask[n][k].action] \in {"ACCEPTED", "VERIFIED", "TERMINATED"}
             /\ CC!Store[cTask[n][k].action] = "VERIFIED" => Verifying(n)
             /\ CC!Store[cTask[n][k].action] = "TERMINATED" => Rejects(n) \/ Abandons(n)
  <2>1. cTask[n][k].action \in CC!Plans[k] /\ cTask[n][k].action \in DOMAIN CC!Store
    BY <1>1, <1>4 DEF CC!InFlightIsLegal
  <2>2. \/ k = "start" /\ cTask[n][k].action = "abandon"
        \/ k = "offer" /\ cTask[n][k].action \in {"accept", "reject"}
        \/ k = "agreement" /\ cTask[n][k].action \in {"verify", "reject"}
    BY <2>1
    DEF CC!Plans, CC!TaskIds, CC!Store, CC!IdlePolicies, CC!OfferPolicies,
        CC!AgreementPolicies
  <2> QED BY <1>4, <2>2 DEF CC!Store, Verifying, Rejects, Abandons, Reacts, Reacting
<1>5. "verified" \in PP!TaskIds
  BY DEF PP!TaskIds
<1>6. ToldConsumer(n, "finalized")' \/ cRow'[n].state = "FINALIZED" =>
        Announces(n, "verified", "FINALIZED")'
  <2>1. ToldConsumer(n, "finalized")' => Announces(n, "verified", "FINALIZED")
    BY <1>1, ConsumerHears, PushesAnnounce DEF ConsumerHeard
  <2>2. cRow'[n].state = "FINALIZED" => Announces(n, "verified", "FINALIZED")
    BY <1>1, <1>2, <1>3, <1>4 DEF CC!StateMoves, ConsumerHeard
  <2> QED BY <1>5, <2>1, <2>2, AnnouncementsKept
<1>7. ToldConsumer(n, "termination")' => \E k \in PP!TaskIds : Announces(n, k, "TERMINATED")'
  <2>1. ToldConsumer(n, "termination")' => \E k \in PP!TaskIds : Announces(n, k, "TERMINATED")
    BY <1>1, ConsumerHears, PushesAnnounce DEF ConsumerHeard
  <2> QED BY <2>1, AnnouncementsKept
<1>8. cRow'[n].state = "TERMINATED" =>
        Rejects(n)' \/ Abandons(n)' \/ \E k \in PP!TaskIds : Announces(n, k, "TERMINATED")'
  <2>1. cRow'[n].state = "TERMINATED" =>
          Rejects(n) \/ Abandons(n) \/ \E k \in PP!TaskIds : Announces(n, k, "TERMINATED")
    BY <1>1, <1>2, <1>3, <1>4 DEF CC!StateMoves, ConsumerHeard
  <2> QED BY <2>1, ReactionsKept, AnnouncementsKept
<1>9. cRow'[n].state = "VERIFIED" \/ Verifying(n)' => Started(n, "verified")'
  <2>1. Verifying(n) => Started(n, "verified")
    BY <1>1 DEF ConsumerHeard, Verifying
  <2>2. cRow'[n].state = "VERIFIED" => Started(n, "verified")
    BY <1>1, <1>2, <1>4, <2>1 DEF CC!StateMoves, ConsumerHeard
  <2> QED BY <1>5, <2>1, <2>2, VerificationIsAcknowledged, AnnouncementsKept
<1> QED BY <1>6, <1>7, <1>8, <1>9

LEMMA ConsumerHeardStep ==
  ASSUME Inv, [Next]_vars, NEW n \in Neg
  PROVE  ConsumerHeard(n)'
BY AgreementsAnnounced, EndsAnnounced DEF ConsumerHeard, AgreementHeard, Recording, Verifying

-----------------------------------------------------------------------------
(* What two connectors promise each other *)

\* Nothing has been said at first.
LEMMA NothingSaid == Init => Inv
<1> SUFFICES ASSUME Init PROVE Inv
  OBVIOUS
<1>1. PP!Init /\ CC!Init /\ wire = {}
  BY ProviderOperations, ConsumerOperations DEF Init
<1>2. PP!IInv
  BY <1>1, PP!Initially, ConfigAssumption DEF PP!Initially
<1>3. CC!IInv
  BY <1>1, CC!Initially, ConsumerPolicies DEF CC!Initially
<1>4. /\ pRow = [n \in Neg |-> PP!NoRow] /\ pAgreements = {}
      /\ pHandler = [h \in ProviderHandlers |-> PP!Idle]
      /\ pTask = [n \in Neg |-> [k \in PP!TaskIds |-> PP!NoTask]]
  BY <1>1 DEF PP!Init
<1>5. /\ cRow = [n \in Neg |-> CC!NoRow] /\ cAgreements = {}
      /\ cHandler = [h \in ConsumerHandlers |-> CC!Idle]
      /\ cTask = [n \in Neg |-> [k \in CC!TaskIds |-> CC!NoTask]]
  BY <1>1 DEF CC!Init
<1>6. ReRequestsRepeat
  BY <1>4 DEF ReRequestsRepeat, PP!Idle
<1>7. ASSUME NEW n \in Neg
      PROVE  ConsumerTracked(n) /\ ProviderHeard(n) /\ ProviderTracked(n) /\ ConsumerHeard(n)
  <2>1. /\ pRow[n].state = "NONE" /\ cRow[n].state = "NONE"
        /\ \A k \in PP!TaskIds : ~Started(n, k) /\ pTask[n][k].to = "REQUESTED"
        /\ \A k \in CC!TaskIds : ~Reacting(n, k)
    BY <1>4, <1>5 DEF PP!NoRow, CC!NoRow, PP!NoTask, CC!NoTask, Started, Reacting
  <2>2. /\ \A op : ~ToldProvider(n, op) /\ ~ToldConsumer(n, op)
        /\ ~Recording(n)
        /\ toProvider(n, "request") \notin wire /\ toConsumer(n, "agreement") \notin wire
    BY <1>1, <1>4, <1>5 DEF ToldProvider, ToldConsumer, Recording, PP!Idle, CC!Idle
  <2>3. /\ {"request", "accepted", "walkaway", "verified", "withdraw"} \subseteq PP!TaskIds
        /\ {"start", "offer", "agreement"} \subseteq CC!TaskIds
    BY DEF PP!TaskIds, CC!TaskIds
  <2>4. ConsumerTracked(n)
    BY <2>1, <2>3 DEF ConsumerTracked, Reacts, Abandons
  <2>5. ProviderHeard(n)
    BY <2>1, <2>2, <2>3 DEF ProviderHeard
  <2>6. ProviderTracked(n)
    BY <1>4, <2>1, <2>3 DEF ProviderTracked, Announces, PP!IssuedStates
  <2>7. ConsumerHeard(n)
    BY <1>5, <2>1, <2>2, <2>3 DEF ConsumerHeard, Reacts, Recording
  <2> QED BY <2>4, <2>5, <2>6, <2>7
<1> QED BY <1>2, <1>3, <1>6, <1>7 DEF Inv, CrossInv

\* Every step, of either side or of the messages between them, keeps it so.
LEMMA NothingUnsaid == Inv /\ [Next]_vars => Inv'
<1> SUFFICES ASSUME Inv, [Next]_vars PROVE Inv'
  OBVIOUS
<1>1. PP!IInv' /\ CC!IInv'
  BY ProviderMoves, ConsumerMoves DEF Inv
<1>2. CrossInv'
  BY ReRequestsRepeatStep, ConsumerTrackedStep, ProviderHeardStep, ProviderTrackedStep,
     ConsumerHeardStep
  DEF CrossInv
<1> QED BY <1>1, <1>2 DEF Inv

LEMMA Invariance == Spec => []Inv
BY NothingSaid, NothingUnsaid, PTL DEF Spec

\* Either side behaves as its own module says, so what is proved of it there
\* holds here.  At stake in the dataset either side reads out of the other's
\* message.
THEOREM Halves == Spec => PP!Spec /\ CC!Spec
<1>1. Init => PP!Init /\ CC!Init
  BY ProviderOperations, ConsumerOperations DEF Init
<1>2. Inv /\ [Next]_vars => [PP!Next]_(PP!vars) /\ [CC!Next]_(CC!vars)
  BY ProviderHalf, ConsumerHalf DEF Inv
<1> QED BY <1>1, <1>2, Invariance, PTL DEF Spec, PP!Spec, CC!Spec

\* The consumer reports VERIFIED only of a negotiation the provider verified.
THEOREM VerifiedTogether == Spec => []VerifiedByBoth
<1>1. Inv => VerifiedByBoth
  <2> SUFFICES ASSUME Inv, NEW n \in Neg, cRow[n].state \in {"VERIFIED", "FINALIZED"}
               PROVE  pRow[n].state \in {"VERIFIED", "FINALIZED", "TERMINATED"}
    BY DEF VerifiedByBoth
  <2>1. Started(n, "verified")
    BY DEF Inv, CrossInv, ConsumerHeard, Announces
  <2>2. pRow[n].state \in PP!Past(PP!StartedFrom["verified"])
    BY <2>1, ProviderRow DEF Inv, PP!TaskIds
  <2> QED BY <2>2 DEF PP!Past, PP!StartedFrom
<1> QED BY <1>1, Invariance, PTL

\* A negotiation the consumer verifies it does not reject.
LEMMA VerifiedIsNotRejected ==
  ASSUME Inv, NEW n \in Neg, Started(n, "verified")
  PROVE  ~Rejects(n)
BY DEF Inv, CrossInv, ProviderHeard, ConsumerTracked, Rejects, Reacts

\* The two sides end a negotiation alike, unless the consumer abandons it.
THEOREM EndedAlike == Spec => []SameEnd
<1>1. Inv => SameEnd
  <2> SUFFICES ASSUME Inv, NEW n \in Neg, {cRow[n].state, pRow[n].state} = Terminal
               PROVE  OnIdle[cRow[n].dataset] = "abandon"
    BY DEF SameEnd
  <2>1. /\ ConsumerTracked(n) /\ ProviderHeard(n) /\ ProviderTracked(n) /\ ConsumerHeard(n)
        /\ PP!OffersAreTracked
    BY DEF Inv, CrossInv, PP!IInv
  <2>2. CASE cRow[n].state = "FINALIZED" /\ pRow[n].state = "TERMINATED"
    BY <2>1, <2>2 DEF ConsumerHeard, ProviderTracked, ConsumerTracked
  <2>3. CASE cRow[n].state = "TERMINATED" /\ pRow[n].state = "FINALIZED"
    <3>1. Announces(n, "verified", "FINALIZED")
      BY <2>1, <2>3 DEF ProviderTracked
    <3>2. ~Rejects(n)
      BY <3>1, VerifiedIsNotRejected DEF Announces
    <3>3. ASSUME NEW k \in PP!TaskIds, Announces(n, k, "TERMINATED") PROVE FALSE
      <4>1. k # "request" /\ k # "accepted" /\ k # "verified" /\ k # "walkaway"
        BY <2>1, <2>3, <3>1, <3>3 DEF ProviderTracked, ProviderHeard, Announces
      <4>2. k = "withdraw"
        BY <4>1 DEF PP!TaskIds
      <4>3. pTask[n]["request"].withdraw
        BY <2>1, <3>3, <4>2 DEF ProviderTracked, Announces
      <4>4. ~pTask[n]["request"].withdraw
        BY <2>1, <2>3 DEF PP!OffersAreTracked, PP!OfferTracked, PP!Offered, PP!IssuedStates
      <4> QED BY <4>3, <4>4
    <3>4. Abandons(n)
      BY <2>1, <2>3, <3>2, <3>3 DEF ConsumerHeard
    <3> QED BY <2>1, <3>4 DEF ConsumerTracked
  <2> QED BY <2>2, <2>3 DEF Terminal
<1> QED BY <1>1, Invariance, PTL

\* Every agreement in either table was made by both.
THEOREM AgreementsMade == Spec => []AgreementsWereMade
<1>1. Inv => AgreementsWereMade
  <2> SUFFICES ASSUME Inv PROVE AgreementsWereMade
    OBVIOUS
  <2>1. PP!IInv /\ CC!IInv /\ CrossInv
    BY DEF Inv
  <2>2. ASSUME NEW a \in cAgreements
        PROVE  /\ \E k \in P!TaskIds : pTask[a.neg][k].to = "AGREED"
               /\ a.dataset = cRow[a.neg].dataset
    <3>1. a.neg \in Neg
      BY <2>1 DEF CC!IInv, CC!TypeOK, CC!Agreement
    <3>2. PICK k \in PP!TaskIds : Announces(a.neg, k, "AGREED")
      BY <2>1, <3>1 DEF CrossInv, ConsumerHeard
    <3>3. k \in P!TaskIds /\ pTask[a.neg][k].to = "AGREED"
      BY <3>2, ProviderOperations DEF Announces
    <3> QED BY <2>1, <3>1, <3>3 DEF CrossInv, ConsumerHeard
  <2>3. ASSUME NEW a \in pAgreements
        PROVE  /\ a.dataset = cRow[a.id].dataset
               /\ pRow[a.id].matches \/ OnOffer[a.dataset] = "accept"
    <3>1. a.id \in Neg
      BY <2>1 DEF PP!IInv, PP!TypeOK, PP!Agreement
    <3>2. a.dataset = pRow[a.id].dataset /\ pRow[a.id].state # "NONE"
      BY <2>1 DEF PP!IInv, PP!AgreementMatchesNegotiation, PP!IssuedStates
    <3>3. a.dataset = cRow[a.id].dataset
      BY <2>1, <3>1, <3>2 DEF CrossInv, ProviderHeard
    <3>4. pRow[a.id].matches \/ Started(a.id, "accepted")
      BY <2>1, <3>1 DEF CrossInv, ProviderTracked
    <3>5. Started(a.id, "accepted") => OnOffer[cRow[a.id].dataset] = "accept"
      BY <2>1, <3>1 DEF CrossInv, ProviderHeard, ConsumerTracked
    <3> QED BY <3>3, <3>4, <3>5
  <2> QED BY <2>2, <2>3 DEF AgreementsWereMade
<1> QED BY <1>1, Invariance, PTL
=============================================================================
