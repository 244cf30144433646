--------------------------- MODULE NegotiationRules ---------------------------
(***************************************************************************)
(* The decision logic of internal/dsp/negotiation.go, shared by the        *)
(* provider and the consumer role of a contract negotiation: what each     *)
(* role decides on a message, and from which states a message is legal.    *)
(* Nothing here has state; ProviderNegotiation and ConsumerNegotiation      *)
(* hold the rows, the request handlers and the goroutines that consult it. *)
(*                                                                         *)
(* A negotiationOutcome (three booleans in the code) is the set of the     *)
(* messages it asks the provider to push.                                  *)
(***************************************************************************)

\* The DSP contract negotiation states, as stored and as reported by GET.
States == {"REQUESTED", "OFFERED", "ACCEPTED", "AGREED", "VERIFIED",
           "FINALIZED", "TERMINATED"}

\* States in which neither role accepts a termination any more.
Terminal == {"FINALIZED", "TERMINATED"}

\* Not the code: the agreement recorded only while nothing has followed yet.
IssuedStatesAgreedOnly == {"AGREED"}

\* The states that prove an AGREED was committed
\* (the allowedStates argument in dispatch).
IssuedStates == {"AGREED", "VERIFIED", "FINALIZED"}

-----------------------------------------------------------------------------
(* Provider decisions *)

Outcomes == SUBSET {"offer", "agreement", "termination"}

\* What to push for a new request: `matches` is whether the requested offer is
\* the advertised one, `valid` whether the dataset's window is still open.
\* An unadvertised dataset gets no answer at all.
decideInitialRequest(advertised, matches, valid) ==
  {o \in {"offer", "agreement", "termination"} :
     /\ advertised
     /\ o = "offer" => ~matches
     /\ o = "agreement" => matches /\ valid
     /\ o = "termination" => ~valid}

\* Not the code: the window not looked at again.
decideAcceptUnchecked(advertised, valid) ==
  IF advertised THEN {"agreement"} ELSE {"termination"}

\* What to push after an ACCEPTED event: the dataset must still be on offer.
decideAccept(advertised, valid) ==
  IF advertised /\ valid THEN {"agreement"} ELSE {"termination"}

-----------------------------------------------------------------------------
(* Consumer decisions *)

OfferPolicies == {"accept", "passive", "reject", "counter"}
AgreementPolicies == {"verify", "reject"}
IdlePolicies == {"wait", "abandon"}

\* The on_offer policy, except that terms this connector cannot enforce are
\* never accepted.
decideOfferReaction(onOffer, unenforceable) ==
  IF unenforceable /\ onOffer = "accept" THEN "reject" ELSE onOffer

\* Not the code: whatever dataset the agreement is over.
decideAgreementReactionAnyTarget(onAgreement, unenforceable, wrongTarget) ==
  IF unenforceable /\ onAgreement = "verify" THEN "reject" ELSE onAgreement

\* The on_agreement policy, except that unenforceable terms, and an agreement
\* over a dataset that was not asked for, are never verified.
decideAgreementReaction(onAgreement, unenforceable, wrongTarget) ==
  IF (unenforceable \/ wrongTarget) /\ onAgreement = "verify"
    THEN "reject" ELSE onAgreement

offerLegalFrom(s) == s = "REQUESTED"
agreementLegalFrom(s) == s \in {"REQUESTED", "ACCEPTED"}
finalizedEventLegalFrom(s) == s = "VERIFIED"
=============================================================================
