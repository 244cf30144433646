----------------------------- MODULE TransferRules -----------------------------
(***************************************************************************)
(* The transfer process states and the legality tables of                  *)
(* internal/dsp/transfer.go, and which of them each role applies to the    *)
(* messages it receives (applyTransition) and to the ones it sends         *)
(* (transferStepMessage, consumerTransferStepMessage).  Nothing here has   *)
(* state; ProviderTransfer and ConsumerTransfer hold the rows.             *)
(***************************************************************************)

\* The DSP transfer process states, as stored and as reported by GET.
States == {"REQUESTED", "STARTED", "SUSPENDED", "COMPLETED", "TERMINATED"}

\* The states from which no message is legal.
Terminal == {"COMPLETED", "TERMINATED"}

\* The states a configured sequence may name (validTransferState), which are
\* also the ones a message announces.
Targets == States \ {"REQUESTED"}

\* The states that may release a consumer's sequence (validAfterState).
AfterStates == States \ Terminal

-----------------------------------------------------------------------------
(* Legality *)

startLegalFrom == {"REQUESTED", "SUSPENDED"}
completionLegalFrom == {"STARTED"}
suspensionLegalFrom == {"STARTED"}
terminationLegalFrom == {"REQUESTED", "STARTED", "SUSPENDED"}

\* Not the code: one table for both directions, the narrower one forgotten.
providerInboundStartLegalFromAny == startLegalFrom

\* A start received as provider resumes; it never begins a transfer.
providerInboundStartLegalFrom == {"SUSPENDED"}

\* Not the code: this connector's own start held to the inbound table.
transferStepMessageInbound(to) ==
  CASE to = "STARTED"    -> providerInboundStartLegalFrom
    [] to = "SUSPENDED"  -> suspensionLegalFrom
    [] to = "COMPLETED"  -> completionLegalFrom
    [] to = "TERMINATED" -> terminationLegalFrom

\* The states from which a message announcing `to` may be sent as provider,
\* which are those from which a consumer accepts it.
transferStepMessage(to) ==
  CASE to = "STARTED"    -> startLegalFrom
    [] to = "SUSPENDED"  -> suspensionLegalFrom
    [] to = "COMPLETED"  -> completionLegalFrom
    [] to = "TERMINATED" -> terminationLegalFrom

\* The same as consumer, which has no start to send.
consumerTransferStepMessage(to) ==
  IF to = "STARTED" THEN {} ELSE transferStepMessage(to)

\* The states from which either role accepts a message announcing `to`
\* (inboundStartLegalFor).
providerInboundLegalFrom(to) ==
  IF to = "STARTED" THEN providerInboundStartLegalFrom ELSE transferStepMessage(to)

consumerInboundLegalFrom(to) == transferStepMessage(to)
=============================================================================
