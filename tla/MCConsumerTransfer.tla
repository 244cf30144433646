-------------------------- MODULE MCConsumerTransfer --------------------------
(* ConsumerTransfer instantiated for TLC. *)
EXTENDS ConsumerTransfer, TLC

CONSTANTS c1, asked, started, silent, h1, h2, k1, k2, bob, mallory

MCTransfers == {c1}
MCAgreements == {asked, started, silent}
MCProviders == {bob, mallory}
MCHandlers == {h1, h2}
MCSlots == {k1, k2}
\* A policy for either trigger.  The one for a start ends in a step that a
\* consumer has no message for.
MCConsumerTransferPolicies ==
  asked   :> [after |-> "REQUESTED", sequence |-> <<"TERMINATED">>] @@
  started :> [after |-> "STARTED",   sequence |-> <<"SUSPENDED", "STARTED">>]

Symmetry == Permutations(MCHandlers) \cup Permutations(MCSlots) \cup Permutations(MCProviders)
=============================================================================
