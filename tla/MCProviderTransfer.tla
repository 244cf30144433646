-------------------------- MODULE MCProviderTransfer --------------------------
(* ProviderTransfer instantiated for TLC. *)
EXTENDS ProviderTransfer, TLC

CONSTANTS t1, a1, a2, h1, h2, alice, mallory, plain, limited

MCTransfers == {t1}
MCAgreements == {a1, a2}
MCHandlers == {h1, h2}
MCParticipants == {alice, mallory}
MCDatasets == {plain, limited}
MCConfigured == {limited}
MCSourced == {limited}
MCLimited == {limited}
\* One sequence walks as far as it can and then goes wrong.
MCTransferPolicies == a1 :> <<"STARTED", "SUSPENDED", "STARTED", "STARTED">>
MCTransferSequences == limited :> <<"STARTED", "COMPLETED">>

Symmetry == Permutations(MCHandlers) \cup Permutations(MCParticipants)
=============================================================================
