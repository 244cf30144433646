------------------------- MODULE MCProviderNegotiation -------------------------
(* ProviderNegotiation instantiated for TLC. *)
EXTENDS ProviderNegotiation, TLC

CONSTANTS n1, h1, h2, alice, mallory, plain, limited, strict, unknown

MCNeg == {n1}
MCHandlers == {h1, h2}
MCParticipants == {alice, mallory}
MCDatasets == {plain, limited, strict, unknown}
MCAdvertised == {plain, limited, strict}
MCLimited == {limited}
MCTerminateOnVerify == {strict}

Symmetry == Permutations(MCHandlers) \cup Permutations(MCParticipants)
=============================================================================
