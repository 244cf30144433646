------------------------- MODULE MCConsumerNegotiation -------------------------
(* ConsumerNegotiation instantiated for TLC. *)
EXTENDS ConsumerNegotiation, TLC

CONSTANTS n1, h1, h2, alice, mallory, keen, idle, haggler, a1, a2

MCNeg == {n1}
MCHandlers == {h1, h2}
MCParticipants == {alice, mallory}
MCDatasets == {keen, idle, haggler}
MCAgreementIds == {a1, a2}

\* For the liveness run, which is without symmetry.
MCAgreementIdsLive == {a1}

\* Every policy is some dataset's; an offer is rejected for its terms.
MCOnOffer == keen :> "accept" @@ idle :> "passive" @@ haggler :> "counter"
MCOnAgreement == keen :> "verify" @@ idle :> "reject" @@ haggler :> "verify"
MCOnIdle == keen :> "wait" @@ idle :> "abandon" @@ haggler :> "wait"

Symmetry ==
  Permutations(MCHandlers) \cup Permutations(MCParticipants) \cup Permutations(MCAgreementIds)
=============================================================================
