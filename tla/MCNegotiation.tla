----------------------------- MODULE MCNegotiation -----------------------------
(* Negotiation instantiated for TLC. *)
EXTENDS Negotiation, TLC

CONSTANTS n1, p1, c1, me, them, keen, idle, haggler

MCNeg == {n1}
MCProviderHandlers == {p1}
MCConsumerHandlers == {c1}
MCDatasets == {keen, idle, haggler}
MCAdvertised == {keen, idle, haggler}
MCLimited == {keen}
MCTerminateOnVerify == {haggler}
MCOnOffer == keen :> "accept" @@ idle :> "accept" @@ haggler :> "counter"
MCOnAgreement == keen :> "verify" @@ idle :> "verify" @@ haggler :> "verify"
MCOnIdle == keen :> "wait" @@ idle :> "abandon" @@ haggler :> "wait"
=============================================================================
