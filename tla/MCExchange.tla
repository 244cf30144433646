------------------------------ MODULE MCExchange ------------------------------
(* Exchange instantiated for TLC. *)
EXTENDS Exchange, TLC

CONSTANTS n1, t1, imp, hn, ht, alice, mallory, limited

MCNeg == {n1}
MCTransfers == {t1}
MCImports == {imp}
MCNegotiationHandlers == {hn}
MCTransferHandlers == {ht}
MCParticipants == {alice, mallory}
MCNegotiators == {alice}
MCDatasets == {limited}
MCAdvertised == {limited}
MCLimited == {limited}
MCNone == {}
MCNoSequence == <<>>
=============================================================================
