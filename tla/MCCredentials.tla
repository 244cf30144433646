---------------------------- MODULE MCCredentials ----------------------------
(* Credentials instantiated for TLC: two connectors, a roster with both and *)
(* its successor without one of them, clocks up to two units apart.         *)
EXTENDS Credentials

CONSTANTS a, b

MCParticipants == {a, b}
MCRosters == {[version |-> 1, expiresAt |-> 5, lists |-> {a, b}],
              [version |-> 2, expiresAt |-> 9, lists |-> {b}]}
MCOffsets == {0, 2}
MCClaims == {[iat |-> 3, exp |-> 4], [iat |-> 15, exp |-> 15], [iat |-> 0, exp |-> -16]}
=============================================================================
