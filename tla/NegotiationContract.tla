-------------------------- MODULE NegotiationContract --------------------------
(***************************************************************************)
(* What one connector promises about its side of contract negotiations,    *)
(* in either role: each negotiation walks the DSP state machine one legal  *)
(* transition at a time and never leaves a terminal state, and the table   *)
(* of agreements follows the negotiations.                                 *)
(*                                                                         *)
(* The roles differ in the order of the two tables.  The provider records  *)
(* an agreement only while the negotiation shows one was issued (RecordIn),*)
(* the consumer records it before it reports AGREED (RecordedBefore).      *)
(***************************************************************************)
EXTENDS NegotiationRules

CONSTANTS
  Neg,             \* negotiations
  RecordIn,        \* states in which an agreement may be recorded
  RecordedBefore   \* states entered only once an agreement is recorded

VARIABLES
  state,           \* each negotiation's state, "NONE" before it exists
  ledger           \* the negotiations an agreement is recorded for

contractVars == <<state, ledger>>

\* The legal transitions between two DSP states.
Legal ==
  {<<"REQUESTED", "OFFERED">>, <<"REQUESTED", "AGREED">>,
   <<"OFFERED", "ACCEPTED">>, <<"ACCEPTED", "AGREED">>,
   <<"AGREED", "VERIFIED">>, <<"VERIFIED", "FINALIZED">>}
  \cup {<<s, "TERMINATED">> : s \in States \ Terminal}

Init ==
  /\ state = [n \in Neg |-> "NONE"]
  /\ ledger = {}

\* A negotiation comes into being.
Begin(n) ==
  /\ state[n] = "NONE"
  /\ state' = [state EXCEPT ![n] = "REQUESTED"]
  /\ UNCHANGED ledger

\* One legal transition.
Advance(n, s) ==
  /\ <<state[n], s>> \in Legal
  /\ s \in RecordedBefore => n \in ledger
  /\ state' = [state EXCEPT ![n] = s]
  /\ UNCHANGED ledger

\* An agreement is recorded.
Record(n) ==
  /\ state[n] \in RecordIn
  /\ ledger' = ledger \cup {n}
  /\ UNCHANGED state

Next ==
  \E n \in Neg :
    \/ Begin(n)
    \/ \E s \in States : Advance(n, s)
    \/ Record(n)

Spec == Init /\ [][Next]_contractVars
=============================================================================
