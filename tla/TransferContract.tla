---------------------------- MODULE TransferContract ----------------------------
(***************************************************************************)
(* What one connector promises about its side of transfer processes, in    *)
(* either role: each transfer walks the DSP state machine one legal        *)
(* transition at a time and never leaves a terminal state, and data is set *)
(* moving only by a transfer that is STARTED at that moment.               *)
(*                                                                         *)
(* Data already moving may outlive the state that allowed it: a suspension *)
(* stops the next request, not the one being served.                       *)
(***************************************************************************)
EXTENDS TransferRules

CONSTANT Transfers

VARIABLES
  state,      \* each transfer's state, "NONE" before it exists
  carrying    \* the transfers with data in flight

contractVars == <<state, carrying>>

\* The legal transitions between two DSP states.
Legal ==
  ({"REQUESTED", "SUSPENDED"} \X {"STARTED", "TERMINATED"})
  \cup ({"STARTED"} \X {"SUSPENDED", "COMPLETED", "TERMINATED"})

Init ==
  /\ state = [t \in Transfers |-> "NONE"]
  /\ carrying = {}

\* A transfer comes into being.
Open(t) ==
  /\ state[t] = "NONE"
  /\ state' = [state EXCEPT ![t] = "REQUESTED"]
  /\ UNCHANGED carrying

\* One legal transition; a start may set data moving at once.
Move(t, s) ==
  /\ <<state[t], s>> \in Legal
  /\ state' = [state EXCEPT ![t] = s]
  /\ \/ UNCHANGED carrying
     \/ s = "STARTED" /\ carrying' = carrying \cup {t}

\* Data starts to move.
Carry(t) ==
  /\ state[t] = "STARTED"
  /\ carrying' = carrying \cup {t}
  /\ UNCHANGED state

\* Data stops moving: one transfer's, or at a stop of the process everyone's.
Drop ==
  /\ carrying' \in SUBSET carrying
  /\ UNCHANGED state

Next ==
  \/ \E t \in Transfers :
       \/ Open(t)
       \/ \E s \in States : Move(t, s)
       \/ Carry(t)
  \/ Drop

Spec == Init /\ [][Next]_contractVars
=============================================================================
