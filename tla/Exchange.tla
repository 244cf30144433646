-------------------------------- MODULE Exchange --------------------------------
(***************************************************************************)
(* One connector as provider, from the first message of a negotiation to   *)
(* the last byte: ProviderNegotiation and ProviderTransfer over one store  *)
(* and one configuration.                                                  *)
(*                                                                         *)
(* The two meet in the agreements table, which dispatch writes and the     *)
(* transfer gate and the data endpoint read, and in the validity window of *)
(* a dataset, which the decisions and the data endpoint look at.  Nothing  *)
(* else passes between them: a transfer does not look at the negotiation   *)
(* its agreement came from.                                                *)
(*                                                                         *)
(* Failing writes and crashes are left out: for a safety property they are *)
(* goroutines that take no further step, which every behaviour here may    *)
(* end in.                                                                 *)
(***************************************************************************)
EXTENDS NegotiationRules, Sequences

CONSTANTS
  Neg, Transfers,                  \* by provider pid
  Imports,                         \* the ids of imported agreements
  Participants, Datasets,
  Negotiators,                     \* bound: the participants who negotiate
  Advertised, Limited, TerminateOnVerify, Sourced,
  TransferPolicies, TransferSequences,
  NegotiationHandlers, TransferHandlers

\* A provider pid is a fresh UUID.
ASSUME IdAssumption == Imports \cap Neg = {} /\ Negotiators \subseteq Participants

\* What the halves assume of the one configuration.
ASSUME ConfigAssumption ==
  /\ Advertised \subseteq Datasets
  /\ Limited \subseteq Advertised
  /\ TerminateOnVerify \subseteq Advertised
  /\ Sourced \subseteq Advertised
  /\ "" \notin Participants

VARIABLES
  negotiation,   \* table negotiations
  agreements,    \* table agreements, the rows of origin "negotiated"
  imported,      \* table agreements, the rows of origin "imported"
  expired,       \* the datasets whose validity_until has passed
  nHandler, task,                 \* the requests and goroutines of negotiations
  transfer, tHandler, driver,     \* table transfer_processes, and its own
  issued         \* history: the negotiations that showed an agreement

negotiationVars == <<negotiation, agreements, expired, nHandler, task>>
transferVars == <<transfer, tHandler, driver>>
vars == <<negotiationVars, transferVars, imported, issued>>

N == INSTANCE ProviderNegotiation WITH
  Participants <- Negotiators, Handlers <- NegotiationHandlers,
  row <- negotiation, handler <- nHandler

NoAgreement == [origin |-> "none"]

\* The agreement's id is the negotiation's provider pid.
negotiated(n) ==
  LET a == CHOOSE a \in agreements : a.id = n IN
  [origin |-> "negotiated", dataset |-> a.dataset, party |-> a.party]

\* The table as a transfer reads it.
agreement ==
  [a \in Neg \cup Imports |->
     CASE a \in Imports                  -> imported[a]
       [] \E g \in agreements : g.id = a -> negotiated(a)
       [] OTHER                          -> NoAgreement]

T == INSTANCE ProviderTransfer WITH
  Agreements <- Neg \cup Imports, Configured <- Advertised, closed <- expired,
  row <- transfer, handler <- tHandler, Handlers <- TransferHandlers

\* A configured sequence names states a message can announce.
ASSUME SequenceAssumption ==
  /\ TransferPolicies \in [DOMAIN TransferPolicies -> Seq(T!Targets)]
  /\ TransferSequences \in [DOMAIN TransferSequences -> Seq(T!Targets)]

Init ==
  /\ N!Init
  /\ imported = [a \in Imports |-> NoAgreement]
  /\ transfer = [t \in Transfers |-> T!NoRow]
  /\ tHandler = [h \in TransferHandlers |-> T!Idle]
  /\ driver = [t \in Transfers |-> T!NoDriver]
  /\ issued = {}

-----------------------------------------------------------------------------
(* Steps *)

\* A step of the negotiation half, which may add an agreement.
negotiate ==
  /\ N!Work
  /\ issued' = issued \cup {n \in Neg : negotiation'[n].state \in IssuedStates}
  /\ UNCHANGED <<transferVars, imported>>

\* The operator's import.
importAgreement(a, d, p) ==
  /\ imported[a] = NoAgreement
  /\ imported' = [imported EXCEPT ![a] = [origin |-> "imported", dataset |-> d, party |-> p]]
  /\ UNCHANGED <<negotiationVars, transferVars, issued>>

\* A step of the transfer half, which leaves the agreements alone.
transferring(A) == UNCHANGED <<negotiationVars, imported, issued>> /\ A

Next ==
  \/ negotiate
  \/ \E a \in Imports, d \in Datasets, p \in Participants \cup {""} : importAgreement(a, d, p)
  \/ transferring(T!Request)
  \/ \E h \in TransferHandlers : transferring(T!Serve(h))
  \/ \E t \in Transfers : transferring(T!Run(t))

Spec == Init /\ [][Next]_vars

\* As in ProviderTransfer: the scheduler, the timeouts of a push, the idle
\* timeout of a stream.  Nothing promises that a request arrives, or that a
\* negotiation gets anywhere.
FairSpec ==
  /\ Spec
  /\ \A h \in TransferHandlers : WF_vars(transferring(T!Serve(h)))
  /\ \A t \in Transfers : WF_vars(transferring(T!Run(t)))
-----------------------------------------------------------------------------
(* Properties *)

\* Every byte that leaves goes to somebody whose negotiation with this
\* connector showed an agreement as issued, on an offer made in earnest, or
\* for whom, or for everybody, the operator imported one.  (The negotiation
\* may since have been terminated: the gate does not look.)  At stake in the
\* row dispatch inserts seconds after the decision, and a transfer cites for
\* as long as it likes.
BytesWereNegotiated ==
  \A h \in TransferHandlers : tHandler[h].pc = "stream" =>
    LET t == transfer[tHandler[h].transfer]
        a == t.agreement IN
    \/ /\ a \in issued
       /\ negotiation[a].party = t.party
       /\ ~task[a]["request"].withdraw
    \/ a \in Imports /\ agreement[a].party \in {"", t.party}

\* The negotiation half is an environment ProviderTransfer allows for: it adds
\* agreements, never changes one, and touches nothing else of the transfer
\* half.  What is proved of ProviderTransfer holds here.
TransferHalf == T!Spec

\* A transfer that is due to be started is, also when its negotiation is
\* terminated, or the dataset expires, in the meantime.
EveryStartLands == T!EveryStartLands

\* The bytes of a transfer that has ended, or whose dataset has expired, stop
\* for good.
OverMeansQuiet == T!OverMeansQuiet
=============================================================================
