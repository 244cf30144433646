----------------------------- MODULE ExchangeProofs -----------------------------
(***************************************************************************)
(* Proofs about Exchange: what a connector has negotiated is what it       *)
(* serves, for any number of negotiations, transfers and requests, and any *)
(* configuration.                                                          *)
(*                                                                         *)
(* The negotiation half takes steps of ProviderNegotiation, and the        *)
(* transfer half, with the agreements it reads, steps of ProviderTransfer; *)
(* so the invariants proved of either hold here, and together they say     *)
(* whom the bytes go to.                                                   *)
(***************************************************************************)
EXTENDS Exchange, TLAPS

\* The proofs about either half, over its variables here.
NN == INSTANCE ProviderNegotiationProofs WITH
  Participants <- Negotiators, Handlers <- NegotiationHandlers,
  row <- negotiation, handler <- nHandler

TT == INSTANCE ProviderTransferProofs WITH
  Agreements <- Neg \cup Imports, Configured <- Advertised, closed <- expired,
  row <- transfer, handler <- tHandler, Handlers <- TransferHandlers

-----------------------------------------------------------------------------
(* The halves composed here are the ones the proofs are about *)

\* The negotiation half.
LEMMA NegotiationOperations ==
  /\ N!Init => NN!Init
  /\ N!Work => NN!Work
BY Zenon
DEF N!States, NN!States, N!Terminal, NN!Terminal, N!IssuedStates, NN!IssuedStates,
    N!decideInitialRequest, NN!decideInitialRequest, N!decideAccept, NN!decideAccept, N!Init,
    NN!Init, N!NoRow, NN!NoRow, N!Idle, NN!Idle, N!TaskIds, NN!TaskIds, N!NoTask, NN!NoTask,
    N!Exists, NN!Exists, N!isValid, NN!isValid, N!Holds, NN!Holds, N!SetState, NN!SetState,
    N!pushing, NN!pushing, N!dispatch, NN!dispatch, N!Reply, NN!Reply, N!lookup, NN!lookup,
    N!AtWrite, NN!AtWrite, N!afterStore, NN!afterStore, N!handleContractRequest,
    NN!handleContractRequest, N!handleReRequest, NN!handleReRequest,
    N!handleProviderAcceptedEvent, NN!handleProviderAcceptedEvent, N!handleVerification,
    NN!handleVerification, N!handleProviderTermination, NN!handleProviderTermination, N!Serve,
    NN!Serve, N!storeReRequest, NN!storeReRequest, N!storeAccepted, NN!storeAccepted,
    N!storeVerified, NN!storeVerified, N!storeTermination, NN!storeTermination, N!return,
    NN!return, N!Run, NN!Run, N!endPush, NN!endPush, N!pushAndStore, NN!pushAndStore,
    N!delayedTerminate, NN!delayedTerminate, N!CreateAgreementIfNegotiationAgreed,
    NN!CreateAgreementIfNegotiationAgreed, N!expire, NN!expire, N!Request, NN!Request, N!Work,
    NN!Work

\* The transfer half.
LEMMA TransferOperations ==
  /\ T!Init => TT!Init
  /\ T!Agree \/ T!TransferWork => TT!Agree \/ TT!TransferWork
  /\ T!vars = TT!vars
BY Zenon
DEF T!States, TT!States, T!Terminal, TT!Terminal, T!Targets, TT!Targets, T!startLegalFrom,
    TT!startLegalFrom, T!completionLegalFrom, TT!completionLegalFrom, T!suspensionLegalFrom,
    TT!suspensionLegalFrom, T!terminationLegalFrom, TT!terminationLegalFrom,
    T!providerInboundStartLegalFrom, TT!providerInboundStartLegalFrom, T!transferStepMessage,
    TT!transferStepMessage, T!providerInboundLegalFrom, TT!providerInboundLegalFrom, T!Init,
    TT!Init, T!vars, TT!vars, T!Origins, TT!Origins, T!NoAgreement, TT!NoAgreement, T!NoRow,
    TT!NoRow, T!NoDriver, TT!NoDriver, T!Idle, TT!Idle, T!Exists, TT!Exists,
    T!CreateAgreement, TT!CreateAgreement, T!Holds, TT!Holds, T!SetTransferState,
    TT!SetTransferState, T!servableAsProvider, TT!servableAsProvider,
    T!resolveTransferSequence, TT!resolveTransferSequence, T!datasetFor, TT!datasetFor,
    T!onward, TT!onward, T!importAgreement, TT!importAgreement, T!concludeAgreement,
    TT!concludeAgreement, T!handleTransferRequest, TT!handleTransferRequest, T!lookup,
    TT!lookup, T!setTransferState, TT!setTransferState, T!handleData, TT!handleData,
    T!openSource, TT!openSource, T!copyUnderRollingDeadline, TT!copyUnderRollingDeadline,
    T!driveTransfer, TT!driveTransfer, T!wake, TT!wake, T!endPush, TT!endPush,
    T!pushTransferStep, TT!pushTransferStep, T!close, TT!close,
    T!Agree, TT!Agree, T!Request, TT!Request, T!Serve, TT!Serve, T!Run, TT!Run,
    T!TransferWork, TT!TransferWork
-----------------------------------------------------------------------------
(* The negotiation half *)

\* Whatever the connector does, its negotiations take a step of their own
\* module or none.
LEMMA NegotiationHalf ==
  ASSUME [Next]_vars
  PROVE  [NN!Next]_(NN!vars)
<1>1. N!Work => NN!Next
  BY NegotiationOperations DEF NN!Next
<1>2. UNCHANGED negotiationVars => UNCHANGED NN!vars
  BY DEF negotiationVars, NN!vars
<1> QED BY <1>1, <1>2 DEF Next, vars, negotiate, importAgreement, transferring

\* The ids of agreements, and what was seen of their negotiations.
Issued == \A g \in agreements : g.id \in issued

ImportType ==
  imported \in [Imports -> {NoAgreement} \cup
                  [origin : {"imported"}, dataset : Datasets, party : Participants \cup {""}]]

NInv == NN!IInv /\ Issued /\ ImportType

\* What the transfer half is given.
LEMMA GivenAgreements == Spec => []NInv
<1> USE ConfigAssumption
<1>1. Init => NInv
  <2> SUFFICES ASSUME Init PROVE NInv
    OBVIOUS
  <2>1. NN!Init
    BY NegotiationOperations DEF Init
  <2>2. NN!IInv
    BY <2>1, NN!Initially DEF NN!Initially
  <2> QED BY <2>1, <2>2 DEF NInv, Issued, ImportType, Init, NN!Init
<1>2. NInv /\ [Next]_vars => NInv'
  <2> SUFFICES ASSUME NInv, [Next]_vars PROVE NInv'
    OBVIOUS
  <2>1. [NN!Next]_(NN!vars)
    BY NegotiationHalf
  <2>2. NN!IInv'
    BY <2>1, NN!Inductive DEF NN!Inductive, NInv
  <2>3. Issued'
    <3>1. CASE negotiate
      <4>1. \/ agreements' = agreements
            \/ \E n \in Neg :
                 /\ negotiation' = negotiation /\ negotiation[n].state \in NN!IssuedStates
                 /\ agreements' = agreements \cup
                      {[id |-> n, dataset |-> negotiation[n].dataset, party |-> negotiation[n].party]}
        BY <2>1, NN!AgreementsGain DEF NN!AgreementsGain
      <4>2. /\ issued \subseteq issued'
            /\ \A n \in Neg : negotiation'[n].state \in IssuedStates => n \in issued'
        BY <3>1 DEF negotiate
      <4>3. ASSUME NEW g \in agreements' PROVE g.id \in issued'
        <5>1. CASE g \in agreements
          BY <4>2, <5>1 DEF NInv, Issued
        <5>2. CASE g \notin agreements
          <6>1. agreements' # agreements
            BY <4>3, <5>2
          <6>2. PICK n \in Neg :
                  /\ negotiation' = negotiation /\ negotiation[n].state \in NN!IssuedStates
                  /\ agreements' = agreements \cup
                       {[id |-> n, dataset |-> negotiation[n].dataset, party |-> negotiation[n].party]}
            BY <4>1, <6>1 DEF NN!IssuedStates
          <6>3. g = [id |-> n, dataset |-> negotiation[n].dataset, party |-> negotiation[n].party]
            BY <4>3, <5>2, <6>2
          <6>4. g.id = n
            BY <6>3
          <6>5. negotiation'[n].state \in IssuedStates
            BY <6>2 DEF NN!IssuedStates, IssuedStates
          <6> QED BY <4>2, <6>4, <6>5
        <5> QED BY <5>1, <5>2
      <4> QED BY <4>3 DEF Issued
    <3>2. CASE ~negotiate
      BY <3>2 DEF NInv, Issued, Next, vars, negotiationVars, importAgreement, transferring
    <3> QED BY <3>1, <3>2
  <2>4. ImportType'
    <3>1. ASSUME NEW a \in Imports, NEW d \in Datasets, NEW p \in Participants \cup {""},
                 importAgreement(a, d, p)
          PROVE  ImportType'
      <4>1. [origin |-> "imported", dataset |-> d, party |-> p]
              \in [origin : {"imported"}, dataset : Datasets, party : Participants \cup {""}]
        OBVIOUS
      <4> QED BY <3>1, <4>1 DEF NInv, ImportType, importAgreement
    <3>2. CASE imported' = imported
      BY <3>2 DEF NInv, ImportType
    <3> QED BY <3>1, <3>2 DEF Next, vars, negotiate, transferring
  <2> QED BY <2>2, <2>3, <2>4 DEF NInv
<1> QED BY <1>1, <1>2, PTL DEF Spec

\* A negotiation of this connector is one of ProviderNegotiation.
LEMMA Negotiations == Spec => NN!Spec
<1>1. Init => NN!Init
  BY NegotiationOperations DEF Init
<1>2. [Next]_vars => [NN!Next]_(NN!vars)
  BY NegotiationHalf
<1> QED BY <1>1, <1>2, PTL DEF Spec, NN!Spec

-----------------------------------------------------------------------------
(* The transfer half *)

\* A row of the table of agreements, and what a transfer reads of it.
NegotiatedRow(n, d, p) == [id |-> n, dataset |-> d, party |-> p]
Negotiated(d, p) == [origin |-> "negotiated", dataset |-> d, party |-> p]

\* The table a transfer reads, with the negotiated rows A and the imported rows I.
Table(A, I) ==
  [a \in Neg \cup Imports |->
     CASE a \in Imports           -> I[a]
       [] \E g \in A : g.id = a   ->
            LET g == CHOOSE g \in A : g.id = a IN
            Negotiated(g.dataset, g.party)
       [] OTHER                   -> NoAgreement]

\* Negotiated rows have the ids of negotiations, no two the same.
Keyed(A) ==
  /\ \A g \in A : g.id \in Neg
  /\ \A g, k \in A : g.id = k.id => g = k

Fresh(n, A) == \A g \in A : g.id # n

\* Imported rows are kept by their ids.
KeyedImports(I) == I = [a \in Imports |-> I[a]]

\* An id names one row.
LEMMA OneRow ==
  ASSUME NEW A, NEW g \in A, Keyed(A)
  PROVE  (CHOOSE k \in A : k.id = g.id) = g
BY DEF Keyed

\* What is read of the table, id by id.
LEMMA Reads ==
  ASSUME NEW A, NEW I, NEW a \in Neg \cup Imports, Keyed(A)
  PROVE  /\ a \in Imports => Table(A, I)[a] = I[a]
         /\ a \notin Imports /\ Fresh(a, A) => Table(A, I)[a] = NoAgreement
         /\ \A g \in A : g.id = a =>
              Table(A, I)[a] = Negotiated(g.dataset, g.party)
<1>1. ASSUME NEW g \in A, g.id = a
      PROVE  Table(A, I)[a] =
               Negotiated(g.dataset, g.party)
  <2>1. a \notin Imports
    BY <1>1, IdAssumption DEF Keyed
  <2>2. (CHOOSE k \in A : k.id = a) = g
    BY <1>1, OneRow
  <2> QED BY <1>1, <2>1, <2>2 DEF Table
<1>2. a \in Imports => \A g \in A : g.id # a
  BY IdAssumption DEF Keyed
<1> QED BY <1>1, <1>2 DEF Table, Fresh

\* A negotiated row more is an agreement more.
LEMMA RowNegotiated ==
  ASSUME NEW A, NEW I, NEW n \in Neg, NEW d, NEW p, Keyed(A), Fresh(n, A)
  PROVE  Table(A \cup {NegotiatedRow(n, d, p)}, I) =
           [Table(A, I) EXCEPT ![n] = Negotiated(d, p)]
<1> DEFINE row == NegotiatedRow(n, d, p)
           B == A \cup {row}
           new == Negotiated(d, p)
<1>1. row.id = n /\ row.dataset = d /\ row.party = p
  BY DEF NegotiatedRow
<1>2. Keyed(B)
  BY <1>1 DEF Keyed, Fresh
<1>3. Table(B, I)[n] = new
  <2>1. row \in B
    OBVIOUS
  <2> HIDE DEF row, B
  <2> QED BY <1>1, <1>2, <2>1, Reads
<1>4. ASSUME NEW a \in Neg \cup Imports, a # n
      PROVE  Table(B, I)[a] = Table(A, I)[a]
  <2>1. CASE a \in Imports
    BY <1>2, <2>1, Reads
  <2>2. CASE a \notin Imports /\ Fresh(a, A)
    <3>1. Fresh(a, B)
      BY <1>1, <1>4, <2>2 DEF Fresh
    <3> QED BY <1>2, <2>2, <3>1, Reads
  <2>3. ASSUME NEW g \in A, g.id = a
        PROVE  Table(B, I)[a] = Table(A, I)[a]
    <3>1. g \in B
      OBVIOUS
    <3>2. Table(B, I)[a] = Negotiated(g.dataset, g.party)
      <4> HIDE DEF B
      <4> QED BY <1>2, <2>3, <3>1, Reads
    <3> QED BY <2>3, <3>2, Reads
  <2> QED BY <2>1, <2>2, <2>3 DEF Fresh
<1>5. /\ Table(A, I) = [a \in Neg \cup Imports |-> Table(A, I)[a]]
      /\ Table(B, I) = [a \in Neg \cup Imports |-> Table(B, I)[a]]
  BY DEF Table
<1>6. Table(B, I) = [Table(A, I) EXCEPT ![n] = new]
  <2> HIDE DEF B, new
  <2> QED BY <1>3, <1>4, <1>5
<1> QED BY <1>6

\* Table S is table R with entry a set to r.
Updated(S, R, a, r) == S = [R EXCEPT ![a] = r]

\* So is an imported one.
LEMMA RowImported ==
  ASSUME NEW A, NEW I, NEW a \in Imports, NEW r, Keyed(A), KeyedImports(I),
         NEW J, Updated(J, I, a, r)
  PROVE  Updated(Table(A, J), Table(A, I), a, r)
<1>1. J[a] = r /\ \A b \in Imports \ {a} : J[b] = I[b]
  BY DEF KeyedImports, Updated
<1>2. Table(A, J)[a] = r
  BY <1>1, Reads
<1>3. ASSUME NEW b \in Neg \cup Imports, b # a
      PROVE  Table(A, J)[b] = Table(A, I)[b]
  <2>1. CASE b \in Imports
    BY <1>1, <1>3, <2>1, Reads
  <2>2. CASE b \notin Imports /\ Fresh(b, A)
    BY <2>2, Reads
  <2>3. ASSUME NEW g \in A, g.id = b
        PROVE  Table(A, J)[b] = Table(A, I)[b]
    <3>1. Table(A, J)[b] = Negotiated(g.dataset, g.party)
      BY <2>3, Reads
    <3>2. Table(A, I)[b] = Negotiated(g.dataset, g.party)
      BY <2>3, Reads
    <3> QED BY <3>1, <3>2
  <2> QED BY <2>1, <2>2, <2>3 DEF Fresh
<1>4. /\ Table(A, I) = [b \in Neg \cup Imports |-> Table(A, I)[b]]
      /\ Table(A, J) = [b \in Neg \cup Imports |-> Table(A, J)[b]]
  BY DEF Table
<1> QED BY <1>2, <1>3, <1>4 DEF Updated

-----------------------------------------------------------------------------
(* What a step shows the transfers *)

\* What a step of the negotiations does to the rows and the windows a transfer
\* looks at: nothing, an agreement more, or a window that closes.
LEMMA GivenByWork ==
  ASSUME N!Work
  PROVE  \/ agreements' = agreements /\ expired' = expired
         \/ /\ expired' = expired
            /\ \E n \in Neg :
                 /\ Fresh(n, agreements)
                 /\ agreements' = agreements \cup
                      {NegotiatedRow(n, negotiation[n].dataset, negotiation[n].party)}
                 /\ negotiation[n].state \in IssuedStates
         \/ /\ agreements' = agreements
            /\ \E d \in Limited : d \notin expired /\ expired' = expired \cup {d}
<1>1. ASSUME N!Request
      PROVE  agreements' = agreements /\ expired' = expired
  <2>1. PICK h \in NegotiationHandlers, n \in Neg, who \in Negotiators :
          \/ \E d \in Datasets, matches \in BOOLEAN :
               N!handleContractRequest(h, n, d, matches, who)
          \/ \E same \in BOOLEAN : N!handleReRequest(h, n, who, same)
          \/ N!handleProviderAcceptedEvent(h, n, who)
          \/ N!handleVerification(h, n, who)
          \/ N!handleProviderTermination(h, n, who)
    BY <1>1 DEF N!Request
  <2>2. ASSUME NEW op, NEW legal, NEW same, N!lookup(h, n, who, op, legal, same)
        PROVE  agreements' = agreements /\ expired' = expired
    BY <2>2 DEF N!lookup
  <2> QED
    BY Zenon, <2>1, <2>2 DEF N!handleContractRequest, N!handleReRequest,
       N!handleProviderAcceptedEvent, N!handleVerification, N!handleProviderTermination
<1>2. ASSUME NEW h \in NegotiationHandlers, N!Serve(h)
      PROVE  agreements' = agreements /\ expired' = expired
  BY <1>2 DEF N!Serve, N!storeReRequest, N!storeAccepted, N!storeVerified,
     N!storeTermination, N!return
<1>3. ASSUME NEW n \in Neg, NEW k \in N!TaskIds, N!Run(n, k),
             ~N!CreateAgreementIfNegotiationAgreed(n, k)
      PROVE  agreements' = agreements /\ expired' = expired
  BY <1>3 DEF N!Run, N!endPush, N!pushAndStore, N!delayedTerminate
<1>4. ASSUME NEW n \in Neg, NEW k \in N!TaskIds, N!CreateAgreementIfNegotiationAgreed(n, k)
      PROVE  \/ agreements' = agreements /\ expired' = expired
             \/ /\ expired' = expired
                /\ Fresh(n, agreements)
                /\ agreements' = agreements \cup
                     {NegotiatedRow(n, negotiation[n].dataset, negotiation[n].party)}
                /\ negotiation[n].state \in IssuedStates
  BY <1>4 DEF N!CreateAgreementIfNegotiationAgreed, N!IssuedStates, IssuedStates,
     Fresh, NegotiatedRow
<1>5. ASSUME NEW d \in Limited, N!expire(d)
      PROVE  agreements' = agreements /\ d \notin expired /\ expired' = expired \cup {d}
  BY <1>5 DEF N!expire
<1> QED BY <1>1, <1>2, <1>3, <1>4, <1>5 DEF N!Work

\* A row of a negotiation that showed an agreement is complete.
LEMMA IssuedRow ==
  ASSUME NInv, NEW n \in Neg, negotiation[n].state \in IssuedStates
  PROVE  negotiation[n].dataset \in Datasets /\ negotiation[n].party \in Negotiators
<1>1. negotiation[n] # NN!NoRow
  BY DEF NN!NoRow, IssuedStates
<1>2. negotiation[n] \in NN!Row
  BY <1>1 DEF NInv, NN!IInv, NN!TypeOK
<1> QED BY <1>2 DEF NN!Row

\* The negotiated rows are keyed by their negotiations.
LEMMA KeyedRows == NInv => Keyed(agreements)
BY DEF NInv, NN!IInv, NN!TypeOK, NN!Agreement, NN!AgreementMatchesNegotiation, Keyed

\* The table is what a transfer reads, before a step and after it.
LEMMA TableRead ==
  agreement = Table(agreements, imported) /\ agreement' = Table(agreements', imported')
BY DEF agreement, negotiated, Table, Negotiated

\* A row that is new to one of the two origins is new to the table.
LEMMA AgreementMore ==
  ASSUME NInv
  PROVE  /\ \A n \in Neg : \A d, p :
              /\ Fresh(n, agreements) /\ imported' = imported
              /\ agreements' = agreements \cup {NegotiatedRow(n, d, p)}
              => /\ agreement[n] = NoAgreement
                 /\ agreement' = [agreement EXCEPT ![n] = Negotiated(d, p)]
         /\ \A a \in Imports : \A r :
              /\ imported[a] = NoAgreement /\ agreements' = agreements
              /\ imported' = [imported EXCEPT ![a] = r]
              => /\ agreement[a] = NoAgreement
                 /\ agreement' = [agreement EXCEPT ![a] = r]
<1>1. Keyed(agreements)
  BY KeyedRows
<1>2. KeyedImports(imported)
  BY DEF NInv, ImportType, KeyedImports
<1>3. ASSUME NEW n \in Neg, NEW d, NEW p, Fresh(n, agreements), imported' = imported,
             agreements' = agreements \cup {NegotiatedRow(n, d, p)}
      PROVE  /\ agreement[n] = NoAgreement
             /\ agreement' = [agreement EXCEPT ![n] = Negotiated(d, p)]
  <2>1. Table(agreements, imported)[n] = NoAgreement
    BY <1>1, <1>3, Reads, IdAssumption
  <2>2. Table(agreements \cup {NegotiatedRow(n, d, p)}, imported) =
          [Table(agreements, imported) EXCEPT ![n] = Negotiated(d, p)]
    BY <1>1, <1>3, RowNegotiated
  <2> QED BY <1>3, <2>1, <2>2, TableRead
<1>4. ASSUME NEW a \in Imports, NEW r, imported[a] = NoAgreement, agreements' = agreements,
             imported' = [imported EXCEPT ![a] = r]
      PROVE  agreement[a] = NoAgreement /\ agreement' = [agreement EXCEPT ![a] = r]
  <2>1. Table(agreements, imported)[a] = imported[a]
    BY <1>1, Reads
  <2>2. Updated(imported', imported, a, r)
    BY <1>4 DEF Updated
  <2>3. Updated(Table(agreements, imported'), Table(agreements, imported), a, r)
    BY <1>1, <1>2, <2>2, RowImported
  <2> QED BY <1>4, <2>1, <2>3, TableRead DEF Updated
<1> QED BY <1>3, <1>4

\* What a transfer sees of a step of the negotiations is an agreement
\* concluded, a window that closes, or nothing.
LEMMA NegotiationsSeen ==
  ASSUME NInv, negotiate
  PROVE  [T!Agree \/ T!TransferWork]_(T!vars)
<1>1. UNCHANGED <<transfer, driver, tHandler, imported>> /\ N!Work
  BY DEF negotiate, transferVars
<1>2. CASE agreements' = agreements /\ expired' = expired
  BY <1>1, <1>2, TableRead DEF T!vars
<1>3. ASSUME NEW n \in Neg, expired' = expired, Fresh(n, agreements),
             agreements' = agreements \cup
               {NegotiatedRow(n, negotiation[n].dataset, negotiation[n].party)},
             negotiation[n].state \in IssuedStates
      PROVE  T!Agree \/ T!TransferWork
  <2>1. PICK d \in Datasets, p \in Participants :
          d = negotiation[n].dataset /\ p = negotiation[n].party
    BY <1>3, IssuedRow, IdAssumption
  <2>2. agreement[n] = NoAgreement /\ agreement' = [agreement EXCEPT ![n] = Negotiated(d, p)]
    BY <1>1, <1>3, <2>1, AgreementMore
  <2>3. T!concludeAgreement(n, "negotiated", d, p)
    BY <1>1, <1>3, <2>2
    DEF T!concludeAgreement, T!CreateAgreement, T!NoAgreement, NoAgreement, Negotiated
  <2>4. T!Agree
    BY Zenon, <2>3 DEF T!Agree, T!Origins
  <2> QED BY <2>4
<1>4. ASSUME NEW d \in Limited, agreements' = agreements, d \notin expired,
             expired' = expired \cup {d}
      PROVE  T!Agree \/ T!TransferWork
  <2>1. T!close(d)
    BY <1>1, <1>4, TableRead DEF T!close
  <2> QED BY Zenon, <2>1 DEF T!TransferWork
<1> QED BY <1>1, <1>2, <1>3, <1>4, GivenByWork

\* The operator's import is the one of ProviderTransfer.
LEMMA ImportSeen ==
  ASSUME NInv, NEW a \in Imports, NEW d \in Datasets, NEW p \in Participants \cup {""},
         importAgreement(a, d, p)
  PROVE  T!Agree \/ T!TransferWork
<1>1. PICK r : r = [origin |-> "imported", dataset |-> d, party |-> p]
  OBVIOUS
<1>2. /\ imported[a] = NoAgreement
      /\ imported' = [imported EXCEPT ![a] = r]
      /\ UNCHANGED <<agreements, expired, transfer, driver, tHandler>>
  BY <1>1 DEF importAgreement, negotiationVars, transferVars
<1>3. agreement[a] = NoAgreement /\ agreement' = [agreement EXCEPT ![a] = r]
  BY <1>2, AgreementMore
<1>4. T!importAgreement(a, d, p)
  BY <1>1, <1>2, <1>3 DEF T!importAgreement, T!CreateAgreement, T!NoAgreement, NoAgreement
<1>5. T!Agree
  BY Zenon, <1>4 DEF T!Agree
<1> QED BY <1>5

\* Whatever the connector does, its transfers take a step of their own module,
\* and none that is a failure, or none at all.
LEMMA TransferStep ==
  ASSUME NInv, [Next]_vars
  PROVE  [T!Agree \/ T!TransferWork]_(T!vars)
<1>1. CASE negotiate
  BY <1>1, NegotiationsSeen
<1>2. ASSUME NEW a \in Imports, NEW d \in Datasets, NEW p \in Participants \cup {""},
             importAgreement(a, d, p)
      PROVE  T!Agree \/ T!TransferWork
  BY <1>2, ImportSeen
<1>3. CASE transferring(T!Request)
  BY Zenon, <1>3 DEF transferring, T!TransferWork
<1>4. ASSUME NEW h \in TransferHandlers, transferring(T!Serve(h))
      PROVE  T!Agree \/ T!TransferWork
  BY Zenon, <1>4 DEF transferring, T!TransferWork
<1>5. ASSUME NEW t \in Transfers, transferring(T!Run(t))
      PROVE  T!Agree \/ T!TransferWork
  BY Zenon, <1>5 DEF transferring, T!TransferWork
<1>6. CASE UNCHANGED vars
  BY <1>6 DEF vars, negotiationVars, transferVars, T!vars, agreement, negotiated
<1> QED BY Zenon, <1>1, <1>2, <1>3, <1>4, <1>5, <1>6 DEF Next

\* The first states of the connector are first states of its transfers.
LEMMA InitSeen == Init => T!Init
<1> SUFFICES ASSUME Init PROVE T!Init
  OBVIOUS
<1>1. agreements = {} /\ expired = {}
  BY DEF Init, N!Init
<1>2. imported = [a \in Imports |-> NoAgreement]
  BY DEF Init
<1>3. agreement = [a \in Neg \cup Imports |-> T!NoAgreement]
  <2>1. ASSUME NEW a \in Neg \cup Imports
        PROVE  agreement[a] = NoAgreement
    <3>1. CASE a \in Imports
      BY <1>1, <1>2, <3>1 DEF agreement
    <3>2. CASE a \notin Imports
      BY <1>1, <3>2 DEF agreement
    <3> QED BY <3>1, <3>2
  <2>2. agreement = [a \in Neg \cup Imports |-> agreement[a]]
    BY DEF agreement
  <2> QED BY <2>1, <2>2 DEF NoAgreement, T!NoAgreement
<1> QED BY <1>1, <1>3 DEF Init, T!Init

\* The negotiations of a connector, and its operator, are an environment that
\* ProviderTransfer allows for: a transfer's agreements are added to, one id at
\* a time, and never changed.
THEOREM TransfersAreTransfers == Spec => TransferHalf
<1>1. NInv /\ [Next]_vars => [T!Next]_(T!vars)
  BY TransferStep DEF T!Next
<1> QED BY <1>1, InitSeen, GivenAgreements, PTL DEF Spec, TransferHalf, T!Spec

-----------------------------------------------------------------------------
(* What is proved of a transfer of ProviderTransfer holds here *)

\* The transfers are those of a provider that does not fail.
LEMMA GivenSteps == Spec => TT!NoFaultSpec
<1>1. Init => TT!Init
  BY InitSeen, TransferOperations
<1>2. NInv /\ [Next]_vars => [TT!Agree \/ TT!TransferWork]_(TT!vars)
  <2>1. UNCHANGED T!vars => UNCHANGED TT!vars
    BY DEF T!vars, TT!vars
  <2> QED BY <2>1, TransferStep, TransferOperations
<1> QED BY <1>1, <1>2, GivenAgreements, PTL DEF Spec, TT!NoFaultSpec

\* The configured sequences are as ProviderTransfer has them.
LEMMA GivenConfiguration == TT!ConfigAssumption
<1>1. T!Targets = TT!Targets
  BY DEF T!Targets, TT!Targets, T!States, TT!States
<1> QED BY <1>1, ConfigAssumption, SequenceAssumption DEF TT!ConfigAssumption

\* Their steps are steps of the provider.
LEMMA GivenSpec == Spec => TT!Spec
<1>1. [TT!Agree \/ TT!TransferWork]_(TT!vars) => [TT!Next]_(TT!vars)
  BY DEF TT!Next
<1> QED BY <1>1, GivenSteps, PTL DEF TT!NoFaultSpec, TT!Spec

\* The inductive invariant of a provider's transfers.
LEMMA GivenTransfers == Spec => []TT!IInv
<1>1. TT!Spec => []TT!IInv
  BY GivenConfiguration, TT!Invariance DEF TT!Invariance, TT!ConfigAssumption
<1> QED BY <1>1, GivenSpec, PTL

\* Also when its negotiation is terminated, or its dataset expires, a transfer
\* that is due to be started has the driver that will start it: the safety that
\* EveryStartLands rests on.
THEOREM StartsStayInFlight == Spec => []TT!StartsPending
<1>1. TT!NoFaultSpec => []TT!StartsPending
  BY GivenConfiguration, TT!StartsAreInFlight DEF TT!StartsAreInFlight, TT!ConfigAssumption
<1> QED BY <1>1, GivenSteps, PTL

\* The requests that may hand out the bytes of a transfer that is over only
\* grow fewer: the safety that OverMeansQuiet rests on.
THEOREM StreamsDrain == Spec => [][\A t \in Transfers : TT!Drains(t)]_(TT!vars)
<1>1. TT!Spec => [][\A t \in Transfers : TT!Drains(t)]_(TT!vars)
  BY GivenConfiguration, TT!OverDrains DEF TT!OverDrains, TT!ConfigAssumption
<1> QED BY <1>1, GivenSpec, PTL

-----------------------------------------------------------------------------
(* Whom the bytes go to *)

\* The bytes of a request being streamed go to a party its agreement is with:
\* one that was negotiated here, and whose row was recorded only after its
\* negotiation had shown it, or one that was imported.
THEOREM BytesNegotiated == Spec => []BytesWereNegotiated
<1>1. NInv /\ TT!IInv => BytesWereNegotiated
  <2> SUFFICES ASSUME NInv, TT!IInv, NEW h \in TransferHandlers, tHandler[h].pc = "stream"
               PROVE  LET t == transfer[tHandler[h].transfer]
                          a == t.agreement IN
                      \/ /\ a \in issued
                         /\ negotiation[a].party = t.party
                         /\ ~task[a]["request"].withdraw
                      \/ a \in Imports /\ agreement[a].party \in {"", t.party}
    BY DEF BytesWereNegotiated
  <2>1. PICK i : i = tHandler[h].transfer
    OBVIOUS
  <2>2. i \in Transfers /\ TT!Exists(i)
    <3>1. tHandler[h] # TT!Idle
      BY DEF TT!Idle
    <3>2. tHandler[h] \in TT!Writing \cup TT!Serving
      BY <3>1 DEF TT!IInv, TT!TypeOK
    <3>3. i \in Transfers
      BY <2>1, <3>2 DEF TT!Writing, TT!Serving
    <3>4. TT!HandlerLegal(h)
      BY DEF TT!IInv
    <3> QED BY <2>1, <3>3, <3>4 DEF TT!HandlerLegal
  <2>3. /\ transfer[i].agreement \in Neg \cup Imports
        /\ transfer[i].party \in Participants
    <3>1. transfer[i] \in TT!Row
      BY <2>2 DEF TT!IInv, TT!TypeOK, TT!Exists
    <3> QED BY <3>1 DEF TT!Row
  <2>4. PICK a \in Neg \cup Imports, p \in Participants :
          a = transfer[i].agreement /\ p = transfer[i].party
    BY <2>3
  <2>5. agreement[a].origin \in {"negotiated", "imported"} /\ agreement[a].party \in {"", p}
    BY <2>2, <2>4 DEF TT!IInv, TT!GateHolds
  <2>6. CASE a \in Imports
    BY <2>1, <2>4, <2>5, <2>6
  <2>7. CASE a \notin Imports
    <3>1. ~Fresh(a, agreements)
      <4>1. agreement[a] # NoAgreement
        <5>1. NoAgreement.origin = "none"
          BY DEF NoAgreement
        <5> QED BY <2>5, <5>1
      <4> QED BY <2>4, <2>7, <4>1, KeyedRows, Reads, TableRead
    <3>2. PICK g \in agreements : g.id = a
      BY <3>1 DEF Fresh
    <3>3. agreement[a] = Negotiated(g.dataset, g.party)
      BY <2>4, <3>2, KeyedRows, Reads, TableRead
    <3>4. a \in Neg /\ g.party \in Negotiators
      BY <2>4, <2>7, <3>2 DEF NInv, NN!IInv, NN!TypeOK, NN!Agreement
    <3>5. g.party = p
      <4>1. agreement[a].party = g.party
        BY <3>3 DEF Negotiated
      <4>2. g.party \in {"", p}
        BY <2>5, <4>1
      <4>3. g.party # ""
        BY <3>4, IdAssumption, ConfigAssumption
      <4> QED BY <4>2, <4>3
    <3>6. negotiation[a].party = g.party
      BY <3>2 DEF NInv, NN!IInv, NN!AgreementMatchesNegotiation
    <3>7. a \in issued
      BY <3>2 DEF NInv, Issued
    <3>8. ~task[a]["request"].withdraw
      <4>1. NN!OfferTracked(a)
        BY <3>4 DEF NInv, NN!IInv, NN!OffersAreTracked
      <4> QED BY <3>2, <4>1 DEF NN!OfferTracked, NN!Offered
    <3> QED BY <2>1, <2>4, <3>5, <3>6, <3>7, <3>8
  <2> QED BY <2>6, <2>7
<1> QED BY <1>1, GivenAgreements, GivenTransfers, PTL

=============================================================================
