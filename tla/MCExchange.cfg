SPECIFICATION FairSpec
CONSTANTS
  n1 = n1
  t1 = t1
  imp = imp
  hn = hn
  ht = ht
  alice = alice
  mallory = mallory
  limited = limited
  Neg <- MCNeg
  Transfers <- MCTransfers
  Imports <- MCImports
  Participants <- MCParticipants
  Negotiators <- MCNegotiators
  Datasets <- MCDatasets
  Advertised <- MCAdvertised
  Limited <- MCLimited
  TerminateOnVerify <- MCNone
  Sourced <- MCAdvertised
  TransferPolicies <- MCNoSequence
  TransferSequences <- MCNoSequence
  NegotiationHandlers <- MCNegotiationHandlers
  TransferHandlers <- MCTransferHandlers
INVARIANT BytesWereNegotiated
PROPERTIES
  TransferHalf
  EveryStartLands
  OverMeansQuiet
