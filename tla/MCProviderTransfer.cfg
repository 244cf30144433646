SPECIFICATION Spec
CONSTANTS
  t1 = t1
  a1 = a1
  a2 = a2
  h1 = h1
  h2 = h2
  alice = alice
  mallory = mallory
  plain = plain
  limited = limited
  Transfers <- MCTransfers
  Agreements <- MCAgreements
  Handlers <- MCHandlers
  Participants <- MCParticipants
  Datasets <- MCDatasets
  Configured <- MCConfigured
  Sourced <- MCSourced
  Limited <- MCLimited
  TransferPolicies <- MCTransferPolicies
  TransferSequences <- MCTransferSequences
SYMMETRY Symmetry
INVARIANTS
  TypeOK
  InFlightIsLegal
  GateHolds
  StartedByProvider
PROPERTY KeepsContract
