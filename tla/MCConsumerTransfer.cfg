SPECIFICATION Spec
CONSTANTS
  c1 = c1
  asked = asked
  started = started
  silent = silent
  h1 = h1
  h2 = h2
  k1 = k1
  k2 = k2
  bob = bob
  mallory = mallory
  Transfers <- MCTransfers
  Agreements <- MCAgreements
  Providers <- MCProviders
  Handlers <- MCHandlers
  Slots <- MCSlots
  ConsumerTransferPolicies <- MCConsumerTransferPolicies
SYMMETRY Symmetry
INVARIANTS
  TypeOK
  InFlightIsLegal
PROPERTY KeepsContract
