SPECIFICATION Spec
CONSTANTS
  n1 = n1
  h1 = h1
  h2 = h2
  alice = alice
  mallory = mallory
  plain = plain
  limited = limited
  strict = strict
  unknown = unknown
  Neg <- MCNeg
  Handlers <- MCHandlers
  Participants <- MCParticipants
  Datasets <- MCDatasets
  Advertised <- MCAdvertised
  Limited <- MCLimited
  TerminateOnVerify <- MCTerminateOnVerify
SYMMETRY Symmetry
INVARIANTS
  TypeOK
  AgreementMatchesNegotiation
  StartsOnce
  InFlightIsLegal
  OnlyOfferedContracts
PROPERTY KeepsContract
