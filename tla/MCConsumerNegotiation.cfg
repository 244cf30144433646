SPECIFICATION Spec
CONSTANTS
  n1 = n1
  h1 = h1
  h2 = h2
  alice = alice
  mallory = mallory
  keen = keen
  idle = idle
  haggler = haggler
  a1 = a1
  a2 = a2
  Neg <- MCNeg
  Handlers <- MCHandlers
  Participants <- MCParticipants
  Datasets <- MCDatasets
  AgreementIds <- MCAgreementIds
  OnOffer <- MCOnOffer
  OnAgreement <- MCOnAgreement
  OnIdle <- MCOnIdle
SYMMETRY Symmetry
INVARIANTS
  TypeOK
  InFlightIsLegal
  ReactsOnce
  VerifiedWasAskedFor
PROPERTY KeepsContract
