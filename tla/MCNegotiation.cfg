SPECIFICATION Spec
CONSTANTS
  n1 = n1
  p1 = p1
  c1 = c1
  keen = keen
  idle = idle
  haggler = haggler
  me = me
  them = them
  Consumer = me
  Provider = them
  Neg <- MCNeg
  ProviderHandlers <- MCProviderHandlers
  ConsumerHandlers <- MCConsumerHandlers
  Datasets <- MCDatasets
  Advertised <- MCAdvertised
  Limited <- MCLimited
  TerminateOnVerify <- MCTerminateOnVerify
  OnOffer <- MCOnOffer
  OnAgreement <- MCOnAgreement
  OnIdle <- MCOnIdle
INVARIANTS
  VerifiedByBoth
  SameEnd
  AgreementsWereMade
