SPECIFICATION Spec
CONSTANTS
  a = a
  b = b
  Participants <- MCParticipants
  Rosters <- MCRosters
  Offsets <- MCOffsets
  CredentialTTL = 2
  ClockLeeway = 1
  MaxCredentialLifetime = 3
  MaxRosterLifetime = 9
  Attempts = 2
  AttemptTimeout = 1
  IntMax = 15
  Claims <- MCClaims
  MaxTime = 6
INVARIANTS
  TypeOK
  RevokedStaysOut
  SpanIsBounded
  HonestIsHeard
  SilentOnceExpired
