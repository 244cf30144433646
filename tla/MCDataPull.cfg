SPECIFICATION FairSpec
CONSTANTS
  g1 = g1
  g2 = g2
  old = old
  huge = huge
  Pulls <- MCPulls
  Versions <- MCVersions
  Length <- MCLength
  MaxDownloadBytes <- MCMaxDownloadBytes
INVARIANTS
  TypeOK
  PartialIsPrefix
  CountIsTrue
  CompletedIsWhole
  DrainIsComplete
PROPERTY GuardIsFreed
