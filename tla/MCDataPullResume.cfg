SPECIFICATION Spec
CONSTANTS
  g1 = g1
  g2 = g2
  old = old
  huge = huge
  Pulls <- MCPulls
  Versions <- MCVersions
  Length <- MCLength
  MaxDownloadBytes <- MCMaxDownloadBytes
INVARIANT ResumptionIsToldApart
