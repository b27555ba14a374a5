SPECIFICATION Spec
CONSTANTS
  a = a
  b = b
  k1 = k1
  k2 = k2
  Reports <- MCReports
  Periods <- MCPeriods
  MaxContent = 4
  MaxVersion = 2
  Replaced <- MCReplaced
  Moved <- MCMoved
  WebPeriods <- MCWebPeriods
  About <- MCAbout
INVARIANTS
  BatchTypeOK
  ParsedMeansStored
  FactsMatchBytes
  AuthorityMatchesDirectory
  EveryReportAccounted
