SPECIFICATION FairSpec
CONSTANTS
  r1 = r1
  r2 = r2
  x = x
  y = y
  company = company
  m = m
  n = n
  MaxAttempts = 2
  Pages = {1, 2}
  Regions = {r1, r2}
  PageOf <- MCPageOf
  MaxContent = 2
  Text <- MCText
  Titles = {company}
  WindowSize = 1
  Fragments <- MCFragments
  Facts <- MCFacts
  Convertible <- MCConvertible
  Relations = {{m, n}}
  MaxFacts = 1
INVARIANTS
  ExtractionTypeOK
  RecommendedIsEvidenced
  AuditTellsOutcome
PROPERTIES
  ExtractionEnds
