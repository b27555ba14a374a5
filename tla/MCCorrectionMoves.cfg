SPECIFICATION Spec
CONSTANTS
  w1 = w1
  w2 = w2
  b1 = b1
  m1 = m1
  m2 = m2
  parent = parent
  v1 = v1
  v2 = v2
  v3 = v3
  WebSources = {w1}
  BatchSources = {}
  NoSource = NoSource
  Metrics = {m1, m2}
  Scopes = {}
  Values = {v1, v2}
  Blank = Blank
  Extracted <- MCExtracted
  MaxDecisions = 2
  CorrectionsMove = TRUE
  BatchInterleaves = FALSE
  OfflineOnWeb = FALSE
INVARIANTS
  ProjectionIsTrusted
CHECK_DEADLOCK FALSE
