SPECIFICATION Spec
CONSTANTS
  w1 = w1
  w2 = w2
  b1 = b1
  m1 = m1
  m2 = m2
  parent = parent
  v1 = v1
  v2 = v2
  v3 = v3
  WebSources = {w1, w2}
  BatchSources = {b1}
  NoSource = NoSource
  Metrics = {m1}
  Scopes = {parent}
  Values = {v1, v2, v3}
  Blank = Blank
  Extracted <- MCExtracted
  MaxDecisions = 3
  CorrectionsMove = FALSE
  BatchInterleaves = FALSE
  OfflineOnWeb = FALSE
SYMMETRY Symmetry
INVARIANTS
  TypeOK
  OneTrustedReading
  ProjectionIsTrusted
  DecisionsAreSerial
  VersionNamesOneState
CHECK_DEADLOCK FALSE
