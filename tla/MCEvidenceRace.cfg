SPECIFICATION Spec
CONSTANTS
  Clients = {c1}
  Keys = {k1}
  Questions = {q1}
  Metrics = {m1, m2}
  Documents = {d1}
  NoDocument = NoDocument
  Values = {v1, v2}
  Blank = Blank
  NoKey = NoKey
  NoQuestion = NoQuestion
  MaxTurns = 1
  ReviewsInterleave = TRUE
SYMMETRY Symmetry
INVARIANTS
  AnswersAreEvidenced
