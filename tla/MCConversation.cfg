SPECIFICATION Spec
CONSTANTS
  Clients = {c1, c2}
  Keys = {k1, k2}
  Questions = {q1}
  Metrics = {m1}
  Documents = {d1}
  NoDocument = NoDocument
  Values = {v1, v2}
  Blank = Blank
  NoKey = NoKey
  NoQuestion = NoQuestion
  MaxTurns = 2
  ReviewsInterleave = FALSE
SYMMETRY Symmetry
INVARIANTS
  TypeOK
  StateFollowsHistory
  RepliesAreStored
  AnswersAreEvidenced
