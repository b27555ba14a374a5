SPECIFICATION Spec
CONSTANTS
  m1 = m1
  m2 = m2
  Companies = {1, 2}
  Years <- MCYears
  Metrics = {m1, m2}
  Untrusted = Untrusted
  Table <- MCTable
  MaxRows = 3
  TopN = 1
  Questions <- MCQuestions
INVARIANTS
  SessionTypeOK
  AnswersWhatWasSaid
  AnswersAreWhole
