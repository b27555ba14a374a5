SPECIFICATION Spec
CONSTANTS
  d = d
  s1 = s1
  s2 = s2
  p1 = p1
  p2 = p2
  NoStarter = NoStarter
  Starters = {p1, p2}
  Documents = {d}
  Jobs = {1, 2}
  Sources = {s1, s2}
  Legacies <- MCLegacies
INVARIANTS
  MigrationTypeOK
  RecordedMeansDone
  StartsAreRepeatable
  SourcesSurvive
