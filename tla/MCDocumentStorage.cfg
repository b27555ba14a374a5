SPECIFICATION Spec
CONSTANTS
  s1 = s1
  s2 = s2
  f1 = f1
  f2 = f2
  f3 = f3
  Sources <- MCSources
  Uploads = {u1}
  Importers = {i1}
  Facts <- MCFacts
  SourceOf <- MCSourceOf
SYMMETRY Symmetry
INVARIANTS
  StorageTypeOK
  RowHasItsFile
  EvidenceFindsItsSource
  ImportIsRepeatable
  CompletedIsReviewed
