SPECIFICATION StorageSpec
CONSTANTS
  Client = {c1}
  Hash = {h1, h2}
  Stream = {x1, x2}
  MaxRevision = 1
  MaxWrites = 2
  None = None
  Torn = Torn
INVARIANTS StoredBlobSurvives RunsWhatItNames
SYMMETRY Symmetry
