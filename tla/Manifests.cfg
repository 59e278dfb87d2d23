SPECIFICATION ManifestSpec
CONSTANTS
  Client = {c1, c2}
  Hash = {h1}
  MaxRevision = 3
  MaxWrites = 4
  None = None
  Torn = Torn
INVARIANT AckedManifestSurvives
PROPERTY NoLostUpdate
