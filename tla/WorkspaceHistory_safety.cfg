SPECIFICATION FairSpec
CONSTANTS
  Clients = {c1}
  Nodes = {"a", "b"}
  Values = {v1, v2}
  Default = v1
  Snapshots <- Arrangements
  First <- OneRadio
  Depth = 2
  AutosaveIdle = 1
  AutosaveMax = 2
  MaxSeq = 3
  MaxRevision = 3
  MaxTroubles = 1
INVARIANTS TypeOK HistoryWhole RowsTellTheTruth RevisionNamesSnapshot
PROPERTY EventuallySaved
