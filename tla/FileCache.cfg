SPECIFICATION FairSpec
CONSTANTS
  Contexts = {c1, c2}
  Blobs = {"a", "b"}
  Tables <- MCTables
  BlobSize = 2
  TempFiles = {"tmp1", "tmp2", "tmp3", "tmp4"}
  MaxRequests = 3
  MaxCrashes = 1
  MaxCleanups = 1
  MaxWriteErrors = 1
INVARIANTS
  NoTornFile
  ServedAsStored
PROPERTIES
  EndsInTheEnd
