SPECIFICATION IndexingSpec
CONSTANTS
  r1 = r1
  r2 = r2
  r3 = r3
  s1 = s1
  s2 = s2
  Tokens = {1, 2}
  Stakers = {s1, s2}
  NftLimit = 1
  NftBounds <- NftSizes
  Voters = {1, 2}
  SyncLimit = 1
  ClientLimit = 1
  PmBounds <- PmSizes
  StateKeys = {1, 2}
  StateValues = {"a", "b"}
  Recoveries = {r1, r2, r3}
  RecoveryPage = 1
  RecoveryBounds <- RecoverySizes
  EntryKeys = {1, 2}
  EntryValues = {"a", "b", "x"}
  Identities = {"a", "b"}
  Named = {"a"}
  ExportHeight = 3
  ImportRuns = 2
  Exports <- SomeExports
  StoredRanges = 1
  DaoItems = {1, 2}
  DaoModules = {1, 2}
  ItemLimit = 1
  DaoBlocks = 3
  DaoBounds <- DaoSizes
SYMMETRY IndexingSymmetry
INVARIANTS
  StakingSettles
  ModuleSettles
  RecoveryIsSound
  ImportIsSound
  DaoSettles
CHECK_DEADLOCK FALSE
