SPECIFICATION ServicesSpec
CONSTANTS
  r1 = r1
  r2 = r2
  k1 = k1
  k2 = k2
  u1 = u1
  u2 = u2
  CodeIdSets = {s1}
  Hooks = {w1}
  WasmEvents <- HookEvents
  FilterContracts <- HookFilters
  FilterKeys <- HookFilters
  MAX_ATTEMPTS = 2
  WebhookBatch = 1
  WebhookBounds <- HookSizes
  FirstRegistrations <- Registered
  BodyColumns <- EditedColumns
  Regs = {r1, r2}
  Wallets = {"w"}
  Denoms = {"x", "y"}
  Tokens = {"t"}
  Transfers <- DepositTransfers
  ExtractAttempts = 2
  DepositBounds <- DepositSizes
  CodeKeys = {k1, k2}
  CodeIds = {1, 2}
  Configs <- CodeConfigs
  Tracked = {c1, c2}
  Reloads = {l1, l2}
  CodeBounds <- CodeSizes
  Items = {1}
  Listed = {2, 3}
  RetransformBatch = 3
  TransformBounds <- TransformSizes
  Updates = {u1, u2}
  TimeCache = 2
  NodeTries = 3
  NodeBounds <- NodeSizes
INVARIANTS
  WebhooksAreSound
  DepositsAreSound
  NodeIsKnown
PROPERTIES
  CodesAreKnown
  TransformationsAreRight
  ServicesRecover
CHECK_DEADLOCK FALSE
