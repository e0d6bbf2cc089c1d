SPECIFICATION FormulasSpec
CONSTANTS
  q1 = q1
  q2 = q2
  q3 = q3
  c1 = c1
  c2 = c2
  Queries = {q1, q2, q3}
  CreditRows = {c1, c2}
  CreditAmounts <- FirstAmounts
  Intervals <- RangeLengths
  BlocksPerCredit = 2
  ScaleNum = 1
  ScaleDen = 2
  CreditBounds <- CreditSizes
  NewProposals <- SomeProposals
  PRECISION_FACTOR = 100
  MaxNow = 4
  Members = {1, 2, 3}
  Delegates = {1, 2}
  MaxStake = 1
  MaxBlock = 4
  MaxChanges = 4
  Lifetime = 3
  Whole = 2
  Caps = {1}
  Daos = {1, 2, 3}
  Root = 1
  Letters = 2
  PrefixBound = 30
INVARIANTS
  CreditsAreSound
  PowersAgree
  TreeIsNamed
PROPERTIES
  StatusIsKept
CHECK_DEADLOCK FALSE
