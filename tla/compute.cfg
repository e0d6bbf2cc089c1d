SPECIFICATION Spec
CHECK_DEADLOCK FALSE
CONSTANTS
    CodeOf <- MCCodeOf
    History <- MCHistory
    Clients = {c1}
    Formulas <- MCFormulas
    KeysOf <- MCKeysOf
    Vals = {"a", "gone"}
    MaxHeight = 3
    MaxRows <- MCMaxRows
    MaxRequests <- MCMaxRequests
    MaxLate <- MCMaxLate
    Steps = {0, 2}
    Times = {1, 4, 7}
    TimeSteps = {0, 2}
    Batch = 2
    TimeOf <- MCTimeOf
INVARIANTS
  AnswersAgreeWithCompute
  StoredIsRight
PROPERTIES
  RevalidateRepairs
