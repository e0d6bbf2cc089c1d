SPECIFICATION Spec
CONSTANTS
  BankIds <- MCBankIds
  HistoryIds <- MCHistoryIds
  WasmIds <- MCWasmIds
  ContractOf <- MCContractOf
  Excluded = {"excluded"}
  Unlisted = {"extra"}
  OnlyKnown = TRUE
  KnownCode = {"contract"}
  Identified = {}
  Jobs <- MCJobs
  Instantiates <- MCInstantiates
  Attempts = 2
  Tries = 2
  MaxFailures = 1
  MaxTimeouts = 1
  MaxCrashes = 1
INVARIANTS
  CompletedIsHandled
PROPERTIES
  WritesGoForward
CHECK_DEADLOCK FALSE
