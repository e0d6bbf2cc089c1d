SPECIFICATION FairSpec
CONSTANTS
  BankIds <- MCBankIds
  HistoryIds <- MCHistoryIds
  WasmIds <- MCWasmIds
  ContractOf <- MCContractOf
  Excluded = {"excluded"}
  Unlisted = {"extra"}
  OnlyKnown = FALSE
  KnownCode = {}
  Identified = {}
  Jobs <- MCTwoJobs
  Instantiates <- MCTwoInstantiates
  Attempts = 2
  Tries = 1
  MaxFailures = 1
  MaxTimeouts = 1
  MaxCrashes = 2
PROPERTY JobsEnd
CHECK_DEADLOCK FALSE
