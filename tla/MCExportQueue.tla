---------------------------- MODULE MCExportQueue ----------------------------
(***************************************************************************)
(* Small instances of ExportQueue: one block split over two jobs that      *)
(* write the same key, the second also a balance that the first wrote,     *)
(* then a job of the next block.  The contract of the key is instantiated  *)
(* in the second job; the third has a key outside the allowlist and one of *)
(* an excluded contract.  The liveness run has two jobs, of a key, and of  *)
(* a balance and a contract event.                                         *)
(***************************************************************************)
EXTENDS ExportQueue

MCBankIds == {"balance"}
MCHistoryIds == {"balance"}
MCContractOf == [i \in {"key", "extra", "other"} |-> IF i = "other" THEN "excluded" ELSE "contract"]
MCWasmIds == DOMAIN MCContractOf

MCItem(n, height, id) == [n |-> n, height |-> height, id |-> id]
MCJobs == <<{MCItem(1, 1, "key"), MCItem(2, 1, "balance")},
            {MCItem(3, 1, "key"), MCItem(4, 1, "balance")},
            {MCItem(5, 2, "key"), MCItem(6, 2, "extra"), MCItem(7, 2, "other")}>>
MCTwoJobs == <<{MCItem(1, 1, "key")}, MCJobs[2] \ {MCItem(3, 1, "key")}>>
MCInstantiates == <<{}, {"contract"}, {}>>
MCTwoInstantiates == SubSeq(MCInstantiates, 1, 2)

=============================================================================
