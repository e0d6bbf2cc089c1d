---------------------------- MODULE MCTracerManager ----------------------------
(***************************************************************************)
(* Small instances of TracerManager: one wasm-like key with background     *)
(* work and one without, traces matching none, one or both of them.        *)
(***************************************************************************)
EXTENDS TracerManager, TLC

CONSTANTS t1, t2

MCIds == {"wasm", "bank"}
MCBackgroundIds == {"wasm"}
MCMatches == {<<>>, <<"bank">>, <<"bank", "wasm">>}
MCTimers == {t1, t2}

\* The debounced exports are interchangeable.
MCSymmetry == Permutations(MCTimers)

=============================================================================
