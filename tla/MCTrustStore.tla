---------------------------- MODULE MCTrustStore ----------------------------
(***************************************************************************)
(* Small instances of TrustStore: which processes, configs and contents    *)
(* there are is set in each .cfg.                                          *)
(***************************************************************************)
EXTENDS TrustStore, TLC

\* Processes outside sandboxes are interchangeable, as those inside one are, and
\* so are contents.
Symmetry == Permutations(Procs \ Nested) \union Permutations(Contents)
=============================================================================
