--------------------------- MODULE MCWorkerStore ---------------------------
(* The store alone, under every sequence of calls of one server and one    *)
(* desktop process.                                                        *)
EXTENDS WorkerStore, TLC

Symmetry == Permutations(Runs) \cup Permutations(Pids)
============================================================================
