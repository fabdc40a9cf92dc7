-------------------------- MODULE MCReviewJournal --------------------------
(* ReviewJournal for TLC: runs, albums and bytes are interchangeable, and no  *)
(* action or property tells a kept run from a pending one.                    *)
EXTENDS ReviewJournal, TLC

Symmetry == Permutations(Runs) \cup Permutations(Albums) \cup Permutations(Bytes)

WithoutKept ==
    <<files, outcome, [r \in Runs |-> decision[r] = "reverted"], canRevert, album, change,
      history, store, guard, clearing, budget>>

=============================================================================
