------------------------------ MODULE MCMlJobs ------------------------------
(* Small instances of MlJobs for TLC. *)
EXTENDS MlJobs, TLC

CONSTANTS train1, train2, learn, training, threshold

\* Two trainings compete for one type; the threshold job has a deadline.
Kinds == [j \in Jobs |-> IF j = learn THEN threshold ELSE training]

Symmetry == Permutations({train1, train2}) \cup Permutations(Workers)
=============================================================================
