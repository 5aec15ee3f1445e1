----------------------- MODULE MCTokenBucketLimiter -----------------------
(* Two rules: one that refills and one with a single fixed budget. *)
EXTENDS TokenBucketLimiter, TLC

CONSTANTS refilling, fixed

MCKeys == {refilling, fixed}
MCCapacity == [k \in MCKeys |-> IF k = refilling THEN 1 ELSE 2]
MCRefill == [k \in MCKeys |-> IF k = refilling THEN 2 ELSE 0]

Symmetry == Permutations(Tasks)
=============================================================================
