-------------------------- MODULE MCSigningService --------------------------
(* SigningService on small instances; approvers are interchangeable. *)
EXTENDS SigningService, TLC

Symmetry == Permutations(Approvers)
=============================================================================
