------------------------------ MODULE MCSampler ------------------------------
(* One sampling run on two workers. *)
EXTENDS Sampler, TLC

CONSTANTS j1, w1, w2, k1

SymmetricWorkers == Permutations(Workers)

=============================================================================
