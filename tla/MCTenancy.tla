------------------------------- MODULE MCTenancy -------------------------------
(* One tenant at work and one that may register, with interchangeable tokens  *)
(* and administrators' requests.                                              *)
EXTENDS Tenancy, TLC

Symmetry == Permutations(Tokens) \cup Permutations(Deleters) \cup Permutations(Tenants)

================================================================================
