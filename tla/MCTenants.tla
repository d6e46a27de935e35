------------------------------ MODULE MCTenants ------------------------------
(* Small instances of Tenants for TLC.                                      *)
EXTENDS Tenants, TLC

\* The requests in flight are interchangeable.
RequestSymmetry == Permutations(Procs)
=============================================================================
