-------------------------- MODULE MCTenantRecords --------------------------
(***************************************************************************)
(* TLC instantiation of TenantRecords: the symmetry of tenants and of a    *)
(* tenant's writers.                                                       *)
(***************************************************************************)
EXTENDS TenantRecords, TLC

MCSymmetry == Permutations(Users) \cup Permutations(Writers)

=============================================================================
