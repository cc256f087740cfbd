-------------------------- MODULE MCTenantControl ---------------------------
(* Small instances of one tenant's limits for TLC.                         *)
EXTENDS TenantControl, TLC

CONSTANTS small, large

MCQuotaOf == small :> 1 @@ large :> 2
MCSlotsOf == small :> 1 @@ large :> 2
MCRateOf == small :> 1 @@ large :> 2

(* Requests of one kind are interchangeable. *)
Symmetry == Permutations(Writers) \cup Permutations(Reservers) \cup Permutations(Clients)
=============================================================================
