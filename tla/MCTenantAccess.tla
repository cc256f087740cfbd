--------------------------- MODULE MCTenantAccess ---------------------------
(* Instances of TenantAccess for TLC. *)
EXTENDS TenantAccess, TLC

CONSTANTS alice, bob, staff, letter, r1, r2

ToBob == letter :> bob
=============================================================================
