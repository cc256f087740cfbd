------------------------------ MODULE MCOutbox ------------------------------
(* A small instance of the outbox for TLC.                                 *)
EXTENDS Outbox, TLC

CONSTANTS r1, r2, t1

MCTenantOf == [r \in Records |-> t1]
MCPriorityOf == r1 :> 0 @@ r2 :> 100
=============================================================================
