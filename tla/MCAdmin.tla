------------------------------- MODULE MCAdmin ------------------------------
(* Model-checking instance of AdminOps: a caller whose token names tenant  *)
(* t1, an operator whose token names none, two tenants and two orgs (so a  *)
(* tenant can be moved), one gateway and one connection id, the bootstrap  *)
(* capability and one more.                                                *)
EXTENDS AdminOps

CONSTANTS acme, operator, t1, t2, o1, o2, g1, cn1, boot, k2, none

MCBoundTenant == (acme :> t1) @@ (operator :> none)

=============================================================================
