----------------------------- MODULE MCTenancy ------------------------------
(* The instance of Tenancy that TLC checks (tenancy.cfg).                  *)
EXTENDS Tenancy

=============================================================================
