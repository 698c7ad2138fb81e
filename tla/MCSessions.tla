----------------------------- MODULE MCSessions -----------------------------
(* The instance of Sessions that TLC checks (sessions.cfg).                *)
EXTENDS Sessions

=============================================================================
