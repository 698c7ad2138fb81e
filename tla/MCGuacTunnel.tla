---------------------------- MODULE MCGuacTunnel ----------------------------
(* The instance of GuacTunnel that TLC checks (tunnel.cfg).                *)
EXTENDS GuacTunnel

=============================================================================
