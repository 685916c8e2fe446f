------------------------------ MODULE MCTunnel ------------------------------
(* The tunnel supervisor on small instances.                                *)
EXTENDS Tunnel
=============================================================================
