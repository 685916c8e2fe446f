------------------------------- MODULE MCHost -------------------------------
(* One plugin instance of the host on small instances.                      *)
EXTENDS Host
=============================================================================
