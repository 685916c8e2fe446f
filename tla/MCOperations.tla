---------------------------- MODULE MCOperations ----------------------------
(* The approval engine on small instances.                                  *)
EXTENDS Operations
=============================================================================
