-------------------------- MODULE MCPluginProcess --------------------------
(* One plugin process on small instances.                                   *)
EXTENDS PluginProcess
=============================================================================
