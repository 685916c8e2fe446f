----------------------------- MODULE MCRestore -----------------------------
(* Two archives, one without plugins, and a plugin directory on another     *)
(* filesystem.                                                              *)
EXTENDS Restore, TLC

CONSTANTS db, tls, plugin, here, a1, a2

MCOrder == <<db, tls, plugin>>
MCMembers == (here :> {db, tls, plugin}) @@ (a1 :> {db, tls, plugin}) @@ (a2 :> {db})
=============================================================================
