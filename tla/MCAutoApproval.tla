--------------------------- MODULE MCAutoApproval ---------------------------
(* Small universes for the auto-approval policy. *)
EXTENDS AutoApproval

(* Every combination of the two heavier selectors, and the lightest alone.   *)
Scopes == {"*", "nas"} \X {"*", "reboot"} \X {"*"} \cup {<<"*", "*", "agent">>}

Rule(n) == {[id |-> n, plugin |-> s[1], action |-> s[2], principal |-> s[3], maxRisk |-> max] :
              s \in Scopes, max \in {"", "low", "high"}}

(* Every canonical set of at most two rules; no two scopes here tie, so the  *)
(* ids run against the order.                                                *)
MCStored == {rs \in {<<>>} \cup {<<r>> : r \in Rule(1)} \cup {<<r, s>> : r \in Rule(2), s \in Rule(1)} :
               Normalised(rs)}
MCNoRules == {<<>>}

(* What administrators store meanwhile: nothing, an exclusion beside a broad *)
(* grant, and a set that NormaliseRules refuses.                             *)
Broad(n, max) == [id |-> n, plugin |-> "*", action |-> "*", principal |-> "*", maxRisk |-> max]
Never(n) == [id |-> n, plugin |-> "*", action |-> "reboot", principal |-> "*", maxRisk |-> ""]

MCRuleBooks == {<<Never(2), Broad(1, "low")>>, <<Broad(1, "critical")>>}

(* A rule that does not apply to a request is as good as absent, so a few    *)
(* requests are enough: ordinary, severe, raised by the operator, past every *)
(* authority, without a way back, and on another plugin.                     *)
Request(p, declared, override, reversible) ==
  [plugin |-> p, action |-> "reboot", principal |-> "agent",
   declared |-> declared, override |-> override, reversible |-> reversible]

MCRequests == {Request("nas", "low", "", TRUE), Request("nas", "high", "", TRUE),
               Request("nas", "critical", "medium", TRUE), Request("nas", "low", "", FALSE),
               Request("firewall", "low", "high", TRUE)}

(* Windows worth opening, one over another plugin, one too long, one that    *)
(* asks for critical.                                                        *)
Window(p, c, m) == [plugin |-> p, ceiling |-> c, minutes |-> m]
MCWindows == {Window("", "high", 1), Window("firewall", "high", 1),
              Window("", "low", 3), Window("", "critical", 1)}
=============================================================================
