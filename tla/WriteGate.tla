------------------------------ MODULE WriteGate ------------------------------
(***************************************************************************)
(* What the approval engine promises of every change, without deadlines,   *)
(* workers or crashes: it is proposed, a decision opens or closes the gate *)
(* once, an open gate is passed at most once, and the upstream write       *)
(* happens at most once and only past the gate.                            *)
(***************************************************************************)
EXTENDS Naturals

CONSTANT Ops

VARIABLES
  phase,    \* where each change stands
  writes    \* upstream writes that landed

Phase == {"absent", "proposed", "approved", "refused", "started"}

Init == /\ phase = [o \in Ops |-> "absent"]
        /\ writes = [o \in Ops |-> 0]

Move(o, from, to) == /\ phase[o] \in from
                     /\ phase' = [phase EXCEPT ![o] = to]
                     /\ UNCHANGED writes

Propose(o) == Move(o, {"absent"}, "proposed")
Approve(o) == Move(o, {"proposed"}, "approved")
Refuse(o)  == Move(o, {"proposed", "approved"}, "refused")
Start(o)   == Move(o, {"approved"}, "started")

Write(o) == /\ phase[o] = "started"
            /\ writes[o] = 0
            /\ writes' = [writes EXCEPT ![o] = 1]
            /\ UNCHANGED phase

Next == \E o \in Ops : Propose(o) \/ Approve(o) \/ Refuse(o) \/ Start(o) \/ Write(o)

Spec == Init /\ [][Next]_<<phase, writes>>
=============================================================================
