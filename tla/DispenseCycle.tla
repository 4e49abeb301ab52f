---------------------------- MODULE DispenseCycle ----------------------------
(***************************************************************************)
(* What the firmware promises of a session at the trickler, without the     *)
(* loops, queues and waits that bring it about: the phases of a charge, and *)
(* which motors may feed powder in each of them.                           *)
(***************************************************************************)
CONSTANT Feeders      \* the motors that can feed powder

VARIABLES
    phase,            \* what the trickler is doing
    feeding           \* the motors that feed powder

vars == <<phase, feeding>>

Phases == {"off", "zero", "charge", "refill", "removal", "return", "cleanup"}

AtMostOne == {{}} \cup {{m} : m \in Feeders}
Quiet     == feeding' = {}

Init == phase = "off" /\ feeding = {}

(* The next phase of a charge begins with all motors still.                *)
Advance(from, to) == phase = from /\ phase' = to /\ Quiet

Begin  == Advance("off", "zero")
Charge == Advance("zero", "charge")
(* One motor feeds at a time.                                              *)
Feed   == /\ phase = "charge" /\ UNCHANGED phase
          /\ feeding' \in AtMostOne
(* The drop is made; the coarse tube may be filled for the next one.       *)
Drop   == Advance("charge", "refill")
Refill == /\ phase = "refill" /\ UNCHANGED phase
          /\ feeding' \in AtMostOne
Weigh  == Advance("refill", "removal")
Take   == Advance("removal", "return")
Again  == Advance("return", "zero")
Stop   == \E p \in Phases : Advance(p, "off")

(* In cleanup the operator drives all motors.                              *)
Clean  == phase = "off" /\ phase' = "cleanup" /\ Quiet
Purge  == /\ phase = "cleanup" /\ UNCHANGED phase
          /\ feeding' \in {{}, Feeders}

Next == Begin \/ Charge \/ Feed \/ Drop \/ Refill \/ Weigh \/ Take \/ Again \/ Stop
        \/ Clean \/ Purge

Spec == Init /\ [][Next]_vars
=============================================================================
