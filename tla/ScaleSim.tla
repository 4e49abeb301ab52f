------------------------------ MODULE ScaleSim ------------------------------
(***************************************************************************)
(* The simulated scale (scale_sim_next_measurement of src/scale.c), the        *)
(* request that starts and stops it (http_rest_charge_mode_sim of              *)
(* src/charge_mode.cpp), and the four waits of charge mode that call it: one    *)
(* call is one measurement and moves the simulation one tick.                 *)
(*                                                                         *)
(* A weight is "zero", "below" the target, "target" or "off", the negative     *)
(* weight of a removed cup.  A wait that looks for stable weights sees how many  *)
(* in a row were alike.  X_Variant is X with a plausible mistake.              *)
(***************************************************************************)
EXTENDS Integers, TLC

CONSTANTS
    CoarseTicks,  \* calls until the coarse part is done (40 in the code)
    FineTicks,    \* calls until the target is reached (about 50)
    MaxStarts     \* bound: requests

ASSUME ScaleSimAssumption ==
    CoarseTicks \in Nat \ {0} /\ FineTicks \in Nat \ {0} /\ MaxStarts \in Nat

VARIABLES
    active,   \* sim_active
    phase,    \* sim_phase
    ticks,    \* sim_tick_count
    wait,     \* which function charge mode is in
    weight,   \* the last measurement
    alike,    \* measurements like it in a row, in this function
    starts    \* requests so far

simVars == <<active, phase, ticks, wait, weight, alike, starts>>

ScaleSimInit ==
    /\ active = FALSE /\ phase = "ZERO" /\ ticks = 0 /\ wait = "none"
    /\ weight = "zero" /\ alike = 0 /\ starts = 0

(* Ticks a phase lasts, the weight in it, and the phase after it.              *)
Lasts_Variant == ("ZERO" :> 12) @@ ("COARSE" :> CoarseTicks) @@ ("COARSE_SETTLE" :> 5)
    @@ ("FINE" :> FineTicks) @@ ("CHARGE_DONE" :> 25) @@ ("CUP_REMOVED" :> 4)
    @@ ("CUP_RETURNED" :> 10)
Lasts == ("ZERO" :> 12) @@ ("COARSE" :> CoarseTicks) @@ ("COARSE_SETTLE" :> 5)
    @@ ("FINE" :> FineTicks) @@ ("CHARGE_DONE" :> 25) @@ ("CUP_REMOVED" :> 15)
    @@ ("CUP_RETURNED" :> 10)
Weighs == ("ZERO" :> "zero") @@ ("COARSE" :> "below") @@ ("COARSE_SETTLE" :> "below")
    @@ ("FINE" :> "below") @@ ("CHARGE_DONE" :> "target") @@ ("CUP_REMOVED" :> "off")
    @@ ("CUP_RETURNED" :> "target")
NextPhase == ("ZERO" :> "COARSE") @@ ("COARSE" :> "COARSE_SETTLE") @@ ("COARSE_SETTLE" :> "FINE")
    @@ ("FINE" :> "CHARGE_DONE") @@ ("CHARGE_DONE" :> "CUP_REMOVED")
    @@ ("CUP_REMOVED" :> "CUP_RETURNED") @@ ("CUP_RETURNED" :> "ZERO")

LastTick == ticks + 1 >= Lasts[phase]

(* FINE ends on the target, CUP_RETURNED on zero; the others on their weight.    *)
Measured ==
    IF ~LastTick THEN Weighs[phase]
    ELSE CASE phase = "FINE" -> "target" [] phase = "CUP_RETURNED" -> "zero"
           [] OTHER -> Weighs[phase]

AlikeWith(w) == IF w = weight /\ alike > 0 THEN (IF alike < 10 THEN alike + 1 ELSE alike) ELSE 1

(* What each wait of charge mode is for: ten zeros, the target, five weights      *)
(* without the cup, one that is not negative.                                *)
Satisfied(w, n) ==
    CASE wait = "zero"     -> w = "zero" /\ n >= 10
      [] wait = "complete" -> w = "target"
      [] wait = "removal"  -> w = "off" /\ n >= 5
      [] wait = "return"   -> w # "off"
Following == ("zero" :> "complete") @@ ("complete" :> "removal") @@ ("removal" :> "return")
    @@ ("return" :> "zero")

Measure ==
    /\ active /\ wait # "none"
    /\ LET w == Measured
           n == IF w = "below" THEN 1 ELSE AlikeWith(w)
       IN /\ weight' = w
          /\ wait' = IF Satisfied(w, n) THEN Following[wait] ELSE wait
          /\ alike' = IF Satisfied(w, n) THEN 0 ELSE n
    /\ phase' = IF LastTick THEN NextPhase[phase] ELSE phase
    /\ ticks' = IF LastTick THEN 0 ELSE ticks + 1
    /\ UNCHANGED <<active, starts>>

(* A start begins the simulation anew, in whatever wait charge mode is.         *)
SimStart ==
    /\ starts < MaxStarts /\ starts' = starts + 1
    /\ active' = TRUE /\ phase' = "ZERO" /\ ticks' = 0
    /\ wait' = IF wait = "none" THEN "zero" ELSE wait
    /\ UNCHANGED <<weight, alike>>

SimStop ==
    /\ active /\ active' = FALSE /\ wait' = "none" /\ alike' = 0
    /\ UNCHANGED <<phase, ticks, weight, starts>>

ScaleSimNext == Measure \/ SimStart \/ SimStop
ScaleSimFairness == WF_simVars(Measure)
ScaleSimSpec == ScaleSimInit /\ [][ScaleSimNext]_simVars /\ ScaleSimFairness

-----------------------------------------------------------------------------
(* A simulation that is left running goes through charge after charge: each      *)
(* phase is long enough for the wait it is meant for, also when the simulation   *)
(* was started anew in the middle of one (the ticks of scale.c against the       *)
(* windows of ten and five in charge_mode.cpp).                               *)
SimCharges == <>[]active => []<>(wait = "complete") /\ []<>(wait = "return")
=============================================================================
