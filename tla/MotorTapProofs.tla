--------------------------- MODULE MotorTapProofs ---------------------------
(***************************************************************************)
(* What motor_tap needs to keep its promises: that pulses do not overlap,   *)
(* or, for the pulse to end, that they all select the same motors.          *)
(***************************************************************************)
EXTENDS MotorTap, TLAPS

(* Where a motor that turns in the menu is on its way to being stopped.     *)
ToBeStopped == (IF step \in {"select", "arm"} THEN tapped ELSE {})
               \cup (IF armed \/ firing = "stop" THEN selection ELSE {})

(* Where a motor enabled in the menu is on its way to being disabled.       *)
ToBeDisabled == (IF step \in {"run", "select", "arm"} THEN tapped \ wasEnabled ELSE {})
                \cup (IF armed \/ firing \in {"stop", "coarse"} THEN selection \ wasEnabled
                      ELSE {})
                \cup (IF firing = "fine" THEN (selection \ wasEnabled) \cap {"fine"} ELSE {})

(* One pulse at a time.                                                    *)
Alone == /\ step # "none" => ~armed /\ firing = "none"
         /\ armed => firing = "none"
         /\ step = "arm" => selection = tapped

(* Any number of pulses of the same selection.                              *)
Same(S) == /\ step # "none" => tapped = S
           /\ armed \/ firing # "none" \/ step = "arm" => selection = S

PulseInv  == mode = "menu" => turning \subseteq ToBeStopped
EnableInv == mode = "menu" => enabled \subseteq ToBeDisabled

LEMMA Types == TapSpec => []TapTypeOK
<1>1. TapInit => TapTypeOK
  BY DEF TapInit, TapTypeOK, TapSteps, FiringSteps
<1>2. TapTypeOK /\ [TapNext]_tapVars => TapTypeOK'
  <2> SUFFICES ASSUME TapTypeOK, [TapNext]_tapVars PROVE TapTypeOK'
    OBVIOUS
  <2> USE DEF TapTypeOK, TapSteps, FiringSteps
  <2>1. CASE Request
    BY <2>1 DEF Request
  <2>2. CASE Tap
    <3>1. CASE Save \/ Arm
      BY <3>1 DEF Save, Arm, At, NextStep
    <3>2. CASE Enable \/ Run
      <4>1. tapped \subseteq Motors
        BY SelectionsAssumption
      <4> QED BY <3>2, <4>1 DEF Enable, Run, At, NextStep, MotorEnable
    <3>3. CASE Select
      BY <3>3 DEF Select, At, NextStep
    <3> QED BY <2>2, <3>1, <3>2, <3>3 DEF Tap
  <2>3. CASE Timer
    BY <2>3 DEF Timer, Fire, Stop, RestoreCoarse, RestoreFine, Restore, MotorDisable, requestVars
  <2>4. CASE MenuTask
    BY <2>4 DEF MenuTask, EnterMode, Drive, LeaveMode, MotorEnable, MotorDisable, requestVars
  <2>5. CASE UNCHANGED tapVars
    BY <2>5 DEF tapVars, requestVars
  <2> QED BY <2>1, <2>2, <2>3, <2>4, <2>5 DEF TapNext
<1> QED BY <1>1, <1>2, PTL DEF TapSpec

LEMMA AloneNext ==
  ASSUME Overlap = FALSE, TapTypeOK, Alone, [TapNext]_tapVars
  PROVE  Alone'
<1> USE DEF Alone
<1>1. CASE Request
  BY <1>1 DEF Request, InPulse
<1>2. CASE Tap
  BY <1>2 DEF Tap, Save, Enable, Run, Select, Arm, At, NextStep
<1>3. CASE Timer
  BY <1>3 DEF Timer, Fire, Stop, RestoreCoarse, RestoreFine, requestVars
<1>4. CASE MenuTask
  BY <1>4 DEF MenuTask, EnterMode, Drive, LeaveMode, requestVars
<1>5. CASE UNCHANGED tapVars
  BY <1>5 DEF tapVars, requestVars
<1> QED BY <1>1, <1>2, <1>3, <1>4, <1>5 DEF TapNext

LEMMA SameNext ==
  ASSUME NEW S, Selections = {S}, TapTypeOK, Same(S), [TapNext]_tapVars
  PROVE  Same(S)'
<1> USE DEF Same
<1>1. CASE Request
  BY <1>1 DEF Request
<1>2. CASE Tap
  BY <1>2 DEF Tap, Save, Enable, Run, Select, Arm, At, NextStep
<1>3. CASE Timer
  BY <1>3 DEF Timer, Fire, Stop, RestoreCoarse, RestoreFine, requestVars
<1>4. CASE MenuTask
  BY <1>4 DEF MenuTask, EnterMode, Drive, LeaveMode, requestVars
<1>5. CASE UNCHANGED tapVars
  BY <1>5 DEF tapVars, requestVars
<1> QED BY <1>1, <1>2, <1>3, <1>4, <1>5 DEF TapNext

LEMMA PulseNext ==
  ASSUME TapTypeOK, PulseInv, [TapNext]_tapVars, Alone \/ \E S : Same(S)
  PROVE  PulseInv'
<1> USE DEF TapTypeOK, PulseInv, ToBeStopped
<1>1. CASE Request
  BY <1>1 DEF Request
<1>2. CASE Save \/ Enable \/ Run
  BY <1>2 DEF Save, Enable, Run, At, NextStep, MotorEnable
<1>3. CASE Select
  BY <1>3 DEF Select, At, NextStep, Alone, Same
<1>4. CASE Arm
  BY <1>4 DEF Arm, At, NextStep, Alone, Same
<1>5. CASE Timer
  BY <1>5 DEF Timer, Fire, Stop, RestoreCoarse, RestoreFine, Restore, MotorDisable, requestVars
<1>6. CASE MenuTask
  BY <1>6 DEF MenuTask, EnterMode, Drive, LeaveMode, MotorEnable, MotorDisable, requestVars
<1>7. CASE UNCHANGED tapVars
  BY <1>7 DEF tapVars, requestVars
<1> QED BY <1>1, <1>2, <1>3, <1>4, <1>5, <1>6, <1>7 DEF TapNext, Tap

LEMMA EnableNext ==
  ASSUME TapTypeOK, EnableInv, Alone, [TapNext]_tapVars
  PROVE  EnableInv'
<1> USE DEF TapTypeOK, EnableInv, ToBeDisabled, Alone
<1>1. CASE Request
  BY <1>1 DEF Request
<1>2. CASE Save \/ Enable
  BY <1>2 DEF Save, Enable, At, NextStep, MotorEnable
<1>3. CASE Run \/ Select \/ Arm
  BY <1>3 DEF Run, Select, Arm, At, NextStep
<1>4. CASE Fire \/ Stop
  BY <1>4 DEF Fire, Stop, requestVars
<1>5. CASE RestoreCoarse \/ RestoreFine
  BY <1>5 DEF RestoreCoarse, RestoreFine, Restore, MotorDisable, requestVars, Motors, FiringSteps
<1>6. CASE MenuTask
  BY <1>6 DEF MenuTask, EnterMode, Drive, LeaveMode, MotorEnable, MotorDisable, requestVars
<1>7. CASE UNCHANGED tapVars
  BY <1>7 DEF tapVars, requestVars
<1> QED BY <1>1, <1>2, <1>3, <1>4, <1>5, <1>6, <1>7 DEF TapNext, Tap, Timer

LEMMA AtStart == TapInit => PulseInv /\ EnableInv /\ Alone /\ \A S : Same(S)
  BY DEF TapInit, PulseInv, EnableInv, Alone, Same, ToBeStopped, ToBeDisabled

(* No motor is left turning in the menu, if pulses do not overlap or all    *)
(* select the same motors.                                                 *)
THEOREM PulseCorrect ==
  ASSUME Overlap = FALSE \/ \E S : Selections = {S}
  PROVE  TapSpec => []PulseEnds
<1>1. PulseInv => PulseEnds
  BY DEF PulseInv, PulseEnds, ToBeStopped, InPulse
<1>2. CASE Overlap = FALSE
  <2>1. TapTypeOK /\ PulseInv /\ Alone /\ [TapNext]_tapVars => PulseInv' /\ Alone'
    BY <1>2, AloneNext, PulseNext
  <2> QED BY <1>1, <2>1, AtStart, Types, PTL DEF TapSpec
<1>3. ASSUME NEW S, Selections = {S}
      PROVE  TapSpec => []PulseEnds
  <2>1. TapTypeOK /\ PulseInv /\ Same(S) /\ [TapNext]_tapVars => PulseInv' /\ Same(S)'
    BY <1>3, SameNext, PulseNext
  <2>2. TapInit => PulseInv /\ Same(S)
    BY AtStart
  <2> QED BY <1>1, <2>1, <2>2, Types, PTL DEF TapSpec
<1> QED BY <1>2, <1>3

(* The motors are disabled again in the menu, if pulses do not overlap.     *)
THEOREM EnableCorrect ==
  ASSUME Overlap = FALSE
  PROVE  TapSpec => []EnableRestored
<1>1. EnableInv => EnableRestored
  BY DEF EnableInv, EnableRestored, ToBeDisabled, InPulse
<1>2. TapTypeOK /\ EnableInv /\ Alone /\ [TapNext]_tapVars => EnableInv' /\ Alone'
  BY AloneNext, EnableNext
<1> QED BY <1>1, <1>2, AtStart, Types, PTL DEF TapSpec
=============================================================================
