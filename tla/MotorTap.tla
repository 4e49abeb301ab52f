------------------------------ MODULE MotorTap ------------------------------
(***************************************************************************)
(* The tap: one timed pulse of a motor on a REST request (src/motors.c).    *)
(*                                                                         *)
(* motor_tap runs in the HTTP server's thread, its end in the timer         *)
(* daemon.  There is one timer, one saved enable state and one selection,   *)
(* whatever motor is tapped.  Meanwhile the menu task enters and leaves     *)
(* charge or cleanup mode, which switch the motors on and off themselves.   *)
(*                                                                         *)
(* A motor_select_t is the set of motors it selects; a number that names no *)
(* motor is the empty set.  A motor turns when the speed last asked of it   *)
(* is not zero (MotorSpeed shows that the last command wins).  How long the *)
(* pulse lasts is left open: the timer may fire at any time.                *)
(*                                                                         *)
(* The steps of motor_tap are atomic one by one.  NextStep gives their      *)
(* order; X_Variant is X with a plausible mistake.                          *)
(***************************************************************************)
EXTENDS Naturals

CONSTANTS
    Selections,   \* the selections requests ask for
    Overlap       \* may a tap be requested before the pulse of the last has ended?

Motors == {"coarse", "fine"}

ASSUME SelectionsAssumption == Selections \subseteq SUBSET Motors
ASSUME OverlapAssumption    == Overlap \in BOOLEAN

VARIABLES
    enabled,      \* motors whose EN pin enables the driver
    turning,      \* motors last told a speed other than zero
    wasEnabled,   \* tap_was_coarse_enabled, tap_was_fine_enabled
    selection,    \* tap_motor_selection
    armed,        \* tap_timer is running
    step,         \* where motor_tap is
    tapped,       \* its argument
    firing,       \* where motor_tap_timer_callback is
    mode          \* does charge or cleanup mode own the motors?

requestVars  == <<step, tapped>>
tapVars      == <<enabled, turning, wasEnabled, selection, armed, requestVars, firing, mode>>

TapSteps    == {"none", "save", "enable", "run", "select", "arm"}
FiringSteps == {"none", "stop", "coarse", "fine"}

TapTypeOK ==
    /\ enabled \subseteq Motors
    /\ turning \subseteq Motors
    /\ wasEnabled \subseteq Motors
    /\ selection \in Selections \cup {{}}
    /\ armed \in BOOLEAN
    /\ step \in TapSteps
    /\ tapped \in Selections \cup {{}}
    /\ firing \in FiringSteps
    /\ mode \in {"menu", "running"}

TapInit ==
    /\ enabled = {} /\ turning = {}
    /\ wasEnabled = {} /\ selection = {} /\ armed = FALSE
    /\ step = "none" /\ tapped = {}
    /\ firing = "none"
    /\ mode = "menu"

-----------------------------------------------------------------------------
(* motor_enable for a set of motors; disabling stops them too               *)
MotorEnable(S)  == enabled' = enabled \cup S /\ UNCHANGED turning
MotorDisable(S) == enabled' = enabled \ S /\ turning' = turning \ S

InPulse == armed \/ firing # "none" \/ step # "none"

(* motor_tap                                                               *)
NextStep_ArmFirst(s) ==
    CASE s = "save" -> "enable" [] s = "enable" -> "arm" [] s = "arm" -> "run"
      [] s = "run" -> "select" [] OTHER -> "none"

NextStep(s) ==
    CASE s = "save" -> "enable" [] s = "enable" -> "run" [] s = "run" -> "select"
      [] s = "select" -> "arm" [] OTHER -> "none"

Request ==
    /\ step = "none"
    /\ Overlap \/ ~InPulse
    /\ step' = "save"
    /\ tapped' \in Selections
    /\ UNCHANGED <<enabled, turning, wasEnabled, selection, armed, firing, mode>>

At(s) == step = s /\ step' = NextStep(s) /\ UNCHANGED <<tapped, firing, mode>>

Save ==
    /\ At("save")
    /\ wasEnabled' = enabled
    /\ UNCHANGED <<enabled, turning, selection, armed>>

Enable ==
    /\ At("enable")
    /\ MotorEnable(tapped \ wasEnabled)
    /\ UNCHANGED <<wasEnabled, selection, armed>>

Run ==
    /\ At("run")
    /\ turning' = turning \cup tapped
    /\ UNCHANGED <<enabled, wasEnabled, selection, armed>>

Select ==
    /\ At("select")
    /\ selection' = tapped
    /\ UNCHANGED <<enabled, turning, wasEnabled, armed>>

(* xTimerChangePeriod starts the timer, or starts it again.                *)
Arm ==
    /\ At("arm")
    /\ armed' = TRUE
    /\ UNCHANGED <<enabled, turning, wasEnabled, selection>>

Tap == Save \/ Enable \/ Run \/ Select \/ Arm

-----------------------------------------------------------------------------
(* motor_tap_timer_callback                                                *)
Fire ==
    /\ armed /\ firing = "none"
    /\ armed' = FALSE
    /\ firing' = "stop"
    /\ UNCHANGED <<enabled, turning, wasEnabled, selection, requestVars, mode>>

Stop ==
    /\ firing = "stop"
    /\ firing' = "coarse"
    /\ turning' = turning \ selection
    /\ UNCHANGED <<enabled, wasEnabled, selection, armed, requestVars, mode>>

Restore_Inverted(m) ==
    IF m \in selection \cap wasEnabled THEN MotorDisable({m}) ELSE UNCHANGED <<enabled, turning>>

Restore(m) ==
    IF m \in selection \ wasEnabled THEN MotorDisable({m}) ELSE UNCHANGED <<enabled, turning>>

RestoreCoarse ==
    /\ firing = "coarse" /\ firing' = "fine"
    /\ Restore("coarse")
    /\ UNCHANGED <<wasEnabled, selection, armed, requestVars, mode>>

RestoreFine ==
    /\ firing = "fine" /\ firing' = "none"
    /\ Restore("fine")
    /\ UNCHANGED <<wasEnabled, selection, armed, requestVars, mode>>

Timer == Fire \/ Stop \/ RestoreCoarse \/ RestoreFine

-----------------------------------------------------------------------------
(* charge_mode_menu and cleanup_mode_menu, as far as the motors go          *)
EnterMode ==
    /\ mode = "menu" /\ mode' = "running"
    /\ MotorEnable(Motors)
    /\ UNCHANGED <<wasEnabled, selection, armed, requestVars, firing>>

Drive ==
    /\ mode = "running"
    /\ turning' \in SUBSET Motors
    /\ UNCHANGED <<enabled, wasEnabled, selection, armed, requestVars, firing, mode>>

LeaveMode ==
    /\ mode = "running" /\ mode' = "menu"
    /\ MotorDisable(Motors)
    /\ UNCHANGED <<wasEnabled, selection, armed, requestVars, firing>>

MenuTask == EnterMode \/ Drive \/ LeaveMode

TapNext == Request \/ Tap \/ Timer \/ MenuTask

TapSpec == TapInit /\ [][TapNext]_tapVars

-----------------------------------------------------------------------------
(* "Motor tap (single pulse)": once no pulse is under way, no motor turns in *)
(* the menu.  Charge mode may start or end anywhere during the pulse.       *)
PulseEnds == mode = "menu" /\ ~InPulse => turning = {}

(* "Save current enable state so we can restore it after the pulse": the     *)
(* menu gets its motors back disabled, whoever enabled them first.          *)
EnableRestored == mode = "menu" /\ ~InPulse => enabled = {}

(* "Enable motor on entering the charge mode": the motors of a running mode  *)
(* are enabled until it leaves.                                            *)
EnabledInMode == mode = "running" => enabled = Motors
=============================================================================
