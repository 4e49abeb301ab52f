---------------------------- MODULE TricklerState ----------------------------
(***************************************************************************)
(* The state that charge mode, cleanup mode, the menu, the REST handlers    *)
(* and the button interrupts share, and the calls they make on it.         *)
(*                                                                         *)
(* It is the firmware built for the Mini 12864 display, where menu_task     *)
(* runs the menu and, inside it, charge mode and cleanup mode.             *)
(*                                                                         *)
(* Abstractions.  A motor has the speed last asked of it, reduced to its    *)
(* direction (MotorSpeed shows that the last command wins).  The gate is    *)
(* where it was last sent (ServoGate and CleanupGate look at the delay).    *)
(* Weights are not computed: a measurement says only which side of the      *)
(* coarse and the fine threshold the pan is on, and any measurement can     *)
(* follow any other.  The settings of charge mode (coarse reverse, pulses,  *)
(* precharge, data collection) can be changed by REST at any time, so every *)
(* use of one goes either way.  Rendering, colours, telemetry and the history   *)
(* of charges that ai_tuning.c collects are left out.                       *)
(***************************************************************************)
EXTENDS Integers, Sequences

CONSTANTS
    QueueLength,   \* of encoder_event_queue: xQueueCreate(5, ...)
    FailLimit,     \* missing measurements in a row before the emergency stop: 10
    MaxKnob        \* bound on cleanup mode's trickler speed

ASSUME QueueAssumption == QueueLength \in Nat \ {0}
ASSUME FailAssumption  == FailLimit \in Nat \ {0}
ASSUME KnobAssumption  == MaxKnob \in Nat

VARIABLES
    pc,            \* where the menu task is
    mode,          \* charge_mode_config.charge_mode_state
    exitState,     \* exit_state, what the menu is to run next
    events,        \* encoder_event_queue
    speed,         \* speed[m]: direction motor m was last told to turn in
    enabled,       \* enabled[m]: the EN pin of motor m enables its driver
    gate,          \* where the gate was last sent, or "disabled"
    coarseMove,    \* should_coarse_trickler_move
    failCount,     \* scale_fail_count and precharge_scale_fail_count
    tuning,        \* state of the AI tuning session
    aiPending,     \* ai_tuning_record_pending
    cleanupState,  \* cleanup_mode_config.cleanup_mode_state
    knob           \* cleanup_mode_config.trickler_speed

motorVars   == <<speed, enabled>>
chargeLocals == <<coarseMove, failCount>>
chargeVars  == <<chargeLocals, aiPending>>
cleanupVars == <<cleanupState, knob>>
stateVars   == <<pc, mode, exitState, events, motorVars, gate, chargeVars,
                 tuning, cleanupVars>>

Motors     == {"coarse", "fine"}
GateStates == {"disabled", "close", "open"}
Directions == {"stop", "fwd", "rev"}
Events     == {"CW", "CCW", "PRESS", "RST", "OVERRIDE"}
\* "OTHER" is any number a REST client writes that names no state.
Modes      == {"EXIT", "ZERO", "COMPLETE", "REMOVAL", "RETURN", "OTHER"}
Sessions   == {"idle", "phase1", "phase2", "complete", "error"}
ExitStates == {"default", "charge", "cleanup"}

ChargeSteps  == {"enter", "calm", "start", "loop", "zero", "zeroed",
                 "fill", "fillSettle", "fillPoll",
                 "poll", "measure", "reverse", "settle", "pulse", "end", "record",
                 "precharge", "prechargeEnd", "done", "report", "removal", "return", "exit", "disable"}
CleanupSteps == {"cleanupEnter", "cleanupOpen", "cleanup", "cleanupExit"}
MenuSteps    == {"form", "dispatch"} \cup ChargeSteps \cup CleanupSteps

-----------------------------------------------------------------------------
(* motor_set_speed for one motor and for SELECT_BOTH_MOTOR                  *)
SetSpeed(m, d) == speed' = [speed EXCEPT ![m] = d]
StopBoth       == speed' = [m \in Motors |-> "stop"]

DirectionOf(v) == CASE v > 0 -> "fwd" [] v < 0 -> "rev" [] OTHER -> "stop"

(* cleanup_mode_config.trickler_speed, and motor_set_speed with it          *)
TurnKnob(v) ==
    /\ knob' = v
    /\ speed' = [m \in Motors |-> DirectionOf(v)]

(* motor_enable; disabling a motor also sets its speed to zero.            *)
EnableBoth  == enabled' = [m \in Motors |-> TRUE]
DisableBoth == enabled' = [m \in Motors |-> FALSE] /\ StopBoth

(* servo_gate_set_state, which a mode calls only when the gate is not       *)
(* disabled                                                                *)
MoveGate(g) == gate' = IF gate = "disabled" THEN gate ELSE g

(* xQueueReceive with a timeout of zero: button_wait_for_input(false)       *)
NextEvent == IF events = <<>> THEN "none" ELSE Head(events)
TakeEvent == events' = IF events = <<>> THEN events ELSE Tail(events)

(* xQueueSend with a timeout of zero: a full queue drops the event.        *)
HasRoom    == Len(events) < QueueLength
TrySend(e) == events' = IF HasRoom THEN Append(events, e) ELSE events

(* ai_tuning_is_active, ai_tuning_get_motor_mode                            *)
TuningActive == tuning \in {"phase1", "phase2"}
MotorMode    == CASE tuning = "phase1" -> "coarse only"
                  [] tuning = "phase2" -> "fine only"
                  [] OTHER -> "normal"

InitState ==
    /\ pc = "form"
    /\ mode = "EXIT"
    /\ exitState = "default"
    /\ events = <<>>
    /\ speed = [m \in Motors |-> "stop"]
    /\ enabled = [m \in Motors |-> FALSE]
    /\ gate \in {"open", "disabled"}
    /\ coarseMove = TRUE
    /\ failCount = 0
    /\ tuning = "idle"
    /\ aiPending = FALSE
    /\ cleanupState = "EXIT"
    /\ knob = 0

StateTypeOK ==
    /\ pc \in MenuSteps
    /\ mode \in Modes
    /\ exitState \in ExitStates
    /\ events \in Seq(Events) /\ Len(events) <= QueueLength
    /\ speed \in [Motors -> Directions]
    /\ enabled \in [Motors -> BOOLEAN]
    /\ gate \in GateStates
    /\ coarseMove \in BOOLEAN
    /\ failCount \in 0..(FailLimit - 1)
    /\ tuning \in Sessions
    /\ aiPending \in BOOLEAN
    /\ cleanupState \in {"EXIT", "ENTER"}
    /\ knob \in -MaxKnob..MaxKnob
=============================================================================
