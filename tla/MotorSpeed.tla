----------------------------- MODULE MotorSpeed -----------------------------
(***************************************************************************)
(* How one trickler motor gets its speed (src/motors.c).                   *)
(*                                                                         *)
(* Any task may call motor_set_speed.  The call never blocks: it sends to  *)
(* the motor's command queue, and when the queue is full it throws the     *)
(* oldest command away and sends again.  The three queue operations are    *)
(* atomic one by one and not together, so calls of several tasks (charge   *)
(* mode, the HTTP server, the timer daemon) interleave between them on the *)
(* two cores.  The stepper task takes one command at a time, ramps, and    *)
(* turns the DIR pin at standstill when the sign changes.                  *)
(*                                                                         *)
(* The coarse and the fine motor each have a queue and a task of their     *)
(* own and share nothing, so one motor is modelled.  A call with           *)
(* SELECT_BOTH_MOTOR is a call for the coarse motor, then one for the fine *)
(* motor.  Velocities are those after the division by gear_ratio.          *)
(*                                                                         *)
(* A definition named X_Variant is X with a plausible mistake; nothing uses *)
(* it but the sensitivity checks PROJECT.json lists.                       *)
(***************************************************************************)
EXTENDS Integers, Sequences

CONSTANTS
    Callers,      \* the tasks that may call motor_set_speed
    Velocities,   \* signed velocities they ask for; 0 is a stop
    QueueDepth,   \* xQueueCreate(2, ...) in motors_init
    Inverted,     \* persistent_config.inverted_direction at power-up
    MaxCalls      \* bound on the calls of one behaviour

ASSUME CallersAssumption    == Callers # {}
ASSUME VelocitiesAssumption == Velocities \subseteq Int /\ 0 \in Velocities
ASSUME DepthAssumption      == QueueDepth \in Nat \ {0}
ASSUME InvertedAssumption   == Inverted \in BOOLEAN
ASSUME MaxCallsAssumption   == MaxCalls \in Nat

VARIABLES
    queue,          \* stepper_speed_control_queue
    call,           \* call[c]: where the call of task c is, "none" outside one
    arg,            \* arg[c]: the velocity of that call
    phase,          \* where the stepper task is; "off" until motors_init is done
    newVelocity,    \* the command it executes
    prevVelocity,   \* prev_velocity
    stepDirection,  \* step_direction
    dirPin,         \* level of the DIR pin
    rate,           \* magnitude of the step rate the PIO generates
    recent,         \* history: velocities of the calls no later call followed
    calls           \* history: number of calls so far

callVars  == <<call, arg, recent, calls>>
motorVars == <<phase, newVelocity, prevVelocity, stepDirection, dirPin, rate>>
vars      == <<queue, callVars, motorVars>>

Magnitude(v) == IF v < 0 THEN -v ELSE v

SameDirection_ZeroIsReverse(u, v) == (u > 0) <=> (v > 0)

SameDirection(u, v) == (u >= 0) <=> (v >= 0)

CallSteps    == {"none", "send", "discard", "resend"}
StepperSteps == {"off", "receive", "ramp", "rampdown", "turn", "rampup"}

InCall(c) == call[c] # "none"

Init ==
    /\ queue = <<>>
    /\ call = [c \in Callers |-> "none"]
    /\ arg = [c \in Callers |-> 0]
    /\ phase = "off"
    /\ newVelocity = 0
    /\ prevVelocity = 0
    /\ stepDirection = Inverted
    /\ dirPin = Inverted
    /\ rate = 0
    /\ recent = {0}
    /\ calls = 0

-----------------------------------------------------------------------------
(* motors_init reached its end: queue and task exist from now on.          *)
MotorsInit ==
    /\ phase = "off"
    /\ phase' = "receive"
    /\ UNCHANGED <<queue, callVars, newVelocity, prevVelocity, stepDirection,
                   dirPin, rate>>

-----------------------------------------------------------------------------
(* motor_set_speed.  A call made before the queue exists does nothing, so  *)
(* only the others are steps.                                              *)
SetSpeed(c, v) ==
    /\ phase # "off"
    /\ call[c] = "none"
    /\ calls < MaxCalls
    /\ calls' = calls + 1
    /\ call' = [call EXCEPT ![c] = "send"]
    /\ arg' = [arg EXCEPT ![c] = v]
    /\ recent' = {v} \cup {arg[d] : d \in {e \in Callers : InCall(e)}}
    /\ UNCHANGED <<queue, motorVars>>

Send_DropWhenFull(c) ==
    /\ call[c] = "send"
    /\ queue' = IF Len(queue) < QueueDepth THEN Append(queue, arg[c]) ELSE queue
    /\ call' = [call EXCEPT ![c] = "none"]
    /\ UNCHANGED <<arg, recent, calls, motorVars>>

Send(c) ==
    /\ call[c] = "send"
    /\ IF Len(queue) < QueueDepth
         THEN /\ queue' = Append(queue, arg[c])
              /\ call' = [call EXCEPT ![c] = "none"]
         ELSE /\ call' = [call EXCEPT ![c] = "discard"]
              /\ UNCHANGED queue
    /\ UNCHANGED <<arg, recent, calls, motorVars>>

(* The queue may be empty by now: the stepper task may have emptied it.    *)
Discard(c) ==
    /\ call[c] = "discard"
    /\ queue' = IF queue = <<>> THEN queue ELSE Tail(queue)
    /\ call' = [call EXCEPT ![c] = "resend"]
    /\ UNCHANGED <<arg, recent, calls, motorVars>>

Resend_Unchecked(c) ==
    /\ call[c] = "resend"
    /\ queue' = Append(queue, arg[c])
    /\ call' = [call EXCEPT ![c] = "none"]
    /\ UNCHANGED <<arg, recent, calls, motorVars>>

(* With the queue full again the command is lost, and only a warning tells. *)
Resend(c) ==
    /\ call[c] = "resend"
    /\ queue' = IF Len(queue) < QueueDepth THEN Append(queue, arg[c]) ELSE queue
    /\ call' = [call EXCEPT ![c] = "none"]
    /\ UNCHANGED <<arg, recent, calls, motorVars>>

-----------------------------------------------------------------------------
(* stepper_speed_control_task                                              *)
Receive ==
    /\ phase = "receive"
    /\ queue # <<>>
    /\ newVelocity' = Head(queue)
    /\ queue' = Tail(queue)
    /\ phase' = IF SameDirection(Head(queue), prevVelocity) THEN "ramp" ELSE "rampdown"
    /\ UNCHANGED <<callVars, prevVelocity, stepDirection, dirPin, rate>>

(* The last ramp of a command, then prev_velocity.                         *)
RampToSpeed ==
    /\ phase \in {"ramp", "rampup"}
    /\ rate' = Magnitude(newVelocity)
    /\ prevVelocity' = newVelocity
    /\ phase' = "receive"
    /\ UNCHANGED <<queue, callVars, newVelocity, stepDirection, dirPin>>

RampToStandstill_Skipped ==
    /\ phase = "rampdown"
    /\ phase' = "turn"
    /\ UNCHANGED <<queue, callVars, newVelocity, prevVelocity,
                   stepDirection, dirPin, rate>>

RampToStandstill ==
    /\ phase = "rampdown"
    /\ rate' = 0
    /\ phase' = "turn"
    /\ UNCHANGED <<queue, callVars, newVelocity, prevVelocity,
                   stepDirection, dirPin>>

ToggleDirection ==
    /\ phase = "turn"
    /\ stepDirection' = ~stepDirection
    /\ dirPin' = stepDirection'
    /\ phase' = "rampup"
    /\ UNCHANGED <<queue, callVars, newVelocity, prevVelocity, rate>>

StepperTask == Receive \/ RampToSpeed \/ RampToStandstill \/ ToggleDirection

CallStep(c) == Send(c) \/ Discard(c) \/ Resend(c)

Next ==
    \/ MotorsInit
    \/ \E c \in Callers, v \in Velocities : SetSpeed(c, v)
    \/ \E c \in Callers : CallStep(c)
    \/ StepperTask

Spec == Init /\ [][Next]_vars

(* The scheduler runs a ready task: the stepper tasks have a priority above *)
(* every caller but the timer daemon, and callers do not stay in the call.  *)
Fairness ==
    /\ WF_vars(StepperTask)
    /\ \A c \in Callers : WF_vars(CallStep(c))

FairSpec == Spec /\ Fairness

-----------------------------------------------------------------------------
TypeOK ==
    /\ queue \in Seq(Velocities)
    /\ Len(queue) <= QueueDepth
    /\ call \in [Callers -> CallSteps]
    /\ arg \in [Callers -> Velocities]
    /\ phase \in StepperSteps
    /\ newVelocity \in Velocities
    /\ prevVelocity \in Velocities
    /\ stepDirection \in BOOLEAN
    /\ dirPin \in BOOLEAN
    /\ rate \in Nat
    /\ recent \in SUBSET Velocities
    /\ calls \in Nat

(* The velocity the motor has after everything queued is executed.         *)
FinalVelocity ==
    IF queue # <<>> THEN queue[Len(queue)]
    ELSE IF phase \in {"off", "receive"} THEN prevVelocity ELSE newVelocity

NoCallInProgress == \A c \in Callers : ~InCall(c)

(* "always set the latest speed" (motors.c:493): once all calls have        *)
(* returned, what the motor is going to do is what a latest call asked for: *)
(* a stop that no other call followed is never undone or dropped, although  *)
(* a caller may remove the command another has just sent.                   *)
LatestCommandWins == NoCallInProgress => FinalVelocity \in recent

(* The strengthening of LatestCommandWins that every step preserves: if the *)
(* queue does not end in a latest command, some call has yet to send, and a *)
(* call that has made room finds room.                                      *)
LatestInv ==
    /\ \A c \in Callers : InCall(c) => arg[c] \in recent
    /\ \/ FinalVelocity \in recent
       \/ \E c \in Callers : call[c] \in {"send", "discard"}
       \/ Len(queue) < QueueDepth /\ \E c \in Callers : call[c] = "resend"

(* The DIR level that turns the motor the way of velocity v.               *)
DirectionOf(v) == IF v < 0 THEN ~Inverted ELSE Inverted

(* The motor never turns against the sign of the velocity that is being     *)
(* executed: toggling a flag stays in step with the sign of the commands,   *)
(* over any sequence of forward, stop and reverse commands.                 *)
TurnsAsCommanded ==
    /\ phase \in {"off", "receive"} => dirPin = DirectionOf(prevVelocity)
    /\ phase \in {"ramp", "rampup"} => dirPin = DirectionOf(newVelocity)
    /\ phase \in {"receive", "rampdown"} /\ rate > 0 => dirPin = DirectionOf(prevVelocity)

DirectionInv ==
    /\ dirPin = stepDirection
    /\ phase = "off" => prevVelocity = 0
    /\ phase \in {"off", "receive", "ramp", "rampdown", "turn"} =>
         dirPin = DirectionOf(prevVelocity)
    /\ phase = "rampup" => dirPin = DirectionOf(newVelocity)
    /\ phase = "ramp" => SameDirection(newVelocity, prevVelocity)
    /\ phase \in {"rampdown", "turn"} => ~SameDirection(newVelocity, prevVelocity)
    /\ phase \in {"turn", "rampup"} => rate = 0
    /\ phase \in {"off", "receive", "ramp", "rampdown"} => rate = Magnitude(prevVelocity)

(* The direction is switched only while no step pulses are generated.      *)
TurnOnlyAtStandstill == [][dirPin' # dirPin => rate = 0 /\ rate' = 0]_vars

(* When calls cease, the motor settles on a velocity a latest call asked   *)
(* for and keeps it.                                                       *)
Settles ==
    <>[](phase # "off" => phase = "receive" /\ prevVelocity \in recent /\ rate = Magnitude(prevVelocity))
=============================================================================
