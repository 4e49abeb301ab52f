------------------------------ MODULE ServoGate ------------------------------
(***************************************************************************)
(* The servo gate: servo_gate_set_state and the gate task                   *)
(* (src/servo_gate.c).                                                     *)
(*                                                                         *)
(* A caller empties the "move ready" semaphore, sends its command to a      *)
(* queue of one, and, if it asked to wait, takes the semaphore.  Both waits *)
(* end after a timeout without telling the caller.  The gate task takes a   *)
(* command, ramps the servos, gives the semaphore and then publishes the    *)
(* new gate_state.                                                         *)
(*                                                                         *)
(* The open ratio is abstracted to fully open, fully closed and between;    *)
(* before the first command the servos get no pulse at all.                *)
(*                                                                         *)
(* A definition named X_Variant is X with a plausible mistake, used only by *)
(* the sensitivity checks PROJECT.json lists.                              *)
(***************************************************************************)
EXTENDS Integers, Sequences

CONSTANTS
    Callers,      \* tasks that call servo_gate_set_state
    Powered,      \* gate_state at start-up: "open" if enabled, else "disabled"
    Slow,         \* a ramp can outlast the timeouts of 500 ms and 2000 ms
    MaxCalls      \* bound on the calls of one behaviour

ASSUME CallersAssumption  == Callers # {}
ASSUME PoweredAssumption  == Powered \in {"open", "disabled"}
ASSUME SlowAssumption     == Slow \in BOOLEAN
ASSUME MaxCallsAssumption == MaxCalls \in Nat

VARIABLES
    queue,      \* control_queue, of length one
    ready,      \* move_ready_semphore is given
    call,       \* call[c]: where the call of task c is, "none" outside one
    arg,        \* arg[c]: the gate state of that call
    block,      \* block[c]: its block_wait
    phase,      \* where the gate task is
    newState,   \* the command it executes
    position,   \* of the gate
    gateState,  \* servo_gate.gate_state, as the other tasks read it
    lastSent,   \* history: the last valid command put in the queue
    alone,      \* alone[c]: history: c called with the gate at rest, alone since
    calls       \* history: number of calls so far

callerVars == <<call, arg, block, alone, calls>>
gateVars   == <<phase, newState, position, gateState>>
vars       == <<queue, ready, callerVars, gateVars, lastSent>>

GateStates == {"open", "close", "disabled"}
Commands   == GateStates \cup {"invalid"}   \* g0 of the REST call is any number

PositionOf(s) == IF s = "close" THEN "closed" ELSE "opened"

InCall(c) == call[c] # "none"
AtRest    == phase = "receive" /\ queue = <<>>

Init ==
    /\ queue = <<>>
    /\ ready = FALSE
    /\ call = [c \in Callers |-> "none"]
    /\ arg = [c \in Callers |-> "close"]
    /\ block = [c \in Callers |-> FALSE]
    /\ phase = "receive"
    /\ newState = Powered
    /\ position = "unpowered"
    /\ gateState = Powered
    /\ lastSent = Powered
    /\ alone = [c \in Callers |-> FALSE]
    /\ calls = 0

-----------------------------------------------------------------------------
(* servo_gate_set_state                                                     *)
SetState_KeepsSemaphore(c, s, b) ==
    /\ call[c] = "none"
    /\ b => s \in GateStates
    /\ calls < MaxCalls
    /\ calls' = calls + 1
    /\ call' = [call EXCEPT ![c] = "send"]
    /\ arg' = [arg EXCEPT ![c] = s]
    /\ block' = [block EXCEPT ![c] = b]
    /\ alone' = [d \in Callers |->
                    d = c /\ AtRest /\ \A e \in Callers \ {c} : ~InCall(e)]
    /\ UNCHANGED <<queue, ready, gateVars, lastSent>>

(* Only callers with a constant argument ask to wait.                       *)
SetState(c, s, b) ==
    /\ call[c] = "none"
    /\ b => s \in GateStates
    /\ calls < MaxCalls
    /\ calls' = calls + 1
    /\ ready' = FALSE
    /\ call' = [call EXCEPT ![c] = "send"]
    /\ arg' = [arg EXCEPT ![c] = s]
    /\ block' = [block EXCEPT ![c] = b]
    /\ alone' = [d \in Callers |->
                    d = c /\ AtRest /\ \A e \in Callers \ {c} : ~InCall(e)]
    /\ UNCHANGED <<queue, gateVars, lastSent>>

Send_Unchecked(c) ==
    /\ call[c] = "send"
    /\ queue' = Append(queue, arg[c])
    /\ call' = [call EXCEPT ![c] = IF block[c] THEN "wait" ELSE "none"]
    /\ lastSent' = IF arg[c] \in GateStates THEN arg[c] ELSE lastSent
    /\ UNCHANGED <<ready, arg, block, alone, calls, gateVars>>

Send(c) ==
    /\ call[c] = "send"
    /\ queue = <<>>
    /\ queue' = <<arg[c]>>
    /\ call' = [call EXCEPT ![c] = IF block[c] THEN "wait" ELSE "none"]
    /\ lastSent' = IF arg[c] \in GateStates THEN arg[c] ELSE lastSent
    /\ UNCHANGED <<ready, arg, block, alone, calls, gateVars>>

(* Only a ramp takes long enough for a timeout.                            *)
LongRamp == Slow /\ phase = "move" /\ position = "between"

(* The command is dropped.                                                 *)
SendTimeout(c) ==
    /\ LongRamp
    /\ call[c] = "send"
    /\ queue # <<>>
    /\ call' = [call EXCEPT ![c] = "none"]
    /\ UNCHANGED <<queue, ready, arg, block, alone, calls, gateVars, lastSent>>

WaitReady(c) ==
    /\ call[c] = "wait"
    /\ ready
    /\ ready' = FALSE
    /\ call' = [call EXCEPT ![c] = "none"]
    /\ UNCHANGED <<queue, arg, block, alone, calls, gateVars, lastSent>>

WaitTimeout_Forever(c) == FALSE /\ call[c] = "wait" /\ UNCHANGED vars

(* A wait can also run out because another caller took or emptied the       *)
(* semaphore, whatever the speed of the gate.                              *)
WaitTimeout(c) ==
    /\ call[c] = "wait"
    /\ ~ready
    /\ LongRamp \/ AtRest
    /\ call' = [call EXCEPT ![c] = "none"]
    /\ UNCHANGED <<queue, ready, arg, block, alone, calls, gateVars, lastSent>>

-----------------------------------------------------------------------------
(* servo_gate_control_task                                                  *)
Receive ==
    /\ phase = "receive"
    /\ queue # <<>>
    /\ queue' = <<>>
    /\ IF Head(queue) \in GateStates
         THEN newState' = Head(queue) /\ phase' = "move"
         ELSE UNCHANGED <<newState, phase>>
    /\ UNCHANGED <<ready, callerVars, position, gateState, lastSent>>

(* A step of the ramp; there is none the first time, with a speed of zero,  *)
(* or without a way to go.                                                 *)
RampStep ==
    /\ phase = "move"
    /\ position \notin {"unpowered", PositionOf(newState)}
    /\ position' = "between"
    /\ UNCHANGED <<queue, ready, callerVars, phase, newState, gateState, lastSent>>

Arrive_RampOnly ==
    /\ phase = "move"
    /\ position' = IF position = "unpowered" THEN PositionOf(newState) ELSE position
    /\ phase' = "signal"
    /\ UNCHANGED <<queue, ready, callerVars, newState, gateState, lastSent>>

Arrive ==
    /\ phase = "move"
    /\ position' = PositionOf(newState)
    /\ phase' = "signal"
    /\ UNCHANGED <<queue, ready, callerVars, newState, gateState, lastSent>>

Signal ==
    /\ phase = "signal"
    /\ ready' = TRUE
    /\ phase' = "publish"
    /\ UNCHANGED <<queue, callerVars, newState, position, gateState, lastSent>>

Publish ==
    /\ phase = "publish"
    /\ gateState' = newState
    /\ phase' = "receive"
    /\ UNCHANGED <<queue, ready, callerVars, newState, position, lastSent>>

GateTask == Receive \/ RampStep \/ Arrive \/ Signal \/ Publish

CallStep(c) == Send(c) \/ SendTimeout(c) \/ WaitReady(c) \/ WaitTimeout(c)

Next ==
    \/ \E c \in Callers, s \in Commands, b \in BOOLEAN : SetState(c, s, b)
    \/ \E c \in Callers : CallStep(c)
    \/ GateTask

Spec == Init /\ [][Next]_vars

(* The gate task is ready or computing whenever a step of it is enabled, a  *)
(* ramp ends after ramp_time_us, and a call ends at its timeout at latest.  *)
Fairness ==
    /\ WF_vars(Receive) /\ WF_vars(Arrive) /\ WF_vars(Signal) /\ WF_vars(Publish)
    /\ \A c \in Callers : WF_vars(CallStep(c))

FairSpec == Spec /\ Fairness

-----------------------------------------------------------------------------
TypeOK ==
    /\ queue \in {<<>>} \cup {<<s>> : s \in Commands}
    /\ ready \in BOOLEAN
    /\ call \in [Callers -> {"none", "send", "wait"}]
    /\ arg \in [Callers -> Commands]
    /\ block \in [Callers -> BOOLEAN]
    /\ phase \in {"receive", "move", "signal", "publish"}
    /\ newState \in GateStates
    /\ position \in {"unpowered", "opened", "between", "closed"}
    /\ gateState \in GateStates
    /\ lastSent \in GateStates
    /\ alone \in [Callers -> BOOLEAN]
    /\ calls \in Nat

(* A gate at rest is where the last valid command accepted from any caller  *)
(* sent it, and gate_state, which charge mode, cleanup mode and the REST    *)
(* interface read, says so (servo_gate.c:149-154).                         *)
AtRestAsCommanded ==
    AtRest => /\ gateState = lastSent
              /\ position \in {"unpowered", PositionOf(gateState)}

AtRestInv ==
    /\ queue # <<>> /\ queue[1] \in GateStates => lastSent = queue[1]
    /\ phase = "receive" /\ (queue = <<>> \/ queue[1] \notin GateStates)
         => gateState = lastSent
    /\ phase # "receive" /\ (queue = <<>> \/ queue[1] \notin GateStates)
         => newState = lastSent
    /\ phase = "receive" => position \in {"unpowered", PositionOf(gateState)}
    /\ phase \in {"signal", "publish"} => position = PositionOf(newState)

(* "Signal the motion is ready" (servo_gate.c:149): a call that waits, made *)
(* with the gate at rest and not joined by another call, and that did not   *)
(* time out, returns with the gate where it asked for; the signal of an     *)
(* earlier move nobody waited for is not taken for this one.               *)
WaitMeansThere ==
    [][\A c \in Callers : WaitReady(c) /\ alone[c] => position = PositionOf(arg[c])]_vars

AloneInv ==
    \A c \in Callers : alone[c] /\ InCall(c) =>
        /\ \A d \in Callers \ {c} : ~InCall(d)
        /\ call[c] = "send" => AtRest /\ ~ready
        /\ block[c] => arg[c] \in GateStates
        /\ call[c] = "wait" =>
             /\ block[c]
             /\ \/ phase = "receive" /\ queue = <<arg[c]>> /\ ~ready
                \/ phase = "move" /\ queue = <<>> /\ newState = arg[c] /\ ~ready
                \/ /\ phase = "signal" /\ queue = <<>> /\ ~ready
                   /\ position = PositionOf(arg[c])
                \/ /\ phase \in {"publish", "receive"} /\ queue = <<>>
                   /\ position = PositionOf(arg[c])

(* No caller waits for ever ("prevent freeze", servo_gate.c:74), even when  *)
(* another caller takes the signal it waits for.                           *)
EveryCallReturns == \A c \in Callers : InCall(c) ~> ~InCall(c)
=============================================================================
