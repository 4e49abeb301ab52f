---------------------------- MODULE RestRequests ----------------------------
(***************************************************************************)
(* The REST handlers that act on charge mode, cleanup mode, the gate, the   *)
(* button queue and the AI tuning session.  lwIP's thread runs one handler  *)
(* at a time, concurrently with the menu task on the other core.  A handler *)
(* reads what it decides on when it starts; http is what it still has to    *)
(* do, and every element is one step others can come between.              *)
(***************************************************************************)
EXTENDS TricklerState

CONSTANTS
    RestOps,      \* the requests clients make
    RestModes,    \* the values of s2 in /rest/charge_mode_state
    RestSpeeds    \* the values of s1 in /rest/cleanup_mode_state

AllRestOps == {"chargeState", "simStart", "simStop", "cleanupState", "cleanupSpeed",
               "gate", "button", "aiStart", "aiCancel", "aiApply"}

ASSUME RestAssumption  == RestOps \subseteq AllRestOps /\ RestModes \subseteq Modes
ASSUME SpeedAssumption == RestSpeeds \subseteq -MaxKnob..MaxKnob

VARIABLE http

(* What a handler can do in one step                                        *)
Effect(k, v)    == [do |-> k, with |-> v]
SendWaiting(e)  == Effect("send", e)        \* xQueueSend(.., portMAX_DELAY)
Post(e)         == Effect("post", e)        \* xQueueSend(.., 0)
SetMode(m)      == Effect("mode", m)
SetExitState(s) == Effect("exitState", s)
SetCleanup(c)   == Effect("cleanupState", c)
SetSession(s)   == Effect("session", s)
EnterIfExit     == Effect("enterIfExit", "charge")

Enter_charge  == <<SetExitState("charge"), SendWaiting("OVERRIDE")>>
Enter_cleanup == <<SetExitState("cleanup"), SendWaiting("OVERRIDE")>>

(* A request arrives and its handler is to do p.                           *)
Request(op, p) ==
    /\ http = <<>>
    /\ op \in RestOps
    /\ http' = p
    /\ UNCHANGED stateVars

-----------------------------------------------------------------------------
(* http_rest_charge_mode_state, parameter s2                               *)
RestChargeState(v) ==
    Request("chargeState",
        (CASE v = "EXIT" /\ mode # "EXIT" -> <<SendWaiting("RST")>>
           [] v = "ZERO" /\ mode = "EXIT" -> Enter_charge
           [] OTHER                       -> <<>>) \o <<SetMode(v)>>)

(* http_rest_charge_mode_sim, parameter sim                                *)
RestSimStart == Request("simStart", Enter_charge \o <<SetMode("ZERO")>>)
RestSimStop  == Request("simStop", <<SetMode("EXIT"), SendWaiting("RST")>>)

(* http_rest_cleanup_mode_state, parameters s0 and s1                       *)
RestCleanupState(v) ==
    Request("cleanupState",
        (CASE v = "EXIT" /\ cleanupState # "EXIT"   -> <<SendWaiting("RST")>>
           [] v = "ENTER" /\ cleanupState # "ENTER" -> Enter_cleanup
           [] OTHER                                 -> <<>>) \o <<SetCleanup(v)>>)

RestCleanupSpeed(v) == Request("cleanupSpeed", <<Effect("speed", v)>>)

(* http_rest_servo_gate_state, http_rest_button_control                     *)
RestGate(g)   == Request("gate", <<Effect("gate", g)>>)
RestButton(e) == Request("button", <<Post(e)>>)

(* http_rest_ai_tuning_start, _cancel and _apply                            *)
RestAiStart == Request("aiStart", <<SetSession("phase1"), EnterIfExit>>)

RestAiCancel ==
    Request("aiCancel",
        <<SetSession("idle")>> \o
        IF TuningActive THEN <<SetMode("EXIT"), Post("RST")>> ELSE <<>>)

RestAiApply ==
    /\ tuning = "complete"
    /\ Request("aiApply", <<SetSession("idle")>>)

NewRequest ==
    \/ \E v \in RestModes : RestChargeState(v)
    \/ RestSimStart \/ RestSimStop
    \/ \E v \in {"EXIT", "ENTER"} : RestCleanupState(v)
    \/ \E v \in RestSpeeds : RestCleanupSpeed(v)
    \/ \E g \in GateStates : RestGate(g)
    \/ \E e \in {"CW", "CCW", "PRESS", "RST"} : RestButton(e)
    \/ RestAiStart \/ RestAiCancel \/ RestAiApply

-----------------------------------------------------------------------------
(* The handler does the next thing it has to do.                           *)
Doing(k) == http # <<>> /\ Head(http).do = k
Arg      == Head(http).with
Done     == http' = Tail(http)

HandleSend ==
    /\ Doing("send") /\ Done
    /\ HasRoom
    /\ events' = Append(events, Arg)
    /\ UNCHANGED <<pc, mode, exitState, motorVars, gate, chargeVars, tuning, cleanupVars>>

HandlePost ==
    /\ Doing("post") /\ Done
    /\ TrySend(Arg)
    /\ UNCHANGED <<pc, mode, exitState, motorVars, gate, chargeVars, tuning, cleanupVars>>

HandleMode ==
    /\ Doing("mode") /\ Done
    /\ mode' = Arg
    /\ UNCHANGED <<pc, exitState, events, motorVars, gate, chargeVars, tuning, cleanupVars>>

HandleExitState ==
    /\ Doing("exitState") /\ Done
    /\ exitState' = Arg
    /\ UNCHANGED <<pc, mode, events, motorVars, gate, chargeVars, tuning, cleanupVars>>

HandleCleanup ==
    /\ Doing("cleanupState") /\ Done
    /\ cleanupState' = Arg
    /\ UNCHANGED <<pc, mode, exitState, events, motorVars, gate, chargeVars, tuning, knob>>

HandleSpeed ==
    /\ Doing("speed") /\ Done
    /\ TurnKnob(Arg)
    /\ UNCHANGED <<pc, mode, exitState, events, enabled, gate, chargeVars, tuning,
                   cleanupState>>

HandleGate ==
    /\ Doing("gate") /\ Done
    /\ gate' = Arg
    /\ UNCHANGED <<pc, mode, exitState, events, motorVars, chargeVars, tuning, cleanupVars>>

HandleSession ==
    /\ Doing("session") /\ Done
    /\ tuning' = Arg
    /\ UNCHANGED <<pc, mode, exitState, events, motorVars, gate, chargeVars, cleanupVars>>

HandleEnter ==
    /\ Doing("enterIfExit")
    /\ http' = IF mode = "EXIT" THEN <<SetExitState("charge"), Post("OVERRIDE")>> ELSE <<>>
    /\ UNCHANGED stateVars

HttpStep ==
    \/ HandleSend \/ HandlePost \/ HandleMode \/ HandleExitState \/ HandleCleanup
    \/ HandleSpeed \/ HandleGate \/ HandleSession \/ HandleEnter
=============================================================================
