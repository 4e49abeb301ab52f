------------------------------ MODULE Trickler ------------------------------
(***************************************************************************)
(* The trickler as a whole: the menu task with charge mode and cleanup mode *)
(* inside it (src/menu.cpp), the REST handlers, and the button interrupts   *)
(* (src/encoder.cpp).                                                      *)
(***************************************************************************)
EXTENDS ChargeMode, CleanupMode, RestRequests

CONSTANT Inputs        \* the events of the encoder and its buttons
ASSUME InputAssumption == Inputs \subseteq {"CW", "CCW", "PRESS", "RST"}

vars == <<stateVars, http>>

Init == InitState /\ http = <<>>

-----------------------------------------------------------------------------
(* The form loop of menu_task takes one event.  Selecting a field may leave *)
(* the form, with exit_state set by the field or left alone.               *)
FormLeave ==
    /\ Goto("form", "dispatch")
    /\ NextEvent \in {"PRESS", "OVERRIDE"}
    /\ TakeEvent
    /\ \/ UNCHANGED exitState
       \/ NextEvent = "PRESS" /\ exitState' \in ExitStates
    /\ UNCHANGED <<mode, motorVars, gate, chargeVars, tuning, cleanupVars>>

FormStay ==
    /\ pc = "form"
    /\ events # <<>> /\ NextEvent # "OVERRIDE"
    /\ TakeEvent
    /\ UNCHANGED <<pc, mode, exitState, motorVars, gate, chargeVars, tuning, cleanupVars>>

(* Out of the form: exit_state is read and reset in one critical section.   *)
Dispatch ==
    /\ pc = "dispatch"
    /\ exitState' = "default"
    /\ pc' = CASE exitState = "charge"  -> "enter"
               [] exitState = "cleanup" -> "cleanupEnter"
               [] OTHER                 -> "form"
    /\ UNCHANGED <<mode, events, motorVars, gate, chargeVars, tuning, cleanupVars>>

MenuTask ==
    /\ FormLeave \/ FormStay \/ Dispatch \/ ChargeMode \/ CleanupMode
    /\ UNCHANGED http

(* The interrupts of the encoder and the buttons                            *)
Button(e) ==
    /\ TrySend(e)
    /\ UNCHANGED <<pc, mode, exitState, motorVars, gate, chargeVars, tuning, cleanupVars,
                   http>>

Next ==
    \/ MenuTask
    \/ \E e \in Inputs : Button(e)
    \/ NewRequest
    \/ HttpStep

Spec == Init /\ [][Next]_vars

(* Both tasks run when they can; nobody has to press or request anything.   *)
Fairness == WF_vars(MenuTask) /\ WF_vars(HttpStep)
FairSpec == Spec /\ Fairness

-----------------------------------------------------------------------------
TypeOK ==
    /\ StateTypeOK
    /\ Len(http) <= 3
    /\ \A i \in DOMAIN http : DOMAIN http[i] = {"do", "with"}

Turning(m) == enabled[m] /\ speed[m] # "stop"
Feeding(m) == enabled[m] /\ speed[m] = "fwd"

(* Motors turn only while a charge runs or in cleanup mode: not while the   *)
(* operator has the pan in hand (waiting for zero, removal, return), nor in *)
(* the menu.  Every way out of a charge (drop made, reset, scale lost,      *)
(* state changed by REST) has to have stopped them first.                  *)
StillSteps == {"form", "dispatch", "start", "loop", "zero", "zeroed", "end", "record",
               "precharge", "done", "report", "removal", "return", "exit", "disable"}
StillWhenWaiting == pc \in StillSteps => \A m \in Motors : ~Turning(m)

(* In the menu the drivers are off, whatever speed REST asks of a motor.    *)
OffInMenu == pc \in {"form", "dispatch"} => \A m \in Motors : ~enabled[m]

(* charge_mode.cpp:618: powder is fed against a closed gate only to fill    *)
(* the tube for the next charge.                                           *)
NoFeedOnClosedGate ==
    \A m \in Motors : Feeding(m) /\ gate = "close" => pc = "prechargeEnd" /\ m = "coarse"

(* Once coarse feeding was cut in a charge it does not start again in it,   *)
(* however the readings move, unless a tuning session of the coarse motor   *)
(* begins in the middle of the charge.                                     *)
CoarseStaysCut ==
    [][ ~coarseMove /\ ~coarseMove' /\ ~Feeding("coarse") /\ Feeding("coarse")'
        => pc = "precharge" \/ MotorMode = "coarse only" ]_vars

(* A reset that is in the queue while a mode runs ends the mode.            *)
ResetPending == pc \in ChargeSteps \cup CleanupSteps /\ \E i \in DOMAIN events : events[i] = "RST"
ResetEnds == ResetPending ~> pc = "form"

(* ai_tuning.c:579: cancelling a session that is active makes charge mode   *)
(* exit (unless another one starts).  Here the session is idle again and    *)
(* the exit is still to come.                                              *)
Cancelling == http # <<>> /\ http = <<SetMode("EXIT"), Post("RST")>> /\ pc \in ChargeSteps
CancelEnds == Cancelling ~> (pc = "form" \/ TuningActive)

(* rest_ai_tuning.c:104: a tuning session that starts with the menu shown   *)
(* makes charge mode run.                                                  *)
StartingSession ==
    pc = "form" /\ tuning = "phase1" /\ http = <<SetExitState("charge"), Post("OVERRIDE")>>
StartRuns == StartingSession ~> pc \in ChargeSteps

-----------------------------------------------------------------------------
(* The cycle this implements.  At the head of the loop in charge_mode_menu  *)
(* the phase is the one the loop is about to enter.                        *)
Phase ==
    CASE pc \in {"form", "dispatch", "enter", "calm", "start", "exit", "disable",
                 "cleanupEnter", "cleanupExit"}          -> "off"
      [] pc \in {"cleanupOpen", "cleanup"}               -> "cleanup"
      [] pc \in {"zero", "zeroed"}                       -> "zero"
      [] pc \in {"end", "record", "precharge", "prechargeEnd", "done"} -> "refill"
      [] pc \in {"report", "removal"}                    -> "removal"
      [] pc = "return"                                   -> "return"
      [] pc = "loop" -> CASE mode = "ZERO"     -> "zero"
                          [] mode = "COMPLETE" -> "charge"
                          [] mode = "REMOVAL"  -> "removal"
                          [] mode = "RETURN"   -> "return"
                          [] OTHER             -> "off"
      [] OTHER                                           -> "charge"

Cycle == INSTANCE DispenseCycle WITH
            Feeders <- Motors,
            phase   <- Phase,
            feeding <- {m \in Motors : Feeding(m)}
Implements == Cycle!Spec
=============================================================================
