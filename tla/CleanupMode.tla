----------------------------- MODULE CleanupMode -----------------------------
(***************************************************************************)
(* cleanup_mode_menu (src/cleanup_mode.cpp), as the menu task executes it:  *)
(* the knob sets one speed for both motors until the reset button.         *)
(***************************************************************************)
EXTENDS TricklerState

(* On leaving, gate_state says whether there is an open gate to close; it   *)
(* may still be that of an earlier move (see CleanupGate).                 *)
CloseIfSeenOpen == MoveGate("close") \/ UNCHANGED gate

(* The speed has no bound in the code; here it stops at MaxKnob.           *)
UpTo(v) == CASE v > MaxKnob  -> MaxKnob
             [] v < -MaxKnob -> -MaxKnob
             [] OTHER        -> v

CleanupFrame == UNCHANGED <<mode, exitState, tuning, chargeVars>>

CleanupEnter ==
    /\ pc = "cleanupEnter"
    /\ knob' = 0
    /\ cleanupState' = "ENTER"
    /\ EnableBoth
    /\ pc' = "cleanupOpen"
    /\ CleanupFrame
    /\ UNCHANGED <<events, speed, gate>>

CleanupOpen ==
    /\ pc = "cleanupOpen"
    /\ MoveGate("open")
    /\ pc' = "cleanup"
    /\ CleanupFrame
    /\ UNCHANGED <<events, motorVars, cleanupVars>>

(* One event of the queue; the task waits for it without a timeout.        *)
CleanupEvent ==
    /\ pc = "cleanup"
    /\ events # <<>>
    /\ TakeEvent
    /\ CASE NextEvent = "RST"   -> TurnKnob(0) /\ pc' = "cleanupExit"
         [] NextEvent = "PRESS" -> TurnKnob(0) /\ UNCHANGED pc
         [] NextEvent = "CW"    -> TurnKnob(UpTo(knob + 1)) /\ UNCHANGED pc
         [] NextEvent = "CCW"   -> TurnKnob(UpTo(knob - 1)) /\ UNCHANGED pc
         [] OTHER               -> UNCHANGED <<knob, speed, pc>>
    /\ CleanupFrame
    /\ UNCHANGED <<enabled, gate, cleanupState>>

CleanupExit_LeavesEnabled ==
    /\ pc = "cleanupExit"
    /\ CloseIfSeenOpen
    /\ cleanupState' = "EXIT"
    /\ pc' = "form"
    /\ CleanupFrame
    /\ UNCHANGED <<events, motorVars, knob>>

CleanupExit ==
    /\ pc = "cleanupExit"
    /\ DisableBoth
    /\ CloseIfSeenOpen
    /\ cleanupState' = "EXIT"
    /\ pc' = "form"
    /\ CleanupFrame
    /\ UNCHANGED <<events, knob>>

CleanupMode == CleanupEnter \/ CleanupOpen \/ CleanupEvent \/ CleanupExit
=============================================================================
