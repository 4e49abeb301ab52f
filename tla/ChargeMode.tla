----------------------------- MODULE ChargeMode -----------------------------
(***************************************************************************)
(* charge_mode_menu and the four functions it loops over                    *)
(* (src/charge_mode.cpp), as the menu task executes them.  A step ends      *)
(* where the task waits or where another task can act on what it does.      *)
(*                                                                         *)
(* A definition named X_Variant is X with a plausible mistake, used only by *)
(* the sensitivity checks PROJECT.json lists.                              *)
(***************************************************************************)
EXTENDS TricklerState

\* What a measurement says: none in time; more than coarse_stop_threshold
\* missing; less than it; at most fine_stop_threshold missing.
Readings == {"none", "far", "near", "full"}

Goto(from, to) == pc = from /\ pc' = to

(* A function of charge mode returns with the next state set; its local     *)
(* variables are gone.                                                     *)
Finish(m) ==
    /\ mode' = m
    /\ pc' = "loop"
    /\ coarseMove' = TRUE
    /\ failCount' = 0

(* What no step of charge mode touches                                     *)
ChargeFrame == UNCHANGED <<exitState, cleanupVars>>

-----------------------------------------------------------------------------
(* charge_mode_menu                                                         *)
Enter ==
    /\ Goto("enter", "calm")
    /\ EnableBoth
    /\ ChargeFrame
    /\ UNCHANGED <<mode, events, speed, gate, tuning, chargeVars>>

Calm ==
    /\ Goto("calm", "start")
    /\ StopBoth
    /\ MoveGate("close")
    /\ ChargeFrame
    /\ UNCHANGED <<mode, events, enabled, tuning, chargeVars>>

Start ==
    /\ pc = "start"
    /\ Finish("ZERO")
    /\ ChargeFrame
    /\ UNCHANGED <<events, motorVars, gate, tuning, aiPending>>

Loop ==
    /\ pc = "loop"
    /\ pc' = CASE mode = "ZERO"    -> "zero"
               [] mode = "REMOVAL" -> "report"
               [] mode = "RETURN"  -> "return"
               [] OTHER            -> "exit"
    /\ mode # "COMPLETE"
    /\ ChargeFrame
    /\ UNCHANGED <<mode, events, motorVars, gate, tuning, chargeVars>>

BeginCharge_KeepsGate ==
    /\ pc = "loop"
    /\ mode = "COMPLETE"
    /\ coarseMove' = TRUE
    /\ failCount' = 0
    /\ pc' = IF MotorMode = "fine only" THEN "fill" ELSE "poll"
    /\ ChargeFrame
    /\ UNCHANGED <<mode, events, motorVars, gate, tuning, aiPending>>

(* The loop calls charge_mode_wait_for_complete: its first lines.          *)
BeginCharge ==
    /\ pc = "loop"
    /\ mode = "COMPLETE"
    /\ MoveGate("open")
    /\ coarseMove' = TRUE
    /\ failCount' = 0
    /\ pc' = IF MotorMode = "fine only" THEN "fill" ELSE "poll"
    /\ ChargeFrame
    /\ UNCHANGED <<mode, events, motorVars, tuning, aiPending>>

Exit ==
    /\ Goto("exit", "disable")
    /\ StopBoth
    /\ MoveGate("close")
    /\ ChargeFrame
    /\ UNCHANGED <<mode, events, enabled, tuning, chargeVars>>

Disable ==
    /\ Goto("disable", "form")
    /\ DisableBoth
    /\ ChargeFrame
    /\ UNCHANGED <<mode, events, gate, tuning, chargeVars>>

-----------------------------------------------------------------------------
(* The reset button in the loop of any of the functions; only waiting for   *)
(* zero also closes the gate, the others leave that to Exit.               *)
Reset(from) ==
    /\ pc = from
    /\ NextEvent = "RST"
    /\ TakeEvent
    /\ StopBoth
    /\ IF from = "zero" THEN MoveGate("close") ELSE UNCHANGED gate
    /\ Finish("EXIT")
    /\ ChargeFrame
    /\ UNCHANGED <<enabled, tuning, aiPending>>

(* One pass of a loop that only waits: it goes on or its scale condition    *)
(* is met.                                                                 *)
WaitPass(from, met) ==
    /\ pc = from
    /\ NextEvent # "RST"
    /\ TakeEvent
    /\ pc' \in {from, met}
    /\ ChargeFrame
    /\ UNCHANGED <<mode, motorVars, gate, tuning, chargeVars>>

(* charge_mode_wait_for_zero                                                *)
Zero == WaitPass("zero", "zeroed") \/ Reset("zero")

Zeroed ==
    /\ pc = "zeroed"
    /\ Finish("COMPLETE")
    /\ ChargeFrame
    /\ UNCHANGED <<events, motorVars, gate, tuning, aiPending>>

-----------------------------------------------------------------------------
(* charge_mode_wait_for_complete                                            *)
EmergencyStop ==
    /\ DisableBoth
    /\ MoveGate("close")
    /\ Finish("EXIT")

NoMeasurement_OneMore(from, again) ==
    /\ pc = from
    /\ IF failCount + 1 > FailLimit
         THEN EmergencyStop
         ELSE /\ failCount' = failCount + 1
              /\ pc' = again
              /\ UNCHANGED <<mode, motorVars, gate, coarseMove>>
    /\ ChargeFrame
    /\ UNCHANGED <<events, tuning, aiPending>>

(* No measurement within 200 ms, in the loop whose pass begins at "again"   *)
NoMeasurement(from, again) ==
    /\ pc = from
    /\ IF failCount + 1 >= FailLimit
         THEN EmergencyStop
         ELSE /\ failCount' = failCount + 1
              /\ pc' = again
              /\ UNCHANGED <<mode, motorVars, gate, coarseMove>>
    /\ ChargeFrame
    /\ UNCHANGED <<events, tuning, aiPending>>

(* Phase 2 of AI tuning first fills the pan with the coarse motor.         *)
Fill ==
    /\ pc = "fill"
    /\ failCount' = 0
    /\ \/ \E d \in {"stop", "fwd"} : SetSpeed("coarse", d) /\ pc' = "fillPoll"
       \/ \E d \in {"stop", "rev"} : SetSpeed("coarse", d) /\ pc' = "fillSettle"
    /\ ChargeFrame
    /\ UNCHANGED <<mode, events, enabled, gate, tuning, coarseMove,
                   aiPending>>

FillPoll ==
    \/ Reset("fillPoll")
    \/ (WaitPass("fillPoll", "fill") /\ pc' = "fill")

FillSettle ==
    /\ Goto("fillSettle", "poll")
    /\ SetSpeed("coarse", "stop")
    /\ failCount' = 0
    /\ ChargeFrame
    /\ UNCHANGED <<mode, events, enabled, gate, tuning, coarseMove,
                   aiPending>>

Poll ==
    \/ Reset("poll")
    \/ (WaitPass("poll", "measure") /\ pc' = "measure")

(* A measurement r arrived; MotorMode is read anew at every one.           *)
Measured(r) ==
    /\ pc = "measure"
    /\ r # "none"
    /\ failCount' = 0
    /\ ChargeFrame
    /\ UNCHANGED <<mode, events, enabled, gate, tuning, aiPending>>

CoarseOnlyStop(r) ==
    /\ Measured(r)
    /\ MotorMode = "coarse only"
    /\ r \in {"near", "full"}
    /\ \/ SetSpeed("coarse", "rev") /\ pc' = "reverse"
       \/ StopBoth /\ pc' = "end"
    /\ UNCHANGED coarseMove

Reverse ==
    /\ Goto("reverse", "end")
    /\ StopBoth
    /\ ChargeFrame
    /\ UNCHANGED <<mode, events, enabled, gate, tuning, chargeVars>>

FullStop_KeepsFine(r) ==
    /\ Measured(r)
    /\ MotorMode # "coarse only"
    /\ r = "full"
    /\ SetSpeed("coarse", "stop")
    /\ pc' = "end"
    /\ UNCHANGED coarseMove

FullStop(r) ==
    /\ Measured(r)
    /\ MotorMode # "coarse only"
    /\ r = "full"
    /\ StopBoth
    /\ pc' = "end"
    /\ UNCHANGED coarseMove

RunCoarse_IgnoresCut(r) ==
    /\ Measured(r)
    /\ r = "far"
    /\ MotorMode \in {"coarse only", "normal"}
    /\ \E d \in {"stop", "fwd"} : speed' = [coarse |-> d, fine |-> "stop"]
    /\ pc' = "poll"
    /\ UNCHANGED coarseMove

(* The PID output moves the coarse motor forward or, if not positive, not   *)
(* at all; the fine motor is off.                                          *)
RunCoarse(r) ==
    /\ Measured(r)
    /\ r = "far"
    /\ MotorMode = "coarse only" \/ (MotorMode = "normal" /\ coarseMove)
    /\ \E d \in {"stop", "fwd"} : speed' = [coarse |-> d, fine |-> "stop"]
    /\ pc' = "poll"
    /\ UNCHANGED coarseMove

(* The coarse motor has done its part of the charge.                       *)
CutCoarse(r) ==
    /\ Measured(r)
    /\ MotorMode = "normal" /\ coarseMove /\ r = "near"
    /\ coarseMove' = FALSE
    /\ \E d \in {"stop", "rev"} : speed' = [coarse |-> d, fine |-> "stop"]
    /\ pc' = "settle"

Settle ==
    /\ Goto("settle", "poll")
    /\ SetSpeed("coarse", "stop")
    /\ ChargeFrame
    /\ UNCHANGED <<mode, events, enabled, gate, tuning, chargeVars>>

(* The fine motor by PID, or as one pulse close to the target.             *)
RunFine(r) ==
    /\ Measured(r)
    /\ r \in {"far", "near"}
    /\ MotorMode = "fine only" \/ (MotorMode = "normal" /\ ~coarseMove)
    /\ \/ \E d \in {"stop", "fwd"} :
             speed' = [coarse |-> "stop", fine |-> d] /\ pc' = "poll"
       \/ speed' = [coarse |-> "stop", fine |-> "fwd"] /\ pc' = "pulse"
    /\ UNCHANGED coarseMove

Pulse ==
    /\ Goto("pulse", "poll")
    /\ SetSpeed("fine", "stop")
    /\ ChargeFrame
    /\ UNCHANGED <<mode, events, enabled, gate, tuning, chargeVars>>

(* After the loop: the gate, for which the task waits                       *)
End ==
    /\ Goto("end", "record")
    /\ MoveGate("close")
    /\ ChargeFrame
    /\ UNCHANGED <<mode, events, motorVars, tuning, chargeVars>>

(* What the drop is to be recorded as, and whether to fill the coarse tube  *)
(* for the next one                                                        *)
Record ==
    /\ pc = "record"
    /\ aiPending' = (aiPending \/ TuningActive)
    /\ \/ pc' = "done"
       \/ gate # "disabled" /\ pc' = "precharge"
    /\ ChargeFrame
    /\ UNCHANGED <<mode, events, motorVars, gate, tuning, coarseMove, failCount>>

StartPrecharge ==
    /\ Goto("precharge", "prechargeEnd")
    /\ SetSpeed("coarse", "fwd")
    /\ ChargeFrame
    /\ UNCHANGED <<mode, events, enabled, gate, tuning, chargeVars>>

EndPrecharge ==
    /\ pc = "prechargeEnd"
    /\ SetSpeed("coarse", "stop")
    /\ Finish("REMOVAL")
    /\ ChargeFrame
    /\ UNCHANGED <<events, enabled, gate, tuning, aiPending>>

EndCharge ==
    /\ pc = "done"
    /\ Finish("REMOVAL")
    /\ ChargeFrame
    /\ UNCHANGED <<events, motorVars, gate, tuning, aiPending>>

Charging ==
    \/ Fill \/ FillPoll \/ FillSettle
    \/ NoMeasurement("fill", "fill") \/ NoMeasurement("measure", "poll")
    \/ Poll
    \/ \E r \in Readings :
          \/ CoarseOnlyStop(r) \/ FullStop(r) \/ RunCoarse(r)
          \/ CutCoarse(r) \/ RunFine(r)
    \/ Reverse \/ Settle \/ Pulse \/ End \/ Record
    \/ StartPrecharge \/ EndPrecharge \/ EndCharge

-----------------------------------------------------------------------------
(* ai_tuning_record_drop, as far as the session's state goes: it does        *)
(* nothing outside a session, and otherwise goes on, advances a phase, or   *)
(* gives up after too many drops.                                          *)
RecordDrop(s) ==
    CASE s = "phase1" -> {"phase1", "phase2", "error"}
      [] s = "phase2" -> {"phase2", "complete", "error"}
      [] OTHER        -> {s}

(* charge_mode_wait_for_cup_removal before its loop                         *)
Report ==
    /\ pc = "report"
    /\ aiPending' = FALSE
    /\ IF aiPending
         THEN \E s \in RecordDrop(tuning) :
                 /\ tuning' = s
                 /\ IF s \in {"complete", "error"}
                      THEN Finish("EXIT")
                      ELSE pc' = "removal" /\ UNCHANGED <<mode, chargeLocals>>
         ELSE pc' = "removal" /\ UNCHANGED <<tuning, mode, chargeLocals>>
    /\ ChargeFrame
    /\ UNCHANGED <<events, motorVars, gate>>

Removal_NoReset ==
    \/ /\ pc = "removal"
       /\ TakeEvent
       /\ pc' = "removal"
       /\ ChargeFrame
       /\ UNCHANGED <<mode, motorVars, gate, tuning, chargeVars>>
    \/ WaitPass("removal", "removal")

(* Its loop, and the next state when the cup is gone                        *)
Removal ==
    \/ Reset("removal")
    \/ WaitPass("removal", "removal")
    \/ /\ pc = "removal"
       /\ NextEvent # "RST"
       /\ TakeEvent
       /\ Finish("RETURN")
       /\ ChargeFrame
       /\ UNCHANGED <<motorVars, gate, tuning, aiPending>>

Return_SkipsZero ==
    \/ Reset("return")
    \/ WaitPass("return", "return")
    \/ /\ pc = "return"
       /\ NextEvent # "RST"
       /\ TakeEvent
       /\ Finish("COMPLETE")
       /\ ChargeFrame
       /\ UNCHANGED <<motorVars, gate, tuning, aiPending>>

(* charge_mode_wait_for_cup_return                                          *)
Return ==
    \/ Reset("return")
    \/ WaitPass("return", "return")
    \/ /\ pc = "return"
       /\ NextEvent # "RST"
       /\ TakeEvent
       /\ Finish("ZERO")
       /\ ChargeFrame
       /\ UNCHANGED <<motorVars, gate, tuning, aiPending>>

ChargeMode ==
    \/ Enter \/ Calm \/ Start \/ Loop \/ BeginCharge \/ Exit \/ Disable
    \/ Zero \/ Zeroed
    \/ Charging
    \/ Report \/ Removal \/ Return
=============================================================================
