------------------------------ MODULE AiTuning ------------------------------
(***************************************************************************)
(* The AI tuning session (src/ai_tuning.c): a search for Kp and Kd of the   *)
(* coarse motor, then of the fine motor, one weighed drop after the other.  *)
(*                                                                         *)
(* Charge mode records the drops, in the menu task and under                *)
(* g_ai_tuning_mutex.  The HTTP server starts a session under the mutex too, *)
(* but applies and cancels without it.  Each record below is a sequence of  *)
(* steps a cancel can fall between; Trickler has the session's effect on    *)
(* charge mode.                                                            *)
(*                                                                         *)
(* The two phase handlers do the same search on different motors and differ *)
(* where Bump and Readings differ.  A drop says if its weight was below,     *)
(* within or above what the handler accepts, and if it took too long.       *)
(* Parameters are integers in a unit in which all halvings are exact.  The  *)
(* drop buffer, the averages and the suggestions (computed, then overwritten *)
(* by the midpoints) are left out; the ranges do not change in a session.   *)
(***************************************************************************)
EXTENDS Integers

CONSTANTS
    Lo, Hi,      \* Lo[m][p], Hi[m][p]: range of parameter p of motor m
    MinStep,     \* COARSE_MIN_STEP and FINE_MIN_STEP
    MaxDrops,    \* max_drops_allowed: 30
    Serial       \* do apply and cancel wait for a drop being recorded?

Motors == {"coarse", "fine"}
Params == {"kp", "kd"}
Gains  == [Motors -> [Params -> Int]]

ASSUME RangeAssumption ==
    /\ Lo \in Gains /\ Hi \in Gains
    /\ \A m \in Motors, p \in Params : Lo[m][p] <= Hi[m][p]
ASSUME StepAssumption   == MinStep \in [Motors -> Nat \ {0}]
ASSUME DropsAssumption  == MaxDrops \in Nat
ASSUME SerialAssumption == Serial \in BOOLEAN

VARIABLES
    session,     \* g_session
    phase,       \* g_coarse_tuning_phase, g_fine_tuning_phase
    step,        \* g_coarse_kp_step and the other three
    profile,     \* which gains the target profile has: those of the start or those recommended
    charge,      \* where ai_tuning_record_drop is
    motor,       \* the motor whose handler runs
    http,        \* where ai_tuning_cancel is
    applied,     \* history: which of the two the user has settled for
    cancelled    \* history: has no session been started since the last cancel?

searchVars == <<phase, step>>
vars == <<session, searchVars, profile, charge, motor, http, applied, cancelled>>

Versions == {"original", "recommended"}
States == {"idle", "phase1", "phase2", "complete", "error"}
Drops  == {"idle", "count", "dispatch", "judge", "narrowKp", "narrowKd", "clamp"}

Mid(m, p)  == (Lo[m][p] + Hi[m][p]) \div 2
Half(m, p) == (Hi[m][p] - Lo[m][p]) \div 2
AtMid      == [m \in Motors |-> [p \in Params |-> Mid(m, p)]]
Zero       == [m \in Motors |-> [p \in Params |-> 0]]

(* memset(&g_session, 0, ...)                                              *)
Cleared == [state |-> "idle", target |-> FALSE, drops |-> 0, limit |-> 0,
            best |-> Zero, recommended |-> Zero]

Active == session.state \in {"phase1", "phase2"}

TypeOK ==
    /\ session \in [state : States, target : BOOLEAN, drops : 0..MaxDrops,
                    limit : {0, MaxDrops}, best : Gains, recommended : Gains]
    /\ phase \in [Motors -> Params]
    /\ step \in [Motors -> [Params -> Nat]]
    /\ profile \in Versions /\ applied \in Versions
    /\ charge \in Drops /\ motor \in Motors
    /\ http \in {"none", "clear"} /\ cancelled \in BOOLEAN

Init ==
    /\ session = Cleared
    /\ phase = [m \in Motors |-> "kp"]
    /\ step = Zero
    /\ profile = "original" /\ applied = "original"
    /\ charge = "idle" /\ motor = "coarse"
    /\ http = "none" /\ cancelled = FALSE

-----------------------------------------------------------------------------
(* The HTTP server                                                         *)
MutexFree == charge = "idle"
Undisturbed == Serial => MutexFree

(* ai_tuning_start; what the profile has now are the original gains.        *)
Start ==
    /\ http = "none" /\ MutexFree
    /\ profile' = "original" /\ applied' = "original"
    /\ session' = [Cleared EXCEPT !.state = "phase1", !.target = TRUE,
                                  !.limit = MaxDrops, !.best = AtMid]
    /\ phase' = [m \in Motors |-> "kp"]
    /\ step' = [m \in Motors |-> [p \in Params |-> Half(m, p)]]
    /\ cancelled' = FALSE
    /\ UNCHANGED <<charge, motor, http>>

(* http_rest_ai_tuning_apply with ai_tuning_apply_params                    *)
Apply ==
    /\ http = "none" /\ Undisturbed
    /\ session.state = "complete" /\ session.target
    /\ profile' = "recommended" /\ applied' = "recommended"
    /\ session' = [session EXCEPT !.state = "idle"]
    /\ UNCHANGED <<searchVars, charge, motor, http, cancelled>>

(* ai_tuning_cancel                                                        *)
CancelRestore ==
    /\ http = "none" /\ Undisturbed
    /\ http' = "clear"
    /\ profile' = IF session.target THEN "original" ELSE profile
    /\ UNCHANGED <<session, searchVars, charge, motor, applied, cancelled>>

CancelClear ==
    /\ http = "clear" /\ Undisturbed
    /\ http' = "none"
    /\ session' = Cleared
    /\ cancelled' = TRUE
    /\ UNCHANGED <<searchVars, profile, charge, motor, applied>>

Rest == Start \/ Apply \/ CancelRestore \/ CancelClear

-----------------------------------------------------------------------------
(* ai_tuning_record_drop, in the menu task                                 *)
RestUnchanged == UNCHANGED <<profile, http, applied, cancelled>>

Check ==
    /\ charge = "idle" /\ Active
    /\ charge' = "count"
    /\ UNCHANGED <<session, searchVars, motor>>

GiveUp ==
    /\ charge = "count" /\ session.drops >= session.limit
    /\ session' = [session EXCEPT !.state = "error", !.recommended = session.best]
    /\ charge' = "idle"
    /\ UNCHANGED <<searchVars, motor>>

Count ==
    /\ charge = "count" /\ session.drops < session.limit
    /\ session' = [session EXCEPT !.drops = @ + 1]
    /\ charge' = "dispatch"
    /\ UNCHANGED <<searchVars, motor>>

Dispatch ==
    /\ charge = "dispatch"
    /\ charge' = IF Active THEN "judge" ELSE "idle"
    /\ motor' = CASE session.state = "phase1" -> "coarse"
                  [] session.state = "phase2" -> "fine"
                  [] OTHER -> motor
    /\ UNCHANGED <<session, searchVars>>

-----------------------------------------------------------------------------
(* The parts of calculate_next_params_phase1 and _phase2                    *)
Halved_Fixed(p) == [step EXCEPT ![motor][p] = @ - MinStep[motor]]

Halved(p) == [step EXCEPT ![motor][p] = @ \div 2]

(* An early end of the Kp search, or one because the step is too small.     *)
ToKd(s) ==
    /\ session' = [session EXCEPT !.best[motor]["kd"] = Mid(motor, "kd")]
    /\ phase' = [phase EXCEPT ![motor] = "kd"]
    /\ step' = [s EXCEPT ![motor]["kd"] = Half(motor, "kd")]

MoveKp(r) ==
    /\ charge = "judge" /\ phase[motor] = "kp"
    /\ charge' = "narrowKp"
    /\ LET s == Halved("kp") IN
         \/ r = "within" /\ ToKd(s)
         \/ /\ r = "above"
            /\ session' = [session EXCEPT !.best[motor]["kp"] = @ - s[motor]["kp"]]
            /\ step' = s /\ UNCHANGED phase
         \/ /\ r = "below"
            /\ session' = [session EXCEPT !.best[motor]["kp"] = @ + s[motor]["kp"]]
            /\ step' = s /\ UNCHANGED phase
    /\ UNCHANGED motor

NarrowKp ==
    /\ charge = "narrowKp"
    /\ charge' = "clamp"
    /\ IF step[motor]["kp"] < MinStep[motor] THEN ToKd(step)
       ELSE UNCHANGED <<session, searchVars>>
    /\ UNCHANGED motor

(* The search for this motor is over, with the gains g; x is the session.  *)
Settled(x, g) == [x EXCEPT !.recommended[motor] = g[motor]]

ToFine(x, g, s) ==
    /\ session' = [Settled(x, g) EXCEPT !.state = "phase2", !.best = [g EXCEPT !["fine"] = AtMid["fine"]]]
    /\ phase' = [phase EXCEPT !["fine"] = "kp"]
    /\ step' = [s EXCEPT !["fine"] = [p \in Params |-> Half("fine", p)]]

ToComplete(x, g, s) ==
    /\ session' = [Settled(x, g) EXCEPT !.state = "complete", !.best = g]
    /\ step' = s /\ UNCHANGED phase

FinishMotor(x, g, s) ==
    IF motor = "coarse" THEN ToFine(x, g, s) ELSE ToComplete(x, g, s)

(* A slow drop raises Kp: by the Kd step for the coarse motor, by the Kp    *)
(* step for the fine motor.                                                *)
Bump(s) == IF motor = "coarse" THEN s["coarse"]["kd"] ELSE s["fine"]["kp"]

(* The coarse handler accepts everything that is not above its limit.       *)
KdReadings == IF motor = "coarse" THEN {"within", "above"} ELSE {"below", "within", "above"}

MoveKd(r, late) ==
    /\ charge = "judge" /\ phase[motor] = "kd" /\ r \in KdReadings
    /\ charge' = "narrowKd"
    /\ LET s == Halved("kd")
           g == [session.best EXCEPT ![motor]["kp"] = IF late THEN @ + Bump(s) ELSE @]
       IN \/ r = "within" /\ FinishMotor(session, g, s)
          \/ /\ r = "above"
             /\ session' = [session EXCEPT !.best = [g EXCEPT ![motor]["kd"] = @ + s[motor]["kd"]]]
             /\ step' = s /\ UNCHANGED phase
          \/ /\ r = "below"
             /\ session' = [session EXCEPT !.best = [g EXCEPT ![motor]["kd"] = @ - s[motor]["kd"]]]
             /\ step' = s /\ UNCHANGED phase
    /\ UNCHANGED motor

NarrowKd ==
    /\ charge = "narrowKd"
    /\ charge' = "clamp"
    /\ IF step[motor]["kd"] < MinStep[motor] THEN FinishMotor(session, session.best, step)
       ELSE UNCHANGED <<session, searchVars>>
    /\ UNCHANGED motor

(* fminf(fmaxf(x, min), max)                                               *)
Within_NoMax(x, lo, hi) == IF x < lo THEN lo ELSE x

Within(x, lo, hi) == IF x < lo THEN lo ELSE IF x > hi THEN hi ELSE x

Clamp ==
    /\ charge = "clamp"
    /\ charge' = "idle"
    /\ session' = [session EXCEPT !.best[motor] =
                     [p \in Params |-> Within(@[p], Lo[motor][p], Hi[motor][p])]]
    /\ UNCHANGED <<searchVars, motor>>

Phase ==
    \/ \E r \in {"below", "within", "above"} :
          MoveKp(r) \/ \E late \in BOOLEAN : MoveKd(r, late)
    \/ NarrowKp \/ NarrowKd \/ Clamp

Record == RestUnchanged /\ (Check \/ GiveUp \/ Count \/ Dispatch \/ Phase)

Next == Rest \/ Record

Spec == Init /\ [][Next]_vars

-----------------------------------------------------------------------------
(* Drops a search needs until its step is too small, however they weigh     *)
DropsFrom(m) ==
    LET n[s \in Nat] == IF s \div 2 < MinStep[m] THEN 1 ELSE 1 + n[s \div 2]
    IN n
Halvings(m, p) == DropsFrom(m)[Half(m, p)]
Needed == Halvings("coarse", "kp") + Halvings("coarse", "kd")
          + Halvings("fine", "kp") + Halvings("fine", "kd")

(* Whatever the drops weigh, a session is over after Needed of them, so     *)
(* "Did not converge" is never the answer when max_drops_allowed is that    *)
(* large.                                                                  *)
Converges == /\ session.drops <= Needed
             /\ session.target /\ MaxDrops >= Needed => session.state # "error"

(* The gains charge mode is given for the next drop are within the ranges,  *)
(* whatever the search did and wherever a cancel fell.                      *)
InRange(g) == \A m \in Motors, p \in Params : g[m][p] \in Lo[m][p]..Hi[m][p]
TriesInRange == Active /\ MutexFree => InRange(session.best)

(* "Clamp to valid range": so are the gains a complete session recommends.  *)
RecommendedInRange == session.state = "complete" => InRange(session.recommended)

(* "Clear session state": a cancelled session stays cancelled until the     *)
(* next start.                                                             *)
StaysCancelled == cancelled /\ MutexFree => session.state = "idle"

(* "Parameters applied and saved": once the user has applied what a session  *)
(* recommends, a cancel does not take it back.                             *)
AppliedStays == profile = applied
=============================================================================
