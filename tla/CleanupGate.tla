----------------------------- MODULE CleanupGate -----------------------------
(***************************************************************************)
(* The menu task as a caller of the servo gate: it leaves charge mode and   *)
(* enters and leaves cleanup mode (src/charge_mode.cpp, cleanup_mode.cpp).  *)
(* Every other caller of ServoGate calls at will.                          *)
(***************************************************************************)
EXTENDS ServoGate

CONSTANT
    Menu          \* the caller that is the menu task

ASSUME MenuAssumption == Menu \in Callers

VARIABLES
    mode,      \* what the menu task runs: a form of the menu, or cleanup mode
    opened,    \* history: cleanup mode opened a gate at rest, and no other task
               \* has called since
    early      \* history: cleanup mode was left while the gate was on its way and
               \* gate_state did not say open yet

modeVars == <<mode, opened, early>>
allVars  == <<vars, modeVars>>

InitMenu == Init /\ mode = "menu" /\ opened = FALSE /\ early = FALSE

(* The end of charge_mode_menu.                                            *)
LeaveCharge ==
    /\ mode = "menu"
    /\ gateState # "disabled"
    /\ SetState(Menu, "close", FALSE)
    /\ UNCHANGED modeVars

(* cleanup_mode_menu up to its loop; with the gate disabled it does not     *)
(* call the gate.                                                          *)
EnterCleanup ==
    /\ mode = "menu"
    /\ ~InCall(Menu)
    /\ mode' = "cleanup"
    /\ early' = FALSE
    /\ IF gateState # "disabled"
         THEN /\ SetState(Menu, "open", TRUE)
              /\ opened' = (AtRest /\ \A c \in Callers : ~InCall(c))
         ELSE opened' = FALSE /\ UNCHANGED vars

LeaveCleanup_WrongState ==
    /\ mode = "cleanup"
    /\ ~InCall(Menu)
    /\ mode' = "menu"
    /\ early' = (~AtRest /\ gateState # "open")
    /\ IF gateState = "close" THEN SetState(Menu, "close", TRUE) ELSE UNCHANGED vars
    /\ UNCHANGED opened

(* cleanup_mode_menu after its loop: the reset comes at any moment, also     *)
(* when the wait for the gate has timed out, or between the signal of the    *)
(* gate task and its next assignment.                                      *)
LeaveCleanup ==
    /\ mode = "cleanup"
    /\ ~InCall(Menu)
    /\ mode' = "menu"
    /\ early' = (~AtRest /\ gateState # "open")
    /\ IF gateState = "open" THEN SetState(Menu, "close", TRUE) ELSE UNCHANGED vars
    /\ UNCHANGED opened

(* A call of another task: the REST handler or the settings screen.        *)
OtherCall(c, s, b) ==
    /\ SetState(c, s, b)
    /\ opened' = FALSE
    /\ UNCHANGED <<mode, early>>

NextMenu ==
    \/ LeaveCharge
    \/ EnterCleanup
    \/ LeaveCleanup
    \/ \E c \in Callers \ {Menu}, s \in Commands, b \in BOOLEAN : OtherCall(c, s, b)
    \/ (\E c \in Callers : CallStep(c)) /\ UNCHANGED modeVars
    \/ GateTask /\ UNCHANGED modeVars

SpecMenu == InitMenu /\ [][NextMenu]_allVars

(* The calls end and the gate task runs; nobody has to call.                *)
FairSpecMenu == SpecMenu /\ Fairness

LeftInPeace == mode = "menu" /\ opened /\ AtRest /\ \A c \in Callers : ~InCall(c)

(* "Close servo gate on exit (if it was opened on entry)"                   *)
(* (cleanup_mode.cpp:165): back in the menu, with the calls returned and    *)
(* the gate at rest, a gate that cleanup mode opened is closed, unless      *)
(* another task has called since.                                          *)
ClosedAfterCleanup == LeftInPeace => position \in {"unpowered", "closed"}

(* What the code does of it (cleanup_mode.cpp:162-168): there is one way to  *)
(* leave a gate open behind, a reset that comes while the gate still moves    *)
(* from closed to open.  Every wait that times out, every later call of the   *)
(* menu task, and every reset that finds the gate at rest or gate_state      *)
(* already open, leaves it closed.                                         *)
ClosedUnlessEarly == LeftInPeace /\ ~early => position \in {"unpowered", "closed"}
=============================================================================
