--------------------------- MODULE ServoGateProofs ---------------------------
(***************************************************************************)
(* ServoGate, and CleanupGate on it, for every set of callers, fast and slow  *)
(* shutters, and any number of calls.                                      *)
(***************************************************************************)
EXTENDS CleanupGate, TLAPS

USE DEF GateStates, Commands

-----------------------------------------------------------------------------
(* A queue of type TypeOK that is not empty holds one command.             *)
LEMMA OneCommand ==
    ASSUME TypeOK, queue # <<>>
    PROVE  /\ Head(queue) = queue[1]
           /\ queue[1] \in Commands
           /\ queue = <<queue[1]>>
<1>1. PICK s \in Commands : queue = <<s>>
  BY DEF TypeOK
<1> QED BY <1>1

(* Every variable keeps its type; the queue never holds two commands.      *)
THEOREM TypeCorrect == Spec => []TypeOK
<1>1. Init => TypeOK
  <2> SUFFICES ASSUME Init PROVE TypeOK
    OBVIOUS
  <2>1. queue \in {<<>>} \cup {<<s>> : s \in Commands} /\ calls \in Nat
    BY DEF Init
  <2> QED
    BY <2>1, PoweredAssumption DEF Init, TypeOK
<1>2. TypeOK /\ [Next]_vars => TypeOK'
  <2> SUFFICES ASSUME TypeOK, [Next]_vars
               PROVE  TypeOK'
    OBVIOUS
  <2> USE DEF TypeOK
  <2>1. ASSUME NEW c \in Callers, NEW s \in Commands, NEW b \in BOOLEAN, SetState(c, s, b)
        PROVE  TypeOK'
    <3>1. alone' \in [Callers -> BOOLEAN]
      BY <2>1 DEF SetState
    <3>2. calls' \in Nat
      BY <2>1 DEF SetState
    <3> QED BY <2>1, <3>1, <3>2 DEF SetState, gateVars
  <2>2. ASSUME NEW c \in Callers, Send(c)
        PROVE  TypeOK'
    <3>1. arg[c] \in Commands
      OBVIOUS
    <3> QED BY <2>2, <3>1 DEF Send, gateVars
  <2>3. ASSUME NEW c \in Callers, SendTimeout(c) \/ WaitReady(c) \/ WaitTimeout(c)
        PROVE  TypeOK'
    BY <2>3 DEF SendTimeout, WaitReady, WaitTimeout, gateVars
  <2>4. CASE Receive
    <3>1. Head(queue) \in Commands
      BY <2>4, OneCommand DEF Receive
    <3> QED BY <2>4, <3>1 DEF Receive, callerVars
  <2>5. CASE RampStep \/ Arrive \/ Signal \/ Publish
    BY <2>5 DEF RampStep, Arrive, Signal, Publish, callerVars, PositionOf
  <2>6. CASE UNCHANGED vars
    BY <2>6 DEF vars, callerVars, gateVars
  <2> QED
    BY <2>1, <2>2, <2>3, <2>4, <2>5, <2>6 DEF Next, CallStep, GateTask
<1> QED BY <1>1, <1>2, PTL DEF Spec

-----------------------------------------------------------------------------
(* AtRestInv says of every state what AtRestAsCommanded says of a gate at   *)
(* rest: where the last valid command is, in the queue, in the task's hand, *)
(* or done.                                                                *)
THEOREM AtRestInductive == Spec => []AtRestInv
<1>1. Init => AtRestInv
  BY DEF Init, AtRestInv
<1>2. TypeOK /\ AtRestInv /\ [Next]_vars => AtRestInv'
  <2> SUFFICES ASSUME TypeOK, AtRestInv, [Next]_vars
               PROVE  AtRestInv'
    OBVIOUS
  <2> USE DEF AtRestInv, PositionOf
  <2>1. CASE UNCHANGED <<queue, gateVars, lastSent>>
    BY <2>1 DEF gateVars
  <2>2. ASSUME NEW c \in Callers, Send(c)
        PROVE  AtRestInv'
    <3>1. queue' = <<arg[c]>> /\ queue'[1] = arg[c] /\ queue' # <<>>
      BY <2>2 DEF Send
    <3> QED BY <2>2, <3>1 DEF Send, gateVars
  <2>3. CASE Receive
    <3>1. Head(queue) = queue[1]
      BY <2>3, OneCommand DEF Receive
    <3> QED BY <2>3, <3>1 DEF Receive
  <2>4. CASE RampStep
    BY <2>4 DEF RampStep
  <2>5. CASE Arrive
    BY <2>5 DEF Arrive
  <2>6. CASE Signal
    BY <2>6 DEF Signal
  <2>7. CASE Publish
    BY <2>7 DEF Publish
  <2> QED
    BY <2>1, <2>2, <2>3, <2>4, <2>5, <2>6, <2>7
       DEF Next, CallStep, GateTask, SetState, SendTimeout, WaitReady, WaitTimeout, vars
<1> QED BY <1>1, <1>2, TypeCorrect, PTL DEF Spec

(* A gate at rest is where the last accepted command sent it, and           *)
(* gate_state says so.                                                     *)
THEOREM AtRestCorrect == Spec => []AtRestAsCommanded
<1>1. AtRestInv => AtRestAsCommanded
  BY DEF AtRestInv, AtRestAsCommanded, AtRest
<1> QED BY <1>1, AtRestInductive, PTL

-----------------------------------------------------------------------------
(* AloneInv follows the command of a caller nobody joined through the queue *)
(* and the gate task.                                                      *)
THEOREM AloneInductive == Spec => []AloneInv
<1>1. Init => AloneInv
  BY DEF Init, AloneInv, InCall
<1>2. TypeOK /\ AloneInv /\ [Next]_vars => AloneInv'
  <2> SUFFICES ASSUME TypeOK, AloneInv, [Next]_vars
               PROVE  AloneInv'
    OBVIOUS
  <2>1. ASSUME NEW c \in Callers, NEW s \in Commands, NEW b \in BOOLEAN, SetState(c, s, b)
        PROVE  AloneInv'
    <3> SUFFICES ASSUME NEW e \in Callers, alone'[e], call'[e] # "none"
                 PROVE  /\ \A d \in Callers \ {e} : call'[d] = "none"
                        /\ call'[e] = "send" /\ AtRest' /\ ~ready'
                        /\ block'[e] => arg'[e] \in GateStates
      BY DEF AloneInv, InCall
    <3>1. e = c /\ AtRest /\ \A d \in Callers \ {c} : call[d] = "none"
      BY <2>1 DEF SetState, InCall
    <3> QED BY <2>1, <3>1 DEF SetState, AtRest, gateVars, TypeOK
  <2>2. ASSUME NEW c \in Callers, Send(c)
        PROVE  AloneInv'
    <3> SUFFICES ASSUME NEW e \in Callers, alone'[e], call'[e] # "none"
                 PROVE  /\ \A d \in Callers \ {e} : call'[d] = "none"
                        /\ call'[e] = "wait" /\ block'[e] /\ arg'[e] \in GateStates
                        /\ phase' = "receive" /\ queue' = <<arg'[e]>> /\ ~ready'
      BY DEF AloneInv, InCall
    <3>1. call[e] # "none" /\ alone[e]
      BY <2>2 DEF Send, TypeOK
    <3>2. e = c
      BY <2>2, <3>1 DEF Send, AloneInv, InCall
    <3> QED BY <2>2, <3>1, <3>2 DEF Send, AloneInv, InCall, AtRest, gateVars, TypeOK
  <2>3. ASSUME NEW c \in Callers, SendTimeout(c) \/ WaitReady(c) \/ WaitTimeout(c)
        PROVE  AloneInv'
    <3> SUFFICES ASSUME NEW e \in Callers, alone'[e], call'[e] # "none"
                 PROVE  FALSE
      BY DEF AloneInv, InCall
    <3>1. call'[c] = "none" /\ call[c] # "none" /\ alone' = alone
      BY <2>3 DEF SendTimeout, WaitReady, WaitTimeout, TypeOK
    <3>2. e # c /\ call[e] # "none" /\ alone[e]
      BY <2>3, <3>1 DEF SendTimeout, WaitReady, WaitTimeout, TypeOK
    <3> QED BY <3>1, <3>2 DEF AloneInv, InCall
  <2>4. CASE Receive
    BY <2>4, OneCommand DEF Receive, AloneInv, AtRest, InCall, callerVars, TypeOK
  <2>5. CASE RampStep
    BY <2>5 DEF RampStep, AloneInv, AtRest, InCall, callerVars, TypeOK
  <2>6. CASE Arrive
    BY <2>6 DEF Arrive, AloneInv, AtRest, InCall, callerVars, TypeOK
  <2>7. CASE Signal
    BY <2>7 DEF Signal, AloneInv, AtRest, InCall, callerVars, TypeOK
  <2>8. CASE Publish
    BY <2>8 DEF Publish, AloneInv, AtRest, InCall, callerVars, TypeOK
  <2>9. CASE UNCHANGED vars
    BY <2>9 DEF vars, AloneInv, AtRest, InCall, callerVars, gateVars
  <2> QED
    BY <2>1, <2>2, <2>3, <2>4, <2>5, <2>6, <2>7, <2>8, <2>9
       DEF Next, CallStep, GateTask
<1> QED BY <1>1, <1>2, TypeCorrect, PTL DEF Spec

(* A wait that was signalled, of a caller nobody joined, ends with the gate *)
(* where that caller sent it.                                              *)
THEOREM WaitCorrect == Spec => WaitMeansThere
<1>1. AloneInv => \A c \in Callers : WaitReady(c) /\ alone[c] => position = PositionOf(arg[c])
  BY DEF AloneInv, WaitReady, InCall
<1>2. AloneInv /\ [Next]_vars =>
        [\A c \in Callers : WaitReady(c) /\ alone[c] => position = PositionOf(arg[c])]_vars
  BY <1>1
<1> QED BY <1>2, AloneInductive, PTL DEF Spec, WaitMeansThere

-----------------------------------------------------------------------------
(* The menu task and the others are callers of the gate like any other: what *)
(* is proved of the gate holds with cleanup mode among its callers.         *)
THEOREM MenuIsACaller == SpecMenu => Spec
<1>1. InitMenu => Init
  BY DEF InitMenu
<1>2. [NextMenu]_allVars => [Next]_vars
  <2> SUFFICES ASSUME [NextMenu]_allVars PROVE [Next]_vars
    OBVIOUS
  <2> USE MenuAssumption
  <2>1. CASE LeaveCharge \/ EnterCleanup \/ LeaveCleanup
    BY <2>1 DEF LeaveCharge, EnterCleanup, LeaveCleanup, Next
  <2>2. CASE \E c \in Callers \ {Menu}, s \in Commands, b \in BOOLEAN : OtherCall(c, s, b)
    BY <2>2 DEF OtherCall, Next
  <2>3. CASE (\E c \in Callers : CallStep(c)) \/ GateTask
    BY <2>3 DEF Next
  <2>4. CASE UNCHANGED allVars
    BY <2>4 DEF allVars
  <2> QED BY <2>1, <2>2, <2>3, <2>4 DEF NextMenu
<1> QED BY <1>1, <1>2, PTL DEF SpecMenu, Spec

(* While nobody else has called since cleanup mode opened the gate, the command  *)
(* on its way or obeyed last is the menu task's: to open it in cleanup mode, to   *)
(* close it after, unless cleanup was left too early to see it open.  The first   *)
(* command meets a gate at rest, and when its wait is over the gate task has taken *)
(* it from the queue, so that the second finds room; a later one may be dropped,  *)
(* and then the gate is already told to close.                                 *)
Wanted == IF mode = "cleanup" THEN "open" ELSE "close"
OpenedInv ==
    /\ mode \in {"menu", "cleanup"}
    /\ mode = "cleanup" => ~early
    /\ opened => \A c \in Callers \ {Menu} : ~InCall(c)
    /\ opened /\ ~early =>
        /\ call[Menu] = "send" => arg[Menu] = Wanted /\ (queue = <<>> \/ lastSent = Wanted)
        /\ call[Menu] # "send" => lastSent = Wanted
    /\ opened /\ mode = "cleanup" =>
        /\ call[Menu] = "send" => AtRest /\ ~ready /\ block[Menu]
        /\ call[Menu] = "wait" => queue = <<>> \/ (phase = "receive" /\ ~ready)
        /\ call[Menu] = "none" => queue = <<>>

LEMMA OpenedNext ==
    ASSUME TypeOK, AtRestInv, OpenedInv, [NextMenu]_allVars PROVE OpenedInv'
<1> USE MenuAssumption
<1>1. CASE LeaveCharge
  BY <1>1 DEF LeaveCharge, SetState, OpenedInv, Wanted, InCall, TypeOK, AtRest, gateVars, modeVars
<1>2. CASE EnterCleanup
  BY <1>2 DEF EnterCleanup, SetState, OpenedInv, Wanted, InCall, TypeOK, AtRest, gateVars
<1>3. CASE LeaveCleanup
  <2>0. mode = "cleanup" /\ call[Menu] = "none" /\ mode' = "menu" /\ opened' = opened
    BY <1>3 DEF LeaveCleanup, InCall
  <2>1. opened /\ AtRest => gateState = "open"
    <3>1. opened => lastSent = "open"
      BY <2>0 DEF OpenedInv, Wanted
    <3> QED BY <3>1 DEF AtRestInv, AtRest
  <2>2. opened' /\ ~early' => gateState = "open" /\ queue = <<>>
    <3>1. ~early' => AtRest \/ gateState = "open"
      BY <1>3, Zenon DEF LeaveCleanup
    <3>2. opened => queue = <<>>
      BY <2>0 DEF OpenedInv
    <3> QED BY <2>0, <2>1, <3>1, <3>2
  <2>3. CASE opened /\ gateState = "open"
    <3>1. SetState(Menu, "close", TRUE)
      BY <1>3, <2>3 DEF LeaveCleanup
    <3>2. /\ call'[Menu] = "send" /\ arg'[Menu] = "close" /\ queue' = queue
          /\ \A c \in Callers \ {Menu} : call'[c] = call[c]
      BY <3>1 DEF SetState, TypeOK
    <3> QED BY <2>0, <2>2, <2>3, <3>2 DEF OpenedInv, Wanted, InCall
  <2>4. CASE opened /\ gateState # "open"
    <3>1. early' /\ call' = call
      <4>1. early' = (~AtRest /\ gateState # "open") /\ UNCHANGED vars
        BY <1>3, <2>4 DEF LeaveCleanup
      <4>2. ~AtRest /\ gateState # "open"
        BY <2>1, <2>4
      <4> QED BY <4>1, <4>2, Zenon DEF vars, callerVars
    <3> QED BY <2>0, <3>1 DEF OpenedInv, InCall
  <2>5. CASE ~opened
    BY <2>0, <2>5 DEF OpenedInv
  <2> QED BY <2>3, <2>4, <2>5
<1>4. CASE \E c \in Callers \ {Menu}, s \in Commands, b \in BOOLEAN : OtherCall(c, s, b)
  BY <1>4 DEF OtherCall, OpenedInv
<1>5. ASSUME NEW c \in Callers, CallStep(c), UNCHANGED modeVars PROVE OpenedInv'
  <2>0. /\ UNCHANGED <<mode, opened, early, arg, phase, block>> /\ Wanted' = Wanted
        /\ Wanted \in GateStates
    BY <1>5 DEF modeVars, gateVars, CallStep, Send, SendTimeout, WaitReady, WaitTimeout, Wanted
  <2>1. InCall(c) /\ \A d \in Callers : d # c => call'[d] = call[d]
    BY <1>5 DEF CallStep, Send, SendTimeout, WaitReady, WaitTimeout, TypeOK, InCall
  <2>2. CASE ~opened
    BY <2>0, <2>2 DEF OpenedInv
  <2>3. CASE opened
    <3>1. c = Menu
      BY <2>1, <2>3 DEF OpenedInv
    <3>2. \A d \in Callers \ {Menu} : ~InCall(d)'
      BY <2>1, <2>3, <3>1 DEF OpenedInv, InCall
    <3>3. CASE Send(c)
      <4>1. /\ call[Menu] = "send" /\ call'[Menu] = IF block[Menu] THEN "wait" ELSE "none"
            /\ ready' = ready
            /\ lastSent' = IF arg[Menu] \in GateStates THEN arg[Menu] ELSE lastSent
        BY <3>1, <3>3 DEF Send, TypeOK
      <4>2. ~early => lastSent' = Wanted
        BY <2>0, <2>3, <4>1 DEF OpenedInv
      <4>3. mode = "cleanup" => phase = "receive" /\ ~ready /\ call'[Menu] = "wait"
        BY <2>3, <4>1 DEF OpenedInv, AtRest
      <4> QED BY <2>0, <2>3, <3>2, <4>1, <4>2, <4>3 DEF OpenedInv
    <3>4. CASE SendTimeout(c)
      <4>1. /\ call[Menu] = "send" /\ call'[Menu] = "none" /\ queue # <<>>
            /\ lastSent' = lastSent
        BY <3>1, <3>4 DEF SendTimeout, TypeOK
      <4>2. mode # "cleanup" /\ (~early => lastSent = Wanted)
        BY <2>3, <4>1 DEF OpenedInv, AtRest
      <4> QED BY <2>0, <2>3, <3>2, <4>1, <4>2 DEF OpenedInv
    <3>5. CASE WaitReady(c) \/ WaitTimeout(c)
      <4>1. /\ call[Menu] = "wait" /\ call'[Menu] = "none" /\ lastSent' = lastSent
            /\ queue' = queue /\ (ready \/ phase = "move" \/ queue = <<>>)
        BY <3>1, <3>5 DEF WaitReady, WaitTimeout, LongRamp, AtRest, TypeOK
      <4>2. mode = "cleanup" => queue = <<>>
        BY <2>3, <4>1 DEF OpenedInv
      <4> QED BY <2>0, <2>3, <3>2, <4>1, <4>2 DEF OpenedInv
    <3> QED BY <1>5, <3>3, <3>4, <3>5 DEF CallStep
  <2> QED BY <2>2, <2>3
<1>6. CASE GateTask /\ UNCHANGED modeVars
  <2>1. UNCHANGED <<mode, opened, early, call, arg, block, lastSent>>
    BY <1>6 DEF modeVars, GateTask, Receive, RampStep, Arrive, Signal, Publish, callerVars
  <2>2. ~AtRest
    BY <1>6 DEF GateTask, Receive, RampStep, Arrive, Signal, Publish, AtRest
  <2>3. queue' = <<>> \/ (queue' = queue /\ phase # "receive")
    BY <1>6 DEF GateTask, Receive, RampStep, Arrive, Signal, Publish
  <2> QED BY <2>1, <2>2, <2>3 DEF OpenedInv, Wanted, InCall
<1>7. CASE UNCHANGED allVars
  BY <1>7 DEF allVars, vars, callerVars, gateVars, modeVars, OpenedInv, Wanted, InCall, AtRest
<1> QED BY <1>1, <1>2, <1>3, <1>4, <1>5, <1>6, <1>7 DEF NextMenu

(* There is one way for cleanup mode to leave a gate open that it opened and nobody *)
(* else moved: the reset comes while the gate is on its way and gate_state does not  *)
(* say open yet (cleanup_mode.cpp:162-168).  For every set of callers, a fast or   *)
(* slow shutter, waits that time out and calls that are dropped.                 *)
THEOREM ClosedCorrect == SpecMenu => []ClosedUnlessEarly
<1>1. InitMenu => OpenedInv
  BY DEF InitMenu, OpenedInv
<1>2. TypeOK /\ AtRestInv /\ OpenedInv /\ [NextMenu]_allVars => OpenedInv'
  BY OpenedNext
<1>3. OpenedInv /\ AtRestInv => ClosedUnlessEarly
  <2> SUFFICES ASSUME OpenedInv, AtRestInv, mode = "menu", opened, ~early, AtRest,
                      \A c \in Callers : ~InCall(c)
               PROVE  position \in {"unpowered", "closed"}
    BY DEF ClosedUnlessEarly, LeftInPeace
  <2>1. lastSent = "close"
    BY MenuAssumption DEF OpenedInv, Wanted, InCall
  <2> QED BY <2>1 DEF AtRestInv, AtRest, PositionOf
<1> QED BY <1>1, <1>2, <1>3, MenuIsACaller, TypeCorrect, AtRestInductive, PTL DEF SpecMenu
=============================================================================
