--------------------------- MODULE TricklerProofs ---------------------------
(***************************************************************************)
(* Proofs about the trickler, for every queue length, every limit of        *)
(* missing measurements and every set of inputs: the drivers in the menu,    *)
(* what requests have to do, the types (for every set of requests); then the *)
(* motors, the cycle of phases they keep, the gate, and the coarse cut (for   *)
(* requests as each theorem says).                                         *)
(***************************************************************************)
EXTENDS Trickler, SequenceTheorems, TLAPS

(* The drivers are off in the menu, whatever the clients request.           *)
LEMMA OffInit == Init => OffInMenu
  BY DEF Init, InitState, OffInMenu

LEMMA OffNext == OffInMenu /\ [Next]_vars => OffInMenu'
<1> SUFFICES ASSUME OffInMenu, [Next]_vars PROVE OffInMenu'
  OBVIOUS
<1> USE DEF OffInMenu, Motors
<1>1. CASE MenuTask
  <2>1. CASE FormLeave \/ FormStay \/ Dispatch
    BY <2>1 DEF FormLeave, FormStay, Dispatch, Goto, motorVars
  <2>2. CASE ChargeMode
    <3>1. CASE Disable
      BY <3>1 DEF Disable, DisableBoth
    <3>2. CASE Enter \/ Calm \/ Start \/ Loop \/ BeginCharge \/ Exit
      BY <3>2 DEF Enter, Calm, Start, Loop, BeginCharge, Exit, Goto, Finish
    <3>3. CASE Zero \/ Zeroed \/ Report \/ Removal \/ Return
      BY <3>3 DEF Zero, Zeroed, Report, Removal, Return, WaitPass, Reset, Finish
    <3>4. CASE Charging
      BY <3>4 DEF Charging, Fill, FillPoll, FillSettle, NoMeasurement, EmergencyStop, Poll,
                  Measured, CoarseOnlyStop, FullStop, RunCoarse, CutCoarse, RunFine, Reverse,
                  Settle, Pulse, End, Record, StartPrecharge, EndPrecharge, EndCharge,
                  WaitPass, Reset, Finish, Goto, DisableBoth
    <3> QED BY <2>2, <3>1, <3>2, <3>3, <3>4 DEF ChargeMode
  <2>3. CASE CleanupMode
    BY <2>3 DEF CleanupMode, CleanupEnter, CleanupOpen, CleanupEvent, CleanupExit,
                DisableBoth, EnableBoth
  <2> QED BY <1>1, <2>1, <2>2, <2>3 DEF MenuTask
<1>2. CASE (\E e \in Inputs : Button(e)) \/ HttpStep
  BY <1>2 DEF Button, HttpStep, HandleSend, HandlePost, HandleMode, HandleExitState,
              HandleCleanup, HandleSpeed, HandleGate, HandleSession, HandleEnter,
              stateVars, motorVars
<1>3. CASE NewRequest \/ UNCHANGED vars
  BY <1>3 DEF NewRequest, RestChargeState, RestSimStart, RestSimStop, RestCleanupState,
              RestCleanupSpeed, RestGate, RestButton, RestAiStart, RestAiCancel, RestAiApply,
              Request, vars, stateVars, motorVars
<1> QED BY <1>1, <1>2, <1>3 DEF Next

THEOREM OffCorrect == Spec => []OffInMenu
  BY OffInit, OffNext, PTL DEF Spec

-----------------------------------------------------------------------------
(* What the handler of a request has still to do: at most three effects, each   *)
(* with an argument of its kind; what can command a motor or the gate depends    *)
(* on the requests clients make.                                              *)
Works(k, V)  == [do : {k}, with : V]
WrittenModes == RestModes \cup {"EXIT"} \cup {m \in {"ZERO"} : "simStart" \in RestOps}
DirectSpeeds == {v \in RestSpeeds : "cleanupSpeed" \in RestOps}
DirectGates  == {g \in GateStates : "gate" \in RestOps}
Switches     == {"EXIT", "ENTER"}
Effects ==
    UNION {Works("send", Events), Works("post", Events), Works("mode", WrittenModes),
           Works("exitState", ExitStates), Works("cleanupState", Switches),
           Works("speed", DirectSpeeds), Works("gate", DirectGates),
           Works("session", Sessions), Works("enterIfExit", {"charge"})}
HttpInv == http \in Seq(Effects) /\ Len(http) <= 3

LEMMA ShortSeq ==
    ASSUME NEW S, NEW a \in S, NEW b \in S
    PROVE  /\ <<>> \in Seq(S) /\ Len(<<>>) = 0 /\ <<a>> \in Seq(S) /\ Len(<<a>>) = 1
           /\ <<a, b>> \in Seq(S) /\ Len(<<a, b>>) = 2
OBVIOUS

LEMMA Joined ==
    ASSUME NEW S, NEW p \in Seq(S), NEW q \in Seq(S), Len(p) <= 2, Len(q) <= 2,
           Len(p) <= 1 \/ Len(q) <= 1
    PROVE  p \o q \in Seq(S) /\ Len(p \o q) <= 3
<1>1. PICK n \in Nat, m \in Nat : n = Len(p) /\ m = Len(q)
  OBVIOUS
<1>2. p \o q \in Seq(S) /\ Len(p \o q) = n + m
  BY <1>1, ConcatProperties
<1>3. n <= 2 /\ m <= 2 /\ (n <= 1 \/ m <= 1)
  BY <1>1
<1>4. n + m <= 3
  BY <1>3
<1> QED BY <1>2, <1>4

LEMMA HttpInit == Init => HttpInv
  BY DEF Init, HttpInv

LEMMA EffectIn ==
    /\ \A e \in Events : SendWaiting(e) \in Effects /\ Post(e) \in Effects
    /\ \A m \in WrittenModes : SetMode(m) \in Effects
    /\ \A s \in ExitStates : SetExitState(s) \in Effects
    /\ \A c \in Switches : SetCleanup(c) \in Effects
    /\ \A v \in DirectSpeeds : Effect("speed", v) \in Effects
    /\ \A g \in DirectGates : Effect("gate", g) \in Effects
    /\ \A s \in Sessions : SetSession(s) \in Effects
    /\ EnterIfExit \in Effects
<1> USE DEF Effect
<1>1. ASSUME NEW k, NEW V, NEW v \in V PROVE Effect(k, v) \in Works(k, V)
  BY DEF Works
<1>2. ASSUME NEW e \in Events PROVE SendWaiting(e) \in Effects /\ Post(e) \in Effects
  <2>1. SendWaiting(e) \in Works("send", Events) /\ Post(e) \in Works("post", Events)
    BY <1>1 DEF SendWaiting, Post
  <2> QED BY <2>1 DEF Effects
<1>3. ASSUME NEW m \in WrittenModes PROVE SetMode(m) \in Effects
  <2>1. SetMode(m) \in Works("mode", WrittenModes)
    BY <1>1 DEF SetMode
  <2> QED BY <2>1 DEF Effects
<1>4. ASSUME NEW s \in ExitStates PROVE SetExitState(s) \in Effects
  <2>1. SetExitState(s) \in Works("exitState", ExitStates)
    BY <1>1 DEF SetExitState
  <2> QED BY <2>1 DEF Effects
<1>5. ASSUME NEW c \in Switches PROVE SetCleanup(c) \in Effects
  <2>1. SetCleanup(c) \in Works("cleanupState", Switches)
    BY <1>1 DEF SetCleanup
  <2> QED BY <2>1 DEF Effects
<1>6. ASSUME NEW v \in DirectSpeeds PROVE Effect("speed", v) \in Effects
  <2>1. Effect("speed", v) \in Works("speed", DirectSpeeds)
    BY <1>1
  <2> QED BY <2>1 DEF Effects
<1>7. ASSUME NEW g \in DirectGates PROVE Effect("gate", g) \in Effects
  <2>1. Effect("gate", g) \in Works("gate", DirectGates)
    BY <1>1
  <2> QED BY <2>1 DEF Effects
<1>8. ASSUME NEW s \in Sessions PROVE SetSession(s) \in Effects
  <2>1. SetSession(s) \in Works("session", Sessions)
    BY <1>1 DEF SetSession
  <2> QED BY <2>1 DEF Effects
<1>9. EnterIfExit \in Effects
  <2>1. EnterIfExit \in Works("enterIfExit", {"charge"})
    BY <1>1 DEF EnterIfExit
  <2> QED BY <2>1 DEF Effects
<1> QED BY <1>2, <1>3, <1>4, <1>5, <1>6, <1>7, <1>8, <1>9

(* Each request's list of effects                                           *)
LEMMA HttpRequest ==
  ASSUME HttpInv, NewRequest
  PROVE  HttpInv' /\ UNCHANGED stateVars
<1> DEFINE S == Effects
           Fits(p) == p \in Seq(S) /\ Len(p) <= 3
<1>0. /\ {"RST", "OVERRIDE", "CW", "CCW", "PRESS"} \subseteq Events
      /\ RestModes \cup {"EXIT"} \subseteq WrittenModes
      /\ {"charge", "cleanup"} \subseteq ExitStates /\ {"phase1", "idle"} \subseteq Sessions
      /\ Switches = {"EXIT", "ENTER"}
  BY DEF Events, WrittenModes, ExitStates, Sessions, Switches
<1>1. /\ \A e \in Events : SendWaiting(e) \in S /\ Post(e) \in S
      /\ \A m \in WrittenModes : SetMode(m) \in S
      /\ \A s \in ExitStates : SetExitState(s) \in S
      /\ \A c \in Switches : SetCleanup(c) \in S
      /\ \A v \in DirectSpeeds : Effect("speed", v) \in S
      /\ \A g \in DirectGates : Effect("gate", g) \in S
      /\ \A s \in Sessions : SetSession(s) \in S
      /\ EnterIfExit \in S
  BY EffectIn
<1> HIDE DEF S
<1>2. /\ <<>> \in Seq(S) /\ Len(<<>>) = 0
      /\ \A a \in S : <<a>> \in Seq(S) /\ Len(<<a>>) = 1
      /\ \A a, b \in S : <<a, b>> \in Seq(S) /\ Len(<<a, b>>) = 2
  BY <1>1, ShortSeq
<1>21. /\ Len(<<>>) <= 2 /\ Len(<<>>) <= 1
       /\ \A a \in S : Len(<<a>>) <= 2 /\ Len(<<a>>) <= 1
       /\ \A a, b \in S : Len(<<a, b>>) <= 2
  BY <1>2
<1>3. \A p, q \in Seq(S) : Len(p) <= 2 /\ Len(q) <= 2 /\ (Len(p) <= 1 \/ Len(q) <= 1) => Fits(p \o q)
  BY Joined
<1>4. SUFFICES Fits(http') /\ UNCHANGED stateVars
  BY DEF HttpInv, S
<1>5. \A a \in S : Fits(<<a>>)
  BY <1>2
<1>6. \A a, b \in S : Fits(<<a, b>>)
  BY <1>2
<1>7. \A a \in S, p \in Seq(S) : Len(p) <= 2 => Fits(p \o <<a>>)
  BY <1>2, <1>3
<1> HIDE DEF Fits
<1>8. \A a \in S : Fits(<<>> \o <<a>>)
  BY <1>2, <1>7, <1>21, Zenon
<1>9. \A a, b \in S : Fits(<<a>> \o <<b>>)
  BY <1>2, <1>7, <1>21, Zenon
<1>10. \A a, b, c \in S : Fits(<<a, b>> \o <<c>>)
  BY <1>2, <1>7, <1>21, Zenon
<1>11. /\ SendWaiting("RST") \in S /\ SendWaiting("OVERRIDE") \in S /\ Post("RST") \in S
       /\ SetExitState("charge") \in S /\ SetExitState("cleanup") \in S
       /\ SetSession("phase1") \in S /\ SetSession("idle") \in S /\ SetMode("EXIT") \in S
  BY <1>0, <1>1
<1>12. ASSUME NEW v \in RestModes, RestChargeState(v)
       PROVE  Fits(http') /\ UNCHANGED stateVars
  <2>1. SetMode(v) \in S
    BY <1>0, <1>1
  <2>2. \/ http' = <<SendWaiting("RST")>> \o <<SetMode(v)>>
        \/ http' = <<SetExitState("charge"), SendWaiting("OVERRIDE")>> \o <<SetMode(v)>>
        \/ http' = <<>> \o <<SetMode(v)>>
    BY <1>12, Zenon DEF RestChargeState, Request, Enter_charge
  <2>3. UNCHANGED stateVars
    BY <1>12 DEF RestChargeState, Request
  <2> QED BY <1>8, <1>9, <1>10, <1>11, <2>1, <2>2, <2>3
<1>13. CASE RestSimStart
  <2>1. SetMode("ZERO") \in S
    <3>1. "ZERO" \in WrittenModes
      BY <1>13 DEF RestSimStart, Request, WrittenModes
    <3> QED BY <1>1, <3>1
  <2>2. http' = <<SetExitState("charge"), SendWaiting("OVERRIDE")>> \o <<SetMode("ZERO")>>
        /\ UNCHANGED stateVars
    BY <1>13 DEF RestSimStart, Request, Enter_charge
  <2> QED BY <1>10, <1>11, <2>1, <2>2
<1>14. CASE RestSimStop
  BY <1>6, <1>11, <1>14 DEF RestSimStop, Request
<1>15. ASSUME NEW v \in Switches, RestCleanupState(v)
       PROVE  Fits(http') /\ UNCHANGED stateVars
  <2>1. SetCleanup(v) \in S
    BY <1>1
  <2>2. \/ http' = <<SendWaiting("RST")>> \o <<SetCleanup(v)>>
        \/ http' = <<SetExitState("cleanup"), SendWaiting("OVERRIDE")>> \o <<SetCleanup(v)>>
        \/ http' = <<>> \o <<SetCleanup(v)>>
    BY <1>15, Zenon DEF RestCleanupState, Request, Enter_cleanup
  <2>3. UNCHANGED stateVars
    BY <1>15 DEF RestCleanupState, Request
  <2> QED BY <1>8, <1>9, <1>10, <1>11, <2>1, <2>2, <2>3
<1>16. ASSUME NEW v \in RestSpeeds, RestCleanupSpeed(v)
       PROVE  Fits(http') /\ UNCHANGED stateVars
  <2>1. v \in DirectSpeeds
    BY <1>16 DEF RestCleanupSpeed, Request, DirectSpeeds
  <2> QED BY <1>1, <1>5, <1>16, <2>1 DEF RestCleanupSpeed, Request
<1>17. ASSUME NEW g \in GateStates, RestGate(g)
       PROVE  Fits(http') /\ UNCHANGED stateVars
  <2>1. g \in DirectGates
    BY <1>17 DEF RestGate, Request, DirectGates
  <2> QED BY <1>1, <1>5, <1>17, <2>1 DEF RestGate, Request
<1>18. ASSUME NEW e \in {"CW", "CCW", "PRESS", "RST"}, RestButton(e)
       PROVE  Fits(http') /\ UNCHANGED stateVars
  <2>1. Post(e) \in S
    BY <1>0, <1>1
  <2> QED BY <1>5, <1>18, <2>1 DEF RestButton, Request
<1>19. CASE RestAiStart \/ RestAiApply
  BY <1>1, <1>5, <1>6, <1>11, <1>19 DEF RestAiStart, RestAiApply, Request
<1>20. CASE RestAiCancel
  <2>1. /\ UNCHANGED stateVars
        /\ \/ http' = <<SetSession("idle")>> \o <<SetMode("EXIT"), Post("RST")>>
           \/ http' = <<SetSession("idle")>> \o <<>>
    BY <1>20, Zenon DEF RestAiCancel, Request
  <2>2. Fits(<<SetSession("idle")>> \o <<SetMode("EXIT"), Post("RST")>>)
    BY <1>2, <1>3, <1>11, <1>21, Zenon
  <2>3. Fits(<<SetSession("idle")>> \o <<>>)
    BY <1>2, <1>3, <1>11, <1>21, Zenon
  <2> QED BY <2>1, <2>2, <2>3
<1> QED BY <1>0, <1>12, <1>13, <1>14, <1>15, <1>16, <1>17, <1>18, <1>19, <1>20 DEF NewRequest

(* What a handler does next, and with what argument                         *)
LEMMA HeadEffect ==
  ASSUME HttpInv, http # <<>>
  PROVE  /\ Head(http) \in Effects
         /\ Tail(http) \in Seq(Effects) /\ Len(Tail(http)) <= 3
<1>1. Len(http) \in Nat /\ Len(http) >= 1 /\ Head(http) \in Effects
      /\ Tail(http) \in Seq(Effects) /\ Len(Tail(http)) = Len(http) - 1
  BY DEF HttpInv
<1> QED BY <1>1 DEF HttpInv

LEMMA ArgIn ==
  ASSUME HttpInv
  PROVE  /\ Doing("send") \/ Doing("post") => Arg \in Events
         /\ Doing("mode") => Arg \in WrittenModes
         /\ Doing("exitState") => Arg \in ExitStates
         /\ Doing("cleanupState") => Arg \in Switches
         /\ Doing("speed") => Arg \in DirectSpeeds
         /\ Doing("gate") => Arg \in DirectGates
         /\ Doing("session") => Arg \in Sessions
<1>1. ASSUME NEW k, Doing(k) PROVE Head(http) \in Effects /\ Head(http).do = k
  BY <1>1, HeadEffect DEF Doing
<1>2. ASSUME NEW e \in Effects
      PROVE  /\ e.do \in {"send", "post"} => e.with \in Events
             /\ e.do = "mode" => e.with \in WrittenModes
             /\ e.do = "exitState" => e.with \in ExitStates
             /\ e.do = "cleanupState" => e.with \in Switches
             /\ e.do = "speed" => e.with \in DirectSpeeds
             /\ e.do = "gate" => e.with \in DirectGates
             /\ e.do = "session" => e.with \in Sessions
  BY DEF Effects, Works
<1> QED BY <1>1, <1>2 DEF Arg

LEMMA HttpWork == HttpInv /\ HttpStep => HttpInv'
<1> SUFFICES ASSUME HttpInv, HttpStep PROVE HttpInv'
  OBVIOUS
<1>1. CASE HandleEnter
  <2>1. /\ SetExitState("charge") \in Effects
        /\ Post("OVERRIDE") \in Effects
    BY EffectIn DEF Events, ExitStates
  <2>2. /\ <<SetExitState("charge"), Post("OVERRIDE")>> \in Seq(Effects)
        /\ Len(<<SetExitState("charge"), Post("OVERRIDE")>>) = 2
        /\ <<>> \in Seq(Effects) /\ Len(<<>>) = 0
    BY <2>1, ShortSeq
  <2> QED BY <1>1, <2>2 DEF HandleEnter, HttpInv
<1>2. ASSUME NEW k, Doing(k), Done PROVE HttpInv'
  BY <1>2, HeadEffect DEF Doing, Done, HttpInv
<1>3. CASE HandleSend \/ HandlePost \/ HandleMode \/ HandleExitState
  BY <1>2, <1>3 DEF HandleSend, HandlePost, HandleMode, HandleExitState
<1>4. CASE HandleCleanup \/ HandleSession \/ HandleSpeed \/ HandleGate
  BY <1>2, <1>4 DEF HandleCleanup, HandleSession, HandleSpeed, HandleGate
<1> QED BY <1>1, <1>3, <1>4 DEF HttpStep

LEMMA HttpNext == HttpInv /\ [Next]_vars => HttpInv'
<1>1. HttpInv /\ (MenuTask \/ (\E e \in Inputs : Button(e)) \/ UNCHANGED vars) => HttpInv'
  BY DEF MenuTask, Button, vars, HttpInv
<1> QED BY <1>1, HttpRequest, HttpWork DEF Next

(* A request has at most three things left to do, and every one commands what    *)
(* the requests clients make can command (the handlers of RestRequests).          *)
THEOREM HttpCorrect == Spec => []HttpInv
  BY HttpInit, HttpNext, PTL DEF Spec

-----------------------------------------------------------------------------
(* Types, for any requests: first what the calls on motors, gate, queue and knob    *)
(* keep.                                                                      *)
Stopped     == speed = [m \in Motors |-> "stop"]

LEMMA Halt == ASSUME TurnKnob(0) PROVE Stopped'
<1>1. DirectionOf(0) = "stop"
  BY DEF DirectionOf
<1> QED BY <1>1 DEF TurnKnob, Stopped

Typed == /\ pc \in MenuSteps
         /\ speed \in [Motors -> Directions]
         /\ enabled \in [Motors -> BOOLEAN]
         /\ gate \in GateStates

(* The calls charge mode and cleanup mode make on motors and gate           *)
LEMMA Calls ==
  ASSUME Typed
  PROVE  /\ StopBoth => Stopped' /\ speed' \in [Motors -> Directions]
         /\ \A m \in Motors, d \in Directions : SetSpeed(m, d) =>
               speed' \in [Motors -> Directions]
         /\ SetSpeed("coarse", "stop") /\ speed["fine"] = "stop" => Stopped'
         /\ \A m \in Motors, d \in Directions : SetSpeed(m, d) /\ m # "fine" =>
               speed'["fine"] = speed["fine"]
         /\ EnableBoth => enabled' \in [Motors -> BOOLEAN]
         /\ DisableBoth => enabled' \in [Motors -> BOOLEAN] /\ StopBoth
         /\ \A g \in {"open", "close"} : MoveGate(g) => gate' \in GateStates
         /\ MoveGate("open") => gate' # "close"
         /\ \A v : TurnKnob(v) => speed' \in [Motors -> Directions]
         /\ TurnKnob(0) => Stopped'
<1> USE DEF Typed, Motors, Directions
<1>1. StopBoth => Stopped' /\ speed' \in [Motors -> Directions]
  BY DEF StopBoth, Stopped
<1>2. \A m \in Motors, d \in Directions : SetSpeed(m, d) =>
        /\ speed' \in [Motors -> Directions]
        /\ m # "fine" => speed'["fine"] = speed["fine"]
  BY DEF SetSpeed
<1>3. SetSpeed("coarse", "stop") /\ speed["fine"] = "stop" => Stopped'
  BY DEF SetSpeed, Stopped
<1>4. /\ EnableBoth => enabled' \in [Motors -> BOOLEAN]
      /\ DisableBoth => enabled' \in [Motors -> BOOLEAN] /\ StopBoth
  BY DEF EnableBoth, DisableBoth
<1>5. /\ \A g \in {"open", "close"} : MoveGate(g) => gate' \in GateStates
      /\ MoveGate("open") => gate' # "close"
  BY DEF MoveGate, GateStates
<1>6. ASSUME NEW v, TurnKnob(v)
      PROVE  speed' \in [Motors -> Directions]
  <2>1. DirectionOf(v) \in Directions
    BY DEF DirectionOf
  <2> QED BY <1>6, <2>1 DEF TurnKnob
<1>7. TurnKnob(0) => Stopped'
  BY Halt
<1> QED BY <1>1, <1>2, <1>3, <1>4, <1>5, <1>6, <1>7

LEMMA BothSpeeds ==
  ASSUME NEW c \in Directions, NEW f \in Directions
  PROVE  [coarse |-> c, fine |-> f] \in [Motors -> Directions]
  BY DEF Motors

LEMMA EventsTyped ==
  ASSUME StateTypeOK
  PROVE  /\ TakeEvent => events' \in Seq(Events) /\ Len(events') <= QueueLength
         /\ \A e \in Events : TrySend(e) => events' \in Seq(Events) /\ Len(events') <= QueueLength
         /\ \A e \in Events : HasRoom /\ events' = Append(events, e)
               => events' \in Seq(Events) /\ Len(events') <= QueueLength
<1>0. events \in Seq(Events) /\ Len(events) <= QueueLength /\ QueueLength \in Nat
  BY QueueAssumption DEF StateTypeOK
<1>1. ASSUME TakeEvent PROVE events' \in Seq(Events) /\ Len(events') <= QueueLength
  <2>1. CASE events = <<>>
    BY <1>0, <1>1, <2>1 DEF TakeEvent
  <2>2. CASE events # <<>>
    <3>1. events' = Tail(events)
      BY <1>1, <2>2 DEF TakeEvent
    <3>2. Tail(events) \in Seq(Events) /\ Len(Tail(events)) = Len(events) - 1 /\ Len(events) \in Nat
      BY <1>0, <2>2
    <3> QED BY <1>0, <3>1, <3>2
  <2> QED BY <2>1, <2>2
<1>2. ASSUME NEW e \in Events, HasRoom, events' = Append(events, e)
      PROVE  events' \in Seq(Events) /\ Len(events') <= QueueLength
  <2>1. Append(events, e) \in Seq(Events) /\ Len(Append(events, e)) = Len(events) + 1
        /\ Len(events) \in Nat
    BY <1>0
  <2> QED BY <1>0, <1>2, <2>1 DEF HasRoom
<1>3. ASSUME NEW e \in Events, TrySend(e)
      PROVE  events' \in Seq(Events) /\ Len(events') <= QueueLength
  BY <1>0, <1>2, <1>3 DEF TrySend
<1> QED BY <1>1, <1>2, <1>3

LEMMA KnobTyped ==
  ASSUME NEW v \in -MaxKnob..MaxKnob, TurnKnob(v)
  PROVE  knob' \in -MaxKnob..MaxKnob /\ speed' \in [Motors -> Directions]
<1>1. DirectionOf(v) \in Directions
  BY DEF DirectionOf, Directions
<1> QED BY <1>1 DEF TurnKnob

LEMMA UpToTyped == ASSUME NEW v \in Int PROVE UpTo(v) \in -MaxKnob..MaxKnob
<1>1. MaxKnob \in Nat
  BY KnobAssumption
<1>2. CASE v > MaxKnob
  BY <1>1, <1>2 DEF UpTo
<1>3. CASE v < -MaxKnob
  BY <1>1, <1>3 DEF UpTo
<1>4. CASE ~(v > MaxKnob) /\ ~(v < -MaxKnob)
  <2>1. UpTo(v) = v
    BY <1>4 DEF UpTo
  <2> QED BY <1>1, <1>4, <2>1
<1> QED BY <1>2, <1>3, <1>4

LEMMA FinishTyped ==
  ASSUME StateTypeOK, NEW m \in Modes, Finish(m)
  PROVE  pc' \in MenuSteps /\ mode' \in Modes /\ coarseMove' \in BOOLEAN
         /\ failCount' \in 0..(FailLimit - 1)
<1>1. FailLimit \in Nat /\ FailLimit > 0
  BY FailAssumption
<1> QED BY <1>1 DEF Finish, MenuSteps, ChargeSteps

LEMMA NoFailures == 0 \in 0..(FailLimit - 1)
  BY FailAssumption

LEMMA TypedOf == StateTypeOK => Typed
  BY DEF StateTypeOK, Typed

LEMMA TypeCharge == StateTypeOK /\ ChargeMode => StateTypeOK'
<1> SUFFICES ASSUME StateTypeOK, ChargeMode PROVE StateTypeOK'
  OBVIOUS
<1>0. Typed /\ Modes = {"EXIT", "ZERO", "COMPLETE", "REMOVAL", "RETURN", "OTHER"}
  BY TypedOf DEF Modes
<1>1. ASSUME NEW from \in {"zero", "fillPoll", "poll", "removal", "return"}, Reset(from)
      PROVE  StateTypeOK'
  <2>1. gate' \in GateStates
    BY <1>0, <1>1, Calls DEF Reset, Typed
  <2>2. pc' \in MenuSteps /\ mode' \in Modes /\ coarseMove' \in BOOLEAN
        /\ failCount' \in 0..(FailLimit - 1)
    BY <1>0, <1>1, FinishTyped DEF Reset
  <2>3. events' \in Seq(Events) /\ Len(events') <= QueueLength
    BY <1>1, EventsTyped DEF Reset
  <2>4. speed' \in [Motors -> Directions]
    BY <1>0, <1>1, Calls DEF Reset
  <2> QED BY <1>1, <2>1, <2>2, <2>3, <2>4 DEF Reset, ChargeFrame, cleanupVars, StateTypeOK
<1>2. ASSUME NEW from, NEW met, WaitPass(from, met), from \in MenuSteps, met \in MenuSteps
      PROVE  StateTypeOK'
  <2>1. events' \in Seq(Events) /\ Len(events') <= QueueLength
    BY <1>2, EventsTyped DEF WaitPass
  <2>2. pc' \in MenuSteps
    BY <1>2 DEF WaitPass
  <2> QED BY <1>2, <2>1, <2>2 DEF WaitPass, ChargeFrame, cleanupVars, motorVars, chargeVars,
       chargeLocals, StateTypeOK
<1>3. CASE Enter \/ Calm \/ Exit \/ Disable
  <2>1. pc' \in MenuSteps
    BY <1>3 DEF Enter, Calm, Exit, Disable, Goto, MenuSteps, ChargeSteps
  <2>2. speed' \in [Motors -> Directions] /\ enabled' \in [Motors -> BOOLEAN] /\ gate' \in GateStates
    BY <1>0, <1>3, Calls DEF Enter, Calm, Exit, Disable, Typed
  <2> QED BY <1>3, <2>1, <2>2 DEF Enter, Calm, Exit, Disable, ChargeFrame, cleanupVars, chargeVars,
       chargeLocals, StateTypeOK
<1>4. CASE Start \/ Zeroed \/ EndCharge
  <2>1. pc' \in MenuSteps /\ mode' \in Modes /\ coarseMove' \in BOOLEAN
        /\ failCount' \in 0..(FailLimit - 1)
    BY <1>0, <1>4, FinishTyped DEF Start, Zeroed, EndCharge
  <2> QED BY <1>4, <2>1 DEF Start, Zeroed, EndCharge, ChargeFrame, cleanupVars, motorVars, StateTypeOK
<1>5. CASE Loop
  <2>1. pc' \in MenuSteps
    BY <1>5 DEF Loop, MenuSteps, ChargeSteps
  <2> QED BY <1>5, <2>1 DEF Loop, ChargeFrame, cleanupVars, motorVars, chargeVars, chargeLocals,
       StateTypeOK
<1>6. CASE BeginCharge
  <2>1. pc' \in MenuSteps
    BY <1>6 DEF BeginCharge, MenuSteps, ChargeSteps
  <2>2. gate' \in GateStates
    BY <1>0, <1>6, Calls DEF BeginCharge
  <2> QED BY <1>6, <2>1, <2>2, NoFailures DEF BeginCharge, ChargeFrame, cleanupVars, motorVars,
       StateTypeOK
<1>7. CASE Zero
  BY <1>1, <1>2, <1>7 DEF Zero, MenuSteps, ChargeSteps
<1>8. CASE Removal \/ Return
  <2>1. ASSUME NEW m \in Modes, TakeEvent, Finish(m), ChargeFrame,
               UNCHANGED <<motorVars, gate, tuning, aiPending>>
        PROVE  StateTypeOK'
    BY <2>1, EventsTyped, FinishTyped DEF ChargeFrame, cleanupVars, motorVars, StateTypeOK
  <2> QED BY <1>0, <1>1, <1>2, <1>8, <2>1 DEF Removal, Return, MenuSteps, ChargeSteps
<1>9. CASE Report
  <2>1. RecordDrop(tuning) \subseteq Sessions
    BY DEF RecordDrop, Sessions, StateTypeOK
  <2>2. tuning' \in Sessions
    BY <1>9, <2>1 DEF Report, StateTypeOK
  <2>3. \/ Finish("EXIT")
        \/ pc' = "removal" /\ UNCHANGED <<mode, chargeLocals>>
    BY <1>9 DEF Report
  <2>4. pc' \in MenuSteps /\ mode' \in Modes /\ coarseMove' \in BOOLEAN
        /\ failCount' \in 0..(FailLimit - 1)
    BY <1>0, <2>3, FinishTyped DEF MenuSteps, ChargeSteps, chargeLocals, StateTypeOK
  <2> QED BY <1>9, <2>2, <2>4 DEF Report, ChargeFrame, cleanupVars, motorVars, StateTypeOK
<1>10. CASE Charging
  <2>1. CASE FillPoll \/ Poll
    BY <1>1, <1>2, <2>1 DEF FillPoll, Poll, MenuSteps, ChargeSteps
  <2>2. ASSUME NEW from \in {"fill", "measure"}, NEW again \in {"fill", "poll"},
               NoMeasurement(from, again)
        PROVE  StateTypeOK'
    <3>1. CASE EmergencyStop
      <4>1. speed' \in [Motors -> Directions] /\ enabled' \in [Motors -> BOOLEAN]
            /\ gate' \in GateStates
        BY <1>0, <3>1, Calls DEF EmergencyStop
      <4>2. pc' \in MenuSteps /\ mode' \in Modes /\ coarseMove' \in BOOLEAN
            /\ failCount' \in 0..(FailLimit - 1)
        BY <1>0, <3>1, FinishTyped DEF EmergencyStop
      <4> QED BY <2>2, <4>1, <4>2 DEF NoMeasurement, ChargeFrame, cleanupVars, StateTypeOK
    <3>2. CASE /\ ~(failCount + 1 >= FailLimit) /\ failCount' = failCount + 1 /\ pc' = again
               /\ UNCHANGED <<mode, motorVars, gate, coarseMove>>
      <4>1. failCount' \in 0..(FailLimit - 1)
        <5>1. failCount \in Nat /\ FailLimit \in Nat
          BY FailAssumption DEF StateTypeOK
        <5> QED BY <3>2, <5>1
      <4>2. pc' \in MenuSteps
        BY <3>2 DEF MenuSteps, ChargeSteps
      <4> QED BY <2>2, <3>2, <4>1, <4>2 DEF NoMeasurement, ChargeFrame, cleanupVars, motorVars,
           StateTypeOK
    <3> QED BY <2>2, <3>1, <3>2 DEF NoMeasurement
  <2>3. CASE Fill \/ FillSettle
    <3>1. speed' \in [Motors -> Directions] /\ pc' \in MenuSteps
      BY <1>0, <2>3, Calls DEF Fill, FillSettle, Goto, MenuSteps, ChargeSteps, Motors, Directions
    <3> QED BY <2>3, <3>1, NoFailures DEF Fill, FillSettle, ChargeFrame, cleanupVars, StateTypeOK
  <2>4. CASE Settle \/ Pulse \/ StartPrecharge \/ Reverse
    <3>1. speed' \in [Motors -> Directions] /\ pc' \in MenuSteps
      BY <1>0, <2>4, Calls DEF Settle, Pulse, StartPrecharge, Reverse, Goto, MenuSteps,
         ChargeSteps, Motors, Directions
    <3> QED BY <2>4, <3>1 DEF Settle, Pulse, StartPrecharge, Reverse, ChargeFrame, cleanupVars,
         chargeVars, chargeLocals, StateTypeOK
  <2>5. ASSUME NEW r \in Readings,
               CoarseOnlyStop(r) \/ FullStop(r) \/ RunCoarse(r) \/ CutCoarse(r) \/ RunFine(r)
        PROVE  StateTypeOK'
    <3>1. Measured(r) /\ coarseMove' \in BOOLEAN
      BY <2>5 DEF CoarseOnlyStop, FullStop, RunCoarse, CutCoarse, RunFine, StateTypeOK
    <3>2. pc' \in MenuSteps
      BY <2>5 DEF CoarseOnlyStop, FullStop, RunCoarse, CutCoarse, RunFine, MenuSteps, ChargeSteps
    <3>3. speed' \in [Motors -> Directions]
      <4>1. CASE CoarseOnlyStop(r) \/ FullStop(r)
        BY <1>0, <4>1, Calls DEF CoarseOnlyStop, FullStop, Motors, Directions
      <4>2. CASE RunCoarse(r) \/ CutCoarse(r) \/ RunFine(r)
        <5>1. PICK c \in Directions, f \in Directions : speed' = [coarse |-> c, fine |-> f]
          BY <4>2 DEF RunCoarse, CutCoarse, RunFine, Directions
        <5> QED BY <5>1, BothSpeeds
      <4> QED BY <2>5, <4>1, <4>2
    <3> QED BY <3>1, <3>2, <3>3, NoFailures DEF Measured, ChargeFrame, cleanupVars, StateTypeOK
  <2>6. CASE End \/ Record
    <3>1. gate' \in GateStates /\ pc' \in MenuSteps
      BY <1>0, <2>6, Calls DEF End, Record, Goto, MenuSteps, ChargeSteps, Typed
    <3>2. aiPending' \in BOOLEAN
      BY <2>6, Zenon DEF End, Record, chargeVars, StateTypeOK
    <3>3. UNCHANGED <<mode, exitState, events, speed, enabled, tuning, coarseMove, failCount,
                      cleanupState, knob>>
      BY <2>6 DEF End, Record, ChargeFrame, cleanupVars, motorVars, chargeVars, chargeLocals
    <3> QED BY <3>1, <3>2, <3>3 DEF StateTypeOK
  <2>7. CASE EndPrecharge
    <3>1. speed' \in [Motors -> Directions]
      BY <1>0, <2>7, Calls DEF EndPrecharge, Motors, Directions
    <3>2. pc' \in MenuSteps /\ mode' \in Modes /\ coarseMove' \in BOOLEAN
          /\ failCount' \in 0..(FailLimit - 1)
      BY <1>0, <2>7, FinishTyped DEF EndPrecharge
    <3> QED BY <2>7, <3>1, <3>2 DEF EndPrecharge, ChargeFrame, cleanupVars, StateTypeOK
  <2> QED BY <1>4, <1>10, <2>1, <2>2, <2>3, <2>4, <2>5, <2>6, <2>7 DEF Charging
<1> QED BY <1>3, <1>4, <1>5, <1>6, <1>7, <1>8, <1>9, <1>10 DEF ChargeMode

LEMMA TypeCleanup == StateTypeOK /\ CleanupMode => StateTypeOK'
<1> SUFFICES ASSUME StateTypeOK, CleanupMode PROVE StateTypeOK'
  OBVIOUS
<1>0. Typed
  BY TypedOf
<1>00. MaxKnob \in Nat /\ knob \in Int
  BY KnobAssumption DEF StateTypeOK
<1>1. CASE CleanupEnter \/ CleanupExit
  <2>1. pc' \in MenuSteps /\ cleanupState' \in {"EXIT", "ENTER"}
    BY <1>1 DEF CleanupEnter, CleanupExit, MenuSteps, CleanupSteps
  <2>2. speed' \in [Motors -> Directions] /\ enabled' \in [Motors -> BOOLEAN] /\ gate' \in GateStates
    BY <1>0, <1>1, Calls DEF CleanupEnter, CleanupExit, CloseIfSeenOpen, Typed
  <2>3. knob' \in -MaxKnob..MaxKnob
    BY <1>00, <1>1 DEF CleanupEnter, CleanupExit, StateTypeOK
  <2> QED BY <1>1, <2>1, <2>2, <2>3 DEF CleanupEnter, CleanupExit, CleanupFrame, chargeVars,
       chargeLocals, StateTypeOK
<1>2. CASE CleanupOpen
  <2>1. pc' \in MenuSteps /\ gate' \in GateStates
    BY <1>0, <1>2, Calls DEF CleanupOpen, MenuSteps, CleanupSteps
  <2> QED BY <1>2, <2>1 DEF CleanupOpen, CleanupFrame, chargeVars, chargeLocals, motorVars,
       cleanupVars, StateTypeOK
<1>3. CASE CleanupEvent
  <2>1. events' \in Seq(Events) /\ Len(events') <= QueueLength
    BY <1>3, EventsTyped DEF CleanupEvent
  <2>2. \/ \E v \in -MaxKnob..MaxKnob : TurnKnob(v)
        \/ UNCHANGED <<knob, speed>>
    <3>1. 0 \in -MaxKnob..MaxKnob /\ UpTo(knob + 1) \in -MaxKnob..MaxKnob
          /\ UpTo(knob - 1) \in -MaxKnob..MaxKnob
      BY <1>00, UpToTyped
    <3> QED BY <1>3, <3>1, Zenon DEF CleanupEvent
  <2>3. knob' \in -MaxKnob..MaxKnob /\ speed' \in [Motors -> Directions]
    BY <2>2, KnobTyped DEF StateTypeOK
  <2>4. pc' \in MenuSteps
    BY <1>3 DEF CleanupEvent, MenuSteps, CleanupSteps
  <2> QED BY <1>3, <2>1, <2>3, <2>4 DEF CleanupEvent, CleanupFrame, chargeVars, chargeLocals,
       StateTypeOK
<1> QED BY <1>1, <1>2, <1>3 DEF CleanupMode

LEMMA TypeHttp == HttpInv /\ StateTypeOK /\ HttpStep => StateTypeOK'
<1> SUFFICES ASSUME HttpInv, StateTypeOK, HttpStep PROVE StateTypeOK'
  OBVIOUS
<1> USE DEF motorVars, chargeVars, chargeLocals, cleanupVars
<1>1. WrittenModes \subseteq Modes /\ DirectSpeeds \subseteq -MaxKnob..MaxKnob
      /\ DirectGates \subseteq GateStates /\ Switches = {"EXIT", "ENTER"}
  BY RestAssumption, SpeedAssumption DEF WrittenModes, Modes, DirectSpeeds, DirectGates, Switches
<1>2. CASE HandleSend \/ HandlePost
  <2>1. Arg \in Events
    BY <1>2, ArgIn DEF HandleSend, HandlePost
  <2>2. events' \in Seq(Events) /\ Len(events') <= QueueLength
    BY <1>2, <2>1, EventsTyped DEF HandleSend, HandlePost
  <2> QED BY <1>2, <2>2 DEF HandleSend, HandlePost, StateTypeOK
<1>3. CASE HandleMode
  BY <1>1, <1>3, ArgIn DEF HandleMode, StateTypeOK
<1>4. CASE HandleExitState
  BY <1>4, ArgIn DEF HandleExitState, StateTypeOK
<1>5. CASE HandleCleanup
  BY <1>1, <1>5, ArgIn DEF HandleCleanup, StateTypeOK
<1>6. CASE HandleSpeed
  <2>1. Arg \in -MaxKnob..MaxKnob
    BY <1>1, <1>6, ArgIn DEF HandleSpeed
  <2>2. knob' \in -MaxKnob..MaxKnob /\ speed' \in [Motors -> Directions]
    BY <1>6, <2>1, KnobTyped DEF HandleSpeed
  <2> QED BY <1>6, <2>2 DEF HandleSpeed, StateTypeOK
<1>7. CASE HandleGate
  BY <1>1, <1>7, ArgIn DEF HandleGate, StateTypeOK
<1>8. CASE HandleSession
  BY <1>8, ArgIn DEF HandleSession, StateTypeOK
<1>9. CASE HandleEnter
  BY <1>9 DEF HandleEnter, stateVars, StateTypeOK
<1> QED BY <1>2, <1>3, <1>4, <1>5, <1>6, <1>7, <1>8, <1>9 DEF HttpStep

LEMMA TypeInit == Init => StateTypeOK
<1> SUFFICES ASSUME Init PROVE StateTypeOK
  OBVIOUS
<1> USE DEF Init, InitState
<1>1. pc \in MenuSteps /\ mode \in Modes /\ exitState \in ExitStates /\ gate \in GateStates
      /\ tuning \in Sessions /\ cleanupState \in {"EXIT", "ENTER"}
  BY DEF MenuSteps, Modes, ExitStates, GateStates, Sessions
<1>2. events \in Seq(Events) /\ Len(events) <= QueueLength
  BY QueueAssumption
<1>3. speed \in [Motors -> Directions] /\ enabled \in [Motors -> BOOLEAN]
  BY DEF Directions
<1>4. failCount \in 0..(FailLimit - 1) /\ knob \in -MaxKnob..MaxKnob
  BY NoFailures, KnobAssumption
<1>5. coarseMove \in BOOLEAN /\ aiPending \in BOOLEAN
  BY Zenon
<1> QED BY <1>1, <1>2, <1>3, <1>4, <1>5 DEF StateTypeOK

LEMMA TypeNext == HttpInv /\ StateTypeOK /\ [Next]_vars => StateTypeOK'
<1> SUFFICES ASSUME HttpInv, StateTypeOK, [Next]_vars PROVE StateTypeOK'
  OBVIOUS
<1>1. CASE MenuTask
  <2>1. CASE FormLeave \/ FormStay \/ Dispatch
    <3>1. pc' \in MenuSteps
      BY <2>1 DEF FormLeave, FormStay, Dispatch, Goto, MenuSteps, ChargeSteps, CleanupSteps
    <3>2. exitState' \in ExitStates
      BY <2>1 DEF FormLeave, FormStay, Dispatch, ExitStates, StateTypeOK
    <3>3. events' \in Seq(Events) /\ Len(events') <= QueueLength
      BY <2>1, EventsTyped DEF FormLeave, FormStay, Dispatch, StateTypeOK
    <3>4. UNCHANGED <<mode, motorVars, gate, chargeVars, tuning, cleanupVars>>
      BY <2>1 DEF FormLeave, FormStay, Dispatch
    <3> QED BY <3>1, <3>2, <3>3, <3>4 DEF motorVars, chargeVars, chargeLocals, cleanupVars,
         StateTypeOK
  <2> QED BY <1>1, <2>1, TypeCharge, TypeCleanup DEF MenuTask
<1>2. ASSUME NEW e \in Inputs, Button(e) PROVE StateTypeOK'
  <2>1. e \in Events
    BY InputAssumption DEF Events
  <2>2. events' \in Seq(Events) /\ Len(events') <= QueueLength
    BY <1>2, <2>1, EventsTyped DEF Button
  <2> QED BY <1>2, <2>2 DEF Button, motorVars, chargeVars, chargeLocals, cleanupVars, StateTypeOK
<1>3. ASSUME UNCHANGED stateVars PROVE StateTypeOK'
  BY <1>3 DEF stateVars, motorVars, chargeVars, chargeLocals, cleanupVars, StateTypeOK
<1> QED BY <1>1, <1>2, <1>3, HttpRequest, TypeHttp DEF Next, vars

LEMMA EffectFields == \A e \in Effects : DOMAIN e = {"do", "with"}
  BY DEF Effects, Works

(* Types, for any requests: the handlers leave nothing in the shared state      *)
(* that charge mode, cleanup mode or the menu would not have put there.         *)
THEOREM TypeCorrect == Spec => []TypeOK
<1>1. HttpInv /\ StateTypeOK /\ [Next]_vars => StateTypeOK'
  BY TypeNext
<1>2. HttpInv /\ StateTypeOK => TypeOK
  <2> SUFFICES ASSUME HttpInv, StateTypeOK, NEW i \in DOMAIN http PROVE DOMAIN http[i] = {"do", "with"}
    BY DEF TypeOK, HttpInv
  <2>1. http[i] \in Effects
    BY DEF HttpInv
  <2> QED BY <2>1, EffectFields
<1> QED BY <1>1, <1>2, TypeInit, HttpCorrect, PTL DEF Spec

-----------------------------------------------------------------------------
(* What the motors are doing, for any requests but those that drive them.  With    *)
(* every step comes the step of DispenseCycle it is, or none.                 *)
NoDriving == "cleanupSpeed" \in RestOps => RestSpeeds \subseteq {0}

(* Where both motors were told to stop, also when their drivers are off;      *)
(* where only the coarse motor may turn; where one of the two may feed.        *)
QuietSteps  == StillSteps \cup {"enter", "calm", "cleanupEnter", "cleanupOpen", "cleanupExit"}
CoarseSteps == {"prechargeEnd", "fill", "fillPoll", "fillSettle"}
EitherSteps == {"poll", "measure", "reverse", "settle", "pulse"}

FineStopped == speed["fine"] = "stop"
NotBoth     == speed["coarse"] # "fwd" \/ speed["fine"] # "fwd"
Alike       == enabled["coarse"] = enabled["fine"]

MotorInv ==
    /\ Alike
    /\ pc \in QuietSteps => Stopped
    /\ pc \in CoarseSteps => FineStopped
    /\ pc \in EitherSteps => NotBoth

Feeds     == {m \in Motors : Feeding(m)}
CycleStep == [Cycle!Next]_(Cycle!vars)

(* Phases, and what the invariant says of the motors that feed               *)
PhaseFacts ==
    /\ pc \in {"form", "dispatch", "enter", "calm", "start", "exit", "disable",
               "cleanupEnter", "cleanupExit"} => Phase = "off"
    /\ pc \in {"cleanupOpen", "cleanup"} => Phase = "cleanup"
    /\ pc \in {"zero", "zeroed"} => Phase = "zero"
    /\ pc \in {"fill", "fillPoll", "fillSettle"} \cup EitherSteps => Phase = "charge"
    /\ pc \in {"end", "record", "precharge", "prechargeEnd", "done"} => Phase = "refill"
    /\ pc \in {"report", "removal"} => Phase = "removal"
    /\ pc = "return" => Phase = "return"
    /\ pc = "loop" /\ mode = "ZERO" => Phase = "zero"
    /\ pc = "loop" /\ mode = "COMPLETE" => Phase = "charge"
    /\ pc = "loop" /\ mode = "REMOVAL" => Phase = "removal"
    /\ pc = "loop" /\ mode = "RETURN" => Phase = "return"
    /\ pc = "loop" /\ mode \notin {"ZERO", "COMPLETE", "REMOVAL", "RETURN"} => Phase = "off"
    /\ Phase \in Cycle!Phases

LEMMA PhaseOf == PhaseFacts /\ PhaseFacts'
<1>1. PhaseFacts
  BY DEF PhaseFacts, Phase, EitherSteps, Cycle!Phases
<1>2. PhaseFacts'
  BY DEF PhaseFacts, Phase, EitherSteps, Cycle!Phases
<1> QED BY <1>1, <1>2

FeedFacts ==
    /\ Stopped => Feeds = {}
    /\ NotBoth => Feeds \in Cycle!AtMostOne
    /\ Alike /\ speed["coarse"] = speed["fine"] => Feeds \in {{}, Motors}

LEMMA FeedOf == FeedFacts /\ FeedFacts'
<1> USE DEF FeedFacts, Feeds, Feeding, Motors, Stopped, NotBoth, Alike, Cycle!AtMostOne
<1>1. FeedFacts
  OBVIOUS
<1>2. FeedFacts'
  OBVIOUS
<1> QED BY <1>1, <1>2

(* The steps of the cycle                                                   *)
LEMMA Same == ASSUME UNCHANGED <<Phase, Feeds>> PROVE CycleStep
  BY DEF CycleStep, Cycle!vars, Feeds

LEMMA Advancing ==
  ASSUME Feeds' = {},
         \/ Phase = "off" /\ Phase' \in {"zero", "cleanup"}
         \/ Phase = "zero" /\ Phase' = "charge"
         \/ Phase = "charge" /\ Phase' = "refill"
         \/ Phase = "refill" /\ Phase' = "removal"
         \/ Phase = "removal" /\ Phase' = "return"
         \/ Phase = "return" /\ Phase' = "zero"
         \/ Phase' = "off"
  PROVE  CycleStep
<1>1. Phase \in Cycle!Phases
  BY PhaseOf DEF PhaseFacts
<1> QED
  BY <1>1 DEF CycleStep, Cycle!Next, Cycle!Begin, Cycle!Charge, Cycle!Drop, Cycle!Weigh,
     Cycle!Take, Cycle!Again, Cycle!Stop, Cycle!Clean, Cycle!Advance, Cycle!Quiet, Feeds

LEMMA Staying ==
  ASSUME \/ Phase \in {"charge", "refill"} /\ Feeds' \in Cycle!AtMostOne
         \/ Phase = "cleanup" /\ Feeds' \in {{}, Motors},
         UNCHANGED Phase
  PROVE  CycleStep
  BY DEF CycleStep, Cycle!Next, Cycle!Feed, Cycle!Refill, Cycle!Purge, Feeds

(* From standing to standing, in the same phase or on to the next            *)
LEMMA Standing ==
  ASSUME Alike', Stopped',
         \/ Stopped /\ UNCHANGED Phase
         \/ Phase = "off" /\ Phase' \in {"zero", "cleanup"}
         \/ Phase = "zero" /\ Phase' = "charge"
         \/ Phase = "charge" /\ Phase' = "refill"
         \/ Phase = "refill" /\ Phase' = "removal"
         \/ Phase = "removal" /\ Phase' = "return"
         \/ Phase = "return" /\ Phase' = "zero"
         \/ Phase' = "off"
  PROVE  MotorInv' /\ CycleStep
<1>1. Feeds' = {} /\ (Stopped => Feeds = {})
  BY FeedOf DEF FeedFacts
<1>2. speed'["coarse"] = "stop" /\ speed'["fine"] = "stop"
  BY DEF Stopped, Motors
<1>3. MotorInv'
  BY <1>2 DEF MotorInv, FineStopped, NotBoth
<1> QED BY <1>1, <1>3, Same, Advancing

LEMMA StopsBoth == StopBoth \/ TurnKnob(0) => Stopped'
  BY Halt DEF StopBoth, Stopped

LEMMA MotorCharge ==
  ASSUME StateTypeOK, StateTypeOK', MotorInv, ChargeMode
  PROVE  MotorInv' /\ CycleStep
<1> USE PhaseOf DEF PhaseFacts
<1>0. Typed
  BY TypedOf
<1>1. ASSUME NEW m, Finish(m)
      PROVE  /\ pc' = "loop" /\ mode' = m
             /\ m = "EXIT" => Phase' = "off"
             /\ m = "ZERO" => Phase' = "zero"
             /\ m = "COMPLETE" => Phase' = "charge"
             /\ m = "REMOVAL" => Phase' = "removal"
             /\ m = "RETURN" => Phase' = "return"
  BY <1>1 DEF Finish
<1>2. ASSUME NEW from, Reset(from)
      PROVE  MotorInv' /\ CycleStep
  <2>1. Stopped' /\ Alike' /\ Phase' = "off"
    BY <1>1, <1>2, StopsBoth DEF Reset, MotorInv, Alike
  <2> QED BY <2>1, Standing
<1>3. ASSUME NEW from, NEW met, WaitPass(from, met)
      PROVE  /\ pc = from /\ pc' \in {from, met} /\ UNCHANGED <<speed, enabled>>
             /\ Stopped' <=> Stopped
             /\ Alike' <=> Alike
             /\ NotBoth' <=> NotBoth
             /\ Feeds' = Feeds
  BY <1>3 DEF WaitPass, motorVars, Stopped, Alike, NotBoth, Feeds, Feeding
<1>4. CASE Enter \/ Calm \/ Exit \/ Disable
  <2>1. pc \in QuietSteps /\ Phase = "off" /\ Phase' = "off"
    BY <1>4 DEF Enter, Calm, Exit, Disable, Goto, QuietSteps, StillSteps
  <2>2. Stopped'
    BY <1>4, <2>1, StopsBoth DEF Enter, Calm, Exit, Disable, DisableBoth, MotorInv, Stopped
  <2>3. Alike'
    BY <1>4 DEF Enter, Calm, Exit, Disable, EnableBoth, DisableBoth, MotorInv, Alike, Motors
  <2> QED BY <2>1, <2>2, <2>3, Standing
<1>5. CASE Start \/ Zeroed \/ EndCharge
  <2>1. Stopped' /\ Alike'
    BY <1>5 DEF Start, Zeroed, EndCharge, motorVars, MotorInv, QuietSteps, StillSteps, Stopped, Alike
  <2>2. \/ Phase = "off" /\ Phase' = "zero"
        \/ Phase = "zero" /\ Phase' = "charge"
        \/ Phase = "refill" /\ Phase' = "removal"
    BY <1>1, <1>5 DEF Start, Zeroed, EndCharge
  <2> QED BY <2>1, <2>2, Standing
<1>6. CASE Loop \/ BeginCharge
  <2>1. pc = "loop" /\ UNCHANGED motorVars
    BY <1>6 DEF Loop, BeginCharge
  <2>2. Stopped /\ Stopped' /\ Alike'
    BY <2>1 DEF motorVars, MotorInv, QuietSteps, StillSteps, Stopped, Alike
  <2>3. Phase' = Phase
    <3>1. CASE Loop
      BY <3>1 DEF Loop
    <3>2. CASE BeginCharge
      <4>1. pc' \in {"fill", "poll"}
        BY <3>2 DEF BeginCharge
      <4>2. Phase = "charge"
        BY <3>2 DEF BeginCharge
      <4>3. Phase' = "charge"
        BY <4>1 DEF EitherSteps
      <4> QED BY <4>2, <4>3
    <3> QED BY <1>6, <3>1, <3>2
  <2> QED BY <2>2, <2>3, Standing
<1>7. CASE Zero \/ Removal \/ Return
  <2>1. CASE Reset("zero") \/ Reset("removal") \/ Reset("return")
    BY <1>2, <2>1
  <2>2. CASE \/ WaitPass("zero", "zeroed")
             \/ WaitPass("removal", "removal")
             \/ WaitPass("return", "return")
    <3>1. /\ pc \in QuietSteps /\ Phase' = Phase
          /\ (Stopped' <=> Stopped) /\ (Alike' <=> Alike)
      <4>1. CASE WaitPass("zero", "zeroed")
        BY <1>3, <4>1 DEF QuietSteps, StillSteps
      <4>2. CASE WaitPass("removal", "removal")
        BY <1>3, <4>2 DEF QuietSteps, StillSteps
      <4>3. CASE WaitPass("return", "return")
        BY <1>3, <4>3 DEF QuietSteps, StillSteps
      <4> QED BY <2>2, <4>1, <4>2, <4>3
    <3> QED BY <3>1, Standing DEF MotorInv
  <2>3. CASE \/ pc = "removal" /\ Finish("RETURN") /\ UNCHANGED motorVars
             \/ pc = "return" /\ Finish("ZERO") /\ UNCHANGED motorVars
    <3>1. \/ Phase = "removal" /\ Phase' = "return"
          \/ Phase = "return" /\ Phase' = "zero"
      BY <1>1, <2>3
    <3>2. Stopped' /\ Alike'
      BY <2>3 DEF motorVars, MotorInv, QuietSteps, StillSteps, Stopped, Alike
    <3> QED BY <3>1, <3>2, Standing
  <2> QED BY <1>7, <2>1, <2>2, <2>3 DEF Zero, Removal, Return
<1>8. CASE Report
  <2>1. Stopped /\ Stopped' /\ Alike'
    BY <1>8 DEF Report, motorVars, MotorInv, QuietSteps, StillSteps, Stopped, Alike
  <2>2. \/ Finish("EXIT")
        \/ pc' = "removal"
    BY <1>8 DEF Report
  <2>3. Phase' = "off" \/ Phase' = Phase
    BY <1>1, <1>8, <2>2 DEF Report
  <2> QED BY <2>1, <2>3, Standing
<1>9. CASE FillPoll \/ Poll
  <2>1. CASE Reset("fillPoll") \/ Reset("poll")
    BY <1>2, <2>1
  <2>2. CASE WaitPass("fillPoll", "fill")
    <3>1. /\ pc = "fillPoll" /\ pc' \in {"fillPoll", "fill"} /\ UNCHANGED <<speed, enabled>>
          /\ Feeds' = Feeds
      BY <1>3, <2>2
    <3>2. Phase' = Phase
      BY <3>1
    <3>3. MotorInv'
      BY <3>1 DEF MotorInv, Alike, FineStopped, NotBoth, CoarseSteps, EitherSteps, QuietSteps,
         StillSteps
    <3> QED BY <3>1, <3>2, <3>3, Same
  <2>3. CASE WaitPass("poll", "measure")
    <3>1. /\ pc = "poll" /\ pc' \in {"poll", "measure"} /\ UNCHANGED <<speed, enabled>>
          /\ Feeds' = Feeds
      BY <1>3, <2>3
    <3>2. Phase' = Phase
      BY <3>1 DEF EitherSteps
    <3>3. MotorInv'
      BY <3>1 DEF MotorInv, Alike, FineStopped, NotBoth, CoarseSteps, EitherSteps, QuietSteps,
         StillSteps
    <3> QED BY <3>1, <3>2, <3>3, Same
  <2> QED BY <1>9, <2>1, <2>2, <2>3 DEF FillPoll, Poll
<1>10. CASE NoMeasurement("fill", "fill") \/ NoMeasurement("measure", "poll")
  <2>1. CASE EmergencyStop
    <3>1. Stopped' /\ Alike' /\ Phase' = "off"
      BY <1>1, <2>1, StopsBoth DEF EmergencyStop, DisableBoth, Alike, Motors
    <3> QED BY <3>1, Standing
  <2>2. CASE /\ UNCHANGED motorVars
             /\ (pc = "fill" /\ pc' = "fill") \/ (pc = "measure" /\ pc' = "poll")
    <3>1. Feeds' = Feeds /\ Phase' = Phase
      BY <2>2 DEF motorVars, Feeds, Feeding, EitherSteps
    <3>2. MotorInv'
      BY <2>2 DEF motorVars, MotorInv, Alike, FineStopped, NotBoth, CoarseSteps, EitherSteps,
         QuietSteps, StillSteps
    <3> QED BY <3>1, <3>2, Same
  <2>3. NoMeasurement("fill", "fill") =>
          EmergencyStop \/ (pc = "fill" /\ pc' = "fill" /\ UNCHANGED motorVars)
    BY DEF NoMeasurement
  <2>4. NoMeasurement("measure", "poll") =>
          EmergencyStop \/ (pc = "measure" /\ pc' = "poll" /\ UNCHANGED motorVars)
    BY DEF NoMeasurement
  <2> QED BY <1>10, <2>1, <2>2, <2>3, <2>4
<1>11. ASSUME Phase = "charge", Phase' = "charge", enabled' = enabled, NotBoth',
              pc' \in CoarseSteps => FineStopped', pc' \notin QuietSteps
       PROVE  MotorInv' /\ CycleStep
  <2>1. Feeds' \in Cycle!AtMostOne
    BY <1>11, FeedOf DEF FeedFacts
  <2>2. MotorInv'
    BY <1>11 DEF MotorInv, Alike
  <2> QED BY <1>11, <2>1, <2>2, Staying
<1>12. CASE Fill \/ FillSettle
  <2>1. /\ pc \in {"fill", "fillSettle"} /\ enabled' = enabled
        /\ pc' \in {"fillPoll", "fillSettle", "poll"}
        /\ speed'["fine"] = speed["fine"]
    BY <1>12 DEF Fill, FillSettle, Goto, SetSpeed, StateTypeOK, Motors
  <2>2. speed["fine"] = "stop"
    BY <2>1 DEF MotorInv, CoarseSteps, FineStopped
  <2>3. Phase = "charge" /\ Phase' = "charge" /\ pc' \notin QuietSteps
    BY <2>1 DEF EitherSteps, QuietSteps, StillSteps
  <2> QED BY <1>11, <2>1, <2>2, <2>3 DEF NotBoth, FineStopped
<1>13. CASE Settle \/ Pulse
  <2>1. /\ pc \in {"settle", "pulse"} /\ enabled' = enabled /\ pc' = "poll"
        /\ speed'["fine"] = "stop" \/ speed'["coarse"] = "stop"
    BY <1>13 DEF Settle, Pulse, Goto, SetSpeed, StateTypeOK, Motors
  <2>2. Phase = "charge" /\ Phase' = "charge" /\ pc' \notin QuietSteps /\ pc' \notin CoarseSteps
    BY <2>1 DEF EitherSteps, QuietSteps, StillSteps, CoarseSteps
  <2> QED BY <1>11, <2>1, <2>2 DEF NotBoth
<1>14. ASSUME Phase = "charge", pc' = "end", StopBoth, enabled' = enabled
       PROVE  MotorInv' /\ CycleStep
  <2>1. Stopped' /\ Alike' /\ Phase' = "refill"
    BY <1>14, StopsBoth DEF MotorInv, Alike
  <2> QED BY <1>14, <2>1, Standing
<1>15. ASSUME NEW r \in Readings,
              CoarseOnlyStop(r) \/ FullStop(r) \/ RunCoarse(r) \/ CutCoarse(r) \/ RunFine(r)
       PROVE  MotorInv' /\ CycleStep
  <2>1. pc = "measure" /\ enabled' = enabled /\ Phase = "charge"
    BY <1>15 DEF CoarseOnlyStop, FullStop, RunCoarse, CutCoarse, RunFine, Measured, EitherSteps
  <2>2. ASSUME pc' \in {"reverse", "poll", "settle", "pulse"}, NotBoth'
        PROVE  MotorInv' /\ CycleStep
    <3>1. Phase' = "charge" /\ pc' \notin QuietSteps /\ pc' \notin CoarseSteps
      BY <2>2 DEF EitherSteps, QuietSteps, StillSteps, CoarseSteps
    <3> QED BY <1>11, <2>1, <2>2, <3>1
  <2>3. CASE CoarseOnlyStop(r) \/ FullStop(r)
    <3>1. \/ SetSpeed("coarse", "rev") /\ pc' = "reverse"
          \/ StopBoth /\ pc' = "end"
      BY <2>3 DEF CoarseOnlyStop, FullStop
    <3>2. CASE SetSpeed("coarse", "rev") /\ pc' = "reverse"
      <4>1. NotBoth'
        BY <3>2 DEF SetSpeed, NotBoth, StateTypeOK, Motors
      <4> QED BY <2>2, <3>2, <4>1
    <3> QED BY <1>14, <2>1, <3>1, <3>2
  <2>4. CASE RunCoarse(r) \/ CutCoarse(r) \/ RunFine(r)
    <3>1. PICK c \in Directions, f \in Directions :
             speed' = [coarse |-> c, fine |-> f] /\ (c # "fwd" \/ f # "fwd")
      BY <2>4 DEF RunCoarse, CutCoarse, RunFine, Directions
    <3>2. NotBoth'
      BY <3>1 DEF NotBoth
    <3>3. pc' \in {"poll", "settle", "pulse"}
      BY <2>4 DEF RunCoarse, CutCoarse, RunFine
    <3> QED BY <2>2, <3>2, <3>3
  <2> QED BY <1>15, <2>3, <2>4
<1>16. CASE Reverse
  <2>1. Phase = "charge"
    BY <1>16 DEF Reverse, Goto, EitherSteps
  <2> QED BY <1>14, <1>16, <2>1 DEF Reverse, Goto
<1>17. CASE End \/ Record
  <2>1. pc \in QuietSteps /\ UNCHANGED motorVars /\ Phase = "refill" /\ Phase' = "refill"
    BY <1>17 DEF End, Record, Goto, QuietSteps, StillSteps
  <2>2. Stopped /\ Stopped' /\ Alike'
    BY <2>1 DEF motorVars, MotorInv, Stopped, Alike
  <2> QED BY <2>1, <2>2, Standing
<1>18. CASE StartPrecharge
  <2>1. /\ pc = "precharge" /\ pc' = "prechargeEnd" /\ enabled' = enabled
        /\ speed'["fine"] = speed["fine"]
    BY <1>18 DEF StartPrecharge, Goto, SetSpeed, StateTypeOK, Motors
  <2>2. speed["fine"] = "stop"
    BY <2>1 DEF MotorInv, QuietSteps, StillSteps, Stopped, Motors
  <2>3. NotBoth' /\ FineStopped' /\ Alike'
    BY <2>1, <2>2 DEF NotBoth, FineStopped, MotorInv, Alike
  <2>4. Feeds' \in Cycle!AtMostOne /\ Phase = "refill" /\ Phase' = "refill"
    BY <2>1, <2>3, FeedOf DEF FeedFacts
  <2>5. MotorInv'
    BY <2>1, <2>3 DEF MotorInv, QuietSteps, StillSteps, EitherSteps
  <2> QED BY <2>4, <2>5, Staying
<1>19. CASE EndPrecharge
  <2>1. speed["fine"] = "stop"
    BY <1>19 DEF EndPrecharge, MotorInv, CoarseSteps, FineStopped
  <2>2. Stopped'
    BY <1>0, <1>19, <2>1, Calls DEF EndPrecharge
  <2>3. Alike' /\ Phase = "refill" /\ Phase' = "removal"
    BY <1>1, <1>19 DEF EndPrecharge, MotorInv, Alike
  <2> QED BY <2>2, <2>3, Standing
<1>20. CASE Charging
  BY <1>5, <1>9, <1>10, <1>12, <1>13, <1>15, <1>16, <1>17, <1>18, <1>19, <1>20 DEF Charging
<1> QED BY <1>4, <1>5, <1>6, <1>7, <1>8, <1>20 DEF ChargeMode

LEMMA MotorCleanup ==
  ASSUME StateTypeOK, StateTypeOK', MotorInv, CleanupMode
  PROVE  MotorInv' /\ CycleStep
<1> USE PhaseOf DEF PhaseFacts
<1>1. CASE CleanupEnter
  <2>1. Phase = "off" /\ Phase' = "cleanup"
    BY <1>1 DEF CleanupEnter
  <2>2. Alike' /\ Stopped'
    BY <1>1 DEF CleanupEnter, EnableBoth, Alike, Motors, MotorInv, QuietSteps, Stopped
  <2> QED BY <2>1, <2>2, Standing
<1>2. CASE CleanupOpen
  <2>1. Phase = "cleanup" /\ Phase' = "cleanup" /\ UNCHANGED motorVars /\ pc' = "cleanup" /\ Stopped
    BY <1>2 DEF CleanupOpen, MotorInv, QuietSteps
  <2>2. Stopped' /\ Alike'
    BY <2>1 DEF motorVars, MotorInv, Stopped, Alike
  <2> QED BY <2>1, <2>2, Standing
<1>3. CASE CleanupEvent
  <2>1. Phase = "cleanup" /\ UNCHANGED enabled
    BY <1>3 DEF CleanupEvent
  <2>2. \/ TurnKnob(0) /\ pc' = "cleanupExit"
        \/ (\E v : TurnKnob(v)) /\ pc' = "cleanup"
        \/ speed' = speed /\ pc' = "cleanup"
    BY <1>3, Zenon DEF CleanupEvent
  <2>3. CASE TurnKnob(0) /\ pc' = "cleanupExit"
    <3>1. Stopped' /\ Alike' /\ Phase' = "off"
      BY <2>1, <2>3, StopsBoth DEF MotorInv, Alike
    <3> QED BY <3>1, Standing
  <2>4. CASE pc' = "cleanup"
    <3>1. MotorInv' /\ Phase' = Phase
      BY <2>1, <2>4 DEF MotorInv, Alike, QuietSteps, StillSteps, CoarseSteps, EitherSteps
    <3>2. ASSUME NEW v, TurnKnob(v) PROVE Feeds' \in {{}, Motors}
      <4>1. speed'["coarse"] = speed'["fine"]
        BY <3>2 DEF TurnKnob, Motors
      <4> QED BY <3>1, <4>1, FeedOf DEF FeedFacts, MotorInv
    <3>3. ASSUME speed' = speed PROVE Feeds' = Feeds
      BY <2>1, <3>3 DEF Feeds, Feeding
    <3> QED BY <2>1, <2>2, <2>4, <3>1, <3>2, <3>3, Same, Staying
  <2> QED BY <2>2, <2>3, <2>4
<1>4. CASE CleanupExit
  <2>1. Stopped' /\ Alike' /\ Phase' = "off"
    BY <1>4, StopsBoth DEF CleanupExit, DisableBoth, Alike, Motors
  <2> QED BY <2>1, Standing
<1> QED BY <1>1, <1>2, <1>3, <1>4 DEF CleanupMode

LEMMA MotorMenu ==
  ASSUME StateTypeOK, StateTypeOK', MotorInv, MenuTask
  PROVE  MotorInv' /\ CycleStep
<1>1. CASE FormLeave \/ FormStay \/ Dispatch
  <2>1. /\ pc \in {"form", "dispatch"}
        /\ pc' \in {"form", "dispatch", "enter", "cleanupEnter"}
        /\ UNCHANGED motorVars
    BY <1>1 DEF FormLeave, FormStay, Dispatch, Goto
  <2>2. Phase = "off" /\ Phase' = "off"
    BY <2>1, PhaseOf DEF PhaseFacts
  <2>3. Stopped /\ Stopped' /\ Alike'
    BY <2>1 DEF MotorInv, QuietSteps, StillSteps, motorVars, Stopped, Alike
  <2> QED BY <2>2, <2>3, Standing
<1> QED BY <1>1, MotorCharge, MotorCleanup DEF MenuTask

(* A request leaves the motors as they are or stops them both.               *)
LEMMA Undriven ==
  ASSUME NoDriving, HttpInv, HttpStep
  PROVE  /\ UNCHANGED <<pc, enabled>>
         /\ UNCHANGED speed \/ Stopped'
         /\ UNCHANGED mode \/ mode' \in WrittenModes
<1>1. Doing("speed") => Arg = 0
  BY ArgIn DEF NoDriving, DirectSpeeds
<1>2. CASE HandleSend \/ HandlePost \/ HandleExitState \/ HandleGate
  BY <1>2 DEF HandleSend, HandlePost, HandleExitState, HandleGate, motorVars
<1>3. CASE HandleCleanup \/ HandleSession \/ HandleEnter
  BY <1>3 DEF HandleCleanup, HandleSession, HandleEnter, stateVars, motorVars
<1>4. CASE HandleSpeed
  BY <1>1, <1>4, Halt DEF HandleSpeed
<1>5. CASE HandleMode
  BY <1>5, ArgIn DEF HandleMode, motorVars
<1> QED BY <1>2, <1>3, <1>4, <1>5 DEF HttpStep

LEMMA MotorKept ==
  ASSUME MotorInv, UNCHANGED <<pc, enabled>>, UNCHANGED speed \/ Stopped'
  PROVE  MotorInv'
<1>1. CASE UNCHANGED speed
  BY <1>1 DEF MotorInv, Alike, Stopped, FineStopped, NotBoth
<1>2. CASE Stopped'
  BY <1>2 DEF MotorInv, Alike, Stopped, FineStopped, NotBoth, Motors
<1> QED BY <1>1, <1>2

LEMMA MotorNext ==
  ASSUME NoDriving, HttpInv, StateTypeOK, MotorInv, [Next]_vars
  PROVE  MotorInv'
<1>1. StateTypeOK'
  BY TypeNext
<1>2. CASE \E e \in Inputs : Button(e)
  BY <1>2, MotorKept DEF Button, motorVars
<1>3. ASSUME UNCHANGED stateVars PROVE MotorInv'
  BY <1>3, MotorKept DEF stateVars, motorVars
<1> QED BY <1>1, <1>2, <1>3, MotorMenu, HttpRequest, Undriven, MotorKept DEF Next, vars

LEMMA MotorInit == Init => MotorInv
<1> SUFFICES ASSUME Init PROVE MotorInv
  OBVIOUS
<1>1. pc = "form" /\ Stopped /\ Alike
  BY DEF Init, InitState, Stopped, Alike, Motors
<1> QED BY <1>1 DEF MotorInv, CoarseSteps, EitherSteps

LEMMA MotorInductive == ASSUME NoDriving PROVE Spec => [](HttpInv /\ StateTypeOK /\ MotorInv)
<1>1. HttpInv /\ StateTypeOK /\ [Next]_vars => StateTypeOK'
  BY TypeNext
<1>2. HttpInv /\ StateTypeOK /\ MotorInv /\ [Next]_vars => MotorInv'
  BY MotorNext
<1> QED BY <1>1, <1>2, TypeInit, MotorInit, HttpCorrect, PTL DEF Spec

(* Motors stand still whenever the operator may handle the pan and in the menu,    *)
(* whatever states REST requests write and wherever the charge was when they did.  *)
THEOREM StillCorrect ==
  ASSUME NoDriving
  PROVE  Spec => []StillWhenWaiting
<1>1. MotorInv => StillWhenWaiting
  BY DEF MotorInv, StillWhenWaiting, QuietSteps, Stopped, Turning
<1> QED BY <1>1, MotorInductive, PTL

(* The cycle is kept as long as the only state of charge mode a client writes is     *)
(* EXIT: any other takes the loop of charge_mode_menu straight to that state.        *)
ExitOnly == RestModes \subseteq {"EXIT"} /\ "simStart" \notin RestOps

LEMMA CycleHttp ==
  ASSUME NoDriving, ExitOnly, HttpInv, StateTypeOK, MotorInv, HttpStep
  PROVE  CycleStep
<1> USE PhaseOf DEF PhaseFacts
<1>1. /\ UNCHANGED <<pc, enabled>>
      /\ UNCHANGED speed \/ Stopped'
      /\ UNCHANGED mode \/ mode' = "EXIT"
  BY Undriven DEF ExitOnly, WrittenModes
<1>2. Alike' /\ MotorInv'
  BY <1>1, MotorKept DEF MotorInv, Alike
<1>3. CASE pc \in QuietSteps
  <2>1. Stopped /\ Stopped'
    BY <1>1, <1>2, <1>3 DEF MotorInv
  <2>2. Phase' = Phase \/ Phase' = "off"
    <3>1. CASE pc = "loop"
      BY <1>1, <3>1
    <3>2. CASE pc # "loop"
      BY <1>1, <1>3, <3>2 DEF QuietSteps, StillSteps
    <3> QED BY <3>1, <3>2
  <2> QED BY <1>2, <2>1, <2>2, Standing
<1>4. CASE pc \notin QuietSteps
  <2>1. /\ Phase \in {"charge", "refill", "cleanup"} /\ Phase' = Phase
    <3>1. pc \in CoarseSteps \cup EitherSteps \cup {"cleanup"}
      BY <1>4 DEF StateTypeOK, MenuSteps, ChargeSteps, CleanupSteps, QuietSteps, StillSteps,
         CoarseSteps, EitherSteps
    <3> QED BY <1>1, <3>1 DEF CoarseSteps, EitherSteps
  <2>2. CASE UNCHANGED speed
    <3>1. Feeds' = Feeds
      BY <1>1, <2>2 DEF Feeds, Feeding
    <3> QED BY <2>1, <3>1, Same
  <2>3. CASE Stopped'
    <3>1. Feeds' = {} /\ {} \in Cycle!AtMostOne
      BY <2>3, FeedOf DEF FeedFacts, Cycle!AtMostOne
    <3> QED BY <2>1, <3>1, Staying
  <2> QED BY <1>1, <2>2, <2>3
<1> QED BY <1>3, <1>4

(* The firmware implements the cycle: every state in it is reached in the order of    *)
(* the cycle, through steps that leave the motors still, and within a state no two      *)
(* motors feed at once.                                                       *)
THEOREM CycleImplemented ==
  ASSUME NoDriving, ExitOnly
  PROVE  Spec => Implements
<1>1. Init => Cycle!Init
  <2> SUFFICES ASSUME Init PROVE Cycle!Init
    OBVIOUS
  <2>1. Phase = "off"
    BY PhaseOf DEF PhaseFacts, Init, InitState
  <2>2. Feeds = {}
    BY FeedOf DEF FeedFacts, Init, InitState, Stopped
  <2> QED BY <2>1, <2>2 DEF Cycle!Init, Feeds
<1>2. HttpInv /\ StateTypeOK /\ MotorInv /\ [Next]_vars => [Cycle!Next]_(Cycle!vars)
  <2> SUFFICES ASSUME HttpInv, StateTypeOK, MotorInv, [Next]_vars PROVE CycleStep
    BY DEF CycleStep
  <2>1. StateTypeOK'
    BY TypeNext
  <2>2. ASSUME UNCHANGED <<pc, mode, motorVars>> PROVE CycleStep
    <3>1. Phase' = Phase
      BY <2>2 DEF Phase
    <3>2. Feeds' = Feeds
      BY <2>2 DEF motorVars, Feeds, Feeding
    <3> QED BY <3>1, <3>2, Same
  <2>3. CASE \E e \in Inputs : Button(e)
    BY <2>2, <2>3 DEF Button
  <2>4. ASSUME UNCHANGED stateVars PROVE CycleStep
    BY <2>2, <2>4 DEF stateVars
  <2> QED BY <2>1, <2>3, <2>4, MotorMenu, CycleHttp, HttpRequest DEF Next, vars
<1> QED BY <1>1, <1>2, MotorInductive, PTL DEF Spec, Implements, Cycle!Spec

-----------------------------------------------------------------------------
(* The gate: it is not closed where powder flows, unless a client sends it there.    *)
FlowSteps == {"fill", "fillSettle", "fillPoll", "poll", "measure", "reverse", "settle",
              "pulse", "cleanup"}
GateInv   == pc \in FlowSteps => gate # "close"

LEMMA GateCharge == GateInv /\ ChargeMode => GateInv'
<1> SUFFICES ASSUME GateInv, ChargeMode PROVE GateInv'
  OBVIOUS
<1>1. ASSUME pc' \notin FlowSteps PROVE GateInv'
  BY <1>1 DEF GateInv
<1>2. ASSUME UNCHANGED gate, pc \in FlowSteps PROVE GateInv'
  BY <1>2 DEF GateInv
<1>3. ASSUME NEW from, Reset(from) PROVE GateInv'
  BY <1>1, <1>3 DEF Reset, Finish, FlowSteps
<1>4. CASE Enter \/ Calm \/ Start \/ Loop \/ Exit \/ Disable \/ Zeroed \/ Report
  <2>1. pc' \in {"calm", "start", "loop", "zero", "report", "return", "exit", "disable", "form", "removal"}
    BY <1>4 DEF Enter, Calm, Start, Loop, Exit, Disable, Zeroed, Report, Finish, Goto
  <2> QED BY <1>1, <2>1 DEF FlowSteps
<1>5. CASE Zero \/ Removal \/ Return
  <2>1. \/ \E from \in {"zero", "removal", "return"} : Reset(from)
        \/ pc' \in {"zero", "zeroed", "removal", "return", "loop"}
    BY <1>5 DEF Zero, Removal, Return, WaitPass, Finish
  <2> QED BY <1>1, <1>3, <2>1 DEF FlowSteps
<1>6. CASE BeginCharge
  BY <1>6 DEF BeginCharge, MoveGate, GateInv
<1>7. CASE Charging
  <2>1. CASE FillPoll \/ Poll
    <3>1. CASE Reset("fillPoll") \/ Reset("poll")
      BY <1>3, <3>1
    <3>2. CASE WaitPass("fillPoll", "fill") \/ WaitPass("poll", "measure")
      BY <1>2, <3>2 DEF WaitPass, FlowSteps
    <3> QED BY <2>1, <3>1, <3>2 DEF FillPoll, Poll
  <2>2. CASE NoMeasurement("fill", "fill") \/ NoMeasurement("measure", "poll")
    <3>1. pc \in {"fill", "measure"} /\ (pc' = "loop" \/ UNCHANGED gate)
      BY <2>2 DEF NoMeasurement, EmergencyStop, Finish
    <3> QED BY <1>1, <1>2, <3>1 DEF FlowSteps
  <2>3. CASE Fill \/ FillSettle \/ Settle \/ Pulse \/ Reverse
    BY <1>2, <2>3 DEF Fill, FillSettle, Settle, Pulse, Reverse, Goto, FlowSteps
  <2>4. ASSUME NEW r \in Readings,
               CoarseOnlyStop(r) \/ FullStop(r) \/ RunCoarse(r) \/ CutCoarse(r) \/ RunFine(r)
        PROVE  GateInv'
    BY <1>2, <2>4 DEF CoarseOnlyStop, FullStop, RunCoarse, CutCoarse, RunFine, Measured, FlowSteps
  <2>5. CASE End \/ Record \/ StartPrecharge \/ EndPrecharge \/ EndCharge
    BY <1>1, <2>5 DEF End, Record, StartPrecharge, EndPrecharge, EndCharge, Goto, Finish, FlowSteps
  <2> QED BY <1>7, <2>1, <2>2, <2>3, <2>4, <2>5 DEF Charging
<1> QED BY <1>4, <1>5, <1>6, <1>7 DEF ChargeMode

LEMMA GateMenu == GateInv /\ MenuTask => GateInv'
<1> SUFFICES ASSUME GateInv, MenuTask PROVE GateInv'
  OBVIOUS
<1>1. CASE FormLeave \/ FormStay \/ Dispatch
  BY <1>1 DEF FormLeave, FormStay, Dispatch, Goto, GateInv, FlowSteps
<1>2. CASE CleanupMode
  <2>1. CASE CleanupEnter \/ CleanupExit
    BY <2>1 DEF CleanupEnter, CleanupExit, GateInv, FlowSteps
  <2>2. CASE CleanupOpen
    BY <2>2 DEF CleanupOpen, MoveGate, GateInv
  <2>3. CASE CleanupEvent
    BY <2>3 DEF CleanupEvent, GateInv, FlowSteps
  <2> QED BY <1>2, <2>1, <2>2, <2>3 DEF CleanupMode
<1> QED BY <1>1, <1>2, GateCharge DEF MenuTask

LEMMA GateNext ==
  ASSUME "gate" \notin RestOps, HttpInv, GateInv, [Next]_vars
  PROVE  GateInv'
<1>1. ASSUME UNCHANGED <<pc, gate>> PROVE GateInv'
  BY <1>1 DEF GateInv
<1>2. CASE HttpStep
  <2>1. ~Doing("gate")
    BY ArgIn DEF DirectGates
  <2>2. CASE HandleSend \/ HandlePost \/ HandleMode \/ HandleExitState \/ HandleSpeed
    BY <1>1, <2>2 DEF HandleSend, HandlePost, HandleMode, HandleExitState, HandleSpeed
  <2>3. CASE HandleCleanup \/ HandleSession \/ HandleEnter
    BY <1>1, <2>3 DEF HandleCleanup, HandleSession, HandleEnter, stateVars
  <2> QED BY <1>2, <2>1, <2>2, <2>3 DEF HttpStep, HandleGate
<1>3. CASE \E e \in Inputs : Button(e)
  BY <1>1, <1>3 DEF Button
<1> QED BY <1>1, <1>2, <1>3, GateMenu, HttpRequest DEF Next, vars, stateVars

LEMMA GateImplies == StateTypeOK /\ MotorInv /\ GateInv => NoFeedOnClosedGate
<1> SUFFICES ASSUME StateTypeOK, MotorInv, GateInv,
                    NEW m \in Motors, Feeding(m), gate = "close"
             PROVE  pc = "prechargeEnd" /\ m = "coarse"
  BY DEF NoFeedOnClosedGate
<1>1. pc \notin QuietSteps
  BY DEF MotorInv, Stopped, Feeding
<1>2. pc \notin FlowSteps
  BY DEF GateInv
<1>3. pc = "prechargeEnd"
  BY <1>1, <1>2 DEF StateTypeOK, MenuSteps, ChargeSteps, CleanupSteps, QuietSteps, StillSteps,
     FlowSteps
<1> QED BY <1>3 DEF MotorInv, CoarseSteps, FineStopped, Feeding, Motors

(* Powder is fed against a closed gate only in the precharge, as long as no client   *)
(* sends the gate anywhere itself: the gate obeys /rest/servo_gate_state in a charge. *)
THEOREM GateCorrect ==
  ASSUME NoDriving, "gate" \notin RestOps
  PROVE  Spec => []NoFeedOnClosedGate
<1>1. Init => GateInv
  BY DEF Init, InitState, GateInv
<1>2. HttpInv /\ GateInv /\ [Next]_vars => GateInv'
  BY GateNext
<1> QED BY <1>1, <1>2, MotorInductive, GateImplies, PTL DEF Spec

-----------------------------------------------------------------------------
(* The local variable that remembers the cut is FALSE only between the cut and  *)
(* the end of the charge.                                                     *)
CutSteps == {"poll", "measure", "reverse", "settle", "pulse", "end", "record", "precharge",
             "prechargeEnd", "done"}
CutInv   == coarseMove = FALSE => pc \in CutSteps

LEMMA CutInit == Init => CutInv
  BY DEF Init, InitState, CutInv

(* A step of charge mode keeps to that, and once the coarse motor was cut it        *)
(* starts only for the next charge or for a session of its own.              *)
Restarts == ~Feeding("coarse") /\ Feeding("coarse")'
MayRestart == pc = "precharge" \/ MotorMode = "coarse only"

LEMMA Still == ASSUME UNCHANGED motorVars PROVE ~Restarts
  BY DEF Restarts, Feeding, motorVars

LEMMA Halted == StateTypeOK /\ (StopBoth \/ SetSpeed("coarse", "stop")) => ~Restarts
<1> SUFFICES ASSUME StateTypeOK, StopBoth \/ SetSpeed("coarse", "stop") PROVE ~Restarts
  OBVIOUS
<1>1. speed'["coarse"] = "stop"
  BY DEF StopBoth, SetSpeed, StateTypeOK, Motors
<1> QED BY <1>1 DEF Restarts, Feeding

LEMMA CutCharge ==
  ASSUME StateTypeOK, CutInv, ChargeMode
  PROVE  /\ CutInv'
         /\ coarseMove = FALSE /\ coarseMove' = FALSE /\ Restarts => MayRestart
<1> USE DEF CutInv, CutSteps
<1>1. ASSUME NEW m, Finish(m) PROVE coarseMove' = TRUE
  BY <1>1 DEF Finish
<1>2. ASSUME NEW from \in {"zero", "fillPoll", "poll", "removal", "return"}, Reset(from)
      PROVE  coarseMove' = TRUE
  BY <1>1, <1>2 DEF Reset
<1>3. ASSUME NEW from, NEW met, WaitPass(from, met)
      PROVE  coarseMove' = coarseMove /\ UNCHANGED motorVars /\ pc = from /\ pc' \in {from, met}
  BY <1>3 DEF WaitPass, chargeVars, chargeLocals
<1>4. CASE Enter \/ Calm \/ Start \/ Loop \/ BeginCharge \/ Exit \/ Disable
  <2>1. pc \notin CutSteps
    BY <1>4 DEF Enter, Calm, Start, Loop, BeginCharge, Exit, Disable, Goto
  <2>2. coarseMove' \in {coarseMove, TRUE}
    BY <1>1, <1>4 DEF Enter, Calm, Start, Loop, BeginCharge, Exit, Disable, chargeVars, chargeLocals
  <2> QED BY <2>1, <2>2
<1>5. CASE Zero \/ Zeroed \/ Report \/ Removal \/ Return
  <2>1. pc \notin CutSteps
    BY <1>5 DEF Zero, Zeroed, Report, Removal, Return, WaitPass, Reset
  <2>2. coarseMove' \in {coarseMove, TRUE}
    <3>1. CASE Zero
      BY <1>2, <1>3, <3>1 DEF Zero
    <3>2. CASE Zeroed \/ Removal \/ Return
      BY <1>1, <1>2, <1>3, <3>2 DEF Zeroed, Removal, Return
    <3>3. CASE Report
      BY <1>1, <3>3 DEF Report, chargeLocals
    <3> QED BY <1>5, <3>1, <3>2, <3>3
  <2> QED BY <2>1, <2>2
<1>6. CASE Charging
  <2>1. CASE Fill \/ FillSettle
    <3>1. pc \notin CutSteps /\ coarseMove' = coarseMove
      BY <2>1 DEF Fill, FillSettle, Goto
    <3> QED BY <3>1
  <2>2. CASE FillPoll \/ Poll
    <3>1. CASE Reset("fillPoll") \/ Reset("poll")
      BY <1>2, <3>1
    <3>2. CASE WaitPass("fillPoll", "fill")
      <4>1. pc = "fillPoll" /\ coarseMove' = coarseMove
        BY <1>3, <3>2
      <4> QED BY <4>1
    <3>3. CASE WaitPass("poll", "measure")
      <4>1. pc' \in CutSteps /\ ~Restarts
        BY <1>3, <3>3, Still
      <4> QED BY <4>1
    <3> QED BY <2>2, <3>1, <3>2, <3>3 DEF FillPoll, Poll
  <2>3. CASE NoMeasurement("fill", "fill")
    <3>1. pc = "fill" /\ coarseMove' \in {TRUE, coarseMove}
      BY <2>3, <1>1 DEF NoMeasurement, EmergencyStop
    <3> QED BY <3>1
  <2>9. CASE NoMeasurement("measure", "poll")
    <3>1. \/ coarseMove' = TRUE
          \/ pc' = "poll" /\ coarseMove' = coarseMove /\ UNCHANGED motorVars
      BY <2>9, <1>1 DEF NoMeasurement, EmergencyStop
    <3> QED BY <3>1, Still
  <2>4. CASE Reverse \/ Settle \/ EndPrecharge
    <3>1. ~Restarts
      BY <2>4, Halted DEF Reverse, Settle, EndPrecharge
    <3>2. coarseMove' = TRUE \/ pc' \in CutSteps
      BY <2>4, <1>1 DEF Reverse, Settle, EndPrecharge, Goto
    <3> QED BY <3>1, <3>2
  <2>5. CASE Pulse
    <3>1. speed'["coarse"] = speed["coarse"] /\ enabled' = enabled
      BY <2>5 DEF Pulse, SetSpeed, StateTypeOK, Motors
    <3>2. ~Restarts
      BY <3>1 DEF Restarts, Feeding
    <3> QED BY <2>5, <3>2 DEF Pulse, Goto
  <2>6. CASE End \/ Record \/ EndCharge
    <3>1. ~Restarts
      BY <2>6, Still DEF End, Record, EndCharge
    <3>2. coarseMove' = TRUE \/ pc' \in CutSteps
      BY <2>6, <1>1 DEF End, Record, EndCharge, Goto
    <3> QED BY <3>1, <3>2
  <2>7. CASE StartPrecharge
    BY <2>7 DEF StartPrecharge, Goto, MayRestart
  <2>8. ASSUME NEW r \in Readings,
               CoarseOnlyStop(r) \/ FullStop(r) \/ RunCoarse(r) \/ CutCoarse(r) \/ RunFine(r)
        PROVE  /\ CutInv'
               /\ coarseMove = FALSE /\ coarseMove' = FALSE /\ Restarts => MayRestart
    <3>1. pc' \in CutSteps
      BY <2>8 DEF CoarseOnlyStop, FullStop, RunCoarse, CutCoarse, RunFine
    <3>2. CASE CoarseOnlyStop(r) \/ RunCoarse(r)
      BY <3>1, <3>2 DEF CoarseOnlyStop, RunCoarse, MayRestart
    <3>3. CASE FullStop(r)
      BY <3>1, <3>3, Halted DEF FullStop
    <3>4. CASE CutCoarse(r) \/ RunFine(r)
      <4>1. PICK c \in {"stop", "rev"}, f \in Directions : speed' = [coarse |-> c, fine |-> f]
        BY <3>4 DEF CutCoarse, RunFine, Directions
      <4>2. speed'["coarse"] # "fwd"
        BY <4>1
      <4> QED BY <3>1, <4>2 DEF Restarts, Feeding
    <3> QED BY <2>8, <3>2, <3>3, <3>4
  <2> QED BY <1>6, <2>1, <2>2, <2>3, <2>4, <2>5, <2>6, <2>7, <2>8, <2>9 DEF Charging
<1> QED BY <1>4, <1>5, <1>6 DEF ChargeMode

LEMMA CutNext ==
  ASSUME NoDriving, HttpInv, StateTypeOK, CutInv, [Next]_vars
  PROVE  /\ CutInv'
         /\ coarseMove = FALSE /\ coarseMove' = FALSE /\ Restarts => MayRestart
<1>1. ASSUME UNCHANGED <<pc, motorVars, coarseMove>>
      PROVE  CutInv' /\ ~Restarts
  BY <1>1, Still DEF CutInv
<1>2. CASE MenuTask
  <2>1. CASE FormLeave \/ FormStay \/ Dispatch \/ CleanupMode
    <3>1. pc \notin CutSteps
      BY <2>1 DEF FormLeave, FormStay, Dispatch, CleanupMode, CleanupEnter, CleanupOpen,
         CleanupEvent, CleanupExit, Goto, CutSteps
    <3>2. coarseMove' = coarseMove
      BY <2>1 DEF FormLeave, FormStay, Dispatch, CleanupMode, CleanupEnter, CleanupOpen,
         CleanupEvent, CleanupExit, CleanupFrame, chargeVars, chargeLocals
    <3> QED BY <3>1, <3>2 DEF CutInv
  <2> QED BY <1>2, <2>1, CutCharge DEF MenuTask
<1>3. CASE \E e \in Inputs : Button(e)
  BY <1>1, <1>3 DEF Button, chargeVars, chargeLocals
<1>4. CASE HttpStep
  <2>1. UNCHANGED <<pc, enabled>> /\ (UNCHANGED speed \/ Stopped')
    BY <1>4, Undriven
  <2>2. coarseMove' = coarseMove
    <3>1. CASE HandleSend \/ HandlePost \/ HandleMode \/ HandleExitState \/ HandleGate
      BY <3>1 DEF HandleSend, HandlePost, HandleMode, HandleExitState, HandleGate, chargeVars,
         chargeLocals
    <3>2. CASE HandleCleanup \/ HandleSession \/ HandleEnter \/ HandleSpeed
      BY <3>2 DEF HandleCleanup, HandleSession, HandleEnter, HandleSpeed, stateVars, chargeVars,
         chargeLocals
    <3> QED BY <1>4, <3>1, <3>2 DEF HttpStep
  <2>3. ASSUME Stopped' PROVE ~Restarts
    BY <2>3 DEF Stopped, Restarts, Feeding, Motors
  <2> QED BY <1>1, <2>1, <2>2, <2>3 DEF motorVars, CutInv
<1>5. ASSUME UNCHANGED stateVars PROVE CutInv' /\ ~Restarts
  BY <1>1, <1>5 DEF stateVars, chargeVars, chargeLocals
<1> QED BY <1>2, <1>3, <1>4, <1>5, HttpRequest DEF Next, vars

(* Within a charge coarse feeding that was cut (charge_mode.cpp clears         *)
(* should_coarse_trickler_move) does not start again, whatever clients do but drive  *)
(* the motors themselves: a speed set in /rest/cleanup_mode_state is obeyed in a     *)
(* charge too.                                                                *)
THEOREM CutCorrect ==
  ASSUME NoDriving
  PROVE  Spec => CoarseStaysCut
<1>1. HttpInv /\ StateTypeOK /\ CutInv /\ [Next]_vars => CutInv'
  BY CutNext
<1>2. HttpInv /\ StateTypeOK /\ [Next]_vars => StateTypeOK'
  BY TypeNext
<1>3. HttpInv /\ StateTypeOK /\ CutInv /\ [Next]_vars
      => [~coarseMove /\ ~coarseMove' /\ ~Feeding("coarse") /\ Feeding("coarse")'
          => pc = "precharge" \/ MotorMode = "coarse only"]_vars
  <2> SUFFICES ASSUME HttpInv, StateTypeOK, CutInv, [Next]_vars,
                      ~coarseMove, ~coarseMove', ~Feeding("coarse"), Feeding("coarse")'
               PROVE  pc = "precharge" \/ MotorMode = "coarse only"
    OBVIOUS
  <2>1. StateTypeOK'
    BY TypeNext
  <2>2. coarseMove = FALSE /\ coarseMove' = FALSE
    BY <2>1, Zenon DEF StateTypeOK
  <2>3. Restarts
    BY DEF Restarts
  <2> QED BY <2>2, <2>3, CutNext DEF MayRestart
<1> QED BY <1>1, <1>2, <1>3, TypeInit, CutInit, HttpCorrect, PTL DEF Spec, CoarseStaysCut
=============================================================================
