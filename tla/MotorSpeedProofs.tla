-------------------------- MODULE MotorSpeedProofs --------------------------
(***************************************************************************)
(* MotorSpeed for every set of callers, every set of velocities, every      *)
(* queue depth of at least one and any number of calls.                     *)
(***************************************************************************)
EXTENDS MotorSpeed, SequenceTheorems, TLAPS

-----------------------------------------------------------------------------
(* Facts about the command queue, stated once.                             *)

LEMMA AppendFacts ==
    ASSUME NEW S, NEW q \in Seq(S), NEW x \in S
    PROVE  /\ Append(q, x) \in Seq(S)
           /\ Append(q, x) # <<>>
           /\ Len(Append(q, x)) = Len(q) + 1
           /\ Append(q, x)[Len(Append(q, x))] = x
  OBVIOUS

LEMMA TailFacts ==
    ASSUME NEW S, NEW q \in Seq(S), q # <<>>
    PROVE  /\ Head(q) \in S
           /\ Tail(q) \in Seq(S)
           /\ Len(Tail(q)) = Len(q) - 1
           /\ Len(q) \in Nat \ {0}
           /\ Tail(q) # <<>> => Tail(q)[Len(Tail(q))] = q[Len(q)]
           /\ Tail(q) = <<>> => Head(q) = q[Len(q)]
<1>1. Len(q) \in Nat \ {0}
  OBVIOUS
<1>2. Head(q) = q[1] /\ Head(q) \in S
  BY <1>1
<1>3. Tail(q) \in Seq(S) /\ Len(Tail(q)) = Len(q) - 1
  BY <1>1
<1>4. ASSUME Tail(q) # <<>>
      PROVE  Tail(q)[Len(Tail(q))] = q[Len(q)]
  <2>1. Len(q) > 1
    BY <1>1, <1>3, <1>4
  <2>2. Tail(q)[Len(q) - 1] = q[Len(q)]
    BY <1>1, <2>1
  <2> QED BY <1>3, <2>2
<1>5. ASSUME Tail(q) = <<>>
      PROVE  Head(q) = q[Len(q)]
  <2>1. Len(Tail(q)) = 0
    BY <1>3, <1>5, EmptySeq
  <2>2. Len(q) - 1 = 0
    BY <1>3, <2>1, Zenon
  <2>3. Len(q) = 1
    BY <1>1, <2>2
  <2> QED BY <1>2, <2>3
<1> QED BY <1>1, <1>2, <1>3, <1>4, <1>5

LEMMA MagnitudeNat == ASSUME NEW v \in Int PROVE Magnitude(v) \in Nat
  BY DEF Magnitude

-----------------------------------------------------------------------------
(* Every variable keeps its type; the queue never exceeds its depth,        *)
(* although three tasks push to it after checking it separately.           *)
THEOREM TypeCorrect == Spec => []TypeOK
<1>1. Init => TypeOK
  <2> SUFFICES ASSUME Init PROVE TypeOK
    OBVIOUS
  <2>1. <<>> \in Seq(Velocities) /\ Len(<<>>) = 0
    OBVIOUS
  <2> QED
    BY <2>1, VelocitiesAssumption, DepthAssumption, InvertedAssumption
       DEF Init, TypeOK, CallSteps, StepperSteps
<1>2. TypeOK /\ [Next]_vars => TypeOK'
  <2> SUFFICES ASSUME TypeOK, [Next]_vars
               PROVE  TypeOK'
    OBVIOUS
  <2> USE VelocitiesAssumption, DepthAssumption DEF TypeOK
  <2>1. CASE MotorsInit
    BY <2>1 DEF MotorsInit, callVars, StepperSteps
  <2>2. ASSUME NEW c \in Callers, NEW v \in Velocities, SetSpeed(c, v)
        PROVE  TypeOK'
    BY <2>2 DEF SetSpeed, motorVars, CallSteps
  <2>3. ASSUME NEW c \in Callers, Send(c)
        PROVE  TypeOK'
    <3>1. arg[c] \in Velocities
      OBVIOUS
    <3>2. queue' \in Seq(Velocities) /\ Len(queue') <= QueueDepth
      <4>1. Len(queue) \in Nat
        OBVIOUS
      <4>2. CASE Len(queue) < QueueDepth
        <5>1. queue' = Append(queue, arg[c])
          BY <2>3, <4>2 DEF Send
        <5> QED BY <3>1, <4>1, <4>2, <5>1, AppendFacts
      <4>3. CASE ~(Len(queue) < QueueDepth)
        BY <2>3, <4>3 DEF Send
      <4> QED BY <4>2, <4>3
    <3> QED BY <2>3, <3>2 DEF Send, motorVars, CallSteps
  <2>4. ASSUME NEW c \in Callers, Discard(c)
        PROVE  TypeOK'
    BY <2>4, TailFacts DEF Discard, motorVars, CallSteps
  <2>5. ASSUME NEW c \in Callers, Resend(c)
        PROVE  TypeOK'
    <3>1. arg[c] \in Velocities
      OBVIOUS
    <3>2. queue' \in Seq(Velocities) /\ Len(queue') <= QueueDepth
      BY <2>5, <3>1, AppendFacts DEF Resend
    <3> QED BY <2>5, <3>2 DEF Resend, motorVars, CallSteps
  <2>6. CASE Receive
    BY <2>6, TailFacts DEF Receive, callVars, StepperSteps
  <2>7. CASE RampToSpeed
    BY <2>7, MagnitudeNat DEF RampToSpeed, callVars, StepperSteps
  <2>8. CASE RampToStandstill
    BY <2>8 DEF RampToStandstill, callVars, StepperSteps
  <2>9. CASE ToggleDirection
    BY <2>9 DEF ToggleDirection, callVars, StepperSteps
  <2>10. CASE UNCHANGED vars
    BY <2>10 DEF vars, callVars, motorVars
  <2> QED
    BY <2>1, <2>2, <2>3, <2>4, <2>5, <2>6, <2>7, <2>8, <2>9, <2>10
       DEF Next, CallStep, StepperTask
<1> QED BY <1>1, <1>2, PTL DEF Spec

-----------------------------------------------------------------------------
(* The step that could break LatestInv in each action: what the motor will  *)
(* finally do is unchanged by the stepper task itself.                     *)
LEMMA StepperKeepsFinalVelocity ==
    ASSUME TypeOK, StepperTask
    PROVE  /\ FinalVelocity' = FinalVelocity
           /\ Len(queue') <= Len(queue)
           /\ UNCHANGED callVars
<1>1. CASE Receive
  BY <1>1, TailFacts DEF Receive, FinalVelocity, TypeOK
<1>2. CASE RampToSpeed
  BY <1>2 DEF RampToSpeed, FinalVelocity, TypeOK
<1>3. CASE RampToStandstill
  BY <1>3 DEF RampToStandstill, FinalVelocity, TypeOK
<1>4. CASE ToggleDirection
  BY <1>4 DEF ToggleDirection, FinalVelocity, TypeOK
<1> QED BY <1>1, <1>2, <1>3, <1>4 DEF StepperTask

(* LatestInv holds in every reachable state.                               *)
THEOREM LatestInductive == Spec => []LatestInv
<1>1. Init => LatestInv
  BY DEF Init, LatestInv, FinalVelocity, InCall
<1>2. TypeOK /\ LatestInv /\ [Next]_vars => LatestInv'
  <2> SUFFICES ASSUME TypeOK, LatestInv, [Next]_vars
               PROVE  LatestInv'
    OBVIOUS
  <2> USE DEF LatestInv, InCall
  <2>1. CASE MotorsInit
    BY <2>1 DEF MotorsInit, callVars, FinalVelocity, TypeOK
  <2>2. ASSUME NEW c \in Callers, NEW v \in Velocities, SetSpeed(c, v)
        PROVE  LatestInv'
    <3>1. call'[c] = "send"
      BY <2>2 DEF SetSpeed, TypeOK
    <3>2. ASSUME NEW d \in Callers, call'[d] # "none"
          PROVE  arg'[d] \in recent'
      BY <2>2, <3>2 DEF SetSpeed, TypeOK
    <3> QED BY <3>1, <3>2
  <2>3. ASSUME NEW c \in Callers, Send(c)
        PROVE  LatestInv'
    <3>1. CASE Len(queue) < QueueDepth
      <4>1. FinalVelocity' = arg[c]
        BY <2>3, <3>1, AppendFacts DEF Send, FinalVelocity, TypeOK
      <4> QED BY <2>3, <3>1, <4>1 DEF Send, TypeOK
    <3>2. CASE ~(Len(queue) < QueueDepth)
      BY <2>3, <3>2 DEF Send, TypeOK
    <3> QED BY <3>1, <3>2
  <2>4. ASSUME NEW c \in Callers, Discard(c)
        PROVE  LatestInv'
    <3>1. Len(queue') < QueueDepth
      BY <2>4, TailFacts, DepthAssumption DEF Discard, TypeOK
    <3>2. call'[c] = "resend"
      BY <2>4 DEF Discard, TypeOK
    <3>3. \A d \in Callers : call'[d] # "none" => call[d] # "none"
      BY <2>4 DEF Discard, TypeOK
    <3> QED BY <2>4, <3>1, <3>2, <3>3 DEF Discard
  <2>5. ASSUME NEW c \in Callers, Resend(c)
        PROVE  LatestInv'
    <3>1. CASE Len(queue) < QueueDepth
      <4>1. FinalVelocity' = arg[c]
        BY <2>5, <3>1, AppendFacts DEF Resend, FinalVelocity, TypeOK
      <4> QED BY <2>5, <3>1, <4>1 DEF Resend, TypeOK
    <3>2. CASE ~(Len(queue) < QueueDepth)
      <4>1. queue' = queue /\ FinalVelocity' = FinalVelocity
        BY <2>5, <3>2 DEF Resend, FinalVelocity, motorVars
      <4> QED BY <2>5, <3>2, <4>1 DEF Resend, TypeOK
    <3> QED BY <3>1, <3>2
  <2>6. CASE StepperTask
    <3>1. Len(queue) \in Nat /\ Len(queue') \in Nat
      BY <2>6, TailFacts DEF StepperTask, Receive, RampToSpeed,
         RampToStandstill, ToggleDirection, TypeOK
    <3> QED
      BY <2>6, <3>1, StepperKeepsFinalVelocity, DepthAssumption DEF callVars
  <2>7. CASE UNCHANGED vars
    BY <2>7 DEF vars, callVars, motorVars, FinalVelocity
  <2> QED
    BY <2>1, <2>2, <2>3, <2>4, <2>5, <2>6, <2>7 DEF Next, CallStep
<1> QED BY <1>1, <1>2, TypeCorrect, PTL DEF Spec

(* Once every call of motor_set_speed has returned, the motor will execute  *)
(* the velocity of a call that no other call followed.                     *)
THEOREM LatestCommand == Spec => []LatestCommandWins
<1>1. LatestInv => LatestCommandWins
  BY DEF LatestInv, LatestCommandWins, NoCallInProgress, InCall
<1> QED BY <1>1, LatestInductive, PTL

-----------------------------------------------------------------------------
(* DirectionInv holds in every reachable state.                            *)
THEOREM DirectionInductive == Spec => []DirectionInv
<1>1. Init => DirectionInv
  BY DEF Init, DirectionInv, DirectionOf, Magnitude
<1>2. TypeOK /\ DirectionInv /\ [Next]_vars => DirectionInv'
  <2> SUFFICES ASSUME TypeOK, DirectionInv, [Next]_vars
               PROVE  DirectionInv'
    OBVIOUS
  <2> USE VelocitiesAssumption, InvertedAssumption
      DEF DirectionInv, DirectionOf, SameDirection, TypeOK
  <2>1. CASE MotorsInit
    BY <2>1 DEF MotorsInit
  <2>2. CASE UNCHANGED motorVars
    BY <2>2 DEF motorVars
  <2>3. CASE Receive
    <3>1. Head(queue) \in Velocities
      BY <2>3, TailFacts DEF Receive
    <3> QED BY <2>3, <3>1 DEF Receive
  <2>4. CASE RampToSpeed
    BY <2>4 DEF RampToSpeed
  <2>5. CASE RampToStandstill
    BY <2>5 DEF RampToStandstill
  <2>6. CASE ToggleDirection
    BY <2>6 DEF ToggleDirection
  <2> QED
    BY <2>1, <2>2, <2>3, <2>4, <2>5, <2>6
       DEF Next, CallStep, StepperTask, SetSpeed, Send, Discard, Resend, vars
<1> QED BY <1>1, <1>2, TypeCorrect, PTL DEF Spec

(* The DIR pin agrees with the sign of the velocity being executed.        *)
THEOREM Direction == Spec => []TurnsAsCommanded
<1>1. TypeOK /\ DirectionInv => TurnsAsCommanded
  BY VelocitiesAssumption, InvertedAssumption
     DEF TypeOK, DirectionInv, TurnsAsCommanded, DirectionOf, SameDirection
<1> QED BY <1>1, TypeCorrect, DirectionInductive, PTL

(* The DIR pin changes only while no step pulses are generated.            *)
THEOREM StandstillTurn == Spec => TurnOnlyAtStandstill
<1>1. DirectionInv /\ [Next]_vars => [dirPin' # dirPin => rate = 0 /\ rate' = 0]_vars
  BY DEF DirectionInv, Next, CallStep, StepperTask, MotorsInit, SetSpeed, Send,
         Discard, Resend, Receive, RampToSpeed, RampToStandstill,
         ToggleDirection, callVars, motorVars, vars
<1> QED BY <1>1, DirectionInductive, PTL DEF Spec, TurnOnlyAtStandstill
=============================================================================
