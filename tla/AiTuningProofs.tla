--------------------------- MODULE AiTuningProofs ---------------------------
(* The gains a session tries stay in the ranges, and it ends within the drops  *)
(* its steps need, wherever a cancel falls.                                  *)
EXTENDS AiTuning, TLAPS, WellFoundedInduction

Judging == {"judge", "narrowKp", "narrowKd", "clamp"}

MotorInRange(m, g) == \A p \in Params : g[m][p] \in Lo[m][p]..Hi[m][p]

(* Only the motor whose handler runs may be out of its range.               *)
TryInv ==
    Active => \A m \in Motors : \/ charge \in Judging /\ m = motor
                                \/ MotorInRange(m, session.best)

LEMMA Constants ==
  /\ Zero \in Gains /\ AtMid \in Gains
  /\ \A m \in Motors, p \in Params : /\ Lo[m][p] \in Int /\ Hi[m][p] \in Int
                                     /\ Lo[m][p] <= Hi[m][p]
                                     /\ Mid(m, p) \in Lo[m][p]..Hi[m][p]
                                     /\ Half(m, p) \in Nat
<1>1. \A m \in Motors, p \in Params : /\ Lo[m][p] \in Int /\ Hi[m][p] \in Int
                                      /\ Lo[m][p] <= Hi[m][p]
  BY RangeAssumption DEF Gains
<1>2. \A m \in Motors, p \in Params : /\ Mid(m, p) \in Lo[m][p]..Hi[m][p]
                                      /\ Half(m, p) \in Nat
  BY <1>1 DEF Mid, Half
<1>3. Zero \in Gains
  BY DEF Zero, Gains
<1>4. AtMid \in Gains
  BY <1>1, <1>2 DEF AtMid, Gains
<1> QED BY <1>1, <1>2, <1>3, <1>4

LEMMA ClearedType ==
  Cleared \in [state : States, target : BOOLEAN, drops : 0..MaxDrops,
               limit : {0, MaxDrops}, best : Gains, recommended : Gains]
  BY Constants, DropsAssumption DEF Cleared, States

(* The type of the part of the state the handlers work on.                  *)
SearchOK == /\ session \in [state : States, target : BOOLEAN, drops : 0..MaxDrops,
                            limit : {0, MaxDrops}, best : Gains, recommended : Gains]
            /\ phase \in [Motors -> Params]
            /\ step \in [Motors -> [Params -> Nat]]

LEMMA HalvedType ==
  ASSUME SearchOK, motor \in Motors, NEW p \in Params
  PROVE  Halved(p) \in [Motors -> [Params -> Nat]]
<1>1. step[motor][p] \div 2 \in Nat
  BY DEF SearchOK
<1> QED BY <1>1 DEF Halved, SearchOK

LEMMA ToKdType ==
  ASSUME SearchOK, motor \in Motors, NEW s \in [Motors -> [Params -> Nat]], ToKd(s)
  PROVE  SearchOK'
<1>1. Mid(motor, "kd") \in Int /\ Half(motor, "kd") \in Nat
  BY Constants DEF Params
<1>2. session' \in [state : States, target : BOOLEAN, drops : 0..MaxDrops,
                    limit : {0, MaxDrops}, best : Gains, recommended : Gains]
  BY <1>1 DEF ToKd, SearchOK, Gains
<1>3. phase' \in [Motors -> Params] /\ step' \in [Motors -> [Params -> Nat]]
  BY <1>1 DEF ToKd, SearchOK, Params
<1> QED BY <1>2, <1>3 DEF SearchOK

LEMMA FinishType ==
  ASSUME SearchOK, motor \in Motors, NEW s \in [Motors -> [Params -> Nat]], NEW g \in Gains,
         FinishMotor(session, g, s)
  PROVE  SearchOK'
<1>1. AtMid["fine"] \in [Params -> Int]
  BY Constants DEF Gains, Motors
<1>2. [p \in Params |-> Half("fine", p)] \in [Params -> Nat]
  BY Constants DEF Motors
<1>3. Settled(session, g) \in [state : States, target : BOOLEAN, drops : 0..MaxDrops,
                               limit : {0, MaxDrops}, best : Gains, recommended : Gains]
  BY DEF Settled, SearchOK, Gains
<1>4. [g EXCEPT !["fine"] = AtMid["fine"]] \in Gains
  BY <1>1 DEF Gains
<1>5. CASE ToFine(session, g, s)
  BY <1>2, <1>3, <1>4, <1>5 DEF ToFine, SearchOK, States, Params
<1>6. CASE ToComplete(session, g, s)
  BY <1>3, <1>6 DEF ToComplete, SearchOK, States
<1> QED BY <1>5, <1>6 DEF FinishMotor

LEMMA MoveKpType ==
  ASSUME SearchOK, motor \in Motors, NEW r, MoveKp(r)
  PROVE  SearchOK'
<1> DEFINE s == Halved("kp")
<1>1. s \in [Motors -> [Params -> Nat]]
  BY HalvedType DEF Params
<1>2. CASE ToKd(s)
  BY <1>1, <1>2, ToKdType
<1>3. ASSUME NEW x \in Int, session' = [session EXCEPT !.best[motor]["kp"] = x],
             step' = s, UNCHANGED phase
      PROVE  SearchOK'
  BY <1>1, <1>3 DEF SearchOK, Gains
<1>4. session.best[motor]["kp"] \in Int /\ s[motor]["kp"] \in Int
  BY <1>1 DEF SearchOK, Gains, Params
<1>5. /\ session.best[motor]["kp"] - s[motor]["kp"] \in Int
      /\ session.best[motor]["kp"] + s[motor]["kp"] \in Int
  BY <1>4
<1>6. \/ ToKd(s)
      \/ /\ session' = [session EXCEPT !.best[motor]["kp"] =
                           session.best[motor]["kp"] - s[motor]["kp"]]
         /\ step' = s /\ UNCHANGED phase
      \/ /\ session' = [session EXCEPT !.best[motor]["kp"] =
                           session.best[motor]["kp"] + s[motor]["kp"]]
         /\ step' = s /\ UNCHANGED phase
  BY DEF MoveKp
<1> HIDE DEF s
<1> QED BY <1>2, <1>3, <1>5, <1>6

LEMMA MoveKdType ==
  ASSUME SearchOK, motor \in Motors, NEW r, NEW late \in BOOLEAN, MoveKd(r, late)
  PROVE  SearchOK'
<1> DEFINE s == Halved("kd")
           g == [session.best EXCEPT ![motor]["kp"] = IF late THEN @ + Bump(s) ELSE @]
<1>1. s \in [Motors -> [Params -> Nat]]
  BY HalvedType DEF Params
<1>2. Bump(s) \in Int /\ session.best[motor]["kp"] \in Int
  BY <1>1 DEF Bump, Motors, Params, SearchOK, Gains
<1>3. g \in Gains
  <2>1. \A x \in Int : [session.best EXCEPT ![motor]["kp"] = x] \in Gains
    BY DEF SearchOK, Gains
  <2>2. session.best[motor]["kp"] + Bump(s) \in Int
    BY <1>2
  <2> HIDE DEF s
  <2>3. CASE late
    BY <2>1, <2>2, <2>3
  <2>4. CASE ~late
    BY <1>2, <2>1, <2>4
  <2> QED BY <2>3, <2>4
<1>4. CASE FinishMotor(session, g, s)
  BY <1>1, <1>3, <1>4, FinishType
<1>5. ASSUME NEW x \in Int, session' = [session EXCEPT !.best = [g EXCEPT ![motor]["kd"] = x]],
             step' = s, UNCHANGED phase
      PROVE  SearchOK'
  <2>1. [g EXCEPT ![motor]["kd"] = x] \in Gains
    BY <1>3 DEF Gains
  <2> HIDE DEF g
  <2> QED BY <1>1, <1>5, <2>1 DEF SearchOK
<1>6. g[motor]["kd"] \in Int /\ s[motor]["kd"] \in Int
  BY <1>1, <1>3 DEF Gains, Params
<1>7. /\ g[motor]["kd"] - s[motor]["kd"] \in Int
      /\ g[motor]["kd"] + s[motor]["kd"] \in Int
  BY <1>6
<1>8. \/ FinishMotor(session, g, s)
      \/ /\ session' = [session EXCEPT !.best =
                           [g EXCEPT ![motor]["kd"] = g[motor]["kd"] + s[motor]["kd"]]]
         /\ step' = s /\ UNCHANGED phase
      \/ /\ session' = [session EXCEPT !.best =
                           [g EXCEPT ![motor]["kd"] = g[motor]["kd"] - s[motor]["kd"]]]
         /\ step' = s /\ UNCHANGED phase
  BY DEF MoveKd
<1> HIDE DEF g, s
<1> QED BY <1>4, <1>5, <1>7, <1>8

LEMMA ClampType ==
  ASSUME SearchOK, motor \in Motors, Clamp
  PROVE  /\ SearchOK'
         /\ \A m \in Motors : m = motor \/ session.best[m] = session'.best[m]
         /\ MotorInRange(motor, session'.best)
<1> DEFINE b == [p \in Params |-> Within(session.best[motor][p], Lo[motor][p], Hi[motor][p])]
<1>1. \A p \in Params : session.best[motor][p] \in Int
  BY DEF SearchOK, Gains
<1>2. \A p \in Params : b[p] \in Lo[motor][p]..Hi[motor][p]
  BY <1>1, Constants DEF Within
<1>3. b \in [Params -> Int]
  BY <1>2, Constants
<1>4. session' = [session EXCEPT !.best[motor] = b] /\ UNCHANGED <<phase, step>>
  BY DEF Clamp, searchVars
<1> HIDE DEF b
<1>5. SearchOK'
  BY <1>3, <1>4 DEF SearchOK, Gains
<1>6. session'.best = [session.best EXCEPT ![motor] = b]
  BY <1>4 DEF SearchOK
<1>7. session'.best[motor] = b /\ \A m \in Motors : m = motor \/ session.best[m] = session'.best[m]
  BY <1>6 DEF SearchOK, Gains
<1> QED BY <1>2, <1>5, <1>7 DEF MotorInRange

(* The types of all variables, with any cancel between any two steps.        *)
THEOREM TypeCorrect == Spec => []TypeOK
<1> USE DEF Versions
<1>1. Init => TypeOK
  <2>1. Zero \in [Motors -> [Params -> Nat]] /\ [m \in Motors |-> "kp"] \in [Motors -> Params]
    BY DEF Zero, Params
  <2> QED BY <2>1, ClearedType DEF Init, TypeOK, Motors, Drops
<1>2. TypeOK /\ [Next]_vars => TypeOK'
  <2> SUFFICES ASSUME TypeOK, [Next]_vars PROVE TypeOK'
    OBVIOUS
  <2>0. SearchOK /\ motor \in Motors
    BY DEF TypeOK, SearchOK
  <2>1. CASE Start
    <3>1. [m \in Motors |-> [p \in Params |-> Half(m, p)]] \in [Motors -> [Params -> Nat]]
      BY Constants
    <3>2. session' \in [state : States, target : BOOLEAN, drops : 0..MaxDrops,
                        limit : {0, MaxDrops}, best : Gains, recommended : Gains]
      BY <2>1, ClearedType, Constants DEF Start, States
    <3> QED BY <2>1, <3>1, <3>2 DEF Start, TypeOK, Params
  <2>2. CASE Apply \/ CancelRestore \/ CancelClear
    BY <2>2, ClearedType DEF Apply, CancelRestore, CancelClear, TypeOK, searchVars, States
  <2>3. ASSUME Record
        PROVE  /\ profile' \in Versions /\ applied' \in Versions
               /\ http' \in {"none", "clear"} /\ cancelled' \in BOOLEAN
    BY <2>3 DEF Record, RestUnchanged, TypeOK
  <2>4. CASE RestUnchanged /\ (Check \/ GiveUp \/ Count \/ Dispatch)
    <3>1. charge' \in Drops /\ motor' \in Motors /\ UNCHANGED <<phase, step>>
      BY <2>0, <2>4 DEF Check, GiveUp, Count, Dispatch, searchVars, Drops, Motors
    <3>2. ASSUME GiveUp
          PROVE  SearchOK'
      BY <2>0, <3>1, <3>2 DEF GiveUp, SearchOK, States
    <3>3. ASSUME Count
          PROVE  SearchOK'
      <4>1. session.drops + 1 \in 0..MaxDrops
        BY <2>0, <3>3, DropsAssumption DEF Count, SearchOK
      <4> QED BY <2>0, <3>1, <3>3, <4>1 DEF Count, SearchOK
    <3>4. ASSUME Check \/ Dispatch
          PROVE  SearchOK'
      BY <2>0, <3>1, <3>4 DEF Check, Dispatch, SearchOK
    <3>5. SearchOK'
      BY <2>4, <3>2, <3>3, <3>4
    <3>6. Record
      BY <2>4 DEF Record
    <3> QED BY <2>3, <3>1, <3>5, <3>6 DEF TypeOK, SearchOK
  <2>5. CASE RestUnchanged /\ Phase
    <3>1. charge' \in Drops /\ motor' \in Motors
      BY <2>5 DEF Phase, MoveKp, MoveKd, NarrowKp, NarrowKd, Clamp, Drops, TypeOK
    <3>2. ASSUME NEW r \in {"below", "within", "above"},
                 MoveKp(r) \/ \E late \in BOOLEAN : MoveKd(r, late)
          PROVE  SearchOK'
      <4>1. CASE MoveKp(r)
        BY <2>0, <4>1, MoveKpType
      <4>2. ASSUME NEW late \in BOOLEAN, MoveKd(r, late)
            PROVE  SearchOK'
        BY <2>0, <4>2, MoveKdType
      <4> QED BY <3>2, <4>1, <4>2
    <3>3. ASSUME NarrowKp
          PROVE  SearchOK'
      <4>1. CASE ToKd(step)
        BY <2>0, <4>1, ToKdType DEF SearchOK
      <4> QED BY <2>0, <3>3, <4>1 DEF NarrowKp, SearchOK, searchVars
    <3>4. ASSUME NarrowKd
          PROVE  SearchOK'
      <4>1. CASE FinishMotor(session, session.best, step)
        <5>1. session.best \in Gains /\ step \in [Motors -> [Params -> Nat]]
          BY <2>0 DEF SearchOK
        <5> QED BY <2>0, <4>1, <5>1, FinishType
      <4> QED BY <2>0, <3>4, <4>1 DEF NarrowKd, SearchOK, searchVars
    <3>5. ASSUME Clamp
          PROVE  SearchOK'
      BY <2>0, <3>5, ClampType
    <3>6. SearchOK'
      BY <2>5, <3>2, <3>3, <3>4, <3>5 DEF Phase
    <3>7. Record
      BY <2>5 DEF Record
    <3> QED BY <2>3, <3>1, <3>6, <3>7 DEF TypeOK, SearchOK
  <2>6. CASE UNCHANGED vars
    BY <2>6 DEF vars, searchVars, TypeOK
  <2> QED BY <2>1, <2>2, <2>4, <2>5, <2>6 DEF Next, Rest, Record
<1> QED BY <1>1, <1>2, PTL DEF Spec

-----------------------------------------------------------------------------
(* A handler leaves the motor it does not run for where it was, or starts it *)
(* in the middle of its range.                                             *)
LEMMA OthersKept ==
  ASSUME SearchOK, motor \in Motors, MotorInRange("fine", AtMid),
         NEW m \in Motors, m # motor, MotorInRange(m, session.best),
         \/ \E s : ToKd(s)
         \/ \E g, s : /\ FinishMotor(session, g, s)
                      /\ g \in Gains /\ g[m] = session.best[m]
         \/ \E x : session' = [session EXCEPT !.best[motor]["kp"] = x]
         \/ \E g : session' = [session EXCEPT !.best = g] /\ g[m] = session.best[m]
  PROVE  MotorInRange(m, session'.best)
<1>1. ASSUME NEW s, ToKd(s)
      PROVE  session'.best[m] = session.best[m]
  BY <1>1 DEF ToKd, SearchOK, Gains
<1>2. ASSUME NEW g \in Gains, NEW s, FinishMotor(session, g, s), g[m] = session.best[m]
      PROVE  MotorInRange(m, session'.best)
  <2>1. CASE motor = "coarse"
    <3>1. session'.best = [g EXCEPT !["fine"] = AtMid["fine"]]
      BY <1>2, <2>1 DEF FinishMotor, ToFine, Settled, SearchOK
    <3>2. m = "fine"
      BY <2>1 DEF Motors
    <3>3. session'.best[m] = AtMid["fine"]
      BY <3>1, <3>2 DEF Gains, Motors
    <3> QED BY <3>2, <3>3 DEF MotorInRange
  <2>2. CASE motor # "coarse"
    <3>1. session'.best = g
      BY <1>2, <2>2 DEF FinishMotor, ToComplete, Settled, SearchOK
    <3> QED BY <1>2, <3>1 DEF MotorInRange
  <2> QED BY <2>1, <2>2
<1>3. ASSUME NEW x, session' = [session EXCEPT !.best[motor]["kp"] = x]
      PROVE  session'.best[m] = session.best[m]
  BY <1>3 DEF SearchOK, Gains
<1>4. ASSUME NEW g, session' = [session EXCEPT !.best = g], g[m] = session.best[m]
      PROVE  session'.best[m] = session.best[m]
  BY <1>4 DEF SearchOK
<1> QED BY <1>1, <1>2, <1>3, <1>4 DEF MotorInRange

LEMMA TryPhase ==
  ASSUME TypeOK, TryInv, Phase
  PROVE  TryInv'
<1>0. SearchOK /\ motor \in Motors
  BY DEF TypeOK, SearchOK
<1>1. MotorInRange("fine", AtMid)
  BY Constants DEF MotorInRange, AtMid, Motors
<1>2. CASE Clamp
  <2>1. /\ \A m \in Motors : m = motor \/ session.best[m] = session'.best[m]
        /\ MotorInRange(motor, session'.best)
    BY <1>0, <1>2, ClampType
  <2>2. session'.state = session.state
    BY <1>0, <1>2 DEF Clamp, SearchOK
  <2> QED BY <2>1, <2>2 DEF TryInv, MotorInRange, Active
<1>3. ASSUME NEW r, NEW late \in BOOLEAN, MoveKp(r) \/ NarrowKp \/ MoveKd(r, late) \/ NarrowKd,
             NEW m \in Motors, m # motor
      PROVE  \/ \E s : ToKd(s)
             \/ \E g, s : /\ FinishMotor(session, g, s)
                          /\ g \in Gains /\ g[m] = session.best[m]
             \/ \E x : session' = [session EXCEPT !.best[motor]["kp"] = x]
             \/ \E g : session' = [session EXCEPT !.best = g] /\ g[m] = session.best[m]
  <2>1. CASE MoveKp(r)
    BY <2>1 DEF MoveKp
  <2>2. CASE NarrowKp
    BY <1>0, <2>2 DEF NarrowKp, SearchOK
  <2>3. CASE NarrowKd
    BY <1>0, <2>3 DEF NarrowKd, SearchOK
  <2>4. CASE MoveKd(r, late)
    <3> DEFINE s == Halved("kd")
               g == [session.best EXCEPT ![motor]["kp"] = IF late THEN @ + Bump(s) ELSE @]
    <3>1. g[m] = session.best[m]
      BY <1>0, <1>3 DEF SearchOK, Gains
    <3>2. g \in Gains
      <4>1. s \in [Motors -> [Params -> Nat]]
        BY <1>0, HalvedType DEF Params
      <4>2. (IF late THEN session.best[motor]["kp"] + Bump(s) ELSE session.best[motor]["kp"]) \in Int
        BY <1>0, <4>1 DEF Bump, Motors, Params, SearchOK, Gains
      <4> HIDE DEF s
      <4> QED BY <1>0, <4>2 DEF SearchOK, Gains
    <3>3. \A x : [g EXCEPT ![motor]["kd"] = x][m] = session.best[m]
      BY <1>3, <3>1, <3>2 DEF Gains
    <3>4. \/ FinishMotor(session, g, s)
          \/ session' = [session EXCEPT !.best =
                           [g EXCEPT ![motor]["kd"] = g[motor]["kd"] + s[motor]["kd"]]]
          \/ session' = [session EXCEPT !.best =
                           [g EXCEPT ![motor]["kd"] = g[motor]["kd"] - s[motor]["kd"]]]
      BY <2>4 DEF MoveKd
    <3> HIDE DEF g, s
    <3> QED BY <3>1, <3>2, <3>3, <3>4
  <2> QED BY <1>3, <2>1, <2>2, <2>3, <2>4
<1>4. ASSUME NEW r, NEW late \in BOOLEAN, MoveKp(r) \/ NarrowKp \/ MoveKd(r, late) \/ NarrowKd
      PROVE  TryInv'
  <2>1. charge \in Judging /\ charge' \in Judging /\ motor' = motor
    BY <1>4 DEF MoveKp, NarrowKp, MoveKd, NarrowKd, Judging
  <2>2. ASSUME NEW m \in Motors, m # motor, Active'
        PROVE  MotorInRange(m, session'.best)
    <3>1. CASE MotorInRange(m, session.best)
      BY <1>0, <1>1, <1>3, <1>4, <2>2, <3>1, OthersKept
    <3>2. CASE ~Active
      <4>1. PICK g \in Gains : \E s : FinishMotor(session, g, s)
        <5>1. \/ \E s : ToKd(s)
              \/ \E g, s : FinishMotor(session, g, s) /\ g \in Gains
              \/ \E x : session' = [session EXCEPT !.best[motor]["kp"] = x]
              \/ \E g : session' = [session EXCEPT !.best = g]
          BY <1>3, <1>4, <2>2
        <5>2. /\ \A s : ToKd(s) => session'.state = session.state
              /\ \A x : session' = [session EXCEPT !.best[motor]["kp"] = x] =>
                     session'.state = session.state
              /\ \A g : session' = [session EXCEPT !.best = g] =>
                     session'.state = session.state
          BY <1>0 DEF ToKd, SearchOK
        <5> QED BY <2>2, <3>2, <5>1, <5>2 DEF Active
      <4>2. PICK s : FinishMotor(session, g, s)
        BY <4>1
      <4>3. motor = "coarse"
        BY <1>0, <2>2, <4>2 DEF FinishMotor, ToComplete, Settled, SearchOK, Active, Motors
      <4>4. session'.best = [g EXCEPT !["fine"] = AtMid["fine"]]
        BY <1>0, <4>2, <4>3 DEF FinishMotor, ToFine, Settled, SearchOK
      <4>5. m = "fine" /\ session'.best["fine"] = AtMid["fine"]
        BY <2>2, <4>3, <4>4 DEF Gains, Motors
      <4> QED BY <1>1, <4>5 DEF MotorInRange
    <3> QED BY <2>1, <2>2, <3>1, <3>2 DEF TryInv
  <2> QED BY <2>1, <2>2 DEF TryInv
<1> QED BY <1>2, <1>4 DEF Phase

LEMMA TryNext == TypeOK /\ TryInv /\ [Next]_vars => TryInv'
<1> SUFFICES ASSUME TypeOK, TryInv, [Next]_vars PROVE TryInv'
  OBVIOUS
<1>1. CASE Start
  <2>1. \A m \in Motors : MotorInRange(m, AtMid)
    BY Constants DEF MotorInRange, AtMid
  <2>2. session'.best = AtMid
    BY <1>1 DEF Start, Cleared
  <2> QED BY <2>1, <2>2 DEF TryInv
<1>2. CASE Apply \/ CancelClear
  <2>1. ~Active'
    BY <1>2 DEF Apply, CancelClear, Cleared, Active, TypeOK
  <2> QED BY <2>1 DEF TryInv
<1>3. CASE CancelRestore \/ UNCHANGED vars
  BY <1>3 DEF CancelRestore, vars, TryInv, Active, MotorInRange
<1>4. CASE Check \/ Dispatch
  <2>1. session' = session /\ charge \notin Judging
    BY <1>4 DEF Check, Dispatch, Judging
  <2> QED BY <2>1 DEF TryInv, Active, MotorInRange
<1>5. CASE GiveUp
  <2>1. ~Active'
    BY <1>5 DEF GiveUp, Active, TypeOK
  <2> QED BY <2>1 DEF TryInv
<1>6. CASE Count
  <2>1. session'.best = session.best /\ session'.state = session.state /\ charge \notin Judging
    BY <1>6 DEF Count, Judging, TypeOK
  <2> QED BY <2>1 DEF TryInv, Active, MotorInRange
<1> QED BY <1>1, <1>2, <1>3, <1>4, <1>5, <1>6, TryPhase DEF Next, Rest, Record

(* What charge mode is given for the next drop is in the ranges, for any     *)
(* ranges and minimum steps.                                               *)
THEOREM TriesCorrect == Spec => []TriesInRange
<1>1. Init => TryInv
  BY DEF Init, TryInv, Active, Cleared
<1>2. TryInv => TriesInRange
  BY DEF TryInv, TriesInRange, InRange, MotorInRange, MutexFree, Judging
<1> QED BY <1>1, <1>2, TryNext, TypeCorrect, PTL DEF Spec

-----------------------------------------------------------------------------
(* How many drops a search takes: what the recursive function of its step is,    *)
(* by the least number for which it would be something else.                    *)

(* A set of numbers that is not empty has a least one.                      *)
LEMMA Least ==
  ASSUME NEW T, T \subseteq Nat, T # {}
  PROVE  \E x \in T : \A y \in T : x <= y
<1>1. PICK x \in T : \A y \in T : <<y, x>> \notin OpToRel(<, Nat)
  BY NatLessThanWellFounded, WFMin
<1>2. ASSUME NEW y \in T PROVE x <= y
  <2>1. x \in Nat /\ y \in Nat
    OBVIOUS
  <2>2. ~(y < x)
    BY <1>1, <2>1 DEF OpToRel
  <2> QED BY <2>1, <2>2
<1> QED BY <1>2

(* f counts the halvings of the numbers up to k.                            *)
Halves(f, M, s) == f[s] = IF s \div 2 < M THEN 1 ELSE 1 + f[s \div 2]
Counts(f, M, k) == f \in [0..k -> Nat] /\ \A s \in 0..k : Halves(f, M, s)

LEMMA Smaller ==
  ASSUME NEW M \in Nat \ {0}, NEW s \in Nat, s \div 2 >= M
  PROVE  s \div 2 \in Nat /\ s \div 2 < s
  OBVIOUS

LEMMA Counted ==
  ASSUME NEW M \in Nat \ {0}, NEW k \in Nat
  PROVE  \E f : Counts(f, M, k)
<1> DEFINE T == {i \in Nat : ~\E f : Counts(f, M, i)}
<1> SUFFICES ASSUME T # {} PROVE FALSE
  OBVIOUS
<1>1. PICK i \in T : \A j \in T : i <= j
  BY Least
<1>2. CASE i = 0
  <2>1. PICK f : f = [s \in 0..0 |-> 1]
    OBVIOUS
  <2>2. f \in [0..0 -> Nat] /\ \A s \in 0..0 : f[s] = 1 /\ s \div 2 < M
    BY <2>1
  <2> QED BY <1>2, <2>2 DEF Counts, Halves
<1>3. CASE i # 0
  <2>1. i - 1 \in Nat /\ i - 1 \notin T
    BY <1>1, <1>3
  <2>2. PICK f : Counts(f, M, i - 1)
    BY <2>1
  <2>3. PICK v : v = IF i \div 2 < M THEN 1 ELSE 1 + f[i \div 2]
    OBVIOUS
  <2>4. v \in Nat /\ (i \div 2 >= M => i \div 2 \in 0..(i - 1))
    <3>1. i \div 2 >= M => i \div 2 \in 0..(i - 1)
      BY Smaller
    <3> QED BY <2>2, <2>3, <3>1 DEF Counts
  <2>5. PICK g : g = [s \in 0..i |-> IF s = i THEN v ELSE f[s]]
    OBVIOUS
  <2>6. g \in [0..i -> Nat] /\ g[i] = v /\ \A s \in 0..(i - 1) : g[s] = f[s]
    BY <2>2, <2>4, <2>5 DEF Counts
  <2>7. Halves(g, M, i)
    BY <2>3, <2>4, <2>6 DEF Halves
  <2>8. ASSUME NEW s \in 0..(i - 1) PROVE Halves(g, M, s)
    <3>1. s \div 2 >= M => s \div 2 \in 0..(i - 1)
      BY Smaller
    <3> QED BY <2>2, <2>6, <3>1 DEF Halves, Counts
  <2>9. Counts(g, M, i)
    BY <2>6, <2>7, <2>8 DEF Counts
  <2> QED BY <2>9
<1> QED BY <1>2, <1>3

LEMMA CountedAlike ==
  ASSUME NEW M \in Nat \ {0}, NEW k \in Nat, NEW l \in Nat,
         NEW f, NEW g, Counts(f, M, k), Counts(g, M, l),
         NEW s \in Nat, s <= k, s <= l
  PROVE  f[s] = g[s]
<1> DEFINE T == {i \in Nat : i <= k /\ i <= l /\ f[i] # g[i]}
<1> SUFFICES ASSUME T # {} PROVE FALSE
  OBVIOUS
<1>1. PICK i \in T : \A j \in T : i <= j
  BY Least
<1>2. Halves(f, M, i) /\ Halves(g, M, i)
  BY <1>1 DEF Counts
<1>3. i \div 2 >= M => f[i \div 2] = g[i \div 2]
  <2>1. i \div 2 >= M => i \div 2 \in Nat /\ i \div 2 < i
    BY <1>1, Smaller
  <2> QED BY <1>1, <2>1
<1> QED BY <1>1, <1>2, <1>3 DEF Halves

(* The recursive definition of DropsFrom defines a function.                 *)
LEMMA DropsDefined ==
  ASSUME NEW m \in Motors
  PROVE  DropsFrom(m) = [s \in Nat |-> IF s \div 2 < MinStep[m] THEN 1
                                       ELSE 1 + DropsFrom(m)[s \div 2]]
<1>0. MinStep[m] \in Nat \ {0}
  BY StepAssumption
<1> DEFINE Is(n) == n = [s \in Nat |-> IF s \div 2 < MinStep[m] THEN 1 ELSE 1 + n[s \div 2]]
<1>1. \E n : Is(n)
  <2>1. PICK c : c = [k \in Nat |-> CHOOSE f : Counts(f, MinStep[m], k)]
    OBVIOUS
  <2>2. \A k \in Nat : Counts(c[k], MinStep[m], k)
    BY <1>0, <2>1, Counted
  <2>3. PICK n : n = [s \in Nat |-> c[s][s]]
    OBVIOUS
  <2>4. ASSUME NEW s \in Nat
        PROVE  c[s][s] = IF s \div 2 < MinStep[m] THEN 1 ELSE 1 + n[s \div 2]
    <3>1. Halves(c[s], MinStep[m], s)
      BY <2>2 DEF Counts
    <3>2. CASE s \div 2 >= MinStep[m]
      <4>1. s \div 2 \in Nat /\ s \div 2 < s
        BY <1>0, <3>2, Smaller
      <4>2. c[s][s \div 2] = c[s \div 2][s \div 2]
        BY <1>0, <2>2, <4>1, CountedAlike
      <4> QED BY <1>0, <2>3, <3>1, <3>2, <4>1, <4>2 DEF Halves
    <3>3. CASE s \div 2 < MinStep[m]
      BY <3>1, <3>3 DEF Halves
    <3> QED BY <1>0, <3>2, <3>3
  <2>5. [s \in Nat |-> c[s][s]] = [s \in Nat |-> IF s \div 2 < MinStep[m] THEN 1 ELSE 1 + n[s \div 2]]
    BY <2>4
  <2> QED BY <2>3, <2>5
<1>2. DropsFrom(m) = CHOOSE n : Is(n)
  BY DEF DropsFrom
<1> HIDE DEF Is
<1>3. Is(DropsFrom(m))
  BY <1>1, <1>2
<1> QED BY <1>3 DEF Is

(* A search that halves its step needs one drop more than from half of it.      *)
LEMMA DropsNeeded ==
  ASSUME NEW m \in Motors, NEW s \in Nat
  PROVE  /\ DropsFrom(m)[s] \in Nat \ {0}
         /\ s \div 2 < MinStep[m] => DropsFrom(m)[s] = 1
         /\ s \div 2 >= MinStep[m] => DropsFrom(m)[s] = 1 + DropsFrom(m)[s \div 2]
<1>0. MinStep[m] \in Nat \ {0}
  BY StepAssumption
<1>1. PICK n : n = DropsFrom(m)
  OBVIOUS
<1>2. n = [t \in Nat |-> IF t \div 2 < MinStep[m] THEN 1 ELSE 1 + n[t \div 2]]
  BY <1>1, DropsDefined
<1>3. \A t \in Nat : n[t] = IF t \div 2 < MinStep[m] THEN 1 ELSE 1 + n[t \div 2]
  BY <1>2
<1>4. \A t \in Nat : n[t] \in Nat \ {0}
  <2> DEFINE T == {t \in Nat : n[t] \notin Nat \ {0}}
  <2> SUFFICES ASSUME T # {} PROVE FALSE
    OBVIOUS
  <2>1. PICK i \in T : \A j \in T : i <= j
    BY Least
  <2>2. n[i] = IF i \div 2 < MinStep[m] THEN 1 ELSE 1 + n[i \div 2]
    BY <1>3, <2>1
  <2>3. i \div 2 >= MinStep[m] => n[i \div 2] \in Nat
    <3>1. i \div 2 >= MinStep[m] => i \div 2 \in Nat /\ i \div 2 < i
      BY <1>0, <2>1, Smaller
    <3> QED BY <2>1, <3>1
  <2> QED BY <1>0, <2>1, <2>2, <2>3
<1> QED BY <1>0, <1>1, <1>3, <1>4

-----------------------------------------------------------------------------
(* What the search of motor m, and of the motors after it, can still need.    *)
ToGo(m) ==
    IF phase[m] = "kp" THEN DropsFrom(m)[step[m]["kp"]] + Halvings(m, "kd")
    ELSE DropsFrom(m)[step[m]["kd"]]
AfterIt(m) ==
    IF m = "coarse" THEN Halvings("fine", "kp") + Halvings("fine", "kd") ELSE 0
Remaining ==
    IF session.state = "phase1" THEN ToGo("coarse") + AfterIt("coarse")
    ELSE ToGo("fine") + AfterIt("fine")

(* The drop being recorded is counted, and its step not yet taken off.          *)
Own(m) == IF m = "coarse" THEN "phase1" ELSE "phase2"
Owed ==
    \/ charge \in {"dispatch", "judge"}
    \/ charge = "narrowKp" /\ phase[motor] = "kp" /\ step[motor]["kp"] < MinStep[motor]
    \/ charge = "narrowKd" /\ session.state = Own(motor) /\ step[motor]["kd"] < MinStep[motor]

(* A session with a profile spends its drops on the search; what a cancel left   *)
(* of one has none to spend.                                                  *)
ConvergeInv ==
    /\ session.drops <= Needed
    /\ ~session.target => session.drops = 0 /\ session.limit = 0
    /\ session.target =>
        /\ session.limit = MaxDrops
        /\ session.state = "error" => MaxDrops < Needed
        /\ Active => session.drops + Remaining <= Needed + (IF Owed THEN 1 ELSE 0)
        /\ charge = "count" => Active
        /\ charge \in {"judge", "narrowKp"} => session.state = Own(motor)
        /\ charge = "narrowKp" /\ phase[motor] = "kd" => step[motor]["kd"] = Half(motor, "kd")
        /\ charge = "narrowKd" => /\ session.drops + AfterIt(motor) <= Needed
                                  /\ session.state = Own(motor) => phase[motor] = "kd"

LEMMA Numbers ==
  /\ \A m \in Motors, p \in Params : Halvings(m, p) \in Nat \ {0}
  /\ \A m \in Motors : AfterIt(m) \in Nat
  /\ Needed = Halvings("coarse", "kp") + Halvings("coarse", "kd") + AfterIt("coarse")
<1>1. \A m \in Motors, p \in Params : Halvings(m, p) \in Nat \ {0}
  BY Constants, DropsNeeded DEF Halvings
<1>2. \A m \in Motors : AfterIt(m) \in Nat
  BY <1>1 DEF AfterIt, Motors, Params
<1>3. Needed = Halvings("coarse", "kp") + Halvings("coarse", "kd") + AfterIt("coarse")
  BY <1>1 DEF Needed, AfterIt, Motors, Params
<1> QED BY <1>1, <1>2, <1>3

LEMMA GoesOn ==
  ASSUME SearchOK, NEW m \in Motors
  PROVE  ToGo(m) \in Nat \ {0}
<1>1. step[m]["kp"] \in Nat /\ step[m]["kd"] \in Nat
  BY DEF SearchOK, Params
<1> QED BY <1>1, DropsNeeded, Numbers DEF ToGo, Params

(* While the handler of a motor runs for its own state, the rest is its own.     *)
LEMMA OwnRemaining ==
  ASSUME NEW m \in Motors
  PROVE  /\ session.state = Own(m) => Active /\ Remaining = ToGo(m) + AfterIt(m)
         /\ session'.state = Own(m) => Active' /\ Remaining' = ToGo(m)' + AfterIt(m)
  BY DEF Own, Active, Remaining, AfterIt, Motors

Booked == /\ session'.target = session.target /\ session'.limit = session.limit
          /\ session'.drops = session.drops

LEMMA ToKdSteps ==
  ASSUME SearchOK, motor \in Motors, NEW s \in [Motors -> [Params -> Nat]], ToKd(s)
  PROVE  /\ Booked /\ session'.state = session.state
         /\ phase'[motor] = "kd" /\ step'[motor]["kd"] = Half(motor, "kd")
<1>1. Booked /\ session'.state = session.state
  BY DEF ToKd, SearchOK, Booked
<1>2. phase'[motor] = "kd"
  BY DEF ToKd, SearchOK
<1>3. step'[motor]["kd"] = Half(motor, "kd")
  BY DEF ToKd, Params
<1> QED BY <1>1, <1>2, <1>3

LEMMA FinishSteps ==
  ASSUME SearchOK, motor \in Motors, NEW s \in [Motors -> [Params -> Nat]], NEW g,
         FinishMotor(session, g, s)
  PROVE  /\ Booked /\ session'.state # Own(motor) /\ session'.state # "error"
         /\ Active' => Remaining' = AfterIt(motor)
<1>1. CASE motor = "coarse"
  <2>1. Booked /\ session'.state = "phase2"
    BY <1>1 DEF FinishMotor, ToFine, Settled, SearchOK, Booked
  <2>2. phase'["fine"] = "kp" /\ step'["fine"] = [p \in Params |-> Half("fine", p)]
    BY <1>1 DEF FinishMotor, ToFine, SearchOK, Motors
  <2>3. step'["fine"]["kp"] = Half("fine", "kp")
    BY <2>2 DEF Params
  <2>4. ToGo("fine")' = Halvings("fine", "kp") + Halvings("fine", "kd")
    BY <2>2, <2>3 DEF ToGo, Halvings
  <2>5. AfterIt("coarse") = Halvings("fine", "kp") + Halvings("fine", "kd") /\ AfterIt("fine") = 0
    BY DEF AfterIt
  <2>6. Remaining' = ToGo("fine")' + AfterIt("fine")
    BY <2>1 DEF Remaining
  <2>7. Halvings("fine", "kp") + Halvings("fine", "kd") \in Nat
    BY Numbers DEF Motors, Params
  <2> QED BY <1>1, <2>1, <2>4, <2>5, <2>6, <2>7 DEF Own
<1>2. CASE motor = "fine"
  <2>1. Booked /\ session'.state = "complete"
    BY <1>2 DEF FinishMotor, ToComplete, Settled, SearchOK, Booked
  <2> QED BY <1>2, <2>1 DEF Own, Active
<1> QED BY <1>1, <1>2 DEF Motors

LEMMA HalvedSteps ==
  ASSUME SearchOK, motor \in Motors, NEW p \in Params
  PROVE  Halved(p)[motor][p] = step[motor][p] \div 2
  BY DEF Halved, SearchOK

(* A handler whose session was cancelled under it has no drops to spend.         *)
LEMMA NoTarget ==
  ASSUME ConvergeInv, Booked, ~session.target
  PROVE  ConvergeInv'
  BY DEF ConvergeInv, Booked

LEMMA ConvergeKp ==
  ASSUME SearchOK, motor \in Motors, ConvergeInv, NEW r, MoveKp(r), session.target
  PROVE  ConvergeInv' /\ Booked
<1> DEFINE s == Halved("kp")
<1>1. PICK m \in Motors : m = motor
  OBVIOUS
<1>2. charge = "judge" /\ charge' = "narrowKp" /\ motor' = m /\ phase[m] = "kp"
  BY <1>1 DEF MoveKp
<1>3. s \in [Motors -> [Params -> Nat]] /\ s[m]["kp"] = step[m]["kp"] \div 2
  BY <1>1, HalvedType, HalvedSteps DEF Params
<1>4. /\ Booked /\ session'.state = session.state
      /\ \/ phase'[m] = "kd" /\ step'[m]["kd"] = Half(m, "kd")
         \/ phase' = phase /\ step'[m]["kp"] = step[m]["kp"] \div 2
  <2>1. CASE ToKd(s)
    BY <1>1, <1>3, <2>1, ToKdSteps
  <2>2. CASE step' = s /\ phase' = phase /\ \E x : session' = [session EXCEPT !.best[motor]["kp"] = x]
    <3>1. Booked /\ session'.state = session.state
      BY <2>2 DEF SearchOK, Booked
    <3> QED BY <1>3, <2>2, <3>1
  <2>3. ToKd(s) \/ /\ step' = s /\ phase' = phase
                   /\ \E x : session' = [session EXCEPT !.best[motor]["kp"] = x]
    BY DEF MoveKp
  <2> QED BY <2>1, <2>2, <2>3
<1>5. /\ session.state = Own(m) /\ session.drops + Remaining <= Needed + 1
      /\ session.drops <= Needed /\ session.limit = MaxDrops
  BY <1>1, <1>2, OwnRemaining DEF ConvergeInv, Owed
<1>6. /\ Active' /\ Remaining = ToGo(m) + AfterIt(m) /\ Remaining' = ToGo(m)' + AfterIt(m)
  BY <1>4, <1>5, OwnRemaining
<1> DEFINE n == DropsFrom(m)[step[m]["kp"]]
           h == step[m]["kp"] \div 2
           k == Halvings(m, "kd")
<1>7. /\ step[m]["kp"] \in Nat /\ h \in Nat /\ k \in Nat \ {0} /\ AfterIt(m) \in Nat
      /\ Needed \in Nat /\ session.drops \in Nat /\ MinStep[m] \in Nat
  <2>1. step[m]["kp"] \in Nat /\ session.drops \in Nat
    BY DropsAssumption DEF SearchOK, Params
  <2> QED BY <2>1, Numbers, StepAssumption DEF Motors, Params
<1>8. /\ n \in Nat \ {0}
      /\ h < MinStep[m] => n = 1 /\ DropsFrom(m)[h] = 1
      /\ h >= MinStep[m] => n = 1 + DropsFrom(m)[h]
      /\ DropsFrom(m)[h] \in Nat
  <2>1. h < MinStep[m] => h \div 2 < MinStep[m]
    BY <1>7
  <2> QED BY <1>7, <2>1, DropsNeeded
<1>9. ToGo(m) = n + k
  BY <1>2 DEF ToGo
<1>10. CASE phase'[m] = "kd" /\ step'[m]["kd"] = Half(m, "kd")
  <2>1. ToGo(m)' = k
    BY <1>10 DEF ToGo, Halvings
  <2>2. session.drops + Remaining' <= Needed
    BY <1>5, <1>6, <1>7, <1>8, <1>9, <2>1
  <2>3. ~Owed'
    BY <1>2, <1>10 DEF Owed
  <2>4. (step[motor]["kd"] = Half(motor, "kd"))'
    BY <1>2, <1>10 DEF Half
  <2> QED BY <1>2, <1>4, <1>5, <1>6, <1>7, <1>10, <2>2, <2>3, <2>4 DEF ConvergeInv, Booked, Own
<1>11. CASE phase' = phase /\ step'[m]["kp"] = h
  <2>1. ToGo(m)' = DropsFrom(m)[h] + k
    BY <1>2, <1>11 DEF ToGo
  <2>2. Owed' <=> h < MinStep[m]
    BY <1>2, <1>11 DEF Owed
  <2>3. session.drops + Remaining' <= Needed + (IF Owed' THEN 1 ELSE 0)
    BY <1>5, <1>6, <1>7, <1>8, <1>9, <2>1, <2>2
  <2> QED BY <1>2, <1>4, <1>5, <1>6, <1>11, <2>3 DEF ConvergeInv, Booked, Own
<1> QED BY <1>4, <1>10, <1>11

LEMMA ConvergeNarrowKp ==
  ASSUME SearchOK, motor \in Motors, ConvergeInv, NarrowKp, session.target
  PROVE  ConvergeInv' /\ Booked
<1>1. PICK m \in Motors : m = motor
  OBVIOUS
<1>2. charge = "narrowKp" /\ charge' = "clamp" /\ motor' = m
  BY <1>1 DEF NarrowKp
<1>3. session.state = Own(m) /\ session.drops <= Needed /\ session.limit = MaxDrops
  BY <1>1, <1>2 DEF ConvergeInv
<1>4. Active /\ Remaining = ToGo(m) + AfterIt(m)
  BY <1>3, OwnRemaining
<1>5. session.drops + Remaining <= Needed + (IF Owed THEN 1 ELSE 0)
  BY <1>4 DEF ConvergeInv
<1>6. ~Owed'
  BY <1>2 DEF Owed
<1>7. CASE step[motor]["kp"] < MinStep[motor]
  <2>1. ToKd(step)
    BY <1>7 DEF NarrowKp
  <2>2. /\ Booked /\ session'.state = session.state
        /\ phase'[m] = "kd" /\ step'[m]["kd"] = Half(m, "kd")
    BY <1>1, <2>1, ToKdSteps DEF SearchOK
  <2>3. Active' /\ Remaining' = ToGo(m)' + AfterIt(m)
    BY <1>3, <2>2, OwnRemaining
  <2>4. ToGo(m)' = Halvings(m, "kd")
    BY <2>2 DEF ToGo, Halvings
  <2>5. /\ Halvings(m, "kd") \in Nat /\ AfterIt(m) \in Nat /\ Needed \in Nat
        /\ session.drops \in Nat /\ DropsFrom(m)[step[m]["kp"]] \in Nat \ {0}
    <3>1. step[m]["kp"] \in Nat /\ session.drops \in Nat
      BY DropsAssumption DEF SearchOK, Params
    <3> QED BY <3>1, Numbers, DropsNeeded DEF Motors, Params
  <2>6. session.drops + Remaining' <= Needed
    <3>1. CASE phase[m] = "kp"
      <4>1. ToGo(m) = DropsFrom(m)[step[m]["kp"]] + Halvings(m, "kd")
        BY <3>1 DEF ToGo
      <4>2. PICK n \in Nat \ {0} : n = DropsFrom(m)[step[m]["kp"]]
        BY <2>5
      <4>3. session.drops + (n + Halvings(m, "kd") + AfterIt(m)) <= Needed + 1
        BY <1>4, <1>5, <2>5, <4>1, <4>2
      <4>4. session.drops + (Halvings(m, "kd") + AfterIt(m)) <= Needed
        BY <2>5, <4>2, <4>3
      <4> QED BY <2>3, <2>4, <4>4
    <3>2. CASE phase[m] = "kd"
      <4>1. ToGo(m) = Halvings(m, "kd")
        BY <1>1, <1>2, <3>2 DEF ToGo, ConvergeInv, Halvings
      <4>2. ~Owed
        BY <1>1, <1>2, <3>2 DEF Owed
      <4> QED BY <1>4, <1>5, <2>3, <2>4, <2>5, <4>1, <4>2
    <3> QED BY <3>1, <3>2 DEF SearchOK, Params
  <2> QED BY <1>2, <1>3, <1>6, <2>2, <2>3, <2>5, <2>6 DEF ConvergeInv, Booked, Own
<1>8. CASE ~(step[motor]["kp"] < MinStep[motor])
  <2>1. UNCHANGED <<session, phase, step>>
    BY <1>8 DEF NarrowKp, searchVars
  <2>2. ~Owed
    BY <1>2, <1>8 DEF Owed
  <2>3. Remaining' = Remaining /\ Active'
    BY <1>4, <2>1 DEF Remaining, ToGo, Active
  <2> QED BY <1>2, <1>3, <1>5, <1>6, <2>1, <2>2, <2>3 DEF ConvergeInv, Booked, Own
<1> QED BY <1>7, <1>8

LEMMA ConvergeKd ==
  ASSUME SearchOK, motor \in Motors, ConvergeInv, NEW r, NEW late \in BOOLEAN,
         MoveKd(r, late), session.target
  PROVE  ConvergeInv' /\ Booked
<1> DEFINE s == Halved("kd")
           g == [session.best EXCEPT ![motor]["kp"] = IF late THEN @ + Bump(s) ELSE @]
<1>1. PICK m \in Motors : m = motor
  OBVIOUS
<1>2. charge = "judge" /\ charge' = "narrowKd" /\ motor' = m /\ phase[m] = "kd"
  BY <1>1 DEF MoveKd
<1>3. s \in [Motors -> [Params -> Nat]] /\ s[m]["kd"] = step[m]["kd"] \div 2
  BY <1>1, HalvedType, HalvedSteps DEF Params
<1>4. /\ session.state = Own(m) /\ session.drops + Remaining <= Needed + 1
      /\ session.drops <= Needed /\ session.limit = MaxDrops
  BY <1>1, <1>2, OwnRemaining DEF ConvergeInv, Owed
<1> DEFINE n == DropsFrom(m)[step[m]["kd"]]
           h == step[m]["kd"] \div 2
<1>5. Remaining = n + AfterIt(m)
  BY <1>2, <1>4, OwnRemaining DEF ToGo
<1>6. /\ step[m]["kd"] \in Nat /\ h \in Nat /\ AfterIt(m) \in Nat
      /\ Needed \in Nat /\ session.drops \in Nat /\ MinStep[m] \in Nat
  <2>1. step[m]["kd"] \in Nat /\ session.drops \in Nat
    BY DropsAssumption DEF SearchOK, Params
  <2> QED BY <2>1, Numbers, StepAssumption DEF Motors, Params
<1>7. /\ n \in Nat \ {0}
      /\ h < MinStep[m] => n = 1 /\ DropsFrom(m)[h] = 1
      /\ h >= MinStep[m] => n = 1 + DropsFrom(m)[h]
      /\ DropsFrom(m)[h] \in Nat
  <2>1. h < MinStep[m] => h \div 2 < MinStep[m]
    BY <1>6
  <2> QED BY <1>6, <2>1, DropsNeeded
<1>8. session.drops + AfterIt(m) <= Needed
  BY <1>4, <1>5, <1>6, <1>7
<1>9. AfterIt(motor)' = AfterIt(m)
  BY <1>2 DEF AfterIt
<1>10. CASE FinishMotor(session, g, s)
  <2>1. /\ Booked /\ session'.state # Own(m) /\ session'.state # "error"
        /\ Active' => Remaining' = AfterIt(m)
    BY <1>1, <1>3, <1>10, FinishSteps
  <2>2. ~Owed'
    BY <1>2, <2>1 DEF Owed, Own
  <2>3. Own(motor)' = Own(m)
    BY <1>2 DEF Own
  <2> QED BY <1>2, <1>4, <1>6, <1>8, <1>9, <2>1, <2>2, <2>3 DEF ConvergeInv, Booked
<1>11. CASE step' = s /\ phase' = phase /\ \E x : session' = [session EXCEPT !.best = x]
  <2>1. Booked /\ session'.state = session.state /\ step'[m]["kd"] = h
    BY <1>3, <1>11 DEF SearchOK, Booked
  <2>2. Active' /\ Remaining' = ToGo(m)' + AfterIt(m)
    BY <1>4, <2>1, OwnRemaining
  <2>3. ToGo(m)' = DropsFrom(m)[h]
    BY <1>2, <1>11, <2>1 DEF ToGo
  <2>4. Own(motor)' = Own(m)
    BY <1>2 DEF Own
  <2>5. Owed' <=> h < MinStep[m]
    BY <1>2, <1>4, <2>1, <2>4 DEF Owed
  <2>6. session.drops + Remaining' <= Needed + (IF Owed' THEN 1 ELSE 0)
    BY <1>4, <1>5, <1>6, <1>7, <2>2, <2>3, <2>5
  <2>7. session'.state # "error" /\ (phase[motor] = "kd")'
    BY <1>2, <1>4, <1>11, <2>1 DEF Own
  <2> QED BY <1>2, <1>4, <1>8, <1>9, <2>1, <2>2, <2>6, <2>7 DEF ConvergeInv, Booked
<1>12. FinishMotor(session, g, s) \/ /\ step' = s /\ phase' = phase
                                     /\ \E x : session' = [session EXCEPT !.best = x]
  BY DEF MoveKd
<1> QED BY <1>10, <1>11, <1>12

LEMMA ConvergeNarrowKd ==
  ASSUME SearchOK, motor \in Motors, ConvergeInv, NarrowKd, session.target
  PROVE  ConvergeInv' /\ Booked
<1>1. PICK m \in Motors : m = motor
  OBVIOUS
<1>2. charge = "narrowKd" /\ charge' = "clamp" /\ motor' = m
  BY <1>1 DEF NarrowKd
<1>3. /\ session.drops <= Needed /\ session.limit = MaxDrops
      /\ session.drops + AfterIt(m) <= Needed
  BY <1>1, <1>2 DEF ConvergeInv
<1>4. ~Owed'
  BY <1>2 DEF Owed
<1>5. Needed \in Nat /\ session.drops \in Nat /\ AfterIt(m) \in Nat
  BY Numbers, DropsAssumption DEF SearchOK, Motors, Params
<1>6. CASE step[motor]["kd"] < MinStep[motor]
  <2>1. FinishMotor(session, session.best, step)
    BY <1>6 DEF NarrowKd
  <2>2. /\ Booked /\ session'.state # "error"
        /\ Active' => Remaining' = AfterIt(m)
    BY <1>1, <2>1, FinishSteps DEF SearchOK
  <2> QED BY <1>2, <1>3, <1>4, <1>5, <2>2 DEF ConvergeInv, Booked
<1>7. CASE ~(step[motor]["kd"] < MinStep[motor])
  <2>1. UNCHANGED <<session, phase, step>>
    BY <1>7 DEF NarrowKd, searchVars
  <2>2. ~Owed
    BY <1>2, <1>7 DEF Owed
  <2>3. Remaining' = Remaining /\ Active' = Active
    BY <2>1 DEF Remaining, ToGo, Active
  <2> QED BY <1>2, <1>3, <1>4, <2>1, <2>2, <2>3 DEF ConvergeInv, Booked
<1> QED BY <1>6, <1>7

LEMMA ConvergeClamp ==
  ASSUME SearchOK, ConvergeInv, Clamp, session.target
  PROVE  ConvergeInv' /\ Booked
<1>1. Booked /\ session'.state = session.state /\ UNCHANGED <<phase, step>>
  BY DEF Clamp, SearchOK, Booked, searchVars
<1>2. charge = "clamp" /\ charge' = "idle"
  BY DEF Clamp
<1>3. ~Owed /\ ~Owed'
  BY <1>2 DEF Owed
<1>4. Remaining' = Remaining /\ Active' = Active
  BY <1>1 DEF Remaining, ToGo, Active
<1> QED BY <1>1, <1>2, <1>3, <1>4 DEF ConvergeInv, Booked

(* The phase handlers, with a session they were called for or not.              *)
LEMMA ConvergePhase ==
  ASSUME SearchOK, motor \in Motors, ConvergeInv, Phase
  PROVE  ConvergeInv'
<1>1. CASE session.target
  BY <1>1, ConvergeKp, ConvergeKd, ConvergeNarrowKp, ConvergeNarrowKd, ConvergeClamp DEF Phase
<1>2. CASE ~session.target
  <2>1. ASSUME NEW s \in [Motors -> [Params -> Nat]], ToKd(s) PROVE Booked
    BY <2>1, ToKdSteps
  <2>2. ASSUME NEW s \in [Motors -> [Params -> Nat]], NEW g, FinishMotor(session, g, s)
        PROVE  Booked
    BY <2>2, FinishSteps
  <2>3. ASSUME NEW b, session' = [session EXCEPT !.best = b] PROVE Booked
    BY <2>3 DEF SearchOK, Booked
  <2>4. step \in [Motors -> [Params -> Nat]] /\ (session' = session => Booked)
    BY DEF SearchOK, Booked
  <2>5. \A p \in Params : Halved(p) \in [Motors -> [Params -> Nat]]
    BY HalvedType
  <2>6. ASSUME NEW r, MoveKp(r) PROVE Booked
    <3>1. ToKd(Halved("kp")) \/ \E b : session' = [session EXCEPT !.best = b]
      BY <2>6 DEF MoveKp
    <3> QED BY <2>1, <2>3, <2>5, <3>1 DEF Params
  <2>7. ASSUME NEW r, NEW late, MoveKd(r, late) PROVE Booked
    <3>1. \/ \E g : FinishMotor(session, g, Halved("kd"))
          \/ \E b : session' = [session EXCEPT !.best = b]
      BY <2>7 DEF MoveKd
    <3> QED BY <2>2, <2>3, <2>5, <3>1 DEF Params
  <2>8. NarrowKp => Booked
    BY <2>1, <2>4 DEF NarrowKp
  <2>9. NarrowKd => Booked
    BY <2>2, <2>4 DEF NarrowKd
  <2>10. Clamp => Booked
    BY <2>3 DEF Clamp
  <2>11. Booked
    BY <2>6, <2>7, <2>8, <2>9, <2>10 DEF Phase
  <2> QED BY <1>2, <2>11, NoTarget
<1> QED BY <1>1, <1>2

LEMMA ConvergeNext == TypeOK /\ ConvergeInv /\ [Next]_vars => ConvergeInv'
<1> SUFFICES ASSUME TypeOK, ConvergeInv, [Next]_vars PROVE ConvergeInv'
  OBVIOUS
<1>0. SearchOK /\ motor \in Motors
  BY DEF TypeOK, SearchOK
<1>a. Needed \in Nat /\ session.drops \in Nat /\ MaxDrops \in Nat
  BY <1>0, Numbers, DropsAssumption DEF SearchOK, Motors, Params
<1>b. Active => Remaining \in Nat \ {0}
  <2>1. /\ ToGo("coarse") + AfterIt("coarse") \in Nat \ {0}
        /\ ToGo("fine") + AfterIt("fine") \in Nat \ {0}
    BY <1>0, GoesOn, Numbers DEF Motors
  <2> QED BY <2>1 DEF Remaining
<1>1. CASE Start
  <2>1. /\ session'.drops = 0 /\ session'.target = TRUE /\ session'.limit = MaxDrops
        /\ session'.state = "phase1"
    BY <1>1 DEF Start, Cleared
  <2>2. charge' = "idle" /\ motor' = motor
    BY <1>1 DEF Start, MutexFree
  <2>3. phase'["coarse"] = "kp" /\ step'["coarse"]["kp"] = Half("coarse", "kp")
    BY <1>1 DEF Start, Motors, Params
  <2>4. Remaining' = Halvings("coarse", "kp") + Halvings("coarse", "kd") + AfterIt("coarse")
    BY <2>1, <2>3 DEF Remaining, ToGo, Halvings, AfterIt
  <2>5. ~Owed'
    BY <2>2 DEF Owed
  <2> QED BY <1>a, <2>1, <2>2, <2>4, <2>5, Numbers DEF ConvergeInv
<1>2. CASE Apply
  <2>1. Booked /\ session'.state = "idle" /\ session.state = "complete" /\ session.target
    BY <1>0, <1>2 DEF Apply, Booked, SearchOK
  <2>2. UNCHANGED <<phase, step, charge, motor>>
    BY <1>2 DEF Apply, searchVars
  <2>3. ~Active' /\ ~Active /\ \A m \in Motors : Own(m) # "complete" /\ Own(m) # "idle"
    BY <2>1 DEF Active, Own
  <2>4. AfterIt(motor)' = AfterIt(motor) /\ Own(motor)' = Own(motor)
    BY <2>2 DEF AfterIt, Own
  <2>5. charge # "count" /\ charge # "judge" /\ charge # "narrowKp"
    BY <1>0, <2>1, <2>3 DEF ConvergeInv
  <2> QED BY <1>0, <2>1, <2>2, <2>3, <2>4, <2>5 DEF ConvergeInv, Booked
<1>3. CASE CancelRestore \/ UNCHANGED vars
  BY <1>3 DEF CancelRestore, vars, searchVars, ConvergeInv, Active, Remaining, ToGo, AfterIt, Owed, Own
<1>4. CASE CancelClear
  <2>1. session' = Cleared
    BY <1>4 DEF CancelClear
  <2> QED BY <1>a, <2>1 DEF ConvergeInv, Cleared
<1>5. CASE Check
  <2>1. UNCHANGED <<session, phase, step>> /\ Active /\ charge = "idle" /\ charge' = "count"
    BY <1>5 DEF Check, searchVars
  <2>2. Active' /\ Remaining' = Remaining /\ ~Owed /\ ~Owed'
    BY <2>1 DEF Active, Remaining, ToGo, Owed
  <2> QED BY <2>1, <2>2 DEF ConvergeInv
<1>6. CASE GiveUp
  <2>1. /\ Booked /\ session'.state = "error" /\ charge = "count" /\ charge' = "idle"
        /\ session.drops >= session.limit
    BY <1>0, <1>6 DEF GiveUp, SearchOK, Booked
  <2>2. ~Active' /\ ~Owed
    BY <2>1 DEF Active, Owed
  <2>3. session.target => MaxDrops < Needed
    BY <1>a, <1>b, <2>1, <2>2 DEF ConvergeInv
  <2> QED BY <2>1, <2>2, <2>3 DEF ConvergeInv, Booked
<1>7. CASE Count
  <2>1. /\ session'.target = session.target /\ session'.limit = session.limit
        /\ session'.state = session.state /\ session'.drops = session.drops + 1
        /\ UNCHANGED <<phase, step>> /\ charge = "count" /\ charge' = "dispatch"
        /\ session.drops < session.limit
    BY <1>0, <1>7 DEF Count, SearchOK, searchVars
  <2>2. Active' = Active /\ Remaining' = Remaining /\ ~Owed /\ Owed'
    BY <2>1 DEF Active, Remaining, ToGo, Owed
  <2>3. session.target
    BY <1>a, <2>1 DEF ConvergeInv
  <2>4. Active /\ session.drops + Remaining <= Needed /\ session.limit = MaxDrops
    BY <1>a, <2>1, <2>2, <2>3 DEF ConvergeInv
  <2>5. session.state # "error"
    BY <2>4 DEF Active
  <2>6. session'.drops <= Needed /\ session'.drops + Remaining' <= Needed + 1
    BY <1>a, <1>b, <2>1, <2>2, <2>4
  <2> QED BY <2>1, <2>2, <2>3, <2>4, <2>5, <2>6 DEF ConvergeInv
<1>8. CASE Dispatch
  <2>1. /\ UNCHANGED <<session, phase, step>> /\ charge = "dispatch"
        /\ charge' = IF Active THEN "judge" ELSE "idle"
        /\ session.state = "phase1" => motor' = "coarse"
        /\ session.state = "phase2" => motor' = "fine"
    BY <1>8 DEF Dispatch, searchVars
  <2>2. Active' = Active /\ Remaining' = Remaining /\ Owed
    BY <2>1 DEF Active, Remaining, ToGo, Owed
  <2>3. Active => Owed' /\ session'.state = Own(motor')
    BY <2>1 DEF Active, Owed, Own
  <2> QED BY <2>1, <2>2, <2>3 DEF ConvergeInv, Own
<1>9. CASE Phase
  BY <1>0, <1>9, ConvergePhase
<1> QED BY <1>1, <1>2, <1>3, <1>4, <1>5, <1>6, <1>7, <1>8, <1>9 DEF Next, Rest, Record

(* A session ends within the drops its steps need, for any ranges, minimum steps *)
(* and limit, however the drops weigh and wherever a cancel falls: it does not    *)
(* fail for want of drops (ai_tuning_record_drop's "Did not converge") unless it    *)
(* was allowed fewer.                                                         *)
THEOREM ConvergesCorrect == Spec => []Converges
<1>1. Init => ConvergeInv
  <2> SUFFICES ASSUME Init PROVE ConvergeInv
    OBVIOUS
  <2>1. Needed \in Nat
    BY Numbers DEF Motors, Params
  <2> QED BY <2>1 DEF Init, Cleared, ConvergeInv
<1>2. TypeOK /\ ConvergeInv => Converges
  <2> SUFFICES ASSUME TypeOK, ConvergeInv PROVE Converges
    OBVIOUS
  <2>1. Needed \in Nat /\ MaxDrops \in Nat
    BY Numbers, DropsAssumption DEF Motors, Params
  <2> QED BY <2>1 DEF ConvergeInv, Converges
<1> QED BY <1>1, <1>2, ConvergeNext, TypeCorrect, PTL DEF Spec
=============================================================================
