------------------------------ MODULE MotorsMC ------------------------------
(* The motors: three tasks that command one of them, forward, back and to a   *)
(* stop, and the tap of either or both.  The speeds of MotorSpeed and the      *)
(* enable pins of MotorTap have no state in common and are checked in one run: *)
(* "focus" says which moves.                                               *)
EXTENDS MotorSpeed, MotorTap
ForwardStopBack == {-1, 0, 1}
AnySelection    == SUBSET Motors
OneMotor        == {{"fine"}}
EachMotor       == {{"coarse"}, {"fine"}}

VARIABLE focus
MCInit == Init /\ TapInit /\ focus \in {"speed", "tap"}
MCNext ==
    /\ UNCHANGED focus
    /\ \/ focus = "speed" /\ Next /\ UNCHANGED tapVars
       \/ focus = "tap" /\ TapNext /\ UNCHANGED vars
MCSpec ==
    /\ MCInit /\ [][MCNext]_<<vars, tapVars, focus>>
    /\ focus = "speed" => Fairness
=============================================================================
