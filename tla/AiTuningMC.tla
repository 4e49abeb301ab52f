----------------------------- MODULE AiTuningMC -----------------------------
(***************************************************************************)
(* Small ranges for AiTuning, and the firmware's own as far as the number   *)
(* of drops goes.  There the unit is 0.005/128, in which every halving of   *)
(* the defaults (0.01 to 1, 2, 5 and 20) down to the minimum steps (0.02    *)
(* and 0.1) is exact.                                                      *)
(***************************************************************************)
EXTENDS AiTuning

Each(x) == [p \in Params |-> x]

LoDef      == [m \in Motors |-> Each(1)]
HiDef      == [coarse |-> [kp |-> 9, kd |-> 9], fine |-> [kp |-> 9, kd |-> 17]]
MinStepDef == [coarse |-> 2, fine |-> 2]

Unit == 128
LoDefault      == [m \in Motors |-> Each(2 * Unit)]
HiDefault      == [coarse |-> [kp |-> 200 * Unit, kd |-> 400 * Unit],
                   fine |-> [kp |-> 1000 * Unit, kd |-> 4000 * Unit]]
MinStepDefault == [coarse |-> 4 * Unit, fine |-> 20 * Unit]

D == INSTANCE AiTuning WITH Lo <- LoDefault, Hi <- HiDefault, MinStep <- MinStepDefault,
                            MaxDrops <- 30
(* The firmware allows 30 drops, and its default ranges need 23.            *)
ASSUME DefaultsConverge == D!Needed = 23
=============================================================================
