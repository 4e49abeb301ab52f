----------------------------- MODULE TricklerMC -----------------------------
(* Instances of the trickler for TLC.                                       *)
EXTENDS Trickler

\* All requests but the one that commands the gate directly
StateOps == AllRestOps \ {"gate"}
=============================================================================
