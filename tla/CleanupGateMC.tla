---------------------------- MODULE CleanupGateMC ----------------------------
(* Small instances of CleanupGate; its constants are given in the cfg files. *)
EXTENDS CleanupGate
=============================================================================
