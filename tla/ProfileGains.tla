---------------------------- MODULE ProfileGains ----------------------------
(***************************************************************************)
(* The gains of the selected profile and who reads and writes them           *)
(* (profile_get_pid_params, profile_set_pid_params, http_rest_profile_config   *)
(* and profile_reset_one of src/profile.c).                                  *)
(*                                                                         *)
(* Gains are a pair, kp and kd, of the numbers of the edits that wrote them.  *)
(* The PID loop copies the selected profile's under a mutex it waits 10 ms     *)
(* for, the HTTP server writes them under the same mutex and waits 100 ms; who *)
(* does not get it goes on without.  X_Variant is X with a plausible mistake.  *)
(***************************************************************************)
EXTENDS Integers, Sequences

CONSTANTS
    Table,      \* profiles
    MaxEdits,   \* bound: edits
    MaxSelects  \* bound: selections in the menu

ASSUME GainsBoundsAssumption == MaxEdits \in Nat /\ MaxSelects \in Nat

VARIABLES
    gains,     \* per profile: <<kp, kd>>
    current,   \* current_profile_idx
    mutex,     \* g_profile_pid_mutex: its holder
    loop,      \* the PID loop
    server,    \* the HTTP server
    meant,     \* pairs that were meant for a profile: <<profile, pair>>
    apart,     \* somebody went on without the mutex, or never asks for it
    edits, selects

gainsVars == <<gains, current, mutex, loop, server, meant, apart, edits, selects>>

Rest == [pc |-> "rest", at |-> 0, got |-> <<0, 0>>]

GainsInit ==
    /\ gains = [p \in Table |-> <<0, 0>>] /\ current \in Table
    /\ mutex = "free" /\ loop = Rest /\ server = Rest
    /\ meant = {<<p, <<0, 0>>>> : p \in Table} /\ apart = FALSE /\ edits = 0 /\ selects = 0

(* The menu's field writes the index of the profile.                         *)
MenuSelects(p) ==
    /\ selects < MaxSelects /\ selects' = selects + 1
    /\ current' = p
    /\ UNCHANGED <<gains, mutex, loop, server, meant, apart, edits>>

-----------------------------------------------------------------------------
(* profile_get_pid_params: the pointer first, then the mutex, then the copies. *)
LoopPoints ==
    /\ loop.pc = "rest"
    /\ loop' = [pc |-> "take", at |-> current, got |-> <<0, 0>>]
    /\ UNCHANGED <<gains, current, mutex, server, meant, apart, edits, selects>>

LoopTakes ==
    /\ loop.pc = "take"
    /\ \/ mutex = "free" /\ mutex' = "loop" /\ UNCHANGED apart
       \/ mutex # "free" /\ apart' = TRUE /\ UNCHANGED mutex
    /\ loop' = [loop EXCEPT !.pc = "kp"]
    /\ UNCHANGED <<gains, current, server, meant, edits, selects>>

LoopCopies ==
    /\ \/ /\ loop.pc = "kp"
          /\ loop' = [loop EXCEPT !.pc = "kd", !.got = <<gains[loop.at][1], @[2]>>]
       \/ /\ loop.pc = "kd"
          /\ loop' = [loop EXCEPT !.pc = "give", !.got = <<@[1], gains[loop.at][2]>>]
    /\ UNCHANGED <<gains, current, mutex, server, meant, apart, edits, selects>>

LoopGives ==
    /\ loop.pc = "give" /\ loop' = Rest
    /\ mutex' = IF mutex = "loop" THEN "free" ELSE mutex
    /\ UNCHANGED <<gains, current, server, meant, apart, edits, selects>>

-----------------------------------------------------------------------------
(* http_rest_profile_config: it selects the profile, reads its gains, replaces  *)
(* those that are in the request, and writes all back by profile_set_pid_params, *)
(* which looks up the selected profile again.                               *)
Configured(p, kp, kd) ==
    /\ server.pc = "rest" /\ edits < MaxEdits /\ edits' = edits + 1
    /\ current' = p
    /\ server' = [pc |-> "point", at |-> p,
                  got |-> <<IF kp THEN edits + 1 ELSE gains[p][1], IF kd THEN edits + 1 ELSE gains[p][2]>>]
    /\ UNCHANGED <<gains, mutex, loop, meant, apart, selects>>

ServerPoints ==
    /\ server.pc = "point"
    /\ server' = [server EXCEPT !.pc = "take", !.at = current]
    /\ meant' = meant \cup {<<current, server.got>>}
    /\ UNCHANGED <<gains, current, mutex, loop, apart, edits, selects>>

ServerTakes_No ==
    /\ server.pc = "take"
    /\ server' = [server EXCEPT !.pc = "kp"]
    /\ UNCHANGED <<gains, current, mutex, loop, meant, apart, edits, selects>>

ServerTakes ==
    /\ server.pc = "take"
    /\ \/ mutex = "free" /\ mutex' = "server" /\ UNCHANGED apart
       \/ mutex # "free" /\ apart' = TRUE /\ UNCHANGED mutex
    /\ server' = [server EXCEPT !.pc = "kp"]
    /\ UNCHANGED <<gains, current, loop, meant, edits, selects>>

ServerWrites ==
    /\ \/ /\ server.pc = "kp"
          /\ server' = [server EXCEPT !.pc = "kd"]
          /\ gains' = [gains EXCEPT ![server.at] = <<server.got[1], @[2]>>]
       \/ /\ server.pc = "kd"
          /\ server' = [server EXCEPT !.pc = "give"]
          /\ gains' = [gains EXCEPT ![server.at] = <<@[1], server.got[2]>>]
    /\ UNCHANGED <<current, mutex, loop, meant, apart, edits, selects>>

ServerGives ==
    /\ server.pc = "give" /\ server' = Rest
    /\ mutex' = IF mutex = "server" THEN "free" ELSE mutex
    /\ UNCHANGED <<gains, current, loop, meant, apart, edits, selects>>

(* profile_reset_one, and ai_tuning_apply_refined_params: no mutex at all       *)
WritesDirectly(p) ==
    /\ server.pc = "rest" /\ edits < MaxEdits /\ edits' = edits + 1
    /\ server' = [pc |-> "kp", at |-> p, got |-> <<edits + 1, edits + 1>>]
    /\ meant' = meant \cup {<<p, <<edits + 1, edits + 1>>>>} /\ apart' = TRUE
    /\ UNCHANGED <<gains, current, mutex, loop, selects>>

GainsNext ==
    \/ LoopPoints \/ LoopTakes \/ LoopCopies \/ LoopGives
    \/ ServerPoints \/ ServerTakes \/ ServerWrites \/ ServerGives
    \/ \E p \in Table :
          \/ MenuSelects(p) \/ WritesDirectly(p)
          \/ \E kp, kd \in BOOLEAN : Configured(p, kp, kd)
GainsSpec == GainsInit /\ [][GainsNext]_gainsVars

-----------------------------------------------------------------------------
(* The gains the loop goes on with are a pair somebody meant for one profile,   *)
(* not the kp of one edit and the kd of another, as long as nobody went on     *)
(* without the mutex.                                                      *)
ReadsWhole ==
    loop.pc = "give" /\ ~apart => <<loop.at, loop.got>> \in meant

(* "Thread-safe read of PID parameters" (profile.c:229): without the exception *)
ReadsAlwaysWhole ==
    loop.pc = "give" => <<loop.at, loop.got>> \in meant
=============================================================================
