---------------------------- MODULE ChargeEvents ----------------------------
(***************************************************************************)
(* charge_mode_event of src/charge_mode.cpp: the flags charge mode sets when  *)
(* a charge went over or under its target and takes back after a good one, and *)
(* that the page's poll reads and clears.  The two tasks run on two cores and  *)
(* share one word without a lock; |= and &= are a read and a write.           *)
(***************************************************************************)
EXTENDS Naturals

CONSTANT MaxCharges   \* bound: charges

VARIABLES
    event,    \* charge_mode_event
    task,     \* charge mode: in the middle of changing it, and the word it will write
    poll,     \* the poll: has captured and not yet cleared, and what
    owed,     \* flags raised that no poll has seen and no later charge took back
    charges   \* charges so far

eventVars == <<event, task, poll, owed, charges>>

Flags   == {"over", "under"}
Resting == [busy |-> FALSE, word |-> {}]

EventsInit ==
    /\ event = {} /\ task = Resting /\ poll = Resting /\ owed = {} /\ charges = 0

(* The outcome of a charge: a flag of its own, or a good charge's {}.           *)
Outcomes == {{f} : f \in Flags} \cup {{}}

TaskReads(outcome) ==
    /\ ~task.busy /\ charges < MaxCharges /\ charges' = charges + 1
    /\ task' = [busy |-> TRUE, word |-> IF outcome = {} THEN event \ Flags ELSE event \cup outcome]
    /\ owed' = IF outcome = {} THEN {} ELSE owed \cup outcome
    /\ UNCHANGED <<event, poll>>

TaskWrites ==
    /\ task.busy /\ task' = Resting
    /\ event' = task.word
    /\ UNCHANGED <<poll, owed, charges>>

PollCaptures ==
    /\ ~poll.busy
    /\ poll' = [busy |-> TRUE, word |-> event] /\ owed' = owed \ event
    /\ UNCHANGED <<event, task, charges>>

PollClears ==
    /\ poll.busy /\ poll' = Resting
    /\ event' = {}
    /\ UNCHANGED <<task, owed, charges>>

(* charge_mode_menu begins with no event.                                    *)
MenuClears ==
    /\ ~task.busy /\ event' = {} /\ owed' = {}
    /\ UNCHANGED <<task, poll, charges>>

EventsNext ==
    \/ \E outcome \in Outcomes : TaskReads(outcome)
    \/ TaskWrites \/ PollCaptures \/ PollClears \/ MenuClears
EventsSpec == EventsInit /\ [][EventsNext]_eventVars

-----------------------------------------------------------------------------
(* A flag raised by a charge stays until a poll has seen it or a later charge   *)
(* took it back: "Capture event flags before clearing to avoid race with charge  *)
(* mode task" (charge_mode.cpp:1249).  Not so in this code: the write that       *)
(* clears also clears a flag raised after the capture.                        *)
NoEventLost == ~task.busy /\ ~poll.busy => owed \subseteq event
=============================================================================
