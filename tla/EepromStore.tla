----------------------------- MODULE EepromStore -----------------------------
(***************************************************************************)
(* The EEPROM: saving, loading, erasing, and the resets in between          *)
(* (src/eeprom.c, src/cat24c256_eeprom.c, src/system_control.c).            *)
(*                                                                         *)
(* Two tasks save: the menu (or the touch screen's task, in its build) and  *)
(* the HTTP server.  A write takes one mutex, waits for it two seconds at   *)
(* most, and writes page by page; the mutex is free between two records.    *)
(* Erasing takes no mutex.  At start there are no tasks yet and no mutex.   *)
(* A page is whole or not written: the chip commits it at the stop.         *)
(*                                                                         *)
(* The version of a page grows with every edit.  Faults (a read or a page   *)
(* that fails, a loss of power) and edits are bounded, per installation.      *)
(* X_Variant is X with a plausible mistake.                                 *)
(***************************************************************************)
EXTENDS EepromRecords, FiniteSets

CONSTANT
    Installations   \* what behaviours are about: records in the order they are
                    \* loaded, and the bounds on the edits and on the faults

ASSUME InstallationsAssumption ==
    \A i \in Installations :
        /\ i.order \in Seq(DOMAIN Attributes) /\ i.order # <<>>
        /\ i.maxEdits \in Nat /\ i.maxFaults \in Nat

Erased  == 0           \* 0xFF: a blank page
Default == 1           \* the defaults in the code
Copy    == [Pages -> Nat]
Whole(v) == [p \in Pages |-> v]

Tasks  == {"menu", "http"}
NoOne  == "none"
NoCopy == Whole(Erased)     \* nothing is promised of a record

VARIABLES
    inst,       \* the installation this behaviour is about
    live,       \* the values in memory
    static,     \* the copy that all saves of a record share, where they do
    stored,     \* the pages in the EEPROM
    loading,    \* the records still to load; <<>> when the tasks run
    repairing,  \* the next page of defaults to write back, or 0
    mutex,      \* eeprom_access_mutex: who holds it
    job,        \* per task: what it is doing with the EEPROM
    edits, faults,
    saved,      \* what the last save of a record promised (none once it is overtaken)
    written     \* the last copy of a record whose pages were all written

chip    == <<stored, saved, written>>
counts  == <<edits, faults>>
boot    == <<inst, loading, repairing>>
memory  == <<live, static>>
vars    == <<inst, live, static, stored, loading, repairing, mutex, job, edits, faults, saved, written>>

order   == inst.order
Records == {order[i] : i \in DOMAIN order}
Is(r)   == Attributes[r]

Steps == {"idle", "compose", "take", "write", "erase", "respond", "reset"}
Job(step, todo, erase, reset) ==
    [step |-> step, todo |-> todo, page |-> 1, copy |-> NoCopy, clean |-> TRUE,
     erase |-> erase, reset |-> reset]
Idle == Job("idle", <<>>, FALSE, FALSE)

TypeOK ==
    /\ inst \in Installations
    /\ live \in [Records -> Copy] /\ static \in [Records -> Copy]
    /\ stored \in [Records -> Copy]
    /\ saved \in [Records -> Copy] /\ written \in [Records -> Copy]
    /\ \A i \in DOMAIN loading : loading[i] \in Records
    /\ repairing \in {0} \cup Pages
    /\ mutex \in Tasks \cup {NoOne}
    /\ \A t \in Tasks :
          /\ job[t].step \in Steps /\ job[t].copy \in Copy
          /\ \A i \in DOMAIN job[t].todo : job[t].todo[i] \in Records
          /\ job[t].clean \in BOOLEAN /\ job[t].erase \in BOOLEAN /\ job[t].reset \in BOOLEAN
    /\ edits \in 0..inst.maxEdits /\ faults \in 0..inst.maxFaults

Init ==
    /\ inst \in Installations
    /\ live    = [r \in Records |-> Whole(Default)]
    /\ static  = [r \in Records |-> NoCopy]
    /\ stored  \in {[r \in Records |-> Whole(v)] : v \in {Erased, Default}}
    /\ loading = order /\ repairing = 0
    /\ mutex = NoOne
    /\ job = [t \in Tasks |-> Idle]
    /\ edits = 0 /\ faults = 0
    /\ saved = [r \in Records |-> NoCopy] /\ written = stored

-----------------------------------------------------------------------------
(* Loading.  The revision is in the first page: a blank one refuses the      *)
(* record.  Only the checksum sees that the pages are not of one save.  (The  *)
(* shared copy is read into as well, but a save composes all of it anew.)     *)
Running == loading = <<>>

Valid_Unchecked(r, c) == c[1] # Erased

Valid(r, c) ==
    /\ c[1] # Erased
    /\ Is(r).checked => \A p \in Pages : c[p] = c[1]

Load ==
    /\ ~Running /\ repairing = 0
    /\ LET r == Head(loading) IN
          IF Valid(r, stored[r])
          THEN /\ live' = [live EXCEPT ![r] = stored[r]]
               /\ loading' = Tail(loading) /\ UNCHANGED repairing
          ELSE /\ live' = [live EXCEPT ![r] = Whole(Default)]
               /\ IF Is(r).repaired
                  THEN repairing' = 1 /\ UNCHANGED loading
                  ELSE loading' = Tail(loading) /\ UNCHANGED repairing
    /\ UNCHANGED <<inst, static, mutex, job, counts, chip>>

(* The defaults are used, and what is stored stays as it is.                 *)
LoadFails ==
    /\ ~Running /\ repairing = 0
    /\ faults < inst.maxFaults /\ faults' = faults + 1
    /\ live' = [live EXCEPT ![Head(loading)] = Whole(Default)]
    /\ loading' = Tail(loading)
    /\ UNCHANGED <<inst, static, repairing, mutex, job, edits, chip>>

(* The save of the defaults, without the mutex                              *)
Repair ==
    /\ repairing # 0
    /\ stored' = [stored EXCEPT ![Head(loading)][repairing] = Default]
    /\ saved'  = [saved EXCEPT ![Head(loading)] = NoCopy]
    /\ IF repairing = Cardinality(Pages)
       THEN /\ repairing' = 0 /\ loading' = Tail(loading)
            /\ written' = [written EXCEPT ![Head(loading)] = Whole(Default)]
       ELSE repairing' = repairing + 1 /\ UNCHANGED <<loading, written>>
    /\ UNCHANGED <<inst, memory, mutex, job, counts>>

Start == Load \/ LoadFails \/ Repair

-----------------------------------------------------------------------------
(* Requests.  Sets all the fields of a request to a new version.             *)
Set(r, ps) ==
    /\ edits < inst.maxEdits /\ edits' = edits + 1
    /\ live' = [live EXCEPT ![r] = [p \in Pages |-> IF p \in ps THEN edits + 2 ELSE @[p]]]

(* What a write of r that is under way writes from has changed: a mixture.     *)
Mixed(jobs, r) ==
    [t \in Tasks |->
        IF jobs[t].step = "write" /\ Head(jobs[t].todo) = r
        THEN [jobs[t] EXCEPT !.clean = FALSE] ELSE jobs[t]]

Edited(jobs, r) == IF Is(r).source = "live" THEN Mixed(jobs, r) ELSE jobs

Begin(todo, erase, reset) == Job("compose", todo, erase, reset)

Configure ==
    /\ Running /\ job["http"].step = "idle"
    /\ \E e \in Endpoints, save \in BOOLEAN :
          /\ e.record \in Records
          /\ Set(e.record, e.pages)
          /\ job' = [Edited(job, e.record) EXCEPT !["http"] =
                        Begin(IF save \/ e.alwaysSaves THEN <<e.record>> ELSE <<>>,
                              FALSE, FALSE)]
    /\ UNCHANGED <<boot, static, mutex, faults, chip>>

(* The menu changes a value in memory: a form bound to it, or AI tuning.     *)
MenuEdit ==
    /\ Running /\ job["menu"].step = "idle"
    /\ \E r \in Records : Set(r, Pages) /\ job' = Edited(job, r)
    /\ UNCHANGED <<boot, static, mutex, faults, chip>>

(* http_rest_system_control: save, then erase, then reset, as asked.         *)
SystemControl ==
    /\ Running /\ job["http"].step = "idle"
    /\ \E save, erase, reset \in BOOLEAN :
          job' = [job EXCEPT !["http"] =
                     Begin(IF save THEN SaveAllList(order) ELSE <<>>, erase, reset)]
    /\ UNCHANGED <<boot, memory, mutex, counts, chip>>

(* menu_task: APP_STATE_ENTER_EEPROM_SAVE, _ERASE (which resets), _REBOOT    *)
MenuExit ==
    /\ Running /\ job["menu"].step = "idle"
    /\ \E todo \in {SaveAllList(order), <<>>}, erase, reset \in BOOLEAN :
          /\ (todo # <<>>) # reset
          /\ erase => reset
          /\ job' = [job EXCEPT !["menu"] = Begin(todo, erase, reset)]
    /\ UNCHANGED <<boot, memory, mutex, counts, chip>>

Request == Configure \/ MenuEdit \/ SystemControl \/ MenuExit

-----------------------------------------------------------------------------
(* One save after the other: each composes its copy, if it has one.  A task   *)
(* that saves the same record in the meantime goes on with the shared copy.   *)
Compose(t) ==
    LET r == Head(job[t].todo)
    IN  /\ job[t].step = "compose" /\ job[t].todo # <<>>
        /\ IF Is(r).source = "shared" /\ static[r] # live[r]
           THEN /\ static' = [static EXCEPT ![r] = live[r]]
                /\ job' = [Mixed(job, r) EXCEPT ![t].step = "take"]
           ELSE /\ UNCHANGED static
                /\ job' = [job EXCEPT ![t].step = "take",
                              ![t].copy = IF Is(r).source = "own" THEN live[r] ELSE @]
        /\ UNCHANGED <<boot, live, mutex, counts, chip>>

(* The last one is done.                                                    *)
AllSaved(t) ==
    /\ job[t].step = "compose" /\ job[t].todo = <<>>
    /\ job' = [job EXCEPT ![t].step = IF job[t].erase THEN "erase" ELSE "respond",
                          ![t].page = 1]
    /\ UNCHANGED <<boot, memory, mutex, counts, chip>>

NextRecord(j) == Job("compose", Tail(j.todo), j.erase, j.reset)

Take_NoMutex(t) ==
    /\ job[t].step = "take"
    /\ mutex' = t
    /\ job' = [job EXCEPT ![t].step = "write", ![t].page = 1, ![t].clean = TRUE]
    /\ UNCHANGED <<boot, memory, counts, chip>>

Take(t) ==
    /\ job[t].step = "take"
    /\ mutex = NoOne /\ mutex' = t
    /\ job' = [job EXCEPT ![t].step = "write", ![t].page = 1, ![t].clean = TRUE]
    /\ UNCHANGED <<boot, memory, counts, chip>>

(* After two seconds the save gives up; eeprom_save_all goes on with the     *)
(* next record.                                                            *)
TakeTimesOut_Never(t) ==
    /\ job[t].step = "take"
    /\ FALSE
    /\ UNCHANGED vars

TakeTimesOut(t) ==
    /\ job[t].step = "take"
    /\ mutex # NoOne
    /\ job' = [job EXCEPT ![t] = NextRecord(job[t])]
    /\ UNCHANGED <<boot, memory, mutex, counts, chip>>

(* What a save writes: its copy, or what memory holds at that moment          *)
Source(t, r) ==
    CASE Is(r).source = "live"   -> live[r]
      [] Is(r).source = "own"    -> job[t].copy
      [] Is(r).source = "shared" -> static[r]

WritePage(t) ==
    /\ job[t].step = "write"
    /\ LET r    == Head(job[t].todo)
           p    == job[t].page
           last == p = Cardinality(Pages)
       IN  /\ stored' = [stored EXCEPT ![r][p] = Source(t, r)[p]]
           /\ saved' = [saved EXCEPT ![r] =
                           IF last /\ job[t].clean THEN Source(t, r)
                           ELSE IF p = 1 \/ ~job[t].clean THEN NoCopy ELSE @]
           /\ written' = [written EXCEPT ![r] = IF last THEN Source(t, r) ELSE @]
           /\ IF last
              THEN mutex' = NoOne /\ job' = [job EXCEPT ![t] = NextRecord(job[t])]
              ELSE job' = [job EXCEPT ![t].page = p + 1] /\ UNCHANGED mutex
    /\ UNCHANGED <<boot, memory, counts>>

(* _cat24c256_write_page returned false: the rest of the record is not       *)
(* written.                                                                *)
PageFails(t) ==
    /\ job[t].step = "write"
    /\ faults < inst.maxFaults /\ faults' = faults + 1
    /\ saved' = [saved EXCEPT ![Head(job[t].todo)] = NoCopy]
    /\ mutex' = NoOne
    /\ job' = [job EXCEPT ![t] = NextRecord(job[t])]
    /\ UNCHANGED <<boot, memory, stored, written, edits>>

(* eeprom_erase: page by page, without the mutex.  A page that fails is      *)
(* skipped.  The reboot comes before any response.                          *)
ErasePage(t) ==
    /\ job[t].step = "erase"
    /\ LET r == order[((job[t].page - 1) \div Cardinality(Pages)) + 1]
           p == ((job[t].page - 1) % Cardinality(Pages)) + 1
           last == job[t].page = Len(order) * Cardinality(Pages)
       IN  /\ \/ stored' = [stored EXCEPT ![r][p] = Erased] /\ UNCHANGED faults
              \/ faults < inst.maxFaults /\ faults' = faults + 1 /\ UNCHANGED stored
           /\ saved' = [s \in Records |-> NoCopy]
           /\ job' = [u \in Tasks |->
                        IF u # t THEN [job[u] EXCEPT !.clean = @ /\ job[u].step # "write"]
                        ELSE IF ~last THEN [job[u] EXCEPT !.page = @ + 1]
                        ELSE [job[u] EXCEPT !.page = 1,
                                            !.step = IF job[u].reset THEN "reset" ELSE "respond"]]
    /\ UNCHANGED <<boot, memory, mutex, edits, written>>

(* The response is composed; the handler returns it, unless it resets first. *)
Respond(t) ==
    /\ job[t].step = "respond"
    /\ job' = [job EXCEPT ![t] = IF @.reset THEN [@ EXCEPT !.step = "reset"] ELSE Idle]
    /\ UNCHANGED <<boot, memory, mutex, counts, chip>>

PowerOn ==
    /\ loading' = order /\ repairing' = 0
    /\ mutex' = NoOne
    /\ job' = [t \in Tasks |-> Idle]
    /\ live' = [r \in Records |-> Whole(Default)]
    /\ static' = [r \in Records |-> NoCopy]
    /\ UNCHANGED <<inst, edits, chip>>

(* software_reboot                                                         *)
Reset(t) == job[t].step = "reset" /\ PowerOn /\ UNCHANGED faults

(* The power is lost, at any moment.                                        *)
PowerLoss == faults < inst.maxFaults /\ faults' = faults + 1 /\ PowerOn

Step(t) ==
    \/ Compose(t) \/ AllSaved(t) \/ Take(t) \/ TakeTimesOut(t) \/ WritePage(t) \/ PageFails(t)
    \/ ErasePage(t) \/ Respond(t) \/ Reset(t)

Next == Start \/ Request \/ (\E t \in Tasks : Step(t)) \/ PowerLoss

(* The tasks run, and the start goes on.  Nothing obliges anyone to ask.     *)
Fairness == WF_vars(Start) /\ \A t \in Tasks : WF_vars(Step(t))

Spec == Init /\ [][Next]_vars /\ Fairness

-----------------------------------------------------------------------------
(* What a save promised stays in the EEPROM, whatever the other task saves   *)
(* and whenever the power goes, until somebody writes that record again or  *)
(* erases.  (eeprom.c: the access mutex)  A save promises what it wrote,      *)
(* unless that changed between its pages: by an edit of a record written from *)
(* memory, or by another save that composed the same shared copy.            *)
SavedStays == \A r \in Records : saved[r] # NoCopy => stored[r] = saved[r]

(* The mutex keeps two saves of a record apart, so a save from a copy writes   *)
(* one copy and not two mixed (ai_tuning.c: "Copy runtime config to EEPROM     *)
(* structure").  The shared copy is composed before the mutex is taken: it is  *)
(* not so for the record of the AI tuning.                                   *)
WritesOneCopy ==
    [][\A t \in Tasks :
          LET r == Head(job[t].todo) IN
             WritePage(t) /\ job[t].page = Cardinality(Pages) /\ Is(r).source # "live"
                => \A p \in Pages : stored'[r][p] \in {Source(t, r)[p], Erased}]_vars

(* A save of values that are written straight from memory never puts an      *)
(* older version over a newer one, however two tasks' saves interleave,      *)
(* unless the newer was never loaded: then what it writes are the defaults.  *)
(* The composed ones do: the menu's old copy may wait for the mutex while a  *)
(* request saves a newer one.                                               *)
WrittenInPlace ==
    {"metadata", "leds", "display", "touch", "scale", "profiles", "charge", "servo"}

NoRollback ==
    [][\A r \in Records \cap WrittenInPlace : \A p \in Pages :
          stored'[r][p] < stored[r][p] => stored'[r][p] \in {Erased, Default}]_vars

(* "All persistent settings are stored in CAT24C256 EEPROM (32KB) with CRC32 *)
(* validation": a start takes the last copy that was written whole, or the  *)
(* defaults.                                                               *)
LoadsWhole(r) ==
    ~Running /\ live'[r] # live[r] /\ loading' # order
       => live'[r] \in {Whole(Default), written[r]}

CheckedLoadsWhole     == [][\A r \in Records : Is(r).checked => LoadsWhole(r)]_vars
EveryRecordLoadsWhole == [][\A r \in Records : LoadsWhole(r)]_vars

(* Every request of the EEPROM comes to its end, also when pages fail and    *)
(* when the other task keeps the mutex; and the device gets through its start.*)
EveryRequestEnds ==
    /\ \A t \in Tasks : job[t].step # "idle" ~> job[t].step = "idle"
    /\ ~Running ~> Running

(* "Compose the response BEFORE a potential reboot so the client gets a      *)
(* reply"                                                                  *)
RepliesBeforeReset ==
    [][job["http"].step = "reset" => loading' = loading]_vars
=============================================================================
