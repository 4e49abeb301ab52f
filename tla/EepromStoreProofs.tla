--------------------------- MODULE EepromStoreProofs --------------------------
(***************************************************************************)
(* EepromStore for any installations: any records in any order, any number     *)
(* of edits and faults.                                                      *)
(***************************************************************************)
EXTENDS EepromStore, FiniteSetTheorems, TLAPS

LEMMA TwoPages == Cardinality(Pages) = 2 /\ Pages = {1, 2}
<1>1. 1 \in Int /\ 2 \in Int
  OBVIOUS
<1>2. Cardinality(1..2) = IF 1 > 2 THEN 0 ELSE 2 - 1 + 1
  BY <1>1, FS_Interval, Zenon
<1> QED BY <1>2 DEF Pages

-----------------------------------------------------------------------------
(* What the tasks are at: the shape of a job, and what each action makes of it. *)
IsJob(j) ==
    \E step, todo, page, copy, clean, erase, reset :
       j = [step |-> step, todo |-> todo, page |-> page, copy |-> copy, clean |-> clean,
            erase |-> erase, reset |-> reset]

Shape == job = [t \in Tasks |-> job[t]] /\ \A t \in Tasks : IsJob(job[t])

(* k is at the record, in the place and with the copy that j is.                *)
Same(j, k) == k.todo = j.todo /\ k.copy = j.copy /\ k.page = j.page

(* Nobody but t changes what he does.                                        *)
Others(t) == \A u \in Tasks : u # t => job'[u] = job[u]

LEMMA StepTo ==
    ASSUME NEW j, IsJob(j), NEW s, NEW k, k = [j EXCEPT !.step = s]
    PROVE  IsJob(k) /\ k.step = s /\ Same(j, k) /\ k.clean = j.clean
BY DEF IsJob, Same

LEMMA PageTo ==
    ASSUME NEW j, IsJob(j), NEW n, NEW k, k = [j EXCEPT !.page = n]
    PROVE  IsJob(k) /\ k.step = j.step /\ k.todo = j.todo /\ k.copy = j.copy /\ k.page = n
           /\ k.clean = j.clean
BY DEF IsJob

LEMMA CleanTo ==
    ASSUME NEW j, IsJob(j), NEW b, NEW k, k = [j EXCEPT !.clean = b]
    PROVE  IsJob(k) /\ k.step = j.step /\ Same(j, k) /\ k.clean = b
BY DEF IsJob, Same

LEMMA CopyTo ==
    ASSUME NEW j, IsJob(j), NEW c, NEW k, k = [j EXCEPT !.copy = c]
    PROVE  IsJob(k) /\ k.step = j.step /\ k.todo = j.todo /\ k.copy = c
BY DEF IsJob

LEMMA JobMade ==
    ASSUME NEW step, NEW todo, NEW erase, NEW reset
    PROVE  IsJob(Job(step, todo, erase, reset)) /\ Job(step, todo, erase, reset).step = step
<1>1. IsJob(Job(step, todo, erase, reset))
  BY Zenon DEF IsJob, Job
<1> QED BY <1>1 DEF Job

(* One task's job is replaced.                                              *)
LEMMA Replaced ==
    ASSUME Shape, NEW t \in Tasks, NEW j, IsJob(j), job' = [job EXCEPT ![t] = j]
    PROVE  Shape' /\ Others(t) /\ job'[t] = j
BY DEF Shape, Others

-----------------------------------------------------------------------------
(* The record a task is at                                                    *)
Mine(t) == Head(job[t].todo)

(* A job that stays where it is; it may be told that its values are a mixture.  *)
Kept(u) ==
    job'[u].step = job[u].step /\ Same(job[u], job'[u]) /\ (job'[u].clean => job[u].clean)

LEMMA AllTheSame == ASSUME Shape, job' = job PROVE Shape' /\ \A u \in Tasks : Kept(u)
BY DEF Shape, Kept, Same

(* A write of r that is under way is told.                                     *)
Told(u, r) == Kept(u) /\ (job[u].step = "write" /\ Mine(u) = r => ~job'[u].clean)

LEMMA MixedJobs ==
    ASSUME Shape, NEW r, NEW u \in Tasks
    PROVE  LET m == Mixed(job, r)[u] IN
           /\ IsJob(m) /\ m.step = job[u].step /\ Same(job[u], m) /\ (m.clean => job[u].clean)
           /\ job[u].step = "write" /\ Mine(u) = r => ~m.clean
<1> DEFINE m == Mixed(job, r)[u]
<1>1. CASE job[u].step = "write" /\ Mine(u) = r
  <2>1. PICK k : k = [job[u] EXCEPT !.clean = FALSE]
    OBVIOUS
  <2>2. IsJob(k) /\ k.step = job[u].step /\ Same(job[u], k) /\ k.clean = FALSE
    BY <2>1, CleanTo DEF Shape
  <2>3. m = k
    BY <1>1, <2>1 DEF Mixed, Mine
  <2> QED BY <2>2, <2>3
<1>2. CASE ~(job[u].step = "write" /\ Mine(u) = r)
  <2>1. m = job[u]
    BY <1>2 DEF Mixed, Mine
  <2>2. IsJob(job[u]) /\ Same(job[u], job[u])
    BY DEF Shape, Same
  <2> QED BY <1>2, <2>1, <2>2
<1> QED BY <1>1, <1>2

LEMMA EditedOne ==
    ASSUME Shape, NEW r, NEW u \in Tasks
    PROVE  LET d == Edited(job, r)[u] IN
           /\ IsJob(d) /\ d.step = job[u].step /\ Same(job[u], d) /\ (d.clean => job[u].clean)
           /\ job[u].step = "write" /\ Mine(u) = r /\ d.clean => Is(r).source # "live"
<1>1. CASE Is(r).source = "live"
  <2>1. Edited(job, r) = Mixed(job, r)
    BY <1>1 DEF Edited
  <2> QED BY <2>1, MixedJobs
<1>2. CASE Is(r).source # "live"
  <2>1. Edited(job, r) = job /\ IsJob(job[u]) /\ Same(job[u], job[u])
    BY <1>2 DEF Edited, Shape, Same
  <2> QED BY <1>2, <2>1
<1> QED BY <1>1, <1>2

(* An edit of record r                                                      *)
Touched(u, r) ==
    Kept(u) /\ (job[u].step = "write" /\ Mine(u) = r /\ job'[u].clean => Is(r).source # "live")

LEMMA EditedJobs ==
    ASSUME Shape, NEW r, job' = Edited(job, r)
    PROVE  Shape' /\ \A u \in Tasks : Touched(u, r)
<1>1. \A u \in Tasks : job'[u] = Edited(job, r)[u]
  OBVIOUS
<1>2. job' = [u \in Tasks |-> job'[u]]
  BY DEF Edited, Mixed, Shape
<1> QED BY <1>1, <1>2, EditedOne DEF Shape, Touched, Kept

LEMMA ConfiguredJobs ==
    ASSUME Shape, NEW r, NEW k, IsJob(k), job' = [Edited(job, r) EXCEPT !["http"] = k]
    PROVE  Shape' /\ job'["http"] = k /\ \A u \in Tasks : u # "http" => Touched(u, r)
<1>1. \A u \in Tasks : job'[u] = IF u = "http" THEN k ELSE Edited(job, r)[u]
  BY DEF Edited, Mixed, Shape
<1>2. job' = [u \in Tasks |-> job'[u]]
  BY DEF Edited, Mixed, Shape
<1>3. "http" \in Tasks
  BY DEF Tasks
<1> QED BY <1>1, <1>2, <1>3, EditedOne DEF Shape, Touched, Kept

(* An idle task takes up a request.                                          *)
Begun(t) == job'[t].step = "compose"

LEMMA RequestedJobs ==
    ASSUME Shape, NEW t \in Tasks, NEW todo, NEW erase, NEW reset,
           job' = [job EXCEPT ![t] = Begin(todo, erase, reset)]
    PROVE  Shape' /\ Others(t) /\ Begun(t)
<1>1. PICK k : k = Job("compose", todo, erase, reset)
  OBVIOUS
<1>2. IsJob(k) /\ k.step = "compose"
  BY <1>1, JobMade
<1>3. job' = [job EXCEPT ![t] = k]
  BY <1>1 DEF Begin
<1> QED BY <1>2, <1>3, Replaced DEF Begun

(* Another task composes record r: the shared copy changes only where it is told.  *)
Recomposed(u, r) ==
    /\ Kept(u)
    /\ static' = static \/ (static' = [static EXCEPT ![r] = live[r]] /\ Told(u, r))

LEMMA ComposedJobs ==
    ASSUME Shape, NEW t \in Tasks, Compose(t)
    PROVE  /\ Shape' /\ \A u \in Tasks : u # t => Recomposed(u, Mine(t))
           /\ job'[t].step = "take" /\ job'[t].todo = job[t].todo
           /\ Is(Mine(t)).source = "own" => job'[t].copy = live[Mine(t)]
<1> DEFINE j == job[t]
           r == Mine(t)
           c == IF Is(r).source = "own" THEN live[r] ELSE j.copy
<1>1. IsJob(j)
  BY DEF Shape
<1>2. CASE Is(r).source = "shared" /\ static[r] # live[r]
  <2>1. static' = [static EXCEPT ![r] = live[r]] /\ job' = [Mixed(job, r) EXCEPT ![t].step = "take"]
    BY <1>2 DEF Compose, Mine
  <2>2. PICK m : m = Mixed(job, r)[t]
    OBVIOUS
  <2>3. PICK k : k = [m EXCEPT !.step = "take"]
    OBVIOUS
  <2>4. IsJob(m) /\ m.todo = j.todo
    BY <2>2, MixedJobs DEF Same
  <2>5. IsJob(k) /\ k.step = "take" /\ k.todo = j.todo
    BY <2>3, <2>4, StepTo DEF Same
  <2>6. /\ \A u \in Tasks : job'[u] = IF u = t THEN k ELSE Mixed(job, r)[u]
        /\ job' = [u \in Tasks |-> job'[u]]
    BY <2>1, <2>2, <2>3 DEF Mixed
  <2>7. ASSUME NEW u \in Tasks, u # t PROVE IsJob(job'[u]) /\ Recomposed(u, r)
    <3>1. job'[u] = Mixed(job, r)[u]
      BY <2>6, <2>7
    <3>2. IsJob(job'[u]) /\ Told(u, r) /\ Kept(u)
      BY <3>1, MixedJobs DEF Told, Kept
    <3> QED BY <2>1, <3>2 DEF Recomposed
  <2>8. Shape' /\ job'[t] = k
    BY <2>5, <2>6, <2>7 DEF Shape
  <2>9. Is(r).source # "own"
    BY <1>2
  <2> QED BY <2>5, <2>7, <2>8, <2>9
<1>3. CASE ~(Is(r).source = "shared" /\ static[r] # live[r])
  <2>1. PICK i : i = [j EXCEPT !.step = "take"]
    OBVIOUS
  <2>2. PICK k : k = [i EXCEPT !.copy = c]
    OBVIOUS
  <2>3. IsJob(i) /\ i.step = "take" /\ i.todo = j.todo /\ i.copy = j.copy
    BY <1>1, <2>1, StepTo DEF Same
  <2>4. IsJob(k) /\ k.step = "take" /\ k.todo = j.todo /\ k.copy = c
    BY <2>2, <2>3, CopyTo
  <2>5. job' = [job EXCEPT ![t] = k] /\ static' = static
    BY <1>3, <2>1, <2>2, <2>3 DEF Compose, Shape, Mine
  <2>6. Shape' /\ Others(t) /\ job'[t] = k
    BY <2>4, <2>5, Replaced
  <2> QED BY <2>4, <2>5, <2>6 DEF Others, Recomposed, Kept, Same
<1> QED BY <1>2, <1>3

LEMMA AllSavedJobs ==
    ASSUME Shape, NEW t \in Tasks, AllSaved(t)
    PROVE  Shape' /\ Others(t) /\ job'[t].step \in {"erase", "respond"}
<1>1. PICK s : s = IF job[t].erase THEN "erase" ELSE "respond"
  OBVIOUS
<1>2. PICK i : i = [job[t] EXCEPT !.step = s]
  OBVIOUS
<1>3. PICK k : k = [i EXCEPT !.page = 1]
  OBVIOUS
<1>4. IsJob(i) /\ i.step = s
  BY <1>2, StepTo DEF Shape
<1>5. IsJob(k) /\ k.step = s
  BY <1>3, <1>4, PageTo
<1>6. job' = [job EXCEPT ![t] = k]
  BY <1>1, <1>2, <1>3 DEF AllSaved, Shape
<1> QED BY <1>1, <1>5, <1>6, Replaced

LEMMA TakenJobs ==
    ASSUME Shape, NEW t \in Tasks, Take(t)
    PROVE  /\ Shape' /\ Others(t)
           /\ job'[t].step = "write" /\ job'[t].page = 1
           /\ job'[t].todo = job[t].todo /\ job'[t].copy = job[t].copy
<1> DEFINE j == job[t]
<1>1. IsJob(j)
  BY DEF Shape
<1>2. PICK a : a = [j EXCEPT !.step = "write"]
  OBVIOUS
<1>3. IsJob(a) /\ a.step = "write" /\ a.todo = j.todo /\ a.copy = j.copy
  BY <1>1, <1>2, StepTo DEF Same
<1>4. PICK b : b = [a EXCEPT !.page = 1]
  OBVIOUS
<1>5. IsJob(b) /\ b.step = "write" /\ b.todo = j.todo /\ b.copy = j.copy /\ b.page = 1
  BY <1>3, <1>4, PageTo
<1>6. PICK k : k = [b EXCEPT !.clean = TRUE]
  OBVIOUS
<1>7. IsJob(k) /\ k.step = "write" /\ k.todo = j.todo /\ k.copy = j.copy /\ k.page = 1
  BY <1>5, <1>6, CleanTo DEF Same
<1>8. job' = [job EXCEPT ![t] = k]
  BY <1>2, <1>4, <1>6 DEF Take, Shape
<1> QED BY <1>7, <1>8, Replaced

LEMMA GivenUpJobs ==
    ASSUME Shape, NEW t \in Tasks, job' = [job EXCEPT ![t] = NextRecord(job[t])]
    PROVE  Shape' /\ Others(t) /\ job'[t].step = "compose"
<1>1. PICK k : k = Job("compose", Tail(job[t].todo), job[t].erase, job[t].reset)
  OBVIOUS
<1>2. IsJob(k) /\ k.step = "compose"
  BY <1>1, JobMade
<1>3. job' = [job EXCEPT ![t] = k]
  BY <1>1 DEF NextRecord
<1> QED BY <1>2, <1>3, Replaced

LEMMA PagedJobs ==
    ASSUME Shape, NEW t \in Tasks, NEW n, job' = [job EXCEPT ![t].page = n]
    PROVE  /\ Shape' /\ Others(t)
           /\ job'[t].step = job[t].step /\ job'[t].todo = job[t].todo
           /\ job'[t].copy = job[t].copy /\ job'[t].page = n /\ job'[t].clean = job[t].clean
<1>1. PICK k : k = [job[t] EXCEPT !.page = n]
  OBVIOUS
<1>2. /\ IsJob(k) /\ k.step = job[t].step /\ k.todo = job[t].todo
      /\ k.copy = job[t].copy /\ k.page = n /\ k.clean = job[t].clean
  BY <1>1, PageTo DEF Shape
<1>3. job' = [job EXCEPT ![t] = k]
  BY <1>1 DEF Shape
<1> QED BY <1>2, <1>3, Replaced

(* Everybody else's write saves a mixture now.                                *)
Spoilt(u) == Kept(u) /\ (job[u].step = "write" => ~job'[u].clean)

LEMMA ErasedJobs ==
    ASSUME Shape, NEW t \in Tasks, ErasePage(t)
    PROVE  /\ Shape'
           /\ job'[t].step \in {"erase", "reset", "respond"}
           /\ \A u \in Tasks : u # t => Spoilt(u)
<1> DEFINE last == job[t].page = Len(order) * Cardinality(Pages)
           clean(u) == job[u].clean /\ job[u].step # "write"
           n    == IF last THEN 1 ELSE job[t].page + 1
           to   == IF job[t].reset THEN "reset" ELSE "respond"
<1>0. job[t].step = "erase" /\ \A u \in Tasks : IsJob(job[u])
  BY DEF ErasePage, Shape
<1>1. job' = [u \in Tasks |-> job'[u]]
  BY DEF ErasePage
<1>2. ASSUME NEW u \in Tasks, u # t PROVE IsJob(job'[u]) /\ Spoilt(u)
  <2>1. job'[u] = [job[u] EXCEPT !.clean = clean(u)]
    BY <1>2 DEF ErasePage
  <2>2. PICK k : k = [job[u] EXCEPT !.clean = clean(u)]
    OBVIOUS
  <2>3. IsJob(k) /\ k.step = job[u].step /\ Same(job[u], k) /\ k.clean = clean(u)
    BY <1>0, <2>2, CleanTo
  <2>4. job'[u] = k
    BY <2>1, <2>2
  <2> QED BY <2>3, <2>4 DEF Spoilt, Kept
<1>3. IsJob(job'[t]) /\ job'[t].step \in {"erase", "reset", "respond"}
  <2> HIDE DEF n
  <2>1. PICK a : a = [job[t] EXCEPT !.page = n]
    OBVIOUS
  <2>2. IsJob(a) /\ a.step = "erase"
    BY <1>0, <2>1, PageTo
  <2> USE DEF n
  <2>3. PICK b : b = [a EXCEPT !.step = to]
    OBVIOUS
  <2>4. IsJob(b) /\ b.step = to
    BY <2>2, <2>3, StepTo
  <2>5. CASE last
    <3>1. job'[t] = b
      BY <2>1, <2>3, <2>5 DEF ErasePage
    <3> QED BY <2>4, <3>1
  <2>6. CASE ~last
    <3>1. job'[t] = a
      BY <2>1, <2>6 DEF ErasePage
    <3> QED BY <2>2, <3>1
  <2> QED BY <2>5, <2>6
<1> QED BY <1>1, <1>2, <1>3 DEF Shape

LEMMA RespondedJobs ==
    ASSUME Shape, NEW t \in Tasks, Respond(t)
    PROVE  Shape' /\ Others(t) /\ job'[t].step \in {"reset", "idle"}
<1>1. CASE job[t].reset
  <2>1. PICK k : k = [job[t] EXCEPT !.step = "reset"]
    OBVIOUS
  <2>2. IsJob(k) /\ k.step = "reset"
    BY <2>1, StepTo DEF Shape
  <2>3. job' = [job EXCEPT ![t] = k]
    BY <1>1, <2>1 DEF Respond, Shape
  <2> QED BY <2>2, <2>3, Replaced
<1>2. CASE ~job[t].reset
  <2>1. PICK k : k = Idle
    OBVIOUS
  <2>2. IsJob(k) /\ k.step = "idle"
    BY <2>1, JobMade DEF Idle
  <2>3. job' = [job EXCEPT ![t] = k]
    BY <1>2, <2>1 DEF Respond, Shape
  <2> QED BY <2>2, <2>3, Replaced
<1> QED BY <1>1, <1>2

LEMMA AllIdle ==
    ASSUME job' = [t \in Tasks |-> Idle] PROVE Shape' /\ \A u \in Tasks : job'[u].step = "idle"
BY JobMade DEF Idle, Shape

-----------------------------------------------------------------------------
(* The types of what is stored and of what waits to be loaded.                 *)
Types ==
    /\ inst \in Installations
    /\ live \in [Records -> Copy] /\ static \in [Records -> Copy]
    /\ stored \in [Records -> Copy]
    /\ saved \in [Records -> Copy] /\ written \in [Records -> Copy]
    /\ loading \in Seq(Records) /\ repairing \in {0, 1, 2}
    /\ edits \in Nat

(* Only one writes, and it has the mutex; what is composed is a copy of the      *)
(* record's values.  While the device starts nobody has asked yet, and what is   *)
(* written back are the defaults that are used.                              *)
TaskOK(t) ==
    /\ job[t].step = "write" => mutex = t /\ job[t].page \in Pages
    /\ job[t].step \in {"take", "write"} /\ Mine(t) \in Records /\ Is(Mine(t)).source = "own"
          => job[t].copy \in Copy
    /\ ~Running => job[t].step = "idle"

BootInv == repairing # 0 => ~Running /\ live[Head(loading)] = Whole(Default)

TaskInv == BootInv /\ \A t \in Tasks : TaskOK(t)

(* What a save promised is there.  A write that is past its first page, and in    *)
(* whose record nobody meddled, has put there the page it will promise.         *)
SaveOK(t) ==
    job[t].step = "write" /\ job[t].page = 2 /\ Mine(t) \in Records =>
       /\ saved[Mine(t)] = NoCopy
       /\ job[t].clean => stored[Mine(t)][1] = Source(t, Mine(t))[1]

SaveInv == SavedStays /\ \A t \in Tasks : SaveOK(t)

USE DEF Copy

LEMMA Wholes == \A v \in Nat : Whole(v) \in Copy
BY DEF Whole

LEMMA Orders ==
    ASSUME inst \in Installations
    PROVE  order \in Seq(DOMAIN Attributes) /\ order # <<>> /\ order \in Seq(Records)
<1>1. order \in Seq(DOMAIN Attributes) /\ order # <<>>
  BY InstallationsAssumption DEF order
<1>2. order \in Seq(Records)
  BY <1>1 DEF Records
<1> QED BY <1>1, <1>2

(* What a save writes is its copy, the shared one, or the values in memory.       *)
LEMMA Sources ==
    ASSUME inst \in Installations, NEW r \in Records
    PROVE  \/ Is(r).source = "live" /\ \A t : Source(t, r) = live[r]
           \/ Is(r).source = "own" /\ \A t : Source(t, r) = job[t].copy
           \/ Is(r).source = "shared" /\ \A t : Source(t, r) = static[r]
<1>1. r \in DOMAIN Attributes
  BY Orders DEF Records
<1>2. Is(r).source \in {"live", "own", "shared"}
  BY <1>1 DEF Is, Attributes, Record, Metadata, Wifi, Leds, Display, Touch, Scale, Profiles, Charge,
              Servo, Motors, Tuning
<1> QED BY <1>2 DEF Source

(* It is of two pages,                                                        *)
LEMMA SourceCopy ==
    ASSUME Types, TaskInv, NEW t \in Tasks, job[t].step = "write", Mine(t) \in Records
    PROVE  Source(t, Mine(t)) \in Copy
<1>1. PICK r \in Records : r = Mine(t)
  OBVIOUS
<1>2. live[r] \in Copy /\ static[r] \in Copy /\ (Is(r).source = "own" => job[t].copy \in Copy)
  BY <1>1 DEF Types, TaskInv, TaskOK
<1>3. Source(t, r) \in Copy
  BY <1>2, Sources DEF Types
<1> QED BY <1>1, <1>3

(* and stays the same while what it is taken from does.                         *)
LEMMA SourceKept ==
    ASSUME inst \in Installations, NEW r \in Records, NEW u, job'[u].copy = job[u].copy,
           Is(r).source = "live" => live'[r] = live[r],
           Is(r).source = "shared" => static'[r] = static[r]
    PROVE  Source(u, r)' = Source(u, r)
<1>1. Is(r).source \in {"live", "own", "shared"}
  BY Sources
<1>2. CASE Is(r).source = "live"
  BY <1>2 DEF Source, Is
<1>3. CASE Is(r).source = "own"
  BY <1>3 DEF Source, Is
<1>4. CASE Is(r).source = "shared"
  BY <1>4 DEF Source, Is
<1> QED BY <1>1, <1>2, <1>3, <1>4

LEMMA StartTypes == ASSUME Types, TaskInv, Start PROVE Types' /\ Records' = Records
<1> USE DEF Types
<1>0. inst' = inst /\ Records' = Records /\ Copy' = Copy
  BY DEF Start, Load, LoadFails, Repair, boot, Records, order, memory
<1>1. Whole(Default) \in Copy /\ NoCopy \in Copy
  BY Wholes DEF Default, NoCopy, Erased
<1>2. CASE Load
  <2>1. Head(loading) \in Records /\ Tail(loading) \in Seq(Records)
    BY <1>2 DEF Load, Running
  <2> QED BY <1>0, <1>1, <1>2, <2>1 DEF Load, chip, counts
<1>3. CASE LoadFails
  <2>1. Head(loading) \in Records /\ Tail(loading) \in Seq(Records)
    BY <1>3 DEF LoadFails, Running
  <2> QED BY <1>0, <1>1, <1>3, <2>1 DEF LoadFails, chip, counts
<1>4. CASE Repair
  <2>1. Head(loading) \in Records /\ Tail(loading) \in Seq(Records)
    BY <1>4 DEF Repair, Running, TaskInv, BootInv
  <2>2. stored' \in [Records -> Copy] /\ saved' \in [Records -> Copy] /\ written' \in [Records -> Copy]
    BY <1>1, <1>4, <2>1 DEF Repair, Default
  <2>3. loading' \in Seq(Records)
    BY <1>4, <2>1 DEF Repair
  <2>4. repairing' \in {0, 1, 2}
    <3>1. repairing' = IF repairing = 2 THEN 0 ELSE repairing + 1
      BY <1>4, TwoPages DEF Repair
    <3> QED BY <1>4, <3>1 DEF Repair
  <2> QED BY <1>0, <1>4, <2>2, <2>3, <2>4 DEF Repair, chip, counts, memory
<1> QED BY <1>2, <1>3, <1>4 DEF Start

LEMMA EditTypes ==
    ASSUME Types, NEW r, NEW ps, Set(r, ps), UNCHANGED <<boot, static, chip>>
    PROVE  Types' /\ Records' = Records
<1> USE DEF Types, boot, chip
<1>0. inst' = inst /\ Records' = Records /\ Copy' = Copy
  BY DEF Records, order
<1>1. edits' \in Nat /\ edits + 2 \in Nat
  BY DEF Set
<1>2. live' \in [Records -> Copy]
  BY <1>1 DEF Set
<1> QED BY <1>0, <1>1, <1>2

LEMMA WriteTypes ==
    ASSUME Types, TaskInv, NEW t \in Tasks, WritePage(t)
    PROVE  Types' /\ Records' = Records
<1> USE DEF Types, boot, counts, memory
<1> DEFINE r == Mine(t)
           p == job[t].page
           src == Source(t, r)
<1>0. inst' = inst /\ Records' = Records /\ Copy' = Copy
  BY DEF Records, order, WritePage
<1>1. r \in Records => src \in Copy
  BY SourceCopy DEF WritePage
<1>2. p \in Pages
  BY DEF WritePage, TaskInv, TaskOK
<1>3. NoCopy \in Copy
  BY Wholes DEF NoCopy, Erased
<1> DEFINE s == IF p = Cardinality(Pages) /\ job[t].clean THEN src
                ELSE IF p = 1 \/ ~job[t].clean THEN NoCopy ELSE saved[r]
           w == IF p = Cardinality(Pages) THEN src ELSE written[r]
<1>4. stored' = [stored EXCEPT ![r][p] = src[p]] /\ saved' = [saved EXCEPT ![r] = s]
      /\ written' = [written EXCEPT ![r] = w]
  BY DEF WritePage, Mine
<1>5. r \in Records => s \in Copy /\ w \in Copy
  BY <1>1, <1>3
<1>6. inst' = inst /\ live' = live /\ static' = static /\ loading' = loading /\ repairing' = repairing /\ edits' = edits
  BY DEF WritePage
<1> HIDE DEF r, p, src, s, w
<1>7. stored' \in [Records -> Copy]
  BY <1>1, <1>2, <1>4
<1>8. saved' \in [Records -> Copy] /\ written' \in [Records -> Copy]
  BY <1>4, <1>5
<1> QED BY <1>0, <1>6, <1>7, <1>8

LEMMA EraseTypes ==
    ASSUME Types, NEW t \in Tasks, ErasePage(t)
    PROVE  Types' /\ Records' = Records
<1> USE DEF Types, boot, counts, memory
<1>0. inst' = inst /\ Records' = Records /\ Copy' = Copy
  BY DEF Records, order, ErasePage
<1> DEFINE r == order[((job[t].page - 1) \div Cardinality(Pages)) + 1]
           p == ((job[t].page - 1) % Cardinality(Pages)) + 1
<1>1. stored' = stored \/ stored' = [stored EXCEPT ![r][p] = Erased]
  BY DEF ErasePage
<1>2. NoCopy \in Copy
  BY Wholes DEF NoCopy, Erased
<1>3. /\ saved' = [s \in Records |-> NoCopy] /\ written' = written
      /\ live' = live /\ static' = static /\ loading' = loading /\ repairing' = repairing /\ edits' = edits
  BY DEF ErasePage
<1> HIDE DEF r, p
<1>4. stored' \in [Records -> Copy]
  <2>1. CASE stored' = [stored EXCEPT ![r][p] = Erased]
    <3>1. \A s \in Records : [stored[s] EXCEPT ![p] = Erased] \in Copy
      BY DEF Erased
    <3>2. PICK c : c = [stored[r] EXCEPT ![p] = Erased]
      OBVIOUS
    <3>3. stored' = [stored EXCEPT ![r] = c]
      BY <2>1, <3>2
    <3>4. r \in Records => c \in Copy
      BY <3>1, <3>2
    <3> QED BY <3>3, <3>4
  <2> QED BY <1>1, <2>1
<1> QED BY <1>0, <1>2, <1>3, <1>4

LEMMA PowerTypes == ASSUME Types, PowerOn PROVE Types' /\ Records' = Records
<1>1. Whole(Default) \in Copy /\ NoCopy \in Copy
  BY Wholes DEF Default, NoCopy, Erased
<1> QED BY <1>1, Orders DEF Types, PowerOn, chip, Records, order

LEMMA TypesKept ==
    ASSUME Types, UNCHANGED <<boot, memory, edits, stored, written>>,
           \/ saved' = saved
           \/ \E r : saved' = [saved EXCEPT ![r] = NoCopy]
    PROVE  Types' /\ Records' = Records
<1>1. NoCopy \in Copy
  BY Wholes DEF NoCopy, Erased
<1>2. inst' = inst /\ Records' = Records
  BY DEF boot, Records, order
<1>3. saved' \in [Records -> Copy]
  BY <1>1 DEF Types
<1> QED BY <1>2, <1>3 DEF boot, memory, Types

LEMMA TypesNext == ASSUME Types, TaskInv, [Next]_vars PROVE Types' /\ Records' = Records
<1>1. CASE Start
  BY <1>1, StartTypes
<1>2. CASE Request
  <2>1. CASE Configure
    BY <2>1, EditTypes DEF Configure
  <2>2. CASE MenuEdit
    BY <2>2, EditTypes DEF MenuEdit
  <2>3. CASE SystemControl \/ MenuExit
    BY <2>3, TypesKept DEF SystemControl, MenuExit, counts, chip
  <2> QED BY <1>2, <2>1, <2>2, <2>3 DEF Request
<1>3. ASSUME NEW t \in Tasks, Step(t) PROVE Types' /\ Records' = Records
  <2>1. CASE WritePage(t)
    BY <2>1, WriteTypes
  <2>2. CASE PageFails(t)
    BY <2>2, TypesKept DEF PageFails, boot
  <2>3. CASE ErasePage(t)
    BY <2>3, EraseTypes
  <2>4. CASE Reset(t)
    BY <2>4, PowerTypes DEF Reset
  <2>5. CASE AllSaved(t) \/ Take(t) \/ TakeTimesOut(t) \/ Respond(t)
    BY <2>5, TypesKept DEF AllSaved, Take, TakeTimesOut, Respond, counts, chip
  <2>6. CASE Compose(t)
    <3>1. static' = static \/ static' = [static EXCEPT ![Mine(t)] = live[Mine(t)]]
      BY <2>6 DEF Compose, Mine
    <3>2. static' \in [Records -> Copy]
      BY <3>1 DEF Types
    <3> QED BY <2>6, <3>2 DEF Compose, Types, boot, counts, chip, Records, order
  <2> QED BY <1>3, <2>1, <2>2, <2>3, <2>4, <2>5, <2>6 DEF Step
<1>4. CASE PowerLoss
  BY <1>4, PowerTypes DEF PowerLoss
<1>5. CASE UNCHANGED vars
  BY <1>5, TypesKept DEF vars, boot, memory
<1> QED BY <1>1, <1>2, <1>3, <1>4, <1>5 DEF Next

-----------------------------------------------------------------------------
LEMMA KeptTask ==
    ASSUME NEW u \in Tasks, TaskOK(u), Kept(u), mutex' = mutex, loading' = loading,
           Records' = Records
    PROVE  TaskOK(u)'
BY DEF TaskOK, Kept, Same, Mine, Running

(* What a task of the started device may be at, beside writing                  *)
LEMMA NewTask ==
    ASSUME NEW u \in Tasks, Running, loading' = loading, job'[u].step \notin {"take", "write"}
    PROVE  TaskOK(u)'
BY DEF TaskOK, Running

LEMMA KeptBoot ==
    ASSUME Running, BootInv, UNCHANGED boot PROVE BootInv'
BY DEF BootInv, boot, Running

LEMMA Busy ==
    ASSUME TaskInv, NEW t \in Tasks, job[t].step # "idle" PROVE Running
BY DEF TaskInv, TaskOK

LEMMA StartTasks == ASSUME Types, Shape, TaskInv, Start PROVE Shape' /\ TaskInv'
<1>1. job' = job /\ Shape' /\ \A t \in Tasks : job'[t].step = "idle"
  BY DEF Start, Load, LoadFails, Repair, TaskInv, TaskOK, BootInv, Shape
<1>2. \A t \in Tasks : TaskOK(t)'
  BY <1>1 DEF TaskOK
<1>3. BootInv'
  <2>1. CASE Load
    <3>1. Head(loading) \in Records
      BY <2>1 DEF Load, Types, Running
    <3> QED BY <2>1, <3>1 DEF Load, BootInv, Running, Types
  <2>2. CASE LoadFails
    BY <2>2 DEF LoadFails, BootInv
  <2>3. CASE Repair
    BY <2>3 DEF Repair, TaskInv, BootInv, Running, memory
  <2> QED BY <2>1, <2>2, <2>3 DEF Start
<1> QED BY <1>1, <1>2, <1>3 DEF TaskInv

LEMMA OthersTask ==
    ASSUME TaskInv, NEW t \in Tasks, Others(t), job[t].step # "idle" \/ Running, UNCHANGED boot,
           Records' = Records, TaskOK(t)',
           \A u \in Tasks : u # t => (mutex' = mutex \/ job[u].step # "write")
    PROVE  TaskInv'
<1>1. Running
  BY Busy
<1>2. ASSUME NEW u \in Tasks, u # t PROVE TaskOK(u)'
  BY <1>2 DEF TaskInv, TaskOK, Others, Mine, Running, boot
<1> QED BY <1>1, <1>2, KeptBoot DEF TaskInv

LEMMA TasksNext ==
    ASSUME Types, Shape, TaskInv, [Next]_vars PROVE Shape' /\ TaskInv'
<1>0. Records' = Records
  BY TypesNext
<1>a. UNCHANGED boot => loading' = loading
  BY DEF boot
<1>1. CASE Start
  BY <1>1, StartTasks
<1>2. CASE Configure
  <2>1. Running /\ UNCHANGED <<boot, mutex>>
    BY <1>2 DEF Configure
  <2>2. PICK r, todo : job' = [Edited(job, r) EXCEPT !["http"] = Begin(todo, FALSE, FALSE)]
    BY <1>2 DEF Configure
  <2>3. PICK k : k = Begin(todo, FALSE, FALSE)
    OBVIOUS
  <2>4. IsJob(k) /\ k.step = "compose"
    BY <2>3, JobMade DEF Begin
  <2>5. Shape' /\ job'["http"] = k /\ \A u \in Tasks : u # "http" => Kept(u)
    BY <2>2, <2>3, <2>4, ConfiguredJobs DEF Touched
  <2>6. \A u \in Tasks : TaskOK(u)'
    BY <1>0, <1>a, <2>1, <2>4, <2>5, KeptTask, NewTask DEF TaskInv
  <2> QED BY <2>1, <2>5, <2>6, KeptBoot DEF TaskInv
<1>3. CASE MenuEdit
  <2>1. Running /\ UNCHANGED <<boot, mutex>>
    BY <1>3 DEF MenuEdit
  <2>2. PICK r : job' = Edited(job, r)
    BY <1>3 DEF MenuEdit
  <2>3. Shape' /\ \A u \in Tasks : Kept(u)
    BY <2>2, EditedJobs DEF Touched
  <2>4. \A u \in Tasks : TaskOK(u)'
    BY <1>0, <1>a, <2>1, <2>3, KeptTask DEF TaskInv
  <2> QED BY <2>1, <2>3, <2>4, KeptBoot DEF TaskInv
<1>4. CASE SystemControl \/ MenuExit
  <2>1. Running /\ UNCHANGED <<boot, mutex>>
    BY <1>4 DEF SystemControl, MenuExit
  <2>t. PICK t \in Tasks : \E todo, erase, reset : job' = [job EXCEPT ![t] = Begin(todo, erase, reset)]
    BY <1>4 DEF SystemControl, MenuExit, Tasks
  <2>2. PICK todo, erase, reset : job' = [job EXCEPT ![t] = Begin(todo, erase, reset)]
    BY <2>t
  <2>3. Shape' /\ Others(t) /\ Begun(t)
    BY <2>2, RequestedJobs
  <2>4. TaskOK(t)'
    BY <1>a, <2>1, <2>3, NewTask DEF Begun
  <2> QED BY <1>0, <2>1, <2>3, <2>4, OthersTask
<1>5. ASSUME NEW t \in Tasks, Step(t) PROVE Shape' /\ TaskInv'
  <2>0. job[t].step # "idle" /\ Running
    BY <1>5, Busy DEF Step, Compose, AllSaved, Take, TakeTimesOut, WritePage, PageFails, ErasePage, Respond,
                       Reset
  <2>1. CASE Compose(t)
    <3>1. UNCHANGED <<boot, mutex>>
      BY <2>1 DEF Compose
    <3>2. /\ Shape' /\ job'[t].step = "take" /\ job'[t].todo = job[t].todo
          /\ Is(Mine(t)).source = "own" => job'[t].copy = live[Mine(t)]
          /\ \A u \in Tasks : u # t => Kept(u)
      BY <2>1, ComposedJobs DEF Recomposed
    <3>3. TaskOK(t)'
      BY <1>0, <2>0, <3>1, <3>2 DEF TaskOK, Mine, Is, Running, boot, Types
    <3>4. \A u \in Tasks : TaskOK(u)'
      BY <1>0, <1>a, <3>1, <3>2, <3>3, KeptTask DEF TaskInv
    <3> QED BY <2>0, <3>1, <3>2, <3>4, KeptBoot DEF TaskInv
  <2>8. CASE AllSaved(t)
    <3>1. UNCHANGED <<boot, mutex>>
      BY <2>8 DEF AllSaved
    <3>2. Shape' /\ Others(t) /\ job'[t].step \in {"erase", "respond"}
      BY <2>8, AllSavedJobs
    <3>3. TaskOK(t)'
      BY <1>a, <2>0, <3>1, <3>2, NewTask
    <3> QED BY <1>0, <2>0, <3>1, <3>2, <3>3, OthersTask
  <2>2. CASE Take(t)
    <3>1. UNCHANGED boot /\ mutex = NoOne /\ mutex' = t /\ job[t].step = "take"
      BY <2>2 DEF Take
    <3>2. /\ Shape' /\ Others(t) /\ job'[t].step = "write" /\ job'[t].page = 1
          /\ job'[t].todo = job[t].todo /\ job'[t].copy = job[t].copy
      BY <2>2, TakenJobs
    <3>3. TaskOK(t)'
      BY <1>0, <2>0, <3>1, <3>2 DEF TaskInv, TaskOK, Mine, Running, boot, Pages
    <3>4. \A u \in Tasks : job[u].step # "write"
      BY <3>1 DEF TaskInv, TaskOK, NoOne, Tasks
    <3> QED BY <1>0, <2>0, <3>1, <3>2, <3>3, <3>4, OthersTask
  <2>3. CASE TakeTimesOut(t) \/ PageFails(t)
    <3>1. UNCHANGED boot /\ job' = [job EXCEPT ![t] = NextRecord(job[t])]
      BY <2>3 DEF TakeTimesOut, PageFails
    <3>2. Shape' /\ Others(t) /\ job'[t].step = "compose"
      BY <3>1, GivenUpJobs
    <3>3. TaskOK(t)'
      BY <1>a, <2>0, <3>1, <3>2, NewTask
    <3>4. mutex' = mutex \/ \A u \in Tasks : u # t => job[u].step # "write"
      BY <2>3 DEF TakeTimesOut, PageFails, TaskInv, TaskOK
    <3> QED BY <1>0, <2>0, <3>1, <3>2, <3>3, <3>4, OthersTask
  <2>4. CASE WritePage(t)
    <3>1. UNCHANGED boot /\ job[t].step = "write" /\ job[t].page \in {1, 2}
      BY <2>4, TwoPages DEF WritePage, TaskInv, TaskOK
    <3>2. CASE job[t].page = 2
      <4>1. job' = [job EXCEPT ![t] = NextRecord(job[t])]
        BY <2>4, <3>2, TwoPages DEF WritePage
      <4>2. Shape' /\ Others(t) /\ job'[t].step = "compose"
        BY <4>1, GivenUpJobs
      <4>3. TaskOK(t)'
        BY <1>a, <2>0, <3>1, <4>2, NewTask
      <4>4. \A u \in Tasks : u # t => job[u].step # "write"
        BY <3>1 DEF TaskInv, TaskOK
      <4> QED BY <1>0, <2>0, <3>1, <4>2, <4>3, <4>4, OthersTask
    <3>3. CASE job[t].page = 1
      <4>1. job' = [job EXCEPT ![t].page = 2] /\ mutex' = mutex
        BY <2>4, <3>3, TwoPages DEF WritePage
      <4>2. /\ Shape' /\ Others(t)
            /\ job'[t].step = job[t].step /\ job'[t].todo = job[t].todo
            /\ job'[t].copy = job[t].copy /\ job'[t].page = 2
        BY <4>1, PagedJobs
      <4>3. TaskOK(t)'
        BY <1>0, <1>a, <3>1, <4>1, <4>2, TwoPages DEF TaskInv, TaskOK, Mine, Running
      <4> QED BY <1>0, <2>0, <3>1, <4>1, <4>2, <4>3, OthersTask
    <3> QED BY <3>1, <3>2, <3>3
  <2>5. CASE ErasePage(t)
    <3>1. UNCHANGED <<boot, mutex>>
      BY <2>5 DEF ErasePage
    <3>2. /\ Shape' /\ job'[t].step \in {"erase", "reset", "respond"}
          /\ \A u \in Tasks : u # t => Kept(u)
      BY <2>5, ErasedJobs DEF Spoilt
    <3>3. \A u \in Tasks : TaskOK(u)'
      BY <1>0, <1>a, <2>0, <3>1, <3>2, KeptTask, NewTask DEF TaskInv
    <3> QED BY <2>0, <3>1, <3>2, <3>3, KeptBoot DEF TaskInv
  <2>6. CASE Respond(t)
    <3>1. UNCHANGED <<boot, mutex>>
      BY <2>6 DEF Respond
    <3>2. Shape' /\ Others(t) /\ job'[t].step \in {"reset", "idle"}
      BY <2>6, RespondedJobs
    <3>3. TaskOK(t)'
      BY <1>a, <2>0, <3>1, <3>2, NewTask
    <3> QED BY <1>0, <2>0, <3>1, <3>2, <3>3, OthersTask
  <2>7. CASE Reset(t)
    BY <2>7, AllIdle DEF Reset, PowerOn, TaskInv, TaskOK, BootInv
  <2> QED BY <1>5, <2>1, <2>2, <2>3, <2>4, <2>5, <2>6, <2>7, <2>8 DEF Step
<1>6. CASE PowerLoss
  BY <1>6, AllIdle DEF PowerLoss, PowerOn, TaskInv, TaskOK, BootInv
<1>7. CASE UNCHANGED vars
  <2>1. UNCHANGED <<boot, live, mutex, job>>
    BY <1>7 DEF vars, boot
  <2>2. BootInv'
    BY <2>1 DEF TaskInv, BootInv, boot, Running
  <2>3. Shape' /\ \A u \in Tasks : TaskOK(u)'
    BY <1>0, <1>a, <2>1, AllTheSame, KeptTask DEF TaskInv
  <2> QED BY <2>2, <2>3 DEF TaskInv
<1> QED BY <1>1, <1>2, <1>3, <1>4, <1>5, <1>6, <1>7 DEF Next, Request

-----------------------------------------------------------------------------
(* What the steps do to the promises.                                        *)
LEMMA Pieces ==
    ASSUME NEW c \in Copy, NEW d \in Copy, c[1] = d[1], c[2] = d[2] PROVE c = d
BY TwoPages

LEMMA KeptSave ==
    ASSUME NEW u \in Tasks, SaveOK(u), Kept(u), UNCHANGED <<memory, stored, saved>>,
           Records' = Records
    PROVE  SaveOK(u)'
BY DEF SaveOK, Kept, Same, Mine, Source, Is, memory

LEMMA NewSave ==
    ASSUME NEW u \in Tasks, job'[u].step # "write" \/ job'[u].page = 1 PROVE SaveOK(u)'
BY DEF SaveOK

LEMMA KeptPromises ==
    ASSUME SavedStays, UNCHANGED <<stored, saved>>, Records' = Records PROVE SavedStays'
BY DEF SavedStays, NoCopy

LEMMA EditSave ==
    ASSUME Types, NEW u \in Tasks, SaveOK(u), NEW r, NEW ps, Touched(u, r), Set(r, ps),
           UNCHANGED <<static, chip>>, Records' = Records
    PROVE  SaveOK(u)'
<1> SUFFICES ASSUME job'[u].step = "write", job'[u].page = 2, Mine(u)' \in Records
             PROVE  /\ saved'[Mine(u)'] = NoCopy
                    /\ job'[u].clean => stored'[Mine(u)'][1] = Source(u, Mine(u))'[1]
  BY DEF SaveOK, NoCopy
<1>1. Mine(u)' = Mine(u) /\ job[u].step = "write" /\ job[u].page = 2 /\ job'[u].copy = job[u].copy
  BY DEF Touched, Kept, Same, Mine
<1>2. stored' = stored /\ saved' = saved
  BY DEF chip
<1>3. ASSUME job'[u].clean
      PROVE  job[u].clean /\ (Is(Mine(u)).source # "live" \/ live'[Mine(u)] = live[Mine(u)])
  BY <1>1, <1>3 DEF Touched, Kept, Mine, Set, Types
<1>4. PICK r1 \in Records : r1 = Mine(u)
  BY <1>1
<1>5. ASSUME job'[u].clean PROVE Source(u, r1)' = Source(u, r1)
  BY <1>1, <1>3, <1>4, <1>5, SourceKept DEF Types
<1>6. Source(u, Mine(u))' = Source(u, r1)' /\ Source(u, Mine(u)) = Source(u, r1)
  BY <1>1, <1>4
<1> QED BY <1>1, <1>2, <1>3, <1>4, <1>5, <1>6 DEF SaveOK

LEMMA ComposedSave ==
    ASSUME Types, NEW u \in Tasks, SaveOK(u), NEW r, Recomposed(u, r), UNCHANGED <<live, chip>>,
           Records' = Records
    PROVE  SaveOK(u)'
<1> SUFFICES ASSUME job'[u].step = "write", job'[u].page = 2, Mine(u)' \in Records
             PROVE  /\ saved'[Mine(u)'] = NoCopy
                    /\ job'[u].clean => stored'[Mine(u)'][1] = Source(u, Mine(u))'[1]
  BY DEF SaveOK, NoCopy
<1>1. Mine(u)' = Mine(u) /\ job[u].step = "write" /\ job[u].page = 2 /\ job'[u].copy = job[u].copy
  BY DEF Recomposed, Kept, Same, Mine
<1>2. stored' = stored /\ saved' = saved
  BY DEF chip
<1>3. ASSUME job'[u].clean PROVE job[u].clean /\ static'[Mine(u)] = static[Mine(u)]
  BY <1>1, <1>3 DEF Recomposed, Told, Kept, Types
<1>4. PICK r1 \in Records : r1 = Mine(u)
  BY <1>1
<1>5. ASSUME job'[u].clean PROVE Source(u, r1)' = Source(u, r1)
  BY <1>1, <1>3, <1>4, <1>5, SourceKept DEF Types
<1>6. Source(u, Mine(u))' = Source(u, r1)' /\ Source(u, Mine(u)) = Source(u, r1)
  BY <1>1, <1>4
<1> QED BY <1>1, <1>2, <1>3, <1>4, <1>5, <1>6 DEF SaveOK

LEMMA OthersSave ==
    ASSUME Types, SaveInv, NEW t \in Tasks, Others(t), UNCHANGED <<memory, stored, saved>>,
           Records' = Records, job'[t].step # "write" \/ job'[t].page = 1
    PROVE  SaveInv'
<1>1. ASSUME NEW u \in Tasks, u # t PROVE SaveOK(u)'
  <2>1. Kept(u)
    BY <1>1 DEF Others, Kept, Same
  <2> QED BY <2>1, KeptSave DEF SaveInv
<1> QED BY <1>1, NewSave, KeptPromises DEF SaveInv

LEMMA WriteSave ==
    ASSUME Types, Types', Shape, TaskInv, SaveInv, NEW t \in Tasks, WritePage(t), Records' = Records
    PROVE  SaveInv'
<1> DEFINE r == Mine(t)
           src == Source(t, r)
<1>1. job[t].step = "write" /\ job[t].page \in {1, 2} /\ memory' = memory
  BY TwoPages DEF WritePage, TaskInv, TaskOK
<1>2. ASSUME NEW u \in Tasks, u # t PROVE job[u].step # "write"
  BY <1>1, <1>2 DEF TaskInv, TaskOK
<1>3. r \in Records => src \in Copy
  BY <1>1, SourceCopy
<1>4. \A s \in Records : s # r => saved'[s] = saved[s] /\ stored'[s] = stored[s]
  BY DEF WritePage, Types, Mine
<1>5. CASE job[t].page = 1
  <2>1. r \in Records => saved'[r] = NoCopy /\ stored'[r][1] = src[1]
    <3>1. stored' = [stored EXCEPT ![r][1] = src[1]] /\ saved' = [saved EXCEPT ![r] = NoCopy]
      BY <1>5, TwoPages DEF WritePage, Mine
    <3> HIDE DEF r, src
    <3> QED BY <3>1, TwoPages DEF Types
  <2>2. job' = [job EXCEPT ![t].page = 2]
    BY <1>5, TwoPages DEF WritePage
  <2>3. /\ Others(t) /\ job'[t].todo = job[t].todo /\ job'[t].copy = job[t].copy
    BY <2>2, PagedJobs
  <2>4. SaveOK(t)'
    BY <1>1, <2>1, <2>3 DEF SaveOK, Mine, Source, Is, NoCopy, memory
  <2>5. ASSUME NEW u \in Tasks, u # t PROVE SaveOK(u)'
    BY <1>2, <2>3, <2>5 DEF SaveOK, Others
  <2>6. SavedStays'
    BY <1>4, <2>1 DEF SaveInv, SavedStays, NoCopy
  <2> QED BY <2>4, <2>5, <2>6 DEF SaveInv
<1>6. CASE job[t].page = 2
  <2>1. ASSUME r \in Records PROVE saved'[r] # NoCopy => stored'[r] = saved'[r]
    <3>1. /\ stored'[r][2] = src[2] /\ stored'[r][1] = stored[r][1]
          /\ saved'[r] = IF job[t].clean THEN src ELSE NoCopy
      <4>1. stored' = [stored EXCEPT ![r][2] = src[2]]
        BY <1>6 DEF WritePage, Mine
      <4>2. saved' = [saved EXCEPT ![r] = IF job[t].clean THEN src ELSE NoCopy]
        BY <1>6, TwoPages DEF WritePage, Mine
      <4> HIDE DEF r, src
      <4>3. stored[r] \in Copy
        BY <2>1 DEF Types
      <4>4. stored'[r] = [stored[r] EXCEPT ![2] = src[2]]
        BY <2>1, <4>1 DEF Types
      <4>5. saved'[r] = IF job[t].clean THEN src ELSE NoCopy
        BY <2>1, <4>2 DEF Types
      <4> QED BY <4>3, <4>4, <4>5, TwoPages
    <3>2. job[t].clean => stored[r][1] = src[1]
      BY <1>1, <1>6, <2>1 DEF SaveInv, SaveOK
    <3>3. stored'[r] \in Copy
      BY <2>1 DEF Types
    <3> HIDE DEF src
    <3> QED BY <1>3, <2>1, <3>1, <3>2, <3>3, Pieces
  <2>2. job' = [job EXCEPT ![t] = NextRecord(job[t])]
    BY <1>6, TwoPages DEF WritePage
  <2>3. Others(t) /\ job'[t].step = "compose"
    BY <2>2, GivenUpJobs
  <2>5. ASSUME NEW u \in Tasks PROVE SaveOK(u)'
    BY <1>2, <2>3, <2>5 DEF SaveOK, Others
  <2>6. SavedStays'
    BY <1>4, <2>1 DEF SaveInv, SavedStays, NoCopy
  <2> QED BY <2>5, <2>6 DEF SaveInv
<1> QED BY <1>1, <1>5, <1>6

LEMMA SaveNext ==
    ASSUME Types, Shape, TaskInv, SaveInv, [Next]_vars PROVE SaveInv'
<1>0. Types' /\ Records' = Records
  BY TypesNext
<1>1. CASE Start
  <2>1. job' = job /\ \A t \in Tasks : job[t].step = "idle"
    BY <1>1 DEF Start, Load, LoadFails, Repair, TaskInv, TaskOK, BootInv
  <2>2. \A u \in Tasks : SaveOK(u)'
    BY <2>1 DEF SaveOK
  <2>3. SavedStays'
    <3>1. CASE Load \/ LoadFails
      BY <1>0, <3>1, KeptPromises DEF Load, LoadFails, chip, SaveInv
    <3>2. CASE Repair
      BY <1>0, <3>2 DEF Repair, Types, SaveInv, SavedStays, NoCopy
    <3> QED BY <1>1, <3>1, <3>2 DEF Start
  <2> QED BY <2>2, <2>3 DEF SaveInv
<1>2. CASE Configure
  <2>1. UNCHANGED <<static, chip>>
    BY <1>2 DEF Configure
  <2>2. PICK r, ps, todo : /\ job' = [Edited(job, r) EXCEPT !["http"] = Begin(todo, FALSE, FALSE)]
                           /\ Set(r, ps)
    BY <1>2 DEF Configure
  <2>3. PICK k : k = Begin(todo, FALSE, FALSE)
    OBVIOUS
  <2>4. IsJob(k) /\ k.step = "compose"
    BY <2>3, JobMade DEF Begin
  <2>5. job'["http"] = k /\ \A u \in Tasks : u # "http" => Touched(u, r)
    BY <2>2, <2>3, <2>4, ConfiguredJobs
  <2>6. \A u \in Tasks : SaveOK(u)'
    BY <1>0, <2>1, <2>2, <2>4, <2>5, EditSave, NewSave DEF SaveInv
  <2> QED BY <1>0, <2>1, <2>6, KeptPromises DEF SaveInv, chip
<1>3. CASE MenuEdit
  <2>1. UNCHANGED <<static, chip>>
    BY <1>3 DEF MenuEdit
  <2>2. PICK r, ps : job' = Edited(job, r) /\ Set(r, ps)
    BY <1>3 DEF MenuEdit
  <2>3. \A u \in Tasks : Touched(u, r)
    BY <2>2, EditedJobs
  <2>4. \A u \in Tasks : SaveOK(u)'
    BY <1>0, <2>1, <2>2, <2>3, EditSave DEF SaveInv
  <2> QED BY <1>0, <2>1, <2>4, KeptPromises DEF SaveInv, chip
<1>4. CASE SystemControl \/ MenuExit
  <2>1. UNCHANGED <<memory, stored, saved>>
    BY <1>4 DEF SystemControl, MenuExit, chip
  <2>t. PICK t \in Tasks : \E todo, erase, reset : job' = [job EXCEPT ![t] = Begin(todo, erase, reset)]
    BY <1>4 DEF SystemControl, MenuExit, Tasks
  <2>2. PICK todo, erase, reset : job' = [job EXCEPT ![t] = Begin(todo, erase, reset)]
    BY <2>t
  <2>3. Others(t) /\ Begun(t)
    BY <2>2, RequestedJobs
  <2> QED BY <1>0, <2>1, <2>3, OthersSave DEF Begun
<1>5. ASSUME NEW t \in Tasks, Step(t) PROVE SaveInv'
  <2>1. CASE Compose(t)
    <3>1. UNCHANGED <<live, chip>>
      BY <2>1 DEF Compose
    <3>2. job'[t].step # "write" /\ \A u \in Tasks : u # t => Recomposed(u, Mine(t))
      BY <2>1, ComposedJobs
    <3>3. \A u \in Tasks : SaveOK(u)'
      BY <1>0, <3>1, <3>2, ComposedSave, NewSave DEF SaveInv
    <3> QED BY <1>0, <3>1, <3>3, KeptPromises DEF SaveInv, chip
  <2>9. CASE AllSaved(t)
    <3>1. UNCHANGED <<memory, stored, saved>>
      BY <2>9 DEF AllSaved, chip
    <3>2. Others(t) /\ job'[t].step # "write"
      BY <2>9, AllSavedJobs
    <3> QED BY <1>0, <3>1, <3>2, OthersSave
  <2>2. CASE Take(t)
    <3>1. UNCHANGED <<memory, stored, saved>>
      BY <2>2 DEF Take, chip
    <3>2. Others(t) /\ job'[t].page = 1
      BY <2>2, TakenJobs
    <3> QED BY <1>0, <3>1, <3>2, OthersSave
  <2>3. CASE TakeTimesOut(t)
    <3>1. UNCHANGED <<memory, stored, saved>> /\ job' = [job EXCEPT ![t] = NextRecord(job[t])]
      BY <2>3 DEF TakeTimesOut, chip
    <3>2. Others(t) /\ job'[t].step # "write"
      BY <3>1, GivenUpJobs
    <3> QED BY <1>0, <3>1, <3>2, OthersSave
  <2>4. CASE WritePage(t)
    BY <1>0, <2>4, WriteSave
  <2>5. CASE PageFails(t)
    <3>1. job' = [job EXCEPT ![t] = NextRecord(job[t])] /\ job[t].step = "write"
      BY <2>5 DEF PageFails
    <3>2. Others(t) /\ job'[t].step # "write"
      BY <3>1, GivenUpJobs
    <3>3. ASSUME NEW u \in Tasks PROVE SaveOK(u)'
      BY <3>1, <3>2 DEF SaveOK, Others, TaskInv, TaskOK
    <3>4. SavedStays'
      BY <1>0, <2>5 DEF PageFails, Types, SaveInv, SavedStays, NoCopy
    <3> QED BY <3>3, <3>4 DEF SaveInv
  <2>6. CASE ErasePage(t)
    <3>1. job'[t].step # "write" /\ \A u \in Tasks : u # t => Spoilt(u)
      BY <2>6, ErasedJobs
    <3>2. saved' = [s \in Records |-> NoCopy]
      BY <2>6 DEF ErasePage
    <3>3. ASSUME NEW u \in Tasks PROVE SaveOK(u)'
      BY <1>0, <3>1, <3>2 DEF SaveOK, Spoilt, Kept, NoCopy
    <3>4. SavedStays'
      BY <1>0, <3>2 DEF SavedStays, NoCopy
    <3> QED BY <3>3, <3>4 DEF SaveInv
  <2>7. CASE Respond(t)
    <3>1. UNCHANGED <<memory, stored, saved>>
      BY <2>7 DEF Respond, chip
    <3>2. Others(t) /\ job'[t].step # "write"
      BY <2>7, RespondedJobs
    <3> QED BY <1>0, <3>1, <3>2, OthersSave
  <2>8. CASE Reset(t)
    <3>1. UNCHANGED chip /\ \A u \in Tasks : job'[u].step = "idle"
      BY <2>8, AllIdle DEF Reset, PowerOn
    <3> QED BY <1>0, <3>1, NewSave, KeptPromises DEF SaveInv, chip
  <2> QED BY <1>5, <2>1, <2>2, <2>3, <2>4, <2>5, <2>6, <2>7, <2>8, <2>9 DEF Step
<1>6. CASE PowerLoss
  <2>1. UNCHANGED chip /\ \A u \in Tasks : job'[u].step = "idle"
    BY <1>6, AllIdle DEF PowerLoss, PowerOn
  <2> QED BY <1>0, <2>1, NewSave, KeptPromises DEF SaveInv, chip
<1>7. CASE UNCHANGED vars
  <2>1. UNCHANGED <<memory, job, stored, saved>>
    BY <1>7 DEF vars, memory
  <2> QED BY <1>0, <2>1, AllTheSame, KeptSave, KeptPromises DEF SaveInv
<1> QED BY <1>1, <1>2, <1>3, <1>4, <1>5, <1>6, <1>7 DEF Next, Request

-----------------------------------------------------------------------------
StoreInv == Types /\ Shape /\ TaskInv /\ SaveInv

LEMMA StoreInit == Init => StoreInv
<1> SUFFICES ASSUME Init PROVE StoreInv
  OBVIOUS
<1>1. Whole(Default) \in Copy /\ Whole(Erased) \in Copy /\ NoCopy \in Copy
  BY Wholes DEF Default, Erased, NoCopy
<1>2. Types
  BY <1>1, Orders DEF Init, Types
<1>3. Shape /\ \A t \in Tasks : job[t].step = "idle"
  BY JobMade DEF Init, Shape, Idle
<1>4. TaskInv
  BY <1>3 DEF TaskInv, TaskOK, BootInv, Init
<1>5. SaveInv
  BY <1>3 DEF SaveInv, SaveOK, SavedStays, Init
<1> QED BY <1>2, <1>3, <1>4, <1>5 DEF StoreInv

LEMMA StoreNext == StoreInv /\ [Next]_vars => StoreInv'
BY TypesNext, TasksNext, SaveNext DEF StoreInv

LEMMA StoreAlways == Spec => []StoreInv
BY StoreInit, StoreNext, PTL DEF Spec

(* What a save promised stays in the EEPROM until somebody writes that record    *)
(* again or erases: of any records, whichever page fails, whatever two tasks     *)
(* save and edit at once, and whenever the power goes (the access mutex of        *)
(* eeprom_write, and the copies the save functions take, share or do not take).   *)
(* A save of which the values, or the shared copy, changed between its pages      *)
(* promises nothing.                                                        *)
THEOREM SavedCorrect == Spec => []SavedStays
BY StoreAlways, PTL DEF StoreInv, SaveInv

-----------------------------------------------------------------------------
(* What a step may do to a page, in the EEPROM and in memory, of a record that   *)
(* is written straight from memory                                          *)
InPlace(r) == Is(r).source = "live"

PageMoves(r, p) == stored'[r][p] \in {stored[r][p], Erased, live[r][p]}

ValueMoves(r, p) ==
    \/ live'[r][p] = live[r][p] /\ edits' = edits
    \/ live'[r][p] \in {Default, stored[r][p]} /\ edits' = edits /\ stored' = stored
    \/ live'[r][p] \in {live[r][p], edits + 2} /\ edits' = edits + 1 /\ stored' = stored

LEMMA ErasedPages ==
    ASSUME Types, NEW t \in Tasks, ErasePage(t), NEW r \in Records, NEW p \in Pages
    PROVE  stored'[r][p] \in {stored[r][p], Erased}
<1> DEFINE s == order[((job[t].page - 1) \div Cardinality(Pages)) + 1]
           q == ((job[t].page - 1) % Cardinality(Pages)) + 1
<1>1. stored' = stored \/ stored' = [stored EXCEPT ![s][q] = Erased]
  BY DEF ErasePage
<1> HIDE DEF s, q
<1>2. CASE stored' = [stored EXCEPT ![s][q] = Erased]
  <2>1. PICK c : c = [stored[s] EXCEPT ![q] = Erased]
    OBVIOUS
  <2>2. stored' = [stored EXCEPT ![s] = c]
    BY <1>2, <2>1
  <2>3. s = r => c[p] \in {stored[r][p], Erased}
    BY <2>1 DEF Types
  <2> QED BY <2>2, <2>3 DEF Types
<1> QED BY <1>1, <1>2

LEMMA WrittenPages ==
    ASSUME Types, TaskInv, NEW t \in Tasks, WritePage(t), NEW r \in Records, NEW p \in Pages
    PROVE  stored'[r][p] = stored[r][p]
           \/ (r = Mine(t) /\ p = job[t].page /\ stored'[r][p] = Source(t, r)[p])
<1> DEFINE s == Mine(t)
           n == job[t].page
           v == Source(t, s)[n]
<1>1. stored' = [stored EXCEPT ![s][n] = v]
  BY DEF WritePage, Mine
<1>2. s = r /\ n = p => v = Source(t, r)[p]
  OBVIOUS
<1> HIDE DEF s, n, v
<1>3. PICK c : c = [stored[s] EXCEPT ![n] = v]
  OBVIOUS
<1>4. stored' = [stored EXCEPT ![s] = c]
  BY <1>1, <1>3
<1>5. s = r => c[p] = IF n = p THEN v ELSE stored[r][p]
  BY <1>3 DEF Types
<1>6. stored'[r] = IF s = r THEN c ELSE stored[r]
  BY <1>4 DEF Types
<1>7. stored'[r][p] = IF s = r /\ n = p THEN v ELSE stored[r][p]
  BY <1>5, <1>6
<1> QED BY <1>2, <1>7 DEF s, n

LEMMA StepMoves ==
    ASSUME Types, TaskInv, Shape, [Next]_vars, NEW r \in Records, InPlace(r), NEW p \in Pages
    PROVE  PageMoves(r, p) /\ ValueMoves(r, p)
<1> USE DEF PageMoves, ValueMoves
<1>1. CASE Load \/ LoadFails
  <2>1. UNCHANGED <<stored, edits>>
    BY <1>1 DEF Load, LoadFails, chip, counts
  <2>2. live'[r][p] \in {live[r][p], Default, stored[r][p]}
    <3>1. live'[r] \in {live[r], Whole(Default), stored[r]}
      BY <1>1 DEF Load, LoadFails, Types
    <3> QED BY <3>1 DEF Whole
  <2> QED BY <2>1, <2>2
<1>2. CASE Repair
  <2>1. UNCHANGED <<live, edits>>
    BY <1>2 DEF Repair, counts, memory
  <2>2. live[Head(loading)][p] = Default
    BY <1>2 DEF Repair, TaskInv, BootInv, Whole
  <2>3. stored'[r][p] \in {stored[r][p], Default} /\ (stored'[r] # stored[r] => r = Head(loading))
    BY <1>2 DEF Repair, Types
  <2> QED BY <2>1, <2>2, <2>3
<1>3. ASSUME NEW s, NEW ps, Set(s, ps), UNCHANGED chip PROVE PageMoves(r, p) /\ ValueMoves(r, p)
  BY <1>3 DEF Set, chip, Types
<1>4. CASE UNCHANGED <<stored, live, edits>>
  BY <1>4
<1>5. ASSUME NEW t \in Tasks, Step(t) PROVE PageMoves(r, p) /\ ValueMoves(r, p)
  <2>1. CASE WritePage(t)
    <3>1. stored'[r][p] \in {stored[r][p], live[r][p]}
      BY <2>1, WrittenPages DEF Source, InPlace
    <3> QED BY <2>1, <3>1 DEF WritePage, counts, memory
  <2>2. CASE ErasePage(t)
    <3>1. stored'[r][p] \in {stored[r][p], Erased}
      BY <2>2, ErasedPages
    <3> QED BY <2>2, <3>1 DEF ErasePage, memory
  <2>3. CASE Reset(t)
    BY <2>3 DEF Reset, PowerOn, Whole, chip
  <2>4. CASE PageFails(t)
    BY <2>4 DEF PageFails, memory
  <2>5. CASE Compose(t) \/ AllSaved(t) \/ Take(t) \/ TakeTimesOut(t) \/ Respond(t)
    BY <1>4, <2>5 DEF Compose, AllSaved, Take, TakeTimesOut, Respond, chip, counts, memory
  <2> QED BY <1>5, <2>1, <2>2, <2>3, <2>4, <2>5 DEF Step
<1>6. CASE PowerLoss
  BY <1>6 DEF PowerLoss, PowerOn, Whole, chip
<1>7. CASE SystemControl \/ MenuExit \/ UNCHANGED vars
  BY <1>4, <1>7 DEF SystemControl, MenuExit, chip, counts, memory, vars
<1>8. CASE Configure \/ MenuEdit
  BY <1>3, <1>8 DEF Configure, MenuEdit
<1> QED BY <1>1, <1>2, <1>5, <1>6, <1>7, <1>8 DEF Next, Request, Start

(* The value in memory is the default, or not older than that in the EEPROM.     *)
Newest(r, p) ==
    /\ live[r][p] <= edits + 1 /\ stored[r][p] <= edits + 1
    /\ live[r][p] = Default \/ stored[r][p] <= live[r][p]

NewestInv == \A r \in Records : InPlace(r) => \A p \in Pages : Newest(r, p)

LEMMA NewestNext == StoreInv /\ NewestInv /\ [Next]_vars => NewestInv'
<1> SUFFICES ASSUME StoreInv, NewestInv, [Next]_vars PROVE NewestInv'
  OBVIOUS
<1>1. Types' /\ Records' = Records /\ Types
  BY TypesNext DEF StoreInv
<1>2. ASSUME NEW r \in Records, InPlace(r), NEW p \in Pages PROVE Newest(r, p)'
  <2>1. PageMoves(r, p) /\ ValueMoves(r, p)
    BY <1>2, StepMoves DEF StoreInv
  <2>2. live[r][p] \in Nat /\ stored[r][p] \in Nat /\ edits \in Nat
    BY <1>1 DEF Types
  <2>3. Newest(r, p)
    BY <1>2 DEF NewestInv
  <2> QED BY <2>1, <2>2, <2>3 DEF PageMoves, ValueMoves, Newest, Erased, Default
<1> QED BY <1>1, <1>2 DEF NewestInv, InPlace, Is

LEMMA NewestInit == Init => NewestInv
BY DEF Init, NewestInv, Newest, Whole, Erased, Default

LEMMA PlacedInMemory == \A r \in WrittenInPlace : InPlace(r)
BY DEF WrittenInPlace, InPlace, Is, Attributes, Record, Metadata, Leds, Display, Touch, Scale,
       Profiles, Charge, Servo

(* A save of a record that is written straight from memory never puts an older    *)
(* version over a newer one, however the saves of two tasks interleave, but for    *)
(* the defaults that are in use when the newer was never loaded (the save       *)
(* functions that pass the live structure to eeprom_write).                     *)
THEOREM NoRollbackCorrect == Spec => NoRollback
<1> DEFINE Forward == \A r \in Records \cap WrittenInPlace : \A p \in Pages :
                         stored'[r][p] < stored[r][p] => stored'[r][p] \in {Erased, Default}
<1>1. StoreInv /\ NewestInv /\ [Next]_vars => [Forward]_vars
  <2> SUFFICES ASSUME StoreInv, NewestInv, [Next]_vars,
                      NEW r \in Records \cap WrittenInPlace, NEW p \in Pages,
                      stored'[r][p] < stored[r][p]
               PROVE  stored'[r][p] \in {Erased, Default}
    OBVIOUS
  <2>1. InPlace(r)
    BY PlacedInMemory
  <2>2. PageMoves(r, p)
    BY <2>1, StepMoves DEF StoreInv
  <2>3. stored[r][p] \in Nat /\ live[r][p] \in Nat
    BY DEF StoreInv, Types
  <2>4. Newest(r, p)
    BY <2>1 DEF NewestInv
  <2> QED BY <2>2, <2>3, <2>4 DEF PageMoves, Newest
<1>2. Spec => []NewestInv
  BY StoreAlways, NewestInit, NewestNext, PTL DEF Spec
<1> QED BY <1>1, <1>2, StoreAlways, PTL DEF Spec, NoRollback

-----------------------------------------------------------------------------
(* The records with a checksum: every edit is of all their pages, so that what    *)
(* is in memory and what a save copied is of one version; and the second page in   *)
(* the EEPROM, which is written last, is that of the last copy that was written    *)
(* whole.                                                                  *)
OneVersion(c) == c[1] = c[2]

CopiedOnce(t) ==
    /\ job[t].step \in {"take", "write"} /\ Mine(t) \in Records
    /\ Is(Mine(t)).checked /\ Is(Mine(t)).source = "own"
    => OneVersion(job[t].copy)

SecondIsLast(r) == stored[r][2] # Erased => written[r] = Whole(stored[r][2])

WholeInv ==
    /\ \A r \in Records : Is(r).checked => OneVersion(live[r]) /\ SecondIsLast(r)
    /\ \A t \in Tasks : CopiedOnce(t)

LEMMA CheckedEdits == \A e \in Endpoints : Is(e.record).checked => e.pages = Pages
BY DEF Endpoints, Endpoint, Is, Attributes, Record, Wifi, Leds, Display, Scale, Charge, Servo, Tuning,
       Motors, Profiles, WirelessConfig, LedConfig, DisplayConfig, ScaleConfig, ChargeConfig,
       ServoConfig, TuningConfig, CoarseMotorConfig, FineMotorConfig, ProfileConfig, ProfileReset

LEMMA CheckedOwn ==
    ASSUME inst \in Installations, NEW r \in Records, Is(r).checked PROVE Is(r).source = "own"
<1>1. r \in DOMAIN Attributes
  BY Orders DEF Records
<1> QED BY <1>1 DEF Is, Attributes, Record, Metadata, Wifi, Leds, Display, Touch, Scale, Profiles,
                    Charge, Servo, Motors, Tuning

LEMMA WholeCopy == ASSUME NEW c \in Copy, OneVersion(c) PROVE c = Whole(c[1]) /\ c = Whole(c[2])
<1>1. c = [p \in Pages |-> c[p]] /\ \A p \in Pages : c[p] = c[1]
  BY TwoPages DEF OneVersion
<1> QED BY <1>1 DEF Whole, OneVersion

LEMMA KeptCopy ==
    ASSUME NEW u \in Tasks, CopiedOnce(u), Kept(u), Records' = Records PROVE CopiedOnce(u)'
BY DEF CopiedOnce, Kept, Same, Mine, OneVersion, Is

LEMMA NewCopy ==
    ASSUME NEW u \in Tasks, job'[u].step \notin {"take", "write"} PROVE CopiedOnce(u)'
BY DEF CopiedOnce

LEMMA OthersCopy ==
    ASSUME WholeInv, NEW t \in Tasks, Others(t), CopiedOnce(t)', Records' = Records
    PROVE  \A u \in Tasks : CopiedOnce(u)'
<1> SUFFICES ASSUME NEW u \in Tasks, u # t PROVE CopiedOnce(u)'
  OBVIOUS
<1>1. Kept(u)
  BY DEF Others, Kept, Same
<1> QED BY <1>1, KeptCopy DEF WholeInv

LEMMA CopiesNext ==
    ASSUME Types, Shape, TaskInv, WholeInv, [Next]_vars PROVE \A u \in Tasks : CopiedOnce(u)'
<1>0. Records' = Records
  BY TypesNext
<1>1. CASE Start \/ UNCHANGED vars
  <2>1. job' = job
    BY <1>1 DEF Start, Load, LoadFails, Repair, vars
  <2> QED BY <1>0, <2>1, AllTheSame, KeptCopy DEF WholeInv
<1>2. CASE Configure
  <2>1. PICK r, todo : job' = [Edited(job, r) EXCEPT !["http"] = Begin(todo, FALSE, FALSE)]
    BY <1>2 DEF Configure
  <2>2. PICK k : k = Begin(todo, FALSE, FALSE)
    OBVIOUS
  <2>3. IsJob(k) /\ k.step = "compose"
    BY <2>2, JobMade DEF Begin
  <2>4. job'["http"] = k /\ \A u \in Tasks : u # "http" => Kept(u)
    BY <2>1, <2>2, <2>3, ConfiguredJobs DEF Touched
  <2> QED BY <1>0, <2>3, <2>4, KeptCopy, NewCopy DEF WholeInv
<1>3. CASE MenuEdit
  <2>1. PICK r : job' = Edited(job, r)
    BY <1>3 DEF MenuEdit
  <2> QED BY <1>0, <2>1, EditedJobs, KeptCopy DEF Touched, WholeInv
<1>4. CASE SystemControl \/ MenuExit
  <2>t. PICK t \in Tasks : \E todo, erase, reset : job' = [job EXCEPT ![t] = Begin(todo, erase, reset)]
    BY <1>4 DEF SystemControl, MenuExit, Tasks
  <2>1. PICK todo, erase, reset : job' = [job EXCEPT ![t] = Begin(todo, erase, reset)]
    BY <2>t
  <2>2. Others(t) /\ Begun(t)
    BY <2>1, RequestedJobs
  <2> QED BY <1>0, <2>2, NewCopy, OthersCopy DEF Begun
<1>5. ASSUME NEW t \in Tasks, Step(t) PROVE \A u \in Tasks : CopiedOnce(u)'
  <2>1. CASE Compose(t)
    <3>1. /\ job'[t].step = "take" /\ job'[t].todo = job[t].todo
          /\ Is(Mine(t)).source = "own" => job'[t].copy = live[Mine(t)]
          /\ \A u \in Tasks : u # t => Kept(u)
      BY <2>1, ComposedJobs DEF Recomposed
    <3>2. CopiedOnce(t)'
      BY <1>0, <3>1 DEF CopiedOnce, Mine, Is, OneVersion, WholeInv
    <3> QED BY <1>0, <3>1, <3>2, KeptCopy DEF WholeInv
  <2>9. CASE AllSaved(t)
    BY <1>0, <2>9, AllSavedJobs, NewCopy, OthersCopy
  <2>2. CASE Take(t)
    <3>1. /\ Others(t) /\ job[t].step = "take"
          /\ job'[t].todo = job[t].todo /\ job'[t].copy = job[t].copy
      BY <2>2, TakenJobs DEF Take
    <3>2. CopiedOnce(t)'
      BY <1>0, <3>1 DEF CopiedOnce, Mine, Is, OneVersion, WholeInv
    <3> QED BY <1>0, <3>1, <3>2, OthersCopy
  <2>3. CASE job' = [job EXCEPT ![t] = NextRecord(job[t])]
    BY <1>0, <2>3, GivenUpJobs, NewCopy, OthersCopy
  <2>4. CASE WritePage(t) /\ job[t].page = 1
    <3>1. job' = [job EXCEPT ![t].page = 2] /\ job[t].step = "write"
      BY <2>4, TwoPages DEF WritePage
    <3>2. Others(t) /\ job'[t].todo = job[t].todo /\ job'[t].copy = job[t].copy
      BY <3>1, PagedJobs
    <3>3. CopiedOnce(t)'
      BY <1>0, <3>1, <3>2 DEF CopiedOnce, Mine, Is, OneVersion, WholeInv
    <3> QED BY <1>0, <3>2, <3>3, OthersCopy
  <2>5. CASE WritePage(t) /\ job[t].page # 1
    <3>1. job[t].page = 2
      BY <2>5, TwoPages DEF WritePage, TaskInv, TaskOK
    <3> QED BY <2>3, <2>5, <3>1, TwoPages DEF WritePage
  <2>6. CASE ErasePage(t)
    BY <1>0, <2>6, ErasedJobs, KeptCopy, NewCopy DEF Spoilt, WholeInv
  <2>7. CASE Respond(t)
    BY <1>0, <2>7, RespondedJobs, NewCopy, OthersCopy
  <2>8. CASE Reset(t)
    BY <2>8, AllIdle, NewCopy DEF Reset, PowerOn
  <2> QED BY <1>5, <2>1, <2>2, <2>3, <2>4, <2>5, <2>6, <2>7, <2>8, <2>9 DEF Step, TakeTimesOut, PageFails
<1>6. CASE PowerLoss
  BY <1>6, AllIdle, NewCopy DEF PowerLoss, PowerOn
<1> QED BY <1>1, <1>2, <1>3, <1>4, <1>5, <1>6 DEF Next, Request

LEMMA SecondNext ==
    ASSUME Types, TaskInv, Shape, WholeInv, [Next]_vars, NEW r \in Records, Is(r).checked
    PROVE  SecondIsLast(r)'
<1>0. SecondIsLast(r) /\ 2 \in Pages
  BY TwoPages DEF WholeInv
<1>1. CASE UNCHANGED <<stored, written>>
  BY <1>0, <1>1 DEF SecondIsLast
<1>2. CASE Repair
  <2>1. CASE repairing = 2
    <3>1. /\ stored'[r][2] = IF r = Head(loading) THEN Default ELSE stored[r][2]
          /\ written'[r] = IF r = Head(loading) THEN Whole(Default) ELSE written[r]
      <4>1. PICK h : h = Head(loading)
        OBVIOUS
      <4>2. stored' = [stored EXCEPT ![h][2] = Default]
        BY <1>2, <2>1, <4>1 DEF Repair
      <4>3. written' = [written EXCEPT ![h] = Whole(Default)]
        BY <1>2, <2>1, <4>1, TwoPages DEF Repair
      <4>4. stored'[r][2] = IF r = h THEN Default ELSE stored[r][2]
        BY <1>0, <4>2 DEF Types
      <4>5. written'[r] = IF r = h THEN Whole(Default) ELSE written[r]
        BY <4>3 DEF Types
      <4> QED BY <4>1, <4>4, <4>5
    <3> QED BY <1>0, <3>1 DEF SecondIsLast, Whole
  <2>2. CASE repairing # 2
    <3>1. stored'[r][2] = stored[r][2] /\ written' = written
      BY <1>2, <2>2, TwoPages DEF Repair, Types
    <3> QED BY <1>0, <3>1 DEF SecondIsLast
  <2> QED BY <2>1, <2>2
<1>3. ASSUME NEW t \in Tasks, WritePage(t) PROVE SecondIsLast(r)'
  <2> DEFINE s == Mine(t)
             src == Source(t, s)
  <2>1. written' = [written EXCEPT ![s] = IF job[t].page = 2 THEN src ELSE written[s]]
    BY <1>3, TwoPages DEF WritePage, Mine
  <2>2. stored'[r][2] = stored[r][2] \/ (r = s /\ 2 = job[t].page /\ stored'[r][2] = Source(t, r)[2])
    BY <1>0, <1>3, WrittenPages
  <2>3. CASE s = r /\ job[t].page = 2
    <3>1. written'[r] = src
      BY <2>1, <2>3 DEF Types
    <3>2. stored'[r][2] = src[2]
      <4>1. stored' = [stored EXCEPT ![r][2] = src[2]]
        BY <1>3, <2>3 DEF WritePage, Mine
      <4> HIDE DEF src
      <4> QED BY <1>0, <4>1 DEF Types
    <3>3. src \in Copy /\ OneVersion(src)
      <4>1. Is(r).source = "own" /\ job[t].step = "write"
        BY <1>3, CheckedOwn DEF WritePage, Types
      <4>2. Source(t, r) = job[t].copy
        BY <4>1, Sources DEF Types
      <4>3. job[t].copy \in Copy /\ OneVersion(job[t].copy)
        BY <2>3, <4>1 DEF WholeInv, CopiedOnce, TaskInv, TaskOK
      <4> QED BY <2>3, <4>2, <4>3
    <3> QED BY <3>1, <3>2, <3>3, WholeCopy DEF SecondIsLast
  <2>4. CASE ~(s = r /\ job[t].page = 2)
    <3>1. written'[r] = written[r] /\ stored'[r][2] = stored[r][2]
      BY <2>1, <2>2, <2>4 DEF Types
    <3> QED BY <1>0, <3>1 DEF SecondIsLast
  <2> QED BY <2>3, <2>4
<1>4. ASSUME NEW t \in Tasks, ErasePage(t) PROVE SecondIsLast(r)'
  <2>1. stored'[r][2] \in {stored[r][2], Erased} /\ written' = written
    BY <1>0, <1>4, ErasedPages DEF ErasePage
  <2> QED BY <1>0, <2>1 DEF SecondIsLast
<1>5. ASSUME NEW t \in Tasks, Step(t) PROVE SecondIsLast(r)'
  <2>1. CASE \/ Compose(t) \/ AllSaved(t) \/ Take(t) \/ TakeTimesOut(t) \/ PageFails(t)
             \/ Respond(t) \/ Reset(t)
    BY <1>1, <2>1 DEF Compose, AllSaved, Take, TakeTimesOut, PageFails, Respond, Reset, PowerOn, chip
  <2> QED BY <1>3, <1>4, <1>5, <2>1 DEF Step
<1> QED BY <1>1, <1>2, <1>5 DEF Next, Start, Load, LoadFails, Request, Configure, MenuEdit, SystemControl,
           MenuExit, PowerLoss, PowerOn, chip, vars

LEMMA LiveNext ==
    ASSUME Types, WholeInv, [Next]_vars, NEW r \in Records, Is(r).checked
    PROVE  OneVersion(live'[r])
<1>0. OneVersion(live[r]) /\ OneVersion(Whole(Default))
  BY TwoPages DEF WholeInv, OneVersion, Whole
<1>1. CASE live' = live
  BY <1>0, <1>1
<1>2. CASE Load
  <2>1. CASE Valid(Head(loading), stored[Head(loading)]) /\ r = Head(loading)
    BY <1>2, <2>1, TwoPages DEF Load, Valid, OneVersion, Types
  <2>2. CASE ~(Valid(Head(loading), stored[Head(loading)]) /\ r = Head(loading))
    <3>1. live'[r] \in {live[r], Whole(Default)}
      BY <1>2, <2>2 DEF Load, Types
    <3> QED BY <1>0, <3>1
  <2> QED BY <2>1, <2>2
<1>3. CASE LoadFails
  <2>1. live'[r] \in {live[r], Whole(Default)}
    BY <1>3 DEF LoadFails, Types
  <2> QED BY <1>0, <2>1
<1>4. ASSUME NEW s, NEW ps, Set(s, ps), s = r => ps = Pages PROVE OneVersion(live'[r])
  BY <1>0, <1>4, TwoPages DEF Set, OneVersion, Types
<1>5. CASE Configure
  BY <1>4, <1>5, CheckedEdits DEF Configure
<1>6. CASE MenuEdit
  BY <1>4, <1>6 DEF MenuEdit
<1>7. CASE PowerOn
  BY <1>0, <1>7 DEF PowerOn
<1>8. ASSUME NEW t \in Tasks, Step(t) PROVE live' = live \/ PowerOn
  BY <1>8 DEF Step, Compose, AllSaved, Take, TakeTimesOut, WritePage, PageFails, ErasePage,
                   Respond, Reset, memory
<1> QED BY <1>1, <1>2, <1>3, <1>5, <1>6, <1>7, <1>8
        DEF Next, Start, Repair, Request, SystemControl, MenuExit, PowerLoss, memory, vars

LEMMA WholeNext == StoreInv /\ WholeInv /\ [Next]_vars => WholeInv'
<1> SUFFICES ASSUME StoreInv, WholeInv, [Next]_vars PROVE WholeInv'
  OBVIOUS
<1>1. Records' = Records
  BY TypesNext DEF StoreInv
<1>2. \A r \in Records : Is(r).checked => OneVersion(live'[r]) /\ SecondIsLast(r)'
  BY LiveNext, SecondNext DEF StoreInv
<1>3. \A u \in Tasks : CopiedOnce(u)'
  BY CopiesNext DEF StoreInv
<1> QED BY <1>1, <1>2, <1>3 DEF WholeInv, Is, OneVersion

LEMMA WholeInit == Init => WholeInv
<1> SUFFICES ASSUME Init PROVE WholeInv
  OBVIOUS
<1>1. \A r \in Records : OneVersion(live[r]) /\ SecondIsLast(r)
  BY TwoPages DEF Init, OneVersion, SecondIsLast, Whole
<1>2. \A t \in Tasks : job[t].step = "idle"
  BY JobMade DEF Init, Idle
<1> QED BY <1>1, <1>2 DEF WholeInv, CopiedOnce

(* A start takes a record that has a checksum as the last copy that was written   *)
(* whole, or its defaults, wherever a save was cut off or an erase left a page     *)
(* (wireless_config_init: "EEPROM CRC mismatch").                             *)
THEOREM LoadsWholeCorrect == Spec => CheckedLoadsWhole
<1> DEFINE Loads == \A r \in Records : Is(r).checked => LoadsWhole(r)
<1>1. StoreInv /\ WholeInv /\ [Next]_vars => [Loads]_vars
  <2> SUFFICES ASSUME StoreInv, WholeInv, [Next]_vars, NEW r \in Records, Is(r).checked,
                      ~Running, live'[r] # live[r], loading' # order
               PROVE  live'[r] \in {Whole(Default), written[r]}
    BY DEF LoadsWhole
  <2>1. Types
    BY DEF StoreInv
  <2>2. CASE Load
    <3>1. CASE Valid(Head(loading), stored[Head(loading)]) /\ r = Head(loading)
      <4>1. stored[r] \in Copy /\ OneVersion(stored[r]) /\ stored[r][2] # Erased
        BY <2>1, <3>1, TwoPages DEF Valid, OneVersion, Types
      <4>2. stored[r] = written[r]
        BY <4>1, WholeCopy DEF WholeInv, SecondIsLast
      <4> QED BY <2>1, <2>2, <3>1, <4>2 DEF Load, Types
    <3>2. CASE ~(Valid(Head(loading), stored[Head(loading)]) /\ r = Head(loading))
      BY <2>1, <2>2, <3>2 DEF Load, Types
    <3> QED BY <3>1, <3>2
  <2>3. CASE LoadFails
    BY <2>1, <2>3 DEF LoadFails, Types
  <2>4. ASSUME NEW t \in Tasks, Step(t) PROVE live' = live \/ PowerOn
    BY <2>4 DEF Step, Compose, AllSaved, Take, TakeTimesOut, WritePage, PageFails, ErasePage,
                   Respond, Reset, memory
  <2> QED BY <2>2, <2>3, <2>4
          DEF Next, Start, Repair, Request, Configure, MenuEdit, SystemControl, MenuExit, PowerLoss,
              PowerOn, memory, vars
<1>2. Spec => []WholeInv
  BY StoreAlways, WholeInit, WholeNext, PTL DEF Spec
<1> QED BY <1>1, <1>2, StoreAlways, PTL DEF Spec, CheckedLoadsWhole
=============================================================================
