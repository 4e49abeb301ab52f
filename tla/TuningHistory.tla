---------------------------- MODULE TuningHistory ----------------------------
(***************************************************************************)
(* What AI tuning learns from ordinary charges (src/ai_tuning.c from          *)
(* load_history_from_flash on) and its copy in the flash (flash_storage.c).   *)
(*                                                                         *)
(* The charge task records each charge into a ring, a second after it ended  *)
(* (charge_mode.cpp:704), averages what the ring holds and saves it; the HTTP *)
(* server clears the ring, or puts the averages into a profile and empties it. *)
(* Nobody takes a lock: an action is one step of one of the two.  The flash    *)
(* copy is erased and programmed in two pages with both cores stopped, so only *)
(* a loss of power falls in between.  X_Variant is X with a plausible mistake. *)
(***************************************************************************)
EXTENDS Integers, Sequences, FiniteSets

CONSTANTS
    Profiles,     \* indices of profiles
    MinGain, MaxGain,  \* fine_kp_min and fine_kp_max, in tenths
    Size,         \* AI_TUNING_HISTORY_SIZE
    Front,        \* records that are in the first page (7 of 10 in the code)
    Enough,       \* records a suggestion needs (3 in the code)
    MaxCharges,   \* bound: charges
    MaxRequests,  \* bound: requests
    MaxFailures,  \* bound: saves that flash_safe_execute refuses
    MaxLosses     \* bound: losses of power

ASSUME HistorySizesAssumption ==
    /\ Size \in Nat \ {0} /\ Front \in 1..Size /\ Enough \in 1..Size
    /\ MinGain \in Nat \ {0} /\ MaxGain \in Nat /\ MinGain <= MaxGain
ASSUME HistoryBoundsAssumption ==
    /\ MaxCharges \in Nat /\ MaxRequests \in Nat /\ MaxFailures \in Nat /\ MaxLosses \in Nat

VARIABLES
    ring,      \* g_history
    flash,     \* the sector: its two pages
    image,     \* g_write_buffer, which both tasks use
    gain,      \* per profile: fine_kp
    selected,  \* profile_data.current_profile_idx
    charge,    \* the charge task: where it is in recording, and what it summed
    request,   \* the HTTP server: where it is in a request, and of which profile
    latest,    \* the last Size charges recorded since the ring was emptied
    mixed,     \* a request fell into a record, or the flash was torn when read
    stale,     \* the last save was refused
    done       \* charges, requests, failures and losses so far

historyVars == <<ring, flash, image, gain, selected, charge, request, latest, mixed, stale, done>>

Rec(id, g) == [id |-> id, gain |-> g]
Zero   == Rec(0, 0)          \* what memset leaves
NaN    == -1                 \* what an erased word is as a float
Blank  == Rec(-1, NaN)
Erased == <<>>              \* a page that is not, written it is <<its contents>>
Slots  == 0..(Size - 1)
Empty  == [count |-> 0, next |-> 0, drops |-> [i \in Slots |-> Zero], suggested |-> 0, has |-> FALSE]
Idle   == [pc |-> "idle", sum |-> 0, profile |-> 0]

Least(a, b) == IF a < b THEN a ELSE b
Most(a, b)  == IF a < b THEN b ELSE a

HistoryInit ==
    /\ ring = Empty /\ image = Empty /\ flash = [first |-> Erased, second |-> Erased]
    /\ gain = [p \in Profiles |-> MaxGain] /\ selected \in Profiles
    /\ charge = Idle /\ request = Idle
    /\ latest = <<>> /\ mixed = FALSE /\ stale = FALSE
    /\ done = [charges |-> 0, requests |-> 0, failures |-> 0, losses |-> 0]

-----------------------------------------------------------------------------
(* load_history_from_flash: an image whose revision is not there is replaced  *)
(* by an empty one; the revision is in the first page.                       *)
Pages(h) ==
    [first  |-> <<[count |-> h.count, next |-> h.next, drops |-> [i \in 0..(Front - 1) |-> h.drops[i]]]>>,
     second |-> <<[drops |-> [i \in Front..(Size - 1) |-> h.drops[i]],
                   suggested |-> h.suggested, has |-> h.has]>>]

Loaded(f) ==
    IF f.first = Erased THEN Empty
    ELSE LET torn == f.second = Erased IN
         [count |-> f.first[1].count, next |-> f.first[1].next,
          drops |-> [i \in Slots |-> IF i < Front THEN f.first[1].drops[i]
                                     ELSE IF torn THEN Blank ELSE f.second[1].drops[i]],
          suggested |-> IF torn THEN NaN ELSE f.second[1].suggested,
          has |-> torn \/ f.second[1].has]

(* The charges a ring holds, oldest first                                    *)
Held(h) == [k \in 1..h.count |-> h.drops[(h.next + Size - h.count + k - 1) % Size].id]

Counted(h) == {i \in Slots : i < h.count}
Ids(h)     == {h.drops[i].id : i \in Counted(h)}
Sum(drops, S) == LET sum[i \in -1..(Size - 1)] ==
                        IF i = -1 THEN 0 ELSE sum[i - 1] + (IF i \in S THEN drops[i].gain ELSE 0)
                 IN  sum[Size - 1]
HasNaN(h)  == \E i \in Counted(h) : h.drops[i].gain = NaN

(* fminf(fmaxf(x, min), max): of a number that is not one it is the minimum.   *)
Clamp(x) == Least(Most(x, MinGain), MaxGain)

(* sum * (1.0f / count) + adj; after a clear in between the count is zero and  *)
(* the average infinite, or not a number.                                    *)
Suggestion(sum, count, adj) ==
    IF sum = NaN THEN MinGain
    ELSE IF count = 0 THEN (IF sum = 0 THEN MinGain ELSE MaxGain)
    ELSE Clamp(sum \div count + adj)

-----------------------------------------------------------------------------
(* The charge task: ai_tuning_record_charge.                                *)
Step(pc) == charge' = [charge EXCEPT !.pc = pc]

Charged ==
    /\ charge.pc = "idle" /\ done.charges < MaxCharges
    /\ Step("put") /\ done' = [done EXCEPT !.charges = @ + 1]
    /\ mixed' = (mixed \/ request.pc # "idle")
    /\ UNCHANGED <<ring, flash, image, gain, selected, request, latest, stale>>

Put ==
    /\ charge.pc = "put" /\ Step("next")
    /\ ring' = [ring EXCEPT !.drops[ring.next] = Rec(done.charges, gain[selected])]
    /\ UNCHANGED <<flash, image, gain, selected, request, latest, mixed, stale, done>>

Advance ==
    /\ charge.pc = "next" /\ Step("count")
    /\ ring' = [ring EXCEPT !.next = (@ + 1) % Size]
    /\ UNCHANGED <<flash, image, gain, selected, request, latest, mixed, stale, done>>

Count ==
    /\ charge.pc = "count" /\ Step("check")
    /\ ring' = [ring EXCEPT !.count = Least(@ + 1, Size)]
    /\ latest' = LET all == Append(latest, done.charges)
                 IN  SubSeq(all, Most(1, Len(all) - Size + 1), Len(all))
    /\ UNCHANGED <<flash, image, gain, selected, request, mixed, stale, done>>

(* The count is looked at before ai_tuning_calculate_refinements and again in it. *)
Check ==
    /\ charge.pc = "check" /\ Step(IF ring.count >= Enough THEN "sum" ELSE "copy")
    /\ UNCHANGED <<ring, flash, image, gain, selected, request, latest, mixed, stale, done>>

SumUp ==
    /\ charge.pc = "sum"
    /\ IF ring.count < Enough
       THEN Step("copy") /\ ring' = [ring EXCEPT !.has = FALSE]
       ELSE /\ charge' = [charge EXCEPT !.pc = "suggest",
                             !.sum = IF HasNaN(ring) THEN NaN ELSE Sum(ring.drops, Counted(ring))]
            /\ UNCHANGED ring
    /\ UNCHANGED <<flash, image, gain, selected, request, latest, mixed, stale, done>>

(* adj: the average was under the target by more than the noise, or not       *)
Suggest_BySize ==
    /\ charge.pc = "suggest" /\ charge' = [Idle EXCEPT !.pc = "has"]
    /\ \E adj \in {0, 1} : ring' = [ring EXCEPT !.suggested = Suggestion(charge.sum, Size, adj)]
    /\ UNCHANGED <<flash, image, gain, selected, request, latest, mixed, stale, done>>

Suggest ==
    /\ charge.pc = "suggest" /\ charge' = [Idle EXCEPT !.pc = "has"]
    /\ \E adj \in {0, 1} : ring' = [ring EXCEPT !.suggested = Suggestion(charge.sum, ring.count, adj)]
    /\ UNCHANGED <<flash, image, gain, selected, request, latest, mixed, stale, done>>

Has ==
    /\ charge.pc = "has" /\ Step("copy")
    /\ ring' = [ring EXCEPT !.has = TRUE]
    /\ UNCHANGED <<flash, image, gain, selected, request, latest, mixed, stale, done>>

-----------------------------------------------------------------------------
(* save_history_to_flash: the copy, then the flash with both cores stopped; a  *)
(* refusal is not looked at.                                                *)
Copy(pc, to) == pc = "copy" /\ to = "program" /\ image' = ring

Program(pc, to) ==
    /\ pc = "program" /\ to = "idle"
    /\ \/ flash' = Pages(image) /\ stale' = FALSE /\ UNCHANGED done
       \/ /\ done.failures < MaxFailures /\ done' = [done EXCEPT !.failures = @ + 1]
          /\ stale' = TRUE /\ UNCHANGED flash

ChargeSaves ==
    /\ \/ Copy(charge.pc, "program") /\ Step("program") /\ UNCHANGED <<flash, stale, done>>
       \/ Program(charge.pc, "idle") /\ charge' = Idle /\ UNCHANGED image
    /\ UNCHANGED <<ring, gain, selected, request, latest, mixed>>

RequestSaves ==
    /\ \/ /\ Copy(request.pc, "program") /\ request' = [request EXCEPT !.pc = "program"]
          /\ UNCHANGED <<flash, stale, done>>
       \/ Program(request.pc, "idle") /\ request' = Idle /\ UNCHANGED image
    /\ UNCHANGED <<ring, gain, selected, charge, latest, mixed>>

-----------------------------------------------------------------------------
(* The HTTP server.                                                        *)
Begin(pc, p) ==
    /\ request.pc = "idle" /\ done.requests < MaxRequests
    /\ done' = [done EXCEPT !.requests = @ + 1]
    /\ request' = [Idle EXCEPT !.pc = pc, !.profile = p]

(* ai_tuning_clear_history                                                 *)
Clear ==
    /\ Begin("copy", 0)
    /\ ring' = Empty /\ latest' = <<>>
    /\ mixed' = (mixed \/ charge.pc # "idle")
    /\ UNCHANGED <<flash, image, gain, selected, charge, stale>>

(* ai_tuning_apply_refined_params: it selects the profile, writes its gains,   *)
(* and empties the ring, field by field.  profile_data_save in between is in   *)
(* EepromStore.                                                            *)
Apply(p) ==
    /\ ring.has /\ Begin("write", p)
    /\ selected' = p /\ mixed' = (mixed \/ charge.pc # "idle")
    /\ UNCHANGED <<ring, flash, image, gain, charge, latest, stale>>

WriteGains ==
    /\ request.pc = "write" /\ request' = [Idle EXCEPT !.pc = "count"]
    /\ gain' = [gain EXCEPT ![request.profile] = ring.suggested]
    /\ UNCHANGED <<ring, flash, image, selected, charge, latest, mixed, stale, done>>

ResetCount ==
    /\ request.pc = "count" /\ request' = [request EXCEPT !.pc = "next"]
    /\ ring' = [ring EXCEPT !.count = 0] /\ latest' = <<>>
    /\ UNCHANGED <<flash, image, gain, selected, charge, mixed, stale, done>>

ResetNext_Kept ==
    /\ request.pc = "next" /\ request' = [request EXCEPT !.pc = "has"]
    /\ UNCHANGED <<ring, flash, image, gain, selected, charge, latest, mixed, stale, done>>

ResetNext ==
    /\ request.pc = "next" /\ request' = [request EXCEPT !.pc = "has"]
    /\ ring' = [ring EXCEPT !.next = 0]
    /\ UNCHANGED <<flash, image, gain, selected, charge, latest, mixed, stale, done>>

ResetHas_NoSave ==
    /\ request.pc = "has" /\ request' = Idle
    /\ ring' = [ring EXCEPT !.has = FALSE]
    /\ UNCHANGED <<flash, image, gain, selected, charge, latest, mixed, stale, done>>

ResetHas ==
    /\ request.pc = "has" /\ request' = [request EXCEPT !.pc = "copy"]
    /\ ring' = [ring EXCEPT !.has = FALSE]
    /\ UNCHANGED <<flash, image, gain, selected, charge, latest, mixed, stale, done>>

(* profile_config: asking for a profile selects it, and may change its gains.  *)
Configure(p, g) ==
    /\ request.pc = "idle" /\ done.requests < MaxRequests
    /\ done' = [done EXCEPT !.requests = @ + 1]
    /\ selected' = p /\ gain' = [gain EXCEPT ![p] = g]
    /\ UNCHANGED <<ring, flash, image, charge, request, latest, mixed, stale>>

(* Power is lost, in the middle of a page's programming too, and comes back.   *)
PowerLoss ==
    /\ done.losses < MaxLosses /\ done' = [done EXCEPT !.losses = @ + 1]
    /\ \E f \in {flash} \cup
               (IF "program" \in {charge.pc, request.pc}
                THEN {[first |-> Erased, second |-> Erased], [Pages(image) EXCEPT !.second = Erased]}
                ELSE {}) :
          /\ flash' = f /\ ring' = Loaded(f) /\ latest' = Held(Loaded(f))
          /\ mixed' = (mixed \/ (f.first # Erased /\ f.second = Erased))
    /\ image' = Empty /\ charge' = Idle /\ request' = Idle /\ stale' = FALSE
    /\ UNCHANGED <<gain, selected>>

HistoryNext ==
    \/ Charged \/ Put \/ Advance \/ Count \/ Check \/ SumUp \/ Suggest \/ Has \/ ChargeSaves
    \/ Clear \/ WriteGains \/ ResetCount \/ ResetNext \/ ResetHas \/ RequestSaves
    \/ \E p \in Profiles : Apply(p) \/ Configure(p, MinGain)
    \/ PowerLoss
HistorySpec == HistoryInit /\ [][HistoryNext]_historyVars

-----------------------------------------------------------------------------
Quiet == charge.pc = "idle" /\ request.pc = "idle"

(* When both tasks have finished, what a restart would load is what is in      *)
(* memory, unless the last save was refused, although both copy into one buffer *)
(* and may overtake each other between copy and program. (g_write_buffer)      *)
FlashIsCurrent == Quiet /\ ~stale => Loaded(flash) = ring

(* The ring holds the charges recorded last, none twice and none made up, also *)
(* after it has wrapped around, was emptied or was loaded after a power loss,  *)
(* unless a request fell into a record or half an image was loaded.            *)
HoldsLatest ==
    Quiet /\ ~mixed => /\ Ids(ring) = {latest[k] : k \in DOMAIN latest}
                       /\ Cardinality(Ids(ring)) = ring.count

(* The same without the exception                                           *)
HoldsLatestAlways == Quiet => Ids(ring) = {latest[k] : k \in DOMAIN latest}

(* A suggestion is there exactly when enough charges are counted, and it is     *)
(* that of the charges counted now.                                         *)
SuggestionFits ==
    Quiet /\ ~mixed =>
        /\ ring.has <=> ring.count >= Enough
        /\ ring.has => \E adj \in {0, 1} :
              ring.suggested = Suggestion(Sum(ring.drops, Counted(ring)), ring.count, adj)

(* Applying a suggestion leaves every gain in the configured range: not so in     *)
(* this code, where a clear that falls between a suggestion and its flag, or the   *)
(* erased second page, gets a zero or no number into a profile.                 *)
GainsAlwaysInRange == \A p \in Profiles : gain[p] \in MinGain..MaxGain
=============================================================================
