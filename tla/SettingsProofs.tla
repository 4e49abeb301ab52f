-------------------- MODULE SettingsProofs ----------------------------------
(***************************************************************************)
(* What the device remembers and shows: the history of charges and its copy in *)
(* the flash, for any size of the ring and any pages; the forms of the display, *)
(* for any profiles, numbers and requests; and the gains of the profiles, for *)
(* any number of edits and selections.                                      *)
(***************************************************************************)
EXTENDS TuningHistory, MenuForms, ProfileGains, SequenceTheorems, FiniteSetTheorems,
        TLAPS
-----------------------------------------------------------------------------
(* The history of charges (TuningHistory)                                   *)

(* A ring, in memory or in the flash                                        *)
IsHistory(h) ==
    /\ h = [count |-> h.count, next |-> h.next, drops |-> h.drops,
            suggested |-> h.suggested, has |-> h.has]
    /\ h.count \in 0..Size /\ h.next \in Slots /\ h.has \in BOOLEAN
    /\ h.drops = [i \in Slots |-> h.drops[i]]
    /\ \A i \in Slots : h.drops[i].id \in Int

BothErased == [first |-> Erased, second |-> Erased]
HalfOf(h) == [Pages(h) EXCEPT !.second = Erased]
IsFlash(f) == f = BothErased \/ \E h : IsHistory(h) /\ f \in {Pages(h), HalfOf(h)}

IsTask(t) == t = [pc |-> t.pc, sum |-> t.sum, profile |-> t.profile]

HistoryTypes ==
    /\ IsHistory(ring) /\ IsHistory(image) /\ IsFlash(flash)
    /\ IsTask(charge) /\ IsTask(request)
    /\ gain = [p \in Profiles |-> gain[p]] /\ selected \in Profiles
    /\ request.pc = "write" => request.profile \in Profiles
    /\ done \in [charges : Nat, requests : Nat, failures : Nat, losses : Nat]
    /\ latest \in Seq(Int) /\ Len(latest) <= Size
    /\ charge.pc \in {"idle", "put", "next", "count", "check", "sum", "suggest", "has", "copy", "program"}
    /\ request.pc \in {"idle", "write", "count", "next", "has", "copy", "program"}

-----------------------------------------------------------------------------
(* The image of the last copy is what will be in the flash.                    *)
Saving(t) == t.pc = "program"
Settled(t) == t.pc \in {"idle", "program"}

CopyInv ==
    Settled(charge) /\ Settled(request) =>
        /\ Saving(charge) \/ Saving(request) => image = ring
        /\ Quiet /\ ~stale => Loaded(flash) = ring

-----------------------------------------------------------------------------
(* What a ring holds, when the next charge goes to w.                         *)
After(w) == IF w + 1 = Size THEN 0 ELSE w + 1
Place(n, w, k) == IF n < Size THEN k ELSE IF w + k < Size THEN w + k ELSE w + k - Size

InOrder(list) ==
    /\ list \in Seq(Int) /\ Len(list) <= Size
    /\ \A i, j \in 1..Len(list) : i < j => list[i] < list[j]
UpTo(list, n) == \A i \in 1..Len(list) : list[i] <= n

Chain(h, w, from, list) ==
    /\ h.count < Size => w = h.count
    /\ \A k \in from..(h.count - 1) : h.drops[Place(h.count, w, k)].id = list[k + 1]
Keeps(h, list) == h.count = Len(list) /\ Chain(h, h.next, 0, list)

(* Half of it: while a charge is recorded the oldest may be gone.              *)
Leaves(h, w, list) ==
    h.count = Len(list) /\ Chain(h, w, IF h.count < Size THEN 0 ELSE 1, list)

Numbered(h) == \A i \in Slots : i < h.count => h.drops[i].gain # NaN
Flagged(h) == h.has <=> h.count >= Enough
Summed(h) == Sum(h.drops, Counted(h))
Fits(h) ==
    Flagged(h) /\ (h.has => \E adj \in {0, 1} : h.suggested = Suggestion(Summed(h), h.count, adj))
Whole(h, list) == Keeps(h, list) /\ InOrder(list) /\ Numbered(h) /\ Fits(h)
Stored(h, n) == IsHistory(h) /\ \E list : Whole(h, list) /\ UpTo(list, n)

Newest(w) == ring.drops[w].id = done.charges /\ ring.drops[w].gain # NaN

WhileCharging ==
    /\ charge.pc # "idle" => request.pc = "idle"
    /\ charge.pc = "put" => Whole(ring, latest) /\ \A i \in 1..Len(latest) : latest[i] < done.charges
    /\ charge.pc \in {"next", "count"} =>
          /\ InOrder(latest) /\ \A i \in 1..Len(latest) : latest[i] < done.charges
          /\ Numbered(ring) /\ Flagged(ring)
    /\ charge.pc = "next" => Leaves(ring, ring.next, latest) /\ Newest(ring.next)
    /\ charge.pc = "count" =>
          \E w \in Slots : ring.next = After(w) /\ Leaves(ring, w, latest) /\ Newest(w)
    /\ charge.pc \in {"check", "sum", "suggest", "has"} =>
          /\ Keeps(ring, latest) /\ InOrder(latest) /\ Numbered(ring)
          /\ ring.has => ring.count >= Enough
    /\ charge.pc \in {"sum", "suggest", "has"} => ring.count >= Enough
    /\ charge.pc = "suggest" => charge.sum = Summed(ring)
    /\ charge.pc = "has" => \E adj \in {0, 1} : ring.suggested = Suggestion(Summed(ring), ring.count, adj)
    /\ charge.pc \in {"copy", "program"} => Whole(ring, latest)

WhileAsked ==
    /\ request.pc # "idle" => charge.pc = "idle"
    /\ request.pc = "write" => Whole(ring, latest) /\ ring.has
    /\ request.pc = "count" => InOrder(latest)
    /\ request.pc \in {"next", "has"} => ring.count = 0 /\ latest = <<>>
    /\ request.pc = "has" => ring.next = 0
    /\ request.pc \in {"copy", "program"} => Whole(ring, latest)

GainsHeld == \A p \in Profiles : gain[p] # NaN
ImageHeld == Saving(charge) \/ Saving(request) => Stored(image, done.charges)
FlashHeld == flash = BothErased \/ \E h : Stored(h, done.charges) /\ flash = Pages(h)

HoldInv ==
    ~mixed =>
        /\ GainsHeld /\ ImageHeld /\ FlashHeld
        /\ UpTo(latest, done.charges)
        /\ Quiet => Whole(ring, latest)
        /\ WhileCharging /\ WhileAsked

-----------------------------------------------------------------------------
(* What an assignment to one field does                                      *)
WithDrop(h, i, id, g) == [h EXCEPT !.drops[i] = Rec(id, g)]

LEMMA SetDrop ==
    ASSUME NEW h, IsHistory(h), NEW i \in Slots, NEW id \in Int, NEW g, NEW k,
           k = WithDrop(h, i, id, g)
    PROVE  /\ IsHistory(k) /\ k.count = h.count /\ k.next = h.next
           /\ k.suggested = h.suggested /\ k.has = h.has
           /\ k.drops = [h.drops EXCEPT ![i] = Rec(id, g)]
<1>1. k = [count |-> h.count, next |-> h.next, drops |-> [h.drops EXCEPT ![i] = Rec(id, g)],
           suggested |-> h.suggested, has |-> h.has]
  BY DEF IsHistory, WithDrop
<1>2. k.drops = [h.drops EXCEPT ![i] = Rec(id, g)]
  BY <1>1
<1>3. k.drops = [j \in Slots |-> k.drops[j]]
  BY <1>2 DEF IsHistory
<1>4. \A j \in Slots : k.drops[j].id \in Int
  <2>1. Rec(id, g).id = id
    BY DEF Rec
  <2>2. \A j \in Slots : k.drops[j] = IF j = i THEN Rec(id, g) ELSE h.drops[j]
    BY <1>2 DEF IsHistory
  <2>3. \A j \in Slots : h.drops[j].id \in Int
    BY DEF IsHistory
  <2> QED BY <2>1, <2>2, <2>3
<1> QED BY <1>1, <1>2, <1>3, <1>4 DEF IsHistory

LEMMA SetNext ==
    ASSUME NEW h, IsHistory(h), NEW w \in Slots, NEW k, k = [h EXCEPT !.next = w]
    PROVE  /\ IsHistory(k) /\ k.count = h.count /\ k.next = w /\ k.drops = h.drops
           /\ k.suggested = h.suggested /\ k.has = h.has
<1>1. k = [count |-> h.count, next |-> w, drops |-> h.drops, suggested |-> h.suggested, has |-> h.has]
  BY DEF IsHistory
<1> QED BY <1>1 DEF IsHistory

LEMMA SetCount ==
    ASSUME NEW h, IsHistory(h), NEW n \in 0..Size, NEW k, k = [h EXCEPT !.count = n]
    PROVE  /\ IsHistory(k) /\ k.count = n /\ k.next = h.next /\ k.drops = h.drops
           /\ k.suggested = h.suggested /\ k.has = h.has
<1>1. k = [count |-> n, next |-> h.next, drops |-> h.drops, suggested |-> h.suggested, has |-> h.has]
  BY DEF IsHistory
<1> QED BY <1>1 DEF IsHistory

LEMMA SetSuggested ==
    ASSUME NEW h, IsHistory(h), NEW s, NEW k, k = [h EXCEPT !.suggested = s]
    PROVE  /\ IsHistory(k) /\ k.count = h.count /\ k.next = h.next /\ k.drops = h.drops
           /\ k.suggested = s /\ k.has = h.has
<1>1. k = [count |-> h.count, next |-> h.next, drops |-> h.drops, suggested |-> s, has |-> h.has]
  BY DEF IsHistory
<1> QED BY <1>1 DEF IsHistory

LEMMA SetHas ==
    ASSUME NEW h, IsHistory(h), NEW b \in BOOLEAN, NEW k, k = [h EXCEPT !.has = b]
    PROVE  /\ IsHistory(k) /\ k.count = h.count /\ k.next = h.next /\ k.drops = h.drops
           /\ k.suggested = h.suggested /\ k.has = b
<1>1. k = [count |-> h.count, next |-> h.next, drops |-> h.drops, suggested |-> h.suggested, has |-> b]
  BY DEF IsHistory
<1> QED BY <1>1 DEF IsHistory

LEMMA SetPc ==
    ASSUME NEW t, IsTask(t), NEW pc, NEW k, k = [t EXCEPT !.pc = pc]
    PROVE  IsTask(k) /\ k.pc = pc /\ k.sum = t.sum /\ k.profile = t.profile
<1>1. k = [pc |-> pc, sum |-> t.sum, profile |-> t.profile]
  BY DEF IsTask
<1> QED BY <1>1 DEF IsTask

LEMMA IdleIsTask == IsTask(Idle) /\ Idle.pc = "idle"
BY DEF IsTask, Idle

LEMMA EmptyIsHistory == IsHistory(Empty)
<1>1. Empty.count = 0 /\ Empty.next = 0 /\ Empty.drops = [i \in Slots |-> Zero] 
  BY DEF Empty
<1>2. Empty.next \in Slots /\ Empty.count \in 0..Size
  BY <1>1, HistorySizesAssumption DEF Slots
<1>3. Empty = [count |-> Empty.count, next |-> Empty.next, drops |-> Empty.drops,
               suggested |-> Empty.suggested, has |-> Empty.has]
  BY DEF Empty
<1>4. \A i \in Slots : Empty.drops[i].id \in Int
  BY <1>1 DEF Zero, Rec
<1>5. Empty.drops = [i \in Slots |-> Empty.drops[i]]
  BY <1>1
<1>6. Empty.has \in BOOLEAN
  BY DEF Empty
<1> QED BY <1>2, <1>3, <1>4, <1>5, <1>6 DEF IsHistory

(* What is written as two pages is read as it was.                            *)
LEMMA LoadedPages == ASSUME NEW h, IsHistory(h) PROVE Loaded(Pages(h)) = h
<1>1. PICK f : f = Pages(h)
  OBVIOUS
<1>2. PICK front : front = [i \in 0..(Front - 1) |-> h.drops[i]]
  OBVIOUS
<1>3. PICK back : back = [i \in Front..(Size - 1) |-> h.drops[i]]
  OBVIOUS
<1>4. /\ f.first = <<[count |-> h.count, next |-> h.next, drops |-> front]>>
      /\ f.second = <<[drops |-> back, suggested |-> h.suggested, has |-> h.has]>>
  BY <1>1, <1>2, <1>3 DEF Pages
<1>5. f.first # Erased /\ f.second # Erased
  BY <1>4 DEF Erased
<1>6. /\ f.first[1].count = h.count /\ f.first[1].next = h.next
      /\ f.first[1].drops = front /\ f.second[1].drops = back
      /\ f.second[1].suggested = h.suggested /\ f.second[1].has = h.has
  BY <1>4
<1>7. PICK drops : drops = [i \in Slots |-> IF i < Front THEN front[i] ELSE back[i]]
  OBVIOUS
<1>8. Loaded(f) = [count |-> h.count, next |-> h.next, drops |-> drops,
                   suggested |-> h.suggested, has |-> h.has]
  BY <1>5, <1>6, <1>7 DEF Loaded, IsHistory
<1>9. \A i \in Slots : drops[i] = h.drops[i]
  BY <1>2, <1>3, <1>7, HistorySizesAssumption DEF Slots
<1>10. drops = h.drops
  BY <1>7, <1>9 DEF IsHistory
<1> QED BY <1>1, <1>8, <1>10 DEF IsHistory

(* Half an image loads as a ring, too.                                       *)
LEMMA LoadedIsHistory == ASSUME NEW f, IsFlash(f) PROVE IsHistory(Loaded(f))
<1>1. CASE f = BothErased
  BY <1>1, EmptyIsHistory DEF BothErased, Loaded
<1>2. ASSUME NEW h, IsHistory(h), f = Pages(h) PROVE IsHistory(Loaded(f))
  BY <1>2, LoadedPages
<1>3. ASSUME NEW h, IsHistory(h), f = HalfOf(h) PROVE IsHistory(Loaded(f))
  <2>0. PICK front : front = [i \in 0..(Front - 1) |-> h.drops[i]]
    OBVIOUS
  <2>1. f.first = <<[count |-> h.count, next |-> h.next, drops |-> front]>> /\ f.second = Erased
    BY <1>3, <2>0 DEF Pages, HalfOf
  <2>2. f.first # Erased
    BY <2>1 DEF Erased
  <2>3. f.first[1].count = h.count /\ f.first[1].next = h.next /\ f.first[1].drops = front
    BY <2>1
  <2>4. PICK drops : drops = [i \in Slots |-> IF i < Front THEN f.first[1].drops[i] ELSE Blank]
    OBVIOUS
  <2>5. PICK k : k = Loaded(f)
    OBVIOUS
  <2>6. k = [count |-> h.count, next |-> h.next, drops |-> drops, suggested |-> NaN, has |-> TRUE]
    BY <2>1, <2>2, <2>3, <2>4, <2>5 DEF Loaded
  <2>7. k.count = h.count /\ k.next = h.next /\ k.drops = drops /\ k.suggested = NaN /\ k.has = TRUE
    BY <2>6
  <2>8. drops = [i \in Slots |-> drops[i]]
    BY <2>4
  <2>9. \A i \in Slots : drops[i].id \in Int
    <3> SUFFICES ASSUME NEW i \in Slots PROVE drops[i].id \in Int
      OBVIOUS
    <3>1. CASE i < Front
      <4>1. drops[i] = h.drops[i]
        BY <2>0, <2>3, <2>4, <3>1, HistorySizesAssumption DEF Slots
      <4> QED BY <1>3, <4>1 DEF IsHistory
    <3>2. CASE ~(i < Front)
      BY <2>4, <3>2 DEF Blank, Rec
    <3> QED BY <3>1, <3>2
  <2>10. k = [count |-> k.count, next |-> k.next, drops |-> k.drops, suggested |-> k.suggested, has |-> k.has]
    BY <2>6, <2>7
  <2>11. IsHistory(k)
    BY <1>3, <2>7, <2>8, <2>9, <2>10 DEF IsHistory
  <2> QED BY <2>5, <2>11
<1> QED BY <1>1, <1>2, <1>3 DEF IsFlash

-----------------------------------------------------------------------------
(* Steps around the ring, and what the newest list of charges becomes           *)
LEMMA OneAround ==
    ASSUME NEW w \in Slots PROVE (w + 1) % Size = After(w) /\ After(w) \in Slots
<1>1. Size \in Nat \ {0} /\ w \in 0..(Size - 1)
  BY HistorySizesAssumption DEF Slots
<1>2. CASE w + 1 < Size
  BY <1>1, <1>2 DEF After, Slots
<1>3. CASE w + 1 = Size
  <2>1. (w + 1) % Size \in 0..(Size - 1)
    BY <1>1
  <2>2. (w + 1) % Size = 0
    BY <1>1, <1>3
  <2> QED BY <1>1, <1>3, <2>2 DEF After, Slots
<1> QED BY <1>1, <1>2, <1>3

(* Held counts from the next place, backwards: it is the ring in order.          *)
LEMMA HeldPlace ==
    ASSUME NEW n \in 0..Size, NEW w \in Slots, n < Size => w = n, NEW k \in 1..n
    PROVE  (w + Size - n + k - 1) % Size = Place(n, w, k - 1) /\ Place(n, w, k - 1) \in Slots
<1>1. Size \in Nat \ {0} /\ w \in 0..(Size - 1)
  BY HistorySizesAssumption DEF Slots
<1>2. PICK x \in Nat : x = w + Size - n + k - 1
  BY <1>1
<1>3. x % Size \in 0..(Size - 1)
  BY <1>1, <1>2
<1>4. CASE n < Size
  <2>1. x = Size + (k - 1) /\ k - 1 \in 0..(Size - 1)
    BY <1>1, <1>2, <1>4
  <2>2. x % Size = k - 1
    BY <1>1, <1>3, <2>1
  <2> QED BY <1>1, <1>2, <1>4, <2>1, <2>2 DEF Place, Slots
<1>5. CASE n = Size
  <2>1. x = w + (k - 1) /\ k - 1 \in 0..(Size - 1)
    BY <1>1, <1>2, <1>5
  <2>2. CASE w + (k - 1) < Size
    BY <1>1, <1>2, <1>5, <2>1, <2>2 DEF Place, Slots
  <2>3. CASE w + (k - 1) >= Size
    <3>1. x % Size = x - Size
      BY <1>1, <1>3, <2>1, <2>3
    <3> QED BY <1>1, <1>2, <1>5, <2>1, <2>3, <3>1 DEF Place, Slots
  <2> QED BY <1>1, <2>1, <2>2, <2>3
<1> QED BY <1>1, <1>4, <1>5

LEMMA HeldIsSeq ==
    ASSUME NEW h, IsHistory(h) PROVE Held(h) \in Seq(Int) /\ Len(Held(h)) = h.count
<1>1. Size \in Nat \ {0} /\ h.count \in 0..Size /\ h.next \in 0..(Size - 1)
  BY HistorySizesAssumption DEF Slots, IsHistory
<1>2. ASSUME NEW k \in 1..h.count
      PROVE  h.drops[(h.next + Size - h.count + k - 1) % Size].id \in Int
  <2>1. PICK x \in Nat : x = h.next + Size - h.count + k - 1
    BY <1>1
  <2>2. x % Size \in Slots
    BY <1>1, <2>1 DEF Slots
  <2> QED BY <2>1, <2>2 DEF IsHistory
<1>3. Held(h) = [k \in 1..h.count |-> h.drops[(h.next + Size - h.count + k - 1) % Size].id]
  BY DEF Held
<1>4. Held(h) \in [1..h.count -> Int]
  BY <1>2, <1>3
<1> QED BY <1>1, <1>4, IsASeq, LenProperties

LEMMA HeldIs ==
    ASSUME NEW h, IsHistory(h), NEW list \in Seq(Int), Keeps(h, list) PROVE Held(h) = list
<1>1. PICK n \in 0..Size : n = h.count
  BY DEF IsHistory
<1>2. PICK w \in Slots : w = h.next
  BY DEF IsHistory
<1>3. /\ n = Len(list) /\ (n < Size => w = n)
      /\ \A k \in 0..(n - 1) : h.drops[Place(n, w, k)].id = list[k + 1]
  BY <1>1, <1>2 DEF Keeps, Chain
<1>4. Held(h) \in Seq(Int) /\ Len(Held(h)) = Len(list)
  BY <1>1, <1>3, HeldIsSeq
<1>5. ASSUME NEW k \in 1..Len(Held(h)) PROVE Held(h)[k] = list[k]
  <2>1. k \in 1..n
    BY <1>3, <1>4
  <2>2. Held(h)[k] = h.drops[(w + Size - n + k - 1) % Size].id
    BY <1>1, <1>2, <2>1 DEF Held
  <2>3. Held(h)[k] = h.drops[Place(n, w, k - 1)].id
    BY <1>3, <2>1, <2>2, HeldPlace
  <2>4. k - 1 \in 0..(n - 1) /\ (k - 1) + 1 = k
    BY <2>1
  <2> QED BY <1>3, <2>3, <2>4
<1> QED BY <1>4, <1>5, SeqEqual

LEMMA FromPlace ==
    ASSUME NEW a \in Seq(Int), NEW m \in 1..Len(a), NEW b, b = SubSeq(a, m, Len(a))
    PROVE  b \in Seq(Int) /\ Len(b) = Len(a) - m + 1 /\ \A i \in 1..Len(b) : b[i] = a[m + i - 1]
<1>1. PICK n \in Nat : n = Len(a)
  BY LenProperties
<1>2. \A i \in m..n : a[i] \in Int
  BY <1>1
<1>3. m \in Int /\ n \in Int /\ m <= n
  BY <1>1
<1>4. /\ SubSeq(a, m, n) \in Seq(Int)
      /\ Len(SubSeq(a, m, n)) = IF m <= n THEN n - m + 1 ELSE 0
      /\ \A i \in 1..(n - m + 1) : SubSeq(a, m, n)[i] = a[m + i - 1]
  BY <1>2, <1>3, SubSeqProperties
<1> QED BY <1>1, <1>3, <1>4

LEMMA AllOfIt == ASSUME NEW a \in Seq(Int), a # <<>> PROVE SubSeq(a, 1, Len(a)) = a
<1>1. PICK m \in 1..Len(a) : m = 1
  OBVIOUS
<1>2. PICK b : b = SubSeq(a, m, Len(a))
  OBVIOUS
<1>3. b \in Seq(Int) /\ Len(b) = Len(a) - m + 1 /\ \A i \in 1..Len(b) : b[i] = a[m + i - 1]
  BY <1>2, FromPlace
<1>4. Len(b) = Len(a) /\ \A i \in 1..Len(b) : b[i] = a[i]
  BY <1>1, <1>3
<1>5. b = a
  BY <1>3, <1>4, SeqEqual
<1> QED BY <1>1, <1>2, <1>5

(* The newest, at most Size, of a list and one more                          *)
NewestOf(list, c) ==
    LET all == Append(list, c) IN SubSeq(all, Most(1, Len(all) - Size + 1), Len(all))

LEMMA NewestGrows ==
    ASSUME NEW s \in Seq(Int), Len(s) < Size, NEW c \in Int
    PROVE  /\ NewestOf(s, c) \in Seq(Int) /\ Len(NewestOf(s, c)) = Len(s) + 1
           /\ NewestOf(s, c)[Len(s) + 1] = c
           /\ \A i \in 1..Len(s) : NewestOf(s, c)[i] = s[i]
<1>1. PICK a : a = Append(s, c)
  OBVIOUS
<1>2. a \in Seq(Int) /\ Len(a) = Len(s) + 1 /\ a[Len(s) + 1] = c
      /\ \A i \in 1..Len(s) : a[i] = s[i]
  BY <1>1, AppendProperties
<1>3. Most(1, Len(a) - Size + 1) = 1 /\ a # <<>>
  BY <1>2, HistorySizesAssumption DEF Most
<1>4. SubSeq(a, 1, Len(a)) = a
  BY <1>2, <1>3, AllOfIt
<1>5. NewestOf(s, c) = a
  BY <1>1, <1>3, <1>4 DEF NewestOf
<1> QED BY <1>2, <1>5

LEMMA NewestMoves ==
    ASSUME NEW s \in Seq(Int), Len(s) = Size, NEW c \in Int
    PROVE  /\ NewestOf(s, c) \in Seq(Int) /\ Len(NewestOf(s, c)) = Size
           /\ NewestOf(s, c)[Size] = c
           /\ \A i \in 1..(Size - 1) : NewestOf(s, c)[i] = s[i + 1]
<1>1. PICK a : a = Append(s, c)
  OBVIOUS
<1>2. a \in Seq(Int) /\ Len(a) = Size + 1 /\ a[Size + 1] = c
      /\ \A i \in 1..Size : a[i] = s[i]
  BY <1>1, AppendProperties
<1>3. Most(1, Len(a) - Size + 1) = 2 /\ a # <<>>
  BY <1>2, HistorySizesAssumption DEF Most
<1>4. PICK b : b = Tail(a)
  OBVIOUS
<1>5. b = SubSeq(a, 2, Len(a))
  BY <1>2, <1>3, <1>4, TailIsSubSeq
<1>6. NewestOf(s, c) = b
  BY <1>1, <1>3, <1>5 DEF NewestOf
<1>7. b \in Seq(Int) /\ Len(b) = Len(a) - 1 /\ \A i \in 1..Len(b) : b[i] = a[i + 1]
  BY <1>2, <1>3, <1>4, HeadTailProperties
<1>8. Len(b) = Size /\ Size \in Nat \ {0}
  BY <1>2, <1>7, HistorySizesAssumption
<1>9. b[Size] = c
  <2>1. Size \in 1..Len(b)
    BY <1>8
  <2> QED BY <1>2, <1>7, <2>1
<1>10. ASSUME NEW i \in 1..(Size - 1) PROVE b[i] = s[i + 1]
  <2>1. i \in 1..Len(b) /\ i + 1 \in 1..Size
    BY <1>8
  <2> QED BY <1>2, <1>7, <2>1
<1> QED BY <1>6, <1>7, <1>8, <1>9, <1>10

-----------------------------------------------------------------------------
(* Types                                                                   *)
LEMMA DoneGrows ==
    ASSUME NEW d \in [charges : Nat, requests : Nat, failures : Nat, losses : Nat]
    PROVE  /\ LET k == [d EXCEPT !.charges = d.charges + 1] IN
                k \in [charges : Nat, requests : Nat, failures : Nat, losses : Nat]
                /\ k.charges = d.charges + 1
           /\ LET k == [d EXCEPT !.requests = d.requests + 1] IN
                k \in [charges : Nat, requests : Nat, failures : Nat, losses : Nat]
                /\ k.charges = d.charges
           /\ LET k == [d EXCEPT !.failures = d.failures + 1] IN
                k \in [charges : Nat, requests : Nat, failures : Nat, losses : Nat]
                /\ k.charges = d.charges
           /\ LET k == [d EXCEPT !.losses = d.losses + 1] IN
                k \in [charges : Nat, requests : Nat, failures : Nat, losses : Nat]
                /\ k.charges = d.charges
OBVIOUS

(* Where the steps of a task lead                                             *)
ChargeTo(pc) ==
    IsTask(charge') /\ charge'.pc = pc /\ charge'.sum = charge.sum
RequestTo(pc) ==
    IsTask(request') /\ request'.pc = pc /\ request'.profile = request.profile

LEMMA StepTo == ASSUME HistoryTypes, NEW pc, Step(pc) PROVE ChargeTo(pc)
BY SetPc DEF Step, ChargeTo, HistoryTypes

LEMMA RequestStepTo ==
    ASSUME HistoryTypes, NEW pc, request' = [request EXCEPT !.pc = pc] PROVE RequestTo(pc)
<1>1. IsTask(request)
  BY DEF HistoryTypes
<1>2. PICK k : k = request'
  OBVIOUS
<1>3. IsTask(k) /\ k.pc = pc /\ k.profile = request.profile
  BY <1>1, <1>2, SetPc
<1> QED BY <1>2, <1>3 DEF RequestTo

LEMMA BeginTo ==
    ASSUME HistoryTypes, NEW pc, NEW p, Begin(pc, p)
    PROVE  /\ IsTask(request') /\ request'.pc = pc /\ request'.profile = p
           /\ request.pc = "idle"
           /\ done' \in [charges : Nat, requests : Nat, failures : Nat, losses : Nat]
           /\ done'.charges = done.charges
<1>1. PICK i : i = [Idle EXCEPT !.pc = pc]
  OBVIOUS
<1>2. i = [pc |-> pc, sum |-> 0, profile |-> 0]
  BY <1>1 DEF Idle
<1>3. request' = [i EXCEPT !.profile = p]
  BY <1>1 DEF Begin
<1>4. request' = [pc |-> pc, sum |-> 0, profile |-> p]
  BY <1>2, <1>3
<1>5. IsTask(request') /\ request'.pc = pc /\ request'.profile = p
  BY <1>4 DEF IsTask
<1>6. done' = [done EXCEPT !.requests = done.requests + 1]
  BY DEF Begin
<1>7. done' \in [charges : Nat, requests : Nat, failures : Nat, losses : Nat]
      /\ done'.charges = done.charges
  BY <1>6, DoneGrows DEF HistoryTypes
<1> QED BY <1>5, <1>7 DEF Begin

LEMMA TypesCharged ==
    ASSUME HistoryTypes, Charged
    PROVE  HistoryTypes' /\ ChargeTo("put") /\ done'.charges = done.charges + 1
<1>1. ChargeTo("put")
  BY StepTo DEF Charged
<1>2. done' = [done EXCEPT !.charges = done.charges + 1]
  BY DEF Charged
<1>3. done' \in [charges : Nat, requests : Nat, failures : Nat, losses : Nat]
      /\ done'.charges = done.charges + 1
  BY <1>2, DoneGrows DEF HistoryTypes
<1> QED BY <1>1, <1>3 DEF Charged, HistoryTypes, ChargeTo

LEMMA TypesPut ==
    ASSUME HistoryTypes, Put
    PROVE  /\ HistoryTypes' /\ ChargeTo("next")
           /\ ring'.count = ring.count /\ ring'.next = ring.next /\ ring'.has = ring.has
           /\ ring'.drops = [ring.drops EXCEPT ![ring.next] = Rec(done.charges, gain[selected])]
<1>1. ChargeTo("next")
  BY StepTo DEF Put
<1>2. ring.next \in Slots /\ IsHistory(ring) /\ done.charges \in Int
  BY DEF HistoryTypes, IsHistory
<1>3. /\ IsHistory(ring') /\ ring'.count = ring.count /\ ring'.next = ring.next
      /\ ring'.has = ring.has
      /\ ring'.drops = [ring.drops EXCEPT ![ring.next] = Rec(done.charges, gain[selected])]
  <2>1. PICK w \in Slots : w = ring.next
    BY <1>2
  <2>2. PICK id \in Int : id = done.charges
    BY <1>2
  <2>3. PICK g : g = gain[selected]
    OBVIOUS
  <2>4. PICK k : k = WithDrop(ring, w, id, g)
    OBVIOUS
  <2>5. ring' = k
    BY <2>1, <2>2, <2>3, <2>4 DEF Put, WithDrop
  <2>6. /\ IsHistory(k) /\ k.count = ring.count /\ k.next = ring.next /\ k.has = ring.has
        /\ k.drops = [ring.drops EXCEPT ![w] = Rec(id, g)]
    BY <1>2, <2>4, SetDrop
  <2> QED BY <2>1, <2>2, <2>3, <2>5, <2>6
<1> QED BY <1>1, <1>3 DEF Put, HistoryTypes, ChargeTo

LEMMA TypesAdvance ==
    ASSUME HistoryTypes, Advance
    PROVE  /\ HistoryTypes' /\ ChargeTo("count")
           /\ ring'.count = ring.count /\ ring'.next = After(ring.next) /\ ring'.has = ring.has
           /\ ring'.drops = ring.drops
<1>1. ChargeTo("count")
  BY StepTo DEF Advance
<1>2. ring.next \in Slots /\ IsHistory(ring)
  BY DEF HistoryTypes, IsHistory
<1>3. PICK w : w = After(ring.next)
  OBVIOUS
<1>4. w \in Slots /\ ring' = [ring EXCEPT !.next = w]
  BY <1>2, <1>3, OneAround DEF Advance
<1>5. /\ IsHistory(ring') /\ ring'.count = ring.count /\ ring'.next = w
      /\ ring'.has = ring.has /\ ring'.drops = ring.drops
  BY <1>2, <1>4, SetNext
<1> QED BY <1>1, <1>3, <1>5 DEF Advance, HistoryTypes, ChargeTo

LEMMA TypesCount ==
    ASSUME HistoryTypes, Count
    PROVE  /\ HistoryTypes' /\ ChargeTo("check")
           /\ ring'.count = Least(ring.count + 1, Size) /\ ring'.next = ring.next
           /\ ring'.has = ring.has /\ ring'.drops = ring.drops
<1>1. ChargeTo("check")
  BY StepTo DEF Count
<1>2. PICK n : n = Least(ring.count + 1, Size)
  OBVIOUS
<1>3. n \in 0..Size
  BY <1>2, HistorySizesAssumption DEF Least, HistoryTypes, IsHistory
<1>4. ring' = [ring EXCEPT !.count = n] /\ IsHistory(ring)
  BY <1>2 DEF Count, HistoryTypes
<1>5. /\ IsHistory(ring') /\ ring'.count = n /\ ring'.next = ring.next
      /\ ring'.has = ring.has /\ ring'.drops = ring.drops
  BY <1>3, <1>4, SetCount
<1>6. latest' \in Seq(Int) /\ Len(latest') <= Size
  <2>1. PICK s \in Seq(Int) : s = latest
    BY DEF HistoryTypes
  <2>2. PICK c \in Int : c = done.charges
    BY DEF HistoryTypes
  <2>3. latest' = NewestOf(s, c)
    BY <2>1, <2>2 DEF Count, NewestOf
  <2>4. Len(s) < Size \/ Len(s) = Size
    BY <2>1, HistorySizesAssumption DEF HistoryTypes
  <2>5. CASE Len(s) < Size
    BY <2>3, <2>5, NewestGrows, HistorySizesAssumption
  <2>6. CASE Len(s) = Size
    BY <2>3, <2>6, NewestMoves, HistorySizesAssumption
  <2> QED BY <2>4, <2>5, <2>6
<1> QED BY <1>1, <1>2, <1>5, <1>6 DEF Count, HistoryTypes, ChargeTo

LEMMA TypesCheck ==
    ASSUME HistoryTypes, Check
    PROVE  HistoryTypes' /\ ChargeTo(IF ring.count >= Enough THEN "sum" ELSE "copy")
<1>1. ChargeTo(IF ring.count >= Enough THEN "sum" ELSE "copy")
  BY StepTo DEF Check
<1> QED BY <1>1 DEF Check, HistoryTypes, ChargeTo

LEMMA TypesSumUp ==
    ASSUME HistoryTypes, SumUp
    PROVE  /\ HistoryTypes'
           /\ ring.count < Enough =>
                /\ ChargeTo("copy") /\ ring'.count = ring.count
           /\ ~(ring.count < Enough) =>
                /\ charge'.pc = "suggest" /\ ring' = ring
                /\ charge'.sum = IF HasNaN(ring) THEN NaN ELSE Summed(ring)
<1>1. CASE ring.count < Enough
  <2>1. ChargeTo("copy") /\ ring' = [ring EXCEPT !.has = FALSE] /\ IsHistory(ring)
    BY <1>1, StepTo DEF SumUp, HistoryTypes
  <2>2. IsHistory(ring') /\ ring'.count = ring.count
    BY <2>1, SetHas
  <2> QED BY <1>1, <2>1, <2>2 DEF SumUp, HistoryTypes, ChargeTo
<1>2. CASE ~(ring.count < Enough)
  <2>1. PICK k : k = [charge EXCEPT !.pc = "suggest"]
    OBVIOUS
  <2>2. IsTask(k) /\ k.pc = "suggest"
    <3>1. IsTask(charge)
      BY DEF HistoryTypes
    <3> QED BY <2>1, <3>1, SetPc
  <2>3. PICK x : x = IF HasNaN(ring) THEN NaN ELSE Summed(ring)
    OBVIOUS
  <2>4. charge' = [k EXCEPT !.sum = x]
    BY <1>2, <2>1, <2>3 DEF SumUp, Summed
  <2>5. IsTask(charge') /\ charge'.pc = "suggest" /\ charge'.sum = x
    BY <2>2, <2>4 DEF IsTask
  <2> QED BY <1>2, <2>3, <2>5 DEF SumUp, HistoryTypes
<1> QED BY <1>1, <1>2

LEMMA TypesSuggest ==
    ASSUME HistoryTypes, Suggest
    PROVE  /\ HistoryTypes' /\ charge'.pc = "has"
           /\ ring'.count = ring.count /\ ring'.next = ring.next /\ ring'.has = ring.has
           /\ ring'.drops = ring.drops
           /\ \E adj \in {0, 1} : ring'.suggested = Suggestion(charge.sum, ring.count, adj)
<1>1. IsTask(charge') /\ charge'.pc = "has"
  BY IdleIsTask, SetPc DEF Suggest
<1>2. PICK adj \in {0, 1} : ring' = [ring EXCEPT !.suggested = Suggestion(charge.sum, ring.count, adj)]
  BY DEF Suggest
<1>3. /\ IsHistory(ring') /\ ring'.count = ring.count /\ ring'.next = ring.next
      /\ ring'.has = ring.has /\ ring'.drops = ring.drops
      /\ ring'.suggested = Suggestion(charge.sum, ring.count, adj)
  <2>1. PICK s : s = Suggestion(charge.sum, ring.count, adj)
    OBVIOUS
  <2>2. IsHistory(ring) /\ ring' = [ring EXCEPT !.suggested = s]
    BY <1>2, <2>1 DEF HistoryTypes
  <2>3. /\ IsHistory(ring') /\ ring'.count = ring.count /\ ring'.next = ring.next
        /\ ring'.has = ring.has /\ ring'.drops = ring.drops /\ ring'.suggested = s
    BY <2>2, SetSuggested
  <2> QED BY <2>1, <2>3
<1> QED BY <1>1, <1>3 DEF Suggest, HistoryTypes

LEMMA TypesHas ==
    ASSUME HistoryTypes, Has
    PROVE  /\ HistoryTypes' /\ ChargeTo("copy")
           /\ ring'.count = ring.count /\ ring'.next = ring.next /\ ring'.has = TRUE
           /\ ring'.drops = ring.drops /\ ring'.suggested = ring.suggested
<1>1. ChargeTo("copy")
  BY StepTo DEF Has
<1>2. /\ IsHistory(ring') /\ ring'.count = ring.count /\ ring'.next = ring.next
      /\ ring'.has = TRUE /\ ring'.drops = ring.drops /\ ring'.suggested = ring.suggested
  BY SetHas DEF Has, HistoryTypes
<1> QED BY <1>1, <1>2 DEF Has, HistoryTypes, ChargeTo

(* A program step, of whichever task                                         *)
Programmed ==
    /\ \/ flash' = Pages(image) /\ stale' = FALSE
       \/ flash' = flash /\ stale' = TRUE
    /\ done' \in [charges : Nat, requests : Nat, failures : Nat, losses : Nat]
    /\ done'.charges = done.charges

LEMMA ProgramTo == ASSUME HistoryTypes, NEW pc, NEW to, Program(pc, to)
                   PROVE  pc = "program" /\ Programmed /\ IsFlash(flash')
<1>1. CASE flash' = Pages(image) /\ stale' = FALSE /\ UNCHANGED done
  BY <1>1 DEF Program, Programmed, HistoryTypes, IsFlash
<1>2. CASE done' = [done EXCEPT !.failures = done.failures + 1] /\ stale' = TRUE /\ UNCHANGED flash
  <2>1. done' \in [charges : Nat, requests : Nat, failures : Nat, losses : Nat]
        /\ done'.charges = done.charges
    BY <1>2, DoneGrows DEF HistoryTypes
  <2> QED BY <1>2, <2>1 DEF Program, Programmed, HistoryTypes
<1> QED BY <1>1, <1>2 DEF Program

LEMMA TypesChargeSaves ==
    ASSUME HistoryTypes, ChargeSaves
    PROVE  /\ HistoryTypes'
           /\ \/ /\ charge.pc = "copy" /\ charge'.pc = "program" /\ image' = ring
                 /\ UNCHANGED <<flash, stale, done>>
              \/ charge.pc = "program" /\ charge'.pc = "idle" /\ Programmed /\ UNCHANGED image
<1>1. CASE Copy(charge.pc, "program") /\ Step("program") /\ UNCHANGED <<flash, stale, done>>
  <2>1. ChargeTo("program")
    BY <1>1, StepTo
  <2> QED BY <1>1, <2>1 DEF ChargeSaves, HistoryTypes, ChargeTo, Copy
<1>2. CASE Program(charge.pc, "idle") /\ charge' = Idle /\ UNCHANGED image
  <2>1. charge.pc = "program" /\ Programmed /\ IsFlash(flash')
    BY <1>2, ProgramTo
  <2> QED BY <1>2, <2>1, IdleIsTask DEF ChargeSaves, HistoryTypes, Programmed
<1> QED BY <1>1, <1>2 DEF ChargeSaves

LEMMA TypesRequestSaves ==
    ASSUME HistoryTypes, RequestSaves
    PROVE  /\ HistoryTypes'
           /\ \/ /\ request.pc = "copy" /\ request'.pc = "program" /\ image' = ring
                 /\ UNCHANGED <<flash, stale, done>>
              \/ request.pc = "program" /\ request'.pc = "idle" /\ Programmed /\ UNCHANGED image
<1>1. CASE /\ Copy(request.pc, "program") /\ request' = [request EXCEPT !.pc = "program"]
           /\ UNCHANGED <<flash, stale, done>>
  <2>1. RequestTo("program")
    BY <1>1, RequestStepTo
  <2> QED BY <1>1, <2>1 DEF RequestSaves, HistoryTypes, RequestTo, Copy
<1>2. CASE Program(request.pc, "idle") /\ request' = Idle /\ UNCHANGED image
  <2>1. request.pc = "program" /\ Programmed /\ IsFlash(flash')
    BY <1>2, ProgramTo
  <2> QED BY <1>2, <2>1, IdleIsTask DEF RequestSaves, HistoryTypes, Programmed
<1> QED BY <1>1, <1>2 DEF RequestSaves

LEMMA TypesClear ==
    ASSUME HistoryTypes, Clear
    PROVE  HistoryTypes' /\ request.pc = "idle" /\ request'.pc = "copy" /\ done'.charges = done.charges
<1>1. /\ IsTask(request') /\ request'.pc = "copy" /\ request.pc = "idle"
      /\ done' \in [charges : Nat, requests : Nat, failures : Nat, losses : Nat]
      /\ done'.charges = done.charges
  BY BeginTo DEF Clear
<1>2. latest' \in Seq(Int) /\ Len(latest') <= Size
  BY HistorySizesAssumption DEF Clear
<1> QED BY <1>1, <1>2, EmptyIsHistory DEF Clear, HistoryTypes

LEMMA TypesApply ==
    ASSUME HistoryTypes, NEW p \in Profiles, Apply(p)
    PROVE  HistoryTypes' /\ request.pc = "idle" /\ request'.pc = "write" /\ done'.charges = done.charges
<1>1. /\ IsTask(request') /\ request'.pc = "write" /\ request.pc = "idle" /\ request'.profile = p
      /\ done' \in [charges : Nat, requests : Nat, failures : Nat, losses : Nat]
      /\ done'.charges = done.charges
  BY BeginTo DEF Apply
<1> QED BY <1>1 DEF Apply, HistoryTypes

LEMMA TypesWriteGains ==
    ASSUME HistoryTypes, WriteGains
    PROVE  HistoryTypes' /\ request'.pc = "count"
<1>1. IsTask(request') /\ request'.pc = "count"
  BY SetPc, IdleIsTask DEF WriteGains
<1> QED BY <1>1 DEF WriteGains, HistoryTypes

LEMMA TypesResetCount ==
    ASSUME HistoryTypes, ResetCount
    PROVE  HistoryTypes' /\ request'.pc = "next" /\ ring'.count = 0
<1>1. RequestTo("next")
  BY RequestStepTo DEF ResetCount
<1>2. PICK n \in 0..Size : n = 0
  BY HistorySizesAssumption
<1>3. IsHistory(ring') /\ ring'.count = n
  BY <1>2, SetCount DEF ResetCount, HistoryTypes
<1>4. latest' \in Seq(Int) /\ Len(latest') <= Size
  BY HistorySizesAssumption DEF ResetCount
<1> QED BY <1>1, <1>2, <1>3, <1>4 DEF ResetCount, HistoryTypes, RequestTo

LEMMA TypesResetNext ==
    ASSUME HistoryTypes, ResetNext
    PROVE  HistoryTypes' /\ request'.pc = "has" /\ ring'.count = ring.count /\ ring'.next = 0
<1>1. RequestTo("has")
  BY RequestStepTo DEF ResetNext
<1>2. PICK w \in Slots : w = 0
  BY HistorySizesAssumption DEF Slots
<1>3. IsHistory(ring') /\ ring'.count = ring.count /\ ring'.next = w
  BY <1>2, SetNext DEF ResetNext, HistoryTypes
<1> QED BY <1>1, <1>2, <1>3 DEF ResetNext, HistoryTypes, RequestTo

LEMMA TypesResetHas ==
    ASSUME HistoryTypes, ResetHas
    PROVE  /\ HistoryTypes' /\ request'.pc = "copy"
           /\ ring'.count = ring.count /\ ring'.next = ring.next /\ ring'.has = FALSE
<1>1. RequestTo("copy")
  BY RequestStepTo DEF ResetHas
<1>2. IsHistory(ring') /\ ring'.count = ring.count /\ ring'.next = ring.next /\ ring'.has = FALSE
  BY SetHas DEF ResetHas, HistoryTypes
<1> QED BY <1>1, <1>2 DEF ResetHas, HistoryTypes, RequestTo

LEMMA TypesConfigure ==
    ASSUME HistoryTypes, NEW p \in Profiles, NEW g, Configure(p, g)
    PROVE  HistoryTypes' /\ done'.charges = done.charges
<1>1. done' = [done EXCEPT !.requests = done.requests + 1]
  BY DEF Configure
<1>2. done' \in [charges : Nat, requests : Nat, failures : Nat, losses : Nat]
      /\ done'.charges = done.charges
  BY <1>1, DoneGrows DEF HistoryTypes
<1>3. gain' = [q \in Profiles |-> gain'[q]]
  BY DEF Configure, HistoryTypes
<1> QED BY <1>2, <1>3 DEF Configure, HistoryTypes

LEMMA TypesPowerLoss ==
    ASSUME HistoryTypes, PowerLoss
    PROVE  /\ HistoryTypes' /\ charge'.pc = "idle" /\ request'.pc = "idle"
           /\ ring' = Loaded(flash') /\ latest' = Held(Loaded(flash')) /\ ~stale'
           /\ done'.charges = done.charges /\ gain' = gain
           /\ \/ flash' \in {flash, BothErased}
              \/ flash'.first # Erased /\ flash'.second = Erased
           /\ mixed' = (mixed \/ (flash'.first # Erased /\ flash'.second = Erased))
<1>1. done' = [done EXCEPT !.losses = done.losses + 1]
  BY DEF PowerLoss
<1>2. done' \in [charges : Nat, requests : Nat, failures : Nat, losses : Nat]
      /\ done'.charges = done.charges
  BY <1>1, DoneGrows DEF HistoryTypes
<1>3. /\ flash' \in {flash, BothErased, HalfOf(image)}
      /\ ring' = Loaded(flash') /\ latest' = Held(Loaded(flash'))
      /\ mixed' = (mixed \/ (flash'.first # Erased /\ flash'.second = Erased))
  BY DEF PowerLoss, BothErased, HalfOf
<1>4. IsFlash(flash')
  BY <1>3 DEF IsFlash, HistoryTypes
<1>5. IsHistory(ring') /\ latest' \in Seq(Int) /\ Len(latest') = ring'.count
  BY <1>3, <1>4, LoadedIsHistory, HeldIsSeq
<1>6. Len(latest') <= Size
  BY <1>5, HistorySizesAssumption DEF IsHistory
<1>7. HalfOf(image).first # Erased /\ HalfOf(image).second = Erased
  <2>1. PICK page : page = [count |-> image.count, next |-> image.next,
                            drops |-> [i \in 0..(Front - 1) |-> image.drops[i]]]
    OBVIOUS
  <2>2. HalfOf(image).first = <<page>> /\ HalfOf(image).second = Erased
    BY <2>1 DEF HalfOf, Pages
  <2> QED BY <2>2 DEF Erased
<1>8. charge'.pc = "idle" /\ request'.pc = "idle" /\ IsTask(charge') /\ IsTask(request')
      /\ IsHistory(image')
  BY IdleIsTask, EmptyIsHistory DEF PowerLoss
<1>9. ~stale' /\ UNCHANGED <<gain, selected>>
  BY DEF PowerLoss
<1>10. HistoryTypes'
  BY <1>2, <1>4, <1>5, <1>6, <1>8, <1>9 DEF HistoryTypes
<1> QED BY <1>2, <1>3, <1>7, <1>8, <1>9, <1>10

LEMMA TypesNext == HistoryTypes /\ [HistoryNext]_historyVars => HistoryTypes'
<1> SUFFICES ASSUME HistoryTypes, [HistoryNext]_historyVars PROVE HistoryTypes'
  OBVIOUS
<1>1. CASE UNCHANGED historyVars
  BY <1>1 DEF historyVars, HistoryTypes
<1> QED BY <1>1, TypesCharged, TypesPut, TypesAdvance, TypesCount, TypesCheck, TypesSumUp,
           TypesSuggest, TypesHas, TypesChargeSaves, TypesRequestSaves, TypesClear, TypesApply,
           TypesWriteGains, TypesResetCount, TypesResetNext, TypesResetHas, TypesConfigure,
           TypesPowerLoss DEF HistoryNext

LEMMA TypesInit == HistoryInit => HistoryTypes
<1> SUFFICES ASSUME HistoryInit PROVE HistoryTypes
  OBVIOUS
<1>1. done \in [charges : Nat, requests : Nat, failures : Nat, losses : Nat]
  BY DEF HistoryInit
<1>2. flash = BothErased /\ latest \in Seq(Int) /\ Len(latest) <= Size
  BY HistorySizesAssumption DEF HistoryInit, BothErased
<1> QED BY <1>1, <1>2, IdleIsTask, EmptyIsHistory DEF HistoryInit, HistoryTypes, IsFlash

-----------------------------------------------------------------------------
(* The flash                                                               *)
LEMMA CopyNext == HistoryTypes /\ CopyInv /\ [HistoryNext]_historyVars => CopyInv'
<1> SUFFICES ASSUME HistoryTypes, CopyInv, [HistoryNext]_historyVars PROVE CopyInv'
  OBVIOUS
<1> USE DEF Settled, Saving, Quiet
<1>1. CASE Charged
  BY <1>1, TypesCharged DEF CopyInv, ChargeTo
<1>2. CASE Put
  BY <1>2, TypesPut DEF CopyInv, ChargeTo
<1>3. CASE Advance
  BY <1>3, TypesAdvance DEF CopyInv, ChargeTo
<1>4. CASE Count
  BY <1>4, TypesCount DEF CopyInv, ChargeTo
<1>5. CASE Check
  BY <1>5, TypesCheck DEF CopyInv, ChargeTo
<1>6. CASE SumUp
  BY <1>6, TypesSumUp DEF CopyInv, ChargeTo
<1>7. CASE Suggest
  BY <1>7, TypesSuggest DEF CopyInv
<1>8. CASE Has
  BY <1>8, TypesHas DEF CopyInv, ChargeTo
<1>9. CASE ChargeSaves
  <2>1. UNCHANGED <<ring, request>> /\ IsHistory(image)
    BY <1>9 DEF ChargeSaves, HistoryTypes
  <2>2. CASE charge.pc = "copy" /\ charge'.pc = "program" /\ image' = ring
    BY <2>1, <2>2 DEF CopyInv
  <2>3. CASE charge.pc = "program" /\ charge'.pc = "idle" /\ Programmed /\ UNCHANGED image
    <3>1. flash' = Pages(image) \/ stale'
      BY <2>3 DEF Programmed
    <3> QED BY <2>1, <2>3, <3>1, LoadedPages DEF CopyInv
  <2> QED BY <1>9, <2>2, <2>3, TypesChargeSaves
<1>10. CASE RequestSaves
  <2>1. UNCHANGED <<ring, charge>> /\ IsHistory(image)
    BY <1>10 DEF RequestSaves, HistoryTypes
  <2>2. CASE request.pc = "copy" /\ request'.pc = "program" /\ image' = ring
    BY <2>1, <2>2 DEF CopyInv
  <2>3. CASE request.pc = "program" /\ request'.pc = "idle" /\ Programmed /\ UNCHANGED image
    <3>1. flash' = Pages(image) \/ stale'
      BY <2>3 DEF Programmed
    <3> QED BY <2>1, <2>3, <3>1, LoadedPages DEF CopyInv
  <2> QED BY <1>10, <2>2, <2>3, TypesRequestSaves
<1>11. CASE Clear
  BY <1>11, TypesClear DEF CopyInv
<1>12. ASSUME NEW p \in Profiles, Apply(p) PROVE CopyInv'
  BY <1>12, TypesApply DEF CopyInv
<1>13. CASE WriteGains
  BY <1>13, TypesWriteGains DEF CopyInv
<1>14. CASE ResetCount
  BY <1>14, TypesResetCount DEF CopyInv
<1>15. CASE ResetNext
  BY <1>15, TypesResetNext DEF CopyInv
<1>16. CASE ResetHas
  BY <1>16, TypesResetHas DEF CopyInv
<1>17. ASSUME NEW p \in Profiles, Configure(p, MinGain) PROVE CopyInv'
  BY <1>17 DEF Configure, CopyInv
<1>18. CASE PowerLoss
  BY <1>18, TypesPowerLoss DEF CopyInv
<1>19. CASE UNCHANGED historyVars
  BY <1>19 DEF historyVars, CopyInv
<1> QED BY <1>1, <1>2, <1>3, <1>4, <1>5, <1>6, <1>7, <1>8, <1>9, <1>10, <1>11, <1>12, <1>13,
           <1>14, <1>15, <1>16, <1>17, <1>18, <1>19 DEF HistoryNext

LEMMA CopyAlways == HistorySpec => [](HistoryTypes /\ CopyInv)
<1>1. HistoryInit => CopyInv
  BY DEF HistoryInit, CopyInv, Quiet, Saving, Idle, Loaded
<1> QED BY <1>1, TypesInit, TypesNext, CopyNext, PTL DEF HistorySpec

(* When the charge task and the server have both finished, what a restart would   *)
(* load (load_history_from_flash) is what is in memory, unless the last save was   *)
(* refused, although both copy into g_write_buffer without a lock.              *)
THEOREM FlashCorrect == HistorySpec => []FlashIsCurrent
<1>1. CopyInv => FlashIsCurrent
  BY DEF CopyInv, FlashIsCurrent, Settled, Quiet
<1> QED BY <1>1, CopyAlways, PTL

-----------------------------------------------------------------------------
(* What the steps of a record do to what the ring holds                        *)
LEMMA SameRing ==
    ASSUME NEW h, NEW k, k.count = h.count, k.drops = h.drops, NEW list
    PROVE  /\ k.next = h.next /\ Keeps(h, list) => Keeps(k, list)
           /\ \A w : Leaves(h, w, list) => Leaves(k, w, list)
           /\ Numbered(h) => Numbered(k)
           /\ Summed(k) = Summed(h)
BY DEF Keeps, Leaves, Chain, Numbered, Summed, Counted

Replaced(h, k, c, g) ==
    /\ k.count = h.count /\ k.next = h.next
    /\ \A i \in Slots : k.drops[i] = IF i = h.next THEN Rec(c, g) ELSE h.drops[i]

LEMMA PutKeepsOthers ==
    ASSUME NEW h, IsHistory(h), NEW k, NEW list \in Seq(Int), Keeps(h, list), Numbered(h),
           NEW c \in Int, NEW g, g # NaN,
           Replaced(h, k, c, g)
    PROVE  Leaves(k, k.next, list) /\ Numbered(k) /\ k.drops[k.next].id = c /\ k.drops[k.next].gain = g
<1>1. Size \in Nat \ {0} /\ h.count \in 0..Size /\ h.next \in 0..(Size - 1)
  BY HistorySizesAssumption DEF IsHistory, Slots
<1>2. Rec(c, g).id = c /\ Rec(c, g).gain = g
  BY DEF Rec
<1>3. /\ k.count = h.count /\ k.next = h.next
      /\ \A i \in Slots : k.drops[i] = IF i = h.next THEN Rec(c, g) ELSE h.drops[i]
  BY DEF Replaced
<1>4. k.drops[k.next].id = c /\ k.drops[k.next].gain = g
  BY <1>1, <1>2, <1>3 DEF Slots
<1>5. Numbered(k)
  BY <1>2, <1>3 DEF Numbered
<1>6. h.count = Len(list) /\ (h.count < Size => h.next = h.count)
      /\ \A i \in 0..(h.count - 1) : h.drops[Place(h.count, h.next, i)].id = list[i + 1]
  BY DEF Keeps, Chain
<1>7. ASSUME NEW i \in (IF h.count < Size THEN 0 ELSE 1)..(h.count - 1)
      PROVE  k.drops[Place(h.count, h.next, i)].id = list[i + 1]
  <2>1. i \in 0..(h.count - 1)
    BY <1>1
  <2>2. Place(h.count, h.next, i) \in Slots /\ Place(h.count, h.next, i) # h.next
    <3>1. CASE h.count < Size
      BY <1>1, <1>6, <2>1, <3>1 DEF Place, Slots
    <3>2. CASE h.count = Size
      BY <1>1, <2>1, <3>2 DEF Place, Slots
    <3> QED BY <1>1, <3>1, <3>2
  <2> QED BY <1>3, <1>6, <2>1, <2>2
<1>8. Leaves(k, k.next, list)
  BY <1>3, <1>6, <1>7 DEF Leaves, Chain
<1> QED BY <1>4, <1>5, <1>8

LEMMA CountKeeps ==
    ASSUME NEW h, IsHistory(h), NEW k, IsHistory(k), NEW list \in Seq(Int), NEW c \in Int,
           NEW w \in Slots, Leaves(h, w, list), h.drops[w].id = c, h.next = After(w),
           k.count = Least(h.count + 1, Size), k.next = h.next, k.drops = h.drops
    PROVE  Keeps(k, NewestOf(list, c))
<1>1. Size \in Nat \ {0} /\ h.count \in 0..Size /\ w \in 0..(Size - 1) /\ h.count = Len(list)
  BY HistorySizesAssumption DEF IsHistory, Slots, Leaves
<1>2. PICK new : new = NewestOf(list, c)
  OBVIOUS
<1>3. CASE h.count < Size
  <2>1. k.count = h.count + 1 /\ w = h.count
    BY <1>1, <1>3 DEF Least, Leaves, Chain
  <2>2. \A i \in 0..(h.count - 1) : h.drops[i].id = list[i + 1]
    BY <1>1, <1>3 DEF Leaves, Chain, Place
  <2>3. Len(new) = h.count + 1 /\ new[h.count + 1] = c /\ \A i \in 1..h.count : new[i] = list[i]
    <3>1. Len(list) < Size
      BY <1>1, <1>3
    <3>2. /\ Len(NewestOf(list, c)) = Len(list) + 1 /\ NewestOf(list, c)[Len(list) + 1] = c
          /\ \A i \in 1..Len(list) : NewestOf(list, c)[i] = list[i]
      BY <3>1, NewestGrows
    <3> QED BY <1>1, <1>2, <3>2
  <2>4. ASSUME NEW i \in 0..h.count PROVE k.drops[i].id = new[i + 1]
    <3>1. CASE i = h.count
      BY <2>1, <2>3, <3>1
    <3>2. CASE i \in 0..(h.count - 1)
      <4>1. i + 1 \in 1..h.count
        BY <1>1, <3>2
      <4> QED BY <2>2, <2>3, <3>2, <4>1
    <3> QED BY <1>1, <3>1, <3>2
  <2>5. k.count < Size => k.next = k.count
    BY <1>1, <2>1 DEF After
  <2>6. k.count = Size => k.next = 0
    BY <1>1, <2>1 DEF After
  <2>7. ASSUME NEW i \in 0..(k.count - 1) PROVE k.drops[Place(k.count, k.next, i)].id = new[i + 1]
    <3>1. i \in 0..h.count /\ i < Size
      BY <1>1, <1>3, <2>1
    <3>2. Place(k.count, k.next, i) = i
      <4>1. CASE k.count < Size
        BY <4>1 DEF Place
      <4>2. CASE k.count = Size
        BY <1>1, <2>6, <3>1, <4>2 DEF Place
      <4> QED BY <1>1, <1>3, <2>1, <4>1, <4>2
    <3> QED BY <2>4, <3>1, <3>2
  <2> QED BY <1>2, <2>1, <2>3, <2>5, <2>7 DEF Keeps, Chain
<1>4. CASE h.count = Size
  <2>1. k.count = Size
    BY <1>1, <1>4 DEF Least
  <2>2. Len(new) = Size /\ new[Size] = c /\ \A i \in 1..(Size - 1) : new[i] = list[i + 1]
    BY <1>1, <1>2, <1>4, NewestMoves
  <2>3. \A i \in 1..(Size - 1) :
           h.drops[IF w + i < Size THEN w + i ELSE w + i - Size].id = list[i + 1]
    <3>1. ~(h.count < Size)
      BY <1>1, <1>4
    <3>2. \A i \in 1..(h.count - 1) : h.drops[Place(h.count, w, i)].id = list[i + 1]
      BY <3>1 DEF Leaves, Chain
    <3> QED BY <1>4, <3>1, <3>2 DEF Place
  <2>4. ASSUME NEW i \in 0..(Size - 1)
        PROVE  k.drops[IF k.next + i < Size THEN k.next + i ELSE k.next + i - Size].id = new[i + 1]
    <3>1. CASE i = Size - 1
      <4>1. (IF k.next + i < Size THEN k.next + i ELSE k.next + i - Size) = w
        BY <1>1, <3>1 DEF After
      <4>2. i + 1 = Size
        BY <1>1, <3>1
      <4> QED BY <2>2, <4>1, <4>2
    <3>2. CASE i < Size - 1
      <4>1. i + 1 \in 1..(Size - 1)
        BY <1>1, <3>2
      <4>2. (IF k.next + i < Size THEN k.next + i ELSE k.next + i - Size)
               = IF w + (i + 1) < Size THEN w + (i + 1) ELSE w + (i + 1) - Size
        BY <1>1, <3>2 DEF After
      <4>3. new[i + 1] = list[(i + 1) + 1]
        BY <2>2, <4>1
      <4> QED BY <2>3, <4>1, <4>2, <4>3
    <3>3. i = Size - 1 \/ i < Size - 1
      BY <1>1
    <3> QED BY <3>1, <3>2, <3>3
  <2>5. ~(Size < Size)
    BY <1>1
  <2> QED BY <1>2, <2>1, <2>2, <2>4, <2>5 DEF Keeps, Chain, Place
<1> QED BY <1>1, <1>3, <1>4

LEMMA CountInOrder ==
    ASSUME NEW list \in Seq(Int), InOrder(list), NEW c \in Int, \A i \in 1..Len(list) : list[i] < c
    PROVE  InOrder(NewestOf(list, c)) /\ UpTo(NewestOf(list, c), c)
<1>1. Size \in Nat \ {0} /\ Len(list) \in 0..Size
  BY HistorySizesAssumption DEF InOrder
<1>2. PICK new : new = NewestOf(list, c)
  OBVIOUS
<1>3. \A i, j \in 1..Len(list) : i < j => list[i] < list[j]
  BY DEF InOrder
<1>4. CASE Len(list) < Size
  <2>1. /\ new \in Seq(Int) /\ Len(new) = Len(list) + 1 /\ new[Len(list) + 1] = c
        /\ \A i \in 1..Len(list) : new[i] = list[i]
    BY <1>2, <1>4, NewestGrows
  <2>2. ASSUME NEW i \in 1..Len(new), NEW j \in 1..Len(new), i < j PROVE new[i] < new[j]
    <3>1. i \in 1..Len(list) /\ (j \in 1..Len(list) \/ j = Len(list) + 1)
      <4>1. Len(new) = Len(list) + 1 /\ Len(list) \in Nat
        BY <1>1, <2>1
      <4> QED BY <2>2, <4>1
    <3> QED BY <1>3, <2>1, <2>2, <3>1
  <2>3. ASSUME NEW i \in 1..Len(new) PROVE new[i] <= c
    <3>1. i \in 1..Len(list) \/ i = Len(list) + 1
      BY <1>1, <2>1
    <3>2. CASE i \in 1..Len(list)
      <4>1. new[i] = list[i] /\ list[i] < c /\ list[i] \in Int
        BY <2>1, <3>2
      <4> QED BY <4>1
    <3>3. CASE i = Len(list) + 1
      BY <2>1, <3>3
    <3> QED BY <3>1, <3>2, <3>3
  <2>4. Len(new) <= Size
    BY <1>1, <1>4, <2>1
  <2> QED BY <1>2, <2>1, <2>2, <2>3, <2>4 DEF InOrder, UpTo
<1>5. CASE Len(list) = Size
  <2>1. /\ new \in Seq(Int) /\ Len(new) = Size /\ new[Size] = c
        /\ \A i \in 1..(Size - 1) : new[i] = list[i + 1]
    BY <1>2, <1>5, NewestMoves
  <2>2. ASSUME NEW i \in 1..(Size - 1)
        PROVE  new[i] = list[i + 1] /\ i + 1 \in 1..Len(list) /\ new[i] < c /\ new[i] \in Int
    <3>1. i + 1 \in 1..Len(list)
      BY <1>1, <1>5
    <3> QED BY <2>1, <3>1
  <2>3. ASSUME NEW i \in 1..Len(new), NEW j \in 1..Len(new), i < j PROVE new[i] < new[j]
    <3>1. i \in 1..(Size - 1) /\ (j \in 1..(Size - 1) \/ j = Size)
      BY <1>1, <2>1, <2>3
    <3>2. CASE j \in 1..(Size - 1)
      <4>1. list[i + 1] < list[j + 1]
        BY <1>3, <2>2, <2>3, <3>1, <3>2
      <4> QED BY <2>2, <3>1, <3>2, <4>1
    <3> QED BY <2>1, <2>2, <3>1, <3>2
  <2>4. ASSUME NEW i \in 1..Len(new) PROVE new[i] <= c
    <3>1. i \in 1..(Size - 1) \/ i = Size
      BY <1>1, <2>1
    <3> QED BY <2>1, <2>2, <3>1
  <2> QED BY <1>1, <1>2, <2>1, <2>3, <2>4 DEF InOrder, UpTo
<1> QED BY <1>1, <1>4, <1>5

-----------------------------------------------------------------------------
(* The charge task                                                         *)
LEMMA StoredLater ==
    ASSUME NEW h, NEW n \in Int, Stored(h, n), NEW m \in Int, n <= m PROVE Stored(h, m)
<1>1. PICK list : Whole(h, list) /\ UpTo(list, n)
  BY DEF Stored
<1>2. UpTo(list, m)
  BY <1>1 DEF UpTo, Whole, InOrder
<1> QED BY <1>1, <1>2 DEF Stored

LEMMA WholeStored ==
    ASSUME HistoryTypes, Whole(ring, latest), UpTo(latest, done.charges)
    PROVE  Stored(ring, done.charges)
BY DEF Stored, HistoryTypes

(* What a step of the charge task leaves alone                                 *)
LEMMA ChargeStep ==
    ASSUME HistoryTypes, HoldInv, ~mixed, charge.pc # "idle",
           UNCHANGED <<gain, request, flash, mixed>>, done'.charges = done.charges
    PROVE  /\ GainsHeld' /\ FlashHeld' /\ WhileAsked' /\ request'.pc = "idle"
           /\ charge'.pc # "program" => ImageHeld'
           /\ WhileCharging /\ UpTo(latest, done.charges)
<1>1. request.pc = "idle" /\ WhileCharging /\ UpTo(latest, done.charges) /\ GainsHeld /\ FlashHeld
  BY DEF HoldInv, WhileCharging
<1>2. GainsHeld' /\ FlashHeld'
  BY <1>1 DEF GainsHeld, FlashHeld
<1>3. WhileAsked'
  BY <1>1 DEF WhileAsked
<1>4. charge'.pc # "program" => ImageHeld'
  BY <1>1 DEF ImageHeld, Saving
<1> QED BY <1>1, <1>2, <1>3, <1>4

LEMMA HoldCharged == ASSUME HistoryTypes, HoldInv, Charged PROVE HoldInv'
<1> SUFFICES ASSUME ~mixed' PROVE HoldInv'
  BY DEF HoldInv
<1>1. ~mixed /\ request.pc = "idle" /\ charge.pc = "idle"
      /\ UNCHANGED <<ring, flash, image, gain, selected, request, latest, stale>>
  BY DEF Charged
<1>2. charge'.pc = "put" /\ done'.charges = done.charges + 1 /\ done.charges \in Nat
  BY TypesCharged DEF ChargeTo, HistoryTypes
<1>3. Whole(ring, latest) /\ UpTo(latest, done.charges) /\ GainsHeld /\ FlashHeld
  BY <1>1 DEF HoldInv, Quiet
<1>4. \A i \in 1..Len(latest) : latest[i] < done'.charges
  BY <1>2, <1>3 DEF UpTo, HistoryTypes
<1>5. UpTo(latest', done'.charges)
  BY <1>1, <1>2, <1>4 DEF UpTo, HistoryTypes
<1>6. FlashHeld'
  <2>1. CASE flash = BothErased
    BY <1>1, <2>1 DEF FlashHeld
  <2>2. CASE \E h : Stored(h, done.charges) /\ flash = Pages(h)
    <3>1. PICK h : Stored(h, done.charges) /\ flash = Pages(h)
      BY <2>2
    <3>2. PICK n \in Int : n = done.charges
      BY <1>2
    <3>3. PICK m \in Int : m = done'.charges
      BY <1>2
    <3>4. Stored(h, m)
      BY <1>2, <3>1, <3>2, <3>3, StoredLater
    <3> QED BY <1>1, <3>1, <3>3, <3>4 DEF FlashHeld
  <2> QED BY <1>3, <2>1, <2>2 DEF FlashHeld
<1>7. GainsHeld' /\ ImageHeld' /\ WhileAsked'
  BY <1>1, <1>2, <1>3 DEF GainsHeld, ImageHeld, Saving, WhileAsked
<1>8. WhileCharging'
  BY <1>1, <1>2, <1>3, <1>4 DEF WhileCharging
<1> QED BY <1>2, <1>5, <1>6, <1>7, <1>8 DEF HoldInv, Quiet

LEMMA HoldPut == ASSUME HistoryTypes, HoldInv, Put PROVE HoldInv'
<1> SUFFICES ASSUME ~mixed' PROVE HoldInv'
  BY DEF HoldInv
<1>1. ~mixed /\ charge.pc = "put" /\ UNCHANGED <<flash, image, gain, selected, request, latest, mixed, done>>
  BY DEF Put
<1>2. /\ charge'.pc = "next"
      /\ ring'.count = ring.count /\ ring'.next = ring.next /\ ring'.has = ring.has
      /\ ring'.drops = [ring.drops EXCEPT ![ring.next] = Rec(done.charges, gain[selected])]
  BY TypesPut DEF ChargeTo
<1>3. /\ GainsHeld' /\ FlashHeld' /\ WhileAsked' /\ request'.pc = "idle" /\ ImageHeld'
      /\ WhileCharging /\ UpTo(latest, done.charges)
  BY <1>1, <1>2, ChargeStep
<1>4. Whole(ring, latest) /\ \A i \in 1..Len(latest) : latest[i] < done.charges
  BY <1>1, <1>3 DEF WhileCharging
<1>5. gain[selected] # NaN
  BY <1>1, <1>3 DEF GainsHeld, HistoryTypes
<1>6. /\ Leaves(ring', ring'.next, latest) /\ Numbered(ring')
      /\ ring'.drops[ring'.next].id = done.charges /\ ring'.drops[ring'.next].gain = gain[selected]
  <2>1. PICK c \in Int : c = done.charges
    BY DEF HistoryTypes
  <2>2. PICK g : g = gain[selected]
    OBVIOUS
  <2>3. PICK s \in Seq(Int) : s = latest
    BY DEF HistoryTypes
  <2>4. PICK k : k = ring'
    OBVIOUS
  <2>5. IsHistory(ring) /\ Keeps(ring, s) /\ Numbered(ring) /\ g # NaN
    BY <1>4, <1>5, <2>2, <2>3 DEF HistoryTypes, Whole
  <2>6. Replaced(ring, k, c, g)
    BY <1>2, <2>1, <2>2, <2>4, <2>5 DEF IsHistory, Replaced
  <2>7. Leaves(k, k.next, s) /\ Numbered(k) /\ k.drops[k.next].id = c /\ k.drops[k.next].gain = g
    BY <2>5, <2>6, PutKeepsOthers
  <2> QED BY <2>1, <2>2, <2>3, <2>4, <2>7
<1>7. Flagged(ring')
  BY <1>2, <1>4 DEF Flagged, Whole, Fits
<1>8. Newest(ring.next)'
  BY <1>1, <1>2, <1>5, <1>6 DEF Newest
<1>9. WhileCharging'
  BY <1>1, <1>2, <1>3, <1>4, <1>5, <1>6, <1>7, <1>8 DEF WhileCharging, Whole, Newest
<1> QED BY <1>1, <1>2, <1>3, <1>9 DEF HoldInv, Quiet

LEMMA HoldAdvance == ASSUME HistoryTypes, HoldInv, Advance PROVE HoldInv'
<1> SUFFICES ASSUME ~mixed' PROVE HoldInv'
  BY DEF HoldInv
<1>1. ~mixed /\ charge.pc = "next" /\ UNCHANGED <<flash, image, gain, selected, request, latest, mixed, done>>
  BY DEF Advance
<1>2. /\ charge'.pc = "count" /\ ring'.count = ring.count /\ ring'.next = After(ring.next)
      /\ ring'.has = ring.has /\ ring'.drops = ring.drops
  BY TypesAdvance DEF ChargeTo
<1>3. /\ GainsHeld' /\ FlashHeld' /\ WhileAsked' /\ request'.pc = "idle" /\ ImageHeld'
      /\ WhileCharging /\ UpTo(latest, done.charges)
  BY <1>1, <1>2, ChargeStep
<1>4. /\ InOrder(latest) /\ \A i \in 1..Len(latest) : latest[i] < done.charges
      /\ Numbered(ring) /\ Flagged(ring) /\ Leaves(ring, ring.next, latest) /\ Newest(ring.next)
  BY <1>1, <1>3 DEF WhileCharging
<1>5. PICK w \in Slots : w = ring.next
  BY DEF HistoryTypes, IsHistory
<1>6. Leaves(ring', w, latest) /\ Numbered(ring') /\ Flagged(ring')
  BY <1>2, <1>4, <1>5, SameRing DEF Flagged
<1>7. ring'.next = After(w) /\ ring'.drops[w].id = done'.charges /\ ring'.drops[w].gain # NaN
  BY <1>1, <1>2, <1>4, <1>5 DEF Newest
<1>8. WhileCharging'
  BY <1>1, <1>2, <1>3, <1>4, <1>6, <1>7 DEF WhileCharging, Newest
<1> QED BY <1>1, <1>2, <1>3, <1>8 DEF HoldInv, Quiet

LEMMA HoldCount == ASSUME HistoryTypes, HoldInv, Count PROVE HoldInv'
<1> SUFFICES ASSUME ~mixed' PROVE HoldInv'
  BY DEF HoldInv
<1>1. ~mixed /\ charge.pc = "count" /\ UNCHANGED <<flash, image, gain, selected, request, mixed, done>>
  BY DEF Count
<1>2. /\ charge'.pc = "check" /\ ring'.count = Least(ring.count + 1, Size) /\ ring'.next = ring.next
      /\ ring'.has = ring.has /\ ring'.drops = ring.drops /\ IsHistory(ring')
  BY TypesCount DEF ChargeTo, HistoryTypes
<1>3. /\ GainsHeld' /\ FlashHeld' /\ WhileAsked' /\ request'.pc = "idle" /\ ImageHeld'
      /\ WhileCharging /\ UpTo(latest, done.charges)
  BY <1>1, <1>2, ChargeStep
<1>4. /\ InOrder(latest) /\ \A i \in 1..Len(latest) : latest[i] < done.charges
      /\ Numbered(ring) /\ Flagged(ring)
  BY <1>1, <1>3 DEF WhileCharging
<1>5. PICK w \in Slots : ring.next = After(w) /\ Leaves(ring, w, latest) /\ Newest(w)
  BY <1>1, <1>3 DEF WhileCharging
<1>6. PICK c \in Int : c = done.charges
  BY DEF HistoryTypes
<1>7. PICK s \in Seq(Int) : s = latest
  BY DEF HistoryTypes
<1>8. latest' = NewestOf(s, c)
  BY <1>6, <1>7 DEF Count, NewestOf
<1>9. Keeps(ring', latest')
  <2>1. PICK k : k = ring'
    OBVIOUS
  <2>2. IsHistory(ring) /\ IsHistory(k) /\ Leaves(ring, w, s) /\ ring.drops[w].id = c
    BY <1>2, <1>5, <1>6, <1>7, <2>1 DEF HistoryTypes, Newest
  <2>3. k.count = Least(ring.count + 1, Size) /\ k.next = ring.next /\ k.drops = ring.drops
    BY <1>2, <2>1
  <2>4. Keeps(k, NewestOf(s, c))
    BY <1>5, <2>2, <2>3, CountKeeps
  <2> QED BY <1>8, <2>1, <2>4
<1>10. InOrder(latest') /\ UpTo(latest', done'.charges)
  <2>1. InOrder(s) /\ \A i \in 1..Len(s) : s[i] < c
    BY <1>4, <1>6, <1>7
  <2>2. InOrder(NewestOf(s, c)) /\ UpTo(NewestOf(s, c), c)
    BY <2>1, CountInOrder
  <2> QED BY <1>1, <1>6, <1>8, <2>2
<1>11. Size \in Nat /\ ring.count \in 0..Size /\ Enough \in Nat
  BY HistorySizesAssumption DEF HistoryTypes, IsHistory
<1>12. ring'.has => ring'.count >= Enough
  BY <1>2, <1>4, <1>11 DEF Flagged, Least
<1>13. Numbered(ring')
  <2>1. ASSUME NEW i \in Slots, i < ring'.count PROVE ring'.drops[i].gain # NaN
    <3>1. CASE i < ring.count
      BY <1>2, <1>4, <3>1 DEF Numbered
    <3>2. CASE ~(i < ring.count)
      <4>1. ring.count < Size /\ i = ring.count
        BY <1>2, <1>11, <2>1, <3>2, HistorySizesAssumption DEF Least, Slots
      <4>2. w = ring.count
        BY <1>5, <4>1 DEF Leaves, Chain
      <4> QED BY <1>2, <1>5, <4>1, <4>2 DEF Newest
    <3> QED BY <3>1, <3>2
  <2> QED BY <2>1 DEF Numbered
<1>14. WhileCharging'
  BY <1>2, <1>3, <1>9, <1>10, <1>12, <1>13 DEF WhileCharging
<1> QED BY <1>1, <1>2, <1>3, <1>10, <1>14 DEF HoldInv, Quiet

LEMMA HoldCheck == ASSUME HistoryTypes, HoldInv, Check PROVE HoldInv'
<1> SUFFICES ASSUME ~mixed' PROVE HoldInv'
  BY DEF HoldInv
<1>1. ~mixed /\ charge.pc = "check"
      /\ UNCHANGED <<ring, flash, image, gain, selected, request, latest, mixed, done>>
  BY DEF Check
<1>2. charge'.pc = IF ring.count >= Enough THEN "sum" ELSE "copy"
  BY TypesCheck DEF ChargeTo
<1>3. /\ GainsHeld' /\ FlashHeld' /\ WhileAsked' /\ request'.pc = "idle" /\ ImageHeld'
      /\ WhileCharging /\ UpTo(latest, done.charges)
  BY <1>1, <1>2, ChargeStep
<1>4. /\ Keeps(ring, latest) /\ InOrder(latest) /\ Numbered(ring)
      /\ ring.has => ring.count >= Enough
  BY <1>1, <1>3 DEF WhileCharging
<1>5. WhileCharging'
  <2>1. CASE ring.count >= Enough
    BY <1>1, <1>2, <1>3, <1>4, <2>1 DEF WhileCharging
  <2>2. CASE ~(ring.count >= Enough)
    <3>1. Fits(ring)
      BY <1>4, <2>2 DEF Fits, Flagged, HistoryTypes, IsHistory
    <3>2. Whole(ring', latest')
      BY <1>1, <1>4, <3>1 DEF Whole
    <3> QED BY <1>1, <1>2, <1>3, <2>2, <3>2 DEF WhileCharging
  <2> QED BY <2>1, <2>2
<1> QED BY <1>1, <1>2, <1>3, <1>5 DEF HoldInv, Quiet

LEMMA HoldSumUp == ASSUME HistoryTypes, HoldInv, SumUp PROVE HoldInv'
<1> SUFFICES ASSUME ~mixed' PROVE HoldInv'
  BY DEF HoldInv
<1>1. ~mixed /\ charge.pc = "sum"
      /\ UNCHANGED <<flash, image, gain, selected, request, latest, mixed, done>>
  BY DEF SumUp
<1>2. /\ request.pc = "idle" /\ Keeps(ring, latest) /\ InOrder(latest) /\ Numbered(ring)
      /\ (ring.has => ring.count >= Enough) /\ ring.count >= Enough
  BY <1>1 DEF HoldInv, WhileCharging
<1>3. ~(ring.count < Enough)
  BY <1>2, HistorySizesAssumption DEF HistoryTypes, IsHistory
<1>4. ~HasNaN(ring)
  BY <1>2 DEF HasNaN, Counted, Numbered
<1>5. charge'.pc = "suggest" /\ ring' = ring /\ charge'.sum = Summed(ring)
  BY <1>3, <1>4, TypesSumUp
<1>6. /\ GainsHeld' /\ FlashHeld' /\ WhileAsked' /\ request'.pc = "idle" /\ ImageHeld'
      /\ WhileCharging /\ UpTo(latest, done.charges)
  BY <1>1, <1>5, ChargeStep
<1>7. WhileCharging'
  BY <1>1, <1>2, <1>5, <1>6 DEF WhileCharging
<1> QED BY <1>1, <1>5, <1>6, <1>7 DEF HoldInv, Quiet

LEMMA HoldSuggest == ASSUME HistoryTypes, HoldInv, Suggest PROVE HoldInv'
<1> SUFFICES ASSUME ~mixed' PROVE HoldInv'
  BY DEF HoldInv
<1>1. ~mixed /\ charge.pc = "suggest"
      /\ UNCHANGED <<flash, image, gain, selected, request, latest, mixed, done>>
  BY DEF Suggest
<1>2. /\ charge'.pc = "has" /\ ring'.count = ring.count /\ ring'.next = ring.next
      /\ ring'.has = ring.has /\ ring'.drops = ring.drops
  BY TypesSuggest
<1>3. PICK adj \in {0, 1} : ring'.suggested = Suggestion(charge.sum, ring.count, adj)
  BY TypesSuggest
<1>4. /\ GainsHeld' /\ FlashHeld' /\ WhileAsked' /\ request'.pc = "idle" /\ ImageHeld'
      /\ WhileCharging /\ UpTo(latest, done.charges)
  BY <1>1, <1>2, ChargeStep
<1>5. /\ Keeps(ring, latest) /\ InOrder(latest) /\ Numbered(ring)
      /\ (ring.has => ring.count >= Enough) /\ ring.count >= Enough /\ charge.sum = Summed(ring)
  BY <1>1, <1>4 DEF WhileCharging
<1>6. Keeps(ring', latest) /\ Numbered(ring') /\ Summed(ring') = Summed(ring)
  BY <1>2, <1>5, SameRing
<1>7. ring'.suggested = Suggestion(Summed(ring'), ring'.count, adj)
  BY <1>2, <1>3, <1>5, <1>6
<1>8. WhileCharging'
  BY <1>1, <1>2, <1>4, <1>5, <1>6, <1>7 DEF WhileCharging
<1> QED BY <1>1, <1>2, <1>4, <1>8 DEF HoldInv, Quiet

LEMMA HoldHas == ASSUME HistoryTypes, HoldInv, Has PROVE HoldInv'
<1> SUFFICES ASSUME ~mixed' PROVE HoldInv'
  BY DEF HoldInv
<1>1. ~mixed /\ charge.pc = "has"
      /\ UNCHANGED <<flash, image, gain, selected, request, latest, mixed, done>>
  BY DEF Has
<1>2. /\ charge'.pc = "copy" /\ ring'.count = ring.count /\ ring'.next = ring.next
      /\ ring'.has = TRUE /\ ring'.drops = ring.drops /\ ring'.suggested = ring.suggested
  BY TypesHas DEF ChargeTo
<1>3. /\ GainsHeld' /\ FlashHeld' /\ WhileAsked' /\ request'.pc = "idle" /\ ImageHeld'
      /\ WhileCharging /\ UpTo(latest, done.charges)
  BY <1>1, <1>2, ChargeStep
<1>4. /\ Keeps(ring, latest) /\ InOrder(latest) /\ Numbered(ring) /\ ring.count >= Enough
      /\ \E adj \in {0, 1} : ring.suggested = Suggestion(Summed(ring), ring.count, adj)
  BY <1>1, <1>3 DEF WhileCharging
<1>5. Keeps(ring', latest) /\ Numbered(ring') /\ Summed(ring') = Summed(ring)
  BY <1>2, <1>4, SameRing
<1>6. Fits(ring')
  BY <1>2, <1>4, <1>5 DEF Fits, Flagged
<1>7. Whole(ring', latest')
  BY <1>1, <1>4, <1>5, <1>6 DEF Whole
<1>8. WhileCharging'
  BY <1>1, <1>2, <1>3, <1>7 DEF WhileCharging
<1> QED BY <1>1, <1>2, <1>3, <1>8 DEF HoldInv, Quiet

LEMMA HoldChargeSaves == ASSUME HistoryTypes, HoldInv, ChargeSaves PROVE HoldInv'
<1> SUFFICES ASSUME ~mixed' PROVE HoldInv'
  BY DEF HoldInv
<1>1. ~mixed /\ UNCHANGED <<ring, gain, selected, request, latest, mixed>>
  BY DEF ChargeSaves
<1>2. CASE charge.pc = "copy" /\ charge'.pc = "program" /\ image' = ring /\ UNCHANGED <<flash, stale, done>>
  <2>1. /\ GainsHeld' /\ FlashHeld' /\ WhileAsked' /\ request'.pc = "idle"
        /\ WhileCharging /\ UpTo(latest, done.charges)
    BY <1>1, <1>2, ChargeStep
  <2>2. Whole(ring, latest)
    BY <1>2, <2>1 DEF WhileCharging
  <2>3. ImageHeld'
    BY <1>2, <2>1, <2>2, WholeStored DEF ImageHeld
  <2>4. WhileCharging'
    BY <1>1, <1>2, <2>1, <2>2 DEF WhileCharging
  <2> QED BY <1>1, <1>2, <2>1, <2>3, <2>4 DEF HoldInv, Quiet
<1>3. CASE charge.pc = "program" /\ charge'.pc = "idle" /\ Programmed /\ UNCHANGED image
  <2>1. /\ request.pc = "idle" /\ Whole(ring, latest) /\ Stored(image, done.charges)
        /\ UpTo(latest, done.charges) /\ FlashHeld /\ GainsHeld
    BY <1>1, <1>3 DEF HoldInv, WhileCharging, ImageHeld, Saving
  <2>2. done'.charges = done.charges /\ (flash' = flash \/ flash' = Pages(image))
    BY <1>3 DEF Programmed
  <2>3. FlashHeld'
    BY <2>1, <2>2 DEF FlashHeld
  <2>4. GainsHeld' /\ ImageHeld' /\ WhileCharging' /\ WhileAsked'
    BY <1>1, <1>3, <2>1 DEF GainsHeld, ImageHeld, Saving, WhileCharging, WhileAsked
  <2> QED BY <1>1, <2>1, <2>2, <2>3, <2>4 DEF HoldInv
<1> QED BY <1>2, <1>3, TypesChargeSaves

-----------------------------------------------------------------------------
(* The server                                                              *)
LEMMA RequestStep ==
    ASSUME HistoryTypes, HoldInv, ~mixed, request.pc # "idle",
           UNCHANGED <<charge, flash, mixed>>, done'.charges = done.charges
    PROVE  /\ FlashHeld' /\ WhileCharging' /\ charge'.pc = "idle"
           /\ request'.pc # "program" => ImageHeld'
           /\ WhileAsked /\ UpTo(latest, done.charges) /\ GainsHeld
<1>1. charge.pc = "idle" /\ WhileAsked /\ UpTo(latest, done.charges) /\ GainsHeld /\ FlashHeld
  BY DEF HoldInv, WhileAsked
<1>2. FlashHeld'
  BY <1>1 DEF FlashHeld
<1>3. WhileCharging'
  BY <1>1 DEF WhileCharging
<1>4. request'.pc # "program" => ImageHeld'
  BY <1>1 DEF ImageHeld, Saving
<1> QED BY <1>1, <1>2, <1>3, <1>4

LEMMA EmptyWhole == Whole(Empty, <<>>) /\ \A n \in Int : UpTo(<<>>, n)
<1>1. Empty.count = 0 /\ Empty.next = 0
  BY DEF Empty
<1>2. Empty.has = FALSE
  BY DEF Empty
<1>3. Size \in Nat \ {0} /\ Enough \in Nat \ {0}
  BY HistorySizesAssumption
<1>4. Keeps(Empty, <<>>)
  BY <1>1, <1>3 DEF Keeps, Chain
<1>5. InOrder(<<>>) /\ \A n \in Int : UpTo(<<>>, n)
  BY <1>3 DEF InOrder, UpTo
<1>6. Numbered(Empty)
  BY <1>1, <1>3 DEF Numbered, Slots
<1>7. ~(Empty.count >= Enough)
  BY <1>1, <1>3
<1>8. Fits(Empty)
  BY <1>2, <1>7 DEF Fits, Flagged
<1> QED BY <1>4, <1>5, <1>6, <1>8 DEF Whole

LEMMA HoldClear == ASSUME HistoryTypes, HoldInv, Clear PROVE HoldInv'
<1> SUFFICES ASSUME ~mixed' PROVE HoldInv'
  BY DEF HoldInv
<1>1. ~mixed /\ charge.pc = "idle" /\ UNCHANGED <<flash, image, gain, selected, charge, stale>>
      /\ ring' = Empty /\ latest' = <<>>
  BY DEF Clear
<1>2. request.pc = "idle" /\ request'.pc = "copy" /\ done'.charges = done.charges
      /\ done.charges \in Int
  BY TypesClear DEF HistoryTypes
<1>3. GainsHeld /\ FlashHeld
  BY <1>1 DEF HoldInv
<1>4. Whole(ring', latest') /\ UpTo(latest', done'.charges)
  BY <1>1, <1>2, EmptyWhole
<1>5. GainsHeld' /\ FlashHeld' /\ ImageHeld' /\ WhileCharging'
  BY <1>1, <1>2, <1>3 DEF GainsHeld, FlashHeld, ImageHeld, Saving, WhileCharging
<1>6. WhileAsked'
  BY <1>1, <1>2, <1>4 DEF WhileAsked
<1> QED BY <1>2, <1>4, <1>5, <1>6 DEF HoldInv, Quiet

LEMMA HoldApply == ASSUME HistoryTypes, HoldInv, NEW p \in Profiles, Apply(p) PROVE HoldInv'
<1> SUFFICES ASSUME ~mixed' PROVE HoldInv'
  BY DEF HoldInv
<1>1. ~mixed /\ charge.pc = "idle" /\ UNCHANGED <<ring, flash, image, gain, charge, latest, stale>>
      /\ ring.has
  BY DEF Apply
<1>2. request.pc = "idle" /\ request'.pc = "write" /\ done'.charges = done.charges
  BY TypesApply
<1>3. GainsHeld /\ FlashHeld /\ Whole(ring, latest) /\ UpTo(latest, done.charges)
  BY <1>1, <1>2 DEF HoldInv, Quiet
<1>4. GainsHeld' /\ FlashHeld' /\ ImageHeld' /\ WhileCharging'
  BY <1>1, <1>2, <1>3 DEF GainsHeld, FlashHeld, ImageHeld, Saving, WhileCharging
<1>5. WhileAsked'
  BY <1>1, <1>2, <1>3 DEF WhileAsked
<1> QED BY <1>1, <1>2, <1>3, <1>4, <1>5 DEF HoldInv, Quiet

(* A number that was clamped is one, whatever was clamped.                     *)
LEMMA ClampedIsNumber == ASSUME NEW x PROVE Clamp(x) # NaN
<1>1. MinGain \in Nat \ {0} /\ MaxGain \in Nat
  BY HistorySizesAssumption
<1>2. CASE x = NaN
  BY <1>1, <1>2 DEF Clamp, Most, Least, NaN
<1>3. CASE x # NaN
  <2>1. Most(x, MinGain) # NaN
    BY <1>1, <1>3 DEF Most, NaN
  <2> QED BY <1>1, <2>1 DEF Clamp, Least, NaN
<1> QED BY <1>2, <1>3

LEMMA SuggestionIsNumber ==
    ASSUME NEW sum, NEW n, NEW adj PROVE Suggestion(sum, n, adj) # NaN
<1>1. MinGain # NaN /\ MaxGain # NaN
  BY HistorySizesAssumption DEF NaN
<1> QED BY <1>1, ClampedIsNumber DEF Suggestion

LEMMA HoldWriteGains == ASSUME HistoryTypes, HoldInv, WriteGains PROVE HoldInv'
<1> SUFFICES ASSUME ~mixed' PROVE HoldInv'
  BY DEF HoldInv
<1>1. ~mixed /\ request.pc = "write"
      /\ UNCHANGED <<ring, flash, image, selected, charge, latest, mixed, stale, done>>
      /\ gain' = [gain EXCEPT ![request.profile] = ring.suggested]
  BY DEF WriteGains
<1>2. request'.pc = "count"
  BY TypesWriteGains
<1>3. /\ FlashHeld' /\ WhileCharging' /\ charge'.pc = "idle" /\ ImageHeld'
      /\ WhileAsked /\ UpTo(latest, done.charges) /\ GainsHeld
  BY <1>1, <1>2, RequestStep
<1>4. Whole(ring, latest) /\ ring.has
  BY <1>1, <1>3 DEF WhileAsked
<1>5. ring.suggested # NaN
  BY <1>4, SuggestionIsNumber DEF Whole, Fits
<1>6. GainsHeld'
  BY <1>1, <1>3, <1>5 DEF GainsHeld, HistoryTypes
<1>7. WhileAsked'
  BY <1>1, <1>2, <1>3, <1>4 DEF WhileAsked, Whole
<1> QED BY <1>1, <1>2, <1>3, <1>6, <1>7 DEF HoldInv, Quiet

LEMMA HoldResetCount == ASSUME HistoryTypes, HoldInv, ResetCount PROVE HoldInv'
<1> SUFFICES ASSUME ~mixed' PROVE HoldInv'
  BY DEF HoldInv
<1>1. ~mixed /\ request.pc = "count" /\ latest' = <<>>
      /\ UNCHANGED <<flash, image, gain, selected, charge, mixed, stale, done>>
  BY DEF ResetCount
<1>2. request'.pc = "next" /\ ring'.count = 0 /\ done.charges \in Int
  BY TypesResetCount DEF HistoryTypes
<1>3. /\ FlashHeld' /\ WhileCharging' /\ charge'.pc = "idle" /\ ImageHeld'
      /\ WhileAsked /\ GainsHeld
  BY <1>1, <1>2, RequestStep
<1>4. GainsHeld' /\ UpTo(latest', done'.charges)
  BY <1>1, <1>2, <1>3, EmptyWhole DEF GainsHeld
<1>5. WhileAsked'
  BY <1>1, <1>2, <1>3 DEF WhileAsked
<1> QED BY <1>2, <1>3, <1>4, <1>5 DEF HoldInv, Quiet

LEMMA HoldResetNext == ASSUME HistoryTypes, HoldInv, ResetNext PROVE HoldInv'
<1> SUFFICES ASSUME ~mixed' PROVE HoldInv'
  BY DEF HoldInv
<1>1. ~mixed /\ request.pc = "next"
      /\ UNCHANGED <<flash, image, gain, selected, charge, latest, mixed, stale, done>>
  BY DEF ResetNext
<1>2. request'.pc = "has" /\ ring'.count = ring.count /\ ring'.next = 0
  BY TypesResetNext
<1>3. /\ FlashHeld' /\ WhileCharging' /\ charge'.pc = "idle" /\ ImageHeld'
      /\ WhileAsked /\ UpTo(latest, done.charges) /\ GainsHeld
  BY <1>1, <1>2, RequestStep
<1>4. WhileAsked'
  BY <1>1, <1>2, <1>3 DEF WhileAsked
<1> QED BY <1>1, <1>2, <1>3, <1>4 DEF HoldInv, Quiet, GainsHeld

LEMMA HoldResetHas == ASSUME HistoryTypes, HoldInv, ResetHas PROVE HoldInv'
<1> SUFFICES ASSUME ~mixed' PROVE HoldInv'
  BY DEF HoldInv
<1>1. ~mixed /\ request.pc = "has"
      /\ UNCHANGED <<flash, image, gain, selected, charge, latest, mixed, stale, done>>
  BY DEF ResetHas
<1>2. request'.pc = "copy" /\ ring'.count = ring.count /\ ring'.next = ring.next /\ ring'.has = FALSE
  BY TypesResetHas
<1>3. /\ FlashHeld' /\ WhileCharging' /\ charge'.pc = "idle" /\ ImageHeld'
      /\ WhileAsked /\ UpTo(latest, done.charges) /\ GainsHeld
  BY <1>1, <1>2, RequestStep
<1>4. ring'.count = 0 /\ ring'.next = 0 /\ latest' = <<>>
  BY <1>1, <1>2, <1>3 DEF WhileAsked
<1>5. Size \in Nat \ {0} /\ Enough \in Nat \ {0}
  BY HistorySizesAssumption
<1>6. Keeps(ring', <<>>) /\ Numbered(ring')
  BY <1>4, <1>5 DEF Keeps, Chain, Numbered, Slots
<1>7. Fits(ring')
  <2>1. ~(ring'.count >= Enough)
    BY <1>4, <1>5
  <2> QED BY <1>2, <2>1 DEF Fits, Flagged
<1>8. Whole(ring', latest')
  BY <1>4, <1>6, <1>7, EmptyWhole DEF Whole
<1>9. WhileAsked'
  BY <1>2, <1>3, <1>8 DEF WhileAsked
<1> QED BY <1>1, <1>2, <1>3, <1>9 DEF HoldInv, Quiet, GainsHeld

LEMMA HoldRequestSaves == ASSUME HistoryTypes, HoldInv, RequestSaves PROVE HoldInv'
<1> SUFFICES ASSUME ~mixed' PROVE HoldInv'
  BY DEF HoldInv
<1>1. ~mixed /\ UNCHANGED <<ring, gain, selected, charge, latest, mixed>>
  BY DEF RequestSaves
<1>2. CASE request.pc = "copy" /\ request'.pc = "program" /\ image' = ring /\ UNCHANGED <<flash, stale, done>>
  <2>1. /\ FlashHeld' /\ WhileCharging' /\ charge'.pc = "idle"
        /\ WhileAsked /\ UpTo(latest, done.charges) /\ GainsHeld
    BY <1>1, <1>2, RequestStep
  <2>2. Whole(ring, latest)
    BY <1>2, <2>1 DEF WhileAsked
  <2>3. ImageHeld'
    BY <1>2, <2>1, <2>2, WholeStored DEF ImageHeld
  <2>4. WhileAsked'
    BY <1>1, <1>2, <2>1, <2>2 DEF WhileAsked
  <2> QED BY <1>1, <1>2, <2>1, <2>3, <2>4 DEF HoldInv, Quiet, GainsHeld
<1>3. CASE request.pc = "program" /\ request'.pc = "idle" /\ Programmed /\ UNCHANGED image
  <2>1. /\ charge.pc = "idle" /\ Whole(ring, latest) /\ Stored(image, done.charges)
        /\ UpTo(latest, done.charges) /\ FlashHeld /\ GainsHeld
    BY <1>1, <1>3 DEF HoldInv, WhileAsked, ImageHeld, Saving
  <2>2. done'.charges = done.charges /\ (flash' = flash \/ flash' = Pages(image))
    BY <1>3 DEF Programmed
  <2>3. FlashHeld'
    BY <2>1, <2>2 DEF FlashHeld
  <2>4. GainsHeld' /\ ImageHeld' /\ WhileCharging' /\ WhileAsked'
    BY <1>1, <1>3, <2>1 DEF GainsHeld, ImageHeld, Saving, WhileCharging, WhileAsked
  <2> QED BY <1>1, <2>1, <2>2, <2>3, <2>4 DEF HoldInv
<1> QED BY <1>2, <1>3, TypesRequestSaves

LEMMA HoldConfigure ==
    ASSUME HistoryTypes, HoldInv, NEW p \in Profiles, Configure(p, MinGain) PROVE HoldInv'
<1> SUFFICES ASSUME ~mixed' PROVE HoldInv'
  BY DEF HoldInv
<1>1. ~mixed /\ UNCHANGED <<ring, flash, image, charge, request, latest, mixed, stale>>
      /\ request.pc = "idle" /\ gain' = [gain EXCEPT ![p] = MinGain]
  BY DEF Configure
<1>2. done'.charges = done.charges
  BY TypesConfigure
<1>3. /\ GainsHeld /\ ImageHeld /\ FlashHeld /\ UpTo(latest, done.charges)
      /\ (Quiet => Whole(ring, latest)) /\ WhileCharging
  BY <1>1 DEF HoldInv
<1>4. GainsHeld'
  BY <1>1, <1>3, HistorySizesAssumption DEF GainsHeld, HistoryTypes, NaN
<1>5. ImageHeld' /\ FlashHeld'
  BY <1>1, <1>2, <1>3 DEF ImageHeld, FlashHeld, Saving
<1>6. WhileAsked'
  BY <1>1 DEF WhileAsked
<1>7. WhileCharging'
  BY <1>1, <1>2, <1>3 DEF WhileCharging, Newest
<1> QED BY <1>1, <1>2, <1>3, <1>4, <1>5, <1>6, <1>7 DEF HoldInv, Quiet

LEMMA HoldPowerLoss == ASSUME HistoryTypes, HoldInv, PowerLoss PROVE HoldInv'
<1> SUFFICES ASSUME ~mixed' PROVE HoldInv'
  BY DEF HoldInv
<1>1. /\ charge'.pc = "idle" /\ request'.pc = "idle"
      /\ ring' = Loaded(flash') /\ latest' = Held(Loaded(flash'))
      /\ done'.charges = done.charges /\ gain' = gain
      /\ flash' \in {flash, BothErased} \/ (flash'.first # Erased /\ flash'.second = Erased)
      /\ mixed' = (mixed \/ (flash'.first # Erased /\ flash'.second = Erased))
  BY TypesPowerLoss
<1>2. ~mixed /\ flash' \in {flash, BothErased}
  BY <1>1
<1>3. GainsHeld /\ FlashHeld
  BY <1>2 DEF HoldInv
<1>4. FlashHeld'
  BY <1>1, <1>2, <1>3 DEF FlashHeld
<1>5. PICK n \in Int : n = done.charges
  BY DEF HistoryTypes
<1>6. Whole(ring', latest') /\ UpTo(latest', n)
  <2>1. CASE flash' = BothErased
    <3>1. Loaded(flash') = Empty
      BY <2>1 DEF BothErased, Loaded
    <3>2. Held(Empty) = <<>>
      <4>1. Keeps(Empty, <<>>) /\ <<>> \in Seq(Int)
        BY EmptyWhole DEF Whole
      <4> QED BY <4>1, EmptyIsHistory, HeldIs
    <3> QED BY <1>1, <3>1, <3>2, EmptyWhole
  <2>2. CASE \E h : Stored(h, done.charges) /\ flash' = Pages(h)
    <3>1. PICK h : Stored(h, n) /\ flash' = Pages(h)
      BY <1>5, <2>2
    <3>2. PICK list : Whole(h, list) /\ UpTo(list, n) /\ IsHistory(h)
      BY <3>1 DEF Stored
    <3>3. list \in Seq(Int) /\ Keeps(h, list)
      BY <3>2 DEF Whole, InOrder
    <3>4. Held(h) = list /\ Loaded(flash') = h
      BY <3>1, <3>2, <3>3, HeldIs, LoadedPages
    <3> QED BY <1>1, <3>2, <3>4
  <2> QED BY <1>2, <1>3, <2>1, <2>2 DEF FlashHeld
<1>7. GainsHeld' /\ ImageHeld' /\ WhileCharging' /\ WhileAsked'
  BY <1>1, <1>3 DEF GainsHeld, ImageHeld, Saving, WhileCharging, WhileAsked
<1> QED BY <1>1, <1>4, <1>5, <1>6, <1>7 DEF HoldInv

LEMMA HoldNext == HistoryTypes /\ HoldInv /\ [HistoryNext]_historyVars => HoldInv'
<1> SUFFICES ASSUME HistoryTypes, HoldInv, [HistoryNext]_historyVars PROVE HoldInv'
  OBVIOUS
<1>1. CASE UNCHANGED historyVars
  BY <1>1 DEF historyVars, HoldInv, GainsHeld, ImageHeld, FlashHeld, Quiet, Saving,
              WhileCharging, WhileAsked, Newest
<1> QED BY <1>1, HoldCharged, HoldPut, HoldAdvance, HoldCount, HoldCheck, HoldSumUp,
           HoldSuggest, HoldHas, HoldChargeSaves, HoldRequestSaves, HoldClear, HoldApply,
           HoldWriteGains, HoldResetCount, HoldResetNext, HoldResetHas, HoldConfigure,
           HoldPowerLoss DEF HistoryNext

LEMMA HoldInit == HistoryInit => HoldInv
<1> SUFFICES ASSUME HistoryInit PROVE HoldInv
  OBVIOUS
<1>1. /\ ring = Empty /\ latest = <<>> /\ flash = BothErased
      /\ charge.pc = "idle" /\ request.pc = "idle" /\ done.charges \in Int
      /\ gain = [p \in Profiles |-> MaxGain]
  BY DEF HistoryInit, BothErased, Idle
<1>2. Whole(ring, latest) /\ UpTo(latest, done.charges)
  BY <1>1, EmptyWhole
<1>3. GainsHeld
  BY <1>1, HistorySizesAssumption DEF GainsHeld, NaN
<1> QED BY <1>1, <1>2, <1>3 DEF HoldInv, ImageHeld, FlashHeld, Saving, WhileCharging, WhileAsked

LEMMA HoldAlways == HistorySpec => [](HistoryTypes /\ HoldInv)
BY TypesInit, TypesNext, HoldInit, HoldNext, PTL DEF HistorySpec

(* As many charges as are counted are in the ring, as the list in order has them. *)
LEMMA WholeIds ==
    ASSUME NEW h, IsHistory(h), NEW list, Whole(h, list)
    PROVE  /\ Ids(h) = {list[k] : k \in DOMAIN list}
           /\ Cardinality(Ids(h)) = h.count
<1>1. PICK n \in 0..Size : n = h.count
  BY DEF IsHistory
<1>2. PICK w \in Slots : w = h.next
  BY DEF IsHistory
<1>3. Size \in Nat \ {0} /\ w \in 0..(Size - 1)
  BY HistorySizesAssumption DEF Slots
<1>4. /\ list \in Seq(Int) /\ Len(list) = n /\ (n < Size => w = n)
      /\ \A i \in 0..(n - 1) : h.drops[Place(n, w, i)].id = list[i + 1]
      /\ \A i, j \in 1..n : i < j => list[i] < list[j]
  BY <1>1, <1>2 DEF Whole, Keeps, Chain, InOrder
<1>5. DOMAIN list = 1..n
  BY <1>4
<1>6. ASSUME NEW x \in Ids(h) PROVE \E k \in 1..n : list[k] = x
  <2>1. PICK i \in 0..(n - 1) : h.drops[i].id = x
    BY <1>1, <1>3 DEF Ids, Counted, Slots
  <2>2. PICK j \in 0..(n - 1) : Place(n, w, j) = i
    <3>1. CASE n < Size
      BY <2>1, <3>1 DEF Place
    <3>2. CASE n = Size
      <4>1. CASE i >= w
        <5>1. i - w \in 0..(n - 1) /\ Place(n, w, i - w) = i
          BY <1>3, <3>2, <4>1 DEF Place
        <5> QED BY <5>1
      <4>2. CASE i < w
        <5>1. i - w + Size \in 0..(n - 1) /\ Place(n, w, i - w + Size) = i
          BY <1>3, <3>2, <4>2 DEF Place
        <5> QED BY <5>1
      <4> QED BY <1>3, <4>1, <4>2
    <3> QED BY <1>3, <3>1, <3>2
  <2>3. j + 1 \in 1..n /\ list[j + 1] = x
    BY <1>4, <2>1, <2>2
  <2> QED BY <2>3
<1>7. ASSUME NEW k \in 1..n PROVE list[k] \in Ids(h)
  <2>1. k - 1 \in 0..(n - 1) /\ (k - 1) + 1 = k
    OBVIOUS
  <2>2. PICK i : i = Place(n, w, k - 1)
    OBVIOUS
  <2>3. i \in Slots /\ i < n
    BY <1>3, <1>4, <2>1, <2>2 DEF Place, Slots
  <2>4. h.drops[i].id = list[k]
    BY <1>4, <2>1, <2>2
  <2> QED BY <1>1, <2>3, <2>4 DEF Ids, Counted
<1>8. Ids(h) = {list[k] : k \in 1..n}
  BY <1>6, <1>7
<1>9. Cardinality(Ids(h)) = n
  <2>1. PICK f : f = [k \in 1..n |-> list[k]]
    OBVIOUS
  <2>2. f \in [1..n -> Ids(h)]
    BY <1>7, <2>1
  <2>3. \A i, j \in 1..n : f[i] = f[j] => i = j
    <3> SUFFICES ASSUME NEW i \in 1..n, NEW j \in 1..n, f[i] = f[j], i # j PROVE FALSE
      OBVIOUS
    <3>1. list[i] = list[j] /\ list[i] \in Int /\ list[j] \in Int
      BY <1>4, <2>1
    <3>2. i < j \/ j < i
      OBVIOUS
    <3> QED BY <1>4, <3>1, <3>2
  <2>4. \A x \in Ids(h) : \E k \in 1..n : f[k] = x
    BY <1>6, <2>1
  <2>5. f \in Bijection(1..n, Ids(h))
    BY <2>2, <2>3, <2>4 DEF Bijection, Injection, Surjection, IsInjective
  <2>6. ExistsBijection(1..n, Ids(h))
    BY <2>5 DEF ExistsBijection
  <2>7. n \in Nat
    BY <1>3
  <2> QED BY <2>6, <2>7, FS_CountingElements
<1> QED BY <1>1, <1>5, <1>8, <1>9

(* When nothing is under way, the ring holds the charges recorded last, each once, *)
(* whether it has wrapped around, was emptied (ai_tuning_clear_history,          *)
(* ai_tuning_apply_refined_params) or was loaded after a power loss, unless a     *)
(* request fell into a record or half an image was loaded.                      *)
THEOREM LatestHeldCorrect == HistorySpec => []HoldsLatest
<1>1. HistoryTypes /\ HoldInv => HoldsLatest
  <2> SUFFICES ASSUME HistoryTypes, HoldInv, Quiet, ~mixed
               PROVE  /\ Ids(ring) = {latest[k] : k \in DOMAIN latest}
                      /\ Cardinality(Ids(ring)) = ring.count
    BY DEF HoldsLatest
  <2>1. Whole(ring, latest) /\ IsHistory(ring)
    BY DEF HoldInv, HistoryTypes
  <2> QED BY <2>1, WholeIds
<1> QED BY <1>1, HoldAlways, PTL

(* When nothing is under way, there is a suggestion just when enough charges are   *)
(* counted, and it is that of the charges counted now                            *)
(* (ai_tuning_calculate_refinements), with the same exception.                   *)
THEOREM SuggestionCorrect == HistorySpec => []SuggestionFits
<1>1. HistoryTypes /\ HoldInv => SuggestionFits
  <2> SUFFICES ASSUME HoldInv, Quiet, ~mixed
               PROVE  /\ ring.has <=> ring.count >= Enough
                      /\ ring.has => \E adj \in {0, 1} :
                           ring.suggested = Suggestion(Sum(ring.drops, Counted(ring)), ring.count, adj)
    BY DEF SuggestionFits
  <2>1. Whole(ring, latest)
    BY DEF HoldInv
  <2> QED BY <2>1 DEF Whole, Fits, Flagged, Summed
<1> QED BY <1>1, HoldAlways, PTL

-----------------------------------------------------------------------------
(* The forms of the display (MenuForms)                                     *)

USE DEF shownVars, profileVars, InForm, Pressed

-----------------------------------------------------------------------------
(* The table of ways: what the proofs need of it.                            *)
LEMMA WaysLead ==
    ASSUME NEW f, NEW g, <<f, g>> \in Ways
    PROVE  /\ g \notin {0, 11, 12}
           /\ g = 13 => f \in {11, 12}
           /\ g = 33 => f \in {10, 32}
BY DEF Ways, StartForms, SettingsForms, DeviceForms, OtherForms, From

(* What a form says it does is what the state it leaves with starts.         *)
LEMMA SaysWhatStarts ==
    ASSUME NEW f \in Leaving
    PROVE  /\ LeavesWith[f] \in Codes \ {0}
           /\ Starts[LeavesWith[f]] = Says[f]
           /\ LeavesWith[f] = 1 => f = 13
BY DEF Leaving, LeavesWith, Says, Starts, Codes

-----------------------------------------------------------------------------
(* exit_state stands for something somebody asked for.                       *)
AskedInv == exitState \in Codes /\ (exitState # 0 => Starts[exitState] \in asked)

LEMMA AskedInductive == AskedInv /\ [MenuNext]_menuVars => AskedInv'
<1> SUFFICES ASSUME AskedInv, [MenuNext]_menuVars PROVE AskedInv'
  OBVIOUS
<1> USE DEF AskedInv
<1>1. CASE Press \/ NextToWeight \/ EditorTurn \/ EditorSave \/ EditorCancel \/ ChangeValue
  BY <1>1 DEF Press, NextToWeight, EditorTurn, EditorSave, EditorCancel, ChangeValue
<1>2. CASE LeaveForm
  BY <1>2, SaysWhatStarts DEF LeaveForm
<1>3. CASE TakeOverride \/ ModeEnds \/ ModeTakes \/ CalibrationWaits \/ CalibrationTakes
           \/ PostOverride \/ DropOverride
  BY <1>3 DEF TakeOverride, ModeEnds, ModeTakes, CalibrationWaits, CalibrationTakes,
              PostOverride, DropOverride
<1>4. CASE Dispatch \/ Restart
  BY <1>4 DEF Dispatch, Restart, Taken, Codes
<1>5. ASSUME NEW f, Follow(f) PROVE AskedInv'
  BY <1>5 DEF Follow
<1>6. ASSUME NEW n, TurnDigits(n) PROVE AskedInv'
  BY <1>6 DEF TurnDigits
<1>7. ASSUME NEW p, PickProfile(p) \/ RequestProfile(p) PROVE AskedInv'
  BY <1>7 DEF PickProfile, RequestProfile, AnotherRequest
<1>8. ASSUME NEW code \in {2, 5}, RequestMode(code) PROVE AskedInv'
  BY <1>8 DEF RequestMode, Codes
<1>9. ASSUME NEW w, RequestTarget(w) \/ RequestPlaces(w) PROVE AskedInv'
  BY <1>9 DEF RequestTarget, RequestPlaces, AnotherRequest
<1>10. CASE UNCHANGED menuVars
  BY <1>10 DEF menuVars
<1> QED
  BY <1>1, <1>2, <1>3, <1>4, <1>5, <1>6, <1>7, <1>8, <1>9, <1>10 DEF MenuNext

(* The mode changes in three actions only, and only one of them starts one.   *)
LEMMA ModeChanges ==
    ASSUME [MenuNext]_menuVars, mode' # mode, mode' # "forms"
    PROVE  Dispatch
<1>1. CASE Press \/ NextToWeight \/ EditorTurn \/ EditorSave \/ EditorCancel \/ ChangeValue
           \/ LeaveForm \/ TakeOverride
  BY <1>1 DEF Press, NextToWeight, EditorTurn, EditorSave, EditorCancel, ChangeValue,
              LeaveForm, TakeOverride
<1>2. CASE ModeEnds \/ ModeTakes \/ CalibrationWaits \/ CalibrationTakes
           \/ PostOverride \/ DropOverride \/ Restart
  BY <1>2 DEF ModeEnds, ModeTakes, CalibrationWaits, CalibrationTakes,
              PostOverride, DropOverride, Restart
<1>3. ASSUME NEW f, Follow(f) PROVE FALSE
  BY <1>3 DEF Follow
<1>4. ASSUME NEW n, TurnDigits(n) PROVE FALSE
  BY <1>4 DEF TurnDigits
<1>5. ASSUME NEW p, PickProfile(p) \/ RequestProfile(p) PROVE FALSE
  BY <1>5 DEF PickProfile, RequestProfile
<1>6. ASSUME NEW x, RequestMode(x) \/ RequestTarget(x) \/ RequestPlaces(x) PROVE FALSE
  BY <1>6 DEF RequestMode, RequestTarget, RequestPlaces
<1>7. CASE UNCHANGED menuVars
  BY <1>7 DEF menuVars
<1> QED
  BY <1>1, <1>2, <1>3, <1>4, <1>5, <1>6, <1>7 DEF MenuNext

(* The menu task starts only what was asked for since it last looked, whatever  *)
(* overrides are left in the queue (menu_task's switch, fds_data).            *)
THEOREM RunsCorrect == MenuSpec => RunsWhatWasAsked
<1>1. MenuInit => AskedInv
  BY DEF MenuInit, AskedInv, Codes
<1>2. AskedInv /\ [MenuNext]_menuVars
        => [mode' # mode /\ mode' # "forms" => mode' \in asked]_menuVars
  <2> SUFFICES ASSUME AskedInv, [MenuNext]_menuVars, mode' # mode, mode' # "forms"
               PROVE  mode' \in asked
    OBVIOUS
  <2>1. mode' = Starts[exitState]
    BY ModeChanges DEF Dispatch
  <2>2. Starts[0] = "forms"
    BY DEF Starts, Codes
  <2> QED BY <2>1, <2>2 DEF AskedInv
<1> QED BY <1>1, <1>2, AskedInductive, PTL DEF MenuSpec, RunsWhatWasAsked

-----------------------------------------------------------------------------
(* The weight of a form that shows one, and of a charge that is to start, is    *)
(* that of the digits with the point where the operator saw it.               *)
Shown == IF shown.places = 2 THEN digits * 10 ELSE digits

ShownInv ==
    /\ shown \in [weight : Nat, places : {0, 2, 3}] /\ places \in {0, 2, 3}
    /\ form = 11 => shown.places = 2
    /\ form = 12 => shown.places = 3
    /\ form = 33 => saved \in {10, 32}
    /\ form = 13 => shown.weight = Shown /\ shown.places # 0
    /\ exitState = 1 => shown.weight = Shown /\ shown.places # 0 /\ form = 0 /\ mode = "forms"
    /\ digits \in Nat

LEMMA ShownInductive == ShownInv /\ [MenuNext]_menuVars => ShownInv'
<1> SUFFICES ASSUME ShownInv, [MenuNext]_menuVars PROVE ShownInv'
  OBVIOUS
<1> USE DEF ShownInv, Shown
<1>1. CASE Press \/ EditorTurn \/ EditorSave \/ EditorCancel \/ ChangeValue
  BY <1>1 DEF Press, EditorTurn, EditorSave, EditorCancel, ChangeValue
<1>2. CASE NextToWeight
  <2>1. shown' = [weight |-> shown.weight, places |-> places]
    BY <1>2 DEF NextToWeight
  <2> QED BY <1>2, <2>1 DEF NextToWeight, WeightForm
<1>3. CASE LeaveForm
  BY <1>3, SaysWhatStarts DEF LeaveForm
<1>4. CASE TakeOverride \/ ModeTakes \/ CalibrationWaits \/ CalibrationTakes
           \/ PostOverride \/ DropOverride
  BY <1>4 DEF TakeOverride, ModeTakes, CalibrationWaits, CalibrationTakes,
              PostOverride, DropOverride
<1>5. CASE ModeEnds
  <2>1. mode # "forms" /\ form' \in {1, 31, 37, 40}
    BY <1>5 DEF ModeEnds, Returns
  <2> QED BY <1>5, <2>1 DEF ModeEnds
<1>6. CASE Dispatch
  BY <1>6 DEF Dispatch, Taken
<1>7. CASE Restart
  BY <1>7 DEF Restart
<1>8. ASSUME NEW f, Follow(f) PROVE ShownInv'
  <2>1. /\ f \notin {0, 11, 12}
        /\ f = 13 => form \in {11, 12}
        /\ f = 33 => form \in {10, 32}
    BY <1>8, WaysLead DEF Follow
  <2>2. CASE f = 13
    <3>1. shown' = [weight |-> WeightOn(form, digits), places |-> shown.places]
      BY <1>8, <2>2 DEF Follow
    <3>2. shown'.weight = Shown' /\ shown'.weight \in Nat
      BY <1>8, <2>1, <2>2, <3>1 DEF Follow, WeightOn
    <3> QED BY <1>8, <2>1, <2>2, <3>1, <3>2 DEF Follow
  <2>3. CASE f # 13
    BY <1>8, <2>1, <2>3 DEF Follow
  <2> QED BY <2>2, <2>3
<1>9. ASSUME NEW n \in Numbers, TurnDigits(n) PROVE ShownInv'
  BY <1>9, MenuFormsAssumption DEF TurnDigits
<1>10. ASSUME NEW p, PickProfile(p) \/ RequestProfile(p) PROVE ShownInv'
  BY <1>10 DEF PickProfile, RequestProfile, AnotherRequest
<1>11. ASSUME NEW code \in {2, 5}, RequestMode(code) PROVE ShownInv'
  BY <1>11 DEF RequestMode
<1>12. ASSUME NEW w, RequestTarget(w) PROVE ShownInv'
  BY <1>12 DEF RequestTarget
<1>13. ASSUME NEW d \in {0, 2, 3}, RequestPlaces(d) PROVE ShownInv'
  BY <1>13 DEF RequestPlaces
<1>14. CASE UNCHANGED menuVars
  BY <1>14 DEF menuVars
<1> QED
  BY <1>1, <1>2, <1>3, <1>4, <1>5, <1>6, <1>7, <1>8, <1>9, <1>10, <1>11, <1>12, <1>13, <1>14
     DEF MenuNext

(* A charge started at the knob runs to the weight the operator confirmed, with *)
(* the point where it was shown, if the places are then what the form was       *)
(* chosen for (render_charge_mode_next_button against charge_mode_menu).       *)
THEOREM TargetCorrect == MenuSpec => TargetAsShown
<1>1. MenuInit => ShownInv
  BY DEF MenuInit, ShownInv, Shown
<1>2. ShownInv /\ [MenuNext]_menuVars
        => [exitState = 1 /\ mode' = "charge" /\ mode # "charge" /\ places = shown.places
              => target' = shown.weight]_menuVars
  <2> SUFFICES ASSUME ShownInv, [MenuNext]_menuVars, exitState = 1, mode' = "charge",
                      mode # "charge", places = shown.places
               PROVE  target' = shown.weight
    OBVIOUS
  <2>1. target' = TargetOf(digits)
    BY ModeChanges DEF Dispatch
  <2> QED BY <2>1 DEF TargetOf, ShownInv, Shown
<1> QED BY <1>1, <1>2, ShownInductive, PTL DEF MenuSpec, TargetAsShown

-----------------------------------------------------------------------------
(* An open editor holds the selected profile, or a request has selected one.    *)
EditorInv ==
    /\ editor \in [of : SUBSET MenuProfiles, edited : Nat, moved : BOOLEAN]
    /\ picked \in MenuProfiles /\ versions \in [MenuProfiles -> Nat]
    /\ form = 33 => saved \in {10, 32}
    /\ form = 47 => editor.moved \/ editor.of = {picked}

LEMMA EditorInductive == EditorInv /\ [MenuNext]_menuVars => EditorInv'
<1> SUFFICES ASSUME EditorInv, [MenuNext]_menuVars PROVE EditorInv'
  OBVIOUS
<1> USE DEF EditorInv
<1>1. CASE Press \/ ChangeValue \/ LeaveForm \/ TakeOverride \/ Dispatch \/ ModeTakes
           \/ CalibrationWaits \/ CalibrationTakes \/ PostOverride \/ DropOverride
  BY <1>1 DEF Press, ChangeValue, LeaveForm, TakeOverride, Dispatch, ModeTakes,
              CalibrationWaits, CalibrationTakes, PostOverride, DropOverride
<1>2. CASE NextToWeight
  BY <1>2 DEF NextToWeight, WeightForm
<1>3. CASE EditorTurn
  <2>1. editor' = [of |-> editor.of, edited |-> editor.edited + 1, moved |-> editor.moved]
    BY <1>3 DEF EditorTurn
  <2> QED BY <1>3, <2>1 DEF EditorTurn
<1>4. CASE EditorSave \/ EditorCancel
  BY <1>4 DEF EditorSave, EditorCancel
<1>5. CASE ModeEnds
  BY <1>5 DEF ModeEnds, Returns
<1>6. CASE Restart
  <2>1. versions' \in [MenuProfiles -> Nat]
    BY <1>6 DEF Restart
  <2> QED BY <1>6, <2>1 DEF Restart, NoEditor
<1>7. ASSUME NEW f, Follow(f) PROVE EditorInv'
  <2>1. f = 33 => form \in {10, 32}
    BY <1>7, WaysLead DEF Follow
  <2>2. CASE f = 47
    BY <1>7, <2>2 DEF Follow, Load
  <2>3. CASE f # 47
    BY <1>7, <2>1, <2>3 DEF Follow
  <2> QED BY <2>2, <2>3
<1>8. ASSUME NEW n, TurnDigits(n) PROVE EditorInv'
  BY <1>8 DEF TurnDigits
<1>9. ASSUME NEW p \in MenuProfiles, PickProfile(p) PROVE EditorInv'
  BY <1>9 DEF PickProfile
<1>10. ASSUME NEW p \in MenuProfiles, RequestProfile(p) PROVE EditorInv'
  <2>1. versions' \in [MenuProfiles -> Nat]
    BY <1>10 DEF RequestProfile
  <2>2. /\ editor' \in [of : SUBSET MenuProfiles, edited : Nat, moved : BOOLEAN]
        /\ form = 47 => editor'.moved
    BY <1>10 DEF RequestProfile
  <2> QED BY <1>10, <2>1, <2>2 DEF RequestProfile
<1>11. ASSUME NEW x, RequestMode(x) \/ RequestTarget(x) \/ RequestPlaces(x) PROVE EditorInv'
  BY <1>11 DEF RequestMode, RequestTarget, RequestPlaces
<1>12. CASE UNCHANGED menuVars
  BY <1>12 DEF menuVars
<1> QED
  BY <1>1, <1>2, <1>3, <1>4, <1>5, <1>6, <1>7, <1>8, <1>9, <1>10, <1>11, <1>12 DEF MenuNext

(* The editor saves to the profile it showed, unless a request selected one      *)
(* while it was open (profile_edit_load_values, profile_edit_save_values).      *)
THEOREM SavesCorrect == MenuSpec => SavesWhereLoaded
<1>1. MenuInit => EditorInv
  BY DEF MenuInit, EditorInv, NoEditor
<1>2. EditorInv /\ [MenuNext]_menuVars
        => [form = 47 /\ form' = 34 /\ versions' # versions
              => editor.moved \/ editor.of = {picked}]_menuVars
  BY DEF EditorInv
<1> QED BY <1>1, <1>2, EditorInductive, PTL DEF MenuSpec, SavesWhereLoaded

-----------------------------------------------------------------------------
(* The gains of the profiles (ProfileGains)                                 *)

Gain == Nat
Task == [pc : {"rest", "point", "take", "kp", "kd", "give"}, at : Table \cup {0},
         got : Gain \X Gain]
Intents == Table \X (Gain \X Gain)
Pointed(t) == t.pc \in {"take", "kp", "kd", "give"} => t.at \in Table

TypeInv ==
    /\ gains \in [Table -> Gain \X Gain] /\ current \in Table
    /\ mutex \in {"free", "loop", "server"} /\ loop \in Task /\ server \in Task
    /\ Pointed(loop) /\ Pointed(server)
    /\ meant \subseteq Intents
    /\ apart \in BOOLEAN /\ edits \in Nat

-----------------------------------------------------------------------------
(* A profile's pair is one that was meant for it, but for the one the server is *)
(* writing, which is meant as a whole; and the loop has copied a part of it.    *)
Holds(p) == <<p, gains[p]>> \in meant
Writing(p) == server.pc = "kd" /\ server.at = p
Owns(t, h) == t.pc \in {"kp", "kd", "give"} <=> mutex = h

WholeInv ==
    ~apart =>
    /\ Owns(loop, "loop") /\ Owns(server, "server")
    /\ \A p \in Table : ~Writing(p) => Holds(p)
    /\ server.pc \in {"take", "kp", "kd", "give"}
         => <<server.at, server.got>> \in meant
    /\ Writing(server.at) => gains[server.at][1] = server.got[1]
    /\ loop.pc \in {"kd", "give"} => loop.got[1] = gains[loop.at][1]
    /\ loop.pc = "give" => loop.got[2] = gains[loop.at][2]

USE DEF Gain, Task

LEMMA TypeInductive == TypeInv /\ [GainsNext]_gainsVars => TypeInv'
<1> SUFFICES ASSUME TypeInv, [GainsNext]_gainsVars PROVE TypeInv'
  OBVIOUS
<1> USE DEF TypeInv, Pointed
<1>1. CASE LoopPoints
  BY <1>1 DEF LoopPoints
<1>2. CASE LoopTakes
  <2>1. loop' = [pc |-> "kp", at |-> loop.at, got |-> loop.got]
    BY <1>2 DEF LoopTakes
  <2> QED BY <1>2, <2>1 DEF LoopTakes
<1>3. CASE LoopCopies
  <2>1. gains[loop.at] \in Gain \X Gain
    BY <1>3 DEF LoopCopies
  <2>2. CASE loop.pc = "kp"
    <3>1. loop' = [pc |-> "kd", at |-> loop.at, got |-> <<gains[loop.at][1], loop.got[2]>>]
      BY <1>3, <2>2 DEF LoopCopies
    <3> QED BY <1>3, <2>1, <2>2, <3>1 DEF LoopCopies
  <2>3. CASE loop.pc = "kd"
    <3>1. loop' = [pc |-> "give", at |-> loop.at, got |-> <<loop.got[1], gains[loop.at][2]>>]
      BY <1>3, <2>3 DEF LoopCopies
    <3> QED BY <1>3, <2>1, <2>3, <3>1 DEF LoopCopies
  <2> QED BY <1>3, <2>2, <2>3 DEF LoopCopies
<1>4. CASE LoopGives \/ ServerGives
  BY <1>4 DEF LoopGives, ServerGives, Rest
<1>5. CASE ServerPoints
  <2>1. server' = [pc |-> "take", at |-> current, got |-> server.got]
    BY <1>5 DEF ServerPoints
  <2>2. <<current, server.got>> \in Intents
    BY DEF Intents
  <2>3. meant' \subseteq Intents
    BY <1>5, <2>2 DEF ServerPoints
  <2>4. server' \in Task /\ Pointed(server)'
    BY <2>1
  <2>5. UNCHANGED <<gains, current, mutex, loop, apart, edits>>
    BY <1>5 DEF ServerPoints
  <2> QED BY <2>3, <2>4, <2>5
<1>6. CASE ServerTakes
  <2>1. server' = [pc |-> "kp", at |-> server.at, got |-> server.got]
    BY <1>6 DEF ServerTakes
  <2> QED BY <1>6, <2>1 DEF ServerTakes
<1>7. CASE ServerWrites
  <2>1. server.at \in Table /\ gains[server.at] \in Gain \X Gain
    BY <1>7 DEF ServerWrites
  <2>2. CASE server.pc = "kp"
    <3>1. gains' = [gains EXCEPT ![server.at] = <<server.got[1], gains[server.at][2]>>]
      BY <1>7, <2>1, <2>2 DEF ServerWrites
    <3>2. server' = [pc |-> "kd", at |-> server.at, got |-> server.got]
      BY <1>7, <2>2 DEF ServerWrites
    <3> QED BY <1>7, <2>1, <3>1, <3>2 DEF ServerWrites
  <2>3. CASE server.pc = "kd"
    <3>1. gains' = [gains EXCEPT ![server.at] = <<gains[server.at][1], server.got[2]>>]
      BY <1>7, <2>1, <2>3 DEF ServerWrites
    <3>2. server' = [pc |-> "give", at |-> server.at, got |-> server.got]
      BY <1>7, <2>3 DEF ServerWrites
    <3> QED BY <1>7, <2>1, <3>1, <3>2 DEF ServerWrites
  <2> QED BY <1>7, <2>2, <2>3 DEF ServerWrites
<1>8. ASSUME NEW p \in Table, MenuSelects(p) \/ WritesDirectly(p) PROVE TypeInv'
  <2>1. CASE MenuSelects(p)
    BY <2>1 DEF MenuSelects
  <2>2. CASE WritesDirectly(p)
    <3>1. <<p, <<edits + 1, edits + 1>>>> \in Intents
      BY DEF Intents
    <3>2. meant' \subseteq Intents
      BY <2>2, <3>1 DEF WritesDirectly
    <3> QED BY <2>2, <3>2 DEF WritesDirectly
  <2> QED BY <1>8, <2>1, <2>2
<1>9. ASSUME NEW p \in Table, NEW kp \in BOOLEAN, NEW kd \in BOOLEAN, Configured(p, kp, kd)
      PROVE  TypeInv'
  <2>1. gains[p] \in Gain \X Gain
    OBVIOUS
  <2> QED BY <1>9, <2>1 DEF Configured
<1>10. CASE UNCHANGED gainsVars
  BY <1>10 DEF gainsVars
<1> QED
  BY <1>1, <1>2, <1>3, <1>4, <1>5, <1>6, <1>7, <1>8, <1>9, <1>10 DEF GainsNext

(* The pairs that were meant stay, and what the mutex guards is left whole.      *)
LEMMA WholeInductive == TypeInv /\ WholeInv /\ [GainsNext]_gainsVars => WholeInv'
<1> SUFFICES ASSUME TypeInv, WholeInv, [GainsNext]_gainsVars, ~apart' PROVE WholeInv'
  BY DEF WholeInv
<1> USE DEF TypeInv, Pointed, WholeInv, Owns, Holds, Writing
<1>1. CASE LoopPoints
  BY <1>1 DEF LoopPoints
<1>2. CASE LoopTakes
  <2>1. loop' = [pc |-> "kp", at |-> loop.at, got |-> loop.got]
    BY <1>2 DEF LoopTakes
  <2> QED BY <1>2, <2>1 DEF LoopTakes
<1>3. CASE LoopCopies
  <2>1. gains[loop.at] \in Gain \X Gain
    BY <1>3 DEF LoopCopies
  <2>2. CASE loop.pc = "kp"
    <3>1. loop' = [pc |-> "kd", at |-> loop.at, got |-> <<gains[loop.at][1], loop.got[2]>>]
      BY <1>3, <2>2 DEF LoopCopies
    <3> QED BY <1>3, <2>1, <2>2, <3>1 DEF LoopCopies
  <2>3. CASE loop.pc = "kd"
    <3>1. loop' = [pc |-> "give", at |-> loop.at, got |-> <<loop.got[1], gains[loop.at][2]>>]
      BY <1>3, <2>3 DEF LoopCopies
    <3> QED BY <1>3, <2>1, <2>3, <3>1 DEF LoopCopies
  <2> QED BY <1>3, <2>2, <2>3 DEF LoopCopies
<1>4. CASE LoopGives \/ ServerGives
  BY <1>4 DEF LoopGives, ServerGives, Rest
<1>5. CASE ServerPoints
  <2>1. server' = [pc |-> "take", at |-> current, got |-> server.got]
    BY <1>5 DEF ServerPoints
  <2> QED BY <1>5, <2>1 DEF ServerPoints
<1>6. CASE ServerTakes
  <2>1. server' = [pc |-> "kp", at |-> server.at, got |-> server.got]
    BY <1>6 DEF ServerTakes
  <2> QED BY <1>6, <2>1 DEF ServerTakes
<1>7. CASE ServerWrites
  <2>1. server.at \in Table /\ gains[server.at] \in Gain \X Gain
    BY <1>7 DEF ServerWrites
  <2>2. mutex = "server" /\ loop.pc \notin {"kp", "kd", "give"}
    BY <1>7 DEF ServerWrites
  <2>3. CASE server.pc = "kp"
    <3>1. gains' = [gains EXCEPT ![server.at] = <<server.got[1], gains[server.at][2]>>]
      BY <1>7, <2>1, <2>3 DEF ServerWrites
    <3>2. server' = [pc |-> "kd", at |-> server.at, got |-> server.got]
      BY <1>7, <2>3 DEF ServerWrites
    <3> QED BY <1>7, <2>1, <2>2, <2>3, <3>1, <3>2 DEF ServerWrites
  <2>4. CASE server.pc = "kd"
    <3>1. gains' = [gains EXCEPT ![server.at] = <<gains[server.at][1], server.got[2]>>]
      BY <1>7, <2>1, <2>4 DEF ServerWrites
    <3>2. server' = [pc |-> "give", at |-> server.at, got |-> server.got]
      BY <1>7, <2>4 DEF ServerWrites
    <3>3. gains'[server.at] = server.got
      <4>1. gains'[server.at] = <<server.got[1], server.got[2]>>
        <5>1. gains[server.at][1] = server.got[1]
          BY <1>7, <2>1, <2>4 DEF ServerWrites
        <5>2. gains'[server.at] = <<gains[server.at][1], server.got[2]>>
          BY <2>1, <3>1
        <5> QED BY <5>1, <5>2
      <4> QED BY <4>1
    <3> QED BY <1>7, <2>1, <2>2, <2>4, <3>1, <3>2, <3>3 DEF ServerWrites
  <2> QED BY <1>7, <2>3, <2>4 DEF ServerWrites
<1>8. ASSUME NEW p \in Table, MenuSelects(p) \/ WritesDirectly(p) PROVE WholeInv'
  BY <1>8 DEF MenuSelects, WritesDirectly
<1>9. ASSUME NEW p \in Table, NEW kp \in BOOLEAN, NEW kd \in BOOLEAN, Configured(p, kp, kd)
      PROVE  WholeInv'
  BY <1>9 DEF Configured
<1>10. CASE UNCHANGED gainsVars
  BY <1>10 DEF gainsVars
<1> QED
  BY <1>1, <1>2, <1>3, <1>4, <1>5, <1>6, <1>7, <1>8, <1>9, <1>10 DEF GainsNext

(* While nobody goes on without the mutex, the PID loop gets a pair somebody     *)
(* meant for one profile (profile_get_pid_params, profile_set_pid_params).      *)
THEOREM ReadsCorrect == GainsSpec => []ReadsWhole
<1>1. GainsInit => TypeInv /\ WholeInv
  <2> SUFFICES ASSUME GainsInit PROVE TypeInv /\ WholeInv
    OBVIOUS
  <2>1. meant \subseteq Intents
    BY DEF GainsInit, Intents
  <2>2. TypeInv
    BY <2>1 DEF GainsInit, TypeInv, Pointed, Rest
  <2>3. WholeInv
    BY DEF GainsInit, WholeInv, Owns, Holds, Writing, Rest
  <2> QED BY <2>2, <2>3
<1>2. TypeInv /\ WholeInv => ReadsWhole
  <2> SUFFICES ASSUME TypeInv, WholeInv, loop.pc = "give", ~apart
               PROVE  <<loop.at, loop.got>> \in meant
    BY DEF ReadsWhole
  <2>1. loop.at \in Table /\ ~Writing(loop.at)
    BY DEF TypeInv, Pointed, WholeInv, Owns, Writing
  <2>2. gains[loop.at] \in Gain \X Gain /\ loop.got \in Gain \X Gain
    BY <2>1 DEF TypeInv
  <2>3. loop.got = gains[loop.at]
    BY <2>2 DEF WholeInv
  <2> QED BY <2>1, <2>3 DEF WholeInv, Holds
<1> QED BY <1>1, <1>2, TypeInductive, WholeInductive, PTL DEF GainsSpec
=============================================================================
