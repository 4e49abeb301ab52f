------------------------------ MODULE ScaleLink -----------------------------
(***************************************************************************)
(* From the bytes of the scale to the weight a waiting task gets: the        *)
(* listener tasks of the drivers (src/and_scale.c and its kin, jm_science_,    *)
(* radwag_ and gng_scale.c) and scale_block_wait_for_next_measurement of       *)
(* src/scale.c.                                                             *)
(*                                                                         *)
(* A frame is four bytes: a header, two of the weight and a newline; a byte is  *)
(* <<frame it belongs to, its place>>.  The drivers differ in how they find     *)
(* the beginning of a frame ("framing").  The weight of frame n is n.           *)
(* X_Variant is X with a plausible mistake.                                  *)
(***************************************************************************)
EXTENDS Integers, Sequences

CONSTANTS
    Framings,   \* of the drivers to look at, a subset of AllFramings
    Fifo,       \* bytes the UART keeps for the listener
    Apart,      \* fault model: bytes that arrive between two lost ones, at least
    Late,       \* fault model: an answer to the polling driver may take over 200 ms
    MaxFrames   \* bound: frames the scale sends

AllFramings == {"line",     \* and_, steinberg_, ussolid_, creedmoor_scale.c
                "header",   \* jm_science_scale.c
                "checked",  \* radwag_scale.c
                "polled"}   \* gng_scale.c

ASSUME ScaleLinkAssumption ==
    /\ Framings \subseteq AllFramings /\ Fifo \in Nat \ {0} /\ Apart \in Nat /\ MaxFrames \in Nat
    /\ Late \in BOOLEAN

VARIABLES
    framing,  \* the driver's
    wire,     \* the byte the scale sends next; place 0: it waits to be asked
    rx,       \* bytes in the UART
    frame,    \* frame.bytes up to string_buf_idx
    listens,  \* the polling driver: "flush", "window" or "got"
    since,    \* bytes since one was lost, or since the listener joined
    reading,  \* current_scale_measurement
    ready,    \* scale_measurement_ready, a binary semaphore
    waiter,   \* the task in the wait
    got       \* the last weight a wait returned

linkVars == <<framing, wire, rx, frame, listens, since, reading, ready, waiter, got>>
lineVars == <<wire, since>>
waitVars == <<waiter, got>>

FrameLength == 4
NoWeight == -1
Mixed == -2

ScaleLinkInit ==
    /\ framing \in Framings
    /\ wire \in IF framing = "polled" THEN {<<0, 0>>} ELSE {<<0, p>> : p \in 1..FrameLength}
    /\ rx = <<>> /\ frame = <<>> /\ since = 0
    /\ listens = IF framing = "polled" THEN "flush" ELSE "window"
    /\ reading = NoWeight /\ ready = FALSE /\ waiter = "out" /\ got = NoWeight

(* The byte after b: a scale that is asked falls silent after its frame.        *)
ByteAfter(b) ==
    IF b[2] < FrameLength THEN <<b[1], b[2] + 1>>
    ELSE <<b[1] + 1, IF framing = "polled" THEN 0 ELSE 1>>

ScaleSends ==
    /\ wire[2] # 0 /\ wire[1] < MaxFrames /\ Len(rx) < Fifo
    /\ wire' = ByteAfter(wire) /\ rx' = Append(rx, wire)
    /\ since' = IF since < Apart THEN since + 1 ELSE since
    /\ UNCHANGED <<framing, frame, listens, reading, ready, waiter, got>>

ByteLost ==
    /\ wire[2] # 0 /\ wire[1] < MaxFrames /\ since = Apart
    /\ wire' = ByteAfter(wire) /\ since' = 0
    /\ UNCHANGED <<framing, rx, frame, listens, reading, ready, waiter, got>>

(* _decode_measurement_msg: what the bytes in the places of the weight say.     *)
WeightIn(f) ==
    IF f[2][2] = 2 /\ f[3] = <<f[2][1], 3>> THEN f[2][1] ELSE Mixed

IsHeader(b)  == b[2] = 1
IsNewline(b) == b[2] = FrameLength

(* The frame so far with a byte more.                                        *)
Grown(b) == IF framing = "header" /\ IsHeader(b) THEN <<b>> ELSE Append(frame, b)
Complete(b) == Len(Grown(b)) = FrameLength
Accepted(b) == Complete(b) /\ (framing = "checked" => IsHeader(Grown(b)[1]))

(* What is kept of it for the next byte: nothing after a whole frame or, for    *)
(* those who look for it, a newline.                                         *)
Kept_Variant(b) == IF Complete(b) THEN <<>> ELSE Grown(b)
Kept(b) == IF Complete(b) \/ (framing # "header" /\ IsNewline(b)) THEN <<>> ELSE Grown(b)

ListenerReads ==
    /\ rx # <<>> /\ listens # "flush"
    /\ LET b == Head(rx) IN
        /\ rx' = Tail(rx) /\ frame' = Kept(b)
        /\ reading' = IF Accepted(b) THEN WeightIn(Grown(b)) ELSE reading
        /\ ready' = (ready \/ Accepted(b))
        /\ listens' = IF framing = "polled" /\ Accepted(b) THEN "got" ELSE listens
    /\ UNCHANGED <<framing, wire, since, waiter, got>>

(* The polling driver empties the UART and asks for a frame; 200 ms later, or    *)
(* when it got one, it waits and starts over.                                *)
ListenerAsks ==
    /\ listens = "flush" /\ listens' = "window"
    /\ rx' = <<>>
    /\ wire' = IF wire[2] = 0 THEN <<wire[1], 1>> ELSE wire
    /\ UNCHANGED <<framing, frame, since, reading, ready, waiter, got>>

ListenerEnds ==
    /\ framing = "polled" /\ listens # "flush" /\ listens' = "flush"
    /\ Late \/ (wire[2] = 0 /\ rx = <<>>)
    /\ UNCHANGED <<framing, wire, rx, frame, since, reading, ready, waiter, got>>

-----------------------------------------------------------------------------
(* scale_block_wait_for_next_measurement: the semaphore, then the variable; a   *)
(* wait without a measurement returns false and leaves everything alone.       *)
WaitTakes ==
    /\ waiter = "out" /\ ready /\ ready' = FALSE /\ waiter' = "in"
    /\ UNCHANGED <<framing, wire, rx, frame, listens, since, reading, got>>

WaitReturns ==
    /\ waiter = "in" /\ waiter' = "out" /\ got' = reading
    /\ UNCHANGED <<framing, wire, rx, frame, listens, since, reading, ready>>

ScaleLinkNext ==
    \/ ScaleSends \/ ByteLost \/ ListenerReads \/ ListenerAsks \/ ListenerEnds
    \/ WaitTakes \/ WaitReturns
ScaleLinkSpec == ScaleLinkInit /\ [][ScaleLinkNext]_linkVars

-----------------------------------------------------------------------------
(* A weight a wait returns is that of one frame the scale sent, whenever the    *)
(* listener joined and whichever byte of the line was lost, if no other was     *)
(* lost within Apart bytes: every driver finds the beginning of a frame again    *)
(* before it takes one (the reset of string_buf_idx in the listener tasks).     *)
WholeFrames == got # Mixed
=============================================================================
