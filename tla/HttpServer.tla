----------------------------- MODULE HttpServer -----------------------------
(***************************************************************************)
(* The HTTP server's connections (src/http_rest.c) over lwIP's callbacks.    *)
(*                                                                         *)
(* One thread runs every callback to its end, so each is one action.  A      *)
(* connection has a state from its accept to its end of file; TCP keeps      *)
(* what was queued until it is acknowledged, also after that.  Both take     *)
(* memory from one heap, in which a part of an answer is one unit, and so is *)
(* a connection's state.  An answer is Parts parts.                         *)
(*                                                                         *)
(* A REST handler composes its answer in a static buffer, most in one of      *)
(* their own, the endpoints of the AI tuning all in the same one, and the     *)
(* connection sends it from there.  What does not fit in one write is sent    *)
(* later, from the same buffer; what did fit is copied, because              *)
(* LWIP_NETIF_TX_SINGLE_PBUF makes tcp_write copy.  Pages are constant.       *)
(* X_Variant is X with a plausible mistake.                                 *)
(***************************************************************************)
EXTENDS Naturals, Sequences

CONSTANTS
    Conns,        \* connections
    Endpoints,    \* URIs with a handler that composes an answer
    Pages,        \* URIs whose answer is constant (404 is one of them)
    BufferOf,     \* per endpoint: the buffer its handler composes in
    Heap,         \* units of memory
    Parts,        \* parts of an answer
    SendBuffer,   \* TCP_SND_BUF: parts that may wait for their acknowledgement
    MaxWrite,     \* HTTPD_MAX_WRITE_LEN: parts of one write
    MaxRetries,   \* HTTPD_MAX_RETRIES: polls without progress
    MaxComposed,  \* bound: answers composed per buffer
    MaxFailed     \* bound: closes that fail

ASSUME HttpSizesAssumption ==
    /\ Heap \in Nat /\ Parts \in Nat \ {0} /\ MaxRetries \in Nat \ {0}
    /\ SendBuffer \in Nat \ {0} /\ MaxWrite \in Nat \ {0}
    /\ MaxComposed \in Nat /\ MaxFailed \in Nat

Uris    == Endpoints \cup Pages
NoFile  == "no file"
Buffers == {BufferOf[e] : e \in Endpoints}

ASSUME HttpUrisAssumption ==
    Endpoints \cap Pages = {} /\ NoFile \notin Uris /\ BufferOf \in [Endpoints -> Buffers]

VARIABLES
    conn,       \* per connection: its state
    unacked,    \* per connection: parts TCP holds
    received,   \* per connection: the parts the peer will see, since the accept
    buffer,     \* per buffer: the number of the answer in it
    failed,     \* closes that have failed
    overtaken   \* connections whose buffer was written again before its answer was sent

vars == <<conn, unacked, received, buffer, failed, overtaken>>

(* stage: open (with a state), closing (no state, the close is tried again), *)
(* none.  file, own: the URI of the answer and the number it was composed as. *)
Bare(stage) ==
    [stage |-> stage, head |-> "none", file |-> NoFile, own |-> 0, left |-> 0, retries |-> 0]
None == Bare("none")
Open == Bare("open")

TypeOK ==
    /\ \A c \in Conns :
          /\ conn[c].stage \in {"none", "open", "closing"}
          /\ conn[c].head \in {"none", "part"} /\ conn[c].file \in Uris \cup {NoFile}
          /\ conn[c].own \in 0..MaxComposed /\ conn[c].left \in 0..Parts
          /\ conn[c].retries \in 0..(MaxRetries - 1)
    /\ unacked \in [Conns -> 0..Parts]
    /\ \A c \in Conns : Len(received[c]) <= Parts
    /\ buffer \in [Buffers -> 0..MaxComposed]
    /\ failed \in 0..MaxFailed /\ overtaken \subseteq Conns

Init ==
    /\ conn = [c \in Conns |-> None]
    /\ unacked = [c \in Conns |-> 0]
    /\ received = [c \in Conns |-> <<>>]
    /\ buffer = [b \in Buffers |-> 0]
    /\ failed = 0 /\ overtaken = {}

-----------------------------------------------------------------------------
(* Memory.                                                                  *)
Sum(f, S) ==
    LET sum[T \in SUBSET S] ==
            IF T = {} THEN 0 ELSE LET x == CHOOSE x \in T : TRUE IN f[x] + sum[T \ {x}]
    IN  sum[S]

Used(con, una) ==
    Sum([c \in Conns |-> una[c] + (IF con[c].stage = "open" THEN 1 ELSE 0)], Conns)

Free == Heap - Used(conn, unacked)

(* The answer as it is now in the buffer                                    *)
Content(k, buf) == IF k.file \in Endpoints THEN buf[BufferOf[k.file]] ELSE 0

(* and the next n parts of it                                               *)
Chunk(k, buf, n) == [i \in 1..n |-> <<Content(k, buf), (Parts - k.left) + i>>]

(* http_write: as much as the send buffer and the limit of a write allow, or  *)
(* what halving that finds memory for, or none.                             *)
Writable(left, sent, free) ==
    LET allowed == {n \in 0..left : sent + n <= SendBuffer /\ n <= MaxWrite}
        fitting == {n \in allowed : n <= free}
    IN  IF fitting = allowed THEN {m \in allowed : \A n \in allowed : n <= m} ELSE fitting

(* http_close_conn: the state is freed; a close that fails is tried again.    *)
Closed(k) ==
    {None} \cup IF failed < MaxFailed THEN {Bare("closing")} ELSE {}

Close(c, next) ==
    /\ next \in Closed(conn[c])
    /\ failed' = failed + (IF next.stage = "closing" THEN 1 ELSE 0)

(* http_send of the state k: at the end of the file the connection is closed. *)
SendFrom_LosesPart(c, k, buf, una) ==
    \E n \in Writable(k.left, una[c], Heap - Used([conn EXCEPT ![c] = k], una)) :
        LET rest == [k EXCEPT !.left = @ - (IF n = 0 THEN 1 ELSE n)]
        IN  /\ unacked' = [una EXCEPT ![c] = @ + n]
            /\ received' = [received EXCEPT ![c] = @ \o Chunk(k, buf, n)]
            /\ IF rest.left = 0
               THEN \E next \in Closed(k) : Close(c, next) /\ conn' = [conn EXCEPT ![c] = next]
               ELSE conn' = [conn EXCEPT ![c] = rest] /\ UNCHANGED failed

SendFrom(c, k, buf, una) ==
    \E n \in Writable(k.left, una[c], Heap - Used([conn EXCEPT ![c] = k], una)) :
        LET rest == [k EXCEPT !.left = @ - n]
        IN  /\ unacked' = [una EXCEPT ![c] = @ + n]
            /\ received' = [received EXCEPT ![c] = @ \o Chunk(k, buf, n)]
            /\ IF rest.left = 0
               THEN \E next \in Closed(k) : Close(c, next) /\ conn' = [conn EXCEPT ![c] = next]
               ELSE conn' = [conn EXCEPT ![c] = rest] /\ UNCHANGED failed

-----------------------------------------------------------------------------
(* http_accept: without memory for the state the connection is refused.      *)
Accept(c) ==
    /\ conn[c].stage = "none" /\ unacked[c] = 0
    /\ Free > 0
    /\ conn' = [conn EXCEPT ![c] = Open]
    /\ received' = [received EXCEPT ![c] = <<>>]
    /\ overtaken' = overtaken \ {c}
    /\ UNCHANGED <<unacked, buffer, failed>>

(* http_recv of a part of a request: it is kept until the rest comes.        *)
RecvPart(c) ==
    /\ conn[c].stage = "open" /\ conn[c].file = NoFile /\ conn[c].head = "none"
    /\ conn' = [conn EXCEPT ![c].head = "part"]
    /\ UNCHANGED <<unacked, received, buffer, failed, overtaken>>

(* The buffers after the handler of uri, and who still sends from the one it  *)
(* has composed in                                                         *)
Composed(uri) ==
    IF uri \in Endpoints THEN [buffer EXCEPT ![BufferOf[uri]] = @ + 1] ELSE buffer

Overtake(uri, c) ==
    {d \in Conns \ {c} : /\ conn[d].stage = "open" /\ conn[d].left > 0
                         /\ {conn[d].file, uri} \subseteq Endpoints
                         /\ BufferOf[conn[d].file] = BufferOf[uri]}

(* http_init_file                                                          *)
InitFile(k, uri, own) ==
    [stage |-> k.stage, head |-> "none", file |-> uri, own |-> own, left |-> Parts, retries |-> 0]

(* http_recv of a whole request, or of its rest: http_find_file calls the     *)
(* handler, http_init_file points to its answer, http_send begins to send.    *)
Answer(c, uri) ==
    LET own == IF uri \in Endpoints THEN Composed(uri)[BufferOf[uri]] ELSE 0
    IN  /\ own <= MaxComposed
        /\ buffer' = Composed(uri)
        /\ overtaken' = overtaken \cup Overtake(uri, c)
        /\ SendFrom(c, InitFile(conn[c], uri, own), Composed(uri), unacked)

RecvRequest_Again(c) == conn[c].stage = "open" /\ \E uri \in Uris : Answer(c, uri)

RecvRequest(c) ==
    conn[c].stage = "open" /\ conn[c].file = NoFile /\ \E uri \in Uris : Answer(c, uri)

(* http_recv of what is no request, or of the peer's close                   *)
RecvClose(c) ==
    /\ conn[c].stage = "open"
    /\ \E next \in Closed(conn[c]) : Close(c, next) /\ conn' = [conn EXCEPT ![c] = next]
    /\ UNCHANGED <<unacked, received, buffer, overtaken>>

(* http_sent: the peer has acknowledged some parts.  With no state left it is *)
(* TCP alone that goes on.                                                  *)
Sent(c) ==
    /\ unacked[c] > 0
    /\ \E n \in 1..unacked[c] :
          LET una == [unacked EXCEPT ![c] = @ - n] IN
              IF conn[c].stage = "open"
              THEN SendFrom(c, [conn[c] EXCEPT !.retries = 0], buffer, una)
              ELSE unacked' = una /\ UNCHANGED <<conn, received, failed>>
    /\ UNCHANGED <<buffer, overtaken>>

(* http_err: a reset, or too many retransmissions.  TCP has freed its part.   *)
Err(c) ==
    /\ conn[c].stage # "none" \/ unacked[c] > 0
    /\ unacked' = [unacked EXCEPT ![c] = 0]
    /\ conn' = [conn EXCEPT ![c] = None]
    /\ UNCHANGED <<received, buffer, failed, overtaken>>

(* http_poll, every two seconds: it gives up after MaxRetries polls without    *)
(* progress, sends what there is to send, or tries the close again.           *)
Poll_NoLimit(c) ==
    /\ conn[c].stage # "none"
    /\ LET polled == [conn[c] EXCEPT !.retries = (@ + 1) % MaxRetries] IN
          IF conn[c].stage = "closing"
          THEN /\ \E next \in Closed(conn[c]) : Close(c, next) /\ conn' = [conn EXCEPT ![c] = next]
               /\ UNCHANGED <<unacked, received>>
          ELSE IF conn[c].file # NoFile
          THEN SendFrom(c, polled, buffer, unacked)
          ELSE conn' = [conn EXCEPT ![c] = polled] /\ UNCHANGED <<unacked, received, failed>>
    /\ UNCHANGED <<buffer, overtaken>>

Poll(c) ==
    /\ conn[c].stage # "none"
    /\ LET polled == [conn[c] EXCEPT !.retries = @ + 1] IN
          IF conn[c].stage = "closing" \/ polled.retries = MaxRetries
          THEN /\ \E next \in Closed(conn[c]) : Close(c, next) /\ conn' = [conn EXCEPT ![c] = next]
               /\ UNCHANGED <<unacked, received>>
          ELSE IF conn[c].file # NoFile
          THEN SendFrom(c, polled, buffer, unacked)
          ELSE conn' = [conn EXCEPT ![c] = polled] /\ UNCHANGED <<unacked, received, failed>>
    /\ UNCHANGED <<buffer, overtaken>>

Next ==
    \E c \in Conns :
        Accept(c) \/ RecvPart(c) \/ RecvRequest(c) \/ RecvClose(c) \/ Sent(c) \/ Err(c) \/ Poll(c)

(* lwIP's timers run: polls, and retransmissions until they are given up.    *)
Fairness == \A c \in Conns : WF_vars(Poll(c)) /\ WF_vars(unacked[c] > 0 /\ (Sent(c) \/ Err(c)))

Spec == Init /\ [][Next]_vars /\ Fairness

-----------------------------------------------------------------------------
(* What a peer gets is the beginning of one answer, the one composed for it,  *)
(* without a gap or a repetition, however it was cut into writes, unless a    *)
(* request of any endpoint with the same buffer came before it was written.    *)
OneAnswer ==
    \A c \in Conns \ overtaken : \A i \in DOMAIN received[c] :
        received[c][i][2] = i /\ received[c][i][1] = received[c][1][1]

(* The same without the exception: a second request for the same buffer, on    *)
(* another connection, changes the rest of an answer that did not fit.        *)
OneAnswerAlways ==
    \A c \in Conns : \A i \in DOMAIN received[c] :
        received[c][i][2] = i /\ received[c][i][1] = received[c][1][1]

(* A request is executed once at most: what comes after it on its connection, *)
(* while the answer is sent, is dropped.                                    *)
ExecutedOnce ==
    [][\A c \in Conns :
          conn[c].stage = "open" /\ conn[c].file # NoFile /\ conn'[c].stage = "open"
             => conn'[c].file = conn[c].file /\ conn'[c].own = conn[c].own]_vars

(* "If there has been no data sent (which resets the retries) in 8 seconds,   *)
(* close": whatever its peer does or leaves undone, a connection ends and its *)
(* memory is free again.                                                   *)
EveryConnectionEnds ==
    \A c \in Conns : conn[c].stage # "none" ~> (conn[c].stage = "none" /\ unacked[c] = 0)
=============================================================================
