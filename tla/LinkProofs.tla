-------------------- MODULE LinkProofs --------------------------------------
(***************************************************************************)
(* The links to the outside: the answers of the HTTP server, for any connections, *)
(* URIs and memory; what it reads of a URI, for any text; the addresses the DHCP *)
(* server leases, for any clients; the frames of the scale, for every driver and *)
(* any loss of single bytes; and the log of errors, for any size and any tasks.  *)
(***************************************************************************)
EXTENDS HttpServer, HttpUri, DhcpLeases, ScaleLink, ErrorLog, SequenceTheorems, FiniteSetTheorems, TLAPS
-----------------------------------------------------------------------------
(* The HTTP server (HttpServer)                                             *)

State == [stage : {"none", "open", "closing"}, head : {"none", "part"}, file : Uris \cup {NoFile},
          own : Nat, left : 0..Parts, retries : Nat]
Seen == Seq(Nat \X Nat)

(* A peer has seen the beginning of answer v.                                *)
Begins(s, v) == \A i \in 1..Len(s) : s[i] = <<v, i>>

Sending(c) == conn[c].stage = "open" /\ conn[c].file # NoFile

Types ==
    /\ conn \in [Conns -> State] /\ received \in [Conns -> Seen]
    /\ unacked \in [Conns -> Nat] /\ buffer \in [Buffers -> Nat]

(* What is still to be written of an answer is in the buffer as it was composed,  *)
(* behind what the peer has seen of it.                                      *)
RestToCome(c) ==
    /\ Begins(received[c], conn[c].own)
    /\ Len(received[c]) = Parts - conn[c].left
    /\ Content(conn[c], buffer) = conn[c].own

ConnOK(c) ==
    /\ Sending(c) => conn[c].left > 0
    /\ conn[c].stage = "open" /\ conn[c].file = NoFile => received[c] = <<>> /\ unacked[c] = 0
    /\ c \notin overtaken => \E v \in Nat : Begins(received[c], v)
    /\ c \notin overtaken /\ Sending(c) => RestToCome(c)

AnswerInv == Types /\ \A c \in Conns : ConnOK(c)

-----------------------------------------------------------------------------
(* What follows in order continues the beginning of an answer.               *)
LEMMA Continues ==
    ASSUME NEW s \in Seen, NEW k, NEW buf, NEW n \in Nat,
           Content(k, buf) \in Nat, Parts - k.left \in Nat
    PROVE  /\ s \o Chunk(k, buf, n) \in Seen
           /\ Begins(s, Content(k, buf)) /\ Len(s) = Parts - k.left =>
                 /\ Begins(s \o Chunk(k, buf, n), Content(k, buf))
                 /\ Len(s \o Chunk(k, buf, n)) = (Parts - k.left) + n
<1> DEFINE v == Content(k, buf)
           start == Parts - k.left
           r == Chunk(k, buf, n)
<1>0. /\ v \in Nat /\ start \in Nat /\ r = [i \in 1..n |-> <<v, start + i>>]
  BY DEF Chunk
<1> HIDE DEF v, start, r
<1>1. r \in Seen /\ Len(r) = n
  BY <1>0 DEF Seen
<1>2. /\ s \o r \in Seen /\ Len(s \o r) = Len(s) + n
      /\ \A i \in 1..(Len(s) + n) : (s \o r)[i] = IF i <= Len(s) THEN s[i] ELSE r[i - Len(s)]
  BY <1>1, ConcatProperties DEF Seen
<1>3. ASSUME Begins(s, v), Len(s) = start
      PROVE  Begins(s \o r, v)
  <2> SUFFICES ASSUME NEW i \in 1..(start + n) PROVE (s \o r)[i] = <<v, i>>
    BY <1>0, <1>2, <1>3 DEF Begins
  <2>1. CASE i <= start
    BY <1>0, <1>2, <1>3, <2>1 DEF Begins
  <2>2. CASE i > start
    <3>1. PICK m \in 1..n : m = i - start /\ start + m = i
      BY <1>0, <2>2
    <3>2. r[m] = <<v, i>>
      BY <1>0, <3>1
    <3>3. (s \o r)[i] = r[m]
      <4>1. i \in 1..(Len(s) + n) /\ ~(i <= Len(s)) /\ i - Len(s) = m
        BY <1>0, <1>3, <2>2, <3>1
      <4> QED BY <1>2, <4>1
    <3> QED BY <3>2, <3>3
  <2>3. i <= start \/ i > start
    BY <1>0
  <2> QED BY <2>1, <2>2, <2>3
<1>4. Begins(s, v) /\ Len(s) = start => Len(s \o r) = start + n
  BY <1>0, <1>2
<1> QED BY <1>2, <1>3, <1>4 DEF v, start, r

(* A state without a request, and none.                                       *)
LEMMA Bares ==
    \A stage \in {"none", "open", "closing"} : Bare(stage) \in State /\ Bare(stage).stage = stage
<1> TAKE stage \in {"none", "open", "closing"}
<1>1. 0 \in 0..Parts /\ 0 \in Nat /\ "none" \in {"none", "part"} /\ NoFile \in Uris \cup {NoFile}
  BY HttpSizesAssumption
<1> QED BY <1>1 DEF Bare, State

(* n of what is left is written.                                            *)
Writes(c, k, buf, una, n) ==
    /\ received' = [received EXCEPT ![c] = @ \o Chunk(k, buf, n)]
    /\ unacked' = [una EXCEPT ![c] = @ + n]
    /\ conn' \in [Conns -> State]
    /\ \A d \in Conns \ {c} : conn'[d] = conn[d]
    /\ conn'[c].stage = "open" => n < k.left /\ conn'[c] = [k EXCEPT !.left = @ - n]

(* http_send: some of what is left is written, and the state is what remains, or *)
(* the connection is closed.                                                *)
LEMMA Sends ==
    ASSUME NEW c \in Conns, NEW k \in State, k.left > 0, k.stage = "open", NEW buf, NEW una,
           conn \in [Conns -> State], received \in [Conns -> Seen], SendFrom(c, k, buf, una)
    PROVE  \E n \in 0..k.left : Writes(c, k, buf, una, n)
<1> DEFINE free == Heap - Used([conn EXCEPT ![c] = k], una)
           rest(n) == [k EXCEPT !.left = @ - n]
<1>1. PICK n \in Writable(k.left, una[c], free) :
        /\ received' = [received EXCEPT ![c] = @ \o Chunk(k, buf, n)]
        /\ unacked' = [una EXCEPT ![c] = @ + n]
        /\ IF rest(n).left = 0
           THEN \E next \in Closed(k) : Close(c, next) /\ conn' = [conn EXCEPT ![c] = next]
           ELSE conn' = [conn EXCEPT ![c] = rest(n)] /\ UNCHANGED failed
  BY DEF SendFrom
<1>2. n \in 0..k.left
  <2> HIDE DEF free
  <2> QED BY DEF Writable, State
<1>3. rest(n) \in State /\ rest(n).left = k.left - n /\ rest(n).stage = "open"
  <2>1. rest(n) = [stage |-> k.stage, head |-> k.head, file |-> k.file, own |-> k.own,
                   left |-> k.left - n, retries |-> k.retries]
    BY DEF State
  <2>2. k.left - n \in 0..Parts
    BY <1>2, HttpSizesAssumption DEF State
  <2> QED BY <2>1, <2>2 DEF State
<1>4. ASSUME NEW next \in Closed(k) PROVE next \in State /\ next.stage # "open"
  <2>1. next = Bare("none") \/ next = Bare("closing")
    BY DEF Closed, None
  <2> QED BY <2>1, Bares
<1>5. CASE rest(n).left = 0
  <2>1. PICK next \in Closed(k) : conn' = [conn EXCEPT ![c] = next]
    BY <1>1, <1>5
  <2>2. next \in State /\ next.stage # "open"
    BY <1>4
  <2> QED BY <1>1, <1>2, <2>1, <2>2 DEF Writes
<1>6. CASE rest(n).left # 0
  <2>1. conn' = [conn EXCEPT ![c] = rest(n)]
    BY <1>1, <1>6
  <2>2. n < k.left
    BY <1>2, <1>3, <1>6 DEF State
  <2>3. conn' \in [Conns -> State] /\ conn'[c] = rest(n)
    BY <1>3, <2>1
  <2> QED BY <1>1, <1>2, <2>1, <2>2, <2>3 DEF Writes
<1> QED BY <1>5, <1>6

-----------------------------------------------------------------------------
(* A connection a step does not touch stays as it was; of its buffer the step may *)
(* have taken the content if that is then known.                             *)
LEMMA Others ==
    ASSUME NEW d \in Conns, ConnOK(d),
           conn'[d] = conn[d], received'[d] = received[d], unacked'[d] = unacked[d],
           d \notin overtaken' => d \notin overtaken,
           d \notin overtaken' /\ Sending(d) => Content(conn[d], buffer') = Content(conn[d], buffer)
    PROVE  ConnOK(d)'
<1>1. Sending(d)' <=> Sending(d)
  BY DEF Sending
<1>2. ASSUME d \notin overtaken', Sending(d)
      PROVE  RestToCome(d)'
  <2>1. RestToCome(d) /\ Content(conn'[d], buffer') = Content(conn[d], buffer)
    BY <1>2 DEF ConnOK
  <2> QED BY <2>1 DEF RestToCome
<1> QED BY <1>1, <1>2 DEF ConnOK

(* Each endpoint composes in one of the buffers.                             *)
LEMMA InABuffer == \A e \in Endpoints : BufferOf[e] \in Buffers
  BY DEF Buffers

(* http_send of a state whose answer is as composed leaves the rest as composed. *)
LEMMA SendsOn ==
    ASSUME NEW c \in Conns, NEW k \in State, NEW buf \in [Buffers -> Nat],
           NEW una \in [Conns -> Nat],
           k.left > 0, k.stage = "open", k.file # NoFile, Types,
           SendFrom(c, k, buf, una), buffer' = buf,
           c \notin overtaken' => /\ Begins(received[c], k.own)
                                  /\ Len(received[c]) = Parts - k.left
                                  /\ Content(k, buf) = k.own
    PROVE  /\ Types' /\ ConnOK(c)'
           /\ \A d \in Conns \ {c} : /\ conn'[d] = conn[d] /\ received'[d] = received[d]
                                     /\ unacked'[d] = una[d]
<1> DEFINE seen(n) == received[c] \o Chunk(k, buf, n)
<1>0. conn \in [Conns -> State] /\ received \in [Conns -> Seen]
  BY DEF Types
<1>1. PICK n \in 0..k.left : Writes(c, k, buf, una, n)
  BY <1>0, Sends
<1>2. /\ n \in Nat /\ Parts - k.left \in Nat /\ k.left \in Nat /\ k.own \in Nat
      /\ Content(k, buf) \in Nat /\ received[c] \in Seen
  BY HttpSizesAssumption, InABuffer DEF State, Content, Types
<1>3. /\ seen(n) \in Seen
      /\ Begins(received[c], Content(k, buf)) /\ Len(received[c]) = Parts - k.left
           => Begins(seen(n), Content(k, buf)) /\ Len(seen(n)) = (Parts - k.left) + n
  BY <1>2, Continues
<1> HIDE DEF seen
<1>4. received'[c] = seen(n)
  BY <1>0, <1>1 DEF Writes, seen
<1>5. Types'
  <2>1. received' \in [Conns -> Seen]
    BY <1>0, <1>1, <1>3 DEF Writes, seen
  <2>2. unacked' \in [Conns -> Nat]
    BY <1>1, <1>2 DEF Writes
  <2> QED BY <1>1, <2>1, <2>2 DEF Writes, Types
<1>6. ASSUME conn'[c].stage = "open"
      PROVE  /\ conn'[c].left = k.left - n /\ conn'[c].left > 0
             /\ conn'[c].file = k.file /\ conn'[c].own = k.own
  BY <1>1, <1>2, <1>6 DEF Writes, State
<1>7. ASSUME c \notin overtaken'
      PROVE  Begins(seen(n), k.own) /\ Len(seen(n)) = (Parts - k.left) + n
  BY <1>3, <1>7
<1>8. ASSUME c \notin overtaken', conn'[c].stage = "open"
      PROVE  RestToCome(c)'
  <2>1. Parts - (k.left - n) = (Parts - k.left) + n
    BY <1>2, HttpSizesAssumption
  <2>2. Content(conn'[c], buffer') = k.own
    BY <1>6, <1>8 DEF Content
  <2> QED BY <1>4, <1>6, <1>7, <1>8, <2>1, <2>2 DEF RestToCome
<1>9. ConnOK(c)'
  <2>1. (Sending(c) => conn[c].left > 0)'
    BY <1>6 DEF Sending
  <2>2. ~(conn[c].stage = "open" /\ conn[c].file = NoFile)'
    BY <1>6
  <2>3. (c \notin overtaken => \E v \in Nat : Begins(received[c], v))'
    BY <1>2, <1>4, <1>7
  <2>4. (c \notin overtaken /\ Sending(c) => RestToCome(c))'
    BY <1>8 DEF Sending
  <2> QED BY <2>1, <2>2, <2>3, <2>4 DEF ConnOK
<1> QED BY <1>0, <1>1, <1>5, <1>9 DEF Writes

-----------------------------------------------------------------------------
LEMMA AnswerInit == Init => AnswerInv
<1> SUFFICES ASSUME Init PROVE AnswerInv
  OBVIOUS
<1>1. None \in State /\ None.stage = "none"
  BY Bares DEF None
<1>2. Types
  BY <1>1 DEF Init, Types, Seen
<1>3. ASSUME NEW c \in Conns PROVE ConnOK(c)
  <2>1. conn[c].stage = "none" /\ Begins(received[c], 0)
    BY <1>1 DEF Init, Begins
  <2> QED BY <2>1 DEF ConnOK, Sending
<1> QED BY <1>2, <1>3 DEF AnswerInv

(* What leaves the connections other than c, the answers and the buffers alone. *)
LEMMA OtherConns ==
    ASSUME AnswerInv, NEW c \in Conns, Types', ConnOK(c)',
           \A d \in Conns \ {c} : /\ conn'[d] = conn[d] /\ received'[d] = received[d]
                                  /\ unacked'[d] = unacked[d],
           buffer' = buffer, overtaken \subseteq overtaken' \cup {c}
    PROVE  AnswerInv'
<1>1. ASSUME NEW d \in Conns \ {c} PROVE ConnOK(d)'
  <2>1. ConnOK(d) /\ (d \notin overtaken' => d \notin overtaken)
    BY DEF AnswerInv
  <2> QED BY <2>1, Others
<1> QED BY <1>1 DEF AnswerInv

(* A state without an answer, if nothing is sent of it, and none at all.       *)
LEMMA Ended ==
    ASSUME AnswerInv, NEW c \in Conns, NEW k \in State, k.stage # "open",
           conn' = [conn EXCEPT ![c] = k], UNCHANGED <<received, buffer, overtaken>>,
           unacked' \in [Conns -> Nat], \A d \in Conns \ {c} : unacked'[d] = unacked[d]
    PROVE  AnswerInv'
<1>1. Types' /\ conn'[c] = k
  BY DEF AnswerInv, Types
<1>2. ConnOK(c)'
  <2>1. ConnOK(c) /\ ~Sending(c)' /\ conn'[c].stage # "open"
    BY <1>1 DEF AnswerInv, Sending
  <2> QED BY <2>1 DEF ConnOK, Begins
<1>3. \A d \in Conns \ {c} : conn'[d] = conn[d] /\ received'[d] = received[d]
  BY DEF AnswerInv, Types
<1> QED BY <1>1, <1>2, <1>3, OtherConns

LEMMA AnswerAccept ==
    ASSUME AnswerInv, NEW c \in Conns, Accept(c) PROVE AnswerInv'
<1>1. Open \in State /\ Open.stage = "open" /\ Open.file = NoFile
  BY Bares DEF Open, Bare
<1>2. /\ conn' = [conn EXCEPT ![c] = Open] /\ received' = [received EXCEPT ![c] = <<>>]
      /\ overtaken' = overtaken \ {c} /\ unacked[c] = 0 /\ UNCHANGED <<unacked, buffer>>
  BY DEF Accept
<1>3. Types' /\ conn'[c] = Open /\ received'[c] = <<>>
  BY <1>1, <1>2 DEF AnswerInv, Types, Seen
<1>4. ConnOK(c)'
  <2>1. ~Sending(c)' /\ Begins(received'[c], 0)
    BY <1>1, <1>3 DEF Sending, Begins
  <2> QED BY <1>1, <1>2, <1>3, <2>1 DEF ConnOK, Begins
<1>5. \A d \in Conns \ {c} : /\ conn'[d] = conn[d] /\ received'[d] = received[d]
                             /\ unacked'[d] = unacked[d]
  BY <1>2 DEF AnswerInv, Types
<1> QED BY <1>2, <1>3, <1>4, <1>5, OtherConns

(* A step that keeps stage, answer and what is left of it.                     *)
LEMMA ConnKept ==
    ASSUME AnswerInv, NEW c \in Conns, NEW k \in State, conn' = [conn EXCEPT ![c] = k],
           k.stage = conn[c].stage, k.file = conn[c].file, k.own = conn[c].own,
           k.left = conn[c].left, UNCHANGED <<unacked, received, buffer, overtaken>>
    PROVE  AnswerInv'
<1>1. Types' /\ conn'[c] = k
  BY DEF AnswerInv, Types
<1>2. ConnOK(c)'
  <2>1. ConnOK(c) /\ (Sending(c)' <=> Sending(c))
    BY <1>1 DEF AnswerInv, Sending
  <2>2. RestToCome(c) => RestToCome(c)'
    BY <1>1 DEF RestToCome, Begins, Content
  <2> QED BY <1>1, <2>1, <2>2 DEF ConnOK, Begins
<1>3. \A d \in Conns \ {c} : conn'[d] = conn[d]
  BY DEF AnswerInv, Types
<1> QED BY <1>1, <1>2, <1>3, OtherConns

LEMMA Headed ==
    ASSUME NEW k \in State
    PROVE  LET q == [k EXCEPT !.head = "part"] IN
           /\ q \in State /\ q.stage = k.stage /\ q.file = k.file /\ q.own = k.own
           /\ q.left = k.left
<1> DEFINE q == [stage |-> k.stage, head |-> "part", file |-> k.file, own |-> k.own,
                 left |-> k.left, retries |-> k.retries]
<1>1. [k EXCEPT !.head = "part"] = q
  BY DEF State
<1>2. q \in State
  BY DEF State
<1> QED BY <1>1, <1>2

LEMMA AnswerRecvPart ==
    ASSUME AnswerInv, NEW c \in Conns, RecvPart(c) PROVE AnswerInv'
<1> DEFINE k == [conn[c] EXCEPT !.head = "part"]
<1>1. conn[c] \in State
  BY DEF AnswerInv, Types
<1>2. /\ k \in State /\ k.stage = conn[c].stage /\ k.file = conn[c].file
      /\ k.own = conn[c].own /\ k.left = conn[c].left
  BY <1>1, Headed
<1>3. conn' = [conn EXCEPT ![c] = k]
  BY DEF RecvPart
<1> HIDE DEF k
<1> QED BY <1>2, <1>3, ConnKept DEF RecvPart

LEMMA AnswerRecvClose ==
    ASSUME AnswerInv, NEW c \in Conns, RecvClose(c) PROVE AnswerInv'
<1>1. PICK next \in Closed(conn[c]) : conn' = [conn EXCEPT ![c] = next]
  BY DEF RecvClose
<1>2. next \in State /\ next.stage # "open"
  BY Bares DEF Closed, None
<1> QED BY <1>1, <1>2, Ended DEF RecvClose, AnswerInv, Types

LEMMA AnswerErr ==
    ASSUME AnswerInv, NEW c \in Conns, Err(c) PROVE AnswerInv'
<1>1. None \in State /\ None.stage # "open"
  BY Bares DEF None
<1>2. /\ conn' = [conn EXCEPT ![c] = None] /\ unacked' = [unacked EXCEPT ![c] = 0]
      /\ UNCHANGED <<received, buffer, overtaken>>
  BY DEF Err
<1>3. unacked' \in [Conns -> Nat] /\ \A d \in Conns \ {c} : unacked'[d] = unacked[d]
  BY <1>2 DEF AnswerInv, Types
<1> QED BY <1>1, <1>2, <1>3, Ended

(* The connection goes on sending.                                          *)
LEMMA AnswerGoesOn ==
    ASSUME AnswerInv, NEW c \in Conns, NEW k \in State, NEW una \in [Conns -> Nat],
           Sending(c), k.stage = "open", k.file = conn[c].file, k.own = conn[c].own,
           k.left = conn[c].left, \A d \in Conns \ {c} : una[d] = unacked[d],
           SendFrom(c, k, buffer, una), UNCHANGED <<buffer, overtaken>>
    PROVE  AnswerInv'
<1>1. Types /\ ConnOK(c) /\ buffer \in [Buffers -> Nat]
  BY DEF AnswerInv, Types
<1>2. k.left > 0 /\ k.file # NoFile
  BY <1>1 DEF ConnOK, Sending
<1>3. c \notin overtaken' => /\ Begins(received[c], k.own)
                             /\ Len(received[c]) = Parts - k.left
                             /\ Content(k, buffer) = k.own
  BY <1>1 DEF ConnOK, RestToCome, Content
<1>4. /\ Types' /\ ConnOK(c)'
      /\ \A d \in Conns \ {c} : /\ conn'[d] = conn[d] /\ received'[d] = received[d]
                                /\ unacked'[d] = una[d]
  BY <1>1, <1>2, <1>3, SendsOn
<1> QED BY <1>4, OtherConns

(* A state with other retries.                                              *)
LEMMA Retried ==
    ASSUME NEW k \in State, NEW r \in Nat
    PROVE  LET q == [k EXCEPT !.retries = r] IN
           /\ q \in State /\ q.stage = k.stage /\ q.file = k.file /\ q.own = k.own
           /\ q.left = k.left /\ q.retries = r
<1> DEFINE q == [stage |-> k.stage, head |-> k.head, file |-> k.file, own |-> k.own,
                 left |-> k.left, retries |-> r]
<1>1. [k EXCEPT !.retries = r] = q
  BY DEF State
<1>2. q \in State
  BY DEF State
<1> QED BY <1>1, <1>2

LEMMA AnswerSent ==
    ASSUME AnswerInv, NEW c \in Conns, Sent(c) PROVE AnswerInv'
<1>1. PICK n \in 1..unacked[c] :
        LET una == [unacked EXCEPT ![c] = @ - n] IN
            IF conn[c].stage = "open"
            THEN SendFrom(c, [conn[c] EXCEPT !.retries = 0], buffer, una)
            ELSE unacked' = una /\ UNCHANGED <<conn, received, failed>>
  BY DEF Sent
<1> DEFINE una == [unacked EXCEPT ![c] = @ - n]
           k == [conn[c] EXCEPT !.retries = 0]
<1>2. unacked[c] \in Nat /\ unacked[c] > 0 /\ conn[c] \in State /\ ConnOK(c)
  BY DEF Sent, AnswerInv, Types
<1>3. una \in [Conns -> Nat] /\ \A d \in Conns \ {c} : una[d] = unacked[d]
  BY <1>2 DEF AnswerInv, Types
<1>4. UNCHANGED <<buffer, overtaken>>
  BY DEF Sent
<1>5. CASE conn[c].stage = "open"
  <2>1. Sending(c)
    BY <1>2, <1>5 DEF ConnOK, Sending
  <2>2. /\ k \in State /\ k.stage = "open" /\ k.file = conn[c].file /\ k.own = conn[c].own
        /\ k.left = conn[c].left
    BY <1>2, <1>5, Retried
  <2>3. SendFrom(c, k, buffer, una)
    BY <1>1, <1>5
  <2> HIDE DEF k, una
  <2> QED BY <1>3, <1>4, <2>1, <2>2, <2>3, AnswerGoesOn
<1>6. CASE conn[c].stage # "open"
  <2>1. unacked' = una /\ UNCHANGED <<conn, received>>
    BY <1>1, <1>6
  <2>2. conn' = [conn EXCEPT ![c] = conn[c]]
    BY <2>1 DEF AnswerInv, Types
  <2> HIDE DEF una
  <2> QED BY <1>2, <1>3, <1>4, <1>6, <2>1, <2>2, Ended
<1> QED BY <1>5, <1>6

LEMMA AnswerPoll ==
    ASSUME AnswerInv, NEW c \in Conns, Poll(c) PROVE AnswerInv'
<1> DEFINE polled == [conn[c] EXCEPT !.retries = @ + 1]
<1>1. conn[c] \in State /\ conn[c].retries + 1 \in Nat
  BY DEF AnswerInv, Types, State
<1>2. /\ polled \in State /\ polled.stage = conn[c].stage /\ polled.file = conn[c].file
      /\ polled.own = conn[c].own /\ polled.left = conn[c].left
  BY <1>1, Retried
<1>3. /\ conn[c].stage # "none" /\ UNCHANGED <<buffer, overtaken>>
      /\ IF conn[c].stage = "closing" \/ polled.retries = MaxRetries
         THEN /\ \E next \in Closed(conn[c]) : Close(c, next) /\ conn' = [conn EXCEPT ![c] = next]
              /\ UNCHANGED <<unacked, received>>
         ELSE IF conn[c].file # NoFile
         THEN SendFrom(c, polled, buffer, unacked)
         ELSE conn' = [conn EXCEPT ![c] = polled] /\ UNCHANGED <<unacked, received, failed>>
  BY DEF Poll
<1> HIDE DEF polled
<1>4. CASE conn[c].stage = "closing" \/ polled.retries = MaxRetries
  <2>1. PICK next \in Closed(conn[c]) : conn' = [conn EXCEPT ![c] = next]
    BY <1>3, <1>4
  <2>2. next \in State /\ next.stage # "open"
    BY Bares DEF Closed, None
  <2>3. UNCHANGED <<unacked, received>>
    BY <1>3, <1>4
  <2> QED BY <1>3, <2>1, <2>2, <2>3, Ended DEF AnswerInv, Types
<1>5. CASE ~(conn[c].stage = "closing" \/ polled.retries = MaxRetries) /\ conn[c].file # NoFile
  <2>1. SendFrom(c, polled, buffer, unacked)
    BY <1>3, <1>5
  <2>2. Sending(c) /\ polled.stage = "open"
    BY <1>1, <1>2, <1>3, <1>5 DEF Sending, State
  <2>3. unacked \in [Conns -> Nat]
    BY DEF AnswerInv, Types
  <2> QED BY <1>2, <1>3, <2>1, <2>2, <2>3, AnswerGoesOn
<1>6. CASE ~(conn[c].stage = "closing" \/ polled.retries = MaxRetries) /\ conn[c].file = NoFile
  <2>1. conn' = [conn EXCEPT ![c] = polled] /\ UNCHANGED <<unacked, received>>
    BY <1>3, <1>6
  <2> QED BY <1>2, <1>3, <2>1, ConnKept
<1> QED BY <1>4, <1>5, <1>6

LEMMA RequestAlone ==
    ASSUME AnswerInv, NEW c \in Conns, RecvRequest(c)
    PROVE  AnswerInv' /\ \A d \in Conns \ {c} : conn'[d] = conn[d]
<1>1. PICK uri \in Uris : Answer(c, uri)
  BY DEF RecvRequest
<1> DEFINE buf == Composed(uri)
           own == IF uri \in Endpoints THEN buf[BufferOf[uri]] ELSE 0
           k == InitFile(conn[c], uri, own)
<1>2. /\ Types /\ conn[c] \in State /\ ConnOK(c) /\ unacked \in [Conns -> Nat]
      /\ conn[c].stage = "open" /\ conn[c].file = NoFile
  BY DEF AnswerInv, Types, RecvRequest
<1>3. /\ buf \in [Buffers -> Nat] /\ own \in Nat
      /\ uri \in Endpoints => buf[BufferOf[uri]] = own
      /\ uri \notin Endpoints => own = 0
      /\ \A b \in Buffers : (uri \in Endpoints => b # BufferOf[uri]) => buf[b] = buffer[b]
  BY <1>2, InABuffer DEF Composed, Types
<1>4. k = [stage |-> "open", head |-> "none", file |-> uri, own |-> own, left |-> Parts,
           retries |-> 0]
  BY <1>2 DEF InitFile
<1>5. k \in State /\ k.left = Parts /\ k.left > 0 /\ k.stage = "open" /\ k.file = uri /\ k.own = own
      /\ k.file # NoFile
  <2>1. /\ Parts \in 0..Parts /\ Parts > 0 /\ 0 \in Nat /\ "none" \in {"none", "part"}
        /\ uri \in Uris /\ uri # NoFile
    BY HttpSizesAssumption, HttpUrisAssumption
  <2> HIDE DEF k
  <2> QED BY <1>3, <1>4, <2>1 DEF State
<1>6. Content(k, buf) = own
  BY <1>3, <1>5 DEF Content
<1>7. Begins(received[c], own) /\ Len(received[c]) = Parts - k.left
  BY <1>2, <1>5, HttpSizesAssumption DEF ConnOK, Begins
<1> HIDE DEF k
<1>8. /\ SendFrom(c, k, buf, unacked) /\ buffer' = buf
      /\ overtaken' = overtaken \cup Overtake(uri, c)
  BY <1>1 DEF k, Answer
<1> HIDE DEF buf, own
<1>9. /\ Types' /\ ConnOK(c)'
      /\ \A d \in Conns \ {c} : /\ conn'[d] = conn[d] /\ received'[d] = received[d]
                                /\ unacked'[d] = unacked[d]
  BY <1>2, <1>3, <1>5, <1>6, <1>7, <1>8, SendsOn
<1>10. ASSUME NEW d \in Conns \ {c} PROVE ConnOK(d)'
  <2>1. ConnOK(d) /\ (d \notin overtaken' => d \notin overtaken)
    BY <1>8 DEF AnswerInv
  <2>2. ASSUME d \notin overtaken', Sending(d), {conn[d].file, uri} \subseteq Endpoints
        PROVE  BufferOf[conn[d].file] # BufferOf[uri]
    <3>1. conn[d].left > 0 /\ conn[d].stage = "open" /\ d \notin Overtake(uri, c)
      BY <1>8, <2>1, <2>2 DEF ConnOK, Sending
    <3> QED BY <2>2, <3>1 DEF Overtake
  <2>3. ASSUME d \notin overtaken', Sending(d)
        PROVE  Content(conn[d], buffer') = Content(conn[d], buffer)
    <3>1. CASE conn[d].file \in Endpoints
      BY <1>3, <1>8, <2>2, <2>3, <3>1, InABuffer DEF Content
    <3> QED BY <3>1 DEF Content
  <2> QED BY <1>9, <2>1, <2>3, Others
<1> QED BY <1>9, <1>10 DEF AnswerInv

LEMMA AnswerNext == AnswerInv /\ [Next]_vars => AnswerInv'
<1> SUFFICES ASSUME AnswerInv, [Next]_vars PROVE AnswerInv'
  OBVIOUS
<1>1. ASSUME NEW c \in Conns,
             Accept(c) \/ RecvPart(c) \/ RecvRequest(c) \/ RecvClose(c) \/ Sent(c) \/ Err(c) \/ Poll(c)
      PROVE  AnswerInv'
  BY <1>1, AnswerAccept, AnswerRecvPart, RequestAlone, AnswerRecvClose, AnswerSent,
     AnswerErr, AnswerPoll
<1>2. CASE UNCHANGED vars
  <2>1. Types'
    BY <1>2 DEF vars, AnswerInv, Types
  <2>2. ASSUME NEW c \in Conns PROVE ConnOK(c)'
    BY <1>2, Others DEF vars, AnswerInv
  <2> QED BY <2>1, <2>2 DEF AnswerInv
<1> QED BY <1>1, <1>2 DEF Next

(* Whatever is sent when, a peer sees the beginning of one answer, in order and  *)
(* without a gap, unless an endpoint with the same buffer was asked before.    *)
THEOREM AnswersCorrect == Spec => []OneAnswer
<1>1. AnswerInv => OneAnswer
  <2> SUFFICES ASSUME AnswerInv, NEW c \in Conns \ overtaken, NEW i \in DOMAIN received[c]
               PROVE  received[c][i][2] = i /\ received[c][i][1] = received[c][1][1]
    BY DEF OneAnswer
  <2>1. received[c] \in Seen
    BY DEF AnswerInv, Types
  <2>2. i \in 1..Len(received[c]) /\ 1 \in 1..Len(received[c])
    BY <2>1 DEF Seen
  <2>3. PICK v \in Nat : Begins(received[c], v)
    BY DEF AnswerInv, ConnOK
  <2>4. received[c][i] = <<v, i>> /\ received[c][1] = <<v, 1>>
    BY <2>2, <2>3 DEF Begins
  <2> QED BY <2>4
<1> QED BY <1>1, AnswerInit, AnswerNext, PTL DEF Spec

-----------------------------------------------------------------------------
(* A step of c concerns no other connection, and keeps c's answer.              *)
Stays(c) ==
    /\ \A d \in Conns \ {c} : conn'[d] = conn[d]
    /\ Sending(c) /\ conn'[c].stage = "open" =>
          conn'[c].file = conn[c].file /\ conn'[c].own = conn[c].own

LEMMA SendingStays ==
    ASSUME AnswerInv, NEW c \in Conns, NEW k \in State, NEW una, Sending(c),
           k.stage = "open", k.file = conn[c].file, k.own = conn[c].own,
           k.left = conn[c].left, SendFrom(c, k, buffer, una)
    PROVE  Stays(c)
<1>1. k.left > 0 /\ conn \in [Conns -> State] /\ received \in [Conns -> Seen]
  BY DEF AnswerInv, Types, ConnOK
<1>2. PICK n \in 0..k.left : Writes(c, k, buffer, una, n)
  BY <1>1, Sends
<1> QED BY <1>2 DEF Writes, Stays, State

LEMMA OthersStay ==
    ASSUME AnswerInv, NEW c \in Conns, NEW k, conn' = [conn EXCEPT ![c] = k],
           Sending(c) /\ k.stage = "open" => k.file = conn[c].file /\ k.own = conn[c].own
    PROVE  Stays(c)
  BY DEF AnswerInv, Types, Stays

LEMMA PollStays ==
    ASSUME AnswerInv, NEW c \in Conns, Poll(c) PROVE Stays(c)
<1> DEFINE polled == [conn[c] EXCEPT !.retries = @ + 1]
<1>1. conn[c] \in State /\ conn[c].retries + 1 \in Nat
  BY DEF AnswerInv, Types, State
<1>2. /\ polled \in State /\ polled.stage = conn[c].stage /\ polled.file = conn[c].file
      /\ polled.own = conn[c].own /\ polled.left = conn[c].left
  BY <1>1, Retried
<1>3. \/ \E next \in Closed(conn[c]) : conn' = [conn EXCEPT ![c] = next]
      \/ /\ conn[c].stage # "none" /\ conn[c].stage # "closing" /\ conn[c].file # NoFile
         /\ SendFrom(c, polled, buffer, unacked)
      \/ conn' = [conn EXCEPT ![c] = polled]
  BY DEF Poll
<1> HIDE DEF polled
<1>4. ASSUME NEW next \in Closed(conn[c]), conn' = [conn EXCEPT ![c] = next] PROVE Stays(c)
  <2>1. next.stage # "open"
    BY Bares DEF Closed, None
  <2> QED BY <1>4, <2>1, OthersStay
<1>5. ASSUME conn[c].stage # "none", conn[c].stage # "closing", conn[c].file # NoFile,
             SendFrom(c, polled, buffer, unacked)
      PROVE  Stays(c)
  <2>1. Sending(c) /\ polled.stage = "open"
    BY <1>1, <1>2, <1>5 DEF Sending, State
  <2> QED BY <1>2, <1>5, <2>1, SendingStays
<1>6. ASSUME conn' = [conn EXCEPT ![c] = polled] PROVE Stays(c)
  BY <1>2, <1>6, OthersStay
<1> QED BY <1>3, <1>4, <1>5, <1>6

LEMMA SentStays ==
    ASSUME AnswerInv, NEW c \in Conns, Sent(c) PROVE Stays(c)
<1> DEFINE k == [conn[c] EXCEPT !.retries = 0]
<1>1. PICK n \in 1..unacked[c] :
        IF conn[c].stage = "open"
        THEN SendFrom(c, k, buffer, [unacked EXCEPT ![c] = @ - n])
        ELSE conn' = conn
  BY DEF Sent
<1>2. conn[c] \in State /\ ConnOK(c) /\ unacked[c] > 0
  BY DEF Sent, AnswerInv, Types
<1>3. /\ k \in State /\ k.stage = conn[c].stage /\ k.file = conn[c].file /\ k.own = conn[c].own
      /\ k.left = conn[c].left
  BY <1>2, Retried
<1> HIDE DEF k
<1>4. CASE conn[c].stage = "open"
  <2>1. Sending(c)
    BY <1>2, <1>4 DEF ConnOK, Sending
  <2> QED BY <1>1, <1>3, <1>4, <2>1, SendingStays
<1>5. CASE conn[c].stage # "open"
  BY <1>1, <1>5 DEF Stays
<1> QED BY <1>4, <1>5

LEMMA RestStays ==
    ASSUME AnswerInv, NEW c \in Conns,
           Accept(c) \/ RecvPart(c) \/ RecvRequest(c) \/ RecvClose(c) \/ Err(c)
    PROVE  Stays(c)
<1>1. CASE Accept(c)
  BY <1>1, OthersStay DEF Accept, Sending
<1>2. CASE RecvPart(c)
  <2> DEFINE k == [conn[c] EXCEPT !.head = "part"]
  <2>1. conn' = [conn EXCEPT ![c] = k] /\ ~Sending(c)
    BY <1>2 DEF RecvPart, Sending
  <2> HIDE DEF k
  <2> QED BY <2>1, OthersStay
<1>3. CASE RecvRequest(c)
  <2>1. ~Sending(c)
    BY <1>3 DEF RecvRequest, Sending
  <2>2. AnswerInv' /\ \A d \in Conns \ {c} : conn'[d] = conn[d]
    BY <1>3, RequestAlone
  <2> QED BY <2>1, <2>2 DEF Stays
<1>4. CASE RecvClose(c)
  <2>1. PICK next \in Closed(conn[c]) : conn' = [conn EXCEPT ![c] = next]
    BY <1>4 DEF RecvClose
  <2>2. next.stage # "open"
    BY Bares DEF Closed, None
  <2> QED BY <2>1, <2>2, OthersStay
<1>5. CASE Err(c)
  <2>1. conn' = [conn EXCEPT ![c] = None] /\ None.stage # "open"
    BY <1>5, Bares DEF Err, None
  <2> QED BY <2>1, OthersStay
<1> QED BY <1>1, <1>2, <1>3, <1>4, <1>5

(* A request is executed once at most: a connection that sends an answer keeps it *)
(* until it is closed.                                                      *)
THEOREM OnceCorrect == Spec => ExecutedOnce
<1> DEFINE Once == \A c \in Conns :
                      conn[c].stage = "open" /\ conn[c].file # NoFile /\ conn'[c].stage = "open"
                         => conn'[c].file = conn[c].file /\ conn'[c].own = conn[c].own
<1>1. ASSUME AnswerInv, NEW c \in Conns,
             Accept(c) \/ RecvPart(c) \/ RecvRequest(c) \/ RecvClose(c) \/ Sent(c) \/ Err(c) \/ Poll(c)
      PROVE  Once
  <2>1. Stays(c)
    BY <1>1, RestStays, SentStays, PollStays
  <2> QED BY <2>1 DEF Stays, Sending
<1>2. AnswerInv /\ [Next]_vars => [Once]_vars
  BY <1>1 DEF Next
<1> QED BY <1>2, AnswerInit, AnswerNext, PTL DEF Spec, ExecutedOnce

-----------------------------------------------------------------------------
(* From a URI to a handler's parameters (HttpUri)                             *)

(* Cutting a text: what a search finds, and where the pairs of a text begin.     *)
(* Cutting a text: what a search finds, and where the pairs of a text begin.     *)
LEMMA LeastPlace ==
  ASSUME NEW T, T \subseteq Nat, T # {}
  PROVE  \E x \in T : \A y \in T : x <= y
<1>1. PICK x \in T : \A y \in T : <<y, x>> \notin OpToRel(<, Nat)
  BY NatLessThanWellFounded, WFMin
<1>2. ASSUME NEW y \in T PROVE x <= y
  <2>1. x \in Nat /\ y \in Nat
    OBVIOUS
  <2>2. ~(y < x)
    BY <1>1, <2>1 DEF OpToRel
  <2> QED BY <2>1, <2>2
<1> QED BY <1>2

LEMMA Found ==
  ASSUME NEW S, NEW s \in Seq(S), NEW ch
  PROVE  /\ Find(s, ch) \in 1..(Len(s) + 1)
         /\ \A i \in 1..Len(s) : i < Find(s, ch) => s[i] # ch
         /\ Find(s, ch) <= Len(s) => s[Find(s, ch)] = ch
<1> DEFINE at == {i \in DOMAIN s : s[i] = ch}
<1>1. DOMAIN s = 1..Len(s) /\ Len(s) \in Nat
  OBVIOUS
<1>2. CASE at = {}
  <2>1. Find(s, ch) = Len(s) + 1
    BY <1>2 DEF Find
  <2> QED BY <1>1, <1>2, <2>1
<1>3. CASE at # {}
  <2>1. at \subseteq Nat
    BY <1>1
  <2>2. \E i \in at : \A j \in at : i <= j
    BY <1>3, <2>1, LeastPlace
  <2>3. PICK k : k = CHOOSE i \in at : \A j \in at : i <= j
    OBVIOUS
  <2>4. k \in at /\ \A j \in at : k <= j
    BY <2>2, <2>3
  <2>5. Find(s, ch) = k
    BY <1>3, <2>3 DEF Find
  <2> HIDE DEF at
  <2>6. k \in 1..Len(s) /\ s[k] = ch
    BY <1>1, <2>4 DEF at
  <2>7. ASSUME NEW i \in 1..Len(s), i < k PROVE s[i] # ch
    <3>1. i \notin at
      BY <2>4, <2>6, <2>7
    <3> QED BY <1>1, <3>1 DEF at
  <2> QED BY <1>1, <2>5, <2>6, <2>7
<1> QED BY <1>2, <1>3

LEMMA FoundAt ==
  ASSUME NEW S, NEW s \in Seq(S), NEW ch, NEW k \in 1..(Len(s) + 1),
         \A i \in 1..Len(s) : i < k => s[i] # ch, k <= Len(s) => s[k] = ch
  PROVE  Find(s, ch) = k
<1>1. PICK f \in 1..(Len(s) + 1) : f = Find(s, ch)
  BY Found
<1>2. /\ \A i \in 1..Len(s) : i < f => s[i] # ch
      /\ f <= Len(s) => s[f] = ch
  BY <1>1, Found
<1>3. ~(f < k) /\ ~(k < f)
  BY <1>2
<1> QED BY <1>1, <1>3

Increasing(f, n) == \A i, j \in 1..n : i < j => f[i] < f[j]

LEMMA AsMany ==
  ASSUME NEW n \in Nat, NEW f \in [1..n -> Nat], Increasing(f, n)
  PROVE  Cardinality({f[i] : i \in 1..n}) = n
<1> DEFINE T == {f[i] : i \in 1..n}
<1>1. IsFiniteSet(1..n) /\ Cardinality(1..n) = n
  BY FS_Interval
<1>2. f \in Bijection(1..n, T)
  <2>1. f \in Surjection(1..n, T)
    BY DEF Surjection
  <2>2. \A i, j \in 1..n : f[i] = f[j] => i = j
    BY DEF Increasing
  <2> QED BY <2>1, <2>2 DEF Bijection, Injection, IsInjective, Surjection
<1>3. ExistsBijection(1..n, T)
  BY <1>2 DEF ExistsBijection
<1> QED BY <1>1, <1>3, FS_Bijection

LEMMA Ordered ==
  ASSUME NEW s, NEW n \in Nat, NEW f \in [1..n -> Nat], Increasing(f, n),
         \A y : y \in Starts(s) <=> \E i \in 1..n : y = f[i]
  PROVE  /\ Cardinality(Starts(s)) = n
         /\ \A i \in 1..n : NthStart(s, i) = f[i]
<1>0. Starts(s) = {f[i] : i \in 1..n}
  OBVIOUS
<1>1. Cardinality(Starts(s)) = n
  BY <1>0, AsMany
<1>2. ASSUME NEW i \in 1..n
      PROVE  Cardinality({b \in Starts(s) : b <= f[i]}) = i
  <2>1. PICK g : g = [k \in 1..i |-> f[k]]
    OBVIOUS
  <2>2. g \in [1..i -> Nat] /\ Increasing(g, i) /\ \A k \in 1..i : g[k] = f[k]
    BY <2>1 DEF Increasing
  <2>3. \A k \in 1..n : f[k] <= f[i] <=> k <= i
    BY DEF Increasing
  <2>4. ASSUME NEW b
        PROVE  b \in {c \in Starts(s) : c <= f[i]} <=> b \in {g[k] : k \in 1..i}
    <3>1. b \in {g[k] : k \in 1..i} <=> \E k \in 1..i : b = f[k]
      BY <2>2
    <3>2. b \in {c \in Starts(s) : c <= f[i]} <=> \E k \in 1..n : b = f[k] /\ f[k] <= f[i]
      OBVIOUS
    <3>3. \A k \in 1..i : k \in 1..n /\ k <= i
      OBVIOUS
    <3> QED BY <2>3, <3>1, <3>2, <3>3
  <2>5. {b \in Starts(s) : b <= f[i]} = {g[k] : k \in 1..i}
    BY <2>4
  <2>6. i \in Nat
    OBVIOUS
  <2>7. Cardinality({g[k] : k \in 1..i}) = i
    BY <2>2, <2>6, AsMany
  <2> QED BY <2>5, <2>7
<1>3. ASSUME NEW i \in 1..n PROVE NthStart(s, i) = f[i]
  <2>1. f[i] \in Starts(s)
    OBVIOUS
  <2>2. ASSUME NEW a \in Starts(s), Cardinality({b \in Starts(s) : b <= a}) = i
        PROVE  a = f[i]
    BY <1>2, <2>2
  <2> QED BY <1>2, <2>1, <2>2 DEF NthStart
<1> QED BY <1>1, <1>3

LEMMA AsFunction ==
  ASSUME NEW S, NEW s \in Seq(S)
  PROVE  s = [i \in 1..Len(s) |-> s[i]]
  OBVIOUS

(* What a page has written: where each parameter begins in the URI, and how it    *)
(* goes on.                                                                   *)
Letters == Keys \cup Symbols \cup {"/uri", "?", "&", "=", "+", " "}
Tokens  == {"", "%", "+"} \X Letters
Fields  == Keys \X Seq(Tokens)

End(f, i) == f[i] + 1 + Len(sent[i][2])
Inside(f, i, x) == f[i] <= x /\ x <= End(f, i)

Laid(f) ==
    /\ f \in [1..Len(sent) -> Nat] /\ f[1] = 3 /\ url[2] = Plain("?")
    /\ End(f, Len(sent)) = Len(url)
    /\ \A i \in 1..Len(sent) :
          /\ f[i] >= 3 /\ End(f, i) <= Len(url)
          /\ url[f[i]] = Plain(sent[i][1]) /\ url[f[i] + 1] = Plain("=")
          /\ \A j \in 1..Len(sent[i][2]) : url[f[i] + 1 + j] = sent[i][2][j]
          /\ i > 1 => url[f[i] - 1] = Plain("&") /\ f[i] = End(f, i - 1) + 2
    /\ \A i, j \in 1..Len(sent) : i < j => End(f, i) + 2 <= f[j]
    /\ \A x \in 3..Len(url) : \E i \in 1..Len(sent) :
          Inside(f, i, x) \/ (i > 1 /\ x = f[i] - 1)

UriTypes == sent \in Seq(Fields) /\ url \in Seq(Tokens)
UriInv ==
    /\ url[1] = Plain("/uri") /\ Len(url) >= 1
    /\ sent = <<>> => Len(url) = 1
    /\ sent # <<>> => \E f : Laid(f)

LEMMA Escaped ==
  ASSUME NEW ch \in Symbols, NEW e \in Escapes(ch)
  PROVE  e \in Tokens
<1>1. e = <<"%", ch>> \/ e = <<"+", "+">> \/ e = <<"", ch>>
  BY DEF Escapes
<1>2. ch \in Letters /\ "+" \in Letters
  BY DEF Letters
<1>3. <<"%", ch>> \in Tokens /\ <<"+", "+">> \in Tokens /\ <<"", ch>> \in Tokens
  BY <1>2 DEF Tokens
<1> QED BY <1>1, <1>3

LEMMA Lengths ==
  ASSUME UriTypes, NEW f, f \in [1..Len(sent) -> Nat], NEW i \in 1..Len(sent)
  PROVE  /\ sent[i][1] \in Keys /\ sent[i][2] \in Seq(Tokens)
         /\ Len(sent[i][2]) \in Nat /\ f[i] \in Nat
         /\ End(f, i) = f[i] + 1 + Len(sent[i][2]) /\ End(f, i) \in Nat
<1>1. sent[i] \in Fields
  BY DEF UriTypes
<1>2. sent[i][1] \in Keys /\ sent[i][2] \in Seq(Tokens)
  BY <1>1 DEF Fields
<1>3. Len(sent[i][2]) \in Nat /\ f[i] \in Nat
  BY <1>2
<1> QED BY <1>2, <1>3 DEF End

LEMMA Started ==
  ASSUME UriTypes, UriInv, NEW k \in Keys, AddParameter(k)
  PROVE  UriTypes' /\ UriInv'
<1>0. PICK n, l : n = Len(sent) /\ l = Len(url)
  OBVIOUS
<1>1. PICK t : t = <<Plain(IF sent = <<>> THEN "?" ELSE "&"), Plain(k), Plain("=")>>
  OBVIOUS
<1>2. t \in Seq(Tokens) /\ Len(t) = 3 /\ t[1] = Plain(IF sent = <<>> THEN "?" ELSE "&")
      /\ t[2] = Plain(k) /\ t[3] = Plain("=")
  <2>1. /\ Plain(IF sent = <<>> THEN "?" ELSE "&") \in Tokens
        /\ Plain(k) \in Tokens /\ Plain("=") \in Tokens
    BY DEF Plain, Tokens, Letters
  <2> QED BY <1>1, <2>1
<1>3. url' = url \o t
  BY <1>1 DEF AddParameter
<1>4. /\ url' \in Seq(Tokens) /\ Len(url') = l + 3 /\ n \in Nat /\ l \in Nat /\ l >= 1
      /\ \A x \in 1..l : url'[x] = url[x]
      /\ url'[l + 1] = t[1] /\ url'[l + 2] = t[2] /\ url'[l + 3] = t[3]
  <2>1. url \in Seq(Tokens) /\ l >= 1 /\ n \in Nat /\ l \in Nat /\ l = Len(url)
    BY <1>0 DEF UriTypes, UriInv
  <2>2. /\ url' \in Seq(Tokens) /\ Len(url') = l + Len(t)
        /\ \A x \in 1..(l + Len(t)) : url'[x] = IF x <= l THEN url[x] ELSE t[x - l]
    BY <1>2, <1>3, <2>1, ConcatProperties
  <2> QED BY <1>2, <2>1, <2>2
<1>5. PICK p : p = <<k, <<>>>>
  OBVIOUS
<1>6. p \in Fields /\ p[1] = k /\ p[2] = <<>>
  <2>1. <<>> \in Seq(Tokens)
    OBVIOUS
  <2> QED BY <1>5, <2>1 DEF Fields
<1>7. sent' = Append(sent, p)
  BY <1>5 DEF AddParameter
<1>8. /\ sent' \in Seq(Fields) /\ Len(sent') = n + 1 /\ sent' # <<>>
      /\ \A i \in 1..n : sent'[i] = sent[i]
      /\ sent'[n + 1] = p
  BY <1>0, <1>6, <1>7 DEF UriTypes
<1>9. UriTypes'
  BY <1>4, <1>8 DEF UriTypes
<1>10. url'[1] = Plain("/uri") /\ Len(url') >= 1
  BY <1>0, <1>4 DEF UriInv
<1>11. CASE sent = <<>>
  <2>1. n = 0 /\ l = 1
    BY <1>0, <1>11 DEF UriInv
  <2>2. PICK f : f = [i \in 1..1 |-> 3]
    OBVIOUS
  <2>3. f \in [1..1 -> Nat] /\ f[1] = 3
    BY <2>2
  <2>4. Len(sent'[1][2]) = 0 /\ sent'[1][1] = k
    BY <1>6, <1>8, <2>1
  <2>5. /\ End(f, 1)' = 4
        /\ url'[2] = Plain("?") /\ url'[3] = Plain(k) /\ url'[4] = Plain("=") /\ Len(url') = 4
    BY <1>2, <1>4, <1>11, <2>1, <2>3, <2>4 DEF End
  <2>6. \A i \in 1..1 : i = 1
    OBVIOUS
  <2>7. \A x \in 3..4 : Inside(f, 1, x)'
    BY <2>3, <2>5 DEF Inside
  <2>8. Len(sent') = 1
    BY <1>8, <2>1
  <2>9. Laid(f)'
    BY <2>3, <2>4, <2>5, <2>6, <2>7, <2>8 DEF Laid
  <2> QED BY <1>8, <1>9, <1>10, <2>9 DEF UriInv
<1>12. CASE sent # <<>>
  <2>1. PICK f : Laid(f)
    BY <1>12 DEF UriInv
  <2>2. n >= 1 /\ f \in [1..n -> Nat] /\ f[1] = 3 /\ End(f, n) = l
    BY <1>0, <1>4, <1>12, <2>1 DEF Laid, UriTypes
  <2>a. /\ \A i \in 1..n : End(f, i) <= l /\ f[i] \in Nat
        /\ \A x \in 3..l : \E i \in 1..n : Inside(f, i, x) \/ (i > 1 /\ x = f[i] - 1)
    BY <1>0, <2>1, <2>2 DEF Laid
  <2>b. l \in Nat /\ n \in Nat
    BY <1>4
  <2>3. PICK g : g = [i \in 1..(n + 1) |-> IF i = n + 1 THEN l + 2 ELSE f[i]]
    OBVIOUS
  <2>4. /\ g \in [1..(n + 1) -> Nat] /\ g[n + 1] = l + 2 /\ g[1] = 3
        /\ \A i \in 1..n : g[i] = f[i]
    BY <1>4, <2>2, <2>3
  <2>5. /\ \A i \in 1..n : End(g, i)' = End(f, i)
        /\ End(g, n + 1)' = l + 3
    <3>1. \A i \in 1..n : End(g, i)' = End(f, i)
      BY <1>8, <2>4 DEF End
    <3>2. Len(sent'[n + 1][2]) = 0
      BY <1>6, <1>8
    <3>3. End(g, n + 1)' = l + 2 + 1 + 0
      BY <2>4, <3>2 DEF End
    <3> QED BY <1>4, <3>1, <3>3
  <2>6. ASSUME NEW i \in 1..n
        PROVE  /\ g[i] >= 3 /\ End(g, i)' <= l /\ i \in 1..(n + 1)
               /\ url'[g[i]] = Plain(sent'[i][1]) /\ url'[g[i] + 1] = Plain("=")
               /\ \A j \in 1..Len(sent'[i][2]) : url'[g[i] + 1 + j] = sent'[i][2][j]
               /\ i > 1 => url'[g[i] - 1] = Plain("&") /\ g[i] = End(g, i - 1)' + 2
    <3>1. /\ f[i] >= 3 /\ End(f, i) <= l /\ f[i] \in Nat
          /\ url[f[i]] = Plain(sent[i][1]) /\ url[f[i] + 1] = Plain("=")
          /\ \A j \in 1..Len(sent[i][2]) : url[f[i] + 1 + j] = sent[i][2][j]
          /\ i > 1 => url[f[i] - 1] = Plain("&") /\ f[i] = End(f, i - 1) + 2
      BY <1>0, <1>4, <2>1, <2>2 DEF Laid
    <3>2. Len(sent[i][2]) \in Nat
      BY <1>0, <2>2, Lengths
    <3>3. g[i] = f[i] /\ sent'[i] = sent[i]
      BY <1>8, <2>4
    <3>a. End(f, i) = f[i] + 1 + Len(sent[i][2])
      BY DEF End
    <3>4. \A j \in 0..Len(sent[i][2]) : f[i] + 1 + j \in 1..l
      <4>1. PICK a, b : a = f[i] /\ b = Len(sent[i][2]) /\ a \in Nat /\ b \in Nat
        BY <3>1, <3>2
      <4>2. a + 1 + b <= l
        BY <3>1, <3>a, <4>1
      <4>3. \A j \in 0..b : a + 1 + j \in 1..l
        <5>1. TAKE j \in 0..b
        <5>2. j \in Nat /\ j <= b /\ l \in Nat /\ a \in Nat /\ b \in Nat /\ a + 1 + b <= l
          BY <2>b, <4>1, <4>2
        <5>3. a + 1 + j <= l
          BY <5>2
        <5>4. a + 1 + j >= 1
          BY <5>2
        <5> QED BY <5>2, <5>3, <5>4
      <4> QED BY <4>1, <4>3
    <3>5. /\ url'[f[i]] = url[f[i]] /\ url'[f[i] + 1] = url[f[i] + 1]
          /\ url'[f[i] - 1] = url[f[i] - 1]
          /\ \A j \in 1..Len(sent[i][2]) : url'[f[i] + 1 + j] = url[f[i] + 1 + j]
      <4>1. f[i] \in 1..l /\ f[i] + 1 \in 1..l /\ f[i] - 1 \in 1..l
        <5>1. PICK a, b : a = f[i] /\ b = Len(sent[i][2]) /\ a \in Nat /\ b \in Nat
          BY <3>1, <3>2
        <5>2. a + 1 + b <= l /\ a >= 3
          BY <3>1, <3>a, <5>1
        <5>3. a \in Nat /\ b \in Nat /\ l \in Nat
          BY <2>b, <5>1
        <5>4. a \in 1..l /\ a + 1 \in 1..l /\ a - 1 \in 1..l
          BY <5>2, <5>3
        <5> QED BY <5>1, <5>4
      <4>2. ASSUME NEW j \in 1..Len(sent[i][2])
            PROVE  url'[f[i] + 1 + j] = url[f[i] + 1 + j]
        BY <1>4, <3>2, <3>4
      <4> QED BY <1>4, <4>1, <4>2
    <3>6. i > 1 => End(g, i - 1)' = End(f, i - 1)
      BY <1>4, <2>5
    <3> QED BY <1>4, <2>5, <3>1, <3>3, <3>5, <3>6
  <2>7. /\ url'[g[n + 1]] = Plain(sent'[n + 1][1]) /\ url'[g[n + 1] + 1] = Plain("=")
        /\ url'[g[n + 1] - 1] = Plain("&") /\ g[n + 1] = End(g, n)' + 2 /\ g[n + 1] >= 3
        /\ Len(sent'[n + 1][2]) = 0
    <3>1. Len(sent'[n + 1][2]) = 0 /\ sent'[n + 1][1] = k
      BY <1>6, <1>8
    <3>2. url'[l + 2] = Plain(k) /\ url'[l + 3] = Plain("=") /\ url'[l + 1] = Plain("&")
      BY <1>2, <1>4, <1>12
    <3>3. (l + 2) + 1 = l + 3 /\ (l + 2) - 1 = l + 1 /\ l + 2 >= 3 /\ n \in 1..n
      BY <1>4, <2>2
    <3>4. End(g, n)' = l
      BY <2>2, <2>5, <3>3
    <3> QED BY <2>4, <3>1, <3>2, <3>3, <3>4
  <2>8. ASSUME NEW i \in 1..(n + 1), NEW j \in 1..(n + 1), i < j
        PROVE  End(g, i)' + 2 <= g[j]
    <3>1. i \in 1..n /\ End(g, i)' = End(f, i) /\ End(f, i) <= l
      <4>1. i \in 1..n
        BY <2>b, <2>8
      <4> QED BY <2>5, <2>a, <4>1
    <3>2. End(f, i) \in Nat
      BY <1>0, <2>2, <3>1, Lengths
    <3>3. CASE j = n + 1
      BY <1>4, <2>4, <3>1, <3>2, <3>3
    <3>4. CASE j \in 1..n
      BY <1>0, <2>1, <2>4, <2>8, <3>1, <3>4 DEF Laid
    <3> QED BY <1>4, <3>3, <3>4
  <2>9. ASSUME NEW x \in 3..(l + 3)
        PROVE  \E i \in 1..(n + 1) : Inside(g, i, x)' \/ (i > 1 /\ x = g[i] - 1)
    <3>1. CASE x <= l
      <4>1. PICK i \in 1..n : Inside(f, i, x) \/ (i > 1 /\ x = f[i] - 1)
        BY <2>a, <2>b, <3>1
      <4>2. i \in 1..(n + 1) /\ g[i] = f[i] /\ End(g, i)' = End(f, i)
        BY <1>4, <2>4, <2>5
      <4> QED BY <4>1, <4>2 DEF Inside
    <3>2. CASE x = l + 1
      BY <1>4, <2>2, <2>4, <3>2
    <3>3. CASE x = l + 2 \/ x = l + 3
      <4>1. n + 1 \in 1..(n + 1) /\ g[n + 1] <= x /\ x <= End(g, n + 1)'
        BY <1>4, <2>4, <2>5, <3>3
      <4>2. Inside(g, n + 1, x)'
        BY <4>1 DEF Inside
      <4> QED BY <4>1, <4>2
    <3>4. x <= l \/ x = l + 1 \/ x = l + 2 \/ x = l + 3
      BY <1>4, <2>9
    <3> QED BY <3>1, <3>2, <3>3, <3>4
  <2>10. Len(sent') = n + 1 /\ Len(url') = l + 3 /\ url'[2] = Plain("?")
    <3>1. 2 \in 1..l
      <4>1. 1 \in 1..n /\ End(f, 1) <= l
        BY <2>2, <2>a, <2>b
      <4>2. /\ f[1] \in Nat /\ Len(sent[1][2]) \in Nat
            /\ End(f, 1) = f[1] + 1 + Len(sent[1][2])
        BY <1>0, <2>2, <4>1, Lengths
      <4> QED BY <2>2, <2>b, <4>1, <4>2
    <3> QED BY <1>0, <1>4, <1>8, <2>1, <3>1 DEF Laid
  <2>11. ASSUME NEW i \in 1..(n + 1)
         PROVE  /\ g[i] >= 3 /\ End(g, i)' <= l + 3
                /\ url'[g[i]] = Plain(sent'[i][1]) /\ url'[g[i] + 1] = Plain("=")
                /\ \A j \in 1..Len(sent'[i][2]) : url'[g[i] + 1 + j] = sent'[i][2][j]
                /\ i > 1 => url'[g[i] - 1] = Plain("&") /\ g[i] = End(g, i - 1)' + 2
    <3>1. CASE i = n + 1
      <4>1. i - 1 = n /\ End(g, n + 1)' <= l + 3
        BY <1>4, <2>5, <3>1
      <4>2. \A j \in 1..Len(sent'[n + 1][2]) : FALSE
        BY <2>7
      <4> QED BY <2>7, <3>1, <4>1, <4>2
    <3>2. CASE i # n + 1
      <4>1. i \in 1..n
        BY <1>4, <3>2
      <4>2. End(g, i)' \in Int
        BY <1>0, <2>2, <2>5, <4>1, Lengths
      <4> QED BY <1>4, <2>6, <4>1, <4>2
    <3> QED BY <3>1, <3>2
  <2>12. Laid(g)'
    BY <2>4, <2>5, <2>8, <2>9, <2>10, <2>11 DEF Laid
  <2> QED BY <1>8, <1>9, <1>10, <2>12 DEF UriInv
<1> QED BY <1>11, <1>12

LEMMA Continued ==
  ASSUME UriTypes, UriInv, NEW ch \in Symbols, AddCharacter(ch)
  PROVE  UriTypes' /\ UriInv'
<1>0. PICK n, l : n = Len(sent) /\ l = Len(url)
  OBVIOUS
<1>1. PICK e \in Escapes(ch) :
         /\ sent' = [sent EXCEPT ![Len(sent)] = <<@[1], Append(@[2], e)>>]
         /\ url' = Append(url, e)
  BY DEF AddCharacter
<1>2. e \in Tokens
  BY Escaped
<1>3. /\ n \in Nat /\ l \in Nat /\ l >= 1 /\ n \in 1..n /\ n >= 1 /\ sent # <<>>
      /\ sent \in Seq(Fields) /\ url \in Seq(Tokens)
  BY <1>0 DEF UriTypes, UriInv, AddCharacter
<1>4. PICK v : v = sent[n][2]
  OBVIOUS
<1>5. PICK m : m = Len(v)
  OBVIOUS
<1>6. sent[n] \in Fields /\ sent[n][1] \in Keys /\ v \in Seq(Tokens) /\ m \in Nat
  BY <1>0, <1>3, <1>4, <1>5 DEF Fields
<1>a. l \in Nat /\ n \in Nat /\ m \in Nat
  BY <1>3, <1>6
<1>7. PICK w : w = Append(v, e)
  OBVIOUS
<1>8. w \in Seq(Tokens) /\ Len(w) = m + 1 /\ w[m + 1] = e /\ \A j \in 1..m : w[j] = v[j]
  BY <1>2, <1>5, <1>6, <1>7
<1>9. PICK p : p = <<sent[n][1], w>>
  OBVIOUS
<1>10. p \in Fields /\ p[1] = sent[n][1] /\ p[2] = w
  BY <1>6, <1>8, <1>9 DEF Fields
<1>11. /\ sent' \in Seq(Fields) /\ Len(sent') = n /\ sent' # <<>> /\ sent'[n] = p
       /\ \A i \in 1..n : i # n => sent'[i] = sent[i]
  <2>1. sent' = [sent EXCEPT ![n] = p]
    BY <1>0, <1>1, <1>4, <1>7, <1>9
  <2>2. DOMAIN sent = 1..n
    BY <1>0, <1>3
  <2>3. sent' \in Seq(Fields) /\ Len(sent') = n
    BY <1>0, <1>3, <1>10, <2>1
  <2> QED BY <1>3, <2>1, <2>2, <2>3
<1>12. /\ url' \in Seq(Tokens) /\ Len(url') = l + 1 /\ url'[l + 1] = e
       /\ \A x \in 1..l : url'[x] = url[x]
  BY <1>0, <1>1, <1>2, <1>3
<1>13. UriTypes'
  BY <1>11, <1>12 DEF UriTypes
<1>14. url'[1] = Plain("/uri") /\ Len(url') >= 1
  BY <1>3, <1>12 DEF UriInv
<1>15. PICK f : Laid(f)
  BY <1>3 DEF UriInv
<1>16. /\ f \in [1..n -> Nat] /\ f[1] = 3 /\ url[2] = Plain("?") /\ End(f, n) = l
       /\ \A i \in 1..n : f[i] >= 3 /\ End(f, i) <= l
       /\ \A i, j \in 1..n : i < j => End(f, i) + 2 <= f[j]
  BY <1>0, <1>15 DEF Laid
<1>17. \A x \in 3..l : \E i \in 1..n : Inside(f, i, x) \/ (i > 1 /\ x = f[i] - 1)
  BY <1>0, <1>15 DEF Laid
<1>18. ASSUME NEW i \in 1..n
       PROVE  /\ f[i] \in 1..l /\ f[i] + 1 \in 1..l /\ f[i] - 1 \in 1..l
              /\ \A j \in 1..Len(sent[i][2]) : f[i] + 1 + j \in 1..l
  <2>1. /\ Len(sent[i][2]) \in Nat /\ f[i] \in Nat
        /\ End(f, i) = f[i] + 1 + Len(sent[i][2])
    BY <1>0, <1>16, Lengths
  <2>2. PICK a, c : a = f[i] /\ c = Len(sent[i][2]) /\ a \in Nat /\ c \in Nat
    BY <2>1
  <2>3. a + 1 + c <= l /\ a >= 3
    BY <1>16, <2>1, <2>2
  <2>4. a \in 1..l /\ a + 1 \in 1..l /\ a - 1 \in 1..l
    <3>1. a \in Nat /\ c \in Nat
      BY <2>2
    <3> QED BY <1>a, <2>3, <3>1
  <2>5. ASSUME NEW j \in 1..c PROVE a + 1 + j \in 1..l
    <3>1. j \in Nat /\ j <= c /\ 1 <= j
      BY <2>2
    <3>2. a + 1 + j <= l /\ a + 1 + j >= 1
      BY <1>a, <2>2, <2>3, <3>1
    <3> QED BY <1>a, <2>2, <3>1, <3>2
  <2> QED BY <2>2, <2>4, <2>5
<1>19. /\ \A i \in 1..n : i # n => End(f, i)' = End(f, i)
       /\ End(f, n)' = l + 1
  <2>1. \A i \in 1..n : i # n => End(f, i)' = End(f, i)
    BY <1>11 DEF End
  <2>2. End(f, n)' = f[n] + 1 + (m + 1)
    BY <1>8, <1>10, <1>11 DEF End
  <2>3. f[n] \in Nat /\ l = f[n] + 1 + m
    BY <1>3, <1>4, <1>5, <1>16 DEF End
  <2>4. f[n] + 1 + (m + 1) = l + 1
    BY <1>a, <2>3
  <2> QED BY <2>1, <2>2, <2>4
<1>20. ASSUME NEW i \in 1..n
       PROVE  /\ f[i] >= 3 /\ End(f, i)' <= l + 1
              /\ url'[f[i]] = Plain(sent'[i][1]) /\ url'[f[i] + 1] = Plain("=")
              /\ \A j \in 1..Len(sent'[i][2]) : url'[f[i] + 1 + j] = sent'[i][2][j]
              /\ i > 1 => url'[f[i] - 1] = Plain("&") /\ f[i] = End(f, i - 1)' + 2
  <2>1. /\ url[f[i]] = Plain(sent[i][1]) /\ url[f[i] + 1] = Plain("=")
        /\ \A j \in 1..Len(sent[i][2]) : url[f[i] + 1 + j] = sent[i][2][j]
        /\ i > 1 => url[f[i] - 1] = Plain("&") /\ f[i] = End(f, i - 1) + 2
    BY <1>0, <1>15 DEF Laid
  <2>2. /\ url'[f[i]] = url[f[i]] /\ url'[f[i] + 1] = url[f[i] + 1]
        /\ url'[f[i] - 1] = url[f[i] - 1]
        /\ \A j \in 1..Len(sent[i][2]) : url'[f[i] + 1 + j] = url[f[i] + 1 + j]
    BY <1>12, <1>18
  <2>3. i > 1 => End(f, i - 1)' = End(f, i - 1)
    BY <1>3, <1>19
  <2>4. sent'[i][1] = sent[i][1]
    BY <1>10, <1>11
  <2>5. \A j \in 1..Len(sent'[i][2]) : url'[f[i] + 1 + j] = sent'[i][2][j]
    <3>1. CASE i # n
      BY <1>11, <2>1, <2>2, <3>1
    <3>2. CASE i = n
      <4>1. sent'[i][2] = w
        BY <1>10, <1>11, <3>2
      <4>2. \A j \in 1..m : url'[f[i] + 1 + j] = w[j]
        BY <1>4, <1>5, <1>8, <2>1, <2>2, <3>2
      <4>3. f[n] + 1 + (m + 1) = l + 1
        <5>1. l = f[n] + 1 + m /\ f[n] \in Nat
          BY <1>3, <1>4, <1>5, <1>16 DEF End
        <5> QED BY <1>a, <5>1
      <4>4. url'[f[i] + 1 + (m + 1)] = w[m + 1]
        BY <1>8, <1>12, <3>2, <4>3
      <4>5. \A j \in 1..(m + 1) : j \in 1..m \/ j = m + 1
        BY <1>6
      <4>6. \A j \in 1..(m + 1) : url'[f[i] + 1 + j] = w[j]
        BY <4>2, <4>4, <4>5
      <4> QED BY <1>8, <4>1, <4>6
    <3> QED BY <3>1, <3>2
  <2>6. End(f, i)' <= l + 1
    <3>1. CASE i = n
      BY <1>3, <1>19, <3>1
    <3>2. CASE i # n
      <4>1. End(f, i) \in Nat
        BY <1>0, <1>16, Lengths
      <4> QED BY <1>3, <1>16, <1>19, <3>2, <4>1
    <3> QED BY <3>1, <3>2
  <2> QED BY <1>16, <2>1, <2>2, <2>3, <2>4, <2>5, <2>6
<1>21. ASSUME NEW i \in 1..n, NEW j \in 1..n, i < j
       PROVE  End(f, i)' + 2 <= f[j]
  <2>1. i # n
    BY <1>3, <1>21
  <2> QED BY <1>16, <1>19, <1>21, <2>1
<1>22. ASSUME NEW x \in 3..(l + 1)
       PROVE  \E i \in 1..n : Inside(f, i, x)' \/ (i > 1 /\ x = f[i] - 1)
  <2>1. f[n] \in Nat /\ f[n] <= l
    BY <1>3, <1>16, <1>18
  <2>2. CASE x <= l
    <3>1. PICK i \in 1..n : Inside(f, i, x) \/ (i > 1 /\ x = f[i] - 1)
      BY <1>3, <1>17, <2>2
    <3>2. CASE i # n
      BY <1>19, <3>1, <3>2 DEF Inside
    <3>3. CASE i = n
      BY <1>3, <1>19, <2>2, <3>1, <3>3 DEF Inside
    <3> QED BY <3>2, <3>3
  <2>3. CASE x = l + 1
    <3>1. Inside(f, n, x)'
      BY <1>3, <1>19, <2>1, <2>3 DEF Inside
    <3> QED BY <1>3, <3>1
  <2> QED BY <1>3, <2>2, <2>3
<1>23. url'[2] = Plain("?")
  <2>1. 2 \in 1..l
    BY <1>3, <1>16, <1>18
  <2> QED BY <1>12, <1>16, <2>1
<1>24. Laid(f)'
  BY <1>11, <1>12, <1>16, <1>19, <1>20, <1>21, <1>22, <1>23 DEF Laid
<1> QED BY <1>11, <1>13, <1>14, <1>24 DEF UriInv

LEMMA PlainDecoded == ASSUME NEW ch PROVE Decoded(Plain(ch)) = ch
BY DEF Decoded, Plain

LEMMA DecodedLetter == ASSUME NEW t \in Tokens PROVE Decoded(t) \in Letters
<1>1. t[2] \in Letters
  BY DEF Tokens
<1> QED BY <1>1 DEF Decoded, Letters

(* What the server reads is, place by place, what the page wrote, if it has room.  *)
LEMMA DecodedText ==
  ASSUME UriTypes, Len(url) <= MaxUri
  PROVE  /\ Decode(url) \in Seq(Letters) /\ Len(Decode(url)) = Len(url)
         /\ \A x \in 1..Len(url) : Decode(url)[x] = Decoded(url[x])
<1>1. url \in Seq(Tokens) /\ Len(url) \in Nat
  BY DEF UriTypes
<1>2. (IF Len(url) < MaxUri THEN Len(url) ELSE MaxUri) = Len(url)
  BY <1>1, UriSizesAssumption
<1>3. Decode(url) = [x \in 1..Len(url) |-> Decoded(url[x])]
  BY <1>2 DEF Decode
<1>4. \A x \in 1..Len(url) : Decoded(url[x]) \in Letters
  BY <1>1, DecodedLetter
<1> HIDE DEF Decode
<1> QED BY <1>1, <1>3, <1>4

LEMMA MeantValue ==
  ASSUME UriTypes, NEW i \in 1..Len(sent)
  PROVE  /\ Meant[i] = <<<<sent[i][1]>>, Meant[i][2]>> /\ i \in DOMAIN sent
         /\ Meant[i][2] \in Seq(Letters) /\ Len(Meant[i][2]) = Len(sent[i][2])
         /\ \A j \in 1..Len(sent[i][2]) : Meant[i][2][j] = Decoded(sent[i][2][j])
         /\ \A ch : ~Has(i, ch) => \A j \in 1..Len(sent[i][2]) : Meant[i][2][j] # ch
<1>1. PICK v : v = [j \in DOMAIN sent[i][2] |-> Decoded(sent[i][2][j])]
  OBVIOUS
<1>2. sent \in Seq(Fields) /\ i \in DOMAIN sent
  BY DEF UriTypes
<1>3. Meant[i] = <<<<sent[i][1]>>, v>>
  BY <1>1, <1>2 DEF Meant
<1>4. Meant[i][2] = v /\ Meant[i] = <<<<sent[i][1]>>, Meant[i][2]>>
  BY <1>3
<1>5. sent[i][2] \in Seq(Tokens)
  BY <1>2 DEF Fields
<1>6. \A j \in 1..Len(sent[i][2]) : Decoded(sent[i][2][j]) \in Letters
  BY <1>5, DecodedLetter
<1>7. v \in Seq(Letters) /\ Len(v) = Len(sent[i][2])
      /\ \A j \in 1..Len(sent[i][2]) : v[j] = Decoded(sent[i][2][j])
  BY <1>1, <1>5, <1>6
<1>8. ASSUME NEW ch, ~Has(i, ch)
      PROVE  \A j \in 1..Len(v) : v[j] # ch
  <2>1. PICK k \in 1..(Len(v) + 1) : k = Find(v, ch) /\ \A j \in 1..Len(v) : j < k => v[j] # ch
    BY <1>7, Found
  <2>2. ~(k <= Len(v))
    BY <1>4, <1>8, <2>1 DEF Has
  <2>3. Len(v) \in Nat
    BY <1>7
  <2>4. \A j \in 1..Len(v) : j < k
    BY <2>2, <2>3
  <2> QED BY <2>1, <2>4
<1> QED BY <1>2, <1>4, <1>7, <1>8

Text(d, f) ==
    /\ d[1] = "/uri" /\ d[2] = "?"
    /\ \A i \in 1..Len(sent) :
          /\ f[i] \in 1..Len(url) /\ f[i] + 1 \in 1..Len(url) /\ f[i] - 1 \in 1..Len(url)
          /\ d[f[i]] = sent[i][1] /\ d[f[i] + 1] = "="
          /\ \A j \in 1..Len(sent[i][2]) :
                f[i] + 1 + j \in 1..Len(url) /\ d[f[i] + 1 + j] = Meant[i][2][j]
          /\ i > 1 => d[f[i] - 1] = "&"

LEMMA TextLaid ==
  ASSUME UriTypes, UriInv, Len(url) <= MaxUri, NEW f, Laid(f), sent # <<>>
  PROVE  Text(Decode(url), f)
<1>d. PICK d : d = Decode(url)
  OBVIOUS
<1>0. PICK n, l : n = Len(sent) /\ l = Len(url) /\ n \in Nat /\ l \in Nat
  <2>1. Len(sent) \in Nat /\ Len(url) \in Nat
    BY DEF UriTypes
  <2> QED BY <2>1
<1>1. \A x \in 1..l : d[x] = Decoded(url[x])
  BY <1>0, <1>d, DecodedText
<1>2. /\ f \in [1..n -> Nat] /\ f[1] = 3 /\ url[2] = Plain("?") /\ n >= 1
      /\ \A i \in 1..n : f[i] >= 3 /\ End(f, i) <= l
  BY <1>0 DEF Laid, UriTypes
<1>3. ASSUME NEW i \in 1..n
      PROVE  /\ f[i] \in 1..l /\ f[i] + 1 \in 1..l /\ f[i] - 1 \in 1..l
             /\ \A j \in 1..Len(sent[i][2]) : f[i] + 1 + j \in 1..l
  <2>1. /\ Len(sent[i][2]) \in Nat /\ f[i] \in Nat
        /\ End(f, i) = f[i] + 1 + Len(sent[i][2])
    BY <1>0, <1>2, Lengths
  <2>2. PICK a, c : a = f[i] /\ c = Len(sent[i][2]) /\ a \in Nat /\ c \in Nat
    BY <2>1
  <2>3. a + 1 + c <= l /\ a >= 3
    BY <1>2, <2>1, <2>2
  <2>4. a \in Nat /\ c \in Nat /\ l \in Nat
    BY <1>0, <2>2
  <2>5. a \in 1..l /\ a + 1 \in 1..l /\ a - 1 \in 1..l
    BY <2>3, <2>4
  <2>6. ASSUME NEW j \in 1..c PROVE a + 1 + j \in 1..l
    <3>1. j \in Nat /\ j <= c /\ 1 <= j
      BY <2>4
    <3>2. a + 1 + j <= l /\ a + 1 + j >= 1
      BY <2>3, <2>4, <3>1
    <3> QED BY <2>4, <3>1, <3>2
  <2> QED BY <2>2, <2>5, <2>6
<1>4. d[1] = "/uri" /\ d[2] = "?"
  <2>1. 1 \in 1..l /\ 2 \in 1..l
    <3>1. 1 \in 1..n
      BY <1>0, <1>2
    <3>2. 3 - 1 \in 1..l
      BY <1>2, <1>3, <3>1
    <3> QED BY <1>0, <3>2
  <2>2. url[1] = Plain("/uri")
    BY DEF UriInv
  <2> QED BY <1>1, <1>2, <2>1, <2>2, PlainDecoded
<1>5. ASSUME NEW i \in 1..n
      PROVE  /\ d[f[i]] = sent[i][1] /\ d[f[i] + 1] = "="
             /\ \A j \in 1..Len(sent[i][2]) : d[f[i] + 1 + j] = Meant[i][2][j]
             /\ i > 1 => d[f[i] - 1] = "&"
  <2>1. /\ url[f[i]] = Plain(sent[i][1]) /\ url[f[i] + 1] = Plain("=")
        /\ \A j \in 1..Len(sent[i][2]) : url[f[i] + 1 + j] = sent[i][2][j]
        /\ i > 1 => url[f[i] - 1] = Plain("&")
    BY <1>0 DEF Laid
  <2>2. \A j \in 1..Len(sent[i][2]) : Meant[i][2][j] = Decoded(sent[i][2][j])
    BY <1>0, MeantValue
  <2>3. /\ d[f[i]] = sent[i][1] /\ d[f[i] + 1] = "="
        /\ i > 1 => d[f[i] - 1] = "&"
    BY <1>1, <1>3, <2>1, PlainDecoded
  <2>4. \A j \in 1..Len(sent[i][2]) : d[f[i] + 1 + j] = Meant[i][2][j]
    BY <1>1, <1>3, <2>1, <2>2
  <2> QED BY <2>3, <2>4
<1>6. Text(d, f)
  BY <1>0, <1>3, <1>4, <1>5 DEF Text
<1> QED BY <1>d, <1>6

LEMMA Paired ==
  ASSUME NEW key \in Keys, NEW v \in Seq(Letters), NEW t \in Seq(Letters),
         Len(t) = Len(v) + 2, t[1] = key, t[2] = "=",
         \A j \in 1..Len(v) : t[j + 2] = v[j]
  PROVE  /\ Pair(t) = <<<<key>>, v>>
         /\ (\A j \in 1..Len(v) : v[j] # " ") => Before(t, " ") = t
<1>1. Len(v) \in Nat /\ Len(t) \in Nat /\ 1 \in 1..Len(t) /\ 2 \in 1..Len(t)
  OBVIOUS
<1>2. key # "=" /\ key # " "
  BY UriCharsAssumption
<1>3. Find(t, "=") = 2
  <2>1. 2 \in 1..(Len(t) + 1) /\ (2 <= Len(t) => t[2] = "=")
    BY <1>1
  <2>2. ASSUME NEW i \in 1..Len(t), i < 2 PROVE t[i] # "="
    <3>1. i = 1
      BY <1>1, <2>2
    <3> QED BY <1>2, <3>1
  <2> QED BY <2>1, <2>2, FoundAt
<1>4. Before(t, "=") = <<key>>
  <2>1. \A i \in 1..1 : t[i] \in Letters
    BY <1>1
  <2>2. /\ SubSeq(t, 1, 1) \in Seq(Letters) /\ Len(SubSeq(t, 1, 1)) = 1
        /\ SubSeq(t, 1, 1)[1] = t[1]
    BY <2>1, SubSeqProperties
  <2>3. 2 - 1 = 1
    OBVIOUS
  <2>4. Before(t, "=") = SubSeq(t, 1, 1)
    BY <1>3, <2>3 DEF Before
  <2>5. PICK w : w = SubSeq(t, 1, 1)
    OBVIOUS
  <2>6. w \in Seq(Letters) /\ Len(w) = 1 /\ w[1] = key
    BY <2>2, <2>5
  <2>7. w = <<key>>
    BY <2>6
  <2> QED BY <2>4, <2>5, <2>7
<1>5. After(t, "=") = v
  <2>1. PICK w : w = SubSeq(t, 3, Len(t))
    OBVIOUS
  <2>2. 3 \in Int /\ Len(t) \in Int /\ \A i \in 3..Len(t) : t[i] \in Letters
    BY <1>1
  <2>3. /\ w \in Seq(Letters) /\ Len(w) = (IF 3 <= Len(t) THEN Len(t) - 3 + 1 ELSE 0)
        /\ \A i \in 1..(Len(t) - 3 + 1) : w[i] = t[3 + i - 1]
    BY <2>1, <2>2, SubSeqProperties
  <2>4. Len(w) = Len(v)
    BY <1>1, <2>3
  <2>5. ASSUME NEW i \in 1..Len(w) PROVE w[i] = v[i]
    <3>1. i \in 1..(Len(t) - 3 + 1) /\ 3 + i - 1 = i + 2 /\ i \in 1..Len(v)
      BY <1>1, <2>4
    <3> QED BY <2>3, <3>1
  <2>6. w = v
    BY <2>3, <2>4, <2>5, SeqEqual
  <2>7. 2 + 1 = 3
    OBVIOUS
  <2> QED BY <1>3, <2>1, <2>6, <2>7 DEF After
<1>6. Pair(t) = <<<<key>>, v>>
  <2>1. ~(Find(t, "=") > Len(t))
    BY <1>1, <1>3
  <2> QED BY <1>4, <1>5, <2>1 DEF Pair
<1>7. ASSUME \A j \in 1..Len(v) : v[j] # " "
      PROVE  Before(t, " ") = t
  <2>1. \A i \in 1..Len(t) : t[i] # " "
    <3>1. ASSUME NEW i \in 1..Len(t), i > 2 PROVE t[i] # " "
      <4>1. i - 2 \in 1..Len(v) /\ (i - 2) + 2 = i
        BY <1>1, <3>1
      <4> QED BY <1>7, <4>1
    <3>2. \A i \in 1..Len(t) : i = 1 \/ i = 2 \/ i > 2
      BY <1>1
    <3> QED BY <1>2, <3>1, <3>2
  <2>2. PICK k : k = Find(t, " ") /\ k \in 1..(Len(t) + 1) /\ (k <= Len(t) => t[k] = " ")
    BY Found
  <2>3. Find(t, " ") - 1 = Len(t)
    <3>1. PICK l : l = Len(t) /\ l \in Nat
      BY <1>1
    <3>3. k \in 1..(l + 1)
      BY <2>2, <3>1
    <3>2. ASSUME k <= l PROVE FALSE
      <4>1. k \in 1..l
        BY <3>1, <3>2, <3>3
      <4>2. k \in 1..Len(t) /\ t[k] = " "
        BY <2>2, <3>1, <3>2, <4>1
      <4> QED BY <2>1, <4>2
    <3>4. k - 1 = l
      BY <3>1, <3>2, <3>3
    <3> QED BY <2>2, <3>1, <3>4
  <2>4. SubSeq(t, 1, Len(t)) = t
    BY SubSeqFull
  <2>5. Before(t, " ") = SubSeq(t, 1, Len(t))
    BY <2>3 DEF Before
  <2> QED BY <2>4, <2>5
<1> QED BY <1>6, <1>7

(* The text behind the question mark: where its pairs begin, and what each is.   *)
Fits ==
    /\ Len(url) <= MaxUri /\ Len(sent) <= MaxParams
    /\ \A i \in DOMAIN sent : ~Has(i, "&")
    /\ sent # <<>> => ~Has(Len(sent), " ")

LEMMA Query ==
  ASSUME UriTypes, UriInv, Fits, sent # <<>>, NEW f, Laid(f), NEW d, d = Decode(url),
         NEW q, q = SubSeq(d, 3, Len(d))
  PROVE  /\ q \in Seq(Letters) /\ Len(q) = Len(url) - 2 /\ q # <<>>
         /\ \A x \in 1..(Len(url) - 2) : q[x] = d[x + 2]
         /\ Base = <<"/uri">> /\ After(d, "?") = q
<1>1. d \in Seq(Letters) /\ Len(d) = Len(url) /\ Len(url) \in Nat
  <2>1. Len(url) <= MaxUri
    BY DEF Fits
  <2>2. Len(url) \in Nat
    BY DEF UriTypes
  <2> QED BY <2>1, <2>2, DecodedText
<1>2. d[1] = "/uri" /\ d[2] = "?" /\ Len(url) >= 4
  <2>1. 1 \in 1..Len(sent)
    BY DEF UriTypes
  <2>2. f[1] = 3
    BY DEF Laid
  <2>3. Text(d, f)
    BY TextLaid DEF Fits
  <2>4. 3 + 1 \in 1..Len(url) /\ d[1] = "/uri" /\ d[2] = "?"
    BY <2>1, <2>2, <2>3 DEF Text
  <2> QED BY <1>1, <2>4
<1>3. Find(d, "?") = 2
  <2>1. 2 \in 1..(Len(d) + 1) /\ (2 <= Len(d) => d[2] = "?")
    BY <1>1, <1>2
  <2>2. ASSUME NEW i \in 1..Len(d), i < 2 PROVE d[i] # "?"
    <3>1. i = 1
      BY <1>1, <2>2
    <3> QED BY <1>2, <3>1
  <2> QED BY <1>1, <2>1, <2>2, FoundAt
<1>4. Base = <<"/uri">>
  <2>1. Find(d, "?") - 1 = 1
    BY <1>3
  <2>2. Base = SubSeq(d, 1, 1)
    BY <2>1 DEF Base, Before
  <2>3. \A i \in 1..1 : d[i] \in Letters
    BY <1>1, <1>2
  <2>4. PICK w : w = SubSeq(d, 1, 1)
    OBVIOUS
  <2>5. w \in Seq(Letters) /\ Len(w) = 1 /\ w[1] = d[1]
    BY <2>3, <2>4, SubSeqProperties
  <2>6. w = <<"/uri">>
    BY <1>2, <2>5
  <2> QED BY <2>2, <2>4, <2>6
<1>5. After(d, "?") = q
  <2>1. Find(d, "?") + 1 = 3
    BY <1>3
  <2> QED BY <2>1 DEF After
<1>6. /\ q \in Seq(Letters) /\ Len(q) = Len(url) - 2 /\ Len(q) # 0
      /\ \A x \in 1..(Len(url) - 2) : q[x] = d[x + 2]
  <2>1. 3 \in Int /\ Len(d) \in Int /\ \A i \in 3..Len(d) : d[i] \in Letters
    BY <1>1
  <2>2. /\ q \in Seq(Letters) /\ Len(q) = (IF 3 <= Len(d) THEN Len(d) - 3 + 1 ELSE 0)
        /\ \A i \in 1..(Len(d) - 3 + 1) : q[i] = d[3 + i - 1]
    BY <2>1, SubSeqProperties
  <2>3. Len(q) = Len(url) - 2
    BY <1>1, <1>2, <2>2
  <2>5. Len(q) # 0
    BY <1>1, <1>2, <2>3
  <2>4. ASSUME NEW x \in 1..(Len(url) - 2) PROVE q[x] = d[x + 2]
    <3>1. x \in 1..(Len(d) - 3 + 1) /\ 3 + x - 1 = x + 2
      BY <1>1
    <3> QED BY <2>2, <3>1
  <2> QED BY <2>2, <2>3, <2>4, <2>5
<1>7. q # <<>>
  BY <1>6
<1> QED BY <1>4, <1>5, <1>6, <1>7

LEMMA Inner ==
  ASSUME UriTypes, UriInv, Fits, sent # <<>>, NEW f, Laid(f), NEW d, d = Decode(url),
         NEW i \in 1..Len(sent), NEW y \in Int, Inside(f, i, y)
  PROVE  d[y] # "&"
<1>1. /\ Len(sent[i][2]) \in Nat /\ f[i] \in Nat /\ sent[i][1] \in Keys
      /\ End(f, i) = f[i] + 1 + Len(sent[i][2])
  BY Lengths DEF Laid
<1>2. /\ d[f[i]] = sent[i][1] /\ d[f[i] + 1] = "="
      /\ \A j \in 1..Len(sent[i][2]) : d[f[i] + 1 + j] = Meant[i][2][j]
  <2>1. Text(d, f)
    BY TextLaid DEF Fits
  <2> QED BY <2>1 DEF Text
<1>3. \A j \in 1..Len(sent[i][2]) : Meant[i][2][j] # "&"
  <2>1. ~Has(i, "&")
    BY MeantValue DEF Fits
  <2> QED BY <2>1, MeantValue
<1>4. PICK a, c : a = f[i] /\ c = Len(sent[i][2]) /\ a \in Nat /\ c \in Nat
  BY <1>1
<1>5. a <= y /\ y <= a + 1 + c
  BY <1>1, <1>4 DEF Inside
<1>6. y = a \/ y = a + 1 \/ \E j \in 1..c : y = a + 1 + j
  <2>1. CASE y > a + 1
    <3>0. a \in Int /\ c \in Int /\ y \in Int
      BY <1>4
    <3>1. y - (a + 1) \in 1..c /\ y = a + 1 + (y - (a + 1))
      BY <1>5, <2>1, <3>0
    <3> QED BY <3>1
  <2>2. a \in Nat
    BY <1>4
  <2> QED BY <1>5, <2>1, <2>2
<1> QED BY <1>1, <1>2, <1>3, <1>4, <1>6, UriCharsAssumption

LEMMA Cuts ==
  ASSUME UriTypes, UriInv, Fits, sent # <<>>, NEW f, Laid(f), NEW d, d = Decode(url),
         NEW q, q = SubSeq(d, 3, Len(d))
  PROVE  /\ Cardinality(Starts(q)) = Len(sent)
         /\ \A i \in 1..Len(sent) : NthStart(q, i) = f[i] - 2
<1>0. PICK n, l : n = Len(sent) /\ l = Len(url) /\ n \in Nat /\ l \in Nat /\ n >= 1
  <2>1. Len(sent) \in Nat /\ Len(url) \in Nat /\ Len(sent) >= 1
    BY DEF UriTypes
  <2> QED BY <2>1
<1>1. /\ q \in Seq(Letters) /\ Len(q) = l - 2
      /\ \A x \in 1..(l - 2) : q[x] = d[x + 2]
  BY <1>0, Query
<1>2. /\ f \in [1..n -> Nat] /\ f[1] = 3
      /\ \A i \in 1..n : f[i] >= 3 /\ (i > 1 => f[i] = End(f, i - 1) + 2)
      /\ \A i, j \in 1..n : i < j => End(f, i) + 2 <= f[j]
      /\ \A x \in 3..l : \E i \in 1..n : Inside(f, i, x) \/ (i > 1 /\ x = f[i] - 1)
  BY <1>0 DEF Laid
<1>t. Text(d, f)
  BY TextLaid DEF Fits
<1>3. \A i \in 1..n : i > 1 => d[f[i] - 1] = "&"
  BY <1>0, <1>t DEF Text
<1>4. \A i \in 1..n : f[i] \in 1..l /\ f[i] \in Nat
  BY <1>0, <1>2, <1>t DEF Text
<1>5. \A i \in 1..n : i > 1 => f[i] > 3
  <2>1. ASSUME NEW i \in 1..n, i > 1 PROVE f[i] > 3
    <3>1. 1 \in 1..n /\ End(f, 1) + 2 <= f[i]
      BY <1>0, <1>2, <2>1
    <3>2. End(f, 1) = f[1] + 1 + Len(sent[1][2]) /\ Len(sent[1][2]) \in Nat
      BY <1>0, <1>2, <3>1, Lengths
    <3>3. PICK c : c = Len(sent[1][2]) /\ c \in Nat
      BY <3>2
    <3>4. 3 + 1 + c + 2 <= f[i] /\ f[i] \in Nat
      BY <1>2, <1>4, <3>1, <3>2, <3>3
    <3> QED BY <3>3, <3>4
  <2> QED BY <2>1
<1>6. PICK g : g = [i \in 1..n |-> f[i] - 2]
  OBVIOUS
<1>7. g \in [1..n -> Nat] /\ \A i \in 1..n : g[i] = f[i] - 2
  <2>1. \A i \in 1..n : f[i] >= 3 /\ f[i] \in Nat
    BY <1>2, <1>4
  <2>2. \A i \in 1..n : f[i] - 2 \in Nat
    BY <2>1
  <2> QED BY <1>6, <2>2
<1>8. Increasing(g, n)
  <2>1. ASSUME NEW i \in 1..n, NEW j \in 1..n, i < j PROVE g[i] < g[j]
    <3>1. End(f, i) + 2 <= f[j] /\ f[i] \in Nat /\ f[j] \in Nat
      BY <1>2, <1>4, <2>1
    <3>2. End(f, i) = f[i] + 1 + Len(sent[i][2]) /\ Len(sent[i][2]) \in Nat
      BY <1>0, <1>2, Lengths
    <3>3. PICK a, b, c : a = f[i] /\ b = f[j] /\ c = Len(sent[i][2])
                         /\ a \in Nat /\ b \in Nat /\ c \in Nat
      BY <3>1, <3>2
    <3>4. a + 1 + c + 2 <= b
      BY <3>1, <3>2, <3>3
    <3>a. a \in Nat /\ b \in Nat /\ c \in Nat
      BY <3>3
    <3>5. a - 2 < b - 2
      BY <3>a, <3>4
    <3> QED BY <1>7, <3>3, <3>5
  <2> QED BY <2>1 DEF Increasing
<1>9. ASSUME NEW y PROVE y \in Starts(q) <=> \E i \in 1..n : y = g[i]
  <2>1. y \in Starts(q) <=> y = 1 \/ \E x \in 1..(l - 2) : q[x] = "&" /\ y = x + 1
    <3>1. DOMAIN q = 1..(l - 2)
      BY <1>1
    <3> QED BY <3>1 DEF Starts
  <2>2. (\E i \in 1..n : y = g[i]) <=> \E i \in 1..n : y = f[i] - 2
    BY <1>7
  <2>3. ASSUME NEW x \in 1..(l - 2), q[x] = "&"
        PROVE  \E i \in 1..n : x + 1 = f[i] - 2
    <3>1. x + 2 \in 3..l /\ x + 2 \in Int /\ d[x + 2] = "&"
      BY <1>0, <1>1, <2>3
    <3>2. PICK i \in 1..n : Inside(f, i, x + 2) \/ (i > 1 /\ x + 2 = f[i] - 1)
      BY <1>2, <3>1
    <3>3. x + 2 = f[i] - 1
      <4>1. ASSUME Inside(f, i, x + 2) PROVE FALSE
        BY <1>0, <3>1, <4>1, Inner
      <4> QED BY <3>2, <4>1
    <3>4. f[i] \in Nat /\ x \in Int
      BY <1>4
    <3>5. x + 1 = f[i] - 2
      BY <3>3, <3>4
    <3> QED BY <3>5
  <2>4. ASSUME NEW i \in 1..n, i > 1
        PROVE  \E x \in 1..(l - 2) : q[x] = "&" /\ f[i] - 2 = x + 1
    <3>1. PICK a : a = f[i] /\ a \in Nat /\ a > 3 /\ a <= l
      BY <1>4, <1>5, <2>4
    <3>2. a - 3 \in 1..(l - 2) /\ (a - 3) + 2 = a - 1 /\ (a - 3) + 1 = a - 2
      BY <1>0, <3>1
    <3>3. q[a - 3] = "&"
      BY <1>1, <1>3, <2>4, <3>1, <3>2
    <3> QED BY <3>1, <3>2, <3>3
  <2>5. 1 \in 1..n /\ 1 = f[1] - 2
    BY <1>0, <1>2
  <2>6. \A i \in 1..n : i = 1 \/ i > 1
    BY <1>0
  <2> QED BY <2>1, <2>2, <2>3, <2>4, <2>5, <2>6
<1>11. /\ Cardinality(Starts(q)) = n
       /\ \A i \in 1..n : NthStart(q, i) = g[i]
  <2>1. n \in Nat /\ g \in [1..n -> Nat]
    BY <1>0, <1>7
  <2> QED BY <1>8, <1>9, <2>1, Ordered
<1> QED BY <1>0, <1>7, <1>11

LEMMA PieceIs ==
  ASSUME UriTypes, UriInv, Fits, sent # <<>>, NEW f, Laid(f), NEW d, d = Decode(url),
         NEW q, q = SubSeq(d, 3, Len(d)), NEW i \in 1..Len(sent)
  PROVE  /\ Pair(Piece(q, i)) = Meant[i]
         /\ i = Len(sent) => Before(Piece(q, i), " ") = Piece(q, i)
<1>0. PICK n, l : n = Len(sent) /\ l = Len(url) /\ n \in Nat /\ l \in Nat /\ n >= 1
  <2>1. Len(sent) \in Nat /\ Len(url) \in Nat /\ Len(sent) >= 1
    BY DEF UriTypes
  <2> QED BY <2>1
<1>1. /\ q \in Seq(Letters) /\ Len(q) = l - 2
      /\ \A x \in 1..(l - 2) : q[x] = d[x + 2]
  BY <1>0, Query
<1>2. /\ f \in [1..n -> Nat] /\ f[i] >= 3 /\ End(f, i) <= l
      /\ i < n => f[i + 1] = End(f, i) + 2
      /\ i = n => End(f, i) = l
  <2>1. /\ f \in [1..n -> Nat] /\ f[i] >= 3 /\ End(f, i) <= l
        /\ i = n => End(f, i) = l
    BY <1>0 DEF Laid
  <2>2. ASSUME i < n PROVE f[i + 1] = End(f, i) + 2
    <3>1. i + 1 \in 1..n /\ i + 1 > 1 /\ (i + 1) - 1 = i
      BY <1>0, <2>2
    <3>2. f[i + 1] = End(f, (i + 1) - 1) + 2
      BY <1>0, <3>1 DEF Laid
    <3> QED BY <3>1, <3>2
  <2> QED BY <2>1, <2>2
<1>3. Text(d, f)
  BY TextLaid DEF Fits
<1>4. PICK a, c : a = f[i] /\ c = Len(sent[i][2])
  OBVIOUS
<1>5. a \in Nat /\ c \in Nat /\ End(f, i) = a + 1 + c /\ sent[i][1] \in Keys
  BY <1>0, <1>2, <1>4, Lengths
<1>6. a >= 3 /\ a + 1 + c <= l /\ l \in Nat /\ n \in Nat
  BY <1>0, <1>2, <1>4, <1>5
<1>7. PICK v : v = Meant[i][2]
  OBVIOUS
<1>8. v \in Seq(Letters) /\ Len(v) = c /\ Meant[i] = <<<<sent[i][1]>>, v>>
  BY <1>4, <1>7, MeantValue
<1>9. /\ d[a] = sent[i][1] /\ d[a + 1] = "="
      /\ \A j \in 1..c : d[a + 1 + j] = v[j]
  BY <1>3, <1>4, <1>7 DEF Text
<1>10. NthStart(q, i) = a - 2
  BY <1>4, Cuts
<1>11. PICK r : r = SubSeq(q, a - 2, l - 2)
  OBVIOUS
<1>12. Piece(q, i) = Before(r, "&")
  BY <1>1, <1>10, <1>11 DEF Piece
<1>13. /\ r \in Seq(Letters) /\ Len(r) = l - a + 1
       /\ \A x \in 1..(l - a + 1) : r[x] = d[a + x - 1]
  <2>1. a - 2 \in Int /\ l - 2 \in Int /\ a - 2 >= 1
    BY <1>5, <1>6
  <2>2. \A x \in (a - 2)..(l - 2) : q[x] \in Letters
    <3>1. \A x \in (a - 2)..(l - 2) : x \in 1..(l - 2)
      BY <2>1
    <3> QED BY <1>1, <3>1
  <2>3. /\ r \in Seq(Letters)
        /\ Len(r) = (IF a - 2 <= l - 2 THEN (l - 2) - (a - 2) + 1 ELSE 0)
        /\ \A x \in 1..((l - 2) - (a - 2) + 1) : r[x] = q[(a - 2) + x - 1]
    <3>1. PICK from, to : from = a - 2 /\ to = l - 2 /\ from \in Int /\ to \in Int
      BY <2>1
    <3>2. \A x \in from..to : q[x] \in Letters
      BY <2>2, <3>1
    <3>a. from \in Int /\ to \in Int
      BY <3>1
    <3>3. SubSeq(q, from, to) \in Seq(Letters)
      BY <3>2, <3>a, SubSeqProperties
    <3>4. Len(SubSeq(q, from, to)) = IF from <= to THEN to - from + 1 ELSE 0
      BY <3>2, <3>a, SubSeqProperties
    <3>5. ASSUME NEW x \in 1..(to - from + 1) PROVE SubSeq(q, from, to)[x] = q[from + x - 1]
      <4>1. q \in Seq(Letters) /\ 1 <= from /\ to <= Len(q)
        BY <1>1, <2>1, <3>1
      <4> QED BY <3>2, <3>a, <4>1, SubSeqProperties
    <3> QED BY <1>11, <3>1, <3>3, <3>4, <3>5
  <2>4. (l - 2) - (a - 2) + 1 = l - a + 1 /\ a - 2 <= l - 2
    BY <1>5, <1>6
  <2>5. ASSUME NEW x \in 1..(l - a + 1) PROVE r[x] = d[a + x - 1]
    <3>1. x \in Int /\ (a - 2) + x - 1 \in 1..(l - 2) /\ ((a - 2) + x - 1) + 2 = a + x - 1
      BY <1>5, <1>6
    <3>2. r[x] = q[(a - 2) + x - 1]
      BY <2>3, <2>4
    <3> QED BY <1>1, <3>1, <3>2
  <2> QED BY <2>3, <2>4, <2>5
<1>14. Find(r, "&") = c + 3
  <2>1. c + 3 \in 1..(Len(r) + 1)
    BY <1>5, <1>6, <1>13
  <2>2. ASSUME NEW x \in 1..Len(r), x < c + 3 PROVE r[x] # "&"
    <3>1. x \in Int /\ a + x - 1 \in Int /\ a <= a + x - 1 /\ a + x - 1 <= a + 1 + c
      BY <1>5, <1>6, <1>13, <2>2
    <3>2. Inside(f, i, a + x - 1)
      BY <1>4, <1>5, <3>1 DEF Inside
    <3>3. d[a + x - 1] # "&"
      BY <3>1, <3>2, Inner
    <3> QED BY <1>13, <3>3
  <2>3. ASSUME c + 3 <= Len(r) PROVE r[c + 3] = "&"
    <3>1. c + 3 \in 1..(l - a + 1) /\ a + (c + 3) - 1 = a + c + 2
      BY <1>5, <1>6, <1>13, <2>3
    <3>2. i # n
      BY <1>2, <1>5, <1>6, <1>13, <2>3
    <3>3. i + 1 \in 1..n /\ i + 1 > 1 /\ i < n
      BY <1>0, <3>2
    <3>4. f[i + 1] = a + 1 + c + 2 /\ (a + 1 + c + 2) - 1 = a + c + 2
      BY <1>2, <1>5, <3>3
    <3>5. d[f[i + 1] - 1] = "&"
      BY <1>0, <1>3, <3>3 DEF Text
    <3> QED BY <1>13, <3>1, <3>4, <3>5
  <2> QED BY <1>13, <2>1, <2>2, <2>3, FoundAt
<1>15. PICK t : t = SubSeq(r, 1, c + 2)
  OBVIOUS
<1>16. Piece(q, i) = t
  <2>1. (c + 3) - 1 = c + 2
    BY <1>5
  <2> QED BY <1>12, <1>14, <1>15, <2>1 DEF Before
<1>17. /\ t \in Seq(Letters) /\ Len(t) = c + 2
       /\ \A x \in 1..(c + 2) : t[x] = d[a + x - 1]
  <2>1. \A x \in 1..(c + 2) : x \in 1..(l - a + 1)
    BY <1>5, <1>6
  <2>2. c + 2 \in Int /\ 1 <= c + 2 /\ (c + 2) - 1 + 1 = c + 2
    BY <1>5
  <2>3. \A x \in 1..(c + 2) : r[x] \in Letters
    BY <1>13, <2>1
  <2>4. /\ t \in Seq(Letters) /\ Len(t) = (IF 1 <= c + 2 THEN (c + 2) - 1 + 1 ELSE 0)
        /\ \A x \in 1..((c + 2) - 1 + 1) : t[x] = r[1 + x - 1]
    BY <1>15, <2>2, <2>3, SubSeqProperties
  <2>5. ASSUME NEW x \in 1..(c + 2) PROVE t[x] = d[a + x - 1]
    <3>1. 1 + x - 1 = x
      OBVIOUS
    <3> QED BY <1>13, <2>1, <2>2, <2>4, <3>1
  <2> QED BY <2>2, <2>4, <2>5
<1>18. t[1] = sent[i][1] /\ t[2] = "=" /\ \A j \in 1..c : t[j + 2] = v[j]
  <2>1. 1 \in 1..(c + 2) /\ 2 \in 1..(c + 2) /\ a + 1 - 1 = a /\ a + 2 - 1 = a + 1
    BY <1>5
  <2>2. ASSUME NEW j \in 1..c PROVE t[j + 2] = v[j]
    <3>1. j + 2 \in 1..(c + 2) /\ a + (j + 2) - 1 = a + 1 + j
      BY <1>5
    <3> QED BY <1>9, <1>17, <3>1
  <2> QED BY <1>9, <1>17, <2>1, <2>2
<1>19. /\ Pair(t) = <<<<sent[i][1]>>, v>>
       /\ (\A j \in 1..Len(v) : v[j] # " ") => Before(t, " ") = t
  BY <1>5, <1>8, <1>17, <1>18, Paired
<1>20. ASSUME i = n PROVE \A j \in 1..Len(v) : v[j] # " "
  <2>1. ~Has(i, " ")
    BY <1>0, <1>20 DEF Fits
  <2> QED BY <1>4, <1>7, <1>8, <2>1, MeantValue
<1> QED BY <1>0, <1>8, <1>16, <1>19, <1>20

LEMMA ParamsMeant ==
  ASSUME UriTypes, UriInv, Fits
  PROVE  Base = <<"/uri">> /\ Params = Meant
<1>1. CASE sent = <<>>
  <2>1. PICK d : d = Decode(url)
    OBVIOUS
  <2>2. d \in Seq(Letters) /\ Len(d) = 1 /\ d[1] = "/uri"
    <3>1. Len(url) = 1 /\ url[1] = Plain("/uri") /\ Len(url) <= MaxUri /\ 1 \in 1..1
      BY <1>1 DEF UriInv, Fits
    <3>2. d \in Seq(Letters) /\ Len(d) = 1 /\ d[1] = Decoded(url[1])
      BY <2>1, <3>1, DecodedText
    <3> QED BY <3>1, <3>2, PlainDecoded
  <2>3. d = <<"/uri">>
    BY <2>2
  <2>4. Find(d, "?") = 2
    <3>1. PICK k : k = Find(d, "?") /\ k \in 1..(Len(d) + 1) /\ (k <= Len(d) => d[k] = "?")
      BY <2>2, Found
    <3>2. k = 1 \/ k = 2
      BY <2>2, <3>1
    <3>3. k # 1
      BY <2>2, <3>1
    <3> QED BY <3>1, <3>2, <3>3
  <2>5. Before(d, "?") = d
    <3>1. Find(d, "?") - 1 = 1
      BY <2>4
    <3>2. SubSeq(d, 1, Len(d)) = d
      BY <2>2, SubSeqFull
    <3> QED BY <2>2, <3>1, <3>2 DEF Before
  <2>6. After(d, "?") = <<>>
    <3>1. Find(d, "?") + 1 = 3 /\ Len(d) \in Int /\ Len(d) < 3
      BY <2>2, <2>4
    <3>2. SubSeq(d, 3, Len(d)) = <<>>
      BY <3>1, SubSeqEmpty
    <3> QED BY <3>1, <3>2 DEF After
  <2>7. Params = <<>>
    BY <2>1, <2>6 DEF Params, Extract
  <2>8. Meant = <<>>
    BY <1>1 DEF Meant
  <2> QED BY <2>1, <2>3, <2>5, <2>7, <2>8 DEF Base
<1>2. CASE sent # <<>>
  <2>1. PICK f : Laid(f)
    BY <1>2 DEF UriInv
  <2>2. PICK d, q : d = Decode(url) /\ q = SubSeq(d, 3, Len(d))
    OBVIOUS
  <2>3. q # <<>> /\ Base = <<"/uri">> /\ After(d, "?") = q
    BY <1>2, <2>1, <2>2, Query
  <2>4. PICK n : n = Len(sent) /\ n \in Nat /\ DOMAIN sent = 1..n
    BY DEF UriTypes
  <2>5. Cardinality(Starts(q)) = n
    BY <1>2, <2>1, <2>2, <2>4, Cuts
  <2>6. (IF n < MaxParams THEN n ELSE MaxParams) = n
    <3>1. n <= MaxParams
      BY <2>4 DEF Fits
    <3> QED BY <2>4, <3>1, UriSizesAssumption
  <2>7. \A i \in 1..n : Pair(Piece(q, i)) = Meant[i]
                        /\ (i = n => Before(Piece(q, i), " ") = Piece(q, i))
    BY <1>2, <2>1, <2>2, <2>4, PieceIs
  <2>8. Extract(q) = [i \in 1..n |-> Pair(IF i = n THEN Before(Piece(q, i), " ") ELSE Piece(q, i))]
    BY <2>3, <2>5, <2>6 DEF Extract
  <2>9. \A i \in 1..n :
           Pair(IF i = n THEN Before(Piece(q, i), " ") ELSE Piece(q, i)) = Meant[i]
    BY <2>7
  <2>10. Meant = [i \in 1..n |-> Meant[i]]
    BY <2>4 DEF Meant
  <2> QED BY <2>2, <2>3, <2>8, <2>9, <2>10 DEF Params
<1> QED BY <1>1, <1>2

(* The table: the registration in front is the last one.                       *)
TableInv ==
    /\ table \in Seq(Handlers \X Nat)
    /\ \A j \in 1..Len(table) : table[j][2] = Len(table) + 1 - j

LEMMA Registered == ASSUME TableInv, NEW u \in Handlers, Register(u) PROVE TableInv'
<1>1. PICK m : m = Len(table) /\ m \in Nat
  <2>1. Len(table) \in Nat
    BY DEF TableInv
  <2> QED BY <2>1
<1>2. PICK e : e = <<u, m + 1>>
  OBVIOUS
<1>3. e \in Handlers \X Nat /\ e[2] = m + 1
  BY <1>1, <1>2
<1>4. PICK s : s = <<e>>
  OBVIOUS
<1>5. s \in Seq(Handlers \X Nat) /\ Len(s) = 1 /\ s[1] = e
  BY <1>3, <1>4
<1>6. table' = s \o table /\ table \in Seq(Handlers \X Nat)
  BY <1>1, <1>2, <1>4 DEF Register, TableInv
<1>7. /\ table' \in Seq(Handlers \X Nat) /\ Len(table') = 1 + m
      /\ \A j \in 1..(1 + m) : table'[j] = IF j <= 1 THEN s[j] ELSE table[j - 1]
  <2>1. /\ s \o table \in Seq(Handlers \X Nat) /\ Len(s \o table) = Len(s) + Len(table)
        /\ \A j \in 1..(Len(s) + Len(table)) :
              (s \o table)[j] = IF j <= Len(s) THEN s[j] ELSE table[j - Len(s)]
    BY <1>5, <1>6, ConcatProperties, Zenon
  <2> QED BY <1>1, <1>5, <1>6, <2>1
<1>8. ASSUME NEW j \in 1..(1 + m) PROVE table'[j][2] = (1 + m) + 1 - j
  <2>1. CASE j = 1
    BY <1>1, <1>3, <1>5, <1>7, <2>1
  <2>2. CASE j # 1
    <3>1. j - 1 \in 1..m /\ ~(j <= 1) /\ m + 1 - (j - 1) = (1 + m) + 1 - j
      BY <1>1, <2>2
    <3>2. table[j - 1][2] = m + 1 - (j - 1)
      BY <1>1, <3>1 DEF TableInv
    <3> QED BY <1>7, <3>1, <3>2
  <2> QED BY <2>1, <2>2
<1> QED BY <1>7, <1>8 DEF TableInv

LEMMA LastRegistered ==
  ASSUME TableInv
  PROVE  LET mine == {table[j][2] : j \in {j \in DOMAIN table : table[j][1] = "/uri"}}
         IN  mine # {} => Answers("/uri") \in mine /\ \A i \in mine : i <= Answers("/uri")
<1> DEFINE here == {j \in DOMAIN table : table[j][1] = "/uri"}
           mine == {table[j][2] : j \in here}
<1> SUFFICES ASSUME mine # {}
             PROVE  Answers("/uri") \in mine /\ \A i \in mine : i <= Answers("/uri")
  OBVIOUS
<1>1. PICK m : m = Len(table) /\ m \in Nat /\ DOMAIN table = 1..m
  BY DEF TableInv
<1>2. \A j \in 1..m : table[j][2] = m + 1 - j
  BY <1>1 DEF TableInv
<1>3. here \subseteq Nat /\ here \subseteq 1..m /\ here # {}
  BY <1>1
<1>4. PICK k : k = CHOOSE i \in here : \A j \in here : i <= j
  OBVIOUS
<1>5. k \in here /\ \A j \in here : k <= j
  BY <1>3, <1>4, LeastPlace
<1>6. Handler("/uri") = table[k][2]
  BY <1>3, <1>4 DEF Handler
<1>7. k \in 1..m /\ table[k][2] = m + 1 - k
  BY <1>2, <1>3, <1>5
<1>8. Answers("/uri") = table[k][2]
  <2>1. m + 1 - k # 0
    BY <1>1, <1>7
  <2> QED BY <1>6, <1>7, <2>1 DEF Answers
<1>9. ASSUME NEW i \in mine PROVE i <= table[k][2]
  <2>1. PICK j \in here : i = table[j][2]
    OBVIOUS
  <2>2. j \in 1..m /\ k <= j /\ i = m + 1 - j
    BY <1>2, <1>3, <1>5, <2>1
  <2> QED BY <1>1, <1>7, <2>2
<1> QED BY <1>5, <1>8, <1>9

(* A request reaches the handler that was registered last, with the parameters    *)
(* the page meant, for any characters, keys, handlers and sizes of the buffers     *)
(* (http_find_file, extract_uri_parameters, rest_register_handler).              *)
THEOREM ArrivesCorrect == UriSpec => []RequestArrives
<1>1. UriInit => UriTypes /\ UriInv /\ TableInv
  <2> SUFFICES ASSUME UriInit PROVE UriTypes /\ UriInv /\ TableInv
    OBVIOUS
  <2>1. Plain("/uri") \in Tokens
    BY DEF Plain, Tokens, Letters
  <2>2. url = <<Plain("/uri")>> /\ sent = <<>> /\ table = <<>>
    BY DEF UriInit
  <2>3. url \in Seq(Tokens) /\ Len(url) = 1 /\ url[1] = Plain("/uri")
    BY <2>1, <2>2
  <2>4. sent \in Seq(Fields) /\ table \in Seq(Handlers \X Nat) /\ Len(table) = 0
    BY <2>2
  <2> QED BY <2>2, <2>3, <2>4 DEF UriTypes, UriInv, TableInv
<1>2. UriTypes /\ UriInv /\ TableInv /\ [StartUp \/ ClientWrites]_uriVars
      => (UriTypes /\ UriInv /\ TableInv)'
  <2> SUFFICES ASSUME UriTypes, UriInv, TableInv, [StartUp \/ ClientWrites]_uriVars
               PROVE  (UriTypes /\ UriInv /\ TableInv)'
    OBVIOUS
  <2>1. ASSUME UNCHANGED <<sent, url>> PROVE UriTypes' /\ UriInv'
    <3>1. sent' = sent /\ url' = url
      BY <2>1
    <3>2. \A f, i : End(f, i)' = End(f, i)
      BY <3>1 DEF End
    <3>3. \A f, i, x : Inside(f, i, x)' <=> Inside(f, i, x)
      BY <3>2 DEF Inside
    <3>4. ASSUME NEW f, Laid(f) PROVE Laid(f)'
      BY <3>1, <3>2, <3>3, <3>4 DEF Laid
    <3>5. UriTypes'
      BY <3>1 DEF UriTypes
    <3>6. UriInv'
      BY <3>1, <3>4 DEF UriInv
    <3> QED BY <3>5, <3>6
  <2>2. ASSUME UNCHANGED table PROVE TableInv'
    BY <2>2 DEF TableInv
  <2>3. CASE StartUp
    BY <2>1, <2>3, Registered DEF StartUp, Register
  <2>4. ASSUME NEW k \in Keys, AddParameter(k) PROVE (UriTypes /\ UriInv /\ TableInv)'
    BY <2>2, <2>4, Started DEF AddParameter
  <2>5. ASSUME NEW ch \in Symbols, AddCharacter(ch) PROVE (UriTypes /\ UriInv /\ TableInv)'
    BY <2>2, <2>5, Continued DEF AddCharacter
  <2>6. CASE UNCHANGED uriVars
    BY <2>1, <2>2, <2>6 DEF uriVars
  <2> QED BY <2>3, <2>4, <2>5, <2>6 DEF ClientWrites
<1>3. UriTypes /\ UriInv /\ TableInv => RequestArrives
  <2> SUFFICES ASSUME UriTypes, UriInv, TableInv PROVE RequestArrives
    OBVIOUS
  <2>1. Fits => Base = <<"/uri">> /\ Params = Meant
    BY ParamsMeant
  <2> QED BY <2>1, LastRegistered DEF RequestArrives, Fits
<1> QED BY <1>1, <1>2, <1>3, PTL DEF UriSpec

-----------------------------------------------------------------------------
(* The DHCP server (DhcpLeases)                                             *)

LEMMA DivMod ==
    ASSUME NEW a \in Int, NEW b \in Nat \ {0} PROVE a % b \in 0..(b - 1) /\ a \div b \in Int
<1>1. a % b \in 0..(b - 1)
  OBVIOUS
<1>2. a \div b \in Int
  OBVIOUS
<1> QED BY <1>1, <1>2

LEMMA Divided ==
    ASSUME NEW a \in Int, NEW b \in Int, b > 0, NEW d \in Int, d = a \div b, NEW m \in Int, m = a % b
    PROVE  a = d * b + m
BY Z3T(30)

LEMMA Times == ASSUME NEW a \in Int, NEW b \in Nat \ {0}, a >= 1 PROVE a * b >= b
OBVIOUS

LEMMA ModUnique == ASSUME NEW b \in Nat \ {0}, NEW q \in Int, NEW r \in 0..(b - 1), NEW x \in Int, x = q * b + r
                   PROVE  x % b = r
<1>1. PICK p \in Int : p = x \div b
  OBVIOUS
<1>2. PICK s \in 0..(b - 1) : s = x % b
  OBVIOUS
<1>3. x = p * b + s
  <2>1. b \in Int /\ b > 0 /\ s \in Int
    OBVIOUS
  <2> QED BY <1>1, <1>2, <2>1, Divided
<1>4. (q - p) * b = s - r
  BY <1>3
<1>5. q - p <= 0
  <2>1. ASSUME q - p >= 1 PROVE FALSE
    <3>1. (q - p) * b >= b
      BY <2>1, Times
    <3> QED BY <1>4, <3>1
  <2> QED BY <2>1
<1>6. q - p >= 0
  <2>1. ASSUME p - q >= 1 PROVE FALSE
    <3>1. (p - q) * b >= b
      BY <2>1, Times
    <3>2. (p - q) * b = r - s
      BY <1>3
    <3> QED BY <3>1, <3>2
  <2> QED BY <2>1
<1>7. q = p
  BY <1>5, <1>6
<1> QED BY <1>2, <1>3, <1>7

LEMMA HalfOfEven == ASSUME NEW w \in Nat \ {0}, NEW n \in Int, 2 * n < w PROVE n <= w \div 2
<1>1. PICK h \in Int : h = w \div 2
  OBVIOUS
<1>2. w <= 2 * h + 1
  BY <1>1
<1> QED BY <1>1, <1>2

-----------------------------------------------------------------------------
(* A slot's lease runs up to the end it had when it was given, or a little longer.  *)
EndOf(i) == leases[i].expiry * Block + (Block - 1)
Runs(i, until) ==
    \E e, q \in Int : EndOf(i) = e + q * Wrap /\ until <= e /\ e <= clock + Lease + Block - 1

LeaseTypes ==
    /\ clock \in Nat
    /\ leases = [i \in Slot |-> [mac |-> leases[i].mac, expiry |-> leases[i].expiry]]
    /\ \A i \in Slot : leases[i].expiry \in Int
    /\ holds = [c \in Clients |-> [slot |-> holds[c].slot, until |-> holds[c].until]]
    /\ \A c \in Clients : holds[c].until \in Int

Served(c) ==
    holds[c].slot = {} \/ \E i \in Slot :
        /\ holds[c].slot = {i} /\ leases[i].mac = {c}
        /\ clock < holds[c].until /\ holds[c].until <= clock + Lease /\ Runs(i, holds[c].until)

LeaseInv == \A c \in Clients : Served(c)

-----------------------------------------------------------------------------
(* A lease that runs is not taken for expired, wherever the clock wraps.          *)
LEMMA RunsNotExpired ==
    ASSUME LeaseTypes, NEW i \in Slot, NEW until \in Int, clock < until, Runs(i, until)
    PROVE  ~Expired(i)
<1>1. PICK e \in Int, q \in Int : EndOf(i) = e + q * Wrap /\ until <= e /\ e <= clock + Lease + Block - 1
  BY DEF Runs
<1>2. Wrap \in Nat \ {0} /\ Block \in Nat \ {0} /\ Lease \in Nat \ {0} /\ 2 * (Lease + Block) < Wrap
      /\ clock \in Nat
  BY DhcpLeasesAssumption DEF LeaseTypes
<1>3. PICK p \in Int : clock = p * Wrap + Now
  <2>1. PICK p \in Int : p = clock \div Wrap
    BY <1>2
  <2>2. PICK m \in Int : m = clock % Wrap
    BY <1>2
  <2>3. clock \in Int /\ Wrap \in Int /\ Wrap > 0
    BY <1>2
  <2>4. clock = p * Wrap + m
    BY <2>1, <2>2, <2>3, Divided
  <2> QED BY <2>2, <2>4 DEF Now
<1>4. Now \in Int
  BY <1>2, DivMod DEF Now
<1>5. PICK x \in Int : x = EndOf(i) - Now
  BY <1>2, <1>4 DEF EndOf, LeaseTypes
<1>6. x = (q + p) * Wrap + (e - clock)
  <2>1. x = e + q * Wrap - clock + p * Wrap
    BY <1>1, <1>2, <1>3, <1>4, <1>5
  <2>2. (q + p) * Wrap = q * Wrap + p * Wrap
    BY <1>2
  <2> QED BY <1>2, <2>1, <2>2
<1>7. e - clock \in 0..(Wrap - 1) /\ 2 * (e - clock + 1) < Wrap
  BY <1>1, <1>2
<1>8. x % Wrap = e - clock
  BY <1>2, <1>6, <1>7, ModUnique
<1>9. e - clock + 1 <= Wrap \div 2
  BY <1>2, <1>7, HalfOfEven
<1>10. ~(x % Wrap >= Wrap \div 2)
  <2>1. Wrap \div 2 \in Int
    BY <1>2
  <2> QED BY <1>2, <1>8, <1>9, <2>1
<1>11. ASSUME Expired(i) PROVE x % Wrap >= Wrap \div 2
  <2>1. leases[i].expiry * Block + (Block - 1) - Now = x
    BY <1>2, <1>4, <1>5 DEF EndOf, LeaseTypes
  <2> QED BY <1>11, <2>1 DEF Expired
<1> QED BY <1>10, <1>11

(* A lease that is given runs for as long as the client believes.                 *)
LEMMA GivenRuns ==
    ASSUME LeaseTypes, NEW i \in Slot, UNCHANGED clock,
           leases'[i].expiry = ((Now + Lease) % Wrap) \div Block
    PROVE  Runs(i, clock + Lease)' /\ leases'[i].expiry \in Int
<1>1. Wrap \in Nat \ {0} /\ Block \in Nat \ {0} /\ Lease \in Nat \ {0} /\ clock \in Nat
  BY DhcpLeasesAssumption DEF LeaseTypes
<1>2. PICK p \in Int : clock = p * Wrap + Now
  <2>1. PICK p \in Int : p = clock \div Wrap
    BY <1>1
  <2>2. PICK m \in Int : m = clock % Wrap
    BY <1>1
  <2>3. clock \in Int /\ Wrap \in Int /\ Wrap > 0
    BY <1>1
  <2>4. clock = p * Wrap + m
    BY <2>1, <2>2, <2>3, Divided
  <2> QED BY <2>2, <2>4 DEF Now
<1>3. Now \in Int
  BY <1>1, DivMod DEF Now
<1>4. PICK a \in Int : a = (Now + Lease) % Wrap
  BY <1>1, <1>3
<1>5. PICK k \in Int : Now + Lease = k * Wrap + a
  <2>1. PICK n \in Int : n = Now + Lease
    BY <1>1, <1>3
  <2>2. PICK k \in Int : k = n \div Wrap
    BY <1>1, DivMod
  <2>3. a = n % Wrap /\ Wrap \in Int /\ Wrap > 0
    BY <1>1, <1>4, <2>1
  <2>4. n = k * Wrap + a
    BY <2>2, <2>3, Divided
  <2> QED BY <2>1, <2>4
<1>6. PICK d \in Int : d = a \div Block
  BY <1>1, DivMod
<1>7. PICK r \in 0..(Block - 1) : a = d * Block + r
  <2>1. PICK r \in Int : r = a % Block
    BY <1>1
  <2>2. r \in 0..(Block - 1)
    BY <1>1, <2>1, DivMod
  <2>3. Block \in Int /\ Block > 0
    BY <1>1
  <2>4. a = d * Block + r
    BY <1>6, <2>1, <2>3, Divided
  <2> QED BY <2>2, <2>4
<1>8. leases'[i].expiry = d
  BY <1>4, <1>6
<1>9. PICK e \in Int : e = clock + Lease + (Block - 1) - r
  BY <1>1
<1>10. clock + Lease <= e /\ e <= clock + Lease + Block - 1
  BY <1>1, <1>9
<1>11. EndOf(i)' = e + (0 - p - k) * Wrap
  <2>1. EndOf(i)' = a - r + (Block - 1)
    BY <1>1, <1>7, <1>8 DEF EndOf
  <2>2. a = clock - p * Wrap + Lease - k * Wrap
    BY <1>1, <1>2, <1>3, <1>5
  <2>3. (0 - p - k) * Wrap = 0 - p * Wrap - k * Wrap
    BY <1>1
  <2> QED BY <1>1, <1>9, <2>1, <2>2, <2>3
<1>12. 0 - p - k \in Int
  OBVIOUS
<1>13. \E b, q \in Int : EndOf(i)' = b + q * Wrap /\ clock + Lease <= b /\ b <= clock + Lease + Block - 1
  BY <1>10, <1>11, <1>12
<1> QED BY <1>8, <1>13 DEF Runs

LEMMA RunsOn ==
    ASSUME LeaseTypes, NEW i \in Slot, NEW until \in Int, Runs(i, until),
           leases'[i].expiry = leases[i].expiry, clock' \in Nat, clock <= clock'
    PROVE  Runs(i, until)'
<1>1. PICK e \in Int, q \in Int : EndOf(i) = e + q * Wrap /\ until <= e /\ e <= clock + Lease + Block - 1
  BY DEF Runs
<1>2. EndOf(i)' = EndOf(i)
  BY DEF EndOf
<1>3. e <= clock' + Lease + Block - 1
  BY <1>1, DhcpLeasesAssumption DEF LeaseTypes
<1> QED BY <1>1, <1>2, <1>3 DEF Runs

LEMMA LeaseTypesNext == LeaseTypes /\ [DhcpNext]_leaseVars => LeaseTypes'
<1> SUFFICES ASSUME LeaseTypes, [DhcpNext]_leaseVars PROVE LeaseTypes'
  OBVIOUS
<1>1. CASE Tick
  <2>1. clock' \in Nat /\ UNCHANGED leases
    BY <1>1 DEF Tick, LeaseTypes
  <2>2. \A c \in Clients : holds'[c] \in {Nothing, holds[c]}
    BY <1>1 DEF Tick
  <2>3. holds' = [c \in Clients |-> holds'[c]]
    BY <1>1 DEF Tick
  <2>4. \A c \in Clients : holds'[c] = [slot |-> holds'[c].slot, until |-> holds'[c].until]
                           /\ holds'[c].until \in Int
    <3> SUFFICES ASSUME NEW c \in Clients
                 PROVE  holds'[c] = [slot |-> holds'[c].slot, until |-> holds'[c].until]
                        /\ holds'[c].until \in Int
      OBVIOUS
    <3>1. CASE holds'[c] = Nothing
      BY <3>1 DEF Nothing
    <3>2. CASE holds'[c] = holds[c]
      BY <3>2 DEF LeaseTypes
    <3> QED BY <2>2, <3>1, <3>2
  <2> QED BY <2>1, <2>3, <2>4 DEF LeaseTypes
<1>2. ASSUME NEW c \in Clients, Discover(c) PROVE LeaseTypes'
  <2>1. PICK struck : leases' = [i \in Slot |-> IF i \in struck THEN [leases[i] EXCEPT !.mac = {}]
                                                ELSE leases[i]]
    <3> DEFINE own == FirstOf(OfClient(c))
               met == {i \in Slot : /\ \A j \in FirstOf(FreeSlots) : i <= j
                                    /\ \A j \in own : i < j}
    <3>1. leases' = [i \in Slot |-> IF i \in met /\ Expired(i) THEN [leases[i] EXCEPT !.mac = {}]
                                    ELSE leases[i]]
      BY <1>2 DEF Discover
    <3>2. leases' = [i \in Slot |-> IF i \in {k \in met : Expired(k)} THEN [leases[i] EXCEPT !.mac = {}]
                                    ELSE leases[i]]
      BY <3>1
    <3> QED BY <3>2
  <2>2. \A i \in Slot : leases'[i] = [mac |-> leases'[i].mac, expiry |-> leases'[i].expiry]
                        /\ leases'[i].expiry \in Int
    <3> SUFFICES ASSUME NEW i \in Slot
                 PROVE  leases'[i] = [mac |-> leases'[i].mac, expiry |-> leases'[i].expiry]
                        /\ leases'[i].expiry \in Int
      OBVIOUS
    <3>1. PICK l : l = leases[i]
      OBVIOUS
    <3>2. l = [mac |-> l.mac, expiry |-> l.expiry] /\ l.expiry \in Int
      BY <3>1 DEF LeaseTypes
    <3>3. leases'[i] \in {l, [l EXCEPT !.mac = {}]}
      BY <2>1, <3>1
    <3> QED BY <3>2, <3>3
  <2> QED BY <1>2, <2>1, <2>2 DEF Discover, LeaseTypes
<1>3. ASSUME NEW c \in Clients, NEW i \in Slot, NEW arrives \in BOOLEAN, DhcpRequest(c, i, arrives)
      PROVE  LeaseTypes'
  <2>1. UNCHANGED clock
    BY <1>3 DEF DhcpRequest
  <2>2. PICK d : d = ((Now + Lease) % Wrap) \div Block
    OBVIOUS
  <2>3. leases' = [leases EXCEPT ![i] = [mac |-> {c}, expiry |-> d]]
    BY <1>3, <2>2 DEF DhcpRequest
  <2>4. leases'[i].expiry = d
    BY <2>3 DEF LeaseTypes
  <2>5. d \in Int
    BY <2>1, <2>2, <2>4, GivenRuns
  <2>6. leases' = [k \in Slot |-> [mac |-> leases'[k].mac, expiry |-> leases'[k].expiry]]
        /\ \A k \in Slot : leases'[k].expiry \in Int
    <3>1. \A k \in Slot : leases'[k] = IF k = i THEN [mac |-> {c}, expiry |-> d] ELSE leases[k]
      BY <2>3 DEF LeaseTypes
    <3>2. \A k \in Slot : leases'[k] = [mac |-> leases'[k].mac, expiry |-> leases'[k].expiry]
      BY <3>1 DEF LeaseTypes
    <3>3. ASSUME NEW k \in Slot PROVE leases'[k].expiry \in Int
      <4>1. CASE k = i
        BY <2>4, <2>5, <4>1
      <4>2. CASE k # i
        BY <3>1, <4>2 DEF LeaseTypes
      <4> QED BY <4>1, <4>2
    <3>4. leases' = [k \in Slot |-> leases'[k]]
      BY <2>3 DEF LeaseTypes
    <3> QED BY <3>2, <3>3, <3>4
  <2>7. holds' = [k \in Clients |-> [slot |-> holds'[k].slot, until |-> holds'[k].until]]
        /\ \A k \in Clients : holds'[k].until \in Int
    <3>1. CASE arrives
      <4>1. holds' = [holds EXCEPT ![c] = [slot |-> {i}, until |-> clock + Lease]]
        BY <1>3, <3>1 DEF DhcpRequest
      <4>2. clock + Lease \in Int
        BY DhcpLeasesAssumption DEF LeaseTypes
      <4>3. \A k \in Clients : holds'[k] = IF k = c THEN [slot |-> {i}, until |-> clock + Lease] ELSE holds[k]
        BY <4>1 DEF LeaseTypes
      <4>4. \A k \in Clients : holds'[k] = [slot |-> holds'[k].slot, until |-> holds'[k].until]
        BY <4>3 DEF LeaseTypes
      <4>5. holds' = [k \in Clients |-> holds'[k]]
        BY <4>1 DEF LeaseTypes
      <4>6. ASSUME NEW k \in Clients PROVE holds'[k].until \in Int
        <5>1. CASE k = c
          BY <4>2, <4>3, <5>1
        <5>2. CASE k # c
          BY <4>3, <5>2 DEF LeaseTypes
        <5> QED BY <5>1, <5>2
      <4> QED BY <4>4, <4>5, <4>6
    <3>2. CASE ~arrives
      <4>1. holds' = holds
        BY <1>3, <3>2 DEF DhcpRequest
      <4> QED BY <4>1 DEF LeaseTypes
    <3> QED BY <3>1, <3>2
  <2> QED BY <2>1, <2>6, <2>7 DEF LeaseTypes
<1>4. CASE UNCHANGED leaseVars
  BY <1>4 DEF leaseVars, LeaseTypes
<1> QED BY <1>1, <1>2, <1>3, <1>4 DEF DhcpNext

LEMMA ServedTick == ASSUME LeaseTypes, LeaseTypes', LeaseInv, Tick PROVE LeaseInv'
<1> SUFFICES ASSUME NEW c \in Clients PROVE Served(c)'
  BY DEF LeaseInv
<1>1. UNCHANGED leases /\ clock' = clock + 1 /\ clock \in Nat
  BY DEF Tick, LeaseTypes
<1>2. holds'[c] = IF holds[c].until <= clock' THEN Nothing ELSE holds[c]
  BY DEF Tick
<1>3. CASE holds'[c] = Nothing
  BY <1>3 DEF Nothing, Served
<1>4. CASE holds'[c] = holds[c] /\ ~(holds[c].until <= clock') /\ holds[c].slot # {}
  <2>1. PICK i \in Slot : /\ holds[c].slot = {i} /\ leases[i].mac = {c}
                          /\ clock < holds[c].until /\ holds[c].until <= clock + Lease /\ Runs(i, holds[c].until)
    BY <1>4 DEF LeaseInv, Served
  <2>2. PICK until \in Int : until = holds[c].until
    BY DEF LeaseTypes
  <2>3. Runs(i, until)'
    BY <1>1, <2>1, <2>2, RunsOn DEF LeaseTypes
  <2>4. clock' < until /\ until <= clock' + Lease
    BY <1>1, <1>4, <2>1, <2>2, DhcpLeasesAssumption
  <2> QED BY <1>1, <1>4, <2>1, <2>2, <2>3, <2>4 DEF Served, Runs, EndOf
<1>5. CASE holds'[c].slot = {}
  BY <1>5 DEF Served
<1> QED BY <1>2, <1>3, <1>4, <1>5

LEMMA ServedDiscover ==
    ASSUME LeaseTypes, LeaseInv, NEW d \in Clients, Discover(d) PROVE LeaseInv'
<1> SUFFICES ASSUME NEW c \in Clients PROVE Served(c)'
  BY DEF LeaseInv
<1>1. UNCHANGED <<holds, clock>>
  BY DEF Discover
<1>2. CASE holds[c].slot = {}
  BY <1>1, <1>2 DEF Served
<1>3. CASE holds[c].slot # {}
  <2>1. PICK i \in Slot : /\ holds[c].slot = {i} /\ leases[i].mac = {c}
                          /\ clock < holds[c].until /\ holds[c].until <= clock + Lease /\ Runs(i, holds[c].until)
    BY <1>3 DEF LeaseInv, Served
  <2>2. PICK until \in Int : until = holds[c].until
    BY DEF LeaseTypes
  <2>3. ~Expired(i)
    BY <2>1, <2>2, RunsNotExpired
  <2>4. leases'[i] = leases[i]
    BY <2>3 DEF Discover
  <2>5. Runs(i, until)'
    BY <1>1, <2>1, <2>2, <2>4, RunsOn DEF LeaseTypes
  <2> QED BY <1>1, <2>1, <2>2, <2>4, <2>5 DEF Served
<1> QED BY <1>2, <1>3

LEMMA ServedRequest ==
    ASSUME LeaseTypes, LeaseInv, NEW d \in Clients, NEW k \in Slot, NEW arrives \in BOOLEAN,
           DhcpRequest(d, k, arrives)
    PROVE  LeaseInv'
<1> SUFFICES ASSUME NEW c \in Clients PROVE Served(c)'
  BY DEF LeaseInv
<1>1. UNCHANGED clock /\ leases[k].mac \subseteq {d} /\ clock \in Nat
  BY DEF DhcpRequest, LeaseTypes
<1>2. leases'[k] = [mac |-> {d}, expiry |-> ((Now + Lease) % Wrap) \div Block]
      /\ \A i \in Slot : i # k => leases'[i] = leases[i]
  BY DEF DhcpRequest, LeaseTypes
<1>3. leases'[k].mac = {d} /\ leases'[k].expiry = ((Now + Lease) % Wrap) \div Block
  BY <1>2
<1>4. Runs(k, clock + Lease)'
  BY <1>1, <1>3, GivenRuns
<1>5. CASE holds'[c] = holds[c] /\ holds[c].slot # {}
  <2>1. PICK i \in Slot : /\ holds[c].slot = {i} /\ leases[i].mac = {c}
                          /\ clock < holds[c].until /\ holds[c].until <= clock + Lease /\ Runs(i, holds[c].until)
    BY <1>5 DEF LeaseInv, Served
  <2>2. PICK until \in Int : until = holds[c].until
    BY DEF LeaseTypes
  <2>3. CASE i # k
    <3>1. Runs(i, until)'
      BY <1>1, <1>2, <2>1, <2>2, <2>3, RunsOn
    <3> QED BY <1>1, <1>2, <1>5, <2>1, <2>2, <2>3, <3>1 DEF Served
  <2>4. CASE i = k
    <3>1. c = d
      BY <1>1, <2>1, <2>4
    <3>2. Runs(i, until)'
      <4>1. PICK e, q \in Int : /\ EndOf(k)' = e + q * Wrap /\ clock' + Lease <= e
                                /\ e <= clock' + Lease + Block - 1
        BY <1>4 DEF Runs
      <4>2. until <= e
        BY <1>1, <2>1, <2>2, <4>1, DhcpLeasesAssumption
      <4> QED BY <2>4, <4>1, <4>2 DEF Runs
    <3> QED BY <1>1, <1>3, <1>5, <2>1, <2>2, <2>4, <3>1, <3>2 DEF Served
  <2> QED BY <2>3, <2>4
<1>6. CASE holds'[c] = holds[c] /\ holds[c].slot = {}
  BY <1>6 DEF Served
<1>7. CASE c = d /\ holds'[c] = [slot |-> {k}, until |-> clock + Lease]
  <2>1. holds'[c].slot = {k} /\ holds'[c].until = clock + Lease
    BY <1>7
  <2>2. clock < clock + Lease /\ clock + Lease <= clock + Lease
    BY <1>1, DhcpLeasesAssumption
  <2> QED BY <1>1, <1>3, <1>4, <1>7, <2>1, <2>2 DEF Served
<1> QED BY <1>5, <1>6, <1>7 DEF DhcpRequest, LeaseTypes

LEMMA LeaseInvInit == DhcpInit => LeaseTypes /\ LeaseInv
<1> SUFFICES ASSUME DhcpInit PROVE LeaseTypes /\ LeaseInv
  OBVIOUS
<1>1. clock \in Nat /\ leases = [i \in Slot |-> [mac |-> {}, expiry |-> 0]]
      /\ holds = [c \in Clients |-> [slot |-> {}, until |-> 0]]
  BY DEF DhcpInit, Nothing
<1>2. \A i \in Slot : leases[i] = [mac |-> leases[i].mac, expiry |-> leases[i].expiry]
                      /\ leases[i].expiry \in Int
  BY <1>1
<1>3. \A c \in Clients : holds[c] = [slot |-> holds[c].slot, until |-> holds[c].until]
                         /\ holds[c].until \in Int /\ holds[c].slot = {}
  <2> SUFFICES ASSUME NEW c \in Clients
               PROVE  /\ holds[c] = [slot |-> holds[c].slot, until |-> holds[c].until]
                      /\ holds[c].until \in Int /\ holds[c].slot = {}
    OBVIOUS
  <2>1. holds[c] = [slot |-> {}, until |-> 0]
    BY <1>1
  <2> QED BY <2>1
<1>4. leases = [i \in Slot |-> leases[i]] /\ holds = [c \in Clients |-> holds[c]]
  BY <1>1
<1>5. LeaseTypes
  BY <1>1, <1>2, <1>3, <1>4 DEF LeaseTypes
<1>6. LeaseInv
  BY <1>3 DEF LeaseInv, Served
<1> QED BY <1>5, <1>6

LEMMA LeaseInvNext == LeaseTypes /\ LeaseInv /\ [DhcpNext]_leaseVars => LeaseInv'
<1> SUFFICES ASSUME LeaseTypes, LeaseInv, [DhcpNext]_leaseVars PROVE LeaseInv'
  OBVIOUS
<1>1. LeaseTypes'
  BY LeaseTypesNext
<1>2. CASE Tick
  BY <1>1, <1>2, ServedTick
<1>3. ASSUME NEW c \in Clients, Discover(c) PROVE LeaseInv'
  BY <1>3, ServedDiscover
<1>4. ASSUME NEW c \in Clients, NEW i \in Slot, NEW arrives \in BOOLEAN, DhcpRequest(c, i, arrives)
      PROVE  LeaseInv'
  BY <1>4, ServedRequest
<1>5. CASE UNCHANGED leaseVars
  <2>1. leases' = leases /\ holds' = holds /\ clock' = clock
    BY <1>5 DEF leaseVars
  <2>2. ASSUME NEW c \in Clients PROVE Served(c)'
    <3>1. \A i, until : Runs(i, until)' <=> Runs(i, until)
      BY <2>1 DEF Runs, EndOf
    <3>2. Served(c)
      BY DEF LeaseInv
    <3> QED BY <2>1, <3>1, <3>2 DEF Served
  <2> QED BY <2>2 DEF LeaseInv
<1> QED BY <1>2, <1>3, <1>4, <1>5 DEF DhcpNext

LEMMA HeldOnce == LeaseInv => OneHolder
<1> SUFFICES ASSUME LeaseInv, NEW c \in Clients, NEW d \in Clients, c # d,
                    NEW i, i \in holds[c].slot, i \in holds[d].slot
             PROVE  FALSE
  BY DEF OneHolder
<1>1. leases[i].mac = {c}
  BY DEF LeaseInv, Served
<1>2. leases[i].mac = {d}
  BY DEF LeaseInv, Served
<1> QED BY <1>1, <1>2

(* No two clients use one address at the same time, for every number of         *)
(* addresses and clients, every length of a lease that is short against the     *)
(* wrap of the clock, and however often it wraps: the end of a lease is rounded  *)
(* up to a block and never down, so it is not taken for expired while its client  *)
(* may still use it (dhcp_server_process).                                    *)
THEOREM OneHolderCorrect == DhcpSpec => []OneHolder
<1>1. LeaseTypes /\ LeaseInv /\ [DhcpNext]_leaseVars => (LeaseTypes /\ LeaseInv)'
  BY LeaseTypesNext, LeaseInvNext
<1> QED BY <1>1, LeaseInvInit, HeldOnce, PTL DEF DhcpSpec

-----------------------------------------------------------------------------
(* The frames of the scale (ScaleLink)                                      *)

(* The stream: the bytes in the UART, then the one the scale sends next.     *)
ByteAt(i) == IF i <= Len(rx) THEN rx[i] ELSE wire
Follows(i) == ByteAt(i + 1) = ByteAfter(ByteAt(i))
Gap(i) == i \in 1..Len(rx) /\ ~Follows(i)

(* The next k bytes the listener reads come one after the other, also those     *)
(* that are not sent yet.                                                     *)
Calm(k) ==
    /\ \A i \in 1..Len(rx) : i < k => Follows(i)
    /\ Len(rx) < k => since + (k - Len(rx)) <= Apart

LinkTypes ==
    /\ framing \in Framings
    /\ since \in Nat /\ since <= Apart
    /\ wire = <<wire[1], wire[2]>> /\ wire[1] \in Nat /\ wire[2] \in 0..FrameLength
    /\ wire[2] = 0 => framing = "polled"
    /\ rx \in Seq(Nat \X (1..FrameLength))
    /\ listens \in {"flush", "window", "got"}
    /\ listens = "flush" => framing = "polled" /\ rx = <<>> /\ wire[2] = 0

StreamInv ==
    /\ \A i \in 1..Len(rx) : Follows(i) \/ ByteAt(i + 1) = ByteAfter(ByteAfter(ByteAt(i)))
    /\ \A i \in 1..Len(rx) : Gap(i) => since <= Len(rx) - i
    /\ \A i, j \in 1..Len(rx) : Gap(i) /\ Gap(j) /\ i < j => i + Apart <= j

Place(b)  == IF b[2] = 0 THEN 1 ELSE b[2]
Beginning(n, k) == [i \in 1..k |-> <<n, i>>]

(* The listener has the beginning of the frame the next byte belongs to, or it    *)
(* has less and meets the end of the frame before it takes one; or the newline     *)
(* was lost, and the next byte completes the frame that it ended.                *)
InStep == frame = Beginning(ByteAt(1)[1], Place(ByteAt(1)) - 1)
Behind ==
    /\ Place(ByteAt(1)) >= 2 /\ frame \in Seq(Nat \X (1..FrameLength))
    /\ Len(frame) < Place(ByteAt(1)) - 1
    /\ Calm(IF framing = "header" THEN 6 - Place(ByteAt(1)) ELSE 5 - Place(ByteAt(1)))
NoNewline ==
    /\ Place(ByteAt(1)) = 1
    /\ IF framing = "header" THEN frame \in Seq(Nat \X (1..FrameLength)) /\ Len(frame) < 4 /\ Calm(1)
       ELSE Calm(4) /\ \E n \in Nat : frame = Beginning(n, 3)

LinkInv ==
    /\ InStep \/ Behind \/ NoNewline
    /\ reading # Mixed /\ got # Mixed

-----------------------------------------------------------------------------
(* What a step does to the stream.                                           *)
LEMMA WireByte == ASSUME LinkTypes PROVE ByteAfter(wire) = <<ByteAfter(wire)[1], ByteAfter(wire)[2]>>
                         /\ ByteAfter(wire)[1] \in Nat /\ ByteAfter(wire)[2] \in 0..FrameLength
                         /\ (ByteAfter(wire)[2] = 0 => framing = "polled")
BY DEF LinkTypes, ByteAfter, FrameLength

LEMMA StreamSends ==
    ASSUME LinkTypes, ScaleSends
    PROVE  /\ Len(rx') = Len(rx) + 1 /\ rx' \in Seq(Nat \X (1..FrameLength))
           /\ \A i \in 1..(Len(rx) + 1) : ByteAt(i)' = ByteAt(i)
           /\ \A k \in Nat : k = Len(rx) + 2 => ByteAt(k)' = ByteAfter(wire)
<1>1. wire \in Nat \X (1..FrameLength) /\ rx \in Seq(Nat \X (1..FrameLength)) /\ rx' = Append(rx, wire)
  BY DEF LinkTypes, ScaleSends, FrameLength
<1>2. Len(rx) \in Nat /\ Len(rx') = Len(rx) + 1 /\ rx' \in Seq(Nat \X (1..FrameLength))
  BY <1>1
<1>3. \A i \in 1..Len(rx) : rx'[i] = rx[i]
  BY <1>1
<1>4. rx'[Len(rx) + 1] = wire
  BY <1>1
<1>5. wire' = ByteAfter(wire)
  BY DEF ScaleSends
<1>6. ASSUME NEW i \in 1..(Len(rx) + 1) PROVE ByteAt(i)' = ByteAt(i)
  <2>1. CASE i = Len(rx) + 1
    <3>1. ByteAt(i)' = rx'[i]
      BY <1>2, <2>1 DEF ByteAt
    <3>2. ByteAt(i) = wire
      BY <1>2, <2>1 DEF ByteAt
    <3> QED BY <1>4, <2>1, <3>1, <3>2
  <2>2. CASE i \in 1..Len(rx)
    BY <1>2, <1>3, <2>2 DEF ByteAt
  <2> QED BY <1>2, <2>1, <2>2
<1>7. ASSUME NEW k \in Nat, k = Len(rx) + 2 PROVE ByteAt(k)' = ByteAfter(wire)
  <2>1. ~(k <= Len(rx'))
    BY <1>2, <1>7
  <2> QED BY <1>5, <2>1 DEF ByteAt
<1> QED BY <1>2, <1>6, <1>7

LEMMA StreamLoses ==
    ASSUME LinkTypes, ByteLost
    PROVE  /\ rx' = rx
           /\ \A i \in 1..Len(rx) : ByteAt(i)' = ByteAt(i)
           /\ ByteAt(Len(rx) + 1)' = ByteAfter(ByteAt(Len(rx) + 1))
<1>1. rx' = rx /\ Len(rx) \in Nat /\ wire' = ByteAfter(wire)
  BY DEF LinkTypes, ByteLost
<1>2. \A i \in 1..Len(rx) : ByteAt(i)' = ByteAt(i)
  BY <1>1 DEF ByteAt
<1>3. PICK k \in Nat : k = Len(rx) + 1 /\ ~(k <= Len(rx))
  BY <1>1
<1>4. ByteAt(k)' = ByteAfter(ByteAt(k))
  <2>1. ByteAt(k) = wire
    BY <1>3 DEF ByteAt
  <2>2. ByteAt(k)' = wire'
    BY <1>1, <1>3 DEF ByteAt
  <2> QED BY <1>1, <2>1, <2>2
<1> QED BY <1>1, <1>2, <1>3, <1>4

LEMMA StreamRead ==
    ASSUME LinkTypes, ListenerReads
    PROVE  /\ Len(rx) \in Nat /\ Len(rx) >= 1 /\ Len(rx') = Len(rx) - 1
           /\ rx' \in Seq(Nat \X (1..FrameLength))
           /\ \A i \in 1..Len(rx) : ByteAt(i)' = ByteAt(i + 1)
           /\ ByteAt(1) = Head(rx) /\ ByteAt(1) \in Nat \X (1..FrameLength)
<1>1. rx \in Seq(Nat \X (1..FrameLength)) /\ rx # <<>> /\ rx' = Tail(rx) /\ wire' = wire
  BY DEF LinkTypes, ListenerReads
<1>2. Len(rx) \in Nat /\ Len(rx) >= 1 /\ Len(rx') = Len(rx) - 1 /\ rx' \in Seq(Nat \X (1..FrameLength))
  BY <1>1
<1>3. \A i \in 1..(Len(rx) - 1) : rx'[i] = rx[i + 1]
  BY <1>1
<1>4. ASSUME NEW i \in 1..Len(rx) PROVE ByteAt(i)' = ByteAt(i + 1)
  <2>1. CASE i = Len(rx)
    <3>1. ~(i <= Len(rx')) /\ ~(i + 1 <= Len(rx))
      BY <1>2, <2>1
    <3> QED BY <1>1, <3>1 DEF ByteAt
  <2>2. CASE i \in 1..(Len(rx) - 1)
    BY <1>2, <1>3, <2>2 DEF ByteAt
  <2> QED BY <1>2, <2>1, <2>2
<1>5. ByteAt(1) = rx[1] /\ rx[1] = Head(rx) /\ rx[1] \in Nat \X (1..FrameLength)
  BY <1>1, <1>2 DEF ByteAt
<1> QED BY <1>2, <1>4, <1>5

LEMMA LinkTypesNext ==
    ASSUME "polled" \in Framings => ~Late, LinkTypes, [ScaleLinkNext]_linkVars PROVE LinkTypes'
<1> USE DEF LinkTypes
<1>1. CASE ScaleSends
  <2>1. since' \in Nat /\ since' <= Apart
    <3>1. since \in Nat /\ since <= Apart /\ Apart \in Nat
      BY ScaleLinkAssumption
    <3>2. since' = IF since < Apart THEN since + 1 ELSE since
      BY <1>1 DEF ScaleSends
    <3> HIDE DEF LinkTypes
    <3> QED BY <3>1, <3>2
  <2> QED BY <1>1, <2>1, StreamSends, WireByte DEF ScaleSends
<1>2. CASE ByteLost
  <2>1. since' \in Nat /\ since' <= Apart
    BY <1>2, ScaleLinkAssumption DEF ByteLost
  <2> QED BY <1>2, <2>1, WireByte DEF ByteLost
<1>3. CASE ListenerReads
  BY <1>3, StreamRead DEF ListenerReads
<1>4. CASE ListenerAsks
  <2>1. wire' = <<wire'[1], wire'[2]>> /\ wire'[1] \in Nat /\ wire'[2] \in 0..FrameLength
        /\ (wire'[2] = 0 => framing = "polled")
    BY <1>4 DEF ListenerAsks, FrameLength
  <2> QED BY <1>4, <2>1 DEF ListenerAsks
<1>5. CASE ListenerEnds
  BY <1>5 DEF ListenerEnds
<1>6. CASE WaitTakes \/ WaitReturns
  BY <1>6 DEF WaitTakes, WaitReturns
<1>7. CASE UNCHANGED linkVars
  BY <1>7 DEF linkVars
<1> QED BY <1>1, <1>2, <1>3, <1>4, <1>5, <1>6, <1>7 DEF ScaleLinkNext

-----------------------------------------------------------------------------
(* Gaps stay Apart bytes from each other, and from the end of the stream since     *)
(* bytes.                                                                     *)
LEMMA StreamInvSends == ASSUME LinkTypes, StreamInv, ScaleSends PROVE StreamInv'
<1> DEFINE n == Len(rx)
<1>0. n \in Nat /\ since \in Nat /\ since' \in Nat /\ since' <= since + 1
  BY ScaleLinkAssumption DEF ScaleSends, LinkTypes
<1>1. Len(rx') = n + 1 /\ \A i \in 1..(n + 1) : ByteAt(i)' = ByteAt(i)
  BY StreamSends
<1>2. PICK k \in Nat : k = n + 1
  BY <1>0
<1>3. ByteAfter(wire)' = ByteAfter(wire') /\ \A b : ByteAfter(b)' = ByteAfter(b)
  BY DEF ByteAfter, ScaleSends
<1>4. ByteAt(k + 1)' = ByteAfter(ByteAt(k))
  <2>1. ByteAt(k) = wire
    BY <1>0, <1>2 DEF ByteAt
  <2>2. PICK m \in Nat : m = k + 1
    OBVIOUS
  <2>3. ByteAt(m)' = ByteAfter(wire)
    BY <1>0, <1>2, <2>2, StreamSends
  <2> QED BY <2>1, <2>2, <2>3
<1>5. Follows(k)'
  BY <1>0, <1>1, <1>2, <1>3, <1>4 DEF Follows
<1>6. \A i \in 1..n : Follows(i)' <=> Follows(i)
  <2> SUFFICES ASSUME NEW i \in 1..n PROVE Follows(i)' <=> Follows(i)
    OBVIOUS
  <2>1. ByteAt(i)' = ByteAt(i) /\ ByteAt(i + 1)' = ByteAt(i + 1)
    BY <1>0, <1>1
  <2> QED BY <1>3, <2>1 DEF Follows
<1>7. \A i : Gap(i)' => Gap(i)
  BY <1>0, <1>1, <1>2, <1>5, <1>6 DEF Gap
<1>8. \A i \in 1..Len(rx') : Follows(i)' \/ ByteAt(i + 1)' = ByteAfter(ByteAfter(ByteAt(i)))'
  <2> SUFFICES ASSUME NEW i \in 1..n
               PROVE  Follows(i)' \/ ByteAt(i + 1)' = ByteAfter(ByteAfter(ByteAt(i)))'
    BY <1>0, <1>1, <1>2, <1>5
  <2>1. ByteAt(i)' = ByteAt(i) /\ ByteAt(i + 1)' = ByteAt(i + 1)
    BY <1>0, <1>1
  <2>2. Follows(i) \/ ByteAt(i + 1) = ByteAfter(ByteAfter(ByteAt(i)))
    BY DEF StreamInv
  <2> QED BY <1>3, <1>6, <2>1, <2>2
<1>9. \A i \in 1..Len(rx') : Gap(i)' => since' <= Len(rx') - i
  BY <1>0, <1>1, <1>7 DEF StreamInv, Gap
<1>10. \A i, j \in 1..Len(rx') : Gap(i)' /\ Gap(j)' /\ i < j => i + Apart <= j
  BY <1>0, <1>1, <1>7 DEF StreamInv, Gap
<1> QED BY <1>8, <1>9, <1>10 DEF StreamInv

LEMMA StreamInvLoses == ASSUME Apart >= FrameLength, LinkTypes, StreamInv, ByteLost PROVE StreamInv'
<1> DEFINE n == Len(rx)
<1>0. n \in Nat /\ since' = 0 /\ since = Apart /\ rx' = rx
  BY DEF ByteLost, LinkTypes
<1>1. \A i \in 1..n : ByteAt(i)' = ByteAt(i)
  BY StreamLoses
<1>2. \A b : ByteAfter(b)' = ByteAfter(b)
  BY DEF ByteAfter, ByteLost
<1>3. PICK k \in Nat : k = n + 1
  BY <1>0
<1>4. ByteAt(k)' = ByteAfter(ByteAt(k))
  BY <1>0, <1>3, StreamLoses
<1>5. ASSUME NEW i \in 1..n, i # n
      PROVE  ByteAt(i)' = ByteAt(i) /\ ByteAt(i + 1)' = ByteAt(i + 1)
  <2>1. i + 1 \in 1..n
    BY <1>0, <1>5
  <2> QED BY <1>1, <2>1
<1>6. \A i \in 1..n : i # n => (Gap(i)' <=> Gap(i))
  BY <1>0, <1>2, <1>5 DEF Gap, Follows
<1>7. ASSUME NEW i \in 1..Len(rx')
      PROVE  Follows(i)' \/ ByteAt(i + 1)' = ByteAfter(ByteAfter(ByteAt(i)))'
  <2>0. i \in 1..n
    BY <1>0
  <2>1. Follows(i) \/ ByteAt(i + 1) = ByteAfter(ByteAfter(ByteAt(i)))
    BY <2>0 DEF StreamInv
  <2>2. CASE i # n
    BY <1>2, <1>5, <2>0, <2>1, <2>2 DEF Follows
  <2>3. CASE i = n
    <3>1. i + 1 = k /\ ~Gap(i)
      BY <1>0, <1>3, <2>0, <2>3, ScaleLinkAssumption DEF StreamInv, Gap, FrameLength
    <3>2. ByteAt(k) = ByteAfter(ByteAt(i))
      BY <2>0, <3>1 DEF Gap, Follows
    <3>3. ByteAt(i)' = ByteAt(i)
      BY <1>1, <2>0
    <3>4. ByteAt(k)' = ByteAfter(ByteAfter(ByteAt(i)))
      BY <1>4, <3>2
    <3> QED BY <1>2, <3>1, <3>3, <3>4
  <2> QED BY <2>2, <2>3
<1>8. \A i \in 1..Len(rx') : Gap(i)' => since' <= Len(rx') - i
  BY <1>0
<1>9. ASSUME NEW i \in 1..Len(rx'), NEW j \in 1..Len(rx'), Gap(i)', Gap(j)', i < j
      PROVE  i + Apart <= j
  <2>1. i \in 1..n /\ j \in 1..n /\ i # n
    BY <1>0, <1>9
  <2>2. Gap(i)
    BY <1>6, <1>9, <2>1
  <2>3. CASE j # n
    BY <1>6, <1>9, <2>1, <2>2, <2>3 DEF StreamInv
  <2>4. CASE j = n
    <3>1. Apart <= n - i
      BY <1>0, <2>1, <2>2 DEF StreamInv
    <3> QED BY <1>0, <2>1, <2>4, <3>1, ScaleLinkAssumption
  <2> QED BY <2>3, <2>4
<1> QED BY <1>7, <1>8, <1>9 DEF StreamInv

LEMMA StreamInvRead == ASSUME LinkTypes, StreamInv, ListenerReads PROVE StreamInv'
<1> DEFINE n == Len(rx)
<1>0. n \in Nat /\ n >= 1 /\ Len(rx') = n - 1 /\ since' = since /\ since \in Nat
  BY StreamRead DEF ListenerReads, LinkTypes
<1>1. \A i \in 1..n : ByteAt(i)' = ByteAt(i + 1)
  BY StreamRead
<1>2. \A b : ByteAfter(b)' = ByteAfter(b)
  BY DEF ByteAfter, ListenerReads
<1>3. ASSUME NEW i \in 1..(n - 1)
      PROVE  /\ i + 1 \in 1..n /\ ByteAt(i)' = ByteAt(i + 1)
             /\ ByteAt(i + 1)' = ByteAt((i + 1) + 1)
  BY <1>0, <1>1
<1>4. ASSUME NEW i \in 1..(n - 1) PROVE Follows(i)' <=> Follows(i + 1)
  BY <1>2, <1>3 DEF Follows
<1>5. ASSUME NEW i \in 1..(n - 1) PROVE Gap(i)' => Gap(i + 1)
  BY <1>0, <1>3, <1>4 DEF Gap
<1>6. ASSUME NEW i \in 1..Len(rx')
      PROVE  Follows(i)' \/ ByteAt(i + 1)' = ByteAfter(ByteAfter(ByteAt(i)))'
  <2>1. i \in 1..(n - 1)
    BY <1>0
  <2>2. PICK k \in 1..n : k = i + 1
    BY <1>3, <2>1
  <2>3. Follows(k) \/ ByteAt(k + 1) = ByteAfter(ByteAfter(ByteAt(k)))
    BY <2>2 DEF StreamInv
  <2> QED BY <1>2, <1>3, <1>4, <2>1, <2>2, <2>3
<1>7. ASSUME NEW i \in 1..Len(rx'), Gap(i)' PROVE since' <= Len(rx') - i
  <2>1. i \in 1..(n - 1)
    BY <1>0
  <2>2. PICK k \in 1..n : k = i + 1
    BY <1>3, <2>1
  <2>3. since <= n - k
    BY <1>5, <1>7, <2>1, <2>2 DEF StreamInv
  <2> QED BY <1>0, <2>1, <2>2, <2>3
<1>8. ASSUME NEW i \in 1..Len(rx'), NEW j \in 1..Len(rx'), Gap(i)', Gap(j)', i < j
      PROVE  i + Apart <= j
  <2>1. i \in 1..(n - 1) /\ j \in 1..(n - 1)
    BY <1>0
  <2>2. PICK k \in 1..n, m \in 1..n : k = i + 1 /\ m = j + 1
    BY <1>3, <2>1
  <2>3. Gap(k) /\ Gap(m) /\ k < m
    BY <1>0, <1>5, <1>8, <2>1, <2>2
  <2>4. k + Apart <= m
    BY <2>3 DEF StreamInv
  <2> QED BY <1>0, <2>1, <2>2, <2>4, ScaleLinkAssumption
<1> QED BY <1>6, <1>7, <1>8 DEF StreamInv

-----------------------------------------------------------------------------
(* A stretch without a gap stays one: what it needs of the bytes to come is less,   *)
(* byte by byte, than the distance of the gaps.                                *)
LEMMA CalmSends == ASSUME LinkTypes, ScaleSends, NEW k \in Nat, Calm(k) PROVE Calm(k)'
<1> DEFINE n == Len(rx)
<1>0. n \in Nat /\ since \in Nat /\ Apart \in Nat /\ Len(rx') = n + 1
      /\ since' = (IF since < Apart THEN since + 1 ELSE since)
  BY StreamSends, ScaleLinkAssumption DEF ScaleSends, LinkTypes
<1>1. \A b : ByteAfter(b)' = ByteAfter(b)
  BY DEF ByteAfter, ScaleSends
<1>2. ASSUME NEW i \in 1..Len(rx'), i < k PROVE Follows(i)'
  <2>1. CASE i = n + 1
    <3>1. PICK m \in Nat : m = i + 1
      OBVIOUS
    <3>2. m = n + 2
      BY <1>0, <2>1, <3>1
    <3>3. ByteAt(m)' = ByteAfter(wire)
      BY <3>2, StreamSends
    <3>4. ByteAt(i)' = ByteAt(i) /\ ByteAt(i) = wire
      BY <1>0, <2>1, StreamSends DEF ByteAt
    <3> QED BY <1>1, <3>1, <3>3, <3>4 DEF Follows
  <2>2. CASE i \in 1..n
    <3>1. ByteAt(i)' = ByteAt(i) /\ ByteAt(i + 1)' = ByteAt(i + 1)
      BY <1>0, <2>2, StreamSends
    <3>2. Follows(i)
      BY <1>2, <2>2 DEF Calm
    <3> QED BY <1>1, <3>1, <3>2 DEF Follows
  <2> QED BY <1>0, <2>1, <2>2
<1>3. ASSUME Len(rx') < k PROVE since' + (k - Len(rx')) <= Apart
  <2>1. since + (k - n) <= Apart
    BY <1>0, <1>3 DEF Calm
  <2> QED BY <1>0, <1>3, <2>1
<1> QED BY <1>2, <1>3 DEF Calm

LEMMA CalmLoses ==
    ASSUME LinkTypes, ByteLost, NEW k \in Nat, k > 0, Calm(k) PROVE Calm(k)' /\ ByteAt(1)' = ByteAt(1)
<1> DEFINE n == Len(rx)
<1>0. n \in Nat /\ since = Apart /\ Apart \in Nat /\ rx' = rx
  BY ScaleLinkAssumption DEF ByteLost, LinkTypes
<1>1. \A b : ByteAfter(b)' = ByteAfter(b)
  BY DEF ByteAfter, ByteLost
<1>2. k <= n
  BY <1>0 DEF Calm
<1>3. ASSUME NEW i \in 1..Len(rx'), i < k PROVE Follows(i)'
  <2>1. i \in 1..n /\ i + 1 \in 1..n
    BY <1>0, <1>2, <1>3
  <2>2. ByteAt(i)' = ByteAt(i) /\ ByteAt(i + 1)' = ByteAt(i + 1)
    BY <2>1, StreamLoses
  <2>3. Follows(i)
    BY <1>3, <2>1 DEF Calm
  <2> QED BY <1>1, <2>2, <2>3 DEF Follows
<1>4. ByteAt(1)' = ByteAt(1)
  BY <1>0, <1>2, StreamLoses
<1> QED BY <1>0, <1>2, <1>3, <1>4 DEF Calm

LEMMA CalmRead ==
    ASSUME LinkTypes, ListenerReads, NEW k \in Nat, NEW l \in Nat, l < k, Calm(k) PROVE Calm(l)'
<1> DEFINE n == Len(rx)
<1>0. n \in Nat /\ n >= 1 /\ Len(rx') = n - 1 /\ since' = since /\ since \in Nat /\ Apart \in Nat
  BY StreamRead, ScaleLinkAssumption DEF ListenerReads, LinkTypes
<1>1. \A b : ByteAfter(b)' = ByteAfter(b)
  BY DEF ByteAfter, ListenerReads
<1>2. ASSUME NEW i \in 1..Len(rx'), i < l PROVE Follows(i)'
  <2>1. PICK m \in 1..n : m = i + 1 /\ m < k
    BY <1>0, <1>2
  <2>2. ByteAt(i)' = ByteAt(m) /\ ByteAt(i + 1)' = ByteAt(m + 1)
    BY <1>0, <2>1, StreamRead
  <2>3. Follows(m)
    BY <2>1 DEF Calm
  <2> QED BY <1>1, <2>2, <2>3 DEF Follows
<1>3. ASSUME Len(rx') < l PROVE since' + (l - Len(rx')) <= Apart
  <2>1. CASE n < k
    <3>1. since + (k - n) <= Apart
      BY <2>1 DEF Calm
    <3> QED BY <1>0, <1>3, <3>1
  <2>2. CASE n >= k
    BY <1>0, <1>3, <2>2
  <2> QED BY <1>0, <2>1, <2>2
<1> QED BY <1>2, <1>3 DEF Calm

LEMMA CalmAfterGap ==
    ASSUME Apart >= FrameLength, LinkTypes, StreamInv, ListenerReads, Gap(1),
           NEW l \in Nat, l <= FrameLength
    PROVE  Calm(l)'
<1> DEFINE n == Len(rx)
<1>0. n \in Nat /\ n >= 1 /\ Len(rx') = n - 1 /\ since' = since /\ since \in Nat /\ Apart \in Nat
      /\ FrameLength = 4
  BY StreamRead, ScaleLinkAssumption DEF ListenerReads, LinkTypes, FrameLength
<1>1. \A b : ByteAfter(b)' = ByteAfter(b)
  BY DEF ByteAfter, ListenerReads
<1>2. ASSUME NEW i \in 1..Len(rx'), i < l PROVE Follows(i)'
  <2>1. PICK m \in 1..n : m = i + 1 /\ m < 1 + Apart /\ 1 < m
    BY <1>0, <1>2
  <2>2. ByteAt(i)' = ByteAt(m) /\ ByteAt(i + 1)' = ByteAt(m + 1)
    BY <1>0, <2>1, StreamRead
  <2>3. ~Gap(m)
    BY <1>0, <2>1 DEF StreamInv
  <2>4. Follows(m)
    BY <2>1, <2>3 DEF Gap
  <2> QED BY <1>1, <2>2, <2>4 DEF Follows
<1>3. ASSUME Len(rx') < l PROVE since' + (l - Len(rx')) <= Apart
  <2>1. since <= n - 1
    BY <1>0 DEF StreamInv
  <2> QED BY <1>0, <1>3, <2>1
<1> QED BY <1>2, <1>3 DEF Calm

-----------------------------------------------------------------------------
(* A beginning of a frame with the next byte is the longer beginning.            *)
LEMMA BeginningSeq ==
    ASSUME NEW n \in Nat, NEW k \in 0..FrameLength
    PROVE  /\ Beginning(n, k) \in Seq(Nat \X (1..FrameLength)) /\ Len(Beginning(n, k)) = k
           /\ \A i \in 1..k : Beginning(n, k)[i] = <<n, i>>
<1>1. k \in Nat /\ 1..k \subseteq 1..FrameLength
  BY DEF FrameLength
<1>2. Beginning(n, k) \in [1..k -> Nat \X (1..FrameLength)]
  BY <1>1 DEF Beginning
<1> QED BY <1>1, <1>2 DEF Beginning

LEMMA BeginningGrows ==
    ASSUME NEW n \in Nat, NEW k \in 1..FrameLength
    PROVE  Append(Beginning(n, k - 1), <<n, k>>) = Beginning(n, k)
<1>1. k - 1 \in 0..FrameLength /\ k \in 0..FrameLength /\ k \in Nat
  BY DEF FrameLength
<1>2. PICK s \in Seq(Nat \X (1..FrameLength)) :
        s = Beginning(n, k - 1) /\ Len(s) = k - 1 /\ \A i \in 1..(k - 1) : s[i] = <<n, i>>
  BY <1>1, BeginningSeq
<1>3. PICK b \in Nat \X (1..FrameLength) : b = <<n, k>>
  OBVIOUS
<1>4. Append(s, b) = [i \in 1..k |-> <<n, i>>]
  <2>1. Append(s, b) = [i \in 1..k |-> Append(s, b)[i]]
    BY <1>1, <1>2
  <2>2. \A i \in 1..k : Append(s, b)[i] = <<n, i>>
    BY <1>1, <1>2, <1>3
  <2> QED BY <2>1, <2>2
<1> QED BY <1>2, <1>3, <1>4 DEF Beginning

LEMMA EmptyBeginning == ASSUME NEW n PROVE Beginning(n, 0) = <<>>
BY DEF Beginning

(* A byte of a frame is lost where the listener is in step.                     *)
LEMMA FallsBehind ==
    ASSUME NEW n \in Nat, NEW p \in 1..FrameLength, frame' = Beginning(n, p - 1),
           ByteAt(1)' = ByteAfter(<<n, p>>), UNCHANGED framing, framing \in AllFramings,
           \A l \in Nat : l <= FrameLength => Calm(l)'
    PROVE  (Behind \/ NoNewline)'
<1>1. p - 1 \in 0..FrameLength /\ FrameLength = 4
  BY DEF FrameLength
<1>2. /\ frame' \in Seq(Nat \X (1..FrameLength)) /\ Len(frame') = p - 1
  BY <1>1, BeginningSeq
<1>3. CASE p < 4
  <2>1. ByteAt(1)' = <<n, p + 1>> /\ Place(ByteAt(1))' = p + 1
    BY <1>1, <1>3 DEF ByteAfter, Place
  <2>2. 6 - (p + 1) \in Nat /\ 6 - (p + 1) <= 4 /\ 5 - (p + 1) \in Nat /\ 5 - (p + 1) <= 4
    BY <1>1, <1>3
  <2>3. PICK l \in Nat : /\ l = IF framing = "header" THEN 6 - (p + 1) ELSE 5 - (p + 1)
                         /\ l <= FrameLength
    BY <1>1, <2>2
  <2>4. Calm(l)'
    BY <2>3
  <2>5. p + 1 >= 2 /\ p - 1 < (p + 1) - 1
    BY <1>1
  <2> QED BY <1>1, <1>2, <2>1, <2>3, <2>4, <2>5 DEF Behind
<1>4. CASE p = 4
  <2>1. Place(ByteAt(1))' = 1
    BY <1>1, <1>4 DEF ByteAfter, Place
  <2>2. Calm(1)' /\ Calm(4)'
    BY <1>1
  <2>3. frame' = Beginning(n, 3) /\ Len(frame') < 4
    <3>1. p - 1 = 3
      BY <1>4
    <3> QED BY <1>2, <3>1
  <2> QED BY <1>2, <2>1, <2>2, <2>3 DEF NoNewline
<1> QED BY <1>1, <1>3, <1>4

LEMMA LinkInvLoses ==
    ASSUME Apart >= FrameLength, LinkTypes, LinkInv, ByteLost PROVE LinkInv'
<1>0. UNCHANGED <<framing, rx, frame, reading, got>> /\ framing \in AllFramings
      /\ Apart \in Nat /\ since' = 0 /\ wire' = ByteAfter(wire) /\ wire[2] # 0
  BY ScaleLinkAssumption DEF ByteLost, LinkTypes
<1>1. CASE Behind
  <2>1. PICK p \in 2..4 : p = Place(ByteAt(1))
    <3>1. ByteAt(1)[2] \in 0..4
      BY DEF ByteAt, LinkTypes, FrameLength
    <3>2. Place(ByteAt(1)) \in Int /\ Place(ByteAt(1)) <= 4
      BY <3>1 DEF Place
    <3> QED BY <1>1, <3>2 DEF Behind
  <2>2. PICK k \in Nat : k = (IF framing = "header" THEN 6 - p ELSE 5 - p) /\ k > 0
    BY <2>1
  <2>3. Calm(k)
    BY <1>1, <2>1, <2>2 DEF Behind
  <2>4. Calm(k)' /\ ByteAt(1)' = ByteAt(1)
    BY <2>2, <2>3, CalmLoses
  <2> QED BY <1>0, <1>1, <2>1, <2>2, <2>4 DEF LinkInv, Behind, Place
<1>2. CASE NoNewline
  <2>1. PICK k \in {1, 4} : k = IF framing = "header" THEN 1 ELSE 4
    OBVIOUS
  <2>2. Calm(k)
    BY <1>2, <2>1 DEF NoNewline
  <2>3. Calm(k)' /\ ByteAt(1)' = ByteAt(1)
    BY <2>2, CalmLoses
  <2> QED BY <1>0, <1>2, <2>1, <2>3 DEF LinkInv, NoNewline, Place
<1>3. CASE InStep /\ rx # <<>>
  <2>1. 1 \in 1..Len(rx)
    BY <1>3 DEF LinkTypes
  <2>2. ByteAt(1)' = ByteAt(1)
    BY <2>1, StreamLoses
  <2> QED BY <1>0, <1>3, <2>2 DEF LinkInv, InStep, Place
<1>4. CASE InStep /\ rx = <<>>
  <2>1. ByteAt(1) = wire /\ ByteAt(1)' = wire' /\ Len(rx') = 0
    BY <1>0, <1>4 DEF ByteAt
  <2>2. PICK n \in Nat, p \in 1..FrameLength : wire = <<n, p>>
    BY <1>0 DEF LinkTypes, FrameLength
  <2>3. frame' = Beginning(n, p - 1)
    BY <1>0, <1>4, <2>1, <2>2 DEF InStep, Place
  <2>4. ASSUME NEW l \in Nat, l <= FrameLength PROVE Calm(l)'
    BY <1>0, <2>1, <2>4 DEF Calm, FrameLength
  <2> QED BY <1>0, <2>1, <2>2, <2>3, <2>4, FallsBehind DEF LinkInv
<1> QED BY <1>1, <1>2, <1>3, <1>4 DEF LinkInv

LEMMA LinkInvSends == ASSUME LinkTypes, LinkInv, ScaleSends PROVE LinkInv'
<1>0. UNCHANGED <<framing, frame, reading, got>>
  BY DEF ScaleSends
<1>1. ByteAt(1)' = ByteAt(1)
  <2>1. 1 \in 1..(Len(rx) + 1)
    BY DEF LinkTypes
  <2> QED BY <2>1, StreamSends
<1>2. CASE Behind
  <2>1. PICK p \in 2..4 : p = Place(ByteAt(1))
    <3>1. ByteAt(1)[2] \in 0..4
      BY DEF ByteAt, LinkTypes, FrameLength
    <3>2. Place(ByteAt(1)) \in Int /\ Place(ByteAt(1)) <= 4
      BY <3>1 DEF Place
    <3> QED BY <1>2, <3>2 DEF Behind
  <2>2. PICK k \in Nat : k = (IF framing = "header" THEN 6 - p ELSE 5 - p) /\ k > 0
    BY <2>1
  <2>3. Calm(k)
    BY <1>2, <2>1, <2>2 DEF Behind
  <2>4. Calm(k)'
    BY <2>2, <2>3, CalmSends
  <2> QED BY <1>0, <1>1, <1>2, <2>1, <2>2, <2>4 DEF LinkInv, Behind, Place
<1>3. CASE NoNewline
  <2>1. Calm(1) => Calm(1)'
    BY CalmSends
  <2>2. Calm(4) => Calm(4)'
    BY CalmSends
  <2> QED BY <1>0, <1>1, <1>3, <2>1, <2>2 DEF LinkInv, NoNewline, Place
<1>4. CASE InStep
  BY <1>0, <1>1, <1>4 DEF LinkInv, InStep, Place
<1> QED BY <1>2, <1>3, <1>4 DEF LinkInv

-----------------------------------------------------------------------------
(* The listener reads the byte <<n, p>>.                                      *)
LEMMA NextByte ==
    ASSUME LinkTypes, StreamInv, ListenerReads, NEW n \in Nat, NEW p \in 1..FrameLength,
           Head(rx) = <<n, p>>
    PROVE  /\ ByteAt(1) = <<n, p>> /\ Place(ByteAt(1)) = p
           /\ Follows(1) => ByteAt(1)' = ByteAfter(<<n, p>>)
           /\ ~Follows(1) => Gap(1) /\ ByteAt(1)' = ByteAfter(ByteAfter(<<n, p>>))
<1>1. ByteAt(1) = <<n, p>> /\ 1 \in 1..Len(rx)
  BY StreamRead
<1>2. ByteAt(1)' = ByteAt(1 + 1)
  BY <1>1, StreamRead
<1>3. Follows(1) \/ ByteAt(1 + 1) = ByteAfter(ByteAfter(ByteAt(1)))
  BY <1>1 DEF StreamInv
<1>4. Place(ByteAt(1)) = p
  BY <1>1 DEF Place, FrameLength
<1> QED BY <1>1, <1>2, <1>3, <1>4 DEF Follows, Gap

(* After a whole frame, or the newline of one, nothing is left of it: the listener    *)
(* is in step with the next one, or has lost its first byte.                     *)
LEMMA StartsOver ==
    ASSUME Apart >= FrameLength, LinkTypes, StreamInv, ListenerReads, NEW n \in Nat,
           Head(rx) = <<n, 4>>, frame' = <<>>
    PROVE  (InStep \/ Behind \/ NoNewline)'
<1>0. UNCHANGED framing /\ framing \in AllFramings /\ 4 \in 1..FrameLength
  BY ScaleLinkAssumption DEF ListenerReads, LinkTypes, FrameLength
<1>1. PICK q \in {0, 1} : ByteAfter(<<n, 4>>) = <<n + 1, q>>
  BY DEF ByteAfter, FrameLength
<1>2. CASE Follows(1)
  <2>1. ByteAt(1)' = <<n + 1, q>>
    BY <1>0, <1>1, <1>2, NextByte
  <2>2. Place(ByteAt(1))' - 1 = 0
    BY <2>1 DEF Place
  <2>3. frame' = Beginning(n + 1, 0)
    BY EmptyBeginning
  <2> QED BY <2>1, <2>2, <2>3 DEF InStep
<1>3. CASE ~Follows(1)
  <2>1. ByteAt(1)' = ByteAfter(<<n + 1, q>>) /\ Gap(1)
    BY <1>0, <1>1, <1>3, NextByte
  <2>2. CASE q = 0
    <3>1. ByteAt(1)' = <<n + 1, 1>>
      BY <2>1, <2>2 DEF ByteAfter, FrameLength
    <3>2. Place(ByteAt(1))' - 1 = 0
      BY <3>1 DEF Place
    <3>3. frame' = Beginning(n + 1, 0)
      BY EmptyBeginning
    <3> QED BY <3>1, <3>2, <3>3 DEF InStep
  <2>3. CASE q = 1
    <3>1. frame' = Beginning(n + 1, 1 - 1)
      BY EmptyBeginning
    <3>2. \A l \in Nat : l <= FrameLength => Calm(l)'
      BY <2>1, CalmAfterGap
    <3>3. PICK m \in Nat : m = n + 1
      OBVIOUS
    <3>4. PICK o \in 1..FrameLength : o = 1
      BY DEF FrameLength
    <3>5. frame' = Beginning(m, o - 1) /\ ByteAt(1)' = ByteAfter(<<m, o>>)
      BY <2>1, <2>3, <3>1, <3>3, <3>4
    <3> QED BY <1>0, <3>2, <3>5, FallsBehind
  <2> QED BY <2>2, <2>3
<1> QED BY <1>2, <1>3

(* With the beginning of a frame up to place p, p not the last.                  *)
LEMMA GoesOn ==
    ASSUME Apart >= FrameLength, LinkTypes, StreamInv, ListenerReads,
           NEW n \in Nat, NEW p \in 1..3,
           Head(rx) = <<n, p>>, frame' = Beginning(n, p)
    PROVE  (InStep \/ Behind \/ NoNewline)'
<1>0. UNCHANGED framing /\ framing \in AllFramings /\ p \in 1..FrameLength
  BY ScaleLinkAssumption DEF ListenerReads, LinkTypes, FrameLength
<1>1. PICK q \in 2..4 : q = p + 1
  OBVIOUS
<1>2. q \in 1..FrameLength /\ p = q - 1
  BY <1>1 DEF FrameLength
<1>3. ByteAfter(<<n, p>>) = <<n, q>>
  BY <1>1 DEF ByteAfter, FrameLength
<1>4. CASE Follows(1)
  <2>1. ByteAt(1)' = <<n, q>>
    BY <1>0, <1>3, <1>4, NextByte
  <2>2. Place(ByteAt(1))' = q
    BY <2>1 DEF Place
  <2> QED BY <1>2, <2>1, <2>2 DEF InStep
<1>5. CASE ~Follows(1)
  <2>1. ByteAt(1)' = ByteAfter(<<n, q>>) /\ Gap(1)
    BY <1>0, <1>3, <1>5, NextByte
  <2>2. \A l \in Nat : l <= FrameLength => Calm(l)'
    BY <2>1, CalmAfterGap
  <2> QED BY <1>0, <1>2, <2>1, <2>2, FallsBehind
<1> QED BY <1>4, <1>5

LEMMA WholeWeight ==
    ASSUME NEW n \in Nat, NEW f, f[2] = <<n, 2>>, f[3] = <<n, 3>> PROVE WeightIn(f) # Mixed
<1>1. f[2][2] = 2 /\ f[2][1] = n
  OBVIOUS
<1>2. WeightIn(f) = n
  BY <1>1 DEF WeightIn
<1> QED BY <1>2 DEF Mixed

LEMMA ReadsInStep ==
    ASSUME Apart >= FrameLength, LinkTypes, StreamInv, ListenerReads, InStep,
           NEW n \in Nat, NEW p \in 1..FrameLength, Head(rx) = <<n, p>>
    PROVE  (InStep \/ Behind \/ NoNewline)' /\ (Accepted(Head(rx)) => WeightIn(Grown(Head(rx))) # Mixed)
<1> DEFINE b == <<n, p>>
<1>0. frame = Beginning(n, p - 1) /\ frame' = Kept(b) /\ FrameLength = 4
  <2>1. ByteAt(1) = b /\ Place(ByteAt(1)) = p
    BY NextByte
  <2>2. ByteAt(1)[1] = n
    BY <2>1
  <2>3. frame' = Kept(b)
    BY DEF ListenerReads
  <2> QED BY <2>1, <2>2, <2>3 DEF InStep, FrameLength
<1>1. Grown(b) = Beginning(n, p)
  <2>1. CASE framing = "header" /\ IsHeader(b)
    <3>1. p = 1
      BY <2>1 DEF IsHeader
    <3>2. Append(Beginning(n, 0), <<n, 1>>) = Beginning(n, 1)
      <4>1. PICK k \in 1..FrameLength : k = 1
        BY DEF FrameLength
      <4>2. k - 1 = 0
        BY <4>1
      <4> QED BY <4>1, <4>2, BeginningGrows
    <3>3. Append(<<>>, <<n, 1>>) = <<<<n, 1>>>>
      OBVIOUS
    <3> QED BY <2>1, <3>1, <3>2, <3>3, EmptyBeginning DEF Grown
  <2>2. CASE ~(framing = "header" /\ IsHeader(b))
    <3>1. Append(Beginning(n, p - 1), <<n, p>>) = Beginning(n, p)
      BY BeginningGrows
    <3>2. Grown(b) = Append(frame, b)
      BY <2>2 DEF Grown
    <3> QED BY <1>0, <3>1, <3>2
  <2> QED BY <2>1, <2>2
<1>2. Len(Grown(b)) = p /\ \A i \in 1..p : Grown(b)[i] = <<n, i>>
  <2>1. p \in 0..FrameLength
    BY <1>0
  <2> QED BY <1>1, <2>1, BeginningSeq
<1>3. Complete(b) <=> p = 4
  BY <1>0, <1>2 DEF Complete
<1>4. Accepted(b) => WeightIn(Grown(b)) # Mixed
  BY <1>2, <1>3, WholeWeight DEF Accepted
<1>5. CASE p = 4
  <2>1. frame' = <<>>
    BY <1>0, <1>3, <1>5 DEF Kept
  <2>2. Head(rx) = <<n, 4>>
    BY <1>5
  <2> QED BY <1>4, <2>1, <2>2, StartsOver
<1>6. CASE p \in 1..3
  <2>1. ~IsNewline(b)
    BY <1>0, <1>6 DEF IsNewline
  <2>2. frame' = Beginning(n, p)
    BY <1>0, <1>1, <1>3, <1>6, <2>1 DEF Kept
  <2> QED BY <1>4, <1>6, <2>2, GoesOn
<1> QED BY <1>0, <1>5, <1>6

LEMMA LenNat == ASSUME NEW B, NEW s \in Seq(B) PROVE Len(s) \in Nat
OBVIOUS

LEMMA LessThanFour == ASSUME NEW l \in Nat, NEW k \in 1..4, l < k PROVE l # 4
OBVIOUS

LEMMA Shorter == ASSUME NEW B, NEW s \in Seq(B), NEW k \in 1..4, Len(s) < k PROVE Len(s) # 4
BY LenNat, LessThanFour

LEMMA ReadsBehind ==
    ASSUME Apart >= FrameLength, LinkTypes, StreamInv, ListenerReads, Behind,
           NEW n \in Nat, NEW p \in 1..FrameLength, Head(rx) = <<n, p>>
    PROVE  (InStep \/ Behind \/ NoNewline)' /\ ~Accepted(Head(rx))
<1> DEFINE b == <<n, p>>
<1>0. /\ frame' = Kept(b) /\ FrameLength = 4 /\ Place(ByteAt(1)) = p
      /\ UNCHANGED framing /\ framing \in AllFramings
  BY NextByte, ScaleLinkAssumption DEF ListenerReads, LinkTypes, FrameLength
<1>1. p \in 1..4 /\ p >= 2 /\ frame \in Seq(Nat \X (1..FrameLength)) /\ Len(frame) < p - 1
  BY <1>0 DEF Behind
<1>2. Grown(b) = Append(frame, b)
  BY <1>1 DEF Grown, IsHeader
<1>3. Grown(b) \in Seq(Nat \X (1..FrameLength)) /\ Len(Grown(b)) < p
  <2>1. b \in Nat \X (1..FrameLength)
    OBVIOUS
  <2> HIDE DEF b
  <2> QED BY <1>1, <1>2, <2>1
<1>4. ~Complete(b) /\ ~Accepted(b)
  <2> HIDE DEF b
  <2>1. Len(Grown(b)) # 4
    <3>1. PICK s \in Seq(Nat \X (1..FrameLength)) : s = Grown(b) /\ Len(s) < p
      BY <1>3
    <3>2. Len(s) # 4
      BY <1>1, <3>1, Shorter
    <3> QED BY <3>1, <3>2
  <2> QED BY <1>0, <2>1 DEF Complete, Accepted
<1>5. CASE p = 4 /\ framing # "header"
  <2>1. frame' = <<>> /\ Head(rx) = <<n, 4>>
    BY <1>0, <1>5 DEF Kept, IsNewline
  <2> QED BY <1>4, <2>1, StartsOver
<1>6. CASE p = 4 /\ framing = "header"
  <2>1. frame' = Grown(b)
    BY <1>0, <1>4, <1>6 DEF Kept
  <2>2. Calm(2)
    <3>1. 6 - p = 2
      BY <1>6
    <3> QED BY <1>0, <1>6, <3>1 DEF Behind
  <2>3. Follows(1)
    BY <2>2, StreamRead DEF Calm
  <2>4. Calm(1)'
    BY <2>2, CalmRead
  <2>5. ByteAt(1)' = <<n + 1, 1>>
    BY <1>0, <1>6, <2>3, NextByte DEF ByteAfter
  <2>6. Place(ByteAt(1))' = 1
    BY <2>5 DEF Place
  <2>7. Len(frame') < 4 /\ frame' \in Seq(Nat \X (1..FrameLength))
    BY <1>3, <1>6, <2>1
  <2> QED BY <1>0, <1>4, <1>6, <2>4, <2>6, <2>7 DEF NoNewline
<1>7. CASE p < 4
  <2>1. frame' = Grown(b)
    BY <1>0, <1>4, <1>7 DEF Kept, IsNewline
  <2>2. PICK k \in 2..4 : k = IF framing = "header" THEN 6 - p ELSE 5 - p
    BY <1>1, <1>7
  <2>3. Calm(k)
    BY <1>0, <2>2 DEF Behind
  <2>4. Follows(1)
    BY <2>2, <2>3, StreamRead DEF Calm
  <2>5. PICK l \in Nat : l = k - 1 /\ l < k
    BY <2>2
  <2>6. Calm(l)'
    BY <2>2, <2>3, <2>5, CalmRead
  <2>7. PICK q \in 3..4 : q = p + 1
    BY <1>1, <1>7
  <2>8. ByteAt(1)' = <<n, q>>
    BY <1>0, <1>7, <2>4, <2>7, NextByte DEF ByteAfter
  <2>9. Place(ByteAt(1))' = q
    BY <2>7, <2>8 DEF Place
  <2>10. l = IF framing = "header" THEN 6 - q ELSE 5 - q
    BY <1>1, <2>2, <2>5, <2>7
  <2>11. Len(frame') < q - 1 /\ frame' \in Seq(Nat \X (1..FrameLength)) /\ q >= 2
    BY <1>3, <2>1, <2>7
  <2> QED BY <1>0, <1>4, <2>6, <2>9, <2>10, <2>11 DEF Behind
<1> QED BY <1>1, <1>5, <1>6, <1>7

LEMMA Appended ==
    ASSUME NEW B, NEW s \in Seq(B), NEW c \in B, NEW n \in Nat, n = Len(s)
    PROVE  Len(Append(s, c)) = n + 1 /\ \A i \in 1..n : Append(s, c)[i] = s[i]
OBVIOUS

LEMMA FourthByte ==
    ASSUME NEW B, NEW s \in Seq(B), NEW c \in B, Len(s) = 3
    PROVE  Len(Append(s, c)) = 4 /\ Append(s, c)[2] = s[2] /\ Append(s, c)[3] = s[3]
<1>1. PICK n \in Nat : n = 3
  OBVIOUS
<1>2. Len(Append(s, c)) = n + 1 /\ \A i \in 1..n : Append(s, c)[i] = s[i]
  BY <1>1, Appended
<1>3. 2 \in 1..n /\ 3 \in 1..n /\ n + 1 = 4
  BY <1>1
<1> QED BY <1>2, <1>3

LEMMA ReadsWithoutNewline ==
    ASSUME Apart >= FrameLength, LinkTypes, StreamInv, ListenerReads, NoNewline,
           NEW n \in Nat, NEW p \in 1..FrameLength, Head(rx) = <<n, p>>
    PROVE  (InStep \/ Behind \/ NoNewline)' /\ (Accepted(Head(rx)) => WeightIn(Grown(Head(rx))) # Mixed)
<1> DEFINE b == <<n, p>>
<1>0. /\ frame' = Kept(b) /\ FrameLength = 4 /\ p = 1
      /\ UNCHANGED framing /\ framing \in AllFramings
  <2>1. Place(ByteAt(1)) = p
    BY NextByte
  <2>2. frame' = Kept(b)
    BY DEF ListenerReads
  <2> QED BY <2>1, <2>2, ScaleLinkAssumption DEF NoNewline, ListenerReads, LinkTypes, FrameLength
<1>1. CASE framing = "header"
  <2>1. Grown(b) = <<b>>
    BY <1>0, <1>1 DEF Grown, IsHeader
  <2>2. ~Complete(b) /\ ~Accepted(b)
    <3>1. Len(<<b>>) = 1
      OBVIOUS
    <3> HIDE DEF b
    <3> QED BY <1>0, <2>1, <3>1 DEF Complete, Accepted
  <2>3. frame' = <<b>>
    BY <1>0, <1>1, <2>1, <2>2 DEF Kept
  <2>4. frame' = Beginning(n, 1)
    BY <1>0, <2>3 DEF Beginning
  <2>5. PICK o \in 1..3 : o = p
    BY <1>0
  <2>6. frame' = Beginning(n, o) /\ Head(rx) = <<n, o>>
    BY <1>0, <2>4, <2>5
  <2> QED BY <2>2, <2>6, GoesOn
<1>2. CASE framing # "header"
  <2>1. PICK m \in Nat : frame = Beginning(m, 3)
    BY <1>2 DEF NoNewline
  <2>2. PICK s \in Seq(Nat \X (1..FrameLength)) :
          s = frame /\ Len(s) = 3 /\ \A i \in 1..3 : s[i] = <<m, i>>
    <3>1. 3 \in 0..FrameLength
      BY <1>0
    <3> QED BY <2>1, <3>1, BeginningSeq
  <2>3. PICK c \in Nat \X (1..FrameLength) : c = b
    OBVIOUS
  <2>4. PICK g : g = Append(s, c)
    OBVIOUS
  <2>5. Len(g) = 4 /\ g[2] = <<m, 2>> /\ g[3] = <<m, 3>>
    <3>1. Len(Append(s, c)) = 4 /\ Append(s, c)[2] = s[2] /\ Append(s, c)[3] = s[3]
      BY <2>2, FourthByte
    <3> QED BY <2>2, <2>4, <3>1
  <2>6. Grown(b) = g
    BY <1>2, <2>2, <2>3, <2>4 DEF Grown
  <2>7. WeightIn(Grown(b)) # Mixed
    BY <2>5, <2>6, WholeWeight
  <2>8. frame' = <<>>
    BY <1>0, <2>5, <2>6 DEF Kept, Complete
  <2>9. Calm(4) /\ Follows(1)
    BY <1>2, StreamRead DEF NoNewline, Calm
  <2>10. Calm(3)'
    BY <2>9, CalmRead
  <2>11. ByteAt(1)' = <<n, 2>>
    BY <1>0, <2>9, NextByte DEF ByteAfter
  <2>12. Place(ByteAt(1))' = 2
    BY <2>11 DEF Place
  <2>13. Len(frame') = 0 /\ frame' \in Seq(Nat \X (1..FrameLength))
    BY <2>8
  <2>14. 5 - 2 = 3 /\ 2 - 1 = 1 /\ 0 < 1 /\ framing' # "header"
    BY <1>0, <1>2
  <2>15. Behind'
    BY <2>10, <2>12, <2>13, <2>14 DEF Behind
  <2> QED BY <2>7, <2>15
<1> QED BY <1>1, <1>2

LEMMA LinkInvReads ==
    ASSUME Apart >= FrameLength, LinkTypes, StreamInv, LinkInv, ListenerReads PROVE LinkInv'
<1>1. PICK n \in Nat, p \in 1..FrameLength : Head(rx) = <<n, p>>
  BY StreamRead
<1>2. (InStep \/ Behind \/ NoNewline)' /\ (Accepted(Head(rx)) => WeightIn(Grown(Head(rx))) # Mixed)
  BY <1>1, ReadsInStep, ReadsBehind, ReadsWithoutNewline DEF LinkInv
<1>3. reading' # Mixed /\ got' # Mixed
  BY <1>2 DEF LinkInv, ListenerReads
<1> QED BY <1>2, <1>3 DEF LinkInv

LEMMA LinkInvNext ==
    ASSUME Apart >= FrameLength, "polled" \in Framings => ~Late,
           LinkTypes, StreamInv, LinkInv, [ScaleLinkNext]_linkVars
    PROVE  StreamInv' /\ LinkInv'
<1>1. CASE ScaleSends
  BY <1>1, StreamInvSends, LinkInvSends
<1>2. CASE ByteLost
  BY <1>2, StreamInvLoses, LinkInvLoses
<1>3. CASE ListenerReads
  BY <1>3, StreamInvRead, LinkInvReads
<1>4. CASE ListenerAsks
  <2>1. framing = "polled" /\ rx = <<>> /\ rx' = <<>> /\ wire[2] = 0 /\ wire' = <<wire[1], 1>>
        /\ UNCHANGED <<framing, frame, since, reading, got>>
    BY <1>4 DEF ListenerAsks, LinkTypes
  <2>2. ByteAt(1) = wire /\ ByteAt(1)' = <<wire[1], 1>> /\ Len(rx) = 0 /\ Len(rx') = 0
    BY <2>1 DEF ByteAt
  <2>3. Place(ByteAt(1)) = 1 /\ Place(ByteAt(1))' = 1 /\ ByteAt(1)[1] = wire[1]
        /\ ByteAt(1)'[1] = wire[1]
    BY <2>1, <2>2 DEF Place
  <2>4. StreamInv'
    BY <2>2 DEF StreamInv
  <2>5. InStep => InStep'
    BY <2>1, <2>3 DEF InStep
  <2>6. ~Behind
    BY <2>3 DEF Behind
  <2>7. Calm(4) => Calm(4)'
    BY <2>1, <2>2 DEF Calm
  <2>8. NoNewline => NoNewline'
    BY <2>1, <2>3, <2>7 DEF NoNewline
  <2> QED BY <2>1, <2>4, <2>5, <2>6, <2>8 DEF LinkInv
<1>5. CASE ListenerEnds \/ WaitTakes \/ WaitReturns \/ UNCHANGED linkVars
  <2>1. UNCHANGED <<framing, wire, rx, frame, since, reading>> /\ got' \in {got, reading}
    BY <1>5 DEF ListenerEnds, WaitTakes, WaitReturns, linkVars
  <2>2. \A i : ByteAt(i)' = ByteAt(i)
    BY <2>1 DEF ByteAt
  <2>3. \A b : ByteAfter(b)' = ByteAfter(b)
    BY <2>1 DEF ByteAfter
  <2>4. \A i : (Follows(i)' <=> Follows(i)) /\ (Gap(i)' <=> Gap(i))
    BY <2>1, <2>2, <2>3 DEF Follows, Gap
  <2>5. \A k : Calm(k)' <=> Calm(k)
    BY <2>1, <2>4 DEF Calm
  <2>6. StreamInv'
    BY <2>1, <2>2, <2>3, <2>4 DEF StreamInv
  <2>7. InStep => InStep'
    BY <2>1, <2>2 DEF InStep, Place
  <2>8. Behind => Behind'
    BY <2>1, <2>2, <2>5 DEF Behind, Place
  <2>9. NoNewline => NoNewline'
    BY <2>1, <2>2, <2>5 DEF NoNewline, Place
  <2> QED BY <2>1, <2>6, <2>7, <2>8, <2>9 DEF LinkInv
<1> QED BY <1>1, <1>2, <1>3, <1>4, <1>5 DEF ScaleLinkNext

LEMMA LinkInit ==
    ASSUME Apart >= FrameLength, ScaleLinkInit PROVE LinkTypes /\ StreamInv /\ LinkInv
<1>1. /\ framing \in Framings /\ framing \in AllFramings /\ Apart \in Nat
      /\ rx = <<>> /\ frame = <<>> /\ since = 0 /\ reading = NoWeight /\ got = NoWeight
  BY ScaleLinkAssumption DEF ScaleLinkInit
<1>2. PICK p \in 0..FrameLength : wire = <<0, p>> /\ (p = 0 <=> framing = "polled")
  BY DEF ScaleLinkInit, FrameLength
<1>3. LinkTypes
  <2>1. rx \in Seq(Nat \X (1..FrameLength))
    BY <1>1
  <2>2. /\ listens \in {"flush", "window", "got"}
        /\ listens = "flush" => framing = "polled"
    BY DEF ScaleLinkInit
  <2> QED BY <1>1, <1>2, <2>1, <2>2 DEF LinkTypes
<1>4. Len(rx) = 0 /\ ByteAt(1) = <<0, p>>
  BY <1>1, <1>2 DEF ByteAt
<1>5. StreamInv
  BY <1>4 DEF StreamInv
<1>6. InStep \/ Behind
  <2>1. CASE p \in {0, 1}
    <3>1. Place(ByteAt(1)) - 1 = 0
      BY <1>4, <2>1 DEF Place
    <3>2. ByteAt(1)[1] = 0 /\ frame = Beginning(0, 0)
      BY <1>1, <1>4, EmptyBeginning
    <3> QED BY <3>1, <3>2 DEF InStep
  <2>2. CASE p \in 2..4
    <3>1. Place(ByteAt(1)) = p
      BY <1>4, <2>2 DEF Place
    <3>2. \A k \in Nat : k <= 4 => Calm(k)
      BY <1>1, <1>4 DEF Calm, FrameLength
    <3>3. PICK k \in Nat : k <= 4 /\ k = IF framing = "header" THEN 6 - p ELSE 5 - p
      BY <2>2
    <3>4. Len(frame) < p - 1 /\ frame \in Seq(Nat \X (1..FrameLength))
      BY <1>1, <2>2
    <3> QED BY <2>2, <3>1, <3>2, <3>3, <3>4 DEF Behind
  <2> QED BY <1>2, <2>1, <2>2 DEF FrameLength
<1> QED BY <1>1, <1>3, <1>5, <1>6 DEF LinkInv, NoWeight, Mixed

(* A weight a wait returns is that of one frame, for every driver, any size of the  *)
(* UART's buffer and any number of lost bytes, if no two are lost within the length  *)
(* of a frame and a polled scale answers in time (the listener tasks).             *)
THEOREM WholeCorrect ==
    ASSUME Apart >= FrameLength, "polled" \in Framings => ~Late
    PROVE  ScaleLinkSpec => []WholeFrames
<1>1. ScaleLinkInit => LinkTypes /\ StreamInv /\ LinkInv
  BY LinkInit
<1>2. LinkTypes /\ StreamInv /\ LinkInv /\ [ScaleLinkNext]_linkVars
        => (LinkTypes /\ StreamInv /\ LinkInv)'
  BY LinkTypesNext, LinkInvNext
<1>3. LinkInv => WholeFrames
  BY DEF LinkInv, WholeFrames
<1> QED BY <1>1, <1>2, <1>3, PTL DEF ScaleLinkSpec

-----------------------------------------------------------------------------
(* The log of errors (ErrorLog)                                             *)

(* A step around a ring of n places                                          *)
LEMMA Around ==
    ASSUME NEW n \in Nat \ {0}, NEW x \in 0..(n - 1), NEW y \in 0..n
    PROVE  (x + y) % n = IF x + y < n THEN x + y ELSE x + y - n
<1>1. CASE x + y < n
  BY <1>1
<1>2. CASE x + y >= n
  <2>1. (x + y) % n \in 0..(n - 1)
    OBVIOUS
  <2> QED BY <1>2
<1> QED BY <1>1, <1>2

LEMMA OneAround ==
    ASSUME NEW n \in Nat \ {0}, NEW x \in 0..(n - 1)
    PROVE  (x + 1) % n = IF x + 1 = n THEN 0 ELSE x + 1
<1>1. CASE x + 1 < n
  BY <1>1
<1>2. CASE x + 1 = n
  <2>1. (x + 1) % n \in 0..(n - 1)
    OBVIOUS
  <2> QED BY <1>2
<1> QED BY <1>1, <1>2

-----------------------------------------------------------------------------
(* The error log: while nobody crosses anybody, the ring holds what was reported  *)
(* last, from the place the next report goes to; one report may be under way.     *)
LogTypes ==
    /\ LogSize \in Nat \ {0}
    /\ errors \in [LogSlots -> Nat] /\ writeAt \in LogSlots /\ logged \in 0..LogSize
    /\ report \in [Reporters -> [pc : {"rest", "store", "advance", "count"}, code : Nat]]
    /\ \A t \in Reporters : report[t].pc = "rest" => report[t] = AtRest
    /\ reader \in [pc : {"rest", "read", "clear"}, count : Nat, read : Seq(Nat)]
    /\ (reader.pc = "rest" => reader = NoReader)
    /\ recent \in Seq(Nat)
    /\ calls \in [reports : Nat, requests : Nat]

LEMMA CallsGrow ==
    ASSUME NEW k \in [reports : Nat, requests : Nat]
    PROVE  /\ [k EXCEPT !.reports = k.reports + 1] \in [reports : Nat, requests : Nat]
           /\ [k EXCEPT !.requests = k.requests + 1] \in [reports : Nat, requests : Nat]
OBVIOUS

Following(w) == IF w + 1 = LogSize THEN 0 ELSE w + 1

(* The place of the i-th of the newest, from 0, when the next goes to w           *)
RingPlace(w, i) ==
    IF logged < LogSize THEN i ELSE IF w + i < LogSize THEN w + i ELSE w + i - LogSize

Ring(w, from) ==
    /\ logged < LogSize => w = logged
    /\ \A i \in from..(logged - 1) : errors[RingPlace(w, i)] = recent[i + 1]

(* While a report has stored its entry, the oldest may be gone.                *)
Left(w) == Ring(w, IF logged < LogSize THEN 0 ELSE 1)

Ready ==
    /\ reader.pc = "clear" => logged = 0
    /\ (\A t \in Reporters : report[t] = AtRest) /\ reader.pc # "clear" => Ring(writeAt, 0)
    /\ reader.pc = "read" =>
          /\ reader.count = logged /\ Len(reader.read) <= logged
          /\ \A i \in 1..Len(reader.read) : reader.read[i] = recent[i]

Under(t) ==
    /\ reader = NoReader /\ \A u \in Reporters : u # t => report[u] = AtRest
    /\ report[t].pc = "store" => Ring(writeAt, 0)
    /\ report[t].pc = "advance" => Left(writeAt) /\ errors[writeAt] = report[t].code
    /\ report[t].pc = "count" =>
          \E w \in LogSlots : /\ writeAt = Following(w) /\ Left(w)
                              /\ errors[w] = report[t].code

LogInv ==
    ~crossed =>
       /\ Len(recent) = logged
       /\ Ready
       /\ \A t \in Reporters : report[t] # AtRest => Under(t)

LEMMA LogTypesNext == LogTypes /\ [ErrorLogNext]_logVars => LogTypes'
<1> SUFFICES ASSUME LogTypes, [ErrorLogNext]_logVars PROVE LogTypes'
  OBVIOUS
<1> USE DEF LogTypes, LogSlots
<1>1. ASSUME NEW t \in Reporters, ReportBegins(t) PROVE LogTypes'
  <2>1. report' \in [Reporters -> [pc : {"rest", "store", "advance", "count"}, code : Nat]]
        /\ \A u \in Reporters : report'[u].pc = "rest" => report'[u] = AtRest
    BY <1>1 DEF ReportBegins
  <2>2. calls' \in [reports : Nat, requests : Nat]
    BY <1>1, CallsGrow DEF ReportBegins
  <2> QED BY <1>1, <2>1, <2>2 DEF ReportBegins
<1>2. ASSUME NEW t \in Reporters, ReportStores(t) PROVE LogTypes'
  BY <1>2 DEF ReportStores, At
<1>3. ASSUME NEW t \in Reporters, ReportAdvances(t) PROVE LogTypes'
  <2>1. writeAt' \in LogSlots
    BY <1>3, Around DEF ReportAdvances
  <2> QED BY <1>3, <2>1 DEF ReportAdvances, At
<1>4. ASSUME NEW t \in Reporters, ReportCounts(t) PROVE LogTypes'
  <2>1. report' \in [Reporters -> [pc : {"rest", "store", "advance", "count"}, code : Nat]]
        /\ \A u \in Reporters : report'[u].pc = "rest" => report'[u] = AtRest
    BY <1>4 DEF ReportCounts, AtRest
  <2>2. recent' \in Seq(Nat)
    <3>1. report[t].code \in Nat
      BY <1>4
    <3>2. PICK all : all = Append(recent, report[t].code)
      OBVIOUS
    <3>3. all \in Seq(Nat) /\ Len(all) = Len(recent) + 1
      BY <3>1, <3>2, AppendProperties
    <3>4. Tail(all) \in Seq(Nat)
      BY <3>3
    <3>5. recent' \in {all, Tail(all)}
      BY <1>4, <3>2 DEF ReportCounts
    <3> QED BY <3>3, <3>4, <3>5
  <2> QED BY <1>4, <2>1, <2>2 DEF ReportCounts
<1>5. CASE ReadBegins
  <2>1. reader' \in [pc : {"rest", "read", "clear"}, count : Nat, read : Seq(Nat)] /\ reader'.pc = "read"
    BY <1>5 DEF ReadBegins
  <2>2. calls' \in [reports : Nat, requests : Nat]
    BY <1>5, CallsGrow DEF ReadBegins
  <2> QED BY <1>5, <2>1, <2>2 DEF ReadBegins
<1>6. CASE ReadOne
  <2>1. EntryAt(Len(reader.read)) \in Nat
    <3>1. PICK i \in Nat : i = Len(reader.read)
      OBVIOUS
    <3>2. CASE i < logged /\ logged = LogSize
      <4>1. (writeAt + i) % LogSize \in LogSlots
        BY <3>2, Around
      <4> QED BY <3>1, <3>2, <4>1 DEF EntryAt
    <3>3. CASE ~(i < logged /\ logged = LogSize)
      BY <3>1, <3>3 DEF EntryAt
    <3> QED BY <3>2, <3>3
  <2>2. Append(reader.read, EntryAt(Len(reader.read))) \in Seq(Nat)
    BY <2>1, AppendProperties
  <2>3. reader' \in [pc : {"rest", "read", "clear"}, count : Nat, read : Seq(Nat)] /\ reader'.pc = "read"
    BY <1>6, <2>2 DEF ReadOne
  <2> QED BY <1>6, <2>3 DEF ReadOne
<1>7. CASE ReadEnds
  BY <1>7 DEF ReadEnds, NoReader
<1>8. CASE ClearBegins
  <2>1. reader' \in [pc : {"rest", "read", "clear"}, count : Nat, read : Seq(Nat)] /\ reader'.pc = "clear"
    BY <1>8 DEF ClearBegins, NoReader
  <2>2. calls' \in [reports : Nat, requests : Nat]
    BY <1>8, CallsGrow DEF ClearBegins
  <2> QED BY <1>8, <2>1, <2>2 DEF ClearBegins
<1>9. CASE ClearEnds
  BY <1>9 DEF ClearEnds, NoReader
<1>10. CASE UNCHANGED logVars
  BY <1>10 DEF logVars
<1> QED BY <1>1, <1>2, <1>3, <1>4, <1>5, <1>6, <1>7, <1>8, <1>9, <1>10 DEF ErrorLogNext

LEMMA AloneOf ==
    ASSUME LogTypes, LogInv, ~crossed, reader.pc # "rest"
    PROVE  \A t \in Reporters : report[t] = AtRest
<1> SUFFICES ASSUME NEW t \in Reporters, report[t] # AtRest PROVE FALSE
  OBVIOUS
<1>1. Under(t)
  BY DEF LogInv
<1>2. reader = NoReader
  BY <1>1 DEF Under
<1> QED BY <1>2 DEF NoReader

LEMMA RingKept ==
    ASSUME NEW w, NEW from, Ring(w, from), UNCHANGED <<errors, logged, recent>>
    PROVE  Ring(w, from)'
BY DEF Ring, RingPlace

LEMMA InvBegins ==
    ASSUME LogTypes, LogInv, NEW t \in Reporters, ReportBegins(t) PROVE LogInv'
<1> SUFFICES ASSUME ~crossed' PROVE LogInv'
  BY DEF LogInv
<1>1. ~crossed /\ Alone /\ UNCHANGED <<errors, writeAt, logged, reader, recent>>
  BY DEF ReportBegins
<1>2. /\ report'[t].pc = "store" /\ \A u \in Reporters : u # t => report'[u] = AtRest
      /\ report'[t] # AtRest
  BY <1>1 DEF ReportBegins, Alone, LogTypes, AtRest
<1>3. Ring(writeAt, 0)'
  BY <1>1, RingKept DEF LogInv, Ready, Alone, NoReader
<1>4. Under(t)'
  BY <1>1, <1>2, <1>3 DEF Under, Alone, NoReader, AtRest
<1>5. Ready'
  BY <1>1, <1>2 DEF Ready, LogInv, Alone, NoReader, AtRest
<1> QED BY <1>1, <1>2, <1>4, <1>5 DEF LogInv, AtRest

(* What is known of a report under way                                       *)
LEMMA UnderWay ==
    ASSUME LogTypes, LogInv, ~crossed, NEW t \in Reporters, report[t].pc # "rest"
    PROVE  Under(t) /\ Len(recent) = logged /\ report[t] # AtRest /\ reader = NoReader
BY DEF LogInv, Under, AtRest

LEMMA UnderLeft ==
    ASSUME NEW t \in Reporters, Under(t)', report'[t] # AtRest, reader' = NoReader,
           Len(recent') = logged'
    PROVE  LogInv'
<1>1. \A u \in Reporters : report'[u] # AtRest => Under(u)'
  BY DEF Under, AtRest
<1>2. Ready'
  BY DEF Ready, NoReader, AtRest
<1> QED BY <1>1, <1>2 DEF LogInv, AtRest

LEMMA InvStores ==
    ASSUME LogTypes, LogInv, NEW t \in Reporters, ReportStores(t) PROVE LogInv'
<1> SUFFICES ASSUME ~crossed' PROVE LogInv'
  BY DEF LogInv
<1>1. ~crossed /\ UNCHANGED <<writeAt, logged, reader, recent>> /\ report[t].pc = "store"
  BY DEF ReportStores, At
<1>2. /\ report'[t].pc = "advance" /\ report'[t].code = report[t].code
      /\ \A u \in Reporters : u # t => report'[u] = report[u]
  BY DEF ReportStores, At, LogTypes
<1>3. errors' = [errors EXCEPT ![writeAt] = report[t].code]
  BY DEF ReportStores
<1>4. Under(t) /\ Len(recent) = logged /\ reader = NoReader /\ Ring(writeAt, 0)
  BY <1>1, UnderWay DEF Under
<1>5. Left(writeAt)'
  <2>1. CASE logged < LogSize
    <3>1. \A i \in 0..(logged - 1) : i \in LogSlots /\ i # writeAt
      BY <1>4, <2>1 DEF Ring, LogTypes, LogSlots
    <3> QED BY <1>1, <1>3, <1>4, <2>1, <3>1 DEF Left, Ring, RingPlace, LogTypes
  <2>2. CASE logged = LogSize
    <3>1. \A i \in 1..(logged - 1) : RingPlace(writeAt, i) \in LogSlots /\ RingPlace(writeAt, i) # writeAt
      BY <2>2 DEF RingPlace, LogTypes, LogSlots
    <3>2. \A i \in 1..(logged - 1) : errors'[RingPlace(writeAt, i)] = recent[i + 1]
      BY <1>3, <1>4, <2>2, <3>1 DEF Ring, LogTypes
    <3> QED BY <1>1, <2>2, <3>2 DEF Left, Ring, RingPlace, LogTypes
  <2> QED BY <2>1, <2>2 DEF LogTypes
<1>6. errors'[writeAt'] = report'[t].code
  BY <1>1, <1>2, <1>3 DEF LogTypes
<1>7. Under(t)'
  BY <1>1, <1>2, <1>4, <1>5, <1>6 DEF Under, NoReader, AtRest
<1> QED BY <1>1, <1>2, <1>4, <1>7, UnderLeft DEF AtRest

LEMMA InvAdvances ==
    ASSUME LogTypes, LogInv, NEW t \in Reporters, ReportAdvances(t) PROVE LogInv'
<1> SUFFICES ASSUME ~crossed' PROVE LogInv'
  BY DEF LogInv
<1>1. ~crossed /\ UNCHANGED <<errors, logged, reader, recent>> /\ report[t].pc = "advance"
  BY DEF ReportAdvances, At
<1>2. /\ report'[t].pc = "count" /\ report'[t].code = report[t].code
      /\ \A u \in Reporters : u # t => report'[u] = report[u]
  BY DEF ReportAdvances, At, LogTypes
<1>3. writeAt' = Following(writeAt)
  BY OneAround DEF ReportAdvances, Following, LogTypes, LogSlots
<1>4. Under(t) /\ Len(recent) = logged /\ reader = NoReader
      /\ Left(writeAt) /\ errors[writeAt] = report[t].code
  BY <1>1, UnderWay DEF Under
<1>5. Under(t)'
  <2>1. PICK w \in LogSlots : w = writeAt
    BY DEF LogTypes
  <2>2. Left(w)'
    BY <1>1, <1>4, <2>1 DEF Left, Ring, RingPlace
  <2>3. writeAt' = Following(w)' /\ Left(w)' /\ errors'[w] = report'[t].code
    BY <1>1, <1>2, <1>3, <1>4, <2>1, <2>2 DEF Following
  <2> QED BY <1>1, <1>2, <1>4, <2>3 DEF Under, NoReader, AtRest, Following
<1> QED BY <1>1, <1>2, <1>4, <1>5, UnderLeft DEF AtRest

LEMMA LogAppended ==
    ASSUME NEW s \in Seq(Nat), NEW c \in Nat, NEW a, a = Append(s, c)
    PROVE  /\ a \in Seq(Nat) /\ Len(a) = Len(s) + 1 /\ a[Len(s) + 1] = c
           /\ \A i \in 1..Len(s) : a[i] = s[i]
           /\ Tail(a) \in Seq(Nat) /\ Len(Tail(a)) = Len(s)
           /\ \A i \in 1..Len(s) : Tail(a)[i] = a[i + 1]
<1>1. a \in Seq(Nat) /\ Len(a) = Len(s) + 1 /\ a[Len(s) + 1] = c
      /\ \A i \in 1..Len(s) : a[i] = s[i]
  BY AppendProperties
<1>2. a # <<>>
  BY <1>1
<1>3. /\ Tail(a) \in Seq(Nat) /\ Len(Tail(a)) = Len(a) - 1
      /\ \A i \in 1..Len(Tail(a)) : Tail(a)[i] = a[i + 1]
  BY <1>1, <1>2, HeadTailProperties
<1> QED BY <1>1, <1>3

LEMMA InvCounts ==
    ASSUME LogTypes, LogInv, NEW t \in Reporters, ReportCounts(t) PROVE LogInv'
<1> SUFFICES ASSUME ~crossed' PROVE LogInv'
  BY DEF LogInv
<1>1. ~crossed /\ UNCHANGED <<errors, writeAt, reader>> /\ report[t].pc = "count"
  BY DEF ReportCounts
<1>2. Under(t) /\ Len(recent) = logged /\ reader = NoReader
  BY <1>1, UnderWay
<1>3. \A u \in Reporters : report'[u] = AtRest
  BY <1>2 DEF ReportCounts, Under, LogTypes
<1>4. PICK w \in LogSlots : writeAt = Following(w) /\ Left(w) /\ errors[w] = report[t].code
  BY <1>1, <1>2 DEF Under
<1>5. PICK code \in Nat : code = report[t].code
  BY DEF LogTypes
<1>6. PICK all : all = Append(recent, code)
  OBVIOUS
<1>7. /\ all \in Seq(Nat) /\ Len(all) = logged + 1 /\ all[logged + 1] = code
      /\ \A i \in 1..logged : all[i] = recent[i]
      /\ Len(Tail(all)) = logged /\ \A i \in 1..logged : Tail(all)[i] = all[i + 1]
  <2>1. recent \in Seq(Nat)
    BY DEF LogTypes
  <2>2. /\ all \in Seq(Nat) /\ Len(all) = Len(recent) + 1 /\ all[Len(recent) + 1] = code
        /\ \A i \in 1..Len(recent) : all[i] = recent[i]
        /\ Len(Tail(all)) = Len(recent)
        /\ \A i \in 1..Len(recent) : Tail(all)[i] = all[i + 1]
    BY <1>5, <1>6, <2>1, LogAppended
  <2> QED BY <1>2, <2>2
<1>8. LogSize \in Nat \ {0} /\ logged \in 0..LogSize /\ w \in 0..(LogSize - 1)
  BY <1>4 DEF LogTypes, LogSlots
<1>9. CASE logged < LogSize
  <2>1. logged' = logged + 1 /\ recent' = all
    BY <1>1, <1>5, <1>6, <1>7, <1>8, <1>9 DEF ReportCounts
  <2>2. w = logged /\ \A i \in 0..(logged - 1) : errors[i] = recent[i + 1]
    BY <1>4, <1>9 DEF Left, Ring, RingPlace
  <2>3. \A i \in 0..logged : errors[i] = all[i + 1]
    <3>1. ASSUME NEW i \in 0..(logged - 1) PROVE errors[i] = all[i + 1]
      <4>1. i + 1 \in 1..logged
        BY <1>8
      <4> QED BY <1>7, <2>2, <4>1
    <3>2. errors[logged] = all[logged + 1]
      BY <1>4, <1>5, <1>7, <2>2
    <3> QED BY <1>8, <3>1, <3>2
  <2>4. logged' < LogSize => writeAt = logged'
    BY <1>4, <1>8, <2>1, <2>2 DEF Following
  <2>5. logged' = LogSize => writeAt = 0
    BY <1>4, <1>8, <2>1, <2>2 DEF Following
  <2>6. Ring(writeAt, 0)'
    <3>1. ASSUME NEW i \in 0..logged PROVE RingPlace(writeAt, i)' = i
      <4>1. CASE logged' < LogSize
        BY <4>1 DEF RingPlace
      <4>2. CASE logged' = LogSize
        BY <1>1, <1>8, <2>1, <2>5, <4>2 DEF RingPlace
      <4> QED BY <1>8, <1>9, <2>1, <4>1, <4>2
    <3>2. \A i \in 0..(logged' - 1) : i \in 0..logged
      BY <1>8, <2>1
    <3>3. \A i \in 0..(logged' - 1) : errors'[RingPlace(writeAt, i)'] = recent'[i + 1]
      BY <1>1, <2>1, <2>3, <3>1, <3>2
    <3>4. logged' < LogSize => writeAt' = logged'
      BY <1>1, <2>4
    <3> QED BY <3>3, <3>4 DEF Ring
  <2>7. Len(recent') = logged'
    BY <1>7, <2>1
  <2> QED BY <1>1, <1>2, <1>3, <2>6, <2>7 DEF LogInv, Ready, NoReader
<1>10. CASE logged = LogSize
  <2>1. logged' = LogSize /\ recent' = Tail(all)
    BY <1>1, <1>5, <1>6, <1>7, <1>8, <1>10 DEF ReportCounts
  <2>2. \A i \in 1..(LogSize - 1) :
           errors[IF w + i < LogSize THEN w + i ELSE w + i - LogSize] = recent[i + 1]
    BY <1>4, <1>8, <1>10 DEF Left, Ring, RingPlace
  <2>3. ASSUME NEW i \in 0..(LogSize - 1)
        PROVE  errors[IF writeAt + i < LogSize THEN writeAt + i ELSE writeAt + i - LogSize]
                 = Tail(all)[i + 1]
    <3>1. Tail(all)[i + 1] = all[i + 2]
      <4>1. i + 1 \in 1..logged /\ (i + 1) + 1 = i + 2
        BY <1>8, <1>10
      <4> QED BY <1>7, <4>1
    <3>2. CASE i = LogSize - 1
      BY <1>4, <1>5, <1>7, <1>8, <1>10, <3>1, <3>2 DEF Following
    <3>3. CASE i < LogSize - 1
      <4>1. i + 1 \in 1..(LogSize - 1) /\ i + 2 \in 1..logged /\ (i + 1) + 1 = i + 2
        BY <1>8, <1>10, <3>3
      <4>2. all[i + 2] = recent[i + 2]
        BY <1>7, <4>1
      <4>3. (IF writeAt + i < LogSize THEN writeAt + i ELSE writeAt + i - LogSize)
             = IF w + (i + 1) < LogSize THEN w + (i + 1) ELSE w + (i + 1) - LogSize
        BY <1>4, <1>8, <3>3 DEF Following
      <4> QED BY <2>2, <3>1, <4>1, <4>2, <4>3
    <3>4. i = LogSize - 1 \/ i < LogSize - 1
      BY <1>8
    <3> QED BY <3>2, <3>3, <3>4
  <2>4. Ring(writeAt, 0)'
    <3>1. ~(logged' < LogSize) /\ \A i \in 0..(logged' - 1) : i \in 0..(LogSize - 1)
      BY <1>8, <2>1
    <3>2. \A i \in 0..(logged' - 1) : errors'[RingPlace(writeAt, i)'] = recent'[i + 1]
      BY <1>1, <2>1, <2>3, <3>1 DEF RingPlace
    <3> QED BY <3>1, <3>2 DEF Ring
  <2>5. Len(recent') = logged'
    BY <1>7, <1>10, <2>1
  <2> QED BY <1>1, <1>2, <1>3, <2>4, <2>5 DEF LogInv, Ready, NoReader
<1> QED BY <1>8, <1>9, <1>10

LEMMA InvReadBegins == ASSUME LogTypes, LogInv, ReadBegins PROVE LogInv'
<1> SUFFICES ASSUME ~crossed' PROVE LogInv'
  BY DEF LogInv
<1>1. ~crossed /\ Alone /\ UNCHANGED <<errors, writeAt, logged, report, recent>>
      /\ reader' = [pc |-> "read", count |-> logged, read |-> <<>>]
  BY DEF ReadBegins
<1>2. Ring(writeAt, 0)'
  BY <1>1, RingKept DEF LogInv, Ready, Alone, NoReader
<1>3. reader'.pc = "read" /\ reader'.count = logged /\ Len(reader'.read) = 0
  BY <1>1
<1>4. Ready'
  BY <1>1, <1>2, <1>3 DEF Ready, LogTypes
<1> QED BY <1>1, <1>4 DEF LogInv, Alone, AtRest

(* error_get_at returns the newest-but-so-many of the log nobody disturbs.    *)
LEMMA ReadsTheRing ==
    ASSUME LogTypes, Ring(writeAt, 0), NEW i \in Nat, i < logged
    PROVE  EntryAt(i) = recent[i + 1]
<1>1. LogSize \in Nat \ {0} /\ logged \in 0..LogSize /\ writeAt \in 0..(LogSize - 1)
  BY DEF LogTypes, LogSlots
<1>2. i \in 0..(logged - 1)
  BY <1>1
<1>3. EntryAt(i) = errors[RingPlace(writeAt, i)]
  <2>1. CASE logged < LogSize
    BY <1>1, <2>1 DEF EntryAt, RingPlace
  <2>2. CASE logged = LogSize
    <3>1. i \in 0..LogSize
      BY <1>1, <1>2
    <3>2. (writeAt + i) % LogSize
            = IF writeAt + i < LogSize THEN writeAt + i ELSE writeAt + i - LogSize
      BY <1>1, <3>1, Around
    <3> QED BY <1>1, <2>2, <3>2 DEF EntryAt, RingPlace
  <2> QED BY <1>1, <2>1, <2>2
<1> QED BY <1>2, <1>3 DEF Ring

LEMMA InvReadOne == ASSUME LogTypes, LogInv, ReadOne PROVE LogInv'
<1> SUFFICES ASSUME ~crossed' PROVE LogInv'
  BY DEF LogInv
<1>1. ~crossed /\ UNCHANGED <<errors, writeAt, logged, report, recent>>
      /\ reader.pc = "read" /\ Len(reader.read) < reader.count
  BY DEF ReadOne
<1>2. \A t \in Reporters : report[t] = AtRest
  BY <1>1, AloneOf
<1>3. Ring(writeAt, 0) /\ reader.count = logged /\ Len(reader.read) <= logged
      /\ \A i \in 1..Len(reader.read) : reader.read[i] = recent[i]
  BY <1>1, <1>2 DEF LogInv, Ready
<1>4. PICK n \in Nat : n = Len(reader.read)
  BY DEF LogTypes
<1>5. PICK c : c = EntryAt(n)
  OBVIOUS
<1>6. c = recent[n + 1]
  BY <1>1, <1>3, <1>4, <1>5, ReadsTheRing
<1>7. c \in Nat
  <2>1. n + 1 \in 1..Len(recent)
    BY <1>1, <1>3, <1>4 DEF LogInv, LogTypes
  <2> QED BY <1>6, <2>1 DEF LogTypes
<1>8. PICK s \in Seq(Nat) : s = reader.read
  BY DEF LogTypes
<1>9. reader'.read = Append(s, c) /\ reader'.pc = "read" /\ reader'.count = logged
  BY <1>1, <1>3, <1>4, <1>5, <1>8 DEF ReadOne, LogTypes
<1>10. /\ Len(reader'.read) = n + 1 /\ reader'.read[n + 1] = c
       /\ \A i \in 1..n : reader'.read[i] = s[i]
  BY <1>4, <1>7, <1>8, <1>9, AppendProperties
<1>11. \A i \in 1..Len(reader'.read) : reader'.read[i] = recent[i]
  BY <1>3, <1>4, <1>6, <1>8, <1>10
<1>12. n + 1 <= logged
  BY <1>1, <1>3, <1>4 DEF LogTypes
<1>13. Ring(writeAt, 0)'
  BY <1>1, <1>3, RingKept
<1>14. Ready'
  BY <1>1, <1>9, <1>10, <1>11, <1>12, <1>13 DEF Ready
<1> QED BY <1>1, <1>2, <1>14 DEF LogInv, AtRest

LEMMA InvReadEnds == ASSUME LogTypes, LogInv, ReadEnds PROVE LogInv'
<1> SUFFICES ASSUME ~crossed' PROVE LogInv'
  BY DEF LogInv
<1>1. ~crossed /\ UNCHANGED <<errors, writeAt, logged, report, recent>>
      /\ reader.pc = "read" /\ reader' = NoReader
  BY DEF ReadEnds
<1>2. \A t \in Reporters : report[t] = AtRest
  BY <1>1, AloneOf
<1>3. Ring(writeAt, 0)'
  BY <1>1, <1>2, RingKept DEF LogInv, Ready
<1> QED BY <1>1, <1>2, <1>3 DEF LogInv, Ready, NoReader, AtRest

LEMMA InvClearBegins == ASSUME LogTypes, LogInv, ClearBegins PROVE LogInv'
<1> SUFFICES ASSUME ~crossed' PROVE LogInv'
  BY DEF LogInv
<1>1. Alone /\ report' = report /\ logged' = 0 /\ recent' = <<>> /\ reader'.pc = "clear"
  BY DEF ClearBegins, NoReader
<1> QED BY <1>1 DEF LogInv, Ready, Alone, AtRest

LEMMA InvClearEnds == ASSUME LogTypes, LogInv, ClearEnds PROVE LogInv'
<1> SUFFICES ASSUME ~crossed' PROVE LogInv'
  BY DEF LogInv
<1>1. ~crossed /\ UNCHANGED <<errors, logged, report, recent>>
      /\ reader.pc = "clear" /\ reader' = NoReader /\ writeAt' = 0
  BY DEF ClearEnds
<1>2. \A t \in Reporters : report[t] = AtRest
  BY <1>1, AloneOf
<1>3. logged' = 0
  BY <1>1 DEF LogInv, Ready
<1>4. Ring(writeAt, 0)'
  BY <1>1, <1>3 DEF Ring
<1> QED BY <1>1, <1>2, <1>4 DEF LogInv, Ready, NoReader, AtRest

LEMMA LogInvNext == LogTypes /\ LogInv /\ [ErrorLogNext]_logVars => LogInv'
<1> SUFFICES ASSUME LogTypes, LogInv, [ErrorLogNext]_logVars PROVE LogInv'
  OBVIOUS
<1>1. CASE UNCHANGED logVars
  BY <1>1 DEF logVars, LogInv, Ready, Under, Left, Ring, RingPlace, Following, LogSlots
<1> QED BY <1>1, InvBegins, InvStores, InvAdvances, InvCounts, InvReadBegins, InvReadOne,
           InvReadEnds, InvClearBegins, InvClearEnds DEF ErrorLogNext

LEMMA LogAlways == ErrorLogSpec => [](LogTypes /\ LogInv)
<1>1. ErrorLogInit => LogTypes /\ LogInv
  <2> SUFFICES ASSUME ErrorLogInit PROVE LogTypes /\ LogInv
    OBVIOUS
  <2>1. LogTypes
    BY ErrorLogAssumption DEF ErrorLogInit, LogTypes, LogSlots, AtRest, NoReader
  <2>2. LogInv
    BY ErrorLogAssumption DEF ErrorLogInit, LogInv, Ready, Ring, NoReader
  <2> QED BY <2>1, <2>2
<1> QED BY <1>1, LogTypesNext, LogInvNext, PTL DEF ErrorLogSpec

(* However tasks report and a page reads and clears: a page that asks is shown  *)
(* the last errors since the log was cleared, oldest first (report_error,        *)
(* error_get_at and error_clear_last), while nobody was at the log together.      *)
THEOREM LatestCorrect == ErrorLogSpec => []ShowsTheLatest
<1>1. LogTypes /\ LogInv => ShowsTheLatest
  <2> SUFFICES ASSUME LogTypes, LogInv, ~crossed, reader.pc = "read",
                      Len(reader.read) = reader.count
               PROVE  reader.read = recent
    BY DEF ShowsTheLatest
  <2>1. PICK s \in Seq(Nat) : s = reader.read
    BY DEF LogTypes
  <2>2. PICK r \in Seq(Nat) : r = recent
    BY DEF LogTypes
  <2>3. Len(s) = Len(r) /\ \A i \in 1..Len(s) : s[i] = r[i]
    BY <2>1, <2>2 DEF LogInv, Ready
  <2>4. s = r
    BY <2>3, SeqEqual
  <2> QED BY <2>1, <2>2, <2>4
<1> QED BY <1>1, LogAlways, PTL
=============================================================================
