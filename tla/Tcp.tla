-------------------------------- MODULE Tcp --------------------------------
(***************************************************************************)
(* TCP (net/tcp.c): a connection between two hosts that both run it, "A"   *)
(* that connects and "B" that listens, over a network that loses, repeats  *)
(* and reorders segments.  Sequence numbers wrap at M.                     *)
(*                                                                         *)
(* A byte's contents are its number in its stream.  The congestion window  *)
(* is one of Cwnds at every call of tcp_output, a fast retransmission      *)
(* (three duplicate ACKs, SACK's holes) may come with any ACK while        *)
(* something is unacknowledged, and the timer may run out at any time it   *)
(* is on: what they are computed from is left out.                         *)
(***************************************************************************)
EXTENDS Integers, FiniteSets, SequencesExt

CONSTANTS
    M,              \* sequence numbers are below M
    Iss,            \* each host's initial sequence number
    Bytes,          \* bound: bytes a host's app sends
    MSS,            \* bytes in a segment
    Rbuf, Sbuf,     \* RBUF_SIZE, SBUF_SIZE
    OooMax,         \* OOO_MAX
    Cwnds,          \* congestion windows
    SynRetries, MaxRetries,
    MaxNet,         \* bound: segments in the network
    MaxFaults,      \* bound: segments it loses or delivers twice
    Aborters,       \* hosts whose app may abort
    Prompt          \* BOOLEAN: timers run out only when nothing is under way

Hosts == {"A", "B"}
Peer(h) == IF h = "A" THEN "B" ELSE "A"

\* assumed by the modules that give the constants their values
TcpAssumption ==
    /\ Iss \in [Hosts -> 0..(M - 1)] /\ Bytes \in [Hosts -> Nat]
    /\ \A h \in Hosts : Bytes[h] + Rbuf + 3 < M \div 2
    /\ MSS \in Nat \ {0} /\ Rbuf >= MSS /\ Sbuf >= 1 /\ OooMax \in Nat
    /\ Cwnds \subseteq Nat /\ \A w \in Cwnds : w >= MSS
    /\ Prompt \in BOOLEAN /\ Aborters \subseteq Hosts

VARIABLES
    conn,           \* each host's connection
    net,            \* the segments under way
    listening,      \* B's listener is there
    opened,         \* a connection was made for it
    faults,         \* segments lost or delivered twice
    total, taken    \* bytes the app has queued; bytes of the peer's that deliver has taken

vars == <<conn, net, listening, opened, faults, total, taken>>

-----------------------------------------------------------------------------
(* Sequence numbers: SEQ_LT and the others *)

Add(a, n) == (a + n) % M
Dist(a, b) == (a - b + M) % M
LT(a, b) == Dist(a, b) >= M \div 2
LEQ(a, b) == a = b \/ LT(a, b)

NoConn == [st |-> "NONE", una |-> 0, nxt |-> 0, max |-> 0, wnd |-> 0, wl1 |-> 0, wl2 |-> 0,
           sb |-> <<>>, finPending |-> FALSE, finSent |-> FALSE, finSeq |-> 0,
           rcv |-> 0, rb |-> <<>>, ooo |-> <<>>, finRcvd |-> FALSE,
           timer |-> FALSE, retries |-> 0, ackPending |-> FALSE, unacked |-> 0, adv |-> 0,
           closed |-> FALSE, connecting |-> FALSE, listener |-> FALSE, err |-> "", took |-> 0, out |-> {}]

\* conn_free; err stays, for the properties
Freed(err, out) == [NoConn EXCEPT !.err = err, !.out = out]

\* adv_window
AdvWindow(c) == Rbuf - Len(c.rb)

-----------------------------------------------------------------------------
(* Sending *)

\* send_seg: out gets the segment
SendSeg(h, c, seq, flags, data) ==
    LET s == [to |-> Peer(h), seq |-> seq, ack |-> IF "ACK" \in flags THEN c.rcv ELSE 0,
              flags |-> flags, wnd |-> AdvWindow(c), data |-> data]
    IN  IF "ACK" \in flags
        THEN [c EXCEPT !.out = @ \union {s}, !.ackPending = FALSE, !.unacked = 0, !.adv = AdvWindow(c)]
        ELSE [c EXCEPT !.out = @ \union {s}]

SendAck(h, c) == SendSeg(h, c, c.nxt, {"ACK"}, <<>>)

MaxSeq(a, b) == IF LT(a, b) THEN b ELSE a

\* the segments of tcp_output's loop: the buffer's bytes from..upto-1
Pieces(h, c, from, upto) ==
    {SendSeg(h, c, Add(c.una, from + i * MSS), {"ACK"},
             SubSeq(c.sb, from + i * MSS + 1, Min({from + (i + 1) * MSS, upto}))).out : i \in
       {i \in 0..Sbuf : from + i * MSS < upto}}

\* mutant: no timer while the window is closed
NothingFitsQuiet(c) == c

\* the retransmission timer doubles as the persist timer
NothingFits(c) == [c EXCEPT !.timer = TRUE]

SendsData(h, c, cwnd) ==
    LET off == Dist(c.nxt, c.una)
        upto == Min({Len(c.sb), c.wnd, cwnd})
        nxt == Add(c.una, upto)
    IN  IF off >= Len(c.sb) THEN c
        ELSE IF off >= upto THEN NothingFits(c)
        ELSE [SendAck(h, c) EXCEPT !.out = c.out \union UNION Pieces(h, c, off, upto), !.nxt = nxt,
                          !.max = MaxSeq(@, nxt), !.timer = TRUE]

\* mutant: without waiting for the queued data
FinIsNextAtOnce(c) == c.finPending /\ ~c.finSent

FinIsNext(c) == c.finPending /\ ~c.finSent /\ Dist(c.nxt, c.una) = Len(c.sb)

SendsFin(h, c) ==
    IF FinIsNext(c)
    THEN LET nxt == Add(c.nxt, 1) IN
         [SendSeg(h, c, c.nxt, {"FIN", "ACK"}, <<>>) EXCEPT
            !.finSeq = c.nxt, !.finSent = TRUE, !.nxt = nxt, !.max = MaxSeq(@, nxt), !.timer = TRUE,
            !.st = CASE @ = "ESTABLISHED" -> "FIN_WAIT1" [] @ = "CLOSE_WAIT" -> "LAST_ACK" [] OTHER -> @]
    ELSE c

\* tcp_output, with each congestion window
Output(h, c) ==
    IF c.st \in {"ESTABLISHED", "CLOSE_WAIT", "FIN_WAIT1", "CLOSING", "LAST_ACK"}
    THEN {SendsFin(h, SendsData(h, c, w)) : w \in Cwnds}
    ELSE {c}

-----------------------------------------------------------------------------
(* Receiving *)

FinReceived(c) ==
    [c EXCEPT !.rcv = Add(@, 1), !.finRcvd = TRUE, !.ackPending = TRUE, !.unacked = 2,
              !.timer = IF c.st = "FIN_WAIT2" THEN FALSE ELSE @,
              !.st = CASE @ = "ESTABLISHED" -> "CLOSE_WAIT" [] @ = "FIN_WAIT1" -> "CLOSING"
                       [] @ = "FIN_WAIT2" -> "TIME_WAIT" [] OTHER -> @]

\* mutant: what does not fit the ring is acknowledged too
DeliverAll(c, data) ==
    LET n == IF c.closed THEN Len(data) ELSE Min({Len(data), AdvWindow(c)})
    IN  [c EXCEPT !.rcv = Add(@, Len(data)), !.took = @ + n,
                  !.rb = IF c.closed THEN @ ELSE @ \o SubSeq(data, 1, n)]

\* deliver: what fits the ring; all of it, let go, once the user has closed
Deliver(c, data) ==
    LET n == IF c.closed THEN Len(data) ELSE Min({Len(data), AdvWindow(c)})
    IN  [c EXCEPT !.rcv = Add(@, n), !.took = @ + n,
                  !.rb = IF c.closed THEN @ ELSE @ \o SubSeq(data, 1, n)]

\* ... and the FIN after it, if all of it was taken
DeliverFin(c, data, fin) ==
    LET d == Deliver(c, data)
    IN  IF fin /\ d.rcv = Add(c.rcv, Len(data)) THEN FinReceived(d) ELSE d

\* mutant: all of a segment that overlaps what is there
FreshAll(c, s) == s.data

\* what a segment has from rcv_nxt on
Fresh(c, s) == SubSeq(s.data, Dist(c.rcv, s.seq) + 1, Len(s.data))

OooStore(c, s) ==
    LET e == [seq |-> s.seq, data |-> s.data, fin |-> "FIN" \in s.flags]
        before == SelectSeq(c.ooo, LAMBDA o : LT(o.seq, e.seq))
        after == SelectSeq(c.ooo, LAMBDA o : ~LT(o.seq, e.seq))
    IN  IF \/ Len(c.ooo) >= OooMax
           \/ LT(Add(c.rcv, AdvWindow(c)), Add(e.seq, Len(e.data)))
           \/ after # <<>> /\ after[1].seq = e.seq /\ Len(after[1].data) >= Len(e.data)
        THEN c
        ELSE [c EXCEPT !.ooo = before \o <<e>> \o after]

\* ooo_drain: the list is sorted, so the first that stays ends it
OooDrain(c) ==
    FoldLeft(LAMBDA d, o :
               LET end == Add(o.seq, Len(o.data))
                   e == IF LT(d.rcv, end) THEN Deliver(d, Fresh(d, o)) ELSE d
               IN  IF LEQ(o.seq, d.rcv)
                   THEN IF o.fin /\ e.rcv = end /\ ~e.finRcvd THEN FinReceived(e) ELSE e
                   ELSE [d EXCEPT !.ooo = Append(@, o)],
             [c EXCEPT !.ooo = <<>>], c.ooo)

\* the data and the FIN of a segment
Receive(h, c, s) ==
    LET fin == "FIN" \in s.flags
        skip == Dist(c.rcv, s.seq)
        dlen == Len(s.data)
        d == CASE s.seq = c.rcv -> LET x == OooDrain(DeliverFin(c, s.data, fin)) IN
                                   [x EXCEPT !.ackPending = TRUE, !.unacked = Min({@ + 1, 2})]
               [] LT(s.seq, c.rcv) ->
                    LET x == IF skip < dlen THEN OooDrain(DeliverFin(c, Fresh(c, s), fin))
                             ELSE IF fin /\ skip = dlen /\ ~c.finRcvd THEN FinReceived(c) ELSE c
                    IN  [x EXCEPT !.ackPending = TRUE, !.unacked = 2]
               [] OTHER -> [OooStore(c, s) EXCEPT !.ackPending = TRUE, !.unacked = 2]
    IN  IF c.st \in {"ESTABLISHED", "FIN_WAIT1", "FIN_WAIT2"} /\ (dlen > 0 \/ fin)
        THEN IF d.unacked >= 2 THEN SendAck(h, d) ELSE d
        ELSE c

\* resend: any one segment of what was sent before, or none
Resends(h, c) ==
    {c} \union {SendSeg(h, c, Add(c.una, o), {"ACK"}, SubSeq(c.sb, o + 1, Min({o + MSS, Len(c.sb)}))) :
                  o \in {o \in 0..(Len(c.sb) - 1) : LT(Add(c.una, o), c.max)}}

Window(c, s) ==
    IF LT(c.wl1, s.seq) \/ (c.wl1 = s.seq /\ LEQ(c.wl2, s.ack))
    THEN [c EXCEPT !.wnd = s.wnd, !.wl1 = s.seq, !.wl2 = s.ack]
    ELSE c

\* an ACK of something new
Acked(c, s) ==
    LET d == [c EXCEPT !.sb = SubSeq(@, Min({Dist(s.ack, c.una), Len(@)}) + 1, Len(@)), !.una = s.ack,
                       !.nxt = IF LT(@, s.ack) THEN s.ack ELSE @, !.retries = 0, !.timer = s.ack # c.max]
    IN  IF d.finSent /\ LT(d.finSeq, s.ack)
        THEN [d EXCEPT !.st = CASE @ = "FIN_WAIT1" -> "FIN_WAIT2" [] @ = "CLOSING" -> "TIME_WAIT"
                                [] @ = "LAST_ACK" -> "CLOSED" [] OTHER -> @]
        ELSE d

AckProcessing(h, c, s) ==
    LET new == LT(c.una, s.ack) /\ LEQ(s.ack, c.max)
        same == s.ack = c.una /\ s.data = <<>> /\ s.flags = {"ACK"} /\ c.max # c.una /\ s.wnd = c.wnd
        d == IF new THEN Acked(c, s) ELSE c
    IN  {Window(x, s) : x \in IF (new /\ d.una # d.max) \/ same THEN Resends(h, d) ELSE {d}}

\* send_reset_for
Reset(h, s) ==
    IF "RST" \in s.flags THEN {}
    ELSE IF "ACK" \in s.flags
    THEN {[to |-> Peer(h), seq |-> s.ack, ack |-> 0, flags |-> {"RST"}, wnd |-> 0, data |-> <<>>]}
    ELSE {[to |-> Peer(h), seq |-> 0, ack |-> Add(s.seq, Len(s.data) + Cardinality(s.flags \intersect {"SYN", "FIN"})),
           flags |-> {"RST", "ACK"}, wnd |-> 0, data |-> <<>>]}

\* conn_alloc
Alloc(h) == [NoConn EXCEPT !.una = Iss[h], !.nxt = Add(Iss[h], 1), !.max = Add(Iss[h], 1)]

PassiveOpen(h, s) ==
    LET c == [Alloc(h) EXCEPT !.st = "SYN_RCVD", !.listener = TRUE, !.rcv = Add(s.seq, 1), !.wnd = s.wnd, !.wl1 = s.seq]
    IN  [SendSeg(h, c, Iss[h], {"SYN", "ACK"}, <<>>) EXCEPT !.timer = TRUE]

\* both sides' way into ESTABLISHED
Establish(c, s) ==
    [c EXCEPT !.una = s.ack, !.wnd = s.wnd, !.wl1 = s.seq, !.wl2 = s.ack, !.retries = 0, !.timer = FALSE, !.st = "ESTABLISHED"]

InWindow(c, s) == LEQ(c.rcv, s.seq) /\ LT(s.seq, Add(c.rcv, AdvWindow(c) + 1))

\* tcp_input from the reset on
Established(h, c, s) ==
    CASE "RST" \in s.flags ->
           {IF InWindow(c, s) THEN [c EXCEPT !.err = "RESET", !.st = "CLOSED", !.timer = FALSE] ELSE c}
      [] "SYN" \in s.flags -> {SendAck(h, c)}
      [] OTHER ->
           UNION {CASE d.st = "CLOSED" -> {d}
                    [] d.st = "TIME_WAIT" -> {IF "FIN" \in s.flags THEN SendAck(h, d) ELSE d}
                    [] OTHER -> Output(h, Receive(h, d, s)) : d \in AckProcessing(h, c, s)}

\* tcp_input, a connection there
Input(h, c, s) ==
    CASE c.st = "SYN_RCVD" ->
           CASE "RST" \in s.flags -> {[c EXCEPT !.st = "CLOSED", !.timer = FALSE]}
             [] "SYN" \in s.flags -> {SendSeg(h, c, Iss[h], {"SYN", "ACK"}, <<>>)}
             [] "ACK" \notin s.flags -> {c}
             [] s.ack # Add(Iss[h], 1) -> {[c EXCEPT !.out = Reset(h, s)]}
             [] OTHER -> Established(h, Establish(c, s), s)
      [] c.st = "SYN_SENT" ->
           CASE "ACK" \in s.flags /\ s.ack # Add(Iss[h], 1) -> {[c EXCEPT !.out = Reset(h, s)]}
             [] "RST" \in s.flags -> {IF "ACK" \in s.flags THEN [c EXCEPT !.err = "REFUSED", !.st = "CLOSED"] ELSE c}
             [] s.flags = {"SYN", "ACK"} ->
                  Output(h, SendAck(h, [Establish(c, s) EXCEPT !.rcv = Add(s.seq, 1)]))
             [] OTHER -> {c}
      [] OTHER -> Established(h, c, s)

-----------------------------------------------------------------------------
(* The network *)

\* the connection becomes c, and what it sends is under way with the rest
Becomes(h, c, rest) ==
    LET all == rest \union c.out IN
    /\ Cardinality(all) <= MaxNet
    /\ net' = all
    /\ conn' = [conn EXCEPT ![h] = [c EXCEPT !.out = {}, !.took = 0]]

\* tcp_input
TcpInput(s, again) ==
    LET h == s.to
        c == conn[h]
        rest == IF again THEN net ELSE net \ {s}
        opens == h = "B" /\ listening /\ c.st \in {"NONE", "CLOSED"} /\ s.flags = {"SYN"}
    IN  /\ s \in net /\ (again => faults < MaxFaults)
        /\ faults' = IF again THEN faults + 1 ELSE faults
        /\ \E d \in CASE c.st \notin {"NONE", "CLOSED"} -> Input(h, c, s)
                      [] opens -> {IF opened THEN c ELSE PassiveOpen(h, s)}
                      [] OTHER -> {[c EXCEPT !.out = Reset(h, s)]} :
             /\ Becomes(h, d, rest)
             /\ taken' = [taken EXCEPT ![h] = @ + d.took]
        /\ opened' = (opened \/ opens)
        /\ UNCHANGED <<listening, total>>

Lose(s) ==
    /\ s \in net /\ faults < MaxFaults
    /\ net' = net \ {s} /\ faults' = faults + 1
    /\ UNCHANGED <<conn, listening, opened, total, taken>>

-----------------------------------------------------------------------------
(* Timers *)

\* tcp_flush, at the end of a batch
TcpFlush(h) ==
    /\ conn[h].ackPending /\ conn[h].st \notin {"NONE", "CLOSED", "SYN_SENT", "SYN_RCVD"}
    /\ Becomes(h, SendAck(h, conn[h]), net)
    /\ UNCHANGED <<listening, opened, faults, total, taken>>

\* on_timeout
OnTimeout(h, c) ==
    LET handshake == c.st \in {"SYN_SENT", "SYN_RCVD"}
        d == [c EXCEPT !.retries = @ + 1]
        back == [d EXCEPT !.nxt = d.una, !.finSent = @ /\ LT(d.finSeq, d.una), !.timer = FALSE]
    IN  CASE d.retries > (IF handshake THEN SynRetries ELSE MaxRetries) ->
               {[IF handshake THEN d ELSE SendSeg(h, d, d.nxt, {"RST", "ACK"}, <<>>) EXCEPT
                   !.err = "TIMEOUT", !.st = "CLOSED", !.timer = FALSE]}
          [] d.st = "SYN_RCVD" -> {SendSeg(h, d, Iss[h], {"SYN", "ACK"}, <<>>)}
          [] d.st = "SYN_SENT" -> {SendSeg(h, d, Iss[h], {"SYN"}, <<>>)}
          [] d.wnd = 0 /\ Len(d.sb) > Dist(d.nxt, d.una) ->
               {SendSeg(h, d, d.nxt, {"ACK"}, <<d.sb[Dist(d.nxt, d.una) + 1]>>)}
          [] OTHER -> {[x EXCEPT !.timer = @ \/ x.una # x.max] : x \in Output(h, back)}

\* what runs out of time later than any answer comes
Idle == net = {} /\ \A h \in Hosts : ~conn[h].ackPending

\* tcp_timer: both deadlines, and what is freed after
TcpTimer(h, tw, rto) ==
    LET c == IF conn[h].st = "TIME_WAIT" /\ tw THEN [conn[h] EXCEPT !.st = "CLOSED"] ELSE conn[h]
    IN  /\ tw \/ rto \/ c.st = "CLOSED"
        /\ tw => conn[h].st = "TIME_WAIT"
        /\ rto => c.timer /\ c.st # "CLOSED"
        /\ Prompt => Idle
        /\ \E d \in IF rto THEN OnTimeout(h, c) ELSE {c} :
             Becomes(h, IF d.st = "CLOSED" /\ (d.closed \/ d.listener) THEN Freed(d.err, d.out) ELSE d, net)
        /\ UNCHANGED <<listening, opened, faults, total, taken>>

-----------------------------------------------------------------------------
(* The apps' calls *)

Init ==
    /\ conn = [h \in Hosts |-> IF h = "A"
                 THEN [Alloc(h) EXCEPT !.st = "SYN_SENT", !.connecting = TRUE, !.timer = TRUE] ELSE NoConn]
    /\ net = SendSeg("A", Alloc("A"), Iss["A"], {"SYN"}, <<>>).out
    /\ listening = TRUE /\ opened = FALSE /\ faults = 0
    /\ total = [h \in Hosts |-> 0] /\ taken = [h \in Hosts |-> 0]

\* connect_to's loop sees that the connection has left SYN_SENT, or gives up
ConnectReturns ==
    LET c == conn["A"] IN
    /\ c.connecting /\ (c.st = "SYN_SENT" /\ Prompt => Idle)
    /\ Becomes("A", IF c.st = "ESTABLISHED" THEN [c EXCEPT !.connecting = FALSE]
                    ELSE Freed(CASE c.st = "SYN_SENT" -> "GIVEN UP" [] c.err = "" -> "REFUSED" [] OTHER -> c.err, {}), net)
    /\ UNCHANGED <<listening, opened, faults, total, taken>>

\* tcp_accept
Accept ==
    /\ listening /\ conn["B"].listener /\ conn["B"].st \in {"ESTABLISHED", "CLOSE_WAIT"}
    /\ Becomes("B", [conn["B"] EXCEPT !.listener = FALSE], net)
    /\ UNCHANGED <<listening, opened, faults, total, taken>>

\* tcp_abort's and tcp_unlisten's end of a connection
Aborted(h, c, silent) ==
    Freed("ABORTED", IF c.st \in silent THEN {} ELSE SendSeg(h, c, c.nxt, {"RST", "ACK"}, <<>>).out)

\* tcp_unlisten; while an accepted connection is open nothing looks at the
\* listener, so it is enough to have it before and after
Unlisten ==
    LET c == conn["B"] IN
    /\ listening /\ "B" \in Aborters /\ (c.listener \/ c.st = "NONE")
    /\ listening' = FALSE
    /\ Becomes("B", IF c.listener THEN Aborted("B", c, {"CLOSED"}) ELSE c, net)
    /\ UNCHANGED <<opened, faults, total, taken>>

Open(h) == conn[h].st # "NONE" /\ ~conn[h].closed /\ ~conn[h].connecting /\ ~conn[h].listener

\* tcp_send: a byte
Send(h) ==
    LET c == conn[h] IN
    /\ Open(h) /\ total[h] < Bytes[h] /\ c.err = "" /\ c.st \in {"ESTABLISHED", "CLOSE_WAIT"} /\ Len(c.sb) < Sbuf
    /\ total' = [total EXCEPT ![h] = @ + 1]
    /\ \E d \in Output(h, [c EXCEPT !.sb = Append(@, total[h] + 1)]) : Becomes(h, d, net)
    /\ UNCHANGED <<listening, opened, faults, taken>>

\* tcp_recv: n bytes, and an ACK if the window opened
Recv(h, n) ==
    LET c == [conn[h] EXCEPT !.rb = SubSeq(@, n + 1, Len(@))]
        w == AdvWindow(c)
    IN  /\ Open(h)
        /\ Becomes(h, IF c.st # "CLOSED" /\ w > c.adv /\ (w - c.adv >= 2 * MSS \/ (c.adv < MSS /\ w >= MSS))
                      THEN SendAck(h, c) ELSE c, net)
        /\ UNCHANGED <<listening, opened, faults, total, taken>>

\* tcp_close
Close(h) ==
    LET c == [conn[h] EXCEPT !.closed = TRUE] IN
    /\ Open(h)
    /\ \E d \in IF c.st \in {"ESTABLISHED", "CLOSE_WAIT"} THEN Output(h, [c EXCEPT !.finPending = TRUE]) ELSE {c} :
         Becomes(h, IF d.st = "CLOSED" THEN Freed(d.err, {}) ELSE d, net)
    /\ UNCHANGED <<listening, opened, faults, total, taken>>

\* tcp_abort
Abort(h) ==
    /\ h \in Aborters /\ Open(h)
    /\ Becomes(h, Aborted(h, conn[h], {"CLOSED", "TIME_WAIT"}), net)
    /\ UNCHANGED <<listening, opened, faults, total, taken>>

App(h) == Send(h) \/ (\E n \in 1..Len(conn[h].rb) : Recv(h, n)) \/ Close(h) \/ Abort(h)

Next ==
    \/ \E s \in net : Lose(s) \/ \E again \in BOOLEAN : TcpInput(s, again)
    \/ \E h \in Hosts : TcpFlush(h) \/ App(h) \/ \E tw, rto \in BOOLEAN : TcpTimer(h, tw, rto)
    \/ ConnectReturns \/ Accept \/ Unlisten

Spec == Init /\ [][Next]_vars

-----------------------------------------------------------------------------
(* Properties *)

\* A "reliable in-order byte stream": what is in the ring is the peer's
\* bytes, from the first not read yet on, none twice and none left out.
StreamInOrder ==
    \A h \in Hosts : ~conn[h].closed =>
      conn[h].rb = [i \in 1..Len(conn[h].rb) |-> taken[h] - Len(conn[h].rb) + i]

\* What an end lets go of as acknowledged the other end has taken.
AckedIsThere ==
    \A h \in Hosts : conn[h].st \notin {"NONE", "CLOSED"} => total[h] - Len(conn[h].sb) <= taken[Peer(h)]

\* Who is told of the end of the stream has had all that the peer sent.
EndIsTheEnd ==
    \A h \in Hosts : conn[h].finRcvd => taken[h] = total[Peer(h)]

\* What is not acknowledged yet is never left without a timer: queued data,
\* data under way and a FIN to send are sent again if an answer is lost.
TimerIsOn ==
    \A h \in Hosts :
      /\ conn[h].st \in {"SYN_SENT", "SYN_RCVD", "ESTABLISHED", "CLOSE_WAIT", "FIN_WAIT1", "CLOSING", "LAST_ACK"}
      /\ conn[h].una # conn[h].max \/ conn[h].sb # <<>> \/ (conn[h].finPending /\ ~conn[h].finSent)
      => conn[h].timer

\* "Orderly close": with fewer losses than retries, no abort and no timer
\* running out too early, neither end is reset or times out once connected.
OrderlyClose ==
    (\A h \in Hosts : conn[h].err \notin {"TIMEOUT", "RESET"}) \/ conn["A"].err \in {"REFUSED", "GIVEN UP"}
=============================================================================
