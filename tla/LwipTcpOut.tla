----------------------------- MODULE LwipTcpOut -----------------------------
(***************************************************************************)
(* The sending side of a TCP connection of lwIP (core/tcp_out.c, the part  *)
(* of core/tcp_in.c that looks at acknowledgements, tcp_slowtmr), as the   *)
(* contestant sends its answers with it: tcp_write and tcp_output at once, *)
(* without Nagle's algorithm.                                              *)
(*                                                                         *)
(* Bytes are numbered from zero; LwipTcpIn has the wrap-around of sequence *)
(* numbers.  A segment is [seq, len].  How long the timers take is left    *)
(* out: a pass of tcp_slowtmr finds the running timer due or it does not.  *)
(* The peer sends no data.  Segments reach it at once or never, which the  *)
(* sender cannot tell from a late one, for its acknowledgements are lost,  *)
(* delayed, duplicated and reordered.                                      *)
(***************************************************************************)
EXTENDS Integers, Sequences, FiniteSets, SequencesExt, FiniteSetsExt, TLC

CONSTANTS
    Total,          \* bound: bytes the application writes
    Writes,         \* lengths of its calls
    mss,
    SND_BUF,        \* TCP_SND_BUF
    MaxRtx,         \* TCP_MAXRTX
    MaxCwnd,        \* the largest tcpwnd_size_t, where cwnd stops
    PeerWnd,        \* the peer's buffer, its first window
    MaxAcks         \* bound: acknowledgements under way

VARIABLES
    tcp,        \* the pcb
    have,       \* bytes the peer has
    edge,       \* the right edge it last announced
    room,       \* and the one it could announce
    acks,       \* its acknowledgements under way: [ack, wnd]
    passes      \* parity of the passes of tcp_slowtmr that found a timer due

tcpOutVars == <<tcp, have, edge, room, acks, passes>>

Sum(q) == FoldLeft(LAMBDA n, s : n + s.len, 0, q)
End(s) == s.seq + s.len
Segs == [seq : 0 .. Total, len : 1 .. mss]

(* The fields of the pcb have their types. *)
TcpOutTypeOK ==
    /\ {tcp.unsent, tcp.unacked} \subseteq Seq(Segs)
    /\ {tcp.lastack, tcp.snd_nxt, tcp.snd_lbb, tcp.snd_wl2} \subseteq 0 .. Total
    /\ tcp.snd_wnd \in 0 .. PeerWnd
    /\ tcp.cwnd \in mss .. MaxCwnd /\ tcp.ssthresh \in mss .. MaxCwnd
    /\ tcp.snd_buf \in 0 .. SND_BUF
    /\ tcp.dupacks \in 0 .. 4
    /\ tcp.status \in {"up", "removed", "stopped"}
    /\ {tcp.nrtx, tcp.persist_probe} \subseteq 0 .. MaxRtx

(* An established connection. *)
TcpOutInit ==
    /\ tcp = [unsent |-> <<>>, unacked |-> <<>>,
              lastack |-> 0, snd_nxt |-> 0, snd_lbb |-> 0,
              snd_wl2 |-> 0, snd_wnd |-> PeerWnd, snd_buf |-> SND_BUF,
              cwnd |-> mss, ssthresh |-> SND_BUF, dupacks |-> 0, infr |-> FALSE,
              running |-> FALSE,        \* rtime >= 0
              nrtx |-> 0,
              persist |-> FALSE,        \* persist_backoff > 0
              persist_probe |-> 0,
              status |-> "up"]          \* "removed": the owner was told;
                                        \* "stopped": an assertion failed
    /\ have = {}
    /\ edge = PeerWnd /\ room = PeerWnd
    /\ acks = {}
    /\ passes = 0

-----------------------------------------------------------------------------
(* tcp_write: the last unsent segment is filled up, the rest is cut. *)
mss_local == IF Min({mss, PeerWnd \div 2}) = 0 THEN mss ELSE Min({mss, PeerWnd \div 2})

Cut(from, to) ==
    [k \in 1 .. (to - from + mss_local - 1) \div mss_local |->
        LET seq == from + (k - 1) * mss_local
        IN  [seq |-> seq, len |-> Min({mss_local, to - seq})]]

tcp_write(p, n) ==
    LET q == p.unsent
        fill == IF q = <<>> THEN 0 ELSE Min({mss_local - Last(q).len, n})
        filled == IF q = <<>> THEN q ELSE [q EXCEPT ![Len(q)].len = @ + fill]
    IN  [p EXCEPT !.unsent = filled \o Cut(p.snd_lbb + fill, p.snd_lbb + n),
                  !.snd_lbb = @ + n, !.snd_buf = @ - n]

(* A queue with a segment before the first that follows it. *)
InsertSorted(q, s) ==
    LET k == Min({i \in DOMAIN q : q[i].seq >= s.seq} \cup {Len(q) + 1})
    IN  InsertAt(q, k, s)

-----------------------------------------------------------------------------
(* tcp_output.  Its results: the pcb and the segments that were sent. *)

Wnd(p) == Min({p.snd_wnd, p.cwnd})

(* Mutant: the persist timer is not started. *)
persists_never(p) == FALSE

(* The persist timer is started: nothing is in flight whose acknowledgement
   would let the next segment out. *)
persists(p) == Wnd(p) = p.snd_wnd /\ p.unacked = <<>>

fits(p, s) == End(s) - p.lastack <= Wnd(p)

Sent(p, n) ==
    LET segs == SubSeq(p.unsent, 1, n)
    IN  [pcb |-> [p EXCEPT
            !.persist = FALSE, !.running = TRUE,
            !.unsent = SubSeq(@, n + 1, Len(@)),
            !.unacked = FoldLeft(InsertSorted, @, segs),
            !.snd_nxt = Max({@} \cup {End(segs[k]) : k \in 1 .. n})],
         segs |-> segs]

(* netif_output always reports success, so every segment that fits is sent. *)
tcp_output(p) ==
    LET unfit == {k \in DOMAIN p.unsent : ~fits(p, p.unsent[k])}
        n == Min(unfit \cup {Len(p.unsent) + 1}) - 1
    IN  IF n > 0 THEN Sent(p, n)
        ELSE [pcb |-> IF p.unsent # <<>> /\ persists(p) /\ ~p.persist
                      THEN [p EXCEPT !.persist = TRUE, !.persist_probe = 0] ELSE p,
              segs |-> <<>>]

-----------------------------------------------------------------------------
(* The peer and the network. *)

Contiguous(h) == Min((0 .. Total) \ h)

(* What the peer accepts of a segment: it may have more room than it said. *)
Accepted(s) == s.seq .. Min({End(s), room}) - 1

(* An acknowledgement is lost or gets under way, perhaps for the loss of
   another. *)
Acknowledge(a) ==
    \/ UNCHANGED acks
    \/ Cardinality(acks) < MaxAcks /\ acks' = acks \cup {a}
    \/ \E old \in acks : acks' = (acks \ {old}) \cup {a}

(* The peer gets some of the segments and answers. *)
Deliver(segs) ==
    /\ UNCHANGED room
    /\ \/ UNCHANGED <<have, edge, acks>>
       \/ \E got \in SUBSET Range(segs) \ {{}}, e \in {edge, room} :
             LET h == have \cup UNION {Accepted(s) : s \in got}
                 c == Contiguous(h)
             IN  /\ have' = h
                 /\ edge' = Max({e, c})
                 /\ Acknowledge([ack |-> c, wnd |-> edge' - c])

(* Its application reads; it may announce the room. *)
PeerReads ==
    /\ room < Total
    /\ \E r \in room + 1 .. Min({Total, Contiguous(have) + PeerWnd}) :
          /\ room' = r
          /\ \/ UNCHANGED <<edge, acks>>
             \/ edge' = r /\ Acknowledge([ack |-> Contiguous(have), wnd |-> r - Contiguous(have)])
    /\ UNCHANGED <<tcp, have, passes>>

(* A step of the sender ends with an output. *)
Ends(o) == tcp' = o.pcb /\ Deliver(o.segs)

-----------------------------------------------------------------------------
(* contestant_send: the bytes are written or, without memory or room in the
   send buffer, none of them; then what can be sent is. *)
contestant_send(n) ==
    /\ tcp.status = "up"
    /\ tcp.snd_lbb + n <= Total
    /\ UNCHANGED passes
    /\ \/ n <= tcp.snd_buf /\ Ends(tcp_output(tcp_write(tcp, n)))
       \/ Ends(tcp_output(tcp))

HalfWnd(p) == Max({Wnd(p) \div 2, 2 * mss})

(* TCP_WND_INC. *)
Cwnd(n) == Min({n, MaxCwnd})

(* tcp_rexmit_fast: the first unacknowledged segment is sent again. *)
tcp_rexmit_fast(p) ==
    IF p.unacked = <<>> \/ p.infr THEN p
    ELSE [p EXCEPT !.unsent = InsertSorted(@, Head(p.unacked)),
                   !.unacked = Tail(@),
                   !.nrtx = Min({@ + 1, MaxRtx}),
                   !.ssthresh = Cwnd(HalfWnd(p)),
                   !.cwnd = Cwnd(HalfWnd(p) + 3 * mss),
                   !.infr = TRUE]

(* An acknowledgement of nothing new: it counts towards a retransmission if
   the window is the same. *)
duplicate(p, edge_before, ackno) ==
    IF p.snd_wl2 + p.snd_wnd = edge_before /\ p.running /\ p.lastack = ackno
    THEN LET n == Min({p.dupacks + 1, 4})
             q == [p EXCEPT !.dupacks = n, !.cwnd = IF n > 3 THEN Cwnd(@ + mss) ELSE @]
         IN  IF n >= 3 THEN tcp_rexmit_fast(q) ELSE q
    ELSE [p EXCEPT !.dupacks = 0]

(* The segments at the head of a queue that ackno acknowledges. *)
Acked(q, ackno) ==
    LET kept == {k \in DOMAIN q : End(q[k]) > ackno}
    IN  SubSeq(q, 1, Min(kept \cup {Len(q) + 1}) - 1)

(* tcp_free_acked_segments, on both queues: a segment to be sent again may
   be acknowledged before it is. *)
freed(p, ackno) ==
    LET rest(q) == SubSeq(q, Len(Acked(q, ackno)) + 1, Len(q))
    IN  [p EXCEPT !.unacked = rest(@), !.unsent = rest(@),
                  !.snd_buf = @ + Sum(Acked(p.unacked, ackno)) + Sum(Acked(p.unsent, ackno))]

(* An acknowledgement of new data.  Slow start or congestion avoidance (how
   far the latter has come is left out) opens the congestion window. *)
acknowledged(p, ackno) ==
    LET q == freed(p, ackno)
        c == IF p.infr THEN p.ssthresh ELSE p.cwnd
        grown == IF c < p.ssthresh
                 THEN {c + Min({ackno - p.lastack, k * mss}) : k \in 1 .. 2}
                 ELSE {c, c + mss}
    IN  {[q EXCEPT !.infr = FALSE, !.nrtx = 0, !.dupacks = 0, !.lastack = ackno,
                   !.cwnd = Cwnd(g), !.running = (q.unacked # <<>>)] : g \in grown}

(* The window is that of the newest acknowledgement, or a larger one. *)
window(p, ackno, wnd) ==
    IF p.snd_wl2 < ackno \/ (p.snd_wl2 = ackno /\ wnd > p.snd_wnd)
    THEN [p EXCEPT !.snd_wnd = wnd, !.snd_wl2 = ackno] ELSE p

(* tcp_input of an acknowledgement: tcp_process, tcp_receive, tcp_output. *)
tcp_receive(p, ackno, wnd) ==
    LET q == [window(p, ackno, wnd) EXCEPT !.persist_probe = 0]
    IN  IF ackno <= p.lastack THEN {duplicate(q, p.snd_wnd + p.snd_wl2, ackno)}
        ELSE IF ackno <= p.snd_nxt THEN acknowledged(q, ackno)
        ELSE {q}

tcp_input_ack ==
    /\ tcp.status = "up"
    /\ UNCHANGED passes
    /\ \E a \in acks : \E p \in tcp_receive(tcp, a.ack, a.wnd) : Ends(tcp_output(p))

-----------------------------------------------------------------------------
(* tcp_rexmit_rto: everything in flight is sent again. *)
tcp_rexmit_rto(p) ==
    tcp_output([p EXCEPT !.unsent = p.unacked \o @, !.unacked = <<>>,
                         !.ssthresh = Cwnd(HalfWnd(p)), !.cwnd = mss,
                         !.nrtx = Min({@ + 1, MaxRtx})])

(* tcp_zero_window_probe: one byte, to make the peer say its window. *)
tcp_zero_window_probe(p) ==
    LET s == [seq |-> Head(p.unsent).seq, len |-> 1]
    IN  [pcb |-> [p EXCEPT !.persist_probe = @ + 1, !.snd_nxt = Max({@, End(s)})],
         segs |-> <<s>>]

(* Mutant: the remainder of the segment is dropped. *)
tcp_split_unsent_seg_cut(p) == [p EXCEPT !.unsent[1].len = Min({@, p.snd_wnd})]

(* tcp_split_unsent_seg: the head of the queue is made to fit the window. *)
tcp_split_unsent_seg(p) ==
    LET s == Head(p.unsent)
    IN  IF s.len <= p.snd_wnd THEN p
        ELSE [p EXCEPT !.unsent = <<[s EXCEPT !.len = p.snd_wnd],
                                    [seq |-> s.seq + p.snd_wnd, len |-> s.len - p.snd_wnd]>>
                                  \o Tail(@)]

(* The timer that is due in a pass of tcp_slowtmr. *)
expired(p) ==
    CASE p.persist /\ p.snd_wnd = 0 -> tcp_zero_window_probe(p)
      [] p.persist /\ p.snd_wnd > 0 -> tcp_output(tcp_split_unsent_seg(p))
      [] ~p.persist /\ p.running /\ p.unacked \o p.unsent # <<>> -> tcp_rexmit_rto(p)
      [] OTHER -> [pcb |-> p, segs |-> <<>>]

(* What tcp_slowtmr asserts while the persist timer runs. *)
asserts(p) == p.persist => p.unacked = <<>> /\ p.unsent # <<>>

(* tcp_slowtmr: the pcb is given up after too many attempts; otherwise the
   timer is served when it is due, and then what can be sent is. *)
tcp_slowtmr(due) ==
    /\ tcp.status = "up"
    /\ passes' = IF due THEN 1 - passes ELSE passes
    /\ IF tcp.nrtx >= MaxRtx \/ (asserts(tcp) /\ tcp.persist /\ tcp.persist_probe >= MaxRtx)
       THEN /\ tcp' = [tcp EXCEPT !.status = "removed"]
            /\ UNCHANGED <<have, edge, room, acks>>
       ELSE IF ~asserts(tcp)
       THEN /\ tcp' = [tcp EXCEPT !.status = "stopped"]
            /\ UNCHANGED <<have, edge, room, acks>>
       ELSE LET o == IF due THEN expired(tcp) ELSE [pcb |-> tcp, segs |-> <<>>]
                polled == tcp_output(o.pcb)
            IN  Ends([polled EXCEPT !.segs = o.segs \o @])

TcpOutNext ==
    \/ \E n \in Writes : contestant_send(n)
    \/ tcp_input_ack
    \/ \E due \in BOOLEAN : tcp_slowtmr(due)
    \/ PeerReads

TcpOutSpec == TcpOutInit /\ [][TcpOutNext]_tcpOutVars

-----------------------------------------------------------------------------
Queue == tcp.unacked \o tcp.unsent

(* No byte is lost and none is kept twice: the segments in flight and then
   those to be sent follow one another in the stream, from the one with the
   first byte that is not acknowledged to the last byte written.  tcp_write
   relies on it when it fills up the last segment. tcp_output, tcp_rexmit,
   tcp_split_unsent_seg, tcp_free_acked_segments. *)
QueuesTile ==
    IF Queue = <<>> THEN tcp.lastack = tcp.snd_lbb
    ELSE /\ Queue[1].seq <= tcp.lastack /\ tcp.lastack < End(Queue[1])
         /\ \A k \in 2 .. Len(Queue) : Queue[k].seq = End(Queue[k - 1])
         /\ End(Last(Queue)) = tcp.snd_lbb

(* The free part of the send buffer is what the queues do not hold, though
   acknowledgements end inside segments. tcp_write, tcp_receive. *)
SndBufExact == tcp.snd_buf + Sum(Queue) = SND_BUF

(* Nothing is sent that the peer did not announce room for, but the byte
   that probes a closed window. tcp_output, tcp_zero_window_probe. *)
WithinWindow == tcp.snd_nxt <= edge + 1

(* "persist ticking with in-flight data" is what tcp_slowtmr asserts does
   not happen. *)
PersistWhenIdle == tcp.persist => tcp.unacked = <<>>

(* The sender's queues, its buffer and its window agree with each other. *)
SenderSound == TcpOutTypeOK /\ QueuesTile /\ SndBufExact /\ WithinWindow /\ PersistWhenIdle

(* While the slow timer goes on and expires, what was written is acknowledged
   or the connection is given up in the end, unless the sender keeps probing
   a window that stays closed. tcp_slowtmr, tcp_output. *)
AnswersArrive ==
    []<><<passes' # passes>>_tcpOutVars =>
        []<>(tcp.lastack = tcp.snd_lbb \/ tcp.persist)

(* The assertions of tcp_slowtmr hold: "persist ticking with empty send
   buffer" is the other one. *)
AssertionsHold == tcp.status # "stopped"
=============================================================================
