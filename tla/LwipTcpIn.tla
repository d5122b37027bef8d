------------------------------ MODULE LwipTcpIn -----------------------------
(***************************************************************************)
(* The receiving half of an established lwIP connection: tcp_input,        *)
(* tcp_process and tcp_receive with the out-of-sequence queue, the         *)
(* receive window and the acknowledgements.                                *)
(*                                                                         *)
(* The peer has StreamLen bytes to send, then FIN; byte i of the stream is *)
(* the number i, so the application can be seen to get the right ones.     *)
(* The peer stays inside the window announced to it and otherwise cuts,    *)
(* repeats and reorders segments as it likes.  Like the callbacks of the   *)
(* contestant, the application takes what it is given at once.             *)
(***************************************************************************)
EXTENDS Integers, SequencesExt

CONSTANTS
    SeqSpace,     \* 2^32: sequence numbers are modulo this
    Isns,       \* the sequence numbers the first byte may have
    StreamLen,  \* bytes the peer sends
    MSS,        \* TCP_MSS, and the longest segment of the peer
    TCP_WND     \* bytes of receive window

VARIABLES
    isn,                    \* the sequence number of the first byte
    rcv_nxt, rcv_wnd,       \* next byte expected, window
    rcv_ann_wnd,            \* window to announce
    rcv_ann_right_edge,     \* its right edge when last announced
    ack_delay, ack_now,     \* TF_ACK_DELAY, TF_ACK_NOW
    ooseq,                  \* segments that came too early
    closed,                 \* state = CLOSE_WAIT
    delivered,              \* bytes given to the application
    eofs,                   \* calls of its callback with NULL
    acked, allowed,         \* the peer's view: bytes acknowledged, right edge
    rexmits                 \* parity of the retransmissions that got through

pcb == <<isn, rcv_nxt, rcv_wnd, rcv_ann_wnd, rcv_ann_right_edge, ack_delay,
         ack_now, ooseq, closed>>
tcpInVars == <<pcb, delivered, eofs, acked, allowed, rexmits>>

SeqNos == 0 .. SeqSpace - 1
SeqNo(i) == (isn + i) % SeqSpace
Bytes(i, n) == [k \in 1 .. n |-> i + k - 1]

(* TCP_SEQ_LT and its kin compare the difference as a signed number. *)
Ahead(a, b) == (a - b) % SeqSpace
SeqGeq(a, b) == Ahead(a, b) < SeqSpace \div 2
SeqGt(a, b) == SeqGeq(a, b) /\ a % SeqSpace # b % SeqSpace
SeqBetween(a, b, c) == SeqGeq(a, b) /\ SeqGeq(c, a)

TcpLen(s) == Len(s.data) + (IF s.fin THEN 1 ELSE 0)

Segments == {s \in [off : 0 .. StreamLen, len : 0 .. MSS, fin : BOOLEAN] :
                /\ s.off + s.len <= StreamLen
                /\ s.fin => s.off + s.len = StreamLen}
SegEnd(s) == s.off + s.len + (IF s.fin THEN 1 ELSE 0)

(* The window, the flags and the queued segments have their types. *)
TcpInTypeOK ==
    /\ isn \in Isns
    /\ {rcv_nxt, rcv_ann_right_edge} \subseteq SeqNos
    /\ {rcv_wnd, rcv_ann_wnd} \subseteq 0 .. TCP_WND
    /\ {ack_delay, ack_now, closed} \subseteq BOOLEAN
    /\ \A i \in DOMAIN ooseq :
          /\ ooseq[i].seqno \in SeqNos
          /\ ooseq[i].fin \in BOOLEAN
          /\ TcpLen(ooseq[i]) > 0
    /\ eofs \in Nat

(* As tcp_process leaves the control block on the SYN-ACK, the first ACK sent. *)
TcpInInit ==
    /\ isn \in Isns
    /\ rcv_nxt = isn
    /\ rcv_wnd = TCP_WND
    /\ rcv_ann_wnd = TCP_WND
    /\ rcv_ann_right_edge = (isn + TCP_WND) % SeqSpace
    /\ ack_delay = FALSE /\ ack_now = FALSE
    /\ ooseq = <<>>
    /\ closed = FALSE
    /\ delivered = <<>>
    /\ eofs = 0
    /\ acked = 0
    /\ allowed = TCP_WND
    /\ rexmits = 0

-----------------------------------------------------------------------------
(* The out-of-sequence queue. *)

Keep(s, n) == [s EXCEPT !.data = SubSeq(@, 1, n)]
Drop(q, n) == SubSeq(q, n + 1, Len(q))

(* How many segments at the head of q lie within seqno .. edge. *)
Covered(q, edge) ==
    Max({n \in 0 .. Len(q) :
            \A i \in 1 .. n : SeqGeq(edge, q[i].seqno + Len(q[i].data))})

(* A FIN among the first n segments of q. *)
FinIn(q, n) == \E i \in 1 .. n : q[i].fin

(* s without what the first segment of q also holds. *)
Before(s, q) ==
    IF q # <<>> /\ SeqGt(s.seqno + TcpLen(s), q[1].seqno)
    THEN Keep(s, Ahead(q[1].seqno, s.seqno))
    ELSE s

(* tcp_oos_insert_segment: s in front of q, whose segments it may cover. *)
tcp_oos_insert_segment(s, q) ==
    IF s.fin THEN <<s>>
    ELSE LET n == Covered(q, s.seqno + Len(s.data))
             t == [s EXCEPT !.fin = FinIn(q, n)]
         IN  <<Before(t, Drop(q, n))>> \o Drop(q, n)

(* The last segment of q without what s also holds. *)
TrimLast(q, s) ==
    LET p == Last(q)
    IN  IF SeqGt(p.seqno + Len(p.data), s.seqno)
        THEN Front(q) \o <<Keep(p, Ahead(s.seqno, p.seqno))>>
        ELSE q

(* The part of s inside a window of wnd bytes, without FIN if it is cut. *)
Fit(s, wnd) == IF TcpLen(s) > wnd THEN [Keep(s, wnd) EXCEPT !.fin = FALSE] ELSE s

(* tcp_receive, out of sequence: the queue with s in its place. *)
queue(s) ==
    LET n == Cardinality({i \in DOMAIN ooseq : ~SeqGeq(ooseq[i].seqno, s.seqno)})
        prev == SubSeq(ooseq, 1, n)
        next == Drop(ooseq, n)
        same == next # <<>> /\ next[1].seqno = s.seqno
    IN  CASE same /\ Len(s.data) <= Len(next[1].data) -> ooseq
          [] same /\ Len(s.data) > Len(next[1].data) -> prev \o tcp_oos_insert_segment(s, next)
          [] ~same /\ prev = <<>> -> tcp_oos_insert_segment(s, next)
          [] ~same /\ prev # <<>> /\ next # <<>> ->
                TrimLast(prev, s) \o tcp_oos_insert_segment(s, next)
          [] OTHER ->
                IF Last(prev).fin THEN ooseq
                ELSE TrimLast(prev, s) \o <<Fit(s, Ahead(rcv_nxt + rcv_wnd, s.seqno))>>

(* tcp_receive, in sequence: s without what the queue holds behind it, with
   a FIN the queue holds within it, and the queue that is left. *)
merge(s) ==
    IF s.fin THEN [seg |-> s, rest |-> <<>>]
    ELSE LET n == Covered(ooseq, s.seqno + TcpLen(s))
             t == [s EXCEPT !.fin = FinIn(ooseq, n)]
         IN  [seg |-> Before(t, Drop(ooseq, n)), rest |-> Drop(ooseq, n)]

(* The segments of the queue that are now in sequence join the data. *)
dequeue(m) ==
    LET q == <<m.seg>> \o m.rest
        n == Max({k \in 1 .. Len(q) :
                    \A i \in 2 .. k :
                        q[i].seqno = (q[i - 1].seqno + TcpLen(q[i - 1])) % SeqSpace})
    IN  [nxt |-> (q[n].seqno + TcpLen(q[n])) % SeqSpace,
         data |-> FlattenSeq([i \in 1 .. n |-> q[i].data]),
         fin |-> FinIn(q, n), rest |-> Drop(q, n)]

-----------------------------------------------------------------------------
(* The window and the acknowledgements. *)

NewEdge(nxt, wnd) == (nxt + wnd) % SeqSpace

Inflates(nxt, wnd) ==
    SeqGeq(NewEdge(nxt, wnd), rcv_ann_right_edge + Min({TCP_WND \div 2, MSS}))

(* Mutant: the window is closed when it cannot grow by a segment. *)
ann_wnd_closed(nxt, wnd) == IF Inflates(nxt, wnd) THEN wnd ELSE 0

(* tcp_update_rcv_ann_wnd: the window to announce at nxt. *)
ann_wnd(nxt, wnd) ==
    IF Inflates(nxt, wnd) THEN wnd
    ELSE IF SeqGt(nxt, rcv_ann_right_edge) THEN 0
    ELSE Ahead(rcv_ann_right_edge, nxt)

(* TCP_WND_UPDATE_THRESHOLD and the test of tcp_recved. *)
Threshold == Min({TCP_WND \div 4, 4 * MSS})
announces(nxt, wnd) ==
    Inflates(nxt, wnd) /\ Ahead(NewEdge(nxt, wnd), rcv_ann_right_edge) >= Threshold

(* What becomes of an ACK: no memory for it, lost on the way, or received. *)
Outcomes == {"failed", "lost", "received"}

(* tcp_output_alloc_header: the window ann at nxt is on its way. *)
announce(nxt, ann, outcome) ==
    LET edge == NewEdge(nxt, ann)
    IN  /\ rcv_ann_right_edge' = IF outcome = "failed" THEN rcv_ann_right_edge ELSE edge
        /\ IF outcome = "received"
           THEN acked' = Ahead(nxt, isn) /\ allowed' = Ahead(edge, isn)
           ELSE UNCHANGED <<acked, allowed>>

(* tcp_send_empty_ack: left to tcp_fasttmr if it fails. *)
tcp_send_empty_ack(nxt, ann, outcome) ==
    /\ announce(nxt, ann, outcome)
    /\ ack_delay' = (outcome = "failed")
    /\ ack_now' = (outcome = "failed")

(* tcp_output when nothing waits to be sent. *)
output_ack(delay, now, nxt, ann, outcome) ==
    IF now THEN tcp_send_empty_ack(nxt, ann, outcome)
    ELSE /\ ack_delay' = delay
         /\ ack_now' = FALSE
         /\ UNCHANGED <<rcv_ann_right_edge, acked, allowed>>

-----------------------------------------------------------------------------
(* tcp_receive. *)

(* Mutant: bytes received before are delivered again. *)
first_edge_kept(s) ==
    IF SeqBetween(rcv_nxt, s.seqno + 1, s.seqno + TcpLen(s) - 1)
    THEN [s EXCEPT !.seqno = rcv_nxt]
    ELSE s

(* The first edge is trimmed. *)
first_edge(s) ==
    IF SeqBetween(rcv_nxt, s.seqno + 1, s.seqno + TcpLen(s) - 1)
    THEN [s EXCEPT !.seqno = rcv_nxt, !.data = Drop(@, Ahead(rcv_nxt, s.seqno))]
    ELSE s

InWindow(seqno) == SeqBetween(seqno, rcv_nxt, rcv_nxt + rcv_wnd - 1)

(* In sequence.  The callback takes the data and calls tcp_recved; FIN calls
   it once more, and its place in the window is given back. *)
receive_next(s, outcome) ==
    \E d \in {dequeue(merge(Fit(s, rcv_wnd)))} :
    LET wnd == IF d.fin THEN rcv_wnd - 1 ELSE rcv_wnd
    IN  /\ ooseq' = d.rest
        /\ rcv_nxt' = d.nxt
        /\ rcv_wnd' = IF d.fin THEN Min({wnd + 1, TCP_WND}) ELSE wnd
        /\ rcv_ann_wnd' = ann_wnd(d.nxt, wnd)
        /\ delivered' = delivered \o d.data
        /\ eofs' = IF d.fin THEN eofs + 1 ELSE eofs
        /\ closed' = d.fin
        /\ output_ack(~ack_delay,
                      ack_now \/ ack_delay \/ d.fin
                          \/ (d.data # <<>> /\ announces(d.nxt, wnd)),
                      d.nxt, rcv_ann_wnd', outcome)

(* Too early: the segment is queued if there is room for a copy of it. *)
receive_early(s, copies, outcome) ==
    /\ ooseq' = IF ~copies THEN ooseq
                ELSE IF ooseq = <<>> THEN <<s>> ELSE queue(s)
    /\ tcp_send_empty_ack(rcv_nxt, rcv_ann_wnd, outcome)
    /\ UNCHANGED <<rcv_nxt, rcv_wnd, rcv_ann_wnd, delivered, eofs, closed>>

(* Mutant: a segment outside the window is ignored. *)
receive_outside_ignored(outcome) ==
    /\ output_ack(ack_delay, ack_now, rcv_nxt, rcv_ann_wnd, outcome)
    /\ UNCHANGED <<ooseq, rcv_nxt, rcv_wnd, rcv_ann_wnd, delivered, eofs, closed>>

(* Received before, or outside the window: acknowledged again. *)
receive_outside(outcome) ==
    /\ tcp_send_empty_ack(rcv_nxt, rcv_ann_wnd, outcome)
    /\ UNCHANGED <<ooseq, rcv_nxt, rcv_wnd, rcv_ann_wnd, delivered, eofs, closed>>

(* No data to take: none in the segment, or FIN was received. *)
receive_no_data(s, outcome) ==
    /\ output_ack(ack_delay, ack_now \/ ~InWindow(s.seqno), rcv_nxt, rcv_ann_wnd, outcome)
    /\ UNCHANGED <<ooseq, rcv_nxt, rcv_wnd, rcv_ann_wnd, delivered, eofs, closed>>

(* tcp_input of a segment p of the peer. *)
tcp_input(p, copies, outcome) ==
    \E s \in {first_edge([seqno |-> SeqNo(p.off), data |-> Bytes(p.off, p.len),
                          fin |-> p.fin])} :
        /\ IF closed \/ TcpLen(s) = 0 THEN receive_no_data(s, outcome)
           ELSE IF s.seqno = rcv_nxt /\ InWindow(s.seqno) THEN receive_next(s, outcome)
           ELSE IF InWindow(s.seqno) THEN receive_early(s, copies, outcome)
           ELSE receive_outside(outcome)
        /\ UNCHANGED isn

(* tcp_free_ooseq: tcp_slowtmr gives up segments that have waited too long,
   sys_check_timeouts those of a connection when the pool of pbufs is empty. *)
tcp_free_ooseq ==
    /\ ooseq # <<>>
    /\ ooseq' = <<>>
    /\ UNCHANGED <<isn, rcv_nxt, rcv_wnd, rcv_ann_wnd, rcv_ann_right_edge, ack_delay,
                   ack_now, closed, delivered, eofs, acked, allowed, rexmits>>

(* tcp_fasttmr sends a delayed ACK, and does not try again. *)
tcp_fasttmr(outcome) ==
    /\ ack_delay
    /\ announce(rcv_nxt, rcv_ann_wnd, outcome)
    /\ ack_delay' = FALSE /\ ack_now' = FALSE
    /\ UNCHANGED <<isn, rcv_nxt, rcv_wnd, rcv_ann_wnd, ooseq, closed, delivered, eofs>>

-----------------------------------------------------------------------------
(* A segment of the peer within the window it knows arrives. *)
Arrive == \E p \in Segments, copies \in BOOLEAN, outcome \in Outcomes :
    SegEnd(p) <= allowed /\ tcp_input(p, copies, outcome) /\ UNCHANGED rexmits

(* The peer sends again what was not acknowledged, and the ACK arrives. *)
Retransmit == \E p \in Segments :
    /\ p.off = acked /\ SegEnd(p) > p.off /\ SegEnd(p) <= allowed
    /\ tcp_input(p, TRUE, "received")
    /\ rexmits' = 1 - rexmits

DelayedAck == (\E outcome \in Outcomes : tcp_fasttmr(outcome)) /\ UNCHANGED rexmits

TcpInNext == Arrive \/ Retransmit \/ DelayedAck \/ tcp_free_ooseq

TcpInSpec == TcpInInit /\ [][TcpInNext]_tcpInVars

-----------------------------------------------------------------------------
(* The application gets the bytes of the stream in order, each once, and
   the end of the stream once, after all of them; rcv_nxt counts both. *)
StreamIntact ==
    /\ delivered = Bytes(0, Len(delivered))
    /\ eofs <= 1
    /\ eofs = 1 => Len(delivered) = StreamLen
    /\ rcv_nxt = SeqNo(Len(delivered) + eofs)

(* The queue holds bytes of the stream in ascending segments that do not
   overlap, above rcv_nxt and within the window: the assertions of
   tcp_receive on the lengths hold. *)
OoseqOrdered ==
    /\ \A i \in DOMAIN ooseq :
          LET s == ooseq[i]
              off == Ahead(s.seqno, isn)
          IN  /\ SeqGt(s.seqno, rcv_nxt)
              /\ s.data = Bytes(off, Len(s.data))
              /\ s.fin => off + Len(s.data) = StreamLen
              /\ SeqGeq(rcv_nxt + rcv_wnd, s.seqno + TcpLen(s))
              /\ i < Len(ooseq) => SeqGeq(ooseq[i + 1].seqno, s.seqno + TcpLen(s))

(* In whatever order segments arrive and overlap, what the application has
   and what is kept for it are the stream. *)
StreamSound == TcpInTypeOK /\ StreamIntact /\ OoseqOrdered

(* The right edge announced to the peer never moves left. *)
EdgeNeverShrinks == [][allowed' >= allowed]_tcpInVars

(* If the peer keeps retransmitting and its segments keep getting through,
   the whole stream ends up with the application, whatever was lost. *)
StreamDelivered == []<><<rexmits' # rexmits>>_tcpInVars => <>(eofs = 1)
=============================================================================
