----------------------------- MODULE Contestant -----------------------------
(***************************************************************************)
(* The contestant loop of kern/contestant.cpp: two TCP sessions to the     *)
(* server, 10002 for the answers and then 10001 for the digits, driven by  *)
(* lwIP callbacks from a single polling loop                               *)
(*                                                                         *)
(*   receive at most one packet -> lwIP timers -> contestant_tick          *)
(*                                                                         *)
(* Nothing preempts the loop, so an action is one packet's effect inside   *)
(* lwIP, one callback, or one tick.  A packet or a timer only records the  *)
(* callbacks lwIP is about to make (ev, errs); the callback actions run    *)
(* them before the loop goes on.                                           *)
(*                                                                         *)
(* The digits held by the solver are abstracted to where they came from:   *)
(* the padding sent on connecting, the current session, an earlier one.    *)
(***************************************************************************)
EXTENDS Integers

CONSTANTS
    Pcbs,       \* lwIP's pool of TCP control blocks (MEMP_NUM_TCP_PCB)
    NULL,       \* the null pointer
    N,          \* Solver::N, digits kept between batches
    FillLen,    \* invalid_buffer_len
    MaxBatch,   \* Solver::MAX_BATCH_SIZE
    MaxSeg      \* longest run of bytes one recv callback can deliver

ASSUME PoolAssumption == \E p, q \in Pcbs : p # q
ASSUME NullAssumption == NULL \notin Pcbs
ASSUME SizeAssumption ==
    /\ N \in Nat \ {0}
    /\ FillLen \in Nat
    /\ MaxBatch \in Nat
    /\ MaxSeg \in Nat \ {0}
    /\ N <= FillLen
    /\ FillLen <= MaxBatch

VARIABLES
    state,      \* enum { S_NOT_CONNECTED, ... }
    conn,       \* conn_10001, conn_10002
    pcb,        \* lwIP's control blocks
    hasIP,      \* netif.ip_addr.addr != IPADDR_ANY
    win,        \* Solver::digits[0 .. N-1], as origins
    phase,      \* the loop statement to run next, or "panic"
    ev,         \* the connected or recv callback lwIP is about to make
    errs,       \* the ports whose err callback lwIP is about to make
    wrote       \* targets of the tcp_write calls of the last step

vars == <<state, conn, pcb, hasIP, win, phase, ev, errs, wrote>>

Ports == {10001, 10002}
States == {"S_NOT_CONNECTED", "S_CONNECTING_10002", "S_CONNECTING_10001",
           "S_CONNECTED", "S_ABORT_NEXT_TICK"}
PcbStates == {"FREE", "SYN_SENT", "ESTABLISHED", "CLOSE_WAIT"}
Origins == {"fill", "cur", "old"}
Payloads == {"digits", "mixed"}     \* all bytes are digits, or not all
Events == [kind : {"none", "connected", "fin"} \cup Payloads, port : Ports,
           len : 1 .. MaxSeg, next : {"none", "fin"}]

NoEv == [kind |-> "none", port |-> 10001, len |-> 1, next |-> "none"]
FinEv(x) == [kind |-> "fin", port |-> x, len |-> 1, next |-> "none"]
ConnectedEv(x) == [kind |-> "connected", port |-> x, len |-> 1, next |-> "none"]
FreePcb == [st |-> "FREE", port |-> 10001]

(* The session state, lwIP's control blocks and pending callbacks, and the
   window have their types. *)
TypeOK ==
    /\ state \in States
    /\ conn \in [Ports -> Pcbs \cup {NULL}]
    /\ pcb \in [Pcbs -> [st : PcbStates, port : Ports]]
    /\ hasIP \in BOOLEAN
    /\ win \in [1 .. N -> Origins]
    /\ phase \in {"receive", "timeouts", "tick", "panic"}
    /\ ev \in Events
    /\ errs \in SUBSET Ports
    /\ wrote \in SUBSET (Pcbs \cup {NULL})

-----------------------------------------------------------------------------
(* After contestant_init: the benchmark has filled the window with nines.  *)
Init ==
    /\ state = "S_NOT_CONNECTED"
    /\ conn = [x \in Ports |-> NULL]
    /\ pcb = [p \in Pcbs |-> FreePcb]
    /\ hasIP = FALSE
    /\ win = [i \in 1 .. N |-> "fill"]
    /\ phase = "receive"
    /\ ev = NoEv
    /\ errs = {}
    /\ wrote = {}

Quiet == ev = NoEv /\ errs = {}     \* lwIP has returned to the loop
LivePcbs == {p \in Pcbs : pcb[p].st # "FREE"}
InState(p, x, sts) == pcb[p].port = x /\ pcb[p].st \in sts

(* Mutant: the window slides one digit short. *)
ShiftShort(w, len, origin) ==
    [i \in 1 .. N |-> IF i + len <= N + 1 THEN w[i + len - 1] ELSE origin]

(* Solver::recv_input followed by prepare: the window slides by len digits. *)
Shift(w, len, origin) ==
    [i \in 1 .. N |-> IF i + len <= N THEN w[i + len] ELSE origin]

Aged(w) == [i \in 1 .. N |-> IF w[i] = "cur" THEN "old" ELSE w[i]]

(* contestant_send, called by the solver for each hit: no guard on conn_10002. *)
ContestantSend(st) ==
    IF st = "S_CONNECTED" THEN wrote' \in {{}, {conn[10002]}} ELSE wrote' = {}

(* recv_input asserts the batch size; the assertion reboots the machine. *)
RecvInput(w, len, origin, st) ==
    IF 1 <= len /\ len <= MaxBatch
    THEN /\ win' = Shift(w, len, origin)
         /\ ContestantSend(st)
         /\ UNCHANGED phase
    ELSE /\ phase' = "panic"
         /\ wrote' = {}
         /\ UNCHANGED win

(* start_connecting and start_connecting_10001. *)
StartConnecting(x, st, nextPhase) ==
    /\ state' = st
    /\ wrote' = {}
    /\ IF LivePcbs = Pcbs
       THEN /\ conn' = [conn EXCEPT ![x] = NULL]
            /\ phase' = "panic"
            /\ UNCHANGED pcb
       ELSE \E p \in Pcbs \ LivePcbs :
            /\ conn' = [conn EXCEPT ![x] = p]
            /\ pcb' = [pcb EXCEPT ![p] = [st |-> "SYN_SENT", port |-> x]]
            /\ phase' = nextPhase

-----------------------------------------------------------------------------
(* The receive statement of the loop: nothing, or one packet for lwIP. *)

Receive == phase = "receive" /\ Quiet /\ phase' = "timeouts" /\ wrote' = {}

(* No packet, or one that changes none of this state (ARP, a bare ACK). *)
ReceiveNothing ==
    /\ Receive
    /\ UNCHANGED <<state, conn, pcb, hasIP, win, ev, errs>>

(* SYN-ACK for a connection being opened. *)
ReceiveSynAck(p) ==
    /\ Receive
    /\ pcb[p].st = "SYN_SENT"
    /\ pcb' = [pcb EXCEPT ![p].st = "ESTABLISHED"]
    /\ ev' = ConnectedEv(pcb[p].port)
    /\ UNCHANGED <<state, conn, hasIP, win, errs>>

(* In-order data, and perhaps the FIN after it, in one delivery. *)
ReceiveData(p, len, payload, next) ==
    /\ Receive
    /\ pcb[p].st = "ESTABLISHED"
    /\ pcb' = [pcb EXCEPT ![p].st = IF next = "fin" THEN "CLOSE_WAIT" ELSE @]
    /\ ev' = [kind |-> payload, port |-> pcb[p].port, len |-> len, next |-> next]
    /\ UNCHANGED <<state, conn, hasIP, win, errs>>

ReceiveFin(p) ==
    /\ Receive
    /\ pcb[p].st = "ESTABLISHED"
    /\ pcb' = [pcb EXCEPT ![p].st = "CLOSE_WAIT"]
    /\ ev' = FinEv(pcb[p].port)
    /\ UNCHANGED <<state, conn, hasIP, win, errs>>

ReceiveRst(p) ==
    /\ Receive
    /\ p \in LivePcbs
    /\ pcb' = [pcb EXCEPT ![p] = FreePcb]
    /\ errs' = {pcb[p].port}
    /\ UNCHANGED <<state, conn, hasIP, win, ev>>

(* DHCP binds an address. *)
ReceiveLease ==
    /\ Receive
    /\ ~hasIP
    /\ hasIP' = TRUE
    /\ UNCHANGED <<state, conn, pcb, win, ev, errs>>

(* lwIP aborts every connection bound to an address that goes away. *)
AddressChanges(bound) ==
    /\ hasIP
    /\ hasIP' = bound
    /\ pcb' = [p \in Pcbs |-> FreePcb]
    /\ errs' = {pcb[p].port : p \in LivePcbs}
    /\ UNCHANGED <<state, conn, win, ev>>

(* A DHCP NAK, or an ACK for another address. *)
ReceiveAddressChange(bound) == Receive /\ AddressChanges(bound)

(* The UDP packet for port 23579, and the end of abort(): GG_reboot. *)
Reboot ==
    /\ phase = "panic" \/ (phase = "receive" /\ Quiet)
    /\ state' = "S_NOT_CONNECTED"
    /\ conn' = [x \in Ports |-> NULL]
    /\ pcb' = [p \in Pcbs |-> FreePcb]
    /\ hasIP' = FALSE
    /\ win' = [i \in 1 .. N |-> "fill"]
    /\ phase' = "receive"
    /\ ev' = NoEv
    /\ errs' = {}
    /\ wrote' = {}

-----------------------------------------------------------------------------
(* sys_check_timeouts. *)

Timeouts == phase = "timeouts" /\ Quiet /\ wrote' = {}

(* Out of retransmissions: a SYN, or answers on 10002; 10001 sends no data. *)
RetransmissionTimeout(p) ==
    /\ Timeouts
    /\ pcb[p].st = "SYN_SENT" \/ InState(p, 10002, {"ESTABLISHED", "CLOSE_WAIT"})
    /\ pcb' = [pcb EXCEPT ![p] = FreePcb]
    /\ errs' = {pcb[p].port}
    /\ UNCHANGED <<state, conn, hasIP, win, phase, ev>>

LeaseTimeout == Timeouts /\ AddressChanges(FALSE) /\ UNCHANGED phase

TimeoutsDone ==
    /\ Timeouts
    /\ phase' = "tick"
    /\ UNCHANGED <<state, conn, pcb, hasIP, win, ev, errs>>

-----------------------------------------------------------------------------
(* The callbacks of kern/contestant.cpp. *)

(* Mutant: the pointer to the freed block is kept. *)
ErrKeepsConn(x) ==
    /\ x \in errs
    /\ state' = "S_ABORT_NEXT_TICK"
    /\ errs' = errs \ {x}
    /\ wrote' = {}
    /\ UNCHANGED <<conn, pcb, hasIP, win, phase, ev>>

(* Mutant: the abort is not scheduled. *)
ErrWithoutAbort(x) ==
    /\ x \in errs
    /\ conn' = [conn EXCEPT ![x] = NULL]
    /\ errs' = errs \ {x}
    /\ wrote' = {}
    /\ UNCHANGED <<state, pcb, hasIP, win, phase, ev>>

tcp_err_fn(x) ==
    /\ x \in errs
    /\ conn' = [conn EXCEPT ![x] = NULL]
    /\ state' = "S_ABORT_NEXT_TICK"
    /\ errs' = errs \ {x}
    /\ wrote' = {}
    /\ UNCHANGED <<pcb, hasIP, win, phase, ev>>

tcp_connected_fn ==
    /\ ev.kind = "connected"
    /\ phase # "panic"
    /\ ev' = NoEv
    /\ CASE state = "S_CONNECTING_10002" ->
              /\ StartConnecting(10001, "S_CONNECTING_10001", phase)
              /\ UNCHANGED win
         [] state = "S_CONNECTING_10001" ->
              /\ state' = "S_CONNECTED"
              /\ RecvInput(Aged(win), FillLen, "fill", "S_CONNECTED")
              /\ UNCHANGED <<conn, pcb>>
         [] OTHER ->
              /\ phase' = "panic"
              /\ wrote' = {}
              /\ UNCHANGED <<state, conn, pcb, win>>
    /\ UNCHANGED <<hasIP, errs>>

(* p == NULL in either recv callback. *)
tcp_recv_fn_closed ==
    /\ ev.kind = "fin"
    /\ phase # "panic"
    /\ state' = "S_ABORT_NEXT_TICK"
    /\ ev' = NoEv
    /\ wrote' = {}
    /\ UNCHANGED <<conn, pcb, hasIP, win, phase, errs>>

(* A delivery with any non-digit in it is dropped whole. *)
tcp_recv_fn ==
    /\ ev.kind \in Payloads
    /\ phase # "panic"
    /\ ev' = IF ev.next = "fin" THEN FinEv(ev.port) ELSE NoEv
    /\ IF ev.port = 10001 /\ ev.kind = "digits"
       THEN RecvInput(win, ev.len, "cur", state)
       ELSE wrote' = {} /\ UNCHANGED <<win, phase>>
    /\ UNCHANGED <<state, conn, pcb, hasIP, errs>>

(* Mutant: the sessions are forgotten, not aborted. *)
TickWithoutAbort ==
    /\ phase = "tick"
    /\ Quiet
    /\ CASE state = "S_NOT_CONNECTED" /\ hasIP ->
              StartConnecting(10002, "S_CONNECTING_10002", "receive")
         [] state = "S_ABORT_NEXT_TICK" ->
              /\ conn' = [x \in Ports |-> NULL]
              /\ state' = "S_NOT_CONNECTED"
              /\ phase' = "receive"
              /\ wrote' = {}
              /\ UNCHANGED pcb
         [] OTHER ->
              /\ phase' = "receive"
              /\ wrote' = {}
              /\ UNCHANGED <<state, conn, pcb>>
    /\ UNCHANGED <<hasIP, win, ev, errs>>

(* Mutant: the abort branch is missing. *)
TickOnlyConnects ==
    /\ phase = "tick"
    /\ Quiet
    /\ IF state = "S_NOT_CONNECTED" /\ hasIP
       THEN StartConnecting(10002, "S_CONNECTING_10002", "receive")
       ELSE phase' = "receive" /\ wrote' = {} /\ UNCHANGED <<state, conn, pcb>>
    /\ UNCHANGED <<hasIP, win, ev, errs>>

(* tcp_abort calls the err callback, whose effect the lines after it repeat
   (conn = NULL) or override (state). *)
contestant_tick ==
    /\ phase = "tick"
    /\ Quiet
    /\ CASE state = "S_NOT_CONNECTED" /\ hasIP ->
              StartConnecting(10002, "S_CONNECTING_10002", "receive")
         [] state = "S_ABORT_NEXT_TICK" ->
              /\ pcb' = [p \in Pcbs |->
                           IF p \in {conn[x] : x \in Ports} THEN FreePcb ELSE pcb[p]]
              /\ conn' = [x \in Ports |-> NULL]
              /\ state' = "S_NOT_CONNECTED"
              /\ phase' = "receive"
              /\ wrote' = {}
         [] OTHER ->
              /\ phase' = "receive"
              /\ wrote' = {}
              /\ UNCHANGED <<state, conn, pcb>>
    /\ UNCHANGED <<hasIP, win, ev, errs>>

-----------------------------------------------------------------------------
Callback == tcp_connected_fn \/ tcp_recv_fn \/ tcp_recv_fn_closed \/ \E x \in Ports : tcp_err_fn(x)

(* What the network and the server do to a session. *)
Fault ==
    \/ \E p \in Pcbs : ReceiveFin(p) \/ ReceiveRst(p) \/ RetransmissionTimeout(p)
    \/ \E p \in Pcbs, len \in 1 .. MaxSeg, d \in Payloads : ReceiveData(p, len, d, "fin")
    \/ \E bound \in BOOLEAN : ReceiveAddressChange(bound)
    \/ LeaseTimeout
    \/ Reboot

Next ==
    \/ ReceiveNothing
    \/ ReceiveLease
    \/ \E p \in Pcbs : ReceiveSynAck(p)
    \/ \E p \in Pcbs, len \in 1 .. MaxSeg, d \in Payloads : ReceiveData(p, len, d, "none")
    \/ Fault
    \/ TimeoutsDone
    \/ Callback
    \/ contestant_tick

Spec == Init /\ [][Next]_vars

(* The loop never blocks.  The server accepts and DHCP answers: a SYN or a
   request that is repeated for ever is answered some time. *)
Fairness ==
    /\ WF_vars(ReceiveNothing)
    /\ WF_vars(TimeoutsDone)
    /\ WF_vars(Callback)
    /\ WF_vars(contestant_tick)
    /\ SF_vars(ReceiveLease)
    /\ SF_vars(\E p \in Pcbs : ReceiveSynAck(p))

FairSpec == Spec /\ Fairness
-----------------------------------------------------------------------------
(* Between callbacks the two connection pointers and lwIP's pool agree: a
   pointer is NULL or a live control block opened to that port, and no live
   block is unreferenced.  It is what makes tcp_abort in contestant_tick hit
   every session and never a freed or reused block (err callbacks clear a
   pointer by port, not by block). *)
ConnsTrackPcbs ==
    errs = {} => /\ \A x \in Ports : conn[x] # NULL => pcb[conn[x]].st # "FREE" /\ pcb[conn[x]].port = x
                 /\ \A p \in LivePcbs : conn[pcb[p].port] = p

(* The loop, the pool and the window keep their types with it. *)
PoolSound == TypeOK /\ ConnsTrackPcbs

(* No assertion of the connection code fails: tcp_connected_fn runs in one of
   the two connecting states (line 76), tcp_new finds a block (137, 150), and
   every batch handed to the solver has an admissible size (solver 258). *)
NoPanic == phase # "panic"

(* contestant_send hands conn_10002 to tcp_write without looking at it: the
   pointer is always an established session to the answer port. *)
AnswersOnLiveConn ==
    \A c \in wrote : c # NULL /\ pcb[c].port = 10002 /\ pcb[c].st # "FREE"

(* Once a session is up, the padding has pushed every digit of earlier
   sessions out of the solver's window, whatever aborted them, so no answer
   computed from this session's data spans two sessions. *)
WindowIsolated ==
    state = "S_CONNECTED" => \A i \in 1 .. N : win[i] # "old"

(* When faults stop, the loop gets to S_CONNECTED and stays there, from every
   state that the aborts, half-opened sessions and lost addresses left. *)
Reconnects == <>[][~Fault]_vars => <>[](state = "S_CONNECTED")
=============================================================================
