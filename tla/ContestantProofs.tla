-------------------------- MODULE ContestantProofs --------------------------
(***************************************************************************)
(* The safety of the contestant loop for every pool of control blocks,     *)
(* window size and segment size.                                           *)
(***************************************************************************)
EXTENDS Contestant, TLAPS

(* Where the pointers lead: into the pool while the session lives, to a freed
   block between lwIP freeing it and the err callback. *)
Pointers ==
    /\ \A x \in Ports : conn[x] # NULL /\ x \notin errs =>
          pcb[conn[x]].st # "FREE" /\ pcb[conn[x]].port = x
    /\ \A x \in errs : conn[x] # NULL /\ pcb[conn[x]].st = "FREE"
    /\ \A p \in Pcbs : pcb[p].st # "FREE" => conn[pcb[p].port] = p

(* What each state of the session says about the pointers. *)
Sessions ==
    /\ state = "S_NOT_CONNECTED" => conn[10001] = NULL /\ conn[10002] = NULL
    /\ state = "S_CONNECTING_10002" => conn[10001] = NULL /\ conn[10002] # NULL
    /\ state \in {"S_CONNECTING_10001", "S_CONNECTED"} => conn[10002] # NULL
    /\ state = "S_CONNECTED" => \A p \in Pcbs : pcb[p].st # "SYN_SENT"
    /\ state = "S_CONNECTING_10001" =>
          \A p \in Pcbs : pcb[p].st = "SYN_SENT" => pcb[p].port = 10001

(* Callbacks are pending only before the timers, one kind at a time, and an
   abort is never left for the next iteration of the loop. *)
LoopOrder ==
    /\ errs # {} => ev = NoEv /\ phase = "timeouts"
    /\ ev # NoEv => phase \in {"timeouts", "panic"}
    /\ state = "S_ABORT_NEXT_TICK" => phase \in {"timeouts", "tick", "panic"}
    /\ ev.kind = "connected" =>
          /\ state \in {"S_CONNECTING_10002", "S_CONNECTING_10001"}
          /\ \A p \in Pcbs : pcb[p].st # "SYN_SENT"

(* The inductive strengthening of the safety properties. *)
IInv ==
    /\ TypeOK
    /\ Pointers
    /\ Sessions
    /\ LoopOrder
    /\ AnswersOnLiveConn
    /\ WindowIsolated
    /\ MaxSeg <= MaxBatch => NoPanic
-----------------------------------------------------------------------------
(* The records an idle event and an unused control block start with. *)
LEMMA FreshType ==
    /\ NoEv \in Events
    /\ FreePcb \in [st : PcbStates, port : Ports]
    /\ FreePcb.st = "FREE"
    /\ NoEv.kind = "none"
  BY SizeAssumption DEF NoEv, Events, Payloads, FreePcb, PcbStates, Ports

(* After contestant_init there is no session and no pending callback. *)
LEMMA InitIInv == Init => IInv
<1> SUFFICES ASSUME Init PROVE IInv
  OBVIOUS
<1>1. TypeOK
  BY FreshType DEF Init, TypeOK, States, Origins
<1>2. Pointers
  BY FreshType DEF Init, Pointers, Ports
<1>3. Sessions /\ LoopOrder /\ NoPanic
  BY FreshType DEF Init, Sessions, LoopOrder, NoPanic, Ports
<1>4. AnswersOnLiveConn /\ WindowIsolated
  BY DEF Init, AnswersOnLiveConn, WindowIsolated
<1> QED BY <1>1, <1>2, <1>3, <1>4 DEF IInv

(* Sliding the solver's window keeps its length. *)
LEMMA ShiftType ==
    ASSUME NEW w \in [1 .. N -> Origins], NEW len \in Nat, NEW origin \in Origins
    PROVE  Shift(w, len, origin) \in [1 .. N -> Origins]
  BY SizeAssumption DEF Shift, Origins

(* Every packet, timer, callback and tick preserves the invariant. *)
LEMMA NextIInv == IInv /\ [Next]_vars => IInv'
<1> SUFFICES ASSUME IInv, [Next]_vars PROVE IInv'
  OBVIOUS
<1> USE DEF IInv, TypeOK, Ports
<1>1. CASE ReceiveNothing
  BY <1>1
  DEF Pointers, Sessions, LoopOrder, AnswersOnLiveConn, WindowIsolated, NoPanic, Receive,
      ReceiveNothing
<1>2. CASE ReceiveLease
  BY <1>2
  DEF Pointers, Sessions, LoopOrder, AnswersOnLiveConn, WindowIsolated, NoPanic, Receive,
      ReceiveLease
<1>3. ASSUME NEW p \in Pcbs, ReceiveSynAck(p) PROVE IInv'
  <2> USE <1>3 DEF ReceiveSynAck, Receive, Quiet
  <2>1. state \in {"S_CONNECTING_10002", "S_CONNECTING_10001"}
    BY NullAssumption DEF Pointers, Sessions, LoopOrder, States
  <2>2. \A q \in Pcbs : pcb[q].st = "SYN_SENT" => q = p
    BY <2>1, NullAssumption DEF Pointers, Sessions
  <2>3. /\ pcb' \in [Pcbs -> [st : PcbStates, port : Ports]]
        /\ \A q \in Pcbs : /\ pcb'[q].port = pcb[q].port
                           /\ pcb'[q].st = IF q = p THEN "ESTABLISHED" ELSE pcb[q].st
    BY DEF PcbStates
  <2>4. ev' \in Events /\ ev' # NoEv /\ ev'.kind = "connected"
    BY FreshType, SizeAssumption DEF ConnectedEv, Events
  <2>5. TypeOK'
    BY <2>3, <2>4
  <2>6. Pointers' /\ Sessions'
    BY <2>2, <2>3 DEF Pointers, Sessions
  <2>7. LoopOrder' /\ NoPanic' /\ AnswersOnLiveConn' /\ WindowIsolated'
    BY <2>1, <2>2, <2>3, <2>4 DEF LoopOrder, NoPanic, AnswersOnLiveConn, WindowIsolated
  <2> QED BY <2>5, <2>6, <2>7
<1>4. ASSUME NEW p \in Pcbs, NEW len \in 1 .. MaxSeg, NEW d \in Payloads, NEW next \in {"none", "fin"},
             ReceiveData(p, len, d, next) PROVE IInv'
  BY <1>4
  DEF PcbStates, Events, Payloads, Pointers, Sessions, LoopOrder, AnswersOnLiveConn,
      WindowIsolated, NoPanic, Receive, ReceiveData
<1>5. ASSUME NEW p \in Pcbs, ReceiveFin(p) PROVE IInv'
  BY <1>5, SizeAssumption
  DEF PcbStates, Events, FinEv, Pointers, Sessions, LoopOrder, AnswersOnLiveConn,
      WindowIsolated, NoPanic, Receive, ReceiveFin
<1>6. ASSUME NEW p \in Pcbs, ReceiveRst(p) PROVE IInv'
  BY <1>6, NullAssumption
  DEF PcbStates, FreePcb, Pointers, Sessions, LoopOrder, AnswersOnLiveConn, WindowIsolated,
      NoPanic, Receive, ReceiveRst, LivePcbs
<1>7. ASSUME NEW p \in Pcbs, RetransmissionTimeout(p) PROVE IInv'
  BY <1>7, NullAssumption
  DEF PcbStates, FreePcb, Pointers, Sessions, LoopOrder, AnswersOnLiveConn, WindowIsolated,
      NoPanic, Timeouts, Quiet, RetransmissionTimeout, InState
<1>8. ASSUME NEW bound \in BOOLEAN, ReceiveAddressChange(bound) PROVE IInv'
  BY <1>8, NullAssumption
  DEF PcbStates, FreePcb, Pointers, Sessions, LoopOrder, AnswersOnLiveConn, WindowIsolated,
      NoPanic, Receive, ReceiveAddressChange, AddressChanges, LivePcbs
<1>9. ASSUME NEW bound \in BOOLEAN, Timeouts, AddressChanges(bound), UNCHANGED phase PROVE IInv'
  BY <1>9, NullAssumption
  DEF PcbStates, FreePcb, Pointers, Sessions, LoopOrder, AnswersOnLiveConn, WindowIsolated,
      NoPanic, Timeouts, Quiet, AddressChanges, LivePcbs
<1>10. CASE Reboot
  <2>1. Init'
    BY <1>10 DEF Reboot, Init
  <2>2. Init' => IInv'
    BY InitIInv, PTL
  <2> QED BY <2>1, <2>2
<1>11. CASE TimeoutsDone
  BY <1>11
  DEF Pointers, Sessions, LoopOrder, AnswersOnLiveConn, WindowIsolated, NoPanic, Timeouts,
      Quiet, TimeoutsDone
<1>12. ASSUME NEW x \in Ports, tcp_err_fn(x) PROVE IInv'
  <2> USE <1>12 DEF tcp_err_fn
  <2>1. TypeOK'
    BY DEF States
  <2>2. Pointers'
    BY NullAssumption DEF Pointers
  <2>3. Sessions' /\ (MaxSeg <= MaxBatch => NoPanic')
    BY DEF Sessions, NoPanic
  <2>4. LoopOrder'
    BY FreshType DEF LoopOrder
  <2>5. AnswersOnLiveConn' /\ WindowIsolated'
    BY DEF AnswersOnLiveConn, WindowIsolated
  <2> QED BY <2>1, <2>2, <2>3, <2>4, <2>5
<1>13. CASE tcp_recv_fn_closed
  BY <1>13, SizeAssumption
  DEF States, Events, NoEv, Pointers, Sessions, LoopOrder, AnswersOnLiveConn, WindowIsolated,
      NoPanic, tcp_recv_fn_closed
<1>14. CASE tcp_recv_fn
  <2> USE <1>14 DEF tcp_recv_fn, RecvInput
  <2>0. ev # NoEv /\ ev.len \in 1 .. MaxSeg
    BY FreshType DEF Events, Payloads
  <2>1. ev' \in Events /\ ev'.kind # "connected" /\ errs = {} /\ phase = "timeouts"
    BY <2>0, FreshType, SizeAssumption DEF Events, FinEv, LoopOrder
  <2>2. wrote' = {} \/ (state = "S_CONNECTED" /\ wrote' = {conn[10002]})
    BY DEF ContestantSend
  <2>3. win' = win \/ win' = Shift(win, ev.len, "cur")
    OBVIOUS
  <2>4. win' \in [1 .. N -> Origins]
    BY <2>0, <2>3, ShiftType, SizeAssumption DEF Origins
  <2>5. phase' \in {phase, "panic"} /\ (MaxSeg <= MaxBatch => phase' = phase)
    BY SizeAssumption DEF Events
  <2>6. TypeOK'
    BY <2>1, <2>2, <2>4, <2>5
  <2>7. Pointers' /\ Sessions'
    BY DEF Pointers, Sessions
  <2>8. LoopOrder' /\ (MaxSeg <= MaxBatch => NoPanic')
    BY <2>1, <2>5 DEF LoopOrder, NoPanic
  <2>9. AnswersOnLiveConn'
    BY <2>1, <2>2 DEF AnswersOnLiveConn, Sessions, Pointers
  <2>10. WindowIsolated'
    <3> SUFFICES ASSUME state = "S_CONNECTED", NEW i \in 1 .. N PROVE win'[i] # "old"
      BY DEF WindowIsolated
    <3>1. win[i] # "old" /\ (i + ev.len <= N => win[i + ev.len] # "old")
      BY <2>0, SizeAssumption DEF WindowIsolated
    <3>2. CASE win' = win
      BY <3>1, <3>2
    <3>3. CASE win' = Shift(win, ev.len, "cur")
      <4>1. win'[i] = IF i + ev.len <= N THEN win[i + ev.len] ELSE "cur"
        BY <3>3 DEF Shift
      <4> QED BY <3>1, <4>1
    <3> QED BY <2>3, <3>2, <3>3
  <2> QED BY <2>6, <2>7, <2>8, <2>9, <2>10
<1>15. CASE tcp_connected_fn
  <2> USE <1>15 DEF tcp_connected_fn
  <2>0. errs = {} /\ phase = "timeouts" /\ \A p \in Pcbs : pcb[p].st # "SYN_SENT"
    BY DEF LoopOrder, NoEv
  <2>1. CASE state = "S_CONNECTING_10002"
    <3>1. PICK p \in Pcbs : /\ pcb[p].st = "FREE"
                            /\ conn' = [conn EXCEPT ![10001] = p]
                            /\ pcb' = [pcb EXCEPT ![p] = [st |-> "SYN_SENT", port |-> 10001]]
                            /\ phase' = phase
      <4>1. LivePcbs # Pcbs
        BY <2>1, PoolAssumption, NullAssumption DEF LivePcbs, Pointers, Sessions
      <4> QED BY <2>1, <4>1 DEF StartConnecting, LivePcbs
    <3>2. state' = "S_CONNECTING_10001" /\ wrote' = {} /\ win' = win
      BY <2>1 DEF StartConnecting
    <3>3. TypeOK'
      BY <3>1, <3>2, FreshType DEF States, PcbStates
    <3>4. Pointers'
      BY <2>0, <2>1, <3>1, NullAssumption DEF Pointers, Sessions
    <3>5. Sessions'
      BY <2>0, <2>1, <3>1, <3>2, <3>4, NullAssumption DEF Sessions, Pointers, LoopOrder
    <3>6. LoopOrder' /\ (MaxSeg <= MaxBatch => NoPanic')
      BY <2>0, <3>1, <3>2, FreshType DEF LoopOrder, NoPanic
    <3>7. AnswersOnLiveConn' /\ WindowIsolated'
      BY <3>2 DEF AnswersOnLiveConn, WindowIsolated
    <3> QED BY <3>3, <3>4, <3>5, <3>6, <3>7
  <2>2. CASE state = "S_CONNECTING_10001"
    <3>1. /\ state' = "S_CONNECTED"
          /\ win' = Shift(Aged(win), FillLen, "fill")
          /\ wrote' \in {{}, {conn[10002]}}
          /\ UNCHANGED <<phase, conn, pcb, hasIP, errs>>
      BY <2>2, SizeAssumption DEF RecvInput, ContestantSend
    <3>2. Aged(win) \in [1 .. N -> Origins]
      BY DEF Aged, Origins
    <3>3. win' \in [1 .. N -> Origins] /\ \A i \in 1 .. N : win'[i] # "old"
      BY <3>1, <3>2, ShiftType, SizeAssumption DEF Shift, Origins
    <3>4. TypeOK'
      BY <3>1, <3>3, FreshType DEF States
    <3>5. Pointers' /\ Sessions'
      BY <2>0, <2>2, <3>1 DEF Pointers, Sessions
    <3>6. LoopOrder' /\ (MaxSeg <= MaxBatch => NoPanic')
      BY <2>0, <3>1, FreshType DEF LoopOrder, NoPanic
    <3>7. AnswersOnLiveConn' /\ WindowIsolated'
      BY <2>0, <2>2, <3>1, <3>3 DEF AnswersOnLiveConn, WindowIsolated, Pointers, Sessions
    <3> QED BY <3>4, <3>5, <3>6, <3>7
  <2> QED BY <2>1, <2>2 DEF LoopOrder
<1>16. CASE contestant_tick
  <2> USE <1>16 DEF contestant_tick, Quiet
  <2>1. CASE state = "S_NOT_CONNECTED" /\ hasIP
    <3>1. LivePcbs = {}
      BY <2>1, NullAssumption DEF LivePcbs, Pointers, Sessions
    <3>2. PICK p \in Pcbs : /\ conn' = [conn EXCEPT ![10002] = p]
                            /\ pcb' = [pcb EXCEPT ![p] = [st |-> "SYN_SENT", port |-> 10002]]
                            /\ phase' = "receive"
      BY <2>1, <3>1, PoolAssumption DEF StartConnecting
    <3>3. state' = "S_CONNECTING_10002" /\ wrote' = {} /\ UNCHANGED <<hasIP, win, ev, errs>>
      BY <2>1 DEF StartConnecting
    <3>4. TypeOK'
      BY <3>2, <3>3 DEF States, PcbStates
    <3>5. Pointers'
      BY <2>1, <3>1, <3>2, <3>3, NullAssumption DEF Pointers, Sessions, LivePcbs
    <3>6. Sessions' /\ LoopOrder' /\ NoPanic'
      BY <2>1, <3>2, <3>3, FreshType, NullAssumption DEF Sessions, LoopOrder, NoPanic
    <3>7. AnswersOnLiveConn' /\ WindowIsolated'
      BY <3>3 DEF AnswersOnLiveConn, WindowIsolated
    <3> QED BY <3>4, <3>5, <3>6, <3>7
  <2>2. CASE state = "S_ABORT_NEXT_TICK"
    <3>1. /\ conn' = [x \in Ports |-> NULL]
          /\ pcb' \in [Pcbs -> [st : PcbStates, port : Ports]]
          /\ \A p \in Pcbs : pcb'[p].st = "FREE"
          /\ state' = "S_NOT_CONNECTED" /\ phase' = "receive" /\ wrote' = {}
          /\ UNCHANGED <<hasIP, win, ev, errs>>
      <4>1. \A p \in Pcbs : p \notin {conn[x] : x \in Ports} => pcb[p].st = "FREE"
        BY DEF Pointers
      <4> QED BY <2>2, <4>1, FreshType
    <3>2. TypeOK'
      BY <3>1, FreshType DEF States
    <3>3. Pointers'
      BY <3>1, FreshType DEF Pointers
    <3>4. Sessions' /\ LoopOrder' /\ NoPanic'
      BY <3>1, FreshType DEF Sessions, LoopOrder, NoPanic
    <3>5. AnswersOnLiveConn' /\ WindowIsolated'
      BY <3>1 DEF AnswersOnLiveConn, WindowIsolated
    <3> QED BY <3>2, <3>3, <3>4, <3>5
  <2>3. CASE ~(state = "S_NOT_CONNECTED" /\ hasIP) /\ state # "S_ABORT_NEXT_TICK"
    <3>1. phase' = "receive" /\ wrote' = {} /\ UNCHANGED <<state, conn, pcb, hasIP, win, ev, errs>>
      BY <2>3
    <3> QED BY <2>3, <3>1, FreshType DEF Pointers, Sessions, LoopOrder, AnswersOnLiveConn, WindowIsolated, NoPanic
  <2> QED BY <2>1, <2>2, <2>3
<1>17. CASE UNCHANGED vars
  BY <1>17 DEF Pointers, Sessions, LoopOrder, AnswersOnLiveConn, WindowIsolated, NoPanic, vars
<1> HIDE DEF IInv, TypeOK, Ports
<1>18. CASE LeaseTimeout
  BY <1>9, <1>18 DEF LeaseTimeout
<1> QED
  BY <1>1, <1>2, <1>3, <1>4, <1>5, <1>6, <1>7, <1>8, <1>9, <1>10, <1>11,
     <1>12, <1>13, <1>14, <1>15, <1>16, <1>17, <1>18
  DEF Next, Fault, Callback

(* The strengthened invariant holds in every reachable state. *)
LEMMA Inductive == Spec => []IInv
  BY InitIInv, NextIInv, PTL DEF Spec

(* conn_10001 and conn_10002 are exactly the live control blocks between
   callbacks: tcp_abort in contestant_tick leaks none and hits no freed one.
   The state of the loop, of lwIP's control blocks and of the solver's window
   keep their types, whatever callbacks and packets arrive. *)
THEOREM PointersTrackPool == Spec => []PoolSound
<1>1. IInv => ConnsTrackPcbs
  BY DEF IInv, Pointers, ConnsTrackPcbs, LivePcbs
<1>2. IInv => PoolSound
  BY <1>1 DEF IInv, PoolSound
<1> QED BY <1>2, Inductive, PTL

(* contestant_send never gives tcp_write a null or freed connection. *)
THEOREM AnswersReachSession == Spec => []AnswersOnLiveConn
<1>1. IInv => AnswersOnLiveConn
  BY DEF IInv
<1> QED BY <1>1, Inductive, PTL

(* No session sees digits of an earlier one: the padding is at least as long
   as the window. *)
THEOREM SessionsIsolated == Spec => []WindowIsolated
<1>1. IInv => WindowIsolated
  BY DEF IInv
<1> QED BY <1>1, Inductive, PTL

(* If lwIP never delivers more bytes at once than the solver takes, no
   assertion of the connection code or of recv_input fails. *)
THEOREM AssertionsHold ==
    ASSUME MaxSeg <= MaxBatch
    PROVE  Spec => []NoPanic
<1>1. IInv => NoPanic
  BY DEF IInv
<1> QED BY <1>1, Inductive, PTL
=============================================================================
