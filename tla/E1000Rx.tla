------------------------------ MODULE E1000Rx ------------------------------
(***************************************************************************)
(* The receive side of lib/e1000.cpp.  The card fills descriptors from RDH *)
(* up to RDT, not including it; receive() takes the descriptor after       *)
(* e1000_rdt when its done bit is set and hands descriptors back to the    *)
(* card only once every RQ_FLUSH_COUNT, by writing RDT.                    *)
(*                                                                         *)
(* Packets are numbered modulo Ids in the order the card accepts them.     *)
(***************************************************************************)
EXTENDS Integers

CONSTANTS
    RQSIZE,
    RQ_FLUSH_COUNT,
    NoPacket,       \* descriptor without the done bit
    Ids

ASSUME RxAssumption ==
    /\ RQSIZE \in Nat /\ RQSIZE >= 2
    /\ RQ_FLUSH_COUNT \in 1 .. RQSIZE - 1
    /\ Ids \in Nat /\ Ids >= RQSIZE
    /\ NoPacket \notin 0 .. Ids - 1

VARIABLES
    rq,         \* the descriptors and the buffers they point to
    rdt,        \* e1000_rdt, last descriptor consumed
    RDH, RDT,   \* the card's registers
    arrived,    \* history: number of the next packet the card accepts
    taken       \* history: number of the next packet due from receive()

rxVars == <<rq, rdt, RDH, RDT, arrived, taken>>

RxSlots == 0 .. RQSIZE - 1

(* Descriptors and ring positions stay in their ranges. *)
RxTypeOK ==
    /\ rq \in [RxSlots -> 0 .. Ids - 1 \cup {NoPacket}]
    /\ rdt \in RxSlots /\ RDH \in RxSlots /\ RDT \in RxSlots
    /\ arrived \in 0 .. Ids - 1 /\ taken \in 0 .. Ids - 1

RxInit ==
    /\ rq = [i \in RxSlots |-> NoPacket]
    /\ rdt = RQSIZE - 1
    /\ RDH = 0 /\ RDT = RQSIZE - 1
    /\ arrived = 0 /\ taken = 0

(* The card writes a packet and its done bit. *)
Arrive ==
    /\ RDH # RDT
    /\ rq' = [rq EXCEPT ![RDH] = arrived]
    /\ RDH' = (RDH + 1) % RQSIZE
    /\ arrived' = (arrived + 1) % Ids
    /\ UNCHANGED <<rdt, RDT, taken>>

(* A packet that finds no free descriptor is lost. *)
Drop == RDH = RDT /\ UNCHANGED rxVars

(* Mutant: RDT hands back the descriptor after the consumed one, so that an
   empty ring looks like one without free descriptors. *)
return_early(idx) == (idx + 1) % RQSIZE

(* Mutant: RDT hands back descriptors not yet consumed. *)
return_ahead(idx) == (idx + 2) % RQSIZE

(* RDT after descriptor idx has been consumed. *)
return_desc(idx) == IF idx % RQ_FLUSH_COUNT = 0 THEN idx ELSE RDT

(* receive() without a packet returns -1. *)
receive_none == rq[(rdt + 1) % RQSIZE] = NoPacket /\ UNCHANGED rxVars

(* receive() with a packet. *)
receive ==
    LET idx == (rdt + 1) % RQSIZE
    IN  /\ rq[idx] # NoPacket
        /\ rq' = [rq EXCEPT ![idx] = NoPacket]
        /\ rdt' = idx
        /\ RDT' = return_desc(idx)
        /\ taken' = (taken + 1) % Ids
        /\ UNCHANGED <<RDH, arrived>>

RxNext == Arrive \/ Drop \/ receive \/ receive_none

RxSpec == RxInit /\ [][RxNext]_rxVars
-----------------------------------------------------------------------------
(* receive() delivers the accepted packets in order, none twice and none
   overwritten: the descriptors from the one receive() looks at next up to RDH
   are done and hold the packets due, the others are not done. *)
DeliveryOrder ==
    LET first == (rdt + 1) % RQSIZE
        waiting == (arrived - taken) % Ids
    IN  \A i \in RxSlots :
            LET k == (i - first) % RQSIZE
            IN  rq[i] = IF k < waiting THEN (taken + k) % Ids ELSE NoPacket

(* The ring holds the packets that are due and nothing else. *)
ReceiveSafe == RxTypeOK /\ DeliveryOrder

(* A packet is overwritten by the card only after receive() has copied it. *)
NoOverwrite == [][\A i \in RxSlots : rq[i] # NoPacket => rq'[i] \in {rq[i], NoPacket}]_rxVars

(* The card never runs dry for good: although RDT lags behind the driver by up
   to RQ_FLUSH_COUNT - 1 descriptors, it moves on before the ring is used up. *)
CardGetsDescriptors == []<>(RDH # RDT)

(* Every accepted packet is delivered by the polling loop. *)
EveryPacketDelivered == \A i \in RxSlots : (rq[i] # NoPacket) ~> (rq[i] = NoPacket)
=============================================================================
