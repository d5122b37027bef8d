----------------------------- MODULE VirtioNet -----------------------------
(***************************************************************************)
(* A virtqueue of lib/virtio_net.cpp and the device at its other end.      *)
(* The driver offers buffers in the available ring and finds the ones the  *)
(* device is done with in the used ring; both indices are uint16_t and     *)
(* only wrap.  The receive queue starts with every buffer offered.  The    *)
(* transmit queue starts with every buffer found: init writes entries      *)
(* behind the device's index and moves its own index back by as many.      *)
(*                                                                         *)
(* The two queues share nothing, so the module has one, of either role.    *)
(* The device may look at the available ring at any time and must do so    *)
(* after a notification; it may finish buffers in any order.               *)
(***************************************************************************)
EXTENDS Integers, FiniteSets

CONSTANTS
    QueueSizes,             \* sizes a device may have, powers of two
    MAX_ACTUAL_QUEUE_SIZE,
    IdxMod,                 \* 2^16, the range of the ring indices
    PacketIds               \* received packets are numbered modulo PacketIds

ASSUME VirtioAssumption ==
    /\ QueueSizes \subseteq Nat \ {0} /\ MAX_ACTUAL_QUEUE_SIZE \in Nat \ {0}
    /\ IdxMod \in Nat /\ \A n \in QueueSizes : IdxMod % n = 0 /\ n < IdxMod
    /\ PacketIds \in Nat /\ PacketIds > MAX_ACTUAL_QUEUE_SIZE

VARIABLES
    role,                   \* is_receive
    queue_size,
    avail, avail_idx,       \* VirtQueueAvail
    used, used_idx,         \* VirtQueueUsed: ids only
    cur_used_idx,
    buf,                    \* what the buffer of a descriptor holds
    step, hand,             \* where the driver's call stands; its descriptor
    notified,               \* the device has been told and has not yet looked
    seen,                   \* the device's place in the available ring
    held,                   \* descriptors the device is working on
    made, due               \* history: next packet of the device, of receive

virtioVars == <<role, queue_size, avail, avail_idx, used, used_idx, cur_used_idx,
                buf, step, hand, notified, seen, held, made, due>>

Places == 0 .. queue_size - 1
Indices == 0 .. IdxMod - 1
actual_queue_size(n) == IF n < MAX_ACTUAL_QUEUE_SIZE THEN n ELSE MAX_ACTUAL_QUEUE_SIZE
Descs == 0 .. actual_queue_size(queue_size) - 1

NoDesc == -1                \* pop_used returned 0xffff, or no call is under way

(* How many indices lie from one to another. *)
IdxDist(from, to) == (to - from) % IdxMod

(* "un-pop used?": place -id holds id.  The place behind the last one is read
   first and was never written: the zero of static memory stands for id 0. *)
unpop_used(n) ==
    [p \in 0 .. n - 1 |-> IF (-p) % n < actual_queue_size(n) THEN (-p) % n ELSE 0]

VirtioInit ==
    /\ role \in {"receive", "transmit"}
    /\ queue_size \in QueueSizes
    /\ avail = [p \in Places |-> IF role = "receive" /\ p \in Descs THEN p ELSE 0]
    /\ avail_idx = IF role = "receive" THEN actual_queue_size(queue_size) ELSE 0
    /\ used = IF role = "receive" THEN [p \in Places |-> 0] ELSE unpop_used(queue_size)
    /\ used_idx = 0
    /\ cur_used_idx = IF role = "receive" THEN 0 ELSE (-actual_queue_size(queue_size)) % IdxMod
    /\ buf = [d \in Descs |-> 0]
    /\ step = "ready" /\ hand = NoDesc
    /\ notified = TRUE
    /\ seen = 0 /\ held = {}
    /\ made = 0 /\ due = 0

device == <<notified, seen, held, used, used_idx, made>>

(* pop_used, which leaves the rings as they are. *)
pop_used ==
    /\ used_idx # cur_used_idx
    /\ hand' = used[cur_used_idx % queue_size]
    /\ cur_used_idx' = (cur_used_idx + 1) % IdxMod

(* Mutant: the index goes up first. *)
add_avail_index_first ==
    \/ /\ step = "add"
       /\ avail_idx' = (avail_idx + 1) % IdxMod
       /\ step' = "publish"
       /\ UNCHANGED <<avail, hand>>
    \/ /\ step = "publish"
       /\ avail' = [avail EXCEPT ![(avail_idx - 1) % queue_size] = hand]
       /\ hand' = NoDesc
       /\ step' = IF role = "transmit" THEN "notify" ELSE "ready"
       /\ UNCHANGED avail_idx

(* add_avail: the entry, a memory barrier, the index. *)
add_avail ==
    \/ /\ step = "add"
       /\ avail' = [avail EXCEPT ![avail_idx % queue_size] = hand]
       /\ step' = "publish"
       /\ UNCHANGED <<avail_idx, hand>>
    \/ /\ step = "publish"
       /\ avail_idx' = (avail_idx + 1) % IdxMod
       /\ hand' = NoDesc
       /\ step' = IF role = "transmit" THEN "notify" ELSE "ready"
       /\ UNCHANGED avail

AddAvail ==
    /\ add_avail
    /\ UNCHANGED <<role, queue_size, cur_used_idx, buf, due, device>>

(* send finds a free buffer and copies the packet into it. *)
virtio_send ==
    /\ role = "transmit" /\ step = "ready"
    /\ pop_used
    /\ step' = "add"
    /\ UNCHANGED <<role, queue_size, avail, avail_idx, buf, due, device>>

(* Mutant: the queue is never notified. *)
notify_never ==
    /\ \/ role = "transmit" /\ step = "notify" /\ step' = "ready"
       \/ role = "receive" /\ step = "ready" /\ step' = "poll"
    /\ UNCHANGED <<role, queue_size, avail, avail_idx, cur_used_idx, buf, hand, due, device>>

(* queue_notify: the end of send, the beginning of recv. *)
notify ==
    /\ \/ role = "transmit" /\ step = "notify" /\ step' = "ready"
       \/ role = "receive" /\ step = "ready" /\ step' = "poll"
    /\ notified' = TRUE
    /\ UNCHANGED <<role, queue_size, avail, avail_idx, cur_used_idx, buf, hand, due,
                   seen, held, used, used_idx, made>>

(* recv finds a packet and copies it; the device wrote at least the header. *)
virtio_recv ==
    /\ role = "receive" /\ step = "poll"
    /\ pop_used
    /\ due' = (due + 1) % PacketIds
    /\ step' = "add"
    /\ UNCHANGED <<role, queue_size, avail, avail_idx, buf, device>>

virtio_recv_none ==
    /\ role = "receive" /\ step = "poll"
    /\ used_idx = cur_used_idx
    /\ step' = "ready"
    /\ UNCHANGED <<role, queue_size, avail, avail_idx, cur_used_idx, buf, hand, due, device>>

(* The device takes the next buffer offered. *)
Take ==
    /\ seen # avail_idx
    /\ held' = held \cup {avail[seen % queue_size]}
    /\ seen' = (seen + 1) % IdxMod
    /\ UNCHANGED <<role, queue_size, avail, avail_idx, used, used_idx, cur_used_idx, buf, step, hand,
                   notified, made, due>>

(* It has taken all there were and waits for the next notification. *)
Rest ==
    /\ notified /\ seen = avail_idx
    /\ notified' = FALSE
    /\ UNCHANGED <<role, queue_size, avail, avail_idx, used, used_idx, cur_used_idx, buf, step, hand,
                   seen, held, made, due>>

(* It is done with a buffer: it holds a packet, or was sent. *)
Finish(d) ==
    /\ d \in held
    /\ held' = held \ {d}
    /\ used' = [used EXCEPT ![used_idx % queue_size] = d]
    /\ used_idx' = (used_idx + 1) % IdxMod
    /\ IF role = "receive"
       THEN buf' = [buf EXCEPT ![d] = made] /\ made' = (made + 1) % PacketIds
       ELSE UNCHANGED <<buf, made>>
    /\ UNCHANGED <<role, queue_size, avail, avail_idx, cur_used_idx, step, hand, notified, seen, due>>

VirtioDriver == virtio_send \/ virtio_recv \/ virtio_recv_none \/ AddAvail \/ notify
VirtioDevice == Take \/ Rest \/ \E d \in Descs : Finish(d)
VirtioNext == VirtioDriver \/ VirtioDevice

VirtioSpec == VirtioInit /\ [][VirtioNext]_virtioVars
-----------------------------------------------------------------------------
(* Ring indices, ring entries and buffer owners stay in their ranges. *)
VirtioTypeOK ==
    /\ role \in {"receive", "transmit"} /\ queue_size \in QueueSizes
    /\ avail \in [Places -> Descs] /\ used \in [Places -> Descs]
    /\ {avail_idx, used_idx, cur_used_idx, seen} \subseteq Indices
    /\ buf \in [Descs -> 0 .. PacketIds - 1]
    /\ step \in {"ready", "poll", "add", "publish", "notify"} /\ hand \in Descs \cup {NoDesc}
    /\ notified \in BOOLEAN /\ held \in SUBSET Descs
    /\ {made, due} \subseteq 0 .. PacketIds - 1

Offered(d) == {k \in 0 .. IdxDist(seen, avail_idx) - 1 : avail[(seen + k) % queue_size] = d}
Done(d) == {k \in 0 .. IdxDist(cur_used_idx, used_idx) - 1 : used[(cur_used_idx + k) % queue_size] = d}

(* Every buffer is in one place: offered once, done once, with the device or
   with the call under way.
   None is lost and none is given out twice, from the entries init makes up
   through every wrap of the indices, so driver and device never use the same
   buffer. *)
BuffersPartitioned ==
    \A d \in Descs :
        Cardinality(Offered(d)) + Cardinality(Done(d)) 
          + Cardinality({d} \cap held) + Cardinality({d} \cap {hand}) = 1

(* receive returns the packets in the order in which the device finished them,
   none twice and none overwritten in its buffer before it was copied. *)
ReceivedInOrder ==
    role = "receive" =>
        /\ (made - due) % PacketIds = IdxDist(cur_used_idx, used_idx)
        /\ \A k \in 0 .. IdxDist(cur_used_idx, used_idx) - 1 :
              buf[used[(cur_used_idx + k) % queue_size]] = (due + k) % PacketIds

(* The buffers go round between driver and device with their packets. *)
QueueSafe == VirtioTypeOK /\ BuffersPartitioned /\ ReceivedInOrder

(* A buffer offered is noticed: send notifies after it has moved the index and
   receive before it looks, in the next turn of the loop. *)
OffersNoticed == []<>(seen = avail_idx) \/ []<><<seen' # seen>>_virtioVars
=============================================================================
