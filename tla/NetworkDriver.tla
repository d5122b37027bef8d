--------------------------- MODULE NetworkDriver ---------------------------
(***************************************************************************)
(* lib/network_driver.cpp: init finds an E1000 card or a virtio device and *)
(* sets send, receive and flush to its functions once and for all.  The    *)
(* queues of a device share nothing, so a behaviour follows one queue of   *)
(* the device found; the others keep their first state.                    *)
(***************************************************************************)
EXTENDS E1000Tx, E1000Rx, VirtioNet

VARIABLE driver     \* the queue that is followed, and with it the device

driverVars == <<driver, txVars, rxVars, virtioVars>>

NetworkDriverInit ==
    /\ driver \in {"e1000 transmit", "e1000 receive", "virtio"}
    /\ TxInit /\ RxInit /\ VirtioInit
    /\ driver # "virtio" => role = "transmit" /\ queue_size = CHOOSE n \in QueueSizes : TRUE

E1000Transmit(A) == driver = "e1000 transmit" /\ A /\ UNCHANGED <<driver, rxVars, virtioVars>>
E1000Receive(A) == driver = "e1000 receive" /\ A /\ UNCHANGED <<driver, txVars, virtioVars>>
Virtio(A) == driver = "virtio" /\ A /\ UNCHANGED <<driver, txVars, rxVars>>

NetworkDriverNext == E1000Transmit(TxNext) \/ E1000Receive(RxNext) \/ Virtio(VirtioNext)

-----------------------------------------------------------------------------
(* A card does not get stuck, with either ring: every packet accepted by send
   leaves, every packet the card accepted is delivered, and the card is given
   descriptors again. *)
PacketsGetThrough == EveryPacketLeaves /\ EveryPacketDelivered /\ CardGetsDescriptors
=============================================================================
