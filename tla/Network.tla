------------------------------ MODULE Network ------------------------------
(***************************************************************************)
(* The network under the kernel: DuckNet, the UDP/IP/ARP library of the    *)
(* Duck server, on top of the network driver.  The library hands whole     *)
(* packets to send and takes whole packets from receive, in one thread, so *)
(* its tables and the driver's queues share no state; a behaviour follows  *)
(* the driver or the library, and the other keeps its first state.         *)
(***************************************************************************)
EXTENDS NetworkDriver, DuckNet

VARIABLE layer

networkVars == <<layer, driverVars, netVars>>

NetworkInit ==
    /\ layer \in {"driver", "ducknet"}
    /\ NetworkDriverInit /\ DuckNetInit
    /\ layer = "driver" =>
          /\ tsc_freq = CHOOSE f \in Freqs : TRUE
          /\ currenttime = 0
          /\ DOMAIN mac = {Gateway}
    /\ layer = "ducknet" =>
          driver = "virtio" /\ role = "transmit" /\ queue_size = CHOOSE n \in QueueSizes : TRUE

DriverLayer(A) == layer = "driver" /\ A /\ UNCHANGED <<layer, netVars>>
DuckNetLayer(A) == layer = "ducknet" /\ A /\ UNCHANGED <<layer, driverVars>>

NetworkNext == DriverLayer(NetworkDriverNext) \/ DuckNetLayer(DuckNetNext)

(* The card drains its transmit ring by itself.  The loops of the programs
   poll receive.  A call of the driver runs to its end, and a virtio device
   that has been notified serves its queue.  Time passes for ducknet, and its
   requests are answered or lost. *)
NetworkFairness ==
    /\ WF_networkVars(DriverLayer(E1000Transmit(Transmit)))
    /\ WF_networkVars(DriverLayer(E1000Receive(receive)))
    /\ WF_networkVars(DriverLayer(Virtio(VirtioDriver /\ (role = "receive" \/ step # "ready"))))
    /\ WF_networkVars(DriverLayer(Virtio(notified /\ Take)))
    /\ layer = "ducknet" => DuckNetFairness

NetworkSpec == NetworkInit /\ [][NetworkNext]_networkVars /\ NetworkFairness
=============================================================================
