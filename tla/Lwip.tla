-------------------------------- MODULE Lwip --------------------------------
(***************************************************************************)
(* The parts of lwIP the contestant runs on: the receiving and the sending *)
(* side of a TCP connection, the list of timeouts that drives the slow     *)
(* parts, the heap, the ARP table, the reassembly of IP fragments and the  *)
(* DHCP client.  Each works on data of its own and all run in the          *)
(* contestant's loop, one call at a time (NO_SYS), so a behaviour follows  *)
(* one part; the others keep their first state.                            *)
(***************************************************************************)
EXTENDS LwipTcpIn, LwipTcpOut, LwipTimeouts, LwipMem, LwipEtharp, LwipDhcp,
        LwipReass

VARIABLE part

lwipVars == <<part, tcpInVars, tcpOutVars, timeoutVars, memVars, etharpVars, dhcpVars,
              reassVars>>

Parts == {"tcp_in", "tcp_out", "timeouts", "mem", "etharp", "dhcp", "reass"}

LwipInit ==
    /\ part \in Parts
    /\ TcpInInit /\ TcpOutInit /\ TimeoutsInit /\ MemInit /\ EtharpInit /\ DhcpInit
    /\ ReassInit
    /\ part # "tcp_in" => isn = Min(Isns)
    /\ part # "timeouts" => ms = 0

TcpInPart(A) ==
    /\ part = "tcp_in" /\ A
    /\ UNCHANGED <<part, tcpOutVars, timeoutVars, memVars, etharpVars, dhcpVars, reassVars>>

TcpOutPart(A) ==
    /\ part = "tcp_out" /\ A
    /\ UNCHANGED <<part, tcpInVars, timeoutVars, memVars, etharpVars, dhcpVars, reassVars>>

TimeoutsPart(A) ==
    /\ part = "timeouts" /\ A
    /\ UNCHANGED <<part, tcpInVars, tcpOutVars, memVars, etharpVars, dhcpVars, reassVars>>

MemPart(A) ==
    /\ part = "mem" /\ A
    /\ UNCHANGED <<part, tcpInVars, tcpOutVars, timeoutVars, etharpVars, dhcpVars, reassVars>>

EtharpPart(A) ==
    /\ part = "etharp" /\ A
    /\ UNCHANGED <<part, tcpInVars, tcpOutVars, timeoutVars, memVars, dhcpVars, reassVars>>

DhcpPart(A) ==
    /\ part = "dhcp" /\ A
    /\ UNCHANGED <<part, tcpInVars, tcpOutVars, timeoutVars, memVars, etharpVars, reassVars>>

ReassPart(A) ==
    /\ part = "reass" /\ A
    /\ UNCHANGED <<part, tcpInVars, tcpOutVars, timeoutVars, memVars, etharpVars, dhcpVars>>

LwipNext ==
    \/ TcpInPart(TcpInNext)
    \/ TcpOutPart(TcpOutNext)
    \/ TimeoutsPart(TimeoutsNext)
    \/ MemPart(MemNext)
    \/ EtharpPart(EtharpNext)
    \/ DhcpPart(DhcpNext)
    \/ ReassPart(ReassNext)

(* The loop calls sys_check_timeouts in every turn, and that calls the     *)
(* handlers (LwipTimeouts shows it).                                       *)
LwipFairness ==
    /\ WF_lwipVars(TimeoutsPart(Pass))
    /\ WF_lwipVars(TimeoutsPart(Call))
    /\ WF_lwipVars(EtharpPart(etharp_tmr))
    /\ WF_lwipVars(DhcpPart(dhcp_fine_tmr))
    /\ WF_lwipVars(DhcpPart(dhcp_coarse_tmr))
    /\ WF_lwipVars(ReassPart(ip_reass_tmr))

LwipSpec == LwipInit /\ [][LwipNext]_lwipVars /\ LwipFairness

-----------------------------------------------------------------------------
(* The timers of timeouts.c are kept in order and served in time, none     *)
(* early, and where they are followed they keep running.                   *)
TimersServed ==
    /\ [](TimeoutsTypeOK /\ OneEntryEach /\ SoonestFirst)
    /\ ServedInTime
    /\ part = "timeouts" => TimersKeepRunning

(* Nothing waits for ever for what may never come: neither a packet for    *)
(* the address of its neighbour (etharp_tmr) nor a fragment for the rest   *)
(* of its datagram (ip_reass_tmr).                                         *)
NothingWaitsForEver == QueueDrains /\ ReassExpires
=============================================================================
