------------------------------ MODULE LwipDhcp ------------------------------
(***************************************************************************)
(* The DHCP client of lwIP (core/ipv4/dhcp.c), which gives the contestant  *)
(* its address.  The fine timer (500 ms) is abstracted to "the request     *)
(* timeout is running": it fires at some later fine tick.  The coarse      *)
(* timer (60 s) and the three lease timers are counted in full.            *)
(*                                                                         *)
(* The link never changes after contestant_init, so the states INIT and    *)
(* REBOOTING are not reached.  A reply the client does not expect in its   *)
(* state, or with another transaction id, changes nothing and is left out. *)
(* Servers name themselves and give a finite lease time without T1 and T2. *)
(***************************************************************************)
EXTENDS Integers

CONSTANTS Addresses,   \* the addresses a server offers
          Leases       \* the lease times it gives, in seconds

ASSUME AddressAssumption == 0 \notin Addresses

(* In 9 years no width of dhcp_handle_ack and dhcp_bind overflows.         *)
ASSUME LeaseAssumption == \A lease \in Leases : lease \in Nat /\ lease <= 9 * 365 * 24 * 3600

VARIABLES
    dhcp,     \* struct dhcp of the only interface
    addr,     \* the address of the interface, 0 for none
    granted   \* coarse ticks until the server has certainly taken the lease back, or 0

dhcpVars == <<dhcp, addr, granted>>

DHCP_COARSE_TIMER_SECS == 60

(* Where a further try makes no difference any more.                       *)
MaxTries == 6

States == {"OFF", "SELECTING", "REQUESTING", "CHECKING", "BOUND", "RENEWING", "REBINDING", "BACKING_OFF"}

(* The fields of struct dhcp that decide something; asked is no field: the *)
(* last message may still be answered.                                     *)
Dhcps == [state : States, tries : 0..MaxTries, request_timeout : BOOLEAN,
          offered : Addresses \cup {0}, lease : Leases \cup {0},
          t0_timeout : Nat, t2_timeout : Nat, t1_renew_time : Nat, t2_rebind_time : Nat,
          lease_used : Nat, asked : BOOLEAN]

Cleared == [state |-> "OFF", tries |-> 0, request_timeout |-> FALSE, offered |-> 0, lease |-> 0,
            t0_timeout |-> 0, t2_timeout |-> 0, t1_renew_time |-> 0, t2_rebind_time |-> 0,
            lease_used |-> 0, asked |-> FALSE]

dhcp_set_state(d, s) == IF d.state = s THEN d ELSE [d EXCEPT !.state = s, !.tries = 0]

(* A message went out (or none could be allocated, which the callers treat *)
(* alike): one more try, and the request timeout runs.                     *)
Try(d) == [d EXCEPT !.tries = IF @ < MaxTries THEN @ + 1 ELSE @, !.request_timeout = TRUE, !.asked = TRUE]

dhcp_discover(d) == Try(dhcp_set_state([d EXCEPT !.offered = 0], "SELECTING"))

dhcp_select(d) == Try(dhcp_set_state(d, "REQUESTING"))

dhcp_check(d) == Try(dhcp_set_state(d, "CHECKING"))

dhcp_decline(d) == Try(dhcp_set_state(d, "BACKING_OFF"))

dhcp_renew(d) == Try(dhcp_set_state(d, "RENEWING"))

dhcp_rebind(d) == Try(dhcp_set_state(d, "REBINDING"))

dhcp_start == dhcp_discover(Cleared)

Supplied == {"BOUND", "RENEWING", "REBINDING"}

dhcp_supplied_address == dhcp.state \in Supplied

(* Seconds in coarse ticks, rounded to the nearest and never none.         *)
Ticks(secs) ==
    LET timeout == (secs + DHCP_COARSE_TIMER_SECS \div 2) \div DHCP_COARSE_TIMER_SECS
    IN  IF timeout > 65535 THEN 65535 ELSE IF timeout = 0 THEN 1 ELSE timeout

DhcpInit ==
    /\ dhcp = dhcp_start
    /\ addr = 0
    /\ granted = 0

(* The lease of d goes onto the interface.                                 *)
Bound(d) ==
    LET t0 == Ticks(d.lease)
        t1 == Ticks(d.lease \div 2)
        t2 == Ticks((d.lease * 7) \div 8)
    IN [dhcp_set_state(d, "BOUND") EXCEPT
            !.lease_used = 0, !.t0_timeout = t0, !.t2_timeout = t2,
            !.t1_renew_time = t1, !.t2_rebind_time = t2]

dhcp_bind(d) ==
    /\ dhcp' = Bound(d)
    /\ addr' = d.offered

(* The address leaves the interface if DHCP supplied it; every caller       *)
(* clears the structure with dhcp_start at once.                           *)
dhcp_release_and_stop ==
    addr' = IF dhcp_supplied_address THEN 0 ELSE addr

Restart ==
    /\ dhcp_release_and_stop
    /\ dhcp' = dhcp_start
    /\ granted' = 0

------------------------------------------------------------------------------
(* dhcp_recv, by the message it gets and the state it is expected in.      *)

Lose ==
    /\ dhcp.asked
    /\ dhcp' = [dhcp EXCEPT !.asked = FALSE]
    /\ UNCHANGED <<addr, granted>>

dhcp_handle_offer(a) ==
    /\ dhcp.asked /\ dhcp.state = "SELECTING"
    /\ dhcp' = dhcp_select([dhcp EXCEPT !.offered = a, !.request_timeout = FALSE])
    /\ UNCHANGED <<addr, granted>>

dhcp_handle_ack(lease) == [dhcp EXCEPT !.lease = lease, !.asked = FALSE]

(* What the server has promised, in coarse ticks.  One tick is added for   *)
(* a lease that is no whole number of minutes and one for the check of the *)
(* address, a second that may straddle a tick.                             *)
Promise(lease) == lease \div DHCP_COARSE_TIMER_SECS + 2

(* A first acknowledgement is followed by the check that no host answers   *)
(* for the address, one for a lease already held by the binding itself.    *)
Ack(lease) ==
    /\ dhcp.asked
    /\ granted' = Promise(lease)
    /\ \/ /\ dhcp.state = "REQUESTING"
          /\ dhcp' = dhcp_check(dhcp_handle_ack(lease))
          /\ UNCHANGED addr
       \/ /\ dhcp.state \in {"REBINDING", "RENEWING"}
          /\ dhcp_bind(dhcp_handle_ack(lease))

Refusable == {"REQUESTING", "REBINDING", "RENEWING"}

dhcp_handle_nak ==
    /\ dhcp.asked /\ dhcp.state \in Refusable
    /\ dhcp' = dhcp_discover(dhcp_set_state(dhcp, "BACKING_OFF"))
    /\ granted' = 0
    /\ addr' = 0

(* An ARP reply for the offered address while it is being checked.         *)
dhcp_arp_reply ==
    /\ dhcp.asked /\ dhcp.state = "CHECKING"
    /\ dhcp' = dhcp_decline(dhcp)
    /\ granted' = 0
    /\ UNCHANGED addr

------------------------------------------------------------------------------
(* The timers.                                                             *)

Fired == [dhcp EXCEPT !.request_timeout = FALSE]

Keeps == UNCHANGED <<addr, granted>>

(* Mutant: a request that is not answered is given up.                     *)
dhcp_timeout_waits ==
    \/ dhcp.state \in {"BACKING_OFF", "SELECTING"} /\ dhcp' = dhcp_discover(Fired) /\ Keeps
    \/ dhcp.state = "REQUESTING" /\ dhcp.tries <= 5 /\ dhcp' = dhcp_select(Fired) /\ Keeps
    \/ dhcp.state = "REQUESTING" /\ dhcp.tries > 5 /\ dhcp' = Fired /\ Keeps
    \/ dhcp.state = "CHECKING" /\ dhcp.tries <= 1 /\ dhcp' = dhcp_check(Fired) /\ Keeps
    \/ dhcp.state = "CHECKING" /\ dhcp.tries > 1 /\ dhcp_bind(Fired) /\ UNCHANGED granted
    \/ dhcp.state \in Supplied /\ dhcp' = Fired /\ Keeps

dhcp_timeout ==
    \/ dhcp.state \in {"BACKING_OFF", "SELECTING"} /\ dhcp' = dhcp_discover(Fired) /\ Keeps
    \/ dhcp.state = "REQUESTING" /\ dhcp.tries <= 5 /\ dhcp' = dhcp_select(Fired) /\ Keeps
    \/ dhcp.state = "REQUESTING" /\ dhcp.tries > 5 /\ Restart
    \/ dhcp.state = "CHECKING" /\ dhcp.tries <= 1 /\ dhcp' = dhcp_check(Fired) /\ Keeps
    \/ dhcp.state = "CHECKING" /\ dhcp.tries > 1 /\ dhcp_bind(Fired) /\ UNCHANGED granted
    \/ dhcp.state \in Supplied /\ dhcp' = Fired /\ Keeps

dhcp_fine_tmr ==
    /\ dhcp.request_timeout
    /\ dhcp_timeout

(* The next try of a timer that fired: half of what remains, if that is a  *)
(* minute or more.                                                         *)
Half(limit, d) == LET half == (limit - d.lease_used) \div 2 IN IF half >= 1 THEN half ELSE 0

dhcp_t1_timeout(d) ==
    IF d.state \in {"REQUESTING", "BOUND", "RENEWING"}
    THEN [dhcp_renew(d) EXCEPT !.t1_renew_time = Half(d.t2_timeout, d)]
    ELSE d

dhcp_t2_timeout(d) ==
    IF d.state \in {"REQUESTING", "BOUND", "RENEWING", "REBINDING"}
    THEN [dhcp_rebind(d) EXCEPT !.t2_rebind_time = Half(d.t0_timeout, d)]
    ELSE d

Down(n) == IF n > 0 THEN n - 1 ELSE 0

(* The tick ends no lease: the rebinding timer counts and fires, or else   *)
(* the renewal timer does.                                                 *)
Count(d, e) ==
    /\ dhcp' = IF dhcp.t2_rebind_time = 1 THEN dhcp_t2_timeout(d)
               ELSE IF dhcp.t1_renew_time = 1 THEN dhcp_t1_timeout(e)
               ELSE e
    /\ granted' = Down(granted)
    /\ UNCHANGED addr

Used == IF dhcp.t0_timeout > 0 THEN dhcp.lease_used + 1 ELSE dhcp.lease_used

(* The check of an address takes a second, so at most one coarse tick.     *)
CheckIsShort == dhcp.state = "CHECKING" => granted = Promise(dhcp.lease)

(* Mutant: the end of the lease is looked at last.                         *)
dhcp_coarse_tmr_late ==
    LET d == [dhcp EXCEPT !.lease_used = Used, !.t2_rebind_time = Down(@)]
        e == [d EXCEPT !.t1_renew_time = Down(@)]
    IN /\ CheckIsShort
       /\ dhcp.t0_timeout > 0 \/ granted > 0
       /\ IF dhcp.t2_rebind_time # 1 /\ dhcp.t0_timeout > 0 /\ Used = dhcp.t0_timeout
          THEN Restart
          ELSE Count(d, e)

(* One coarse tick: the lease expires, or its timers count.                *)
dhcp_coarse_tmr ==
    LET d == [dhcp EXCEPT !.lease_used = Used, !.t2_rebind_time = Down(@)]
        e == [d EXCEPT !.t1_renew_time = Down(@)]
    IN /\ CheckIsShort
       /\ dhcp.t0_timeout > 0 \/ granted > 0
       /\ IF dhcp.t0_timeout > 0 /\ Used = dhcp.t0_timeout THEN Restart ELSE Count(d, e)

------------------------------------------------------------------------------
DhcpNext ==
    \/ Lose
    \/ \E a \in Addresses : dhcp_handle_offer(a)
    \/ \E lease \in Leases : Ack(lease)
    \/ dhcp_handle_nak
    \/ dhcp_arp_reply
    \/ dhcp_fine_tmr
    \/ dhcp_coarse_tmr

DhcpFairness == WF_dhcpVars(dhcp_fine_tmr) /\ WF_dhcpVars(dhcp_coarse_tmr)

DhcpSpec == DhcpInit /\ [][DhcpNext]_dhcpVars /\ DhcpFairness

------------------------------------------------------------------------------
(* The fields stay in their ranges: in particular the used part of a lease *)
(* never runs past its end (the code tests it with == only).               *)
DhcpTypeOK ==
    /\ dhcp \in Dhcps
    /\ dhcp.lease_used <= dhcp.t0_timeout
    /\ addr \in Addresses \cup {0}
    /\ granted \in Nat

(* The interface has an address only while the client holds a lease for it *)
(* that the server has not certainly taken back: it goes at a refusal      *)
(* (dhcp_handle_nak) and when the lease ends (dhcp_coarse_tmr), whatever   *)
(* the state of a renewal is then.                                         *)
AddressIsLeased ==
    addr # 0 => /\ dhcp.state \in Supplied
                /\ addr = dhcp.offered
                /\ granted > 0

(* The client is never left without a timer: either the request timeout    *)
(* runs (dhcp_fine_tmr) or the end of a lease is counted (dhcp_coarse_tmr),*)
(* also in RENEWING and REBINDING, whose request timeout does nothing.     *)
NeverStranded ==
    /\ dhcp.state # "OFF"
    /\ dhcp.request_timeout \/ dhcp.t0_timeout > 0

(* The client uses an address only while it may, and never stops trying.   *)
LeaseSound == DhcpTypeOK /\ AddressIsLeased /\ NeverStranded

(* If a server goes on answering and from some time on neither refuses nor *)
(* offers an address in use, the interface always has an address again:    *)
(* no loss of messages and no order of the timers stops dhcp.c for good.   *)
AddressReturns ==
    ( /\ SF_dhcpVars(\E a \in Addresses : dhcp_handle_offer(a))
      /\ SF_dhcpVars(\E lease \in Leases : Ack(lease))
      /\ <>[][~dhcp_handle_nak /\ ~dhcp_arp_reply]_dhcpVars )
    => []<>(addr # 0)

==============================================================================
