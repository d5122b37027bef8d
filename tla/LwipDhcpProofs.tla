--------------------------- MODULE LwipDhcpProofs ---------------------------
(***************************************************************************)
(* The DHCP client never strands and never keeps an address beyond its     *)
(* lease, for all addresses and lease times of LwipDhcp.                   *)
(***************************************************************************)
EXTENDS LwipDhcp, TLAPS

(* What AddressIsLeased and NeverStranded rest on: outside the states with *)
(* a lease the request timeout runs; in them the end of the lease is       *)
(* counted; the server's promise outlasts what remains of the lease.       *)
Armed ==
    dhcp.state \in {"SELECTING", "REQUESTING", "CHECKING", "BACKING_OFF"} /\ dhcp.request_timeout

Counting == dhcp.state \in Supplied /\ dhcp.t0_timeout > 0

TimersOfLease ==
    /\ dhcp.t0_timeout > 0 => dhcp.lease_used < dhcp.t0_timeout
    /\ dhcp.t0_timeout = 0 => dhcp.t1_renew_time = 0 /\ dhcp.t2_rebind_time = 0

Outlasts ==
    /\ dhcp.state = "CHECKING" =>
           granted = Promise(dhcp.lease) \/ granted = Promise(dhcp.lease) - 1
    /\ addr # 0 => /\ dhcp.state \in Supplied
                   /\ addr = dhcp.offered
                   /\ granted >= dhcp.t0_timeout - dhcp.lease_used

DhcpInv ==
    /\ DhcpTypeOK
    /\ Armed \/ Counting
    /\ TimersOfLease
    /\ Outlasts

(* e is d but for its state, its tries and the running request.            *)
Same(e, d) ==
    /\ e \in Dhcps
    /\ e.offered = d.offered /\ e.lease = d.lease
    /\ e.t0_timeout = d.t0_timeout /\ e.t2_timeout = d.t2_timeout
    /\ e.t1_renew_time = d.t1_renew_time /\ e.t2_rebind_time = d.t2_rebind_time
    /\ e.lease_used = d.lease_used

(* A change of state keeps the other fields but the tries.                 *)
LEMMA SetsState ==
    ASSUME NEW d \in Dhcps, NEW s \in States
    PROVE  /\ Same(dhcp_set_state(d, s), d)
           /\ dhcp_set_state(d, s).state = s
           /\ dhcp_set_state(d, s).request_timeout = d.request_timeout
<1>1. CASE d.state = s
    BY <1>1 DEF dhcp_set_state, Same
<1>2. 0 \in 0 .. MaxTries BY DEF MaxTries
<1>3. CASE d.state # s
    BY <1>2, <1>3 DEF dhcp_set_state, Dhcps, Same
<1>4. QED BY <1>1, <1>3

(* A message that is sent starts the request timeout.                      *)
LEMMA Tries ==
    ASSUME NEW d \in Dhcps
    PROVE  Same(Try(d), d) /\ Try(d).state = d.state /\ Try(d).request_timeout = TRUE
<1>1. d.tries \in 0 .. MaxTries BY DEF Dhcps
<1>2. (IF d.tries < MaxTries THEN d.tries + 1 ELSE d.tries) \in 0 .. MaxTries
    BY <1>1 DEF MaxTries
<1>3. QED BY <1>2 DEF Try, Dhcps, Same

(* A message is sent in state s: the other fields keep their values.       *)
LEMMA Sends ==
    ASSUME NEW d \in Dhcps, NEW s \in States
    PROVE  /\ Same(Try(dhcp_set_state(d, s)), d)
           /\ Try(dhcp_set_state(d, s)).state = s
           /\ Try(dhcp_set_state(d, s)).request_timeout = TRUE
<1> DEFINE e == dhcp_set_state(d, s)
<1>1. Same(e, d) /\ e.state = s BY SetsState
<1> HIDE DEF e
<1>2. e \in Dhcps BY <1>1 DEF Same
<1>3. Same(Try(e), e) /\ Try(e).state = e.state /\ Try(e).request_timeout = TRUE
    BY <1>2, Tries
<1>4. Same(Try(e), d) /\ Try(e).state = s BY <1>1, <1>3 DEF Same
<1>5. QED BY <1>3, <1>4 DEF e

(* A lease time is a number of seconds.                                    *)
LEMMA LeaseIsNat ==
    ASSUME NEW d \in Dhcps
    PROVE  d.lease \in Nat
<1>1. d.lease \in Leases \cup {0} BY DEF Dhcps
<1>2. QED BY <1>1, LeaseAssumption

(* A lease rounds to one tick more than its whole minutes at most.         *)
LEMMA TicksBounded ==
    ASSUME NEW secs \in Nat
    PROVE  Ticks(secs) \in Nat /\ Ticks(secs) > 0 /\ Ticks(secs) <= secs \div 60 + 1
BY DEF Ticks, DHCP_COARSE_TIMER_SECS

(* Discovery forgets the offer.                                            *)
LEMMA Discovers ==
    ASSUME NEW d \in Dhcps
    PROVE  /\ dhcp_discover(d) \in Dhcps
           /\ dhcp_discover(d).state = "SELECTING" /\ dhcp_discover(d).request_timeout = TRUE
           /\ dhcp_discover(d).t0_timeout = d.t0_timeout
           /\ dhcp_discover(d).t1_renew_time = d.t1_renew_time
           /\ dhcp_discover(d).t2_rebind_time = d.t2_rebind_time
           /\ dhcp_discover(d).lease_used = d.lease_used
<1> DEFINE e == [d EXCEPT !.offered = 0]
<1>1. /\ e \in Dhcps /\ e.t0_timeout = d.t0_timeout
      /\ e.t1_renew_time = d.t1_renew_time /\ e.t2_rebind_time = d.t2_rebind_time
      /\ e.lease_used = d.lease_used
    BY DEF Dhcps
<1> HIDE DEF e
<1>2. "SELECTING" \in States BY DEF States
<1>3. LET f == Try(dhcp_set_state(e, "SELECTING"))
      IN  Same(f, e) /\ f.state = "SELECTING" /\ f.request_timeout = TRUE
    BY <1>1, <1>2, Sends
<1>4. QED BY <1>1, <1>3 DEF Same, dhcp_discover, e

(* A started client has no lease.                                          *)
LEMMA Starts ==
    /\ dhcp_start \in Dhcps
    /\ dhcp_start.state = "SELECTING" /\ dhcp_start.request_timeout = TRUE
    /\ dhcp_start.t0_timeout = 0 /\ dhcp_start.lease_used = 0
    /\ dhcp_start.t1_renew_time = 0 /\ dhcp_start.t2_rebind_time = 0
<1>1. Cleared \in Dhcps BY DEF Cleared, Dhcps, States, MaxTries
<1>2. /\ Cleared.t0_timeout = 0 /\ Cleared.lease_used = 0
      /\ Cleared.t1_renew_time = 0 /\ Cleared.t2_rebind_time = 0
    BY DEF Cleared
<1>3. QED BY <1>1, <1>2, Discovers DEF dhcp_start

(* A lease that is bound counts from zero to its end.                      *)
LEMMA Binds ==
    ASSUME NEW d \in Dhcps
    PROVE  /\ Bound(d) \in Dhcps
           /\ Bound(d).state = "BOUND" /\ Bound(d).offered = d.offered
           /\ Bound(d).lease_used = 0
           /\ Bound(d).t0_timeout > 0
           /\ Bound(d).t0_timeout <= d.lease \div 60 + 1
<1> DEFINE e == dhcp_set_state(d, "BOUND")
<1>1. e \in Dhcps /\ e.state = "BOUND" /\ e.offered = d.offered
    BY SetsState DEF Same, States
<1>2. d.lease \in Nat BY LeaseIsNat
<1>3. d.lease \div 2 \in Nat /\ (d.lease * 7) \div 8 \in Nat BY <1>2
<1>4. /\ Ticks(d.lease) \in Nat /\ Ticks(d.lease) > 0 /\ Ticks(d.lease) <= d.lease \div 60 + 1
      /\ Ticks(d.lease \div 2) \in Nat /\ Ticks((d.lease * 7) \div 8) \in Nat
    BY <1>2, <1>3, TicksBounded
<1>5. QED BY <1>1, <1>4 DEF Bound, Dhcps

(* The first state.                                                        *)
LEMMA DhcpInvInit == DhcpInit => DhcpInv
BY Starts DEF DhcpInit, DhcpInv, DhcpTypeOK, Armed, Counting, TimersOfLease, Outlasts

(* A restart leaves neither address nor lease.                             *)
LEMMA RestartKeeps == DhcpInv /\ Restart => DhcpInv'
<1> SUFFICES ASSUME DhcpInv, Restart PROVE DhcpInv' OBVIOUS
<1>1. addr' = 0 BY DEF Restart, dhcp_release_and_stop, dhcp_supplied_address, DhcpInv, Outlasts
<1>2. QED BY <1>1, Starts DEF Restart, DhcpInv, DhcpTypeOK, Armed, Counting, TimersOfLease, Outlasts

(* A lease is bound while the server's promise covers it.                  *)
LEMMA BindKeeps ==
    ASSUME NEW d \in Dhcps, dhcp_bind(d), granted' \in Nat, granted' >= Promise(d.lease) - 1
    PROVE  DhcpInv'
<1>1. granted' >= Bound(d).t0_timeout
    <2>1. d.lease \in Nat BY LeaseIsNat
    <2>2. Bound(d).t0_timeout \in Nat BY Binds DEF Dhcps
    <2>3. QED BY <2>1, <2>2, Binds DEF Promise, DHCP_COARSE_TIMER_SECS
<1>2. /\ dhcp' \in Dhcps /\ dhcp'.state = "BOUND" /\ dhcp'.lease_used = 0
      /\ dhcp'.t0_timeout > 0 /\ dhcp'.t0_timeout \in Nat
      /\ granted' >= dhcp'.t0_timeout /\ addr' = dhcp'.offered
    BY <1>1, Binds DEF dhcp_bind, Dhcps
<1>3. addr' \in Addresses \cup {0} BY <1>2 DEF Dhcps
<1>4. QED BY <1>2, <1>3 DEF DhcpInv, DhcpTypeOK, Armed, Counting, Supplied, TimersOfLease, Outlasts

(* A message is sent in a state without a lease, the timers of the lease   *)
(* being as they were.                                                     *)
LEMMA ArmedKeeps ==
    ASSUME DhcpInv, addr' = 0, granted' \in Nat, dhcp' \in Dhcps,
           dhcp'.state \in {"SELECTING", "REQUESTING", "CHECKING", "BACKING_OFF"},
           dhcp'.request_timeout = TRUE,
           dhcp'.t0_timeout = dhcp.t0_timeout, dhcp'.lease_used = dhcp.lease_used,
           dhcp'.t1_renew_time = dhcp.t1_renew_time, dhcp'.t2_rebind_time = dhcp.t2_rebind_time,
           dhcp'.state = "CHECKING" =>
               granted' = Promise(dhcp'.lease) \/ granted' = Promise(dhcp'.lease) - 1
    PROVE  DhcpInv'
BY DEF DhcpInv, DhcpTypeOK, Armed, Counting, TimersOfLease, Outlasts

(* The promise of a lease is a number of ticks.                            *)
LEMMA PromiseIsNat ==
    ASSUME NEW lease \in Nat
    PROVE  Promise(lease) \in Nat /\ Promise(lease) >= 2
BY DEF Promise, DHCP_COARSE_TIMER_SECS

(* Losing a message or its answer.                                         *)
LEMMA LoseKeeps == DhcpInv /\ Lose => DhcpInv'
<1> SUFFICES ASSUME DhcpInv, Lose PROVE DhcpInv' OBVIOUS
<1>1. dhcp \in Dhcps BY DEF DhcpInv, DhcpTypeOK
<1>2. /\ dhcp' \in Dhcps /\ dhcp'.state = dhcp.state
      /\ dhcp'.request_timeout = dhcp.request_timeout
      /\ dhcp'.offered = dhcp.offered /\ dhcp'.lease = dhcp.lease
      /\ dhcp'.t0_timeout = dhcp.t0_timeout /\ dhcp'.lease_used = dhcp.lease_used
      /\ dhcp'.t1_renew_time = dhcp.t1_renew_time /\ dhcp'.t2_rebind_time = dhcp.t2_rebind_time
    BY <1>1 DEF Lose, Dhcps
<1>3. addr' = addr /\ granted' = granted BY DEF Lose
<1>4. QED BY <1>2, <1>3 DEF DhcpInv, DhcpTypeOK, Armed, Counting, TimersOfLease, Outlasts

(* An offer is requested.                                                  *)
LEMMA OfferKeeps ==
    ASSUME DhcpInv, NEW a \in Addresses, dhcp_handle_offer(a)
    PROVE  DhcpInv'
<1> DEFINE d == [dhcp EXCEPT !.offered = a, !.request_timeout = FALSE]
<1>1. dhcp \in Dhcps BY DEF DhcpInv, DhcpTypeOK
<1>2. /\ d \in Dhcps /\ d.t0_timeout = dhcp.t0_timeout /\ d.lease_used = dhcp.lease_used
      /\ d.t1_renew_time = dhcp.t1_renew_time /\ d.t2_rebind_time = dhcp.t2_rebind_time
    BY <1>1 DEF Dhcps
<1>3. dhcp' = Try(dhcp_set_state(d, "REQUESTING")) BY DEF dhcp_handle_offer, dhcp_select
<1>4. addr' = 0 /\ granted' \in Nat
    BY DEF dhcp_handle_offer, DhcpInv, DhcpTypeOK, Outlasts, Supplied
<1> HIDE DEF d
<1>5. /\ Same(dhcp', d) /\ dhcp'.state = "REQUESTING" /\ dhcp'.request_timeout = TRUE
    BY <1>2, <1>3, Sends DEF States
<1>6. QED BY <1>2, <1>4, <1>5, ArmedKeeps DEF Same

(* A lease is acknowledged: checked first or bound at once.                *)
LEMMA AckKeeps ==
    ASSUME DhcpInv, NEW lease \in Leases, Ack(lease)
    PROVE  DhcpInv'
<1> DEFINE d == dhcp_handle_ack(lease)
<1>1. dhcp \in Dhcps BY DEF DhcpInv, DhcpTypeOK
<1>2. /\ d \in Dhcps /\ d.lease = lease
      /\ d.t0_timeout = dhcp.t0_timeout /\ d.lease_used = dhcp.lease_used
      /\ d.t1_renew_time = dhcp.t1_renew_time /\ d.t2_rebind_time = dhcp.t2_rebind_time
    BY <1>1 DEF Dhcps, dhcp_handle_ack
<1>3. lease \in Nat /\ Promise(lease) \in Nat BY LeaseAssumption, PromiseIsNat
<1>4. granted' = Promise(lease) BY DEF Ack
<1>5. CASE dhcp.state = "REQUESTING"
    <2>1. dhcp' = Try(dhcp_set_state(d, "CHECKING")) /\ addr' = addr
        BY <1>5 DEF Ack, dhcp_check
    <2>2. addr' = 0 BY <1>5, <2>1 DEF DhcpInv, Outlasts, Supplied
    <2> HIDE DEF d
    <2>3. /\ Same(dhcp', d) /\ dhcp'.state = "CHECKING" /\ dhcp'.request_timeout = TRUE
        BY <1>2, <2>1, Sends DEF States
    <2>4. QED BY <1>2, <1>3, <1>4, <2>2, <2>3, ArmedKeeps DEF Same
<1>6. CASE dhcp.state \in {"REBINDING", "RENEWING"}
    <2>1. dhcp_bind(d) BY <1>6 DEF Ack
    <2> HIDE DEF d
    <2>2. QED BY <1>2, <1>3, <1>4, <2>1, BindKeeps
<1>7. QED BY <1>5, <1>6 DEF Ack

(* A refusal takes the address and starts over.                            *)
LEMMA NakKeeps == DhcpInv /\ dhcp_handle_nak => DhcpInv'
<1> SUFFICES ASSUME DhcpInv, dhcp_handle_nak PROVE DhcpInv' OBVIOUS
<1> DEFINE d == dhcp_set_state(dhcp, "BACKING_OFF")
<1>1. dhcp \in Dhcps BY DEF DhcpInv, DhcpTypeOK
<1>2. Same(d, dhcp) BY <1>1, SetsState DEF States
<1>3. dhcp' = dhcp_discover(d) /\ addr' = 0 /\ granted' = 0 BY DEF dhcp_handle_nak
<1> HIDE DEF d
<1>4. d \in Dhcps BY <1>2 DEF Same
<1>5. QED BY <1>2, <1>3, <1>4, Discovers, ArmedKeeps DEF Same

(* An address in use is declined.                                          *)
LEMMA ArpReplyKeeps == DhcpInv /\ dhcp_arp_reply => DhcpInv'
<1> SUFFICES ASSUME DhcpInv, dhcp_arp_reply PROVE DhcpInv' OBVIOUS
<1>1. dhcp \in Dhcps BY DEF DhcpInv, DhcpTypeOK
<1>2. dhcp' = Try(dhcp_set_state(dhcp, "BACKING_OFF")) /\ granted' = 0
    BY DEF dhcp_arp_reply, dhcp_decline
<1>3. addr' = 0 BY DEF dhcp_arp_reply, DhcpInv, Outlasts, Supplied
<1>4. Same(dhcp', dhcp) /\ dhcp'.state = "BACKING_OFF" /\ dhcp'.request_timeout = TRUE
    BY <1>1, <1>2, Sends DEF States
<1>5. QED BY <1>2, <1>3, <1>4, ArmedKeeps DEF Same

(* The request timeout fires.                                              *)
LEMMA FineKeeps == DhcpInv /\ dhcp_fine_tmr => DhcpInv'
<1> SUFFICES ASSUME DhcpInv, dhcp_fine_tmr PROVE DhcpInv' OBVIOUS
<1>1. dhcp \in Dhcps /\ granted \in Nat BY DEF DhcpInv, DhcpTypeOK
<1> USE DEF Supplied
<1>2. Same(Fired, dhcp) /\ Fired.state = dhcp.state BY <1>1 DEF Fired, Dhcps, Same
<1>3. Fired \in Dhcps BY <1>2 DEF Same
<1>4. dhcp.tries \in Int BY <1>1 DEF Dhcps
<1>5. CASE dhcp.state \in {"BACKING_OFF", "SELECTING"}
    <2>1. dhcp' = dhcp_discover(Fired) /\ addr' = addr /\ granted' = granted
        BY <1>5 DEF dhcp_fine_tmr, dhcp_timeout, Keeps
    <2>2. addr' = 0 BY <1>5, <2>1 DEF DhcpInv, Outlasts
    <2>3. QED BY <1>1, <1>2, <1>3, <2>1, <2>2, Discovers, ArmedKeeps DEF Same
<1>6. CASE dhcp.state = "REQUESTING" /\ dhcp.tries <= 5
    <2>1. dhcp' = Try(dhcp_set_state(Fired, "REQUESTING")) /\ addr' = addr /\ granted' = granted
        BY <1>6, <1>4 DEF dhcp_fine_tmr, dhcp_timeout, Keeps, dhcp_select
    <2>2. addr' = 0 BY <1>6, <2>1 DEF DhcpInv, Outlasts
    <2>3. Same(dhcp', Fired) /\ dhcp'.state = "REQUESTING" /\ dhcp'.request_timeout = TRUE
        BY <1>3, <2>1, Sends DEF States
    <2>4. QED BY <1>1, <1>2, <2>1, <2>2, <2>3, ArmedKeeps DEF Same
<1>7. CASE dhcp.state = "REQUESTING" /\ ~(dhcp.tries <= 5)
    <2>1. Restart BY <1>7, <1>4 DEF dhcp_fine_tmr, dhcp_timeout
    <2>2. QED BY <2>1, RestartKeeps
<1>8. CASE dhcp.state = "CHECKING" /\ dhcp.tries <= 1
    <2>1. dhcp' = Try(dhcp_set_state(Fired, "CHECKING")) /\ addr' = addr /\ granted' = granted
        BY <1>8, <1>4 DEF dhcp_fine_tmr, dhcp_timeout, Keeps, dhcp_check
    <2>2. addr' = 0 BY <1>8, <2>1 DEF DhcpInv, Outlasts
    <2>3. Same(dhcp', Fired) /\ dhcp'.state = "CHECKING" /\ dhcp'.request_timeout = TRUE
        BY <1>3, <2>1, Sends DEF States
    <2>4. granted' = Promise(dhcp'.lease) \/ granted' = Promise(dhcp'.lease) - 1
        BY <1>2, <1>8, <2>1, <2>3 DEF Same, DhcpInv, Outlasts
    <2>5. QED BY <1>1, <1>2, <2>1, <2>2, <2>3, <2>4, ArmedKeeps DEF Same
<1>9. CASE dhcp.state = "CHECKING" /\ ~(dhcp.tries <= 1)
    <2>1. dhcp_bind(Fired) /\ granted' = granted BY <1>9, <1>4 DEF dhcp_fine_tmr, dhcp_timeout
    <2>2. Fired.lease \in Nat BY <1>3, LeaseIsNat
    <2>3. granted' >= Promise(Fired.lease) - 1
        BY <1>1, <1>2, <1>9, <2>1, <2>2, PromiseIsNat DEF DhcpInv, Outlasts, Same
    <2>4. QED BY <1>1, <1>3, <2>1, <2>3, BindKeeps
<1>10. CASE dhcp.state \in Supplied
    <2>1. dhcp' = Fired /\ addr' = addr /\ granted' = granted
        BY <1>10 DEF dhcp_fine_tmr, dhcp_timeout, Keeps
    <2>2. Counting BY <1>10 DEF DhcpInv, Armed
    <2>3. QED BY <1>2, <1>10, <2>1, <2>2
            DEF Same, DhcpInv, DhcpTypeOK, Armed, Counting, TimersOfLease, Outlasts
<1>11. QED BY <1>5, <1>6, <1>7, <1>8, <1>9, <1>10 DEF DhcpInv, Armed, Counting

(* What a lease timer that fires leaves of d.                              *)
Leased(e, d) ==
    /\ e \in Dhcps
    /\ e.offered = d.offered /\ e.lease = d.lease
    /\ e.t0_timeout = d.t0_timeout /\ e.lease_used = d.lease_used

Alike(e, d) == e.state = d.state /\ e.request_timeout = d.request_timeout

(* The time to the next try is a number of ticks.                          *)
LEMMA HalfIsNat ==
    ASSUME NEW limit \in Nat, NEW d \in Dhcps
    PROVE  Half(limit, d) \in Nat
<1>1. d.lease_used \in Nat BY DEF Dhcps
<1>2. QED BY <1>1 DEF Half

(* The renewal timer fires: the client renews, or stays as it was.         *)
LEMMA T1Fires ==
    ASSUME NEW d \in Dhcps
    PROVE  /\ Leased(dhcp_t1_timeout(d), d)
           /\ dhcp_t1_timeout(d).state = "RENEWING" \/ Alike(dhcp_t1_timeout(d), d)
<1> DEFINE f == dhcp_renew(d)
           half == Half(d.t2_timeout, d)
<1>1. Same(f, d) /\ f.state = "RENEWING" BY Sends DEF dhcp_renew, States
<1>2. half \in Nat
    <2>1. d.t2_timeout \in Nat BY DEF Dhcps
    <2>2. QED BY <2>1, HalfIsNat
<1>3. dhcp_t1_timeout(d) = [f EXCEPT !.t1_renew_time = half] \/ dhcp_t1_timeout(d) = d
    BY DEF dhcp_t1_timeout
<1> HIDE DEF f, half
<1>4. QED BY <1>1, <1>2, <1>3 DEF Same, Leased, Alike, Dhcps

(* The rebinding timer fires: the client rebinds, or stays as it was.      *)
LEMMA T2Fires ==
    ASSUME NEW d \in Dhcps
    PROVE  /\ Leased(dhcp_t2_timeout(d), d)
           /\ dhcp_t2_timeout(d).state = "REBINDING" \/ Alike(dhcp_t2_timeout(d), d)
<1> DEFINE f == dhcp_rebind(d)
           half == Half(d.t0_timeout, d)
<1>1. Same(f, d) /\ f.state = "REBINDING" BY Sends DEF dhcp_rebind, States
<1>2. half \in Nat
    <2>1. d.t0_timeout \in Nat BY DEF Dhcps
    <2>2. QED BY <2>1, HalfIsNat
<1>3. dhcp_t2_timeout(d) = [f EXCEPT !.t2_rebind_time = half] \/ dhcp_t2_timeout(d) = d
    BY DEF dhcp_t2_timeout
<1> HIDE DEF f, half
<1>4. QED BY <1>1, <1>2, <1>3 DEF Same, Leased, Alike, Dhcps

(* A coarse tick: the lease ends, or its timers count and may fire.        *)
LEMMA CoarseKeeps == DhcpInv /\ dhcp_coarse_tmr => DhcpInv'
<1> SUFFICES ASSUME DhcpInv, dhcp_coarse_tmr PROVE DhcpInv' OBVIOUS
<1> DEFINE ends == dhcp.t0_timeout > 0 /\ Used = dhcp.t0_timeout
           d == [dhcp EXCEPT !.lease_used = Used, !.t2_rebind_time = Down(@)]
           e == [d EXCEPT !.t1_renew_time = Down(@)]
<1>1. dhcp \in Dhcps /\ granted \in Nat /\ addr \in Addresses \cup {0}
    BY DEF DhcpInv, DhcpTypeOK
<1>2. /\ dhcp.t0_timeout \in Nat /\ dhcp.lease_used \in Nat
      /\ dhcp.t1_renew_time \in Nat /\ dhcp.t2_rebind_time \in Nat
    BY <1>1 DEF Dhcps
<1>3. CASE ends
    <2>1. Restart BY <1>3 DEF dhcp_coarse_tmr
    <2>2. QED BY <2>1, RestartKeeps
<1>4. CASE ~ends
    <2>1. CheckIsShort /\ Count(d, e) BY <1>4 DEF dhcp_coarse_tmr
    <2>2. Used \in Nat /\ Down(dhcp.t2_rebind_time) \in Nat /\ Down(dhcp.t1_renew_time) \in Nat
        BY <1>2 DEF Used, Down
    <2>3. /\ d \in Dhcps /\ d.lease_used = Used /\ d.t0_timeout = dhcp.t0_timeout
          /\ d.offered = dhcp.offered /\ d.lease = dhcp.lease /\ Alike(d, dhcp)
          /\ d.t1_renew_time = dhcp.t1_renew_time
        BY <1>1, <2>2 DEF Dhcps, Alike
    <2>4. e.t1_renew_time = Down(dhcp.t1_renew_time)
          /\ e.t2_rebind_time = Down(dhcp.t2_rebind_time)
        BY <1>1, <2>2 DEF Dhcps
    <2>5. Leased(e, d) /\ Alike(e, dhcp)
        BY <1>1, <2>2, <2>3 DEF Dhcps, Leased, Alike
    <2>6. /\ granted' = Down(granted) /\ addr' = addr
          /\ \/ dhcp.t2_rebind_time = 1 /\ dhcp' = dhcp_t2_timeout(d)
             \/ dhcp.t1_renew_time = 1 /\ dhcp' = dhcp_t1_timeout(e)
             \/ dhcp' = e
        BY <2>1 DEF Count
    <2> HIDE DEF d, e
    <2>7. e \in Dhcps BY <2>5 DEF Leased
    <2>8. /\ dhcp' \in Dhcps /\ dhcp'.offered = dhcp.offered /\ dhcp'.lease = dhcp.lease
          /\ dhcp'.t0_timeout = dhcp.t0_timeout /\ dhcp'.lease_used = Used
          /\ dhcp'.state \in {"RENEWING", "REBINDING"} \/ Alike(dhcp', dhcp)
        BY <2>3, <2>5, <2>6, <2>7, T1Fires, T2Fires DEF Leased, Alike
    <2>9. CASE dhcp.t0_timeout = 0
        <3>1. dhcp.t1_renew_time = 0 /\ dhcp.t2_rebind_time = 0
            BY <2>9 DEF DhcpInv, TimersOfLease
        <3>2. dhcp' = e BY <3>1, <2>6
        <3>3. dhcp'.t1_renew_time = 0 /\ dhcp'.t2_rebind_time = 0 /\ Alike(dhcp', dhcp)
            BY <3>1, <3>2, <2>4, <2>5 DEF Down
        <3>4. Armed BY <2>9 DEF DhcpInv, Counting
        <3>5. Armed' BY <3>3, <3>4 DEF Armed, Alike
        <3>6. addr' = 0 BY <3>4, <2>6 DEF Armed, DhcpInv, Outlasts, Supplied
        <3>7. Used = dhcp.lease_used BY <2>9 DEF Used
        <3>8. dhcp'.lease_used <= dhcp'.t0_timeout
            BY <3>7, <2>8 DEF DhcpInv, DhcpTypeOK
        <3>9. dhcp'.state = "CHECKING" => granted' = Promise(dhcp'.lease) - 1
            <4>1. SUFFICES ASSUME dhcp'.state = "CHECKING" PROVE granted' = Promise(dhcp'.lease) - 1
                OBVIOUS
            <4>2. dhcp.state = "CHECKING" BY <4>1, <3>3 DEF Alike
            <4>3. granted = Promise(dhcp.lease) BY <4>2, <2>1 DEF CheckIsShort
            <4>4. Promise(dhcp.lease) >= 2 BY <1>1, LeaseIsNat, PromiseIsNat
            <4>5. QED BY <1>1, <2>6, <2>8, <4>3, <4>4 DEF Down
        <3>10. granted' \in Nat BY <1>1, <2>6 DEF Down
        <3>11. QED BY <1>1, <2>8, <2>9, <3>3, <3>5, <3>6, <3>8, <3>9, <3>10
                DEF DhcpInv, DhcpTypeOK, TimersOfLease, Outlasts
    <2>10. CASE dhcp.t0_timeout > 0
        <3>1. Used = dhcp.lease_used + 1 BY <2>10 DEF Used
        <3>2. Used < dhcp.t0_timeout
            BY <1>2, <1>4, <2>10, <3>1 DEF DhcpInv, TimersOfLease
        <3>3. granted' \in Nat BY <1>1, <2>6 DEF Down
        <3>4. Armed' \/ Counting'
            BY <2>8, <2>10 DEF Alike, DhcpInv, Armed, Counting, Supplied
        <3>5. addr' # 0 => /\ dhcp'.state \in Supplied
                           /\ addr' = dhcp'.offered
                           /\ granted' >= dhcp'.t0_timeout - dhcp'.lease_used
            BY <1>1, <1>2, <2>6, <2>8, <3>1, <3>2 DEF Down, Alike, DhcpInv, Outlasts, Supplied
        <3>6. dhcp'.state = "CHECKING" => granted' = Promise(dhcp'.lease) - 1
            <4>1. SUFFICES ASSUME dhcp'.state = "CHECKING" PROVE granted' = Promise(dhcp'.lease) - 1
                OBVIOUS
            <4>2. dhcp.state = "CHECKING" BY <4>1, <2>8 DEF Alike
            <4>3. granted = Promise(dhcp.lease) BY <4>2, <2>1 DEF CheckIsShort
            <4>4. Promise(dhcp.lease) >= 2 BY <1>1, LeaseIsNat, PromiseIsNat
            <4>5. QED BY <1>1, <2>6, <2>8, <4>3, <4>4 DEF Down
        <3>7. QED BY <1>1, <1>2, <2>2, <2>6, <2>8, <2>10, <3>2, <3>3, <3>4, <3>5, <3>6
                DEF DhcpInv, DhcpTypeOK, TimersOfLease, Outlasts
    <2>11. QED BY <1>2, <2>9, <2>10
<1>5. QED BY <1>3, <1>4

(* The invariant is kept by every step, dhcp_recv and the two timers.      *)
THEOREM DhcpInvariance == DhcpSpec => []DhcpInv
<1>1. DhcpInv /\ [DhcpNext]_dhcpVars => DhcpInv'
    <2> SUFFICES ASSUME DhcpInv, [DhcpNext]_dhcpVars PROVE DhcpInv' OBVIOUS
    <2>1. CASE DhcpNext
        BY <2>1, LoseKeeps, OfferKeeps, AckKeeps, NakKeeps, ArpReplyKeeps, FineKeeps, CoarseKeeps
        DEF DhcpNext
    <2>2. CASE UNCHANGED dhcpVars
        BY <2>2 DEF dhcpVars, DhcpInv, DhcpTypeOK, Armed, Counting, TimersOfLease, Outlasts
    <2>3. QED BY <2>1, <2>2
<1>2. QED BY <1>1, DhcpInvInit, PTL DEF DhcpSpec

(* The interface has an address only while the client holds a lease on it  *)
(* that the server has not taken back, for all addresses and lease times:  *)
(* dhcp_coarse_tmr and dhcp_handle_nak remove it in time.  The used part   *)
(* of a lease never passes its end, and the client always has a timer that *)
(* will wake it: no path through dhcp.c stops it.                          *)
THEOREM LeaseIsSound == DhcpSpec => []LeaseSound
<1>1. DhcpInv => AddressIsLeased
    <2> SUFFICES ASSUME DhcpInv, addr # 0 PROVE AddressIsLeased
        BY DEF AddressIsLeased
    <2>1. dhcp.state \in Supplied /\ addr = dhcp.offered
          /\ granted >= dhcp.t0_timeout - dhcp.lease_used
        BY DEF DhcpInv, Outlasts
    <2>2. dhcp.t0_timeout > 0 BY <2>1 DEF DhcpInv, Armed, Counting, Supplied
    <2>3. dhcp.lease_used < dhcp.t0_timeout BY <2>2 DEF DhcpInv, TimersOfLease
    <2>4. dhcp.t0_timeout \in Nat /\ dhcp.lease_used \in Nat /\ granted \in Nat
        BY DEF DhcpInv, DhcpTypeOK, Dhcps
    <2>5. QED BY <2>1, <2>3, <2>4 DEF AddressIsLeased
<1>2. DhcpInv => NeverStranded
    BY DEF DhcpInv, NeverStranded, Armed, Counting, Supplied
<1>3. DhcpInv => LeaseSound BY <1>1, <1>2 DEF DhcpInv, LeaseSound
<1>4. QED BY <1>3, DhcpInvariance, PTL
=============================================================================
