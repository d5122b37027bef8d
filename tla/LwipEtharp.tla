----------------------------- MODULE LwipEtharp -----------------------------
(***************************************************************************)
(* lwIP's ARP table (core/ipv4/etharp.c), through which every packet of    *)
(* the contestant goes: one packet waits per unresolved address, entries   *)
(* age, and a full table gives up its least important entry.               *)
(***************************************************************************)
EXTENDS Integers, FiniteSetsExt

CONSTANTS
    Neighbours,         \* addresses packets are sent to, after routing
    Macs,               \* hardware addresses they may have
    ARP_TABLE_SIZE,
    ARP_MAXAGE,         \* ticks until a stable entry expires
    ARP_MAXPENDING,     \* ticks until a pending one does
    AGE_UNICAST,        \* ARP_AGE_REREQUEST_USED_UNICAST
    MaxProbes           \* address probes of the DHCP client

ASSUME EtharpAssumption ==
    /\ {ARP_TABLE_SIZE, ARP_MAXAGE, ARP_MAXPENDING} \subseteq Nat \ {0}
    /\ AGE_UNICAST \in 1 .. ARP_MAXAGE - 1

Indexes == 0 .. ARP_TABLE_SIZE - 1
Stable == {"STABLE", "STABLE_REREQUESTING_1", "STABLE_REREQUESTING_2"}
Nothing == 0    \* no address, no hardware address

VARIABLES
    entries,        \* arp_table
    cached,         \* etharp_cached_entry
    speaks,         \* the hardware address each neighbour last spoke from
    frames,         \* packets of the last step: address and hardware address
    probes

etharpVars == <<entries, cached, speaks, frames, probes>>

(* The fields of an EMPTY entry are not read. *)
Empty == [state |-> "EMPTY", ip |-> Nothing, mac |-> Nothing, ctime |-> 0, q |-> FALSE]

(* An entry has a neighbour, a state and an age below the limit of it. *)
EntryOK(e) ==
    \/ e = Empty
    \/ /\ e.ip \in Neighbours
       /\ \/ e.state = "PENDING" /\ e.ctime < ARP_MAXPENDING
          \/ e.state \in Stable /\ e.ctime < ARP_MAXAGE

(* All entries are such, and the cached index is one of the table. *)
EtharpTypeOK ==
    /\ DOMAIN entries = Indexes
    /\ \A i \in Indexes : EntryOK(entries[i])
    /\ cached \in Indexes

EtharpInit ==
    /\ entries = [i \in Indexes |-> Empty]
    /\ cached = 0
    /\ speaks = [h \in Neighbours |-> Nothing]
    /\ frames = {}
    /\ probes = 0

-----------------------------------------------------------------------------
Of(h) == {i \in Indexes : entries[i].state # "EMPTY" /\ entries[i].ip = h}

(* The oldest of the entries S; the last of them when they are as old. *)
Oldest(S) == CHOOSE i \in S : \A j \in S :
    \/ entries[i].ctime > entries[j].ctime
    \/ entries[i].ctime = entries[j].ctime /\ i >= j

Stables == {i \in Indexes : entries[i].state \in Stable}
Pendings(q) == {i \in Indexes : entries[i].state = "PENDING" /\ entries[i].q = q}

Empties == {i \in Indexes : entries[i].state = "EMPTY"}

(* A full table gives up its oldest stable entry, or its oldest pending one,
   if possible one without a packet. *)
Recycled ==
    IF Stables # {} THEN Oldest(Stables)
    ELSE IF Pendings(FALSE) # {} THEN Oldest(Pendings(FALSE))
    ELSE Oldest(Pendings(TRUE))

(* etharp_find_entry with ETHARP_FLAG_TRY_HARD: the entry of h, or the one
   that is used for it. *)
etharp_find_entry(h) ==
    IF Of(h) # {} THEN Min(Of(h))
    ELSE IF Empties # {} THEN Min(Empties)
    ELSE Recycled

(* etharp_update_arp_entry on the entry that was found: the packet that
   waited in it leaves. *)
etharp_update_arp_entry(i, h, mac) ==
    /\ entries' = [entries EXCEPT ![i] =
            [state |-> "STABLE", ip |-> h, mac |-> mac, ctime |-> 0, q |-> FALSE]]
    /\ frames' = IF i \in Of(h) /\ entries[i].q THEN {<<h, mac>>} ELSE {}

(* etharp_input: a neighbour asks for our address or answers us, or (not for
   us) speaks to another, which only refreshes an entry it has. *)
etharp_input(h, mac, for_us) ==
    /\ speaks' = [speaks EXCEPT ![h] = mac]
    /\ IF for_us \/ Of(h) # {}
       THEN etharp_update_arp_entry(etharp_find_entry(h), h, mac)
       ELSE frames' = {} /\ UNCHANGED entries
    /\ UNCHANGED <<cached, probes>>

(* The entry that a query for h leaves in place i: an own entry, or a fresh
   pending one. *)
Asked(i, h) ==
    IF i \in Of(h) THEN entries[i]
    ELSE [Empty EXCEPT !.state = "PENDING", !.ip = h]

(* etharp_query with a packet for h, which no stable entry has: it waits in
   the place of the one that waited there, unless it cannot be copied. *)
etharp_query(h) ==
    /\ \E i \in {etharp_find_entry(h)}, kept \in BOOLEAN :
          entries' = [entries EXCEPT ![i] = [Asked(i, h) EXCEPT !.q = @ \/ kept]]
    /\ frames' = {}

(* etharp_query without a packet (the DHCP client probes the address it is
   offered): a request that was sent renews a pending entry. *)
etharp_query_probe(h) ==
    /\ probes < MaxProbes
    /\ probes' = probes + 1
    /\ \E i \in {etharp_find_entry(h)}, ok \in BOOLEAN :
          LET e == Asked(i, h)
          IN  entries' = [entries EXCEPT ![i] =
                 [e EXCEPT !.ctime = IF ok /\ e.state = "PENDING" THEN 0 ELSE @]]
    /\ frames' = {}
    /\ UNCHANGED <<cached, speaks>>

(* etharp_output_to_arp_index: an entry that is about to expire is asked for
   again, first of its host and later of all, if the request can be sent. *)
etharp_output_to_arp_index(i, h) ==
    /\ \/ UNCHANGED entries
       \/ /\ entries[i].state = "STABLE" /\ entries[i].ctime >= AGE_UNICAST
          /\ entries' = [entries EXCEPT ![i].state = "STABLE_REREQUESTING_1"]
    /\ frames' = {<<h, entries[i].mac>>}

(* Mutant: the cached entry is used while it is stable. *)
UsesCached_any(h) == entries[cached].state \in Stable

(* The cached entry is stable and the right one. *)
UsesCached(h) == entries[cached].state \in Stable /\ entries[cached].ip = h

(* etharp_output, to a unicast address. *)
etharp_output(h) ==
    /\ \/ /\ UsesCached(h)
          /\ etharp_output_to_arp_index(cached, h)
          /\ UNCHANGED cached
       \/ /\ ~UsesCached(h) /\ Of(h) \cap Stables # {}
          /\ cached' = Min(Of(h) \cap Stables)
          /\ etharp_output_to_arp_index(cached', h)
       \/ /\ ~UsesCached(h) /\ Of(h) \cap Stables = {}
          /\ etharp_query(h)
          /\ UNCHANGED cached
    /\ UNCHANGED <<speaks, probes>>

Expires(e) ==
    \/ e.ctime + 1 >= ARP_MAXAGE
    \/ e.state = "PENDING" /\ e.ctime + 1 >= ARP_MAXPENDING

Rerequested(state) ==
    IF state = "STABLE_REREQUESTING_1" THEN "STABLE_REREQUESTING_2"
    ELSE IF state = "STABLE_REREQUESTING_2" THEN "STABLE"
    ELSE state

(* What etharp_tmr makes of an entry. *)
Aged(e) ==
    IF e.state = "EMPTY" \/ Expires(e) THEN Empty
    ELSE [e EXCEPT !.ctime = @ + 1, !.state = Rerequested(@)]

(* etharp_tmr, once a second. *)
etharp_tmr ==
    /\ entries' = [i \in Indexes |-> Aged(entries[i])]
    /\ frames' = {}
    /\ UNCHANGED <<cached, speaks, probes>>

EtharpNext ==
    \/ \E h \in Neighbours, mac \in Macs, for_us \in BOOLEAN : etharp_input(h, mac, for_us)
    \/ \E h \in Neighbours : etharp_output(h) \/ etharp_query_probe(h)
    \/ etharp_tmr

EtharpSpec == EtharpInit /\ [][EtharpNext]_etharpVars /\ WF_etharpVars(etharp_tmr)

-----------------------------------------------------------------------------
(* An address has one entry, however entries were recycled, and a stable one
   names the hardware address its neighbour last spoke from.
   etharp_find_entry and etharp_update_arp_entry. *)
OneNewestEntry ==
    \A h \in Neighbours : \A i, j \in Of(h) :
        i = j /\ (i \in Stables => entries[i].mac = speaks[h])

(* "no queued packets should exist on stable entries", as etharp_find_entry
   asserts before it recycles one: the packet would be freed unsent. *)
StableHasNoQueue == \A i \in Stables : ~entries[i].q

(* A packet is only ever sent to the hardware address its neighbour last
   spoke from, though the cached index outlives the entry it was set for.
   etharp_output and etharp_update_arp_entry. *)
SentToNeighbour == \A f \in frames : f[2] = speaks[f[1]]

(* The ARP table is right about every neighbour it knows. *)
ArpSound == EtharpTypeOK /\ OneNewestEntry /\ StableHasNoQueue /\ SentToNeighbour

(* A packet does not wait for ever: its entry is resolved, recycled or
   expires, however many packets follow it. etharp_tmr and etharp_query. *)
QueueDrains == \A h \in Neighbours : []<>(\A i \in Of(h) : ~entries[i].q)
=============================================================================
