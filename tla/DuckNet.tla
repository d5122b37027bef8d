------------------------------ MODULE DuckNet ------------------------------
(***************************************************************************)
(* ducknet/lib: the address resolution of the small network stack.  A      *)
(* packet for a host whose address is known is sent at once; for another   *)
(* host it waits in a slot of the to-send table while the ARP query goes   *)
(* out, and the idle routine sends it, asks again or gives it up.          *)
(*                                                                         *)
(* The addresses learned and the queries sent are kept in tables found by  *)
(* binary search.  The search never looks past the last entry, so a new    *)
(* largest address is put before it and the tables do not stay sorted.     *)
(*                                                                         *)
(* ducknet_gettime keeps the low half of the time stamp counter ("=A" is   *)
(* one register in 64-bit code), so the clock is modulo Word, while the    *)
(* times at which entries expire are not.                                  *)
(***************************************************************************)
EXTENDS Integers, Sequences, SequencesExt, FiniteSetsExt

CONSTANTS
    Addresses,          \* of the local network
    Gateway, Remote,    \* Remote is reached through Gateway
    MaxLoad,            \* bound on packets to send and hosts up, which count double
    ARP_TABLE_SIZE, TOSEND_TABLE_SIZE,
    Word,               \* 2^32
    Freqs,              \* frequencies of the counter, per five seconds
    MaxMoves            \* bound: how often hosts change their MAC address

ASSUME DuckNetAssumption ==
    /\ Addresses \subseteq Nat /\ Gateway \in Addresses /\ Remote \notin Addresses
    /\ MaxLoad \in Nat
    /\ {ARP_TABLE_SIZE, TOSEND_TABLE_SIZE, Word} \subseteq Nat \ {0}
    /\ Freqs \subseteq Nat /\ MaxMoves \in Nat

VARIABLES
    tsc_freq,
    currenttime,
    arp_table,          \* sequence of [ip, mac]; ARP_NEVER_EXPIRE is true
    arp_query_table,    \* sequence of [ip, expire]
    tosend,             \* slot -> the packet that waits in it, or Free
    asked,              \* hosts for which a request is on the wire
    mac,                \* the MAC address a host has now
    fate,               \* history: packet -> what became of it
    heard,              \* history: host -> the last MAC address it told us
    lost                \* history: a request or its answer was lost

netVars == <<tsc_freq, currenttime, arp_table, arp_query_table, tosend, asked, mac, fate, heard, lost>>

Hosts == DOMAIN mac         \* the hosts that are up, the same all the time
Packets == DOMAIN fate      \* the packets the program may send
Slots == 0 .. TOSEND_TABLE_SIZE - 1
Free == [packet |-> 0]
Mac(h) == <<h, mac[h]>>
NextHop(dst) == IF dst \in Hosts THEN dst ELSE Gateway
None == <<>>

(* The binary search of update, lookup and query: a place counted from 0. *)
search(t, ip) ==
    LET s[l \in 0 .. Len(t), r \in -1 .. Len(t)] ==
            IF l >= r THEN l
            ELSE LET mid == (l + r) \div 2
                 IN  IF t[mid + 1].ip < ip THEN s[mid + 1, r] ELSE s[l, mid]
    IN  s[0, Len(t) - 1]

Found(t, ip) == LET l == search(t, ip) IN l < Len(t) /\ t[l + 1].ip = ip

arp_lookup(ip) == IF Found(arp_table, ip) THEN arp_table[search(arp_table, ip) + 1].mac ELSE None

(* Mutant: what is known is not renewed. *)
arp_update_keeps(ip, m) ==
    LET l == search(arp_table, ip) + 1
    IN  IF Found(arp_table, ip) \/ Len(arp_table) = ARP_TABLE_SIZE THEN arp_table
        ELSE InsertAt(arp_table, l, [ip |-> ip, mac |-> m])

arp_update(ip, m) ==
    LET l == search(arp_table, ip) + 1
        e == [ip |-> ip, mac |-> m]
    IN  IF Found(arp_table, ip) THEN [arp_table EXCEPT ![l] = e]
        ELSE IF Len(arp_table) = ARP_TABLE_SIZE THEN arp_table
        ELSE InsertAt(arp_table, l, e)

(* Mutant: the entry is made and no request sent. *)
arp_query_silent(q, ip, now) ==
    IF Found(q.table, ip) \/ Len(q.table) = ARP_TABLE_SIZE THEN q
    ELSE [table |-> InsertAt(q.table, search(q.table, ip) + 1,
                             [ip |-> ip, expire |-> now + tsc_freq \div 5]),
          asked |-> q.asked]

(* arp_query on [table, asked]: a new entry sends a request, a known address
   or a full table does nothing.  "ARP_QUERY_TIMEOUT_MS = 1000" *)
arp_query(q, ip, now) ==
    IF Found(q.table, ip) \/ Len(q.table) = ARP_TABLE_SIZE THEN q
    ELSE [table |-> InsertAt(q.table, search(q.table, ip) + 1,
                             [ip |-> ip, expire |-> now + tsc_freq \div 5]),
          asked |-> q.asked \cup {ip}]

Queries(t) == [table |-> t, asked |-> asked]

Queried(q) == arp_query_table' = q.table /\ asked' = q.asked

DuckNetInit ==
    /\ tsc_freq \in Freqs
    /\ currenttime \in 0 .. Word - 1
    /\ arp_table = <<>> /\ arp_query_table = <<>>
    /\ tosend = [i \in Slots |-> Free]
    /\ asked = {}
    /\ \E up \in SUBSET Addresses :
          /\ Gateway \in up
          /\ mac = [h \in up |-> 0]
          /\ fate = [p \in 1 .. MaxLoad - 2 * Cardinality(up) |-> "new"]
    /\ heard = [h \in Hosts |-> None]
    /\ lost = FALSE

FreeSlots == {i \in Slots : tosend[i] = Free}

find_tosend_free == CHOOSE i \in FreeSlots : \A j \in FreeSlots : i <= j

(* ipv4_send for a next hop whose address is known. *)
ipv4_send(p, dst) ==
    /\ fate[p] = "new"
    /\ arp_lookup(NextHop(dst)) # None
    /\ fate' = [fate EXCEPT ![p] = "sent"]
    /\ UNCHANGED <<tsc_freq, currenttime, arp_table, arp_query_table, tosend, asked, mac, heard, lost>>

(* "TOSEND_TIMEOUT_MS = 5000" *)
Waiting(p, hop) == [packet |-> p, hop |-> hop, expire |-> currenttime + tsc_freq]

(* ipv4_send for another: the query first, then a slot, if there is one. *)
ipv4_send_later(p, dst) ==
    /\ fate[p] = "new"
    /\ arp_lookup(NextHop(dst)) = None
    /\ Queried(arp_query(Queries(arp_query_table), NextHop(dst), currenttime))
    /\ IF FreeSlots = {}
       THEN fate' = [fate EXCEPT ![p] = "dropped"] /\ UNCHANGED tosend
       ELSE /\ fate' = [fate EXCEPT ![p] = "waiting"]
            /\ tosend' = [tosend EXCEPT ![find_tosend_free] = Waiting(p, NextHop(dst))]
    /\ UNCHANGED <<tsc_freq, currenttime, arp_table, mac, heard, lost>>

arp_idle(now) == SelectSeq(arp_query_table, LAMBDA q : now <= q.expire)

Expired(i, now) == tosend[i] # Free /\ now > tosend[i].expire
Resolved(i, now) == tosend[i] # Free /\ ~Expired(i, now) /\ arp_lookup(tosend[i].hop) # None
Unresolved(i, now) == tosend[i] # Free /\ ~Expired(i, now) /\ arp_lookup(tosend[i].hop) = None

(* Every slot in turn is given up, sent or asked for again. *)
ipv4_idle(queries, now) ==
    /\ fate' = [p \in Packets |->
           CASE \E i \in Slots : Resolved(i, now) /\ tosend[i].packet = p -> "sent"
             [] \E i \in Slots : Expired(i, now) /\ tosend[i].packet = p -> "expired"
             [] OTHER -> fate[p]]
    /\ tosend' = [i \in Slots |-> IF Unresolved(i, now) THEN tosend[i] ELSE Free]
    /\ Queried(FoldLeft(LAMBDA q, i : IF Unresolved(i, now) THEN arp_query(q, tosend[i].hop, now) ELSE q,
                        Queries(queries), [k \in 1 .. TOSEND_TABLE_SIZE |-> k - 1]))

(* ducknet_idle reads the clock, then the idle routines run: both when time
   has passed, each when its counter lets it. *)
ducknet_idle(now, arp, ipv4) ==
    LET queries == IF arp THEN arp_idle(now) ELSE arp_query_table
    IN  /\ now # currenttime => arp /\ ipv4
        /\ currenttime' = now
        /\ IF ipv4 THEN ipv4_idle(queries, now)
                   ELSE arp_query_table' = queries /\ UNCHANGED <<tosend, asked, fate>>
        /\ UNCHANGED <<tsc_freq, arp_table, mac, heard, lost>>

Tick == ducknet_idle((currenttime + 1) % Word, TRUE, TRUE)
Turn == \E arp, ipv4 \in BOOLEAN : ducknet_idle(currenttime, arp, ipv4)

(* A reply of h, to a request or unasked, reaches arp_packet_handle. *)
Hear(h, m) ==
    /\ arp_table' = arp_update(h, m)
    /\ heard' = [heard EXCEPT ![h] = m]
    /\ UNCHANGED <<tsc_freq, currenttime, arp_query_table, tosend, fate>>

Answer(h) == h \in asked /\ asked' = asked \ {h} /\ Hear(h, Mac(h)) /\ UNCHANGED <<mac, lost>>
Announce(h) == Hear(h, Mac(h)) /\ UNCHANGED <<asked, mac, lost>>

(* The network loses a request or its answer. *)
Lose(h) ==
    /\ h \in asked
    /\ asked' = asked \ {h}
    /\ lost' = TRUE
    /\ UNCHANGED <<tsc_freq, currenttime, arp_table, arp_query_table, tosend, mac, fate, heard>>

(* Another card takes over the address h. *)
Move(h) ==
    /\ MapThenSumSet(LAMBDA g : mac[g], Hosts) < MaxMoves
    /\ mac' = [mac EXCEPT ![h] = @ + 1]
    /\ UNCHANGED <<tsc_freq, currenttime, arp_table, arp_query_table, tosend, asked, fate, heard, lost>>

DuckNetNext ==
    \/ \E p \in Packets, dst \in Hosts \cup {Remote} : ipv4_send(p, dst) \/ ipv4_send_later(p, dst)
    \/ Tick \/ Turn
    \/ \E h \in Hosts : Answer(h) \/ Announce(h) \/ Lose(h) \/ Move(h)

(* The loop turns and time passes, and a request is answered or lost in the
   end. *)
Served == \E h \in Hosts : Answer(h) \/ Lose(h)

DuckNetSpec == DuckNetInit /\ [][DuckNetNext]_netVars /\ WF_netVars(Tick) /\ WF_netVars(Served)

(* The same by what the steps change, which is cheaper to check: only a Tick
   moves the clock and only an Answer or a loss shortens the list. *)
TimePasses == []<><<currenttime' # currenttime>>_netVars
RequestsAnswered == []<>(asked = {}) \/ []<><<\E h \in asked : h \notin asked'>>_netVars
DuckNetFairness == TimePasses /\ RequestsAnswered

-----------------------------------------------------------------------------
(* Tables and clock stay in their ranges. *)
DuckNetTypeOK ==
    /\ tsc_freq \in Freqs /\ currenttime \in 0 .. Word - 1
    /\ Len(arp_table) <= ARP_TABLE_SIZE /\ Len(arp_query_table) <= ARP_TABLE_SIZE
    /\ \A i \in DOMAIN arp_table : arp_table[i].ip \in Hosts
    /\ \A i \in DOMAIN arp_query_table : arp_query_table[i].ip \in Hosts
    /\ asked \subseteq Hosts /\ lost \in BOOLEAN

Ascending(t) == \A i, j \in 1 .. Len(t) - 1 : i < j => t[i].ip < t[j].ip

(* The searches find what they should although the tables are not sorted: all
   entries but the last are, without duplicates, through every insertion and
   expiry.  So a table needs one entry more than there are hosts, never more. *)
SortedButLast == Ascending(arp_table) /\ Ascending(arp_query_table)

Forgotten(h) == heard[h] # None /\ arp_lookup(h) = None

(* While the table has room, at most one host that has told us its address is
   not found: the first one heard, once a larger address has been put before
   it.  Its next reply makes it known for good. *)
OneForgotten ==
    Len(arp_table) < ARP_TABLE_SIZE => Cardinality({h \in Hosts : Forgotten(h)}) <= 1

(* A packet leaves for the address its next hop told us last: lookup finds no
   older one although a host may be in the table twice. *)
LookupNewest == \A h \in Hosts : arp_lookup(h) \in {None, heard[h]}

(* A packet that ipv4_send has accepted and that has neither left nor expired
   is in exactly one slot; the others are free. *)
SlotsHoldWaiting ==
    /\ \A p \in Packets :
           Cardinality({i \in Slots : tosend[i].packet = p}) = IF fate[p] = "waiting" THEN 1 ELSE 0
    /\ \A i \in Slots : tosend[i] = Free \/ tosend[i].packet \in Packets

(* The two tables and the slots answer every search rightly, in any order of
   replies, expiries and sends. *)
TablesSound == DuckNetTypeOK /\ SortedButLast /\ OneForgotten /\ LookupNewest /\ SlotsHoldWaiting

IsWaiting(p) == p \in Packets /\ fate[p] = "waiting"

(* A waiting packet leaves, unless a request was lost or its host forgotten. *)
WaitingLeaves ==
    \A p \in 1 .. MaxLoad - 2 : IsWaiting(p) ~> (~IsWaiting(p) \/ lost \/ \E h \in Hosts : Forgotten(h))

(* "TOSEND_TIMEOUT_MS = 5000": a packet does not wait for ever. *)
WaitingExpires == \A p \in 1 .. MaxLoad - 2 : IsWaiting(p) ~> ~IsWaiting(p)
=============================================================================
