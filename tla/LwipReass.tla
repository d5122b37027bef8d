----------------------------- MODULE LwipReass -----------------------------
(***************************************************************************)
(* Reassembly of IP fragments in lwIP (core/ipv4/ip4_frag.c): fragments    *)
(* of several datagrams arrive in any order, more than once and cut in     *)
(* different ways on different paths, and wait for the missing ones in a   *)
(* pool of few entries and a limited number of pbufs.  A full pool gives   *)
(* up the oldest datagrams, and a timer those that stay incomplete.        *)
(*                                                                         *)
(* Lengths are in pbufs, which a received packet is stored in.             *)
(***************************************************************************)
EXTENDS Integers, Sequences, FiniteSetsExt

CONSTANTS
    Datagrams,              \* what tells datagrams apart: addresses and identification
    Fragments,              \* <<first, end>> of the parts datagrams are cut into
    MEMP_NUM_REASSDATA,
    IP_REASS_MAX_PBUFS,
    IP_REASS_MAXAGE         \* ticks of ip_reass_tmr

ASSUME ReassAssumption ==
    /\ {MEMP_NUM_REASSDATA, IP_REASS_MAX_PBUFS, IP_REASS_MAXAGE} \subseteq Nat \ {0}
    /\ \A f \in Fragments : f \in Nat \X Nat /\ f[1] < f[2]

VARIABLES
    reassdatagrams,         \* the list, newest first; frags is the list p of an entry
    ip_reass_pbufcount,
    passed                  \* the datagram the last call returned, or NoDatagram

reassVars == <<reassdatagrams, ip_reass_pbufcount, passed>>

DatagramLen == Max({f[2] : f \in Fragments})
NoDatagram == [frags |-> {}, len |-> 0]

ReassInit ==
    /\ reassdatagrams = <<>>
    /\ ip_reass_pbufcount = 0
    /\ passed = NoDatagram

-----------------------------------------------------------------------------
pbuf_clen(f) == f[2] - f[1]
Held(d) == MapThenSumSet(pbuf_clen, d.frags)
HeldBy(list, S) == MapThenSumSet(LAMBDA i : Held(list[i]), S)
Dequeued(list, S) == SelectSeq(list, LAMBDA d : \A i \in S : list[i].id # d.id)

(* ip_reass_remove_oldest_datagram: other datagrams are freed, the oldest
   first and of those as old the last in the list, until the pbufs needed
   are free or there are no others. *)
Oldest_first(list, id, needed) ==
    LET others == {i \in DOMAIN list : list[i].id # id}
        before(i) == {j \in others : \/ list[j].timer < list[i].timer
                                     \/ list[j].timer = list[i].timer /\ j > i}
    IN  {i \in others : HeldBy(list, before(i)) < needed}

(* Mutant: without IP_REASS_CHECK_OVERLAP. *)
Overlaps_same(f, g) == f[1] = g[1]

(* A fragment f is thrown away because of a fragment g in the list. *)
Overlaps(f, g) ==
    \/ f[1] = g[1]
    \/ g[1] < f[1] /\ f[1] < g[2]
    \/ f[1] < g[1] /\ g[1] < f[2]

(* The validation of ip_reass_chain_frag_into_datagram_and_validate: from
   zero on, without a hole. *)
Tiled(frags) ==
    /\ \E f \in frags : f[1] = 0
    /\ \A f \in frags : f[2] = Max({g[2] : g \in frags}) \/ \E g \in frags : g[1] = f[2]

(* IP_REASS_FLAG_LASTFRAG is kept with datagram_len. *)
Finished(d) == d.len > 0 /\ Tiled(d.frags)

(* The list p of an entry with f in it. *)
Chain(d, f) ==
    [d EXCEPT !.frags = @ \cup {f}, !.len = IF f[2] = DatagramLen THEN f[2] ELSE @]

(* Mutant: a fragment that came before renews its datagram. *)
Dropped_renews(list, i) == [list EXCEPT ![i].timer = IP_REASS_MAXAGE]

(* nullreturn_ipr: an entry made for the dropped fragment goes with it. *)
Dropped(list, i) == IF list[i].frags = {} THEN Dequeued(list, {i}) ELSE list

(* The rest of ip4_reass, for entry i of a list that holds count pbufs. *)
Enter(list, count, i, f) ==
    LET d == Chain(list[i], f)
    IN  IF \E g \in list[i].frags : Overlaps(f, g)
        THEN /\ reassdatagrams' = Dropped(list, i)
             /\ ip_reass_pbufcount' = count
             /\ passed' = NoDatagram
        ELSE IF Finished(d)
        THEN /\ reassdatagrams' = Dequeued(list, {i})
             /\ ip_reass_pbufcount' = count + pbuf_clen(f) - Held(d)
             /\ passed' = [frags |-> d.frags, len |-> d.len]
        ELSE /\ reassdatagrams' = [list EXCEPT ![i] = d]
             /\ ip_reass_pbufcount' = count + pbuf_clen(f)
             /\ passed' = NoDatagram

(* The fragment is dropped; what was freed for it stays so. *)
Refuse(list, count) ==
    /\ reassdatagrams' = list
    /\ ip_reass_pbufcount' = count
    /\ passed' = NoDatagram

(* ip_reass_enqueue_new_datagram, in a pool that may be full. *)
ip_reass_enqueue_new_datagram(list, count, id, f) ==
    LET freed == IF Len(list) < MEMP_NUM_REASSDATA THEN {} ELSE Oldest_first(list, id, pbuf_clen(f))
        rest == Dequeued(list, freed)
        left == count - HeldBy(list, freed)
        new == [id |-> id, frags |-> {}, len |-> 0, timer |-> IP_REASS_MAXAGE]
    IN  IF Len(list) = MEMP_NUM_REASSDATA /\ HeldBy(list, freed) < pbuf_clen(f)
        THEN Refuse(rest, left)
        ELSE Enter(<<new>> \o rest, left, 1, f)

ip4_reass(id, f) ==
    LET full == ip_reass_pbufcount + pbuf_clen(f) > IP_REASS_MAX_PBUFS
        freed == IF full THEN Oldest_first(reassdatagrams, id, pbuf_clen(f)) ELSE {}
        list == Dequeued(reassdatagrams, freed)
        count == ip_reass_pbufcount - HeldBy(reassdatagrams, freed)
        own == {i \in DOMAIN list : list[i].id = id}
    IN  IF full /\ (freed = {} \/ count + pbuf_clen(f) > IP_REASS_MAX_PBUFS)
        THEN Refuse(list, count)
        ELSE IF own = {}
        THEN ip_reass_enqueue_new_datagram(list, count, id, f)
        ELSE Enter(list, count, Min(own), f)

(* ip_reass_tmr, once a second. *)
ip_reass_tmr ==
    LET over == {i \in DOMAIN reassdatagrams : reassdatagrams[i].timer = 0}
        list == Dequeued(reassdatagrams, over)
    IN  /\ reassdatagrams' = [i \in DOMAIN list |-> [list[i] EXCEPT !.timer = @ - 1]]
        /\ ip_reass_pbufcount' = ip_reass_pbufcount - HeldBy(reassdatagrams, over)
        /\ passed' = NoDatagram

ReassNext == (\E id \in Datagrams, f \in Fragments : ip4_reass(id, f)) \/ ip_reass_tmr

ReassSpec == ReassInit /\ [][ReassNext]_reassVars /\ WF_reassVars(ip_reass_tmr)

-----------------------------------------------------------------------------
(* Entries, counter and timers stay within their limits. *)
ReassTypeOK ==
    /\ Len(reassdatagrams) <= MEMP_NUM_REASSDATA
    /\ ip_reass_pbufcount \in 0 .. IP_REASS_MAX_PBUFS
    /\ \A i \in DOMAIN reassdatagrams :
          /\ reassdatagrams[i].id \in Datagrams /\ reassdatagrams[i].frags \in SUBSET Fragments
          /\ reassdatagrams[i].len \in {0, DatagramLen}
          /\ reassdatagrams[i].timer \in 0 .. IP_REASS_MAXAGE

(* A datagram that is passed on is whole: its fragments follow one another
   from its first byte to its last. ip4_reass. *)
PassedWhole ==
    passed # NoDatagram =>
        /\ passed.len = DatagramLen
        /\ \A k \in 0 .. DatagramLen - 1 : Cardinality({f \in passed.frags : f[1] <= k /\ k < f[2]}) = 1

(* A datagram has one entry, with fragments that do not overlap and of which
   some are missing: none is complete and still kept. *)
EntriesIncomplete ==
    \A i \in DOMAIN reassdatagrams :
        LET d == reassdatagrams[i]
        IN  /\ d.frags # {}
            /\ \A f, g \in d.frags : f # g => f[2] <= g[1] \/ g[2] <= f[1]
            /\ \E k \in 0 .. DatagramLen - 1 : \A f \in d.frags : ~(f[1] <= k /\ k < f[2])
            /\ \A j \in DOMAIN reassdatagrams : reassdatagrams[j].id = d.id => i = j

(* ip_reass_pbufcount counts the pbufs that are kept, whatever was dropped or
   freed: the assertions "ip_reass_pbufcount >= clen" hold. *)
PbufsCounted == ip_reass_pbufcount = HeldBy(reassdatagrams, DOMAIN reassdatagrams)

(* "Can't we simply remove the last datagram in the linked list": the list is
   in the order of age, so the oldest one is the last. *)
OldestIsLast ==
    \A i, j \in DOMAIN reassdatagrams : i < j => reassdatagrams[i].timer >= reassdatagrams[j].timer

(* Reassembly is right and its bookkeeping exact, at the limits too. *)
ReassSound == ReassTypeOK /\ PassedWhole /\ EntriesIncomplete /\ PbufsCounted /\ OldestIsLast

(* An incomplete datagram is given up in the end, however often fragments of
   it are repeated. ip_reass_tmr. *)
ReassExpires ==
    \A id \in Datagrams : []<>(\A i \in DOMAIN reassdatagrams : reassdatagrams[i].id # id)
=============================================================================
