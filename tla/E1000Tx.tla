------------------------------ MODULE E1000Tx ------------------------------
(***************************************************************************)
(* The transmit side of lib/e1000.cpp: a descriptor ring shared with the   *)
(* network card and packet fragments cut from a cyclic pool of pages.      *)
(* The card reads descriptors from TDH up to TDT in its own time; the      *)
(* driver looks at TDH only when the ring seems full and never at a        *)
(* descriptor's done bit, so nothing but arithmetic keeps it from writing  *)
(* over a packet that the card has not fetched.                            *)
(*                                                                         *)
(* Sizes are in units of the allocator's 64-byte rounding.                 *)
(***************************************************************************)
EXTENDS Integers

CONSTANTS
    TQSIZE,         \* descriptors; the pool has TQSIZE / 2 pages
    PAGE_SIZE,      \* units in a page
    MaxUnits,       \* units of the largest packet send accepts (1500 bytes)
    TQ_FLUSH_COUNT

ASSUME TxAssumption ==
    /\ TQSIZE \in Nat /\ TQSIZE >= 4 /\ TQSIZE % 2 = 0
    /\ PAGE_SIZE \in Nat \ {0}
    /\ MaxUnits \in Nat /\ 2 * MaxUnits <= PAGE_SIZE    \* "half page per packet"
    /\ TQ_FLUSH_COUNT \in Nat \ {0}

VARIABLES
    tq,         \* the descriptors: the packet's fragment
    tdt,        \* e1000_tdt, next descriptor to fill
    tdh,        \* e1000_tdh, the driver's last reading of TDH
    page,       \* last_tq_page_id
    offset,     \* last_tq_page_offset
    TDH, TDT,   \* the card's registers
    pending     \* history: packets accepted by send and not fetched by the card

txVars == <<tq, tdt, tdh, page, offset, TDH, TDT, pending>>

TxSlots == 0 .. TQSIZE - 1
Pages == 0 .. TQSIZE \div 2 - 1
Frags == [page : Pages, off : 0 .. PAGE_SIZE, units : 0 .. MaxUnits]

(* The slots between two ring positions. *)
Between(from, to) == {i \in TxSlots : (i - from) % TQSIZE < (to - from) % TQSIZE}
InFlight == Between(TDH, TDT)

Overlap(f, g) ==
    /\ f.page = g.page
    /\ f.off < g.off + g.units
    /\ g.off < f.off + f.units

(* Descriptors, ring positions and the bump pointer stay in their ranges. *)
TxTypeOK ==
    /\ tq \in [TxSlots -> Frags]
    /\ tdt \in TxSlots /\ tdh \in TxSlots /\ TDH \in TxSlots /\ TDT \in TxSlots
    /\ page \in Pages /\ offset \in 0 .. PAGE_SIZE
    /\ pending \in Nat

TxInit ==
    /\ tq = [i \in TxSlots |-> [page |-> 0, off |-> 0, units |-> 0]]
    /\ tdt = 0 /\ tdh = 0 /\ TDH = 0 /\ TDT = 0
    /\ page = 0 /\ offset = 0
    /\ pending = 0

Full(h) == (tdt + 1) % TQSIZE = h

(* Mutant: one page of the pool is never used. *)
alloc_fewer_pages(units) ==
    IF offset + units <= PAGE_SIZE
    THEN [page |-> page, off |-> offset, units |-> units]
    ELSE [page |-> (page + 1) % (TQSIZE \div 2 - 1), off |-> 0, units |-> units]

(* The next fragment: in the current page, or at the start of the next one. *)
tq_frag_alloc(units) ==
    IF offset + units <= PAGE_SIZE
    THEN [page |-> page, off |-> offset, units |-> units]
    ELSE [page |-> (page + 1) % (TQSIZE \div 2), off |-> 0, units |-> units]

(* The two doorbells at the end of send; e1000_tdt_real is what TDT holds. *)
flush(t) ==
    LET real == IF t % TQ_FLUSH_COUNT = 0 THEN t ELSE TDT
    IN  IF t # real THEN t ELSE real

(* send of a packet it has room for. *)
send(units) ==
    LET f == tq_frag_alloc(units)
        h == IF Full(tdh) THEN TDH ELSE tdh
    IN  /\ ~Full(h)
        /\ tdh' = h
        /\ tq' = [tq EXCEPT ![tdt] = f]
        /\ page' = f.page
        /\ offset' = f.off + f.units
        /\ tdt' = (tdt + 1) % TQSIZE
        /\ TDT' = flush((tdt + 1) % TQSIZE)
        /\ pending' = pending + 1
        /\ UNCHANGED TDH

(* send finds the ring full: only the reading of TDH is kept. *)
send_full ==
    /\ Full(tdh) /\ Full(TDH)
    /\ tdh' = TDH
    /\ UNCHANGED <<tq, tdt, page, offset, TDH, TDT, pending>>

(* The card has fetched the packet of the descriptor at TDH. *)
Transmit ==
    /\ TDH # TDT
    /\ TDH' = (TDH + 1) % TQSIZE
    /\ pending' = pending - 1
    /\ UNCHANGED <<tq, tdt, tdh, page, offset, TDT>>

TxNext == (\E units \in 0 .. MaxUnits : send(units)) \/ send_full \/ Transmit

TxSpec == TxInit /\ [][TxNext]_txVars
-----------------------------------------------------------------------------
(* A fragment is written once, by the send that allocates it, so packets are
   intact on the wire exactly if no two packets in flight share a byte, and
   each lies in one page.  It is tight: a wrapped pool page was last used
   TQSIZE - 2 packets ago, and that many may still be in flight. *)
InFlightIntact ==
    /\ \A i \in InFlight : tq[i].off + tq[i].units <= PAGE_SIZE
    /\ \A i, j \in InFlight : i # j => ~Overlap(tq[i], tq[j])

(* No packet is lost to a lap of the ring: the descriptors between TDH and tdt
   are as many as the packets not yet fetched, although the driver's reading
   of TDH may be a lap old and a full ring would look empty. *)
NoOverrun == pending = (tdt - TDH) % TQSIZE

(* The ring and its pool of pages are safe from a driver that knows an old
   head only. *)
RingSafe == TxTypeOK /\ InFlightIntact /\ NoOverrun

(* A packet that send accepted goes out even if no other packet follows it:
   the card catches up with the driver's tail again and again, or moves on for
   ever. *)
EveryPacketLeaves == []<>(TDH = tdt) \/ []<><<TDH' # TDH>>_txVars
=============================================================================
