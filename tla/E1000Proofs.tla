----------------------------- MODULE E1000Proofs -----------------------------
(***************************************************************************)
(* The rings of the E1000 driver lose and spoil no packet, for every size  *)
(* of the rings, of the pages and of the packets.                          *)
(***************************************************************************)
EXTENDS E1000Tx, E1000Rx, TLAPS

(* From a to b, forwards on a ring of n places.                            *)
Dist(n, a, b) == IF b >= a THEN b - a ELSE b - a + n

(* The next place on a ring of n.                                          *)
Succ(n, a) == IF a + 1 = n THEN 0 ELSE a + 1

PoolPages == TQSIZE \div 2

(* How many packets were sent since the one of descriptor i, itself        *)
(* included, and how many pages the pool went on since.                    *)
Age(i) == Dist(TQSIZE, i, tdt)
PagesBack(i) == Dist(PoolPages, tq[i].page, page)

(* The descriptors of packets that the card has not fetched.               *)
Unfetched == {i \in TxSlots : 1 <= Age(i) /\ Age(i) <= pending}

(* The ring: the register holds the tail, and the last reading of the head *)
(* is behind the head.                                                     *)
RingInv ==
    /\ TxTypeOK
    /\ TDT = tdt
    /\ pending = Dist(TQSIZE, TDH, tdt)
    /\ pending <= Dist(TQSIZE, tdh, tdt)

(* The pool: at least two packets are sent for every page it goes on.  A   *)
(* page that is more than half full holds two already.                     *)
TwoPerPage ==
    \A i \in Unfetched :
        /\ 2 * PagesBack(i) <= Age(i)
        /\ PagesBack(i) >= 1 /\ 2 * offset > PAGE_SIZE => 2 * PagesBack(i) + 1 <= Age(i)

InPage ==
    \A i \in Unfetched :
        /\ tq[i].off + tq[i].units <= PAGE_SIZE
        /\ PagesBack(i) = 0 => tq[i].off + tq[i].units <= offset

(* The packets of a page lie in the order they were sent.                  *)
Ascending ==
    \A i, j \in Unfetched :
        Age(i) > Age(j) /\ tq[i].page = tq[j].page => tq[i].off + tq[i].units <= tq[j].off

PoolInv == TwoPerPage /\ InPage /\ Ascending

-----------------------------------------------------------------------------
(* Arithmetic of a ring.                                                   *)
LEMMA ModDist ==
    ASSUME NEW n \in Nat \ {0}, NEW a \in 0 .. n - 1, NEW b \in 0 .. n - 1
    PROVE  (b - a) % n = Dist(n, a, b) /\ Dist(n, a, b) \in 0 .. n - 1
<1>1. CASE b >= a BY <1>1 DEF Dist
<1>2. CASE ~(b >= a)
    <2>1. b - a + n \in 0 .. n - 1 BY <1>2
    <2>2. b - a = (0 - 1) * n + (b - a + n) BY <2>1
    <2>3. QED BY <1>2, <2>1, <2>2 DEF Dist
<1>3. QED BY <1>1, <1>2

(* The next place by the remainder.                                        *)
LEMMA ModSucc ==
    ASSUME NEW n \in Nat \ {0}, NEW a \in 0 .. n - 1
    PROVE  (a + 1) % n = Succ(n, a) /\ Succ(n, a) \in 0 .. n - 1
BY DEF Succ

(* A place is at no distance from itself only.                             *)
LEMMA DistZero ==
    ASSUME NEW n \in Nat \ {0}, NEW a \in 0 .. n - 1, NEW b \in 0 .. n - 1
    PROVE  Dist(n, a, b) = 0 <=> a = b
BY DEF Dist

(* The distance to the next place is one more, unless the ring closes.     *)
LEMMA DistSucc ==
    ASSUME NEW n \in Nat \ {0}, NEW a \in 0 .. n - 1, NEW b \in 0 .. n - 1, Succ(n, b) # a
    PROVE  Dist(n, a, Succ(n, b)) = Dist(n, a, b) + 1
BY DEF Dist, Succ

(* The distance from the next place is one less.                           *)
LEMMA SuccDist ==
    ASSUME NEW n \in Nat \ {0}, NEW a \in 0 .. n - 1, NEW b \in 0 .. n - 1, a # b
    PROVE  Dist(n, Succ(n, a), b) = Dist(n, a, b) - 1
BY DEF Dist, Succ

(* The sizes.                                                              *)
LEMMA Sizes ==
    /\ TQSIZE \in Nat \ {0} /\ TQSIZE >= 4
    /\ PoolPages \in Nat \ {0} /\ PoolPages >= 2 /\ TQSIZE = 2 * PoolPages
    /\ PAGE_SIZE \in Nat /\ MaxUnits \in Nat /\ 2 * MaxUnits <= PAGE_SIZE
BY TxAssumption DEF PoolPages

(* The doorbells leave the tail in the register.                           *)
LEMMA Flushes == ASSUME NEW t PROVE flush(t) = t
BY DEF flush

(* A fragment lies in a page and is as long as the packet.                 *)
LEMMA AllocType ==
    ASSUME page \in Pages, offset \in 0 .. PAGE_SIZE, NEW units \in 0 .. MaxUnits
    PROVE  LET f == tq_frag_alloc(units)
           IN  /\ f \in Frags /\ f.off + f.units \in 0 .. PAGE_SIZE /\ f.units = units
               /\ \/ offset + units <= PAGE_SIZE /\ f.page = page /\ f.off = offset
                  \/ offset + units > PAGE_SIZE /\ f.page = Succ(PoolPages, page) /\ f.off = 0
<1>1. page \in 0 .. PoolPages - 1 BY DEF Pages, PoolPages
<1>2. (page + 1) % PoolPages = Succ(PoolPages, page) /\ Succ(PoolPages, page) \in 0 .. PoolPages - 1
    BY <1>1, Sizes, ModSucc
<1>3. CASE offset + units <= PAGE_SIZE
    BY <1>1, <1>3, Sizes DEF tq_frag_alloc, Frags, Pages, PoolPages
<1>4. CASE ~(offset + units <= PAGE_SIZE)
    <2>1. tq_frag_alloc(units) = [page |-> Succ(PoolPages, page), off |-> 0, units |-> units]
        BY <1>2, <1>4 DEF tq_frag_alloc, PoolPages
    <2>2. Succ(PoolPages, page) \in Pages BY <1>2 DEF Pages, PoolPages
    <2>3. units \in 0 .. PAGE_SIZE /\ 0 \in 0 .. PAGE_SIZE /\ offset + units > PAGE_SIZE
        BY <1>4, Sizes
    <2>4. QED BY <2>1, <2>2, <2>3 DEF Frags
<1>5. QED BY <1>3, <1>4

(* A ring that is not full has a place for one packet more.                *)
LEMMA RoomForOne ==
    ASSUME RingInv, NEW h \in {tdh, TDH}, ~Full(h)
    PROVE  pending + 1 <= TQSIZE - 1
<1>1. tdt \in 0 .. TQSIZE - 1 /\ h \in 0 .. TQSIZE - 1 BY DEF RingInv, TxTypeOK, TxSlots
<1>2. Succ(TQSIZE, tdt) # h BY <1>1, Sizes, ModSucc DEF Full
<1>3. pending <= Dist(TQSIZE, h, tdt) /\ pending \in Nat
    <2>1. CASE h = tdh BY <2>1 DEF RingInv, TxTypeOK
    <2>2. CASE h = TDH
        <3>1. pending = Dist(TQSIZE, h, tdt) /\ pending \in Nat BY <2>2 DEF RingInv, TxTypeOK
        <3>2. QED BY <3>1
    <2>3. QED BY <2>1, <2>2
<1>4. Dist(TQSIZE, h, tdt) < TQSIZE - 1 BY <1>1, <1>2, Sizes DEF Succ, Dist
<1>5. QED BY <1>1, <1>3, <1>4, Sizes DEF Dist

-----------------------------------------------------------------------------
(* What a send changes.                                                    *)
LEMMA Sent ==
    ASSUME RingInv, NEW units \in 0 .. MaxUnits, send(units)
    PROVE  /\ tdt' = Succ(TQSIZE, tdt) /\ TDT' = tdt' /\ TDH' = TDH /\ pending' = pending + 1
           /\ tdh' \in {tdh, TDH} /\ ~Full(tdh')
           /\ tq' = [tq EXCEPT ![tdt] = tq_frag_alloc(units)]
           /\ page' = tq_frag_alloc(units).page
           /\ offset' = tq_frag_alloc(units).off + tq_frag_alloc(units).units
           /\ pending + 1 <= TQSIZE - 1
<1>1. tdt \in 0 .. TQSIZE - 1 BY DEF RingInv, TxTypeOK, TxSlots
<1>2. (tdt + 1) % TQSIZE = Succ(TQSIZE, tdt) BY <1>1, Sizes, ModSucc
<1>3. /\ tdt' = (tdt + 1) % TQSIZE /\ TDT' = flush((tdt + 1) % TQSIZE)
      /\ TDH' = TDH /\ pending' = pending + 1
      /\ tdh' \in {tdh, TDH} /\ ~Full(tdh')
      /\ tq' = [tq EXCEPT ![tdt] = tq_frag_alloc(units)]
      /\ page' = tq_frag_alloc(units).page
      /\ offset' = tq_frag_alloc(units).off + tq_frag_alloc(units).units
    BY DEF send
<1>4. PICK h \in {tdh, TDH} : h = tdh' BY <1>3
<1>5. ~Full(h) BY <1>3, <1>4 DEF Full
<1>6. pending + 1 <= TQSIZE - 1 BY <1>5, RoomForOne
<1>7. QED BY <1>2, <1>3, <1>6, Flushes

(* The ring positions keep their distances.                                *)
LEMMA SendKeepsRing ==
    ASSUME RingInv, NEW units \in 0 .. MaxUnits, send(units)
    PROVE  RingInv'
<1>1. /\ tdt \in 0 .. TQSIZE - 1 /\ tdh \in 0 .. TQSIZE - 1 /\ TDH \in 0 .. TQSIZE - 1
      /\ pending \in Nat /\ pending = Dist(TQSIZE, TDH, tdt) /\ pending <= Dist(TQSIZE, tdh, tdt)
      /\ page \in Pages /\ offset \in 0 .. PAGE_SIZE
    BY DEF RingInv, TxTypeOK, TxSlots
<1>2. /\ tdt' = Succ(TQSIZE, tdt) /\ TDT' = tdt' /\ TDH' = TDH /\ pending' = pending + 1
      /\ tdh' \in {tdh, TDH} /\ ~Full(tdh') /\ pending + 1 <= TQSIZE - 1
    BY Sent
<1>3. Succ(TQSIZE, tdt) # tdh' /\ Succ(TQSIZE, tdt) \in 0 .. TQSIZE - 1
    BY <1>1, <1>2, Sizes, ModSucc DEF Full
<1>4. pending' = Dist(TQSIZE, TDH', tdt') BY <1>1, <1>2, Sizes DEF Dist, Succ
<1>5. pending' <= Dist(TQSIZE, tdh', tdt')
    <2>1. tdh' \in 0 .. TQSIZE - 1 BY <1>1, <1>2
    <2>2. Dist(TQSIZE, tdh', Succ(TQSIZE, tdt)) = Dist(TQSIZE, tdh', tdt) + 1
        BY <1>1, <1>3, <2>1, Sizes, DistSucc
    <2>3. Dist(TQSIZE, tdh', tdt) \in Int BY <1>1, <2>1, Sizes, ModDist
    <2>4. pending <= Dist(TQSIZE, tdh', tdt)
        <3>1. CASE tdh' = tdh BY <1>1, <3>1
        <3>2. CASE tdh' = TDH BY <1>1, <3>2
        <3>3. QED BY <1>2, <3>1, <3>2
    <2>5. QED BY <1>1, <1>2, <2>2, <2>3, <2>4
<1>6. TxTypeOK'
    <2>1. LET f == tq_frag_alloc(units) IN f \in Frags /\ f.off + f.units \in 0 .. PAGE_SIZE
        BY <1>1, AllocType
    <2>2. tq_frag_alloc(units).page \in Pages BY <2>1 DEF Frags
    <2>3. tq' \in [TxSlots -> Frags] BY <2>1, Sent DEF RingInv, TxTypeOK
    <2>4. page' \in Pages /\ offset' \in 0 .. PAGE_SIZE BY <2>1, <2>2, Sent
    <2>5. QED BY <1>1, <1>2, <1>3, <2>3, <2>4 DEF TxTypeOK, TxSlots
<1>7. QED BY <1>2, <1>4, <1>5, <1>6 DEF RingInv

(* The ages of the packets that are on the way grow by one, and the new    *)
(* one has age one.                                                        *)
LEMMA SendAges ==
    ASSUME RingInv, NEW units \in 0 .. MaxUnits, send(units), NEW i \in Unfetched'
    PROVE  \/ i = tdt /\ Age(i)' = 1
           \/ i # tdt /\ i \in Unfetched /\ Age(i)' = Age(i) + 1 /\ Age(i)' <= TQSIZE - 1
<1>1. tdt \in 0 .. TQSIZE - 1 /\ i \in 0 .. TQSIZE - 1 /\ pending \in Nat
    BY DEF RingInv, TxTypeOK, TxSlots, Unfetched
<1>2. tdt' = Succ(TQSIZE, tdt) /\ pending' = pending + 1 /\ pending + 1 <= TQSIZE - 1 BY Sent
<1>3. 1 <= Dist(TQSIZE, i, tdt') /\ Dist(TQSIZE, i, tdt') <= pending' BY DEF Unfetched, Age
<1>4. CASE i = tdt BY <1>1, <1>2, <1>4, Sizes DEF Age, Dist, Succ
<1>5. CASE i # tdt
    <2>1. Dist(TQSIZE, i, tdt') = Dist(TQSIZE, i, tdt) + 1 /\ Dist(TQSIZE, i, tdt) >= 1
          /\ Dist(TQSIZE, i, tdt) \in Int
        <3>1. Succ(TQSIZE, tdt) # i /\ Succ(TQSIZE, tdt) \in 0 .. TQSIZE - 1
            <4>1. Succ(TQSIZE, tdt) \in 0 .. TQSIZE - 1 BY <1>1, Sizes, ModSucc
            <4>2. QED BY <1>1, <1>2, <1>3, <4>1, Sizes, DistZero
        <3>2. Dist(TQSIZE, i, tdt) \in 0 .. TQSIZE - 1 /\ Dist(TQSIZE, i, tdt) # 0
            BY <1>1, <1>5, Sizes, DistZero, ModDist
        <3>3. QED BY <1>1, <1>2, <3>1, <3>2, Sizes, DistSucc
    <2>2. QED BY <1>1, <1>2, <1>3, <1>5, <2>1, Sizes DEF Age, Unfetched, TxSlots
<1>6. QED BY <1>4, <1>5

(* No page that holds a packet on the way is used again.                   *)
LEMMA SendPages ==
    ASSUME RingInv, PoolInv, NEW units \in 0 .. MaxUnits, send(units), NEW i \in Unfetched, i # tdt
    PROVE  /\ tq'[i] = tq[i]
           /\ \/ offset + units <= PAGE_SIZE /\ PagesBack(i)' = PagesBack(i)
              \/ /\ offset + units > PAGE_SIZE /\ PagesBack(i)' = PagesBack(i) + 1
                 /\ 2 * offset > PAGE_SIZE
<1>1. /\ i \in TxSlots /\ tq \in [TxSlots -> Frags] /\ page \in 0 .. PoolPages - 1
      /\ offset \in 0 .. PAGE_SIZE /\ pending \in Nat
    BY DEF RingInv, TxTypeOK, Unfetched, Pages, PoolPages
<1>2. tq[i].page \in 0 .. PoolPages - 1 BY <1>1 DEF Frags, Pages, PoolPages
<1>3. tq'[i] = tq[i] BY <1>1, Sent
<1>4. \/ offset + units <= PAGE_SIZE /\ page' = page
      \/ offset + units > PAGE_SIZE /\ page' = Succ(PoolPages, page)
    BY <1>1, Sent, AllocType DEF Pages, PoolPages
<1>5. CASE offset + units <= PAGE_SIZE
    <2>1. page' = page BY <1>1, <1>4, <1>5, Sizes
    <2>2. QED BY <1>3, <1>5, <2>1 DEF PagesBack
<1>6. CASE offset + units > PAGE_SIZE
    <2>1. page' = Succ(PoolPages, page) BY <1>1, <1>4, <1>6, Sizes
    <2>2. 2 * offset > PAGE_SIZE BY <1>1, <1>6, Sizes
    <2>3. PagesBack(i) \in Nat BY <1>1, <1>2, Sizes DEF PagesBack, Dist
    <2>4. Age(i) \in Int BY <1>1, Sizes DEF Age, Dist, RingInv, TxTypeOK, TxSlots
    <2>5. Age(i) <= TQSIZE - 2
        <3>1. pending + 1 <= TQSIZE - 1 /\ Age(i) <= pending BY Sent DEF Unfetched
        <3>2. QED BY <1>1, <2>4, <3>1, Sizes
    <2>6. PagesBack(i) >= 1 => 2 * PagesBack(i) + 1 <= Age(i) BY <2>2 DEF PoolInv, TwoPerPage
    <2>7. PagesBack(i) + 1 <= PoolPages - 1 BY <2>3, <2>4, <2>5, <2>6, Sizes
    <2>8. PagesBack(i)' = PagesBack(i) + 1
        BY <1>2, <1>1, <1>3, <2>1, <2>7, Sizes DEF PagesBack, Dist, Succ
    <2>9. QED BY <1>3, <1>6, <2>2, <2>8
<1>7. QED BY <1>1, <1>5, <1>6, Sizes

(* The packets keep their places in the pool.                              *)
LEMMA SendKeepsPool ==
    ASSUME RingInv, PoolInv, NEW units \in 0 .. MaxUnits, send(units)
    PROVE  PoolInv'
<1> DEFINE f == tq_frag_alloc(units)
<1>1. /\ tdt \in TxSlots /\ tq \in [TxSlots -> Frags] /\ offset \in 0 .. PAGE_SIZE /\ page \in Pages
    BY DEF RingInv, TxTypeOK
<1>2. PICK t \in TxSlots : t = tdt BY <1>1
<1>3. /\ tq'[t] = f /\ f.page = page' /\ offset' = f.off + f.units /\ tdt' = Succ(TQSIZE, t)
    BY <1>1, <1>2, Sent
<1>4. /\ f \in Frags /\ f.off + f.units \in 0 .. PAGE_SIZE /\ f.units = units
      /\ \/ offset + units <= PAGE_SIZE /\ f.page = page /\ f.off = offset
         \/ offset + units > PAGE_SIZE /\ f.page = Succ(PoolPages, page) /\ f.off = 0
    BY <1>1, AllocType
<1>5. f.off \in Int /\ f.units \in Int /\ f.page \in 0 .. PoolPages - 1
    BY <1>4, Sizes DEF Frags, Pages, PoolPages
<1>6. PagesBack(t)' = 0 BY <1>3, <1>5, Sizes DEF PagesBack, Dist
<1>7. ASSUME NEW i \in Unfetched', i # t
      PROVE  /\ i \in Unfetched /\ Age(i)' = Age(i) + 1 /\ tq'[i] = tq[i]
             /\ \/ offset + units <= PAGE_SIZE /\ PagesBack(i)' = PagesBack(i)
                \/ /\ offset + units > PAGE_SIZE /\ PagesBack(i)' = PagesBack(i) + 1
                   /\ 2 * offset > PAGE_SIZE
    BY <1>2, <1>7, SendAges, SendPages
<1>8. Age(t)' = 1
    BY <1>3, Sizes DEF Age, Dist, Succ, TxSlots
<1>9. \A i \in Unfetched : /\ Age(i) \in Int /\ Age(i) >= 1 /\ PagesBack(i) \in Nat
                           /\ tq[i].off \in Int /\ tq[i].units \in Int
    <2> SUFFICES ASSUME NEW i \in Unfetched
                 PROVE  /\ Age(i) \in Int /\ Age(i) >= 1 /\ PagesBack(i) \in Nat
                        /\ tq[i].off \in Int /\ tq[i].units \in Int
        OBVIOUS
    <2>1. i \in TxSlots /\ tq[i] \in Frags BY <1>1 DEF Unfetched
    <2>2. tq[i].page \in 0 .. PoolPages - 1 /\ tq[i].off \in Int /\ tq[i].units \in Int
        BY <2>1, Sizes DEF Frags, Pages, PoolPages
    <2>3. page \in 0 .. PoolPages - 1 BY <1>1 DEF Pages, PoolPages
    <2>4. PagesBack(i) \in 0 .. PoolPages - 1 BY <2>2, <2>3, Sizes, ModDist DEF PagesBack
    <2>5. Age(i) \in 0 .. TQSIZE - 1 BY <1>1, <2>1, Sizes, ModDist DEF Age, TxSlots
    <2>6. QED BY <2>2, <2>4, <2>5 DEF Unfetched
<1> HIDE DEF f
<1>10. TwoPerPage'
    <2> SUFFICES ASSUME NEW i \in Unfetched'
                 PROVE  /\ 2 * PagesBack(i)' <= Age(i)'
                        /\ PagesBack(i)' >= 1 /\ 2 * offset' > PAGE_SIZE
                           => 2 * PagesBack(i)' + 1 <= Age(i)'
        BY DEF TwoPerPage
    <2>1. CASE i = t BY <1>6, <1>8, <2>1
    <2>2. CASE i # t
        <3>1. /\ i \in Unfetched /\ Age(i)' = Age(i) + 1 /\ Age(i) \in Int /\ Age(i) >= 1
              /\ PagesBack(i) \in Nat
            BY <1>7, <1>9, <2>2
        <3>2. /\ 2 * PagesBack(i) <= Age(i)
              /\ PagesBack(i) >= 1 /\ 2 * offset > PAGE_SIZE => 2 * PagesBack(i) + 1 <= Age(i)
            BY <3>1 DEF PoolInv, TwoPerPage
        <3>3. CASE offset + units <= PAGE_SIZE /\ PagesBack(i)' = PagesBack(i)
            BY <3>1, <3>2, <3>3
        <3>4. CASE /\ offset + units > PAGE_SIZE /\ PagesBack(i)' = PagesBack(i) + 1
                   /\ 2 * offset > PAGE_SIZE
            <4>1. offset' = units BY <1>1, <1>3, <1>4, <1>5, <3>4, Sizes
            <4>2. ~(2 * offset' > PAGE_SIZE) BY <4>1, Sizes
            <4>3. QED BY <3>1, <3>2, <3>4, <4>2
        <3>5. QED BY <1>7, <2>2, <3>3, <3>4
    <2>3. QED BY <2>1, <2>2
<1>11. InPage'
    <2> SUFFICES ASSUME NEW i \in Unfetched'
                 PROVE  /\ tq'[i].off + tq'[i].units <= PAGE_SIZE
                        /\ PagesBack(i)' = 0 => tq'[i].off + tq'[i].units <= offset'
        BY DEF InPage
    <2>1. CASE i = t BY <1>3, <1>4, <1>5, <2>1, Sizes
    <2>2. CASE i # t
        <3>1. /\ i \in Unfetched /\ tq'[i] = tq[i] /\ PagesBack(i) \in Nat
              /\ tq[i].off \in Int /\ tq[i].units \in Int
            BY <1>7, <1>9, <2>2
        <3>2. /\ tq[i].off + tq[i].units <= PAGE_SIZE
              /\ PagesBack(i) = 0 => tq[i].off + tq[i].units <= offset
            BY <3>1 DEF PoolInv, InPage
        <3>3. CASE offset + units <= PAGE_SIZE /\ PagesBack(i)' = PagesBack(i)
            <4>1. offset' = offset + units BY <1>1, <1>3, <1>4, <1>5, <3>3, Sizes
            <4>2. QED BY <1>1, <3>1, <3>2, <3>3, <4>1, Sizes
        <3>4. CASE PagesBack(i)' = PagesBack(i) + 1
            BY <3>1, <3>2, <3>4
        <3>5. QED BY <1>7, <2>2, <3>3, <3>4
    <2>3. QED BY <2>1, <2>2
<1>12. Ascending'
    <2> SUFFICES ASSUME NEW i \in Unfetched', NEW j \in Unfetched',
                        Age(i)' > Age(j)', tq'[i].page = tq'[j].page
                 PROVE  tq'[i].off + tq'[i].units <= tq'[j].off
        BY DEF Ascending
    <2>1. CASE i = t
        <3>1. j # t BY <1>8, <2>1
        <3>2. Age(j)' = Age(j) + 1 /\ Age(j) \in Int /\ Age(j) >= 1 BY <1>7, <1>9, <3>1
        <3>3. QED BY <1>8, <2>1, <3>2
    <2>2. CASE i # t /\ j = t
        <3>1. /\ i \in Unfetched /\ tq'[i] = tq[i] /\ PagesBack(i) \in Nat
            BY <1>7, <1>9, <2>2
        <3>2. PagesBack(i)' = 0
            BY <1>3, <1>6, <2>2 DEF PagesBack
        <3>3. offset + units <= PAGE_SIZE /\ PagesBack(i) = 0 BY <1>7, <2>2, <3>1, <3>2
        <3>4. f.off = offset BY <1>1, <1>4, <3>3, Sizes
        <3>5. tq[i].off + tq[i].units <= offset BY <3>1, <3>3 DEF PoolInv, InPage
        <3>6. QED BY <1>3, <2>2, <3>1, <3>4, <3>5
    <2>3. CASE i # t /\ j # t
        <3>1. /\ i \in Unfetched /\ tq'[i] = tq[i] /\ Age(i)' = Age(i) + 1 /\ Age(i) \in Int
              /\ j \in Unfetched /\ tq'[j] = tq[j] /\ Age(j)' = Age(j) + 1 /\ Age(j) \in Int
            BY <1>7, <1>9, <2>3
        <3>2. Age(i) > Age(j) BY <3>1
        <3>3. QED BY <3>1, <3>2 DEF PoolInv, Ascending
    <2>4. QED BY <2>1, <2>2, <2>3
<1>13. QED BY <1>10, <1>11, <1>12 DEF PoolInv

(* The card fetches the oldest packet.                                     *)
LEMMA TransmitKeeps == RingInv /\ PoolInv /\ Transmit => RingInv' /\ PoolInv'
<1> SUFFICES ASSUME RingInv, PoolInv, Transmit PROVE RingInv' /\ PoolInv' OBVIOUS
<1>1. /\ tdt \in 0 .. TQSIZE - 1 /\ tdh \in 0 .. TQSIZE - 1 /\ TDH \in 0 .. TQSIZE - 1
      /\ pending \in Nat /\ pending = Dist(TQSIZE, TDH, tdt) /\ pending <= Dist(TQSIZE, tdh, tdt)
      /\ TDT = tdt
    BY DEF RingInv, TxTypeOK, TxSlots
<1>2. /\ TDH # tdt /\ TDH' = Succ(TQSIZE, TDH) /\ TDH' \in 0 .. TQSIZE - 1
      /\ pending' = pending - 1 /\ UNCHANGED <<tq, tdt, tdh, page, offset, TDT>>
    BY <1>1, Sizes, ModSucc DEF Transmit
<1>3. pending' = Dist(TQSIZE, TDH', tdt') /\ pending # 0
    BY <1>1, <1>2, Sizes, SuccDist, DistZero
<1>4. Dist(TQSIZE, tdh, tdt) \in Int BY <1>1, Sizes, ModDist
<1>5. RingInv' BY <1>1, <1>2, <1>3, <1>4 DEF RingInv, TxTypeOK, TxSlots
<1>6. Unfetched' \subseteq Unfetched
    <2>1. \A i \in TxSlots : Age(i)' = Age(i) /\ Age(i) \in Int
        BY <1>1, <1>2, Sizes, ModDist DEF Age, TxSlots
    <2>2. QED BY <1>1, <1>2, <2>1 DEF Unfetched
<1>7. \A i \in Unfetched' : Age(i)' = Age(i) /\ PagesBack(i)' = PagesBack(i)
    BY <1>2 DEF Age, PagesBack
<1>8. PoolInv' BY <1>2, <1>6, <1>7 DEF PoolInv, TwoPerPage, InPage, Ascending
<1>9. QED BY <1>5, <1>8

(* A send that finds the ring full only reads the head again.              *)
LEMMA FullKeeps == RingInv /\ PoolInv /\ send_full => RingInv' /\ PoolInv'
<1> SUFFICES ASSUME RingInv, PoolInv, send_full PROVE RingInv' /\ PoolInv' OBVIOUS
<1>1. tdh' = TDH /\ UNCHANGED <<tq, tdt, page, offset, TDH, TDT, pending>> BY DEF send_full
<1>2. RingInv' BY <1>1 DEF RingInv, TxTypeOK
<1>3. PoolInv'
    BY <1>1 DEF PoolInv, TwoPerPage, InPage, Ascending, Unfetched, Age, PagesBack
<1>4. QED BY <1>2, <1>3

-----------------------------------------------------------------------------
(* Ring and pool are right in every state.                                 *)
THEOREM TxInvariance == TxSpec => [](RingInv /\ PoolInv)
<1>1. TxInit => RingInv /\ PoolInv
    <2> SUFFICES ASSUME TxInit PROVE RingInv /\ PoolInv OBVIOUS
    <2>1. 0 \in Pages /\ 0 \in TxSlots /\ 0 \in 0 .. PAGE_SIZE /\ 0 \in 0 .. MaxUnits
        BY Sizes DEF Pages, PoolPages, TxSlots
    <2>2. TxTypeOK BY <2>1 DEF TxInit, TxTypeOK, Frags
    <2>3. RingInv BY <2>2, Sizes DEF RingInv, TxInit, Dist
    <2>4. Unfetched = {}
        <3>1. \A i \in TxSlots : Age(i) \in Int BY <2>1, Sizes, ModDist DEF Age, TxSlots, TxInit
        <3>2. QED BY <3>1 DEF Unfetched, TxInit
    <2>5. QED BY <2>3, <2>4 DEF PoolInv, TwoPerPage, InPage, Ascending
<1>2. RingInv /\ PoolInv /\ [TxNext]_txVars => (RingInv /\ PoolInv)'
    <2> SUFFICES ASSUME RingInv, PoolInv, [TxNext]_txVars PROVE RingInv' /\ PoolInv' OBVIOUS
    <2>1. CASE TxNext
        BY <2>1, SendKeepsRing, SendKeepsPool, TransmitKeeps, FullKeeps DEF TxNext
    <2>2. CASE UNCHANGED txVars
        BY <2>2 DEF txVars, RingInv, TxTypeOK, PoolInv, TwoPerPage, InPage, Ascending,
                    Unfetched, Age, PagesBack
    <2>3. QED BY <2>1, <2>2
<1>3. QED BY <1>1, <1>2, PTL DEF TxSpec

(* send never laps the card: the descriptors between the card's head and   *)
(* the driver's tail are the packets not fetched, for every ring size.     *)
LEMMA RingNotOverrun == TxSpec => []NoOverrun
<1>1. RingInv => NoOverrun
    <2> SUFFICES ASSUME RingInv PROVE NoOverrun OBVIOUS
    <2>1. tdt \in 0 .. TQSIZE - 1 /\ TDH \in 0 .. TQSIZE - 1 BY DEF RingInv, TxTypeOK, TxSlots
    <2>2. (tdt - TDH) % TQSIZE = Dist(TQSIZE, TDH, tdt) BY <2>1, Sizes, ModDist
    <2>3. QED BY <2>2 DEF NoOverrun, RingInv
<1>2. QED BY <1>1, TxInvariance, PTL

(* No packet on its way to the card is written over by a later send, for   *)
(* every ring size, page size and sequence of packet sizes: tq_frag_alloc  *)
(* comes back to a page only when its packets have been fetched.           *)
LEMMA PacketsIntact == TxSpec => []InFlightIntact
<1>1. RingInv /\ PoolInv => InFlightIntact
    <2> SUFFICES ASSUME RingInv, PoolInv PROVE InFlightIntact OBVIOUS
    <2>1. /\ tdt \in 0 .. TQSIZE - 1 /\ TDH \in 0 .. TQSIZE - 1 /\ TDT = tdt
          /\ pending = Dist(TQSIZE, TDH, tdt) /\ tq \in [TxSlots -> Frags]
        BY DEF RingInv, TxTypeOK, TxSlots
    <2>2. ASSUME NEW i \in InFlight PROVE i \in Unfetched
        <3>1. i \in 0 .. TQSIZE - 1 /\ (i - TDH) % TQSIZE < (tdt - TDH) % TQSIZE
            BY <2>1, <2>2 DEF InFlight, Between, TxSlots
        <3>2. Dist(TQSIZE, TDH, i) < Dist(TQSIZE, TDH, tdt) BY <2>1, <3>1, Sizes, ModDist
        <3>3. 1 <= Dist(TQSIZE, i, tdt) /\ Dist(TQSIZE, i, tdt) <= Dist(TQSIZE, TDH, tdt)
            BY <2>1, <3>1, <3>2, Sizes DEF Dist
        <3>4. QED BY <2>1, <3>1, <3>3 DEF Unfetched, Age, TxSlots
    <2>3. ASSUME NEW i \in Unfetched, NEW j \in Unfetched, i # j
          PROVE  ~Overlap(tq[i], tq[j])
        <3>1. /\ i \in 0 .. TQSIZE - 1 /\ j \in 0 .. TQSIZE - 1 /\ tq[i] \in Frags /\ tq[j] \in Frags
            BY <2>1 DEF Unfetched, TxSlots
        <3>2. Age(i) \in Int /\ Age(j) \in Int /\ Age(i) # Age(j)
            BY <2>1, <2>3, <3>1, Sizes DEF Age, Dist
        <3>3. tq[i].off \in Int /\ tq[j].off \in Int /\ tq[i].units \in Int /\ tq[j].units \in Int
            BY <3>1, Sizes DEF Frags
        <3>4. tq[i].page = tq[j].page => \/ tq[i].off + tq[i].units <= tq[j].off
                                         \/ tq[j].off + tq[j].units <= tq[i].off
            BY <3>2 DEF PoolInv, Ascending
        <3>5. QED BY <3>3, <3>4 DEF Overlap
    <2>4. QED BY <2>2, <2>3 DEF InFlightIntact, PoolInv, InPage
<1>2. QED BY <1>1, TxInvariance, PTL

(* The transmit ring is safe, for every ring size, page size and sequence  *)
(* of packet sizes, however old the driver's reading of the head is.       *)
THEOREM RingIsSafe == TxSpec => []RingSafe
<1>1. RingInv => TxTypeOK BY DEF RingInv
<1>2. TxTypeOK /\ InFlightIntact /\ NoOverrun => RingSafe BY DEF RingSafe
<1>3. QED BY <1>1, <1>2, TxInvariance, RingNotOverrun, PacketsIntact, PTL

-----------------------------------------------------------------------------
(* The receive ring.                                                       *)

(* a and b added on a ring of n.                                           *)
Plus(n, a, b) == IF a + b < n THEN a + b ELSE a + b - n

First == Succ(RQSIZE, rdt)
Waiting == Dist(RQSIZE, First, RDH)
Lag == Dist(RQSIZE, RDT, rdt)

(* The packets that wait lie behind the one receive() took last; with the  *)
(* descriptors taken and not given back they never close the ring.         *)
ReceiveInv ==
    /\ RxTypeOK
    /\ Waiting + Lag <= RQSIZE - 1
    /\ arrived = Plus(Ids, taken, Waiting)
    /\ \A i \in RxSlots :
          rq[i] = IF Dist(RQSIZE, First, i) < Waiting
                  THEN Plus(Ids, taken, Dist(RQSIZE, First, i)) ELSE NoPacket

(* The sizes.                                                              *)
LEMMA RxSizes ==
    /\ RQSIZE \in Nat \ {0} /\ RQSIZE >= 2 /\ Ids \in Nat \ {0} /\ Ids >= RQSIZE
    /\ NoPacket \notin 0 .. Ids - 1
BY RxAssumption

(* A sum by the remainder.                                                 *)
LEMMA ModPlus ==
    ASSUME NEW n \in Nat \ {0}, NEW a \in 0 .. n - 1, NEW b \in 0 .. n - 1
    PROVE  (a + b) % n = Plus(n, a, b) /\ Plus(n, a, b) \in 0 .. n - 1
BY DEF Plus

(* Ranges of the positions.                                                *)
LEMMA RxRanges ==
    ASSUME ReceiveInv
    PROVE  /\ rdt \in 0 .. RQSIZE - 1 /\ RDH \in 0 .. RQSIZE - 1 /\ RDT \in 0 .. RQSIZE - 1
           /\ First \in 0 .. RQSIZE - 1 /\ First = (rdt + 1) % RQSIZE
           /\ Waiting \in 0 .. RQSIZE - 1 /\ Lag \in 0 .. RQSIZE - 1
           /\ arrived \in 0 .. Ids - 1 /\ taken \in 0 .. Ids - 1
           /\ rq \in [RxSlots -> (0 .. Ids - 1) \cup {NoPacket}]
<1>1. /\ rdt \in 0 .. RQSIZE - 1 /\ RDH \in 0 .. RQSIZE - 1 /\ RDT \in 0 .. RQSIZE - 1
      /\ arrived \in 0 .. Ids - 1 /\ taken \in 0 .. Ids - 1
      /\ rq \in [RxSlots -> (0 .. Ids - 1) \cup {NoPacket}]
    BY DEF ReceiveInv, RxTypeOK, RxSlots
<1>2. First \in 0 .. RQSIZE - 1 /\ First = (rdt + 1) % RQSIZE
    BY <1>1, RxSizes, ModSucc DEF First
<1>3. Waiting \in 0 .. RQSIZE - 1 /\ Lag \in 0 .. RQSIZE - 1
    BY <1>1, <1>2, RxSizes, ModDist DEF Waiting, Lag
<1>4. QED BY <1>1, <1>2, <1>3

(* Two distances from one place are the same for one place only.           *)
LEMMA DistInjective ==
    ASSUME NEW n \in Nat \ {0}, NEW a \in 0 .. n - 1, NEW b \in 0 .. n - 1, NEW c \in 0 .. n - 1,
           Dist(n, a, b) = Dist(n, a, c)
    PROVE  b = c
BY DEF Dist

(* A card with a free descriptor has not closed the ring.                  *)
LEMMA RxRoom ==
    ASSUME ReceiveInv, RDH # RDT
    PROVE  Waiting < RQSIZE - 1 /\ Waiting + Lag < RQSIZE - 1 /\ Succ(RQSIZE, RDH) # First
<1>1. /\ rdt \in 0 .. RQSIZE - 1 /\ RDH \in 0 .. RQSIZE - 1 /\ RDT \in 0 .. RQSIZE - 1
      /\ Waiting \in 0 .. RQSIZE - 1 /\ Lag \in 0 .. RQSIZE - 1 /\ Waiting + Lag <= RQSIZE - 1
    BY RxRanges DEF ReceiveInv
<1>2. Waiting + Lag # RQSIZE - 1
    BY <1>1, RxSizes DEF Waiting, Lag, First, Dist, Succ
<1>3. Waiting < RQSIZE - 1 BY <1>1, <1>2, RxSizes
<1>4. Succ(RQSIZE, RDH) # First BY <1>1, <1>3, RxSizes DEF Waiting, First, Dist, Succ
<1>5. QED BY <1>1, <1>2, <1>3, <1>4, RxSizes

(* The card writes the next packet behind those that wait.                 *)
LEMMA ArriveKeeps == ReceiveInv /\ Arrive => ReceiveInv' /\ rq[RDH] = NoPacket
<1> SUFFICES ASSUME ReceiveInv, Arrive PROVE ReceiveInv' /\ rq[RDH] = NoPacket OBVIOUS
<1>1. /\ rdt \in 0 .. RQSIZE - 1 /\ RDH \in 0 .. RQSIZE - 1 /\ RDT \in 0 .. RQSIZE - 1
      /\ First \in 0 .. RQSIZE - 1 /\ Waiting \in 0 .. RQSIZE - 1 /\ Lag \in 0 .. RQSIZE - 1
      /\ arrived \in 0 .. Ids - 1 /\ taken \in 0 .. Ids - 1
      /\ rq \in [RxSlots -> (0 .. Ids - 1) \cup {NoPacket}]
    BY RxRanges
<1>2. /\ RDH # RDT /\ rq' = [rq EXCEPT ![RDH] = arrived] /\ RDH' = Succ(RQSIZE, RDH)
      /\ arrived' = Succ(Ids, arrived) /\ rdt' = rdt /\ RDT' = RDT /\ taken' = taken
    BY <1>1, RxSizes, ModSucc DEF Arrive
<1>3. Waiting < RQSIZE - 1 /\ Waiting + Lag < RQSIZE - 1 /\ Succ(RQSIZE, RDH) # First
    BY <1>2, RxRoom
<1>4. First' = First /\ Lag' = Lag BY <1>2 DEF First, Lag
<1>5. Waiting' = Waiting + 1
    <2>1. Dist(RQSIZE, First, Succ(RQSIZE, RDH)) = Dist(RQSIZE, First, RDH) + 1
        BY <1>1, <1>3, RxSizes, DistSucc
    <2>2. QED BY <1>2, <1>4, <2>1 DEF Waiting
<1>6. RxTypeOK'
    <2>1. Succ(RQSIZE, RDH) \in 0 .. RQSIZE - 1 /\ Succ(Ids, arrived) \in 0 .. Ids - 1
        BY <1>1, RxSizes, ModSucc
    <2>2. QED BY <1>1, <1>2, <2>1 DEF RxTypeOK, RxSlots
<1>7. arrived = Plus(Ids, taken, Waiting) BY DEF ReceiveInv
<1>8. arrived' = Plus(Ids, taken', Waiting')
    BY <1>1, <1>2, <1>3, <1>5, <1>7, RxSizes DEF Plus, Succ
<1>9. rq[RDH] = NoPacket BY <1>1 DEF ReceiveInv, RxSlots, Waiting
<1>10. ASSUME NEW i \in RxSlots
       PROVE  rq'[i] = IF Dist(RQSIZE, First', i) < Waiting'
                       THEN Plus(Ids, taken', Dist(RQSIZE, First', i)) ELSE NoPacket
    <2>1. i \in 0 .. RQSIZE - 1 /\ Dist(RQSIZE, First, i) \in 0 .. RQSIZE - 1
        BY <1>1, RxSizes, ModDist DEF RxSlots
    <2>2. CASE i = RDH
        <3>1. rq'[i] = arrived /\ Dist(RQSIZE, First, i) = Waiting BY <1>1, <1>2, <2>2 DEF Waiting
        <3>2. QED BY <1>1, <1>2, <1>4, <1>5, <1>7, <3>1
    <2>3. CASE i # RDH
        <3>1. rq'[i] = rq[i] BY <1>1, <1>2, <2>3
        <3>2. Dist(RQSIZE, First, i) # Waiting
            BY <1>1, <2>1, <2>3, RxSizes, DistInjective DEF Waiting
        <3>3. rq[i] = IF Dist(RQSIZE, First, i) < Waiting
                      THEN Plus(Ids, taken, Dist(RQSIZE, First, i)) ELSE NoPacket
            BY DEF ReceiveInv
        <3>4. Dist(RQSIZE, First, i) < Waiting' <=> Dist(RQSIZE, First, i) < Waiting
            BY <1>1, <1>5, <2>1, <3>2
        <3>5. QED BY <1>2, <1>4, <3>1, <3>3, <3>4
    <2>4. QED BY <2>2, <2>3
<1>11. Waiting' + Lag' <= RQSIZE - 1 BY <1>1, <1>3, <1>4, <1>5, RxSizes
<1>12. QED BY <1>6, <1>8, <1>9, <1>10, <1>11 DEF ReceiveInv, RxSlots

(* receive() takes the first of those that wait.                           *)
LEMMA ReceiveKeeps == ReceiveInv /\ receive => ReceiveInv'
<1> SUFFICES ASSUME ReceiveInv, receive PROVE ReceiveInv' OBVIOUS
<1>1. /\ rdt \in 0 .. RQSIZE - 1 /\ RDH \in 0 .. RQSIZE - 1 /\ RDT \in 0 .. RQSIZE - 1
      /\ First \in 0 .. RQSIZE - 1 /\ First = (rdt + 1) % RQSIZE
      /\ Waiting \in 0 .. RQSIZE - 1 /\ Lag \in 0 .. RQSIZE - 1
      /\ arrived \in 0 .. Ids - 1 /\ taken \in 0 .. Ids - 1
      /\ rq \in [RxSlots -> (0 .. Ids - 1) \cup {NoPacket}]
    BY RxRanges
<1>2. /\ rq[First] # NoPacket /\ rq' = [rq EXCEPT ![First] = NoPacket] /\ rdt' = First
      /\ RDT' \in {First, RDT} /\ taken' = Succ(Ids, taken) /\ RDH' = RDH /\ arrived' = arrived
    BY <1>1, RxSizes, ModSucc DEF receive, return_desc
<1>3. First # RDH /\ Waiting > 0
    <2>1. Dist(RQSIZE, First, First) = 0 BY <1>1, RxSizes, DistZero
    <2>2. 0 < Waiting BY <1>1, <1>2, <2>1 DEF ReceiveInv, RxSlots
    <2>3. QED BY <1>1, <2>1, <2>2 DEF Waiting
<1>4. First' = Succ(RQSIZE, First) BY <1>2 DEF First
<1>5. Waiting' = Waiting - 1
    <2>1. Dist(RQSIZE, Succ(RQSIZE, First), RDH) = Dist(RQSIZE, First, RDH) - 1
        BY <1>1, <1>3, RxSizes, SuccDist
    <2>2. QED BY <1>2, <1>4, <2>1 DEF Waiting
<1>6. Lag' <= Lag + 1 /\ Lag' \in Int
    <2>1. CASE RDT' = First
        <3>1. Lag' = Dist(RQSIZE, First, First) BY <1>2, <2>1 DEF Lag
        <3>2. Lag' = 0 BY <1>1, <3>1, RxSizes, DistZero
        <3>3. QED BY <1>1, <3>2
    <2>2. CASE RDT' = RDT
        <3>1. Lag' = Dist(RQSIZE, RDT, Succ(RQSIZE, rdt)) BY <1>2, <2>2 DEF Lag, First
        <3>2. CASE Succ(RQSIZE, rdt) = RDT
            <4>1. Lag' = 0 BY <1>1, <3>1, <3>2, RxSizes, DistZero
            <4>2. QED BY <1>1, <4>1
        <3>3. CASE Succ(RQSIZE, rdt) # RDT
            <4>1. Lag' = Lag + 1 BY <1>1, <3>1, <3>3, RxSizes, DistSucc DEF Lag
            <4>2. QED BY <1>1, <4>1
        <3>4. QED BY <3>2, <3>3
    <2>3. QED BY <1>2, <2>1, <2>2
<1>7. Waiting' + Lag' <= RQSIZE - 1
    <2>1. Waiting + Lag <= RQSIZE - 1 BY DEF ReceiveInv
    <2>2. Waiting \in Int /\ Lag \in Int /\ RQSIZE \in Int BY <1>1, RxSizes
    <2>3. PICK w \in Int : w = Waiting' BY <1>5, <2>2
    <2>4. PICK l \in Int : l = Lag' BY <1>6
    <2>5. w = Waiting - 1 BY <1>5, <2>3
    <2>6. l <= Lag + 1 BY <1>6, <2>4
    <2>7. w + l <= RQSIZE - 1 BY <2>1, <2>2, <2>5, <2>6
    <2>8. QED BY <2>3, <2>4, <2>7
<1>8. RxTypeOK'
    <2>1. Succ(Ids, taken) \in 0 .. Ids - 1 BY <1>1, RxSizes, ModSucc
    <2>2. QED BY <1>1, <1>2, <2>1 DEF RxTypeOK, RxSlots
<1>9. arrived' = Plus(Ids, taken', Waiting')
    <2>1. arrived = Plus(Ids, taken, Waiting) BY DEF ReceiveInv
    <2>2. QED BY <1>1, <1>2, <1>3, <1>5, <2>1, RxSizes DEF Plus, Succ
<1>10. ASSUME NEW i \in RxSlots
       PROVE  rq'[i] = IF Dist(RQSIZE, First', i) < Waiting'
                       THEN Plus(Ids, taken', Dist(RQSIZE, First', i)) ELSE NoPacket
    <2>1. i \in 0 .. RQSIZE - 1 /\ Dist(RQSIZE, First, i) \in 0 .. RQSIZE - 1
        BY <1>1, RxSizes, ModDist DEF RxSlots
    <2>2. CASE i = First
        <3>1. rq'[i] = NoPacket BY <1>1, <1>2, <2>2 DEF RxSlots
        <3>2. Dist(RQSIZE, First', i) = RQSIZE - 1 BY <1>1, <1>4, <2>2, RxSizes DEF Dist, Succ
        <3>3. ~(Dist(RQSIZE, First', i) < Waiting') BY <1>1, <1>5, <3>2, RxSizes
        <3>4. QED BY <3>1, <3>3
    <2>3. CASE i # First
        <3>1. rq'[i] = rq[i] BY <1>1, <1>2, <2>3
        <3>2. Dist(RQSIZE, First', i) = Dist(RQSIZE, First, i) - 1
            BY <1>1, <1>4, <2>1, <2>3, RxSizes, SuccDist
        <3>3. Dist(RQSIZE, First, i) # 0 BY <1>1, <2>1, <2>3, RxSizes, DistZero
        <3>4. rq[i] = IF Dist(RQSIZE, First, i) < Waiting
                      THEN Plus(Ids, taken, Dist(RQSIZE, First, i)) ELSE NoPacket
            BY DEF ReceiveInv
        <3>5. Dist(RQSIZE, First', i) < Waiting' <=> Dist(RQSIZE, First, i) < Waiting
            BY <1>1, <1>5, <2>1, <3>2
        <3>6. Plus(Ids, taken', Dist(RQSIZE, First', i)) = Plus(Ids, taken, Dist(RQSIZE, First, i))
            BY <1>1, <1>2, <2>1, <3>2, <3>3, RxSizes DEF Plus, Succ
        <3>7. QED BY <3>1, <3>4, <3>5, <3>6
    <2>4. QED BY <2>2, <2>3
<1>11. QED BY <1>7, <1>8, <1>9, <1>10 DEF ReceiveInv, RxSlots

(* The receive ring is right in every state.                               *)
THEOREM RxInvariance == RxSpec => []ReceiveInv
<1>1. RxInit => ReceiveInv
    <2> SUFFICES ASSUME RxInit PROVE ReceiveInv OBVIOUS
    <2>1. rdt = RQSIZE - 1 /\ RDH = 0 /\ RDT = RQSIZE - 1 /\ arrived = 0 /\ taken = 0
          /\ rq = [i \in RxSlots |-> NoPacket]
        BY DEF RxInit
    <2>2. RxTypeOK BY <2>1, RxSizes DEF RxTypeOK, RxSlots
    <2>3. First = 0 BY <2>1, RxSizes DEF First, Succ
    <2>4. Waiting = 0 /\ Lag = 0 BY <2>1, <2>3, RxSizes DEF Waiting, Lag, Dist
    <2>5. \A i \in RxSlots : ~(Dist(RQSIZE, First, i) < Waiting)
        BY <2>3, <2>4, RxSizes DEF Dist, RxSlots
    <2>6. QED BY <2>1, <2>2, <2>4, <2>5, RxSizes DEF ReceiveInv, Plus
<1>2. ReceiveInv /\ [RxNext]_rxVars => ReceiveInv'
    <2> SUFFICES ASSUME ReceiveInv, [RxNext]_rxVars PROVE ReceiveInv' OBVIOUS
    <2>1. CASE Arrive BY <2>1, ArriveKeeps
    <2>2. CASE receive BY <2>2, ReceiveKeeps
    <2>3. CASE UNCHANGED rxVars
        BY <2>3 DEF rxVars, ReceiveInv, RxTypeOK, First, Waiting, Lag
    <2>4. QED BY <2>1, <2>2, <2>3 DEF RxNext, Drop, receive_none
<1>3. QED BY <1>1, <1>2, PTL DEF RxSpec

(* receive() delivers the packets the card accepted in their order, none   *)
(* twice and none lost, for every ring size and RQ_FLUSH_COUNT.            *)
THEOREM DeliveredInOrder == RxSpec => []ReceiveSafe
<1>1. ReceiveInv => DeliveryOrder
    <2> DEFINE first == (rdt + 1) % RQSIZE
               waiting == (arrived - taken) % Ids
               k(i) == (i - first) % RQSIZE
    <2> SUFFICES ASSUME ReceiveInv, NEW i \in RxSlots
                 PROVE  rq[i] = IF k(i) < waiting THEN (taken + k(i)) % Ids ELSE NoPacket
        BY DEF DeliveryOrder
    <2>1. /\ First \in 0 .. RQSIZE - 1 /\ First = (rdt + 1) % RQSIZE /\ Waiting \in 0 .. RQSIZE - 1
          /\ arrived \in 0 .. Ids - 1 /\ taken \in 0 .. Ids - 1 /\ i \in 0 .. RQSIZE - 1
        BY RxRanges DEF RxSlots
    <2>2. (i - First) % RQSIZE = Dist(RQSIZE, First, i) /\ Dist(RQSIZE, First, i) \in 0 .. RQSIZE - 1
        BY <2>1, RxSizes, ModDist
    <2>3. (arrived - taken) % Ids = Waiting
        <3>1. (arrived - taken) % Ids = Dist(Ids, taken, arrived) BY <2>1, RxSizes, ModDist
        <3>2. arrived = Plus(Ids, taken, Waiting) BY DEF ReceiveInv
        <3>3. QED BY <2>1, <3>1, <3>2, RxSizes DEF Dist, Plus
    <2>4. (taken + Dist(RQSIZE, First, i)) % Ids = Plus(Ids, taken, Dist(RQSIZE, First, i))
        BY <2>1, <2>2, RxSizes, ModPlus
    <2>5. k(i) = Dist(RQSIZE, First, i) /\ waiting = Waiting BY <2>1, <2>2, <2>3
    <2> HIDE DEF k, waiting
    <2>6. QED BY <2>4, <2>5 DEF ReceiveInv
<1>2. ReceiveInv => ReceiveSafe BY <1>1 DEF ReceiveInv, ReceiveSafe
<1>3. QED BY <1>2, RxInvariance, PTL

(* The card writes only descriptors that receive() has emptied, for every  *)
(* ring size and RQ_FLUSH_COUNT.                                           *)
THEOREM NothingOverwritten == RxSpec => NoOverwrite
<1>1. ReceiveInv /\ [RxNext]_rxVars
      => [\A i \in RxSlots : rq[i] # NoPacket => rq'[i] \in {rq[i], NoPacket}]_rxVars
    <2> SUFFICES ASSUME ReceiveInv, RxNext, NEW i \in RxSlots, rq[i] # NoPacket
                 PROVE  rq'[i] \in {rq[i], NoPacket}
        BY DEF rxVars
    <2>1. /\ RDH \in RxSlots /\ rq \in [RxSlots -> (0 .. Ids - 1) \cup {NoPacket}]
        BY RxRanges DEF RxSlots
    <2>2. CASE Arrive
        <3>1. i # RDH /\ rq' = [rq EXCEPT ![RDH] = arrived] BY <2>2, ArriveKeeps DEF Arrive
        <3>2. QED BY <2>1, <3>1
    <2>3. CASE receive BY <2>1, <2>3 DEF receive
    <2>4. CASE UNCHANGED rxVars BY <2>4 DEF rxVars
    <2>5. QED BY <2>2, <2>3, <2>4 DEF RxNext, Drop, receive_none
<1>2. QED BY <1>1, RxInvariance, PTL DEF RxSpec, NoOverwrite
=============================================================================
