-------------------------- MODULE LwipEtharpProofs --------------------------
(***************************************************************************)
(* The ARP table of LwipEtharp names the right host for every size of the  *)
(* table, every set of neighbours and every ageing.                        *)
(***************************************************************************)
EXTENDS LwipEtharp, TLAPS

EntryStates == {"EMPTY", "PENDING"} \cup Stable

EntryType == [state : EntryStates, ip : Neighbours \cup {Nothing}, mac : Macs \cup {Nothing},
              ctime : Nat, q : BOOLEAN]

(* What the table needs to stay right: an entry that is not empty is the   *)
(* only one of its neighbour, and a stable one has its hardware address    *)
(* and no packet.                                                          *)
EtharpInv ==
    /\ entries \in [Indexes -> EntryType]
    /\ speaks \in [Neighbours -> Macs \cup {Nothing}]
    /\ \A i, j \in Indexes :
          entries[i].state # "EMPTY" /\ entries[j].state # "EMPTY" /\ entries[i].ip = entries[j].ip
          => i = j
    /\ \A i \in Indexes : entries[i].state # "EMPTY" => entries[i].ip \in Neighbours
    /\ \A i \in Indexes :
          entries[i].state \in Stable => entries[i].mac = speaks[entries[i].ip] /\ entries[i].q = FALSE

(* The least of the entries of a neighbour is its only one.                *)
LEMMA OnlyEntry ==
    ASSUME EtharpInv, NEW h \in Neighbours, NEW S, S \subseteq Of(h), S # {}
    PROVE  Min(S) \in S /\ Min(S) \in Of(h) /\ S = {Min(S)}
<1>1. PICK i \in S : TRUE OBVIOUS
<1>2. S = {i} BY <1>1 DEF EtharpInv, Of
<1>3. i \in Int BY <1>1 DEF Of, Indexes
<1>4. Min(S) = i BY <1>2, <1>3 DEF Min
<1>5. QED BY <1>1, <1>2, <1>4

(* The place that is found for a neighbour is the one of its entry.        *)
LEMMA FindsOwn ==
    ASSUME EtharpInv, NEW h \in Neighbours, NEW j \in Of(h)
    PROVE  etharp_find_entry(h) = j
<1>1. Of(h) # {} /\ Of(h) \subseteq Of(h) OBVIOUS
<1>2. Min(Of(h)) \in Of(h) /\ Of(h) = {Min(Of(h))} BY <1>1, OnlyEntry
<1>3. QED BY <1>1, <1>2 DEF etharp_find_entry

(* The entry e of h is written to place i: if it is the one of h or h has  *)
(* none, the others stay as they were.                                     *)
LEMMA WriteKeeps ==
    ASSUME EtharpInv, NEW h \in Neighbours, NEW i, NEW e \in EntryType,
           \A j \in Of(h) : i = j,
           entries' = [entries EXCEPT ![i] = e],
           e.state # "EMPTY", e.ip = h,
           speaks' \in [Neighbours -> Macs \cup {Nothing}],
           \A g \in Neighbours \ {h} : speaks'[g] = speaks[g],
           e.state \in Stable => e.mac = speaks'[h] /\ e.q = FALSE,
           speaks' = speaks \/ i \in Indexes \/ Of(h) = {}
    PROVE  EtharpInv'
<1>1. entries' \in [Indexes -> EntryType] BY DEF EtharpInv
<1>2. \A j \in Indexes : entries'[j] = IF j = i THEN e ELSE entries[j] BY DEF EtharpInv
<1>3. ASSUME NEW j \in Indexes, entries'[j].state # "EMPTY", j # i
      PROVE  entries[j].ip \in Neighbours \ {h} /\ entries'[j] = entries[j]
    BY <1>2, <1>3 DEF EtharpInv, Of
<1>4. ASSUME NEW j \in Indexes, NEW k \in Indexes,
             entries'[j].state # "EMPTY", entries'[k].state # "EMPTY", entries'[j].ip = entries'[k].ip
      PROVE  j = k
    BY <1>2, <1>3, <1>4 DEF EtharpInv
<1>5. ASSUME NEW j \in Indexes, entries'[j].state # "EMPTY" PROVE entries'[j].ip \in Neighbours
    BY <1>2, <1>3, <1>5
<1>6. ASSUME NEW j \in Indexes, entries'[j].state \in Stable
      PROVE  entries'[j].mac = speaks'[entries'[j].ip] /\ entries'[j].q = FALSE
    <2>1. entries'[j].state # "EMPTY" BY <1>6 DEF Stable
    <2>2. CASE j = i BY <1>2, <1>6, <2>2
    <2>3. CASE j # i BY <1>3, <1>6, <2>1, <2>3 DEF EtharpInv
    <2>4. QED BY <2>2, <2>3
<1>7. QED BY <1>1, <1>4, <1>5, <1>6 DEF EtharpInv

(* What a query leaves in a place is an entry of its neighbour.            *)
LEMMA AskedType ==
    ASSUME EtharpInv, NEW h \in Neighbours, NEW i
    PROVE  /\ Asked(i, h) \in EntryType /\ Asked(i, h).state # "EMPTY" /\ Asked(i, h).ip = h
           /\ Asked(i, h).state \in Stable =>
                  Asked(i, h).mac = speaks[h] /\ Asked(i, h).q = FALSE /\ i \in Of(h)
<1>1. CASE i \in Of(h) BY <1>1 DEF Asked, Of, EtharpInv
<1>2. CASE i \notin Of(h)
    <2>1. Asked(i, h) = [state |-> "PENDING", ip |-> h, mac |-> Nothing, ctime |-> 0, q |-> FALSE]
        BY <1>2 DEF Asked, Empty
    <2>2. QED BY <2>1 DEF EntryType, EntryStates, Stable
<1>3. QED BY <1>1, <1>2

(* A neighbour speaks: its entry has its hardware address from now on.     *)
LEMMA InputKeeps ==
    ASSUME EtharpInv, SentToNeighbour, NEW h \in Neighbours, NEW mac \in Macs, NEW for_us \in BOOLEAN,
           etharp_input(h, mac, for_us)
    PROVE  EtharpInv' /\ SentToNeighbour'
<1>1. /\ speaks' = [speaks EXCEPT ![h] = mac] /\ speaks \in [Neighbours -> Macs \cup {Nothing}]
    BY DEF etharp_input, EtharpInv
<1>2. /\ speaks'[h] = mac /\ speaks' \in [Neighbours -> Macs \cup {Nothing}]
      /\ \A g \in Neighbours \ {h} : speaks'[g] = speaks[g]
    BY <1>1
<1>3. CASE for_us \/ Of(h) # {}
    <2> DEFINE i == etharp_find_entry(h)
               e == [state |-> "STABLE", ip |-> h, mac |-> mac, ctime |-> 0, q |-> FALSE]
    <2>1. entries' = [entries EXCEPT ![i] = e]
          /\ frames' = IF i \in Of(h) /\ entries[i].q THEN {<<h, mac>>} ELSE {}
        BY <1>3 DEF etharp_input, etharp_update_arp_entry
    <2>2. \A j \in Of(h) : i = j BY FindsOwn
    <2>3. e \in EntryType /\ e.state # "EMPTY" /\ e.ip = h /\ e.mac = mac /\ e.q = FALSE
        BY DEF EntryType, EntryStates, Stable
    <2>4. i \in Indexes \/ Of(h) = {} BY <2>2 DEF Of
    <2> HIDE DEF i, e
    <2>5. EtharpInv' BY <1>2, <2>1, <2>2, <2>3, <2>4, WriteKeeps
    <2>6. SentToNeighbour' BY <1>2, <2>1 DEF SentToNeighbour
    <2>7. QED BY <2>5, <2>6
<1>4. CASE ~(for_us \/ Of(h) # {})
    <2>1. entries' = entries /\ frames' = {} /\ Of(h) = {} BY <1>4 DEF etharp_input
    <2>2. \A j \in Indexes : entries[j].state # "EMPTY" => entries[j].ip \in Neighbours \ {h}
        BY <2>1 DEF Of, EtharpInv
    <2>3. \A j \in Indexes : entries[j].state \in Stable => entries[j].state # "EMPTY" BY DEF Stable
    <2>4. EtharpInv' BY <1>2, <2>1, <2>2, <2>3 DEF EtharpInv
    <2>5. QED BY <2>1, <2>4 DEF SentToNeighbour
<1>5. QED BY <1>3, <1>4

(* A packet waits in the place of its neighbour.                           *)
LEMMA QueryKeeps ==
    ASSUME EtharpInv, NEW h \in Neighbours, Of(h) \cap Stables = {}, etharp_query(h),
           speaks' = speaks
    PROVE  EtharpInv' /\ SentToNeighbour'
<1> DEFINE i == etharp_find_entry(h)
<1>1. PICK kept \in BOOLEAN : entries' = [entries EXCEPT ![i] = [Asked(i, h) EXCEPT !.q = @ \/ kept]]
    BY DEF etharp_query
<1> DEFINE a == Asked(i, h)
           e == [a EXCEPT !.q = @ \/ kept]
<1>2. \A j \in Of(h) : i = j BY FindsOwn
<1>3. /\ a \in EntryType /\ a.state # "EMPTY" /\ a.ip = h
      /\ a.state \in Stable => i \in Of(h)
    BY AskedType
<1>4. a.state \notin Stable
    BY <1>3 DEF Stables, Of, Asked
<1>5. entries' = [entries EXCEPT ![i] = e] BY <1>1
<1> HIDE DEF a, i
<1>6. e \in EntryType /\ e.state # "EMPTY" /\ e.ip = h /\ e.state \notin Stable
    BY <1>3, <1>4 DEF EntryType
<1> HIDE DEF e
<1>7. EtharpInv' BY <1>2, <1>5, <1>6, WriteKeeps DEF EtharpInv
<1>8. QED BY <1>7 DEF etharp_query, SentToNeighbour

(* A probe renews or makes an entry without a packet.                      *)
LEMMA ProbeKeeps ==
    ASSUME EtharpInv, NEW h \in Neighbours, etharp_query_probe(h)
    PROVE  EtharpInv' /\ SentToNeighbour'
<1> DEFINE i == etharp_find_entry(h)
           a == Asked(i, h)
<1>1. PICK ok \in BOOLEAN : entries' = [entries EXCEPT ![i] =
            [a EXCEPT !.ctime = IF ok /\ a.state = "PENDING" THEN 0 ELSE @]]
    BY DEF etharp_query_probe
<1> DEFINE e == [a EXCEPT !.ctime = IF ok /\ a.state = "PENDING" THEN 0 ELSE @]
<1>2. \A j \in Of(h) : i = j BY FindsOwn
<1>3. /\ a \in EntryType /\ a.state # "EMPTY" /\ a.ip = h
      /\ a.state \in Stable => a.mac = speaks[h] /\ a.q = FALSE
    BY AskedType
<1>4. entries' = [entries EXCEPT ![i] = e] /\ speaks' = speaks BY <1>1 DEF etharp_query_probe
<1> HIDE DEF a, i
<1>5. e \in EntryType /\ e.state = a.state /\ e.ip = h /\ e.mac = a.mac /\ e.q = a.q
    BY <1>3 DEF EntryType
<1> HIDE DEF e
<1>6. EtharpInv' BY <1>2, <1>3, <1>4, <1>5, WriteKeeps DEF EtharpInv
<1>7. QED BY <1>6 DEF etharp_query_probe, SentToNeighbour

(* A packet goes to the hardware address of the stable entry i of h.       *)
LEMMA SendKeeps ==
    ASSUME EtharpInv, NEW h \in Neighbours, NEW i \in Of(h) \cap Stables,
           etharp_output_to_arp_index(i, h), speaks' = speaks
    PROVE  EtharpInv' /\ SentToNeighbour'
<1>1. i \in Indexes /\ entries[i].state \in Stable /\ entries[i].ip = h /\ entries[i].mac = speaks[h]
    BY DEF Of, Stables, EtharpInv
<1>2. SentToNeighbour' BY <1>1 DEF etharp_output_to_arp_index, SentToNeighbour
<1>3. CASE entries' = entries BY <1>2, <1>3 DEF EtharpInv
<1>4. CASE entries' = [entries EXCEPT ![i].state = "STABLE_REREQUESTING_1"]
    <2> DEFINE e == [entries[i] EXCEPT !.state = "STABLE_REREQUESTING_1"]
    <2>1. entries[i] \in EntryType BY <1>1 DEF EtharpInv
    <2>2. /\ e \in EntryType /\ e.state = "STABLE_REREQUESTING_1" /\ e.ip = h
          /\ e.mac = speaks[h] /\ e.q = entries[i].q
        BY <1>1, <2>1 DEF EntryType, EntryStates, Stable
    <2>3. entries' = [entries EXCEPT ![i] = e] BY <1>4
    <2>4. entries[i].q = FALSE BY <1>1 DEF EtharpInv
    <2>5. \A j \in Of(h) : i = j BY DEF Of, EtharpInv
    <2> HIDE DEF e
    <2>6. EtharpInv' BY <2>2, <2>3, <2>4, <2>5, WriteKeeps DEF EtharpInv
    <2>7. QED BY <1>2, <2>6
<1>5. QED BY <1>3, <1>4 DEF etharp_output_to_arp_index

(* A packet is sent: by the cached entry, by its own, or it waits.         *)
LEMMA OutputKeeps ==
    ASSUME EtharpInv, SentToNeighbour, NEW h \in Neighbours, cached \in Indexes, etharp_output(h)
    PROVE  EtharpInv' /\ SentToNeighbour' /\ cached' \in Indexes
<1>1. speaks' = speaks BY DEF etharp_output
<1>2. CASE UsesCached(h) /\ etharp_output_to_arp_index(cached, h) /\ cached' = cached
    <2>1. cached \in Of(h) \cap Stables BY <1>2 DEF UsesCached, Of, Stables, Stable
    <2>2. QED BY <1>1, <1>2, <2>1, SendKeeps
<1>3. CASE /\ Of(h) \cap Stables # {} /\ cached' = Min(Of(h) \cap Stables)
           /\ etharp_output_to_arp_index(cached', h)
    <2>1. cached' \in Of(h) \cap Stables BY <1>3, OnlyEntry
    <2>2. PICK i \in Of(h) \cap Stables : i = cached' BY <2>1
    <2>3. etharp_output_to_arp_index(i, h) BY <1>3, <2>2 DEF etharp_output_to_arp_index
    <2>4. QED BY <1>1, <2>2, <2>3, SendKeeps DEF Of
<1>4. CASE Of(h) \cap Stables = {} /\ etharp_query(h) /\ cached' = cached
    BY <1>1, <1>4, QueryKeeps
<1>5. QED BY <1>2, <1>3, <1>4 DEF etharp_output

(* An entry that ages keeps its neighbour or is emptied.                   *)
LEMMA AgedKeeps ==
    ASSUME NEW e \in EntryType
    PROVE  /\ Aged(e) \in EntryType
           /\ Aged(e).state # "EMPTY" =>
                 /\ e.state # "EMPTY" /\ Aged(e).ip = e.ip /\ Aged(e).mac = e.mac /\ Aged(e).q = e.q
                 /\ Aged(e).state \in Stable => e.state \in Stable
<1>1. CASE e.state = "EMPTY" \/ Expires(e)
    <2>1. Aged(e) = Empty BY <1>1 DEF Aged
    <2>2. QED BY <2>1 DEF Empty, EntryType, EntryStates
<1>2. CASE ~(e.state = "EMPTY" \/ Expires(e))
    <2> DEFINE s == Rerequested(e.state)
    <2>1. Aged(e) = [e EXCEPT !.ctime = e.ctime + 1, !.state = s] BY <1>2 DEF Aged
    <2>2. s \in EntryStates /\ s # "EMPTY" /\ (s \in Stable => e.state \in Stable)
        BY <1>2 DEF Rerequested, EntryType, EntryStates, Stable
    <2> HIDE DEF s
    <2>3. e.ctime + 1 \in Nat BY DEF EntryType
    <2>4. QED BY <1>2, <2>1, <2>2, <2>3 DEF EntryType
<1>3. QED BY <1>1, <1>2

(* The table ages.                                                         *)
LEMMA TimerKeeps == EtharpInv /\ etharp_tmr => EtharpInv' /\ SentToNeighbour'
<1> SUFFICES ASSUME EtharpInv, etharp_tmr PROVE EtharpInv' /\ SentToNeighbour' OBVIOUS
<1>1. speaks' = speaks /\ frames' = {} BY DEF etharp_tmr
<1>2. \A i \in Indexes : entries'[i] = Aged(entries[i]) /\ entries[i] \in EntryType
    BY DEF etharp_tmr, EtharpInv
<1>3. \A i \in Indexes :
        /\ entries'[i] \in EntryType
        /\ entries'[i].state # "EMPTY" =>
             /\ entries[i].state # "EMPTY" /\ entries'[i].ip = entries[i].ip
             /\ entries'[i].mac = entries[i].mac /\ entries'[i].q = entries[i].q
             /\ entries'[i].state \in Stable => entries[i].state \in Stable
    BY <1>2, AgedKeeps
<1>4. entries' \in [Indexes -> EntryType] BY <1>3 DEF etharp_tmr
<1>5. \A i \in Indexes : entries'[i].state \in Stable => entries'[i].state # "EMPTY" BY DEF Stable
<1>6. EtharpInv' BY <1>1, <1>3, <1>4, <1>5 DEF EtharpInv
<1>7. QED BY <1>1, <1>6 DEF SentToNeighbour

(* The table is right in every state.                                      *)
THEOREM EtharpInvariance == EtharpSpec => [](EtharpInv /\ SentToNeighbour /\ cached \in Indexes)
<1>1. EtharpInit => EtharpInv /\ SentToNeighbour /\ cached \in Indexes
    <2> SUFFICES ASSUME EtharpInit PROVE EtharpInv /\ SentToNeighbour /\ cached \in Indexes OBVIOUS
    <2>1. Empty \in EntryType /\ Empty.state = "EMPTY" /\ "EMPTY" \notin Stable
        BY DEF Empty, EntryType, EntryStates, Stable
    <2>2. EtharpInv BY <2>1 DEF EtharpInit, EtharpInv
    <2>3. SentToNeighbour BY DEF EtharpInit, SentToNeighbour
    <2>4. cached \in Indexes BY EtharpAssumption DEF EtharpInit, Indexes
    <2>5. QED BY <2>2, <2>3, <2>4
<1>2. /\ EtharpInv /\ SentToNeighbour /\ cached \in Indexes
      /\ [EtharpNext]_etharpVars
      => (EtharpInv /\ SentToNeighbour /\ cached \in Indexes)'
    <2> SUFFICES ASSUME EtharpInv, SentToNeighbour, cached \in Indexes, [EtharpNext]_etharpVars
                 PROVE  EtharpInv' /\ SentToNeighbour' /\ cached' \in Indexes
        BY DEF Indexes
    <2>1. ASSUME NEW h \in Neighbours, NEW mac \in Macs, NEW for_us \in BOOLEAN,
                 etharp_input(h, mac, for_us)
          PROVE  EtharpInv' /\ SentToNeighbour' /\ cached' \in Indexes
        BY <2>1, InputKeeps DEF etharp_input
    <2>2. ASSUME NEW h \in Neighbours, etharp_output(h)
          PROVE  EtharpInv' /\ SentToNeighbour' /\ cached' \in Indexes
        BY <2>2, OutputKeeps
    <2>3. ASSUME NEW h \in Neighbours, etharp_query_probe(h)
          PROVE  EtharpInv' /\ SentToNeighbour' /\ cached' \in Indexes
        BY <2>3, ProbeKeeps DEF etharp_query_probe
    <2>4. CASE etharp_tmr BY <2>4, TimerKeeps DEF etharp_tmr
    <2>5. CASE UNCHANGED etharpVars BY <2>5 DEF etharpVars, EtharpInv, SentToNeighbour
    <2>6. QED BY <2>1, <2>2, <2>3, <2>4, <2>5 DEF EtharpNext
<1>3. QED BY <1>1, <1>2, PTL DEF EtharpSpec

-----------------------------------------------------------------------------
(* No entry outlives the limit of its state.                               *)
AgesBelow == \A i \in Indexes : EntryOK(entries[i])

(* An entry that is written keeps the others.                              *)
LEMMA WriteAges ==
    ASSUME EtharpInv, AgesBelow, NEW i, NEW e, EntryOK(e), entries' = [entries EXCEPT ![i] = e]
    PROVE  AgesBelow'
<1>1. \A j \in Indexes : entries'[j] = IF j = i THEN e ELSE entries[j] BY DEF EtharpInv
<1>2. QED BY <1>1 DEF AgesBelow, EntryOK

(* What a query leaves in a place is not too old.                          *)
LEMMA AskedAges ==
    ASSUME EtharpInv, AgesBelow, NEW h \in Neighbours, NEW i
    PROVE  /\ EntryOK(Asked(i, h)) /\ Asked(i, h).ip \in Neighbours
           /\ \/ Asked(i, h).state = "PENDING" /\ Asked(i, h).ctime < ARP_MAXPENDING
              \/ Asked(i, h).state \in Stable /\ Asked(i, h).ctime < ARP_MAXAGE
<1>1. CASE i \in Of(h)
    <2>1. Asked(i, h) = entries[i] /\ EntryOK(entries[i]) /\ entries[i].state # "EMPTY"
        BY <1>1 DEF Asked, Of, AgesBelow
    <2>2. entries[i] # Empty BY <2>1 DEF Empty
    <2>3. QED BY <2>1, <2>2 DEF EntryOK
<1>2. CASE i \notin Of(h)
    <2>1. Asked(i, h) = [state |-> "PENDING", ip |-> h, mac |-> Nothing, ctime |-> 0, q |-> FALSE]
        BY <1>2 DEF Asked, Empty
    <2>2. QED BY <2>1, EtharpAssumption DEF EntryOK
<1>3. QED BY <1>1, <1>2

(* etharp_tmr empties an entry before it is too old.                       *)
LEMMA AgedAges ==
    ASSUME NEW e \in EntryType, EntryOK(e)
    PROVE  EntryOK(Aged(e))
<1>1. CASE e.state = "EMPTY" \/ Expires(e) BY <1>1 DEF Aged, EntryOK
<1>2. CASE ~(e.state = "EMPTY" \/ Expires(e))
    <2> DEFINE s == Rerequested(e.state)
    <2>1. Aged(e) = [e EXCEPT !.ctime = e.ctime + 1, !.state = s] BY <1>2 DEF Aged
    <2>2. e # Empty BY <1>2 DEF Empty
    <2>3. \/ e.state = "PENDING" /\ s = "PENDING" /\ e.ctime + 1 < ARP_MAXPENDING
          \/ e.state \in Stable /\ s \in Stable /\ e.ctime + 1 < ARP_MAXAGE
        BY <1>2, <2>2, EtharpAssumption DEF EntryOK, Expires, Rerequested, Stable, EntryType
    <2> HIDE DEF s
    <2>4. Aged(e).ip = e.ip /\ Aged(e).state = s /\ Aged(e).ctime = e.ctime + 1
        BY <2>1 DEF EntryType
    <2>5. QED BY <2>2, <2>3, <2>4 DEF EntryOK
<1>3. QED BY <1>1, <1>2

(* No step makes an entry too old.                                         *)
LEMMA NextAges ==
    ASSUME EtharpInv, AgesBelow, cached \in Indexes, EtharpNext
    PROVE  AgesBelow'
<1>1. ASSUME NEW h \in Neighbours, NEW mac \in Macs, NEW for_us \in BOOLEAN,
             etharp_input(h, mac, for_us)
      PROVE  AgesBelow'
    <2> DEFINE e == [state |-> "STABLE", ip |-> h, mac |-> mac, ctime |-> 0, q |-> FALSE]
    <2>1. EntryOK(e) BY EtharpAssumption DEF EntryOK, Stable
    <2>2. CASE entries' = [entries EXCEPT ![etharp_find_entry(h)] = e] BY <2>1, <2>2, WriteAges
    <2>3. CASE entries' = entries BY <2>3 DEF AgesBelow
    <2>4. QED BY <1>1, <2>2, <2>3 DEF etharp_input, etharp_update_arp_entry
<1>2. ASSUME NEW h \in Neighbours, etharp_query(h) PROVE AgesBelow'
    <2> DEFINE i == etharp_find_entry(h)
               a == Asked(i, h)
    <2>1. PICK kept \in BOOLEAN : entries' = [entries EXCEPT ![i] = [a EXCEPT !.q = @ \/ kept]]
        BY <1>2 DEF etharp_query
    <2> DEFINE e == [a EXCEPT !.q = @ \/ kept]
    <2>2. a \in EntryType BY AskedType
    <2>3. /\ a.ip \in Neighbours
          /\ \/ a.state = "PENDING" /\ a.ctime < ARP_MAXPENDING
             \/ a.state \in Stable /\ a.ctime < ARP_MAXAGE
        BY AskedAges
    <2>4. entries' = [entries EXCEPT ![i] = e] BY <2>1
    <2> HIDE DEF a, i
    <2>5. e.ip = a.ip /\ e.state = a.state /\ e.ctime = a.ctime BY <2>2 DEF EntryType
    <2> HIDE DEF e
    <2>6. QED BY <2>3, <2>4, <2>5, WriteAges DEF EntryOK
<1>3. ASSUME NEW h \in Neighbours, etharp_query_probe(h) PROVE AgesBelow'
    <2> DEFINE i == etharp_find_entry(h)
               a == Asked(i, h)
    <2>1. PICK ok \in BOOLEAN : entries' = [entries EXCEPT ![i] =
                [a EXCEPT !.ctime = IF ok /\ a.state = "PENDING" THEN 0 ELSE @]]
        BY <1>3 DEF etharp_query_probe
    <2> DEFINE e == [a EXCEPT !.ctime = IF ok /\ a.state = "PENDING" THEN 0 ELSE @]
    <2>2. a \in EntryType BY AskedType
    <2>3. /\ a.ip \in Neighbours
          /\ \/ a.state = "PENDING" /\ a.ctime < ARP_MAXPENDING
             \/ a.state \in Stable /\ a.ctime < ARP_MAXAGE
        BY AskedAges
    <2>4. entries' = [entries EXCEPT ![i] = e] BY <2>1
    <2> HIDE DEF a, i
    <2>5. /\ e.ip = a.ip /\ e.state = a.state
          /\ e.ctime = IF ok /\ a.state = "PENDING" THEN 0 ELSE a.ctime
        BY <2>2 DEF EntryType
    <2> HIDE DEF e
    <2>6. EntryOK(e) BY <2>3, <2>5, EtharpAssumption DEF EntryOK
    <2>7. QED BY <2>4, <2>6, WriteAges
<1>4. ASSUME NEW h \in Neighbours, NEW i \in Of(h) \cap Stables, etharp_output_to_arp_index(i, h)
      PROVE  AgesBelow'
    <2> DEFINE e == [entries[i] EXCEPT !.state = "STABLE_REREQUESTING_1"]
    <2>1. CASE entries' = entries BY <2>1 DEF AgesBelow
    <2>2. CASE entries' = [entries EXCEPT ![i] = e]
        <3>1. entries[i] \in EntryType /\ EntryOK(entries[i]) /\ entries[i].state \in Stable
            BY <1>4 DEF Of, Stables, EtharpInv, AgesBelow
        <3>2. entries[i].ip \in Neighbours /\ entries[i].ctime < ARP_MAXAGE
            BY <3>1 DEF EntryOK, Empty, Stable
        <3>3. e.ip = entries[i].ip /\ e.state \in Stable /\ e.ctime = entries[i].ctime
            BY <3>1 DEF EntryType, Stable
        <3>4. EntryOK(e) BY <3>2, <3>3 DEF EntryOK
        <3> HIDE DEF e
        <3>5. QED BY <2>2, <3>4, WriteAges
    <2>3. QED BY <1>4, <2>1, <2>2 DEF etharp_output_to_arp_index
<1>5. ASSUME NEW h \in Neighbours, etharp_output(h) PROVE AgesBelow'
    <2>1. CASE UsesCached(h) /\ etharp_output_to_arp_index(cached, h)
        <3>1. cached \in Of(h) \cap Stables BY <2>1 DEF UsesCached, Of, Stables, Stable
        <3>2. QED BY <1>4, <2>1, <3>1
    <2>2. CASE /\ Of(h) \cap Stables # {} /\ cached' = Min(Of(h) \cap Stables)
               /\ etharp_output_to_arp_index(cached', h)
        <3>1. cached' \in Of(h) \cap Stables BY <2>2, OnlyEntry
        <3>2. PICK i \in Of(h) \cap Stables : i = cached' BY <3>1
        <3>3. etharp_output_to_arp_index(i, h) BY <2>2, <3>2 DEF etharp_output_to_arp_index
        <3>4. QED BY <1>4, <3>3
    <2>3. QED BY <1>2, <1>5, <2>1, <2>2 DEF etharp_output
<1>6. CASE etharp_tmr
    <2>1. \A i \in Indexes : entries'[i] = Aged(entries[i]) /\ entries[i] \in EntryType
        BY <1>6 DEF etharp_tmr, EtharpInv
    <2>2. QED BY <2>1, AgedAges DEF AgesBelow
<1>7. QED BY <1>1, <1>3, <1>5, <1>6 DEF EtharpNext

(* The ARP table is right about every neighbour, for all sizes and limits: *)
(* however entries are recycled, a neighbour has one entry, a stable one   *)
(* names the hardware address it last spoke from (etharp_find_entry) and   *)
(* has no packet that recycling would free, no entry is older than its     *)
(* limit, and packets go to the neighbour's address whatever the cached    *)
(* index points to (etharp_output, etharp_update_arp_entry).               *)
THEOREM ArpTableSound == EtharpSpec => []ArpSound
<1>1. EtharpInit => AgesBelow
    BY DEF EtharpInit, AgesBelow, EntryOK
<1>2. EtharpInv /\ cached \in Indexes /\ AgesBelow /\ [EtharpNext]_etharpVars => AgesBelow'
    <2>1. CASE UNCHANGED etharpVars BY <2>1 DEF etharpVars, AgesBelow
    <2>2. QED BY <2>1, NextAges
<1>3. EtharpInv /\ SentToNeighbour /\ cached \in Indexes /\ AgesBelow => ArpSound
    <2> SUFFICES ASSUME EtharpInv, SentToNeighbour, cached \in Indexes, AgesBelow PROVE ArpSound
        OBVIOUS
    <2>1. OneNewestEntry BY DEF EtharpInv, OneNewestEntry, Of, Stables
    <2>2. StableHasNoQueue BY DEF EtharpInv, StableHasNoQueue, Stables
    <2>3. EtharpTypeOK BY DEF EtharpInv, AgesBelow, EtharpTypeOK
    <2>4. QED BY <2>1, <2>2, <2>3 DEF ArpSound
<1>4. QED BY <1>1, <1>2, <1>3, EtharpInvariance, PTL DEF EtharpSpec
=============================================================================
