------------------------------ MODULE DuckCache ------------------------------
(***************************************************************************)
(* kern/duck_cache.cpp: objects in a sorted array of digests and metadata, *)
(* their contents in chains of pages; free pages form one more chain,      *)
(* linked through the same first word of each page.  An object's chain is  *)
(* not terminated: its last page still points to the page that was next on *)
(* the free list when it was taken, and only the length says where it ends.*)
(*                                                                         *)
(* A digest is a number whose quotient by two is its first word, the       *)
(* obj_hash that find searches.  Only the order of the time stamps matters, *)
(* so a stamp is kept as its rank among the objects', from one up.         *)
(***************************************************************************)
EXTENDS Integers, Sequences, FiniteSets, SequencesExt, FiniteSetsExt, TLC

CONSTANTS
    Digests, Lens, PageContent, TotalPages, MaxObjects

ASSUME CacheAssumption ==
    /\ Digests \subseteq Nat /\ Lens \subseteq Nat
    /\ PageContent \in Nat \ {0} /\ TotalPages \in Nat \ {0} /\ MaxObjects \in Nat \ {0}

VARIABLES
    objs,       \* obj_digest and obj_metadata: [digest, last, start, len]
    next,       \* the first word of every page
    data,       \* the rest of every page
    free,       \* free_list_addr
    nFree,      \* n_free_pages
    ret         \* history: the answer to the last call

vars == <<objs, next, data, free, nFree, ret>>

Pages == 1 .. TotalPages
Null == 0
Hash(d) == d \div 2

(* The indices sorted by time stamp, the oldest first. *)
ByAge(os) == [k \in DOMAIN os |-> CHOOSE i \in DOMAIN os : os[i].last = k]

Lru == INSTANCE LruCache WITH
          objects <- [k \in DOMAIN objs |-> [digest |-> objs[ByAge(objs)[k]].digest,
                                             len |-> objs[ByAge(objs)[k]].len]]

n_pages(len) == Lru!PagesFor(len)

(* Timer::tsc_since_epoch, later than every stamp in the cache. *)
Now == Len(objs) + 1
Ranked(os) ==
    [i \in DOMAIN os |-> [os[i] EXCEPT !.last = Cardinality({j \in DOMAIN os : os[j].last <= @})]]

(* The n pages met from p on. *)
Chain(nx, p, n) ==
    LET c[k \in 1 .. n] == IF k = 1 THEN p ELSE nx[c[k - 1]]
    IN  [k \in 1 .. n |-> c[k]]

-----------------------------------------------------------------------------
(* Binary searches on the first word, then a scan of the equal ones. *)
find(os, d) ==
    LET idx1 == Cardinality({i \in DOMAIN os : Hash(os[i].digest) < Hash(d)})
        idx2 == Cardinality({i \in DOMAIN os : Hash(os[i].digest) <= Hash(d)})
        stops == {i \in idx1 + 1 .. idx2 : os[i].digest >= d}
        idx == IF stops = {} THEN idx2 ELSE Min(stops) - 1
    IN  [found |-> stops # {} /\ os[idx + 1].digest = d, idx |-> idx]

Init ==
    /\ objs = <<>>
    /\ next = [p \in Pages |-> IF p = TotalPages THEN Null ELSE p + 1]
    /\ data = [p \in Pages |-> <<>>]
    /\ free = 1
    /\ nFree = TotalPages
    /\ ret = Lru!NoCall

(* Mutant: a hit is not remembered. *)
touch_not(i) == objs

touch(i) == Ranked([objs EXCEPT ![i].last = Now])

load_hit(d, len) ==
    LET f == find(objs, d)
        o == objs[f.idx + 1]
    IN  /\ f.found /\ o.len = len
        /\ objs' = touch(f.idx + 1)
        /\ ret' = [op |-> "load", ok |-> TRUE,
                   out |-> [k \in 1 .. Lru!Chunks(len) |-> data[Chain(next, o.start, n_pages(len))[k]]]]
        /\ UNCHANGED <<next, data, free, nFree>>

(* Not found, or stored with another length. *)
load_miss(d, len) ==
    LET f == find(objs, d)
    IN  /\ f.found => objs[f.idx + 1].len # len
        /\ ret' = [op |-> "load", ok |-> FALSE, out |-> <<>>]
        /\ UNCHANGED <<objs, next, data, free, nFree>>

(* store returns before it changes anything: the digest is there, whatever
   its length, or the object is larger than the cache. *)
store_early(d, len) ==
    LET f == find(objs, d)
    IN  /\ f.found \/ n_pages(len) > TotalPages
        /\ ret' = [op |-> "store", ok |-> f.found, out |-> <<>>]
        /\ UNCHANGED <<objs, next, data, free, nFree>>

(* How many of the objects ids, least recently used first, must go. *)
Removals(ids, need) ==
    LET freed[k \in 0 .. Len(ids)] ==
            IF k = 0 THEN 0 ELSE freed[k - 1] + n_pages(objs[ids[k]].len)
        Enough(k) == need <= nFree + freed[k] /\ Len(objs) + 1 <= MaxObjects + k
    IN  Min({k \in 0 .. Len(ids) : Enough(k)} \union {Len(ids)})

(* One object's pages go to the front of the free list. *)
Release(nx, fr, o) ==
    [next |-> [nx EXCEPT ![Last(Chain(nx, o.start, n_pages(o.len)))] = fr], free |-> o.start]

(* The state once the first k of ids are removed: their time stamp zeroed,
   their pages released one object after the other, the arrays compacted. *)
Evicted(ids, k) ==
    LET r[j \in 0 .. k] ==
            IF j = 0 THEN [next |-> next, free |-> free, n |-> nFree]
            ELSE Release(r[j - 1].next, r[j - 1].free, objs[ids[j]])
                 @@ [n |-> r[j - 1].n + n_pages(objs[ids[j]].len)]
        gone == {ids[j] : j \in 1 .. k}
        marked == [i \in DOMAIN objs |-> [objs[i] EXCEPT !.last = IF i \in gone THEN 0 ELSE @]]
    IN  r[k] @@ [objs |-> SelectSeq(marked, LAMBDA o : o.last # 0)]

(* Mutant: the index found before the removals is used after them, as it
   would be were the assertion that calls find again compiled out. *)
PlaceFor_stale(os, d) == Min({find(objs, d).idx, Len(os)})

PlaceFor(os, d) == find(os, d).idx

(* Makes room, finds the place again (the call inside the assertion), inserts
   the object and fills its pages from the front of the free list.  An empty
   object takes a page and leaves its content alone. *)
store_new(d, len) ==
    LET need == n_pages(len)
        ids == ByAge(objs)
        e == Evicted(ids, Removals(ids, need))
        chain == Chain(e.next, e.free, need)
        new == [digest |-> d, last |-> Now, start |-> e.free, len |-> len]
    IN  /\ ~find(objs, d).found /\ need <= TotalPages
        /\ objs' = Ranked(InsertAt(e.objs, PlaceFor(e.objs, d) + 1, new))
        /\ next' = e.next
        /\ data' = [p \in Pages |->
                       IF \E k \in 1 .. Lru!Chunks(len) : chain[k] = p
                       THEN Lru!Content(d, len)[CHOOSE k \in 1 .. Lru!Chunks(len) : chain[k] = p]
                       ELSE data[p]]
        /\ free' = e.next[Last(chain)]
        /\ nFree' = e.n - need
        /\ ret' = [op |-> "store", ok |-> TRUE, out |-> <<>>]

Next ==
    \E d \in Digests, len \in Lens :
        load_hit(d, len) \/ load_miss(d, len) \/ store_early(d, len) \/ store_new(d, len)

Spec == Init /\ [][Next]_vars

-----------------------------------------------------------------------------
(* The arrays, the page words, the free list head and the counters stay in
   their ranges. *)
TypeOK ==
    /\ objs \in Seq([digest : Digests, last : 1 .. MaxObjects, start : Pages, len : Lens])
    /\ Len(objs) <= MaxObjects
    /\ next \in [Pages -> Pages \union {Null}]
    /\ free \in Pages \union {Null}
    /\ nFree \in 0 .. TotalPages

(* Every page is on the free list or in the chain of exactly one object, and
   n_free_pages counts the free list: evictions and stores, which splice
   unterminated chains, neither leak a page nor share one. *)
PagesPartitioned ==
    LET freePages == Chain(next, free, nFree)
        chains == [i \in DOMAIN objs |-> Chain(next, objs[i].start, n_pages(objs[i].len))]
        all == FoldLeft(LAMBDA a, b : a \o b, freePages, chains)
    IN  /\ Len(all) = TotalPages
        /\ Range(all) = Pages

(* obj_digest stays strictly sorted, which the binary searches of find rely
   on, so that find sees every object and store never adds one twice. *)
DigestsSorted ==
    \A i, j \in DOMAIN objs : i < j => objs[i].digest < objs[j].digest

(* The pages implement the promise of LruCache: a load returns the bytes that
   were stored under the digest, a store evicts the least recently used
   objects and as few as it can. *)
ImplementsLru == Lru!Spec

(* The two views of the cache, sorted digests and chained pages, stay whole
   through every eviction. *)
CacheSound == TypeOK /\ PagesPartitioned /\ DigestsSorted
=============================================================================
