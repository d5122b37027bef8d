------------------------------ MODULE LruCache ------------------------------
(***************************************************************************)
(* What DuckCache promises: a map from digests to contents, limited in     *)
(* objects and pages, that gives up least recently used objects first and  *)
(* only as many as it must.                                                *)
(***************************************************************************)
EXTENDS Integers, Sequences, SequencesExt

CONSTANTS
    Digests,
    Lens,           \* lengths of objects
    PageContent,    \* bytes of an object in one page
    TotalPages,
    MaxObjects

VARIABLES
    objects,    \* [digest, len] from least to most recently used
    ret         \* the answer to the last call

vars == <<objects, ret>>

NoCall == [op |-> "none", ok |-> FALSE, out |-> <<>>]

Chunks(len) == (len + PageContent - 1) \div PageContent
PagesFor(len) == IF Chunks(len) = 0 THEN 1 ELSE Chunks(len)

(* The content of an object is named by its digest and length; chunk k of it
   is what fits the k-th page. *)
Content(d, len) == [k \in 1 .. Chunks(len) |-> <<d, len, k>>]

PagesUsed(s) == FoldLeft(LAMBDA n, o : n + PagesFor(o.len), 0, s)
Fits(s) == PagesUsed(s) <= TotalPages /\ Len(s) <= MaxObjects
Has(d) == \E i \in DOMAIN objects : objects[i].digest = d

Init == objects = <<>> /\ ret = NoCall

Load(d, len) ==
    LET hit == [digest |-> d, len |-> len]
    IN  IF hit \in Range(objects)
        THEN /\ objects' = Append(SelectSeq(objects, LAMBDA o : o # hit), hit)
             /\ ret' = [op |-> "load", ok |-> TRUE, out |-> Content(d, len)]
        ELSE /\ ret' = [op |-> "load", ok |-> FALSE, out |-> <<>>]
             /\ UNCHANGED objects

Store(d, len) ==
    LET new == [digest |-> d, len |-> len]
        Kept(k) == Append(SubSeq(objects, k + 1, Len(objects)), new)
    IN  CASE Has(d) ->
                /\ ret' = [op |-> "store", ok |-> TRUE, out |-> <<>>]
                /\ UNCHANGED objects
          [] ~Has(d) /\ PagesFor(len) > TotalPages ->
                /\ ret' = [op |-> "store", ok |-> FALSE, out |-> <<>>]
                /\ UNCHANGED objects
          [] OTHER ->
                \E k \in 0 .. Len(objects) :
                    /\ Fits(Kept(k))
                    /\ \A j \in 0 .. k - 1 : ~Fits(Kept(j))
                    /\ objects' = Kept(k)
                    /\ ret' = [op |-> "store", ok |-> TRUE, out |-> <<>>]

Next == \E d \in Digests, len \in Lens : Load(d, len) \/ Store(d, len)

Spec == Init /\ [][Next]_vars
=============================================================================
