------------------------------- MODULE Solver -------------------------------
(***************************************************************************)
(* The divisor search of kern/solver_faster.cpp.  The solver keeps the     *)
(* last N digits of the stream; for every batch it looks for substrings of *)
(* at most N digits that end in the batch and are divisible by one of the  *)
(* moduli, comparing weighted prefix sums through a chained hash table.    *)
(*                                                                         *)
(* A batch is one action: recv_input reports and slides the window, and    *)
(* print_stat, which every caller runs straight after it, rebuilds sums    *)
(* and tables (prepare).  The four moduli, their digit type widths (a sum  *)
(* of two residues always fits) and the minimal lengths are constants.     *)
(***************************************************************************)
EXTENDS Integers, Sequences, FiniteSets, SequencesExt

CONSTANTS
    N,          \* digits kept between batches
    MaxBatch,   \* MAX_BATCH_SIZE
    Base,       \* ten
    DigitSet,   \* the digits that occur in the stream
    Moduli,     \* M1, M4, M3, M2 in the order they are searched
    MinLen,     \* shortest answer reported for each modulus
    Seed,       \* initial value of the sums, 233333333
    KeySize,    \* a hash key is the sum modulo this (u64)
    HashSize,   \* HASH_SIZE, number of chains
    MaxStream   \* bound: digits received

ASSUME SolverAssumption ==
    /\ N \in Nat \ {0} /\ MaxBatch \in Nat \ {0} /\ MaxStream \in Nat
    /\ Base \in Nat /\ Base >= 2 /\ DigitSet \subseteq 0 .. Base - 1
    /\ Moduli \in Seq(Nat \ {0}) /\ MinLen \in [DOMAIN Moduli -> Nat]
    /\ Seed \in Nat /\ \A m \in DOMAIN Moduli : Seed < Moduli[m]
    /\ KeySize \in Nat \ {0} /\ HashSize \in Nat \ {0}

VARIABLES
    digits,     \* digits[0 .. N-1]
    e,          \* e1 .. e4, the weights
    sums,       \* sum1 .. sum4
    hashes,     \* h1 .. h4
    stream,     \* history: every digit since init, the initial nines included
    answers,    \* history: <<modulus, start in stream, length>> reported
    sent,       \* history: number of reports
    highWater   \* history: largest hash index used by the last batch

vars == <<digits, e, sums, hashes, stream, answers, sent, highWater>>

Mods == DOMAIN Moduli
Cap == N + MaxBatch
HashArray == Cap + 5        \* length of next, keys and values; index 0 is "none"

-----------------------------------------------------------------------------
(* Weights. *)

add_mod(a, b, M) == IF a + b >= M THEN a + b - M ELSE a + b

Indices(from, to) == [k \in 1 .. to - from + 1 |-> from + k - 1]

(* d * c for every digit d and for Base, by repeated addition: tmp in init_e. *)
Multiples(c, M) ==
    LET tmp[d \in 0 .. Base] == IF d = 0 THEN 0 ELSE add_mod(tmp[d - 1], c, M)
    IN  tmp

(* e[i][d]: digit d at index i of the buffer weighs d * Base^(Cap - 1 - i). *)
init_e(M) ==
    LET cur[i \in 0 .. Cap - 1] == IF i = Cap - 1 THEN 1 ELSE Multiples(cur[i + 1], M)[Base]
    IN  [i \in 0 .. Cap - 1 |-> Multiples(cur[i], M)]

-----------------------------------------------------------------------------
(* The chained hash table.  An entry's position in tab is its index cnt. *)

clear == [first |-> [b \in 0 .. HashSize - 1 |-> 0], tab |-> <<>>]

insert(h, key, value) ==
    LET b == key % HashSize
        cnt == Len(h.tab) + 1
    IN  [first |-> [h.first EXCEPT ![b] = cnt],
         tab |-> Append(h.tab, [next |-> h.first[b], key |-> key, value |-> value])]

(* Mutant: only the newest entry of the chain is looked at. *)
query_first(h, key, q) ==
    LET i == h.first[key % HashSize]
    IN  IF i # 0 /\ h.tab[i].key = key /\ q - h.tab[i].value \in 0 .. N THEN <<h.tab[i].value>> ELSE <<>>

(* Mutant: substrings one digit too long are let through. *)
query_long(h, key, q) ==
    LET walk[i \in 0 .. Len(h.tab)] ==
            IF i = 0 THEN <<>>
            ELSE (IF h.tab[i].key = key /\ q - h.tab[i].value \in 0 .. N + 1
                  THEN <<h.tab[i].value>> ELSE <<>>) \o walk[h.tab[i].next]
    IN  walk[h.first[key % HashSize]]

(* The values on the key's chain, newest first, at most N digits back (the
   difference is unsigned in the code, so a negative one is too large). *)
query_all(h, key, q) ==
    LET walk[i \in 0 .. Len(h.tab)] ==
            IF i = 0 THEN <<>>
            ELSE (IF h.tab[i].key = key /\ q - h.tab[i].value \in 0 .. N
                  THEN <<h.tab[i].value>> ELSE <<>>) \o walk[h.tab[i].next]
    IN  walk[h.first[key % HashSize]]

-----------------------------------------------------------------------------
(* One digit: the running sum goes into the table under its key. *)
Advance(m, acc, buf, i) ==
    LET s == add_mod(acc.sum, e[m][i][buf[i]], Moduli[m])
    IN  [sum |-> s, h |-> insert(acc.h, s % KeySize, i)]

(* Mutant: the table is not cleared. *)
PrepareOver(m, w, h) ==
    LET acc[i \in -1 .. N - 1] ==
            IF i = -1 THEN [sum |-> Seed, h |-> h] ELSE Advance(m, acc[i - 1], w, i)
    IN  acc[N - 1]

do_prepare_digits(m, w, h) ==
    LET acc[i \in -1 .. N - 1] ==
            IF i = -1 THEN [sum |-> Seed, h |-> clear] ELSE Advance(m, acc[i - 1], w, i)
    IN  acc[N - 1]

(* Reporter::report_digits: the hits that become answers. *)
Reported(m, buf, value, q) == q - value >= MinLen[m] /\ buf[value + 1] # 0

(* The loop over the new digits; out lists the reports <<m, start, length>>. *)
do_add_digits(m, buf, len) ==
    LET acc[i \in N - 1 .. N + len - 1] ==
            IF i = N - 1 THEN [sum |-> sums[m], h |-> hashes[m], out |-> <<>>]
            ELSE LET a == acc[i - 1]
                     b == Advance(m, a, buf, i)
                     hits == SelectSeq(query_all(a.h, b.sum % KeySize, i),
                                       LAMBDA v : Reported(m, buf, v, i))
                 IN  [sum |-> b.sum, h |-> b.h,
                      out |-> a.out \o [k \in 1 .. Len(hits) |-> <<m, hits[k] + 1, i - hits[k]>>]]
    IN  acc[N + len - 1]

Prepared(w, hs) ==
    LET p == [m \in Mods |-> do_prepare_digits(m, w, hs[m])]
    IN  /\ sums' = [m \in Mods |-> p[m].sum]
        /\ hashes' = [m \in Mods |-> p[m].h]

-----------------------------------------------------------------------------
(* Solver::init: a window of nines (the largest digit). *)
Init ==
    /\ digits = [i \in 0 .. N - 1 |-> Base - 1]
    /\ e = [m \in Mods |-> init_e(Moduli[m])]
    /\ LET p == [m \in Mods |-> do_prepare_digits(m, digits, clear)]
       IN  /\ sums = [m \in Mods |-> p[m].sum]
           /\ hashes = [m \in Mods |-> p[m].h]
    /\ stream = [i \in 1 .. N |-> Base - 1]
    /\ answers = {}
    /\ sent = 0
    /\ highWater = N

(* The memmove at the end of add_digits. *)
Slide(buf, len) == [i \in 0 .. N - 1 |-> buf[i + len]]

(* recv_input and add_digits, then print_stat. *)
recv_input(new) ==
    LET len == Len(new)
        buf == [i \in 0 .. N + len - 1 |-> IF i < N THEN digits[i] ELSE new[i - N + 1]]
        done == [m \in Mods |-> do_add_digits(m, buf, len)]
        base == Len(stream) - N + 1     \* position in stream of digits[0]
    IN  /\ digits' = Slide(buf, len)
        /\ Prepared(digits', [m \in Mods |-> done[m].h])
        /\ stream' = stream \o new
        /\ answers' = answers \cup
              UNION {{<<r[1], base + r[2], r[3]>> : r \in Range(done[m].out)} : m \in Mods}
        /\ sent' = sent + FoldLeft(LAMBDA a, m : a + Len(done[m].out), 0, Indices(1, Len(Moduli)))
        /\ highWater' = IF Mods = {} THEN 0 ELSE Max({Len(done[m].h.tab) : m \in Mods})
        /\ UNCHANGED e

Next ==
    \E len \in 1 .. MaxBatch :
        /\ Len(stream) + len <= N + MaxStream
        /\ \E new \in [1 .. len -> DigitSet] : recv_input(new)

Spec == Init /\ [][Next]_vars
-----------------------------------------------------------------------------
(* Window, weights and sums stay in their ranges; a sum is a residue, which
   add_mod needs of its arguments. *)
TypeOK ==
    /\ digits \in [0 .. N - 1 -> 0 .. Base - 1]
    /\ e \in [Mods -> [0 .. Cap - 1 -> [0 .. Base -> Nat]]]
    /\ sums \in [Mods -> Nat] /\ \A m \in Mods : sums[m] < Moduli[m]
    /\ stream \in Seq(0 .. Base - 1)
    /\ sent \in Nat /\ highWater \in Nat

(* The window is the end of the stream, however the stream was cut into
   batches: what the memcpy and memmove of add_digits are for. *)
WindowIsSuffix ==
    /\ Len(stream) >= N
    /\ \A i \in 0 .. N - 1 : digits[i] = stream[Len(stream) - N + 1 + i]

Residue(s, l, M) == FoldLeft(LAMBDA a, i : (a * Base + stream[i]) % M, 0, Indices(s, s + l - 1))

(* What the stream asks for: substrings of at most N digits, without leading
   zero and long enough, that end in a received digit. *)
Expected ==
    {<<m, s, l>> \in Mods \X (1 .. Len(stream)) \X (1 .. N) :
        /\ s + l - 1 \in N + 1 .. Len(stream)
        /\ stream[s] # 0
        /\ l >= MinLen[m]
        /\ Residue(s, l, Moduli[m]) = 0}

(* No divisible substring is missed, wherever batch boundaries fall in it and
   whether or not the modulus shares a factor with ten (M1 is even). *)
AnswersComplete == Expected \subseteq answers

(* What is reported is divisible, up to the factors the modulus shares with
   the base: the weights compare v * Base^k, and an even modulus cannot tell
   an odd multiple of its half.  For a modulus prime to ten it is exact.  It
   needs keys that hold a whole residue.
   And every answer is sent once: a substring is found in the batch of its
   last digit only, although later batches still hold it in the window. *)
AnswersSound ==
    /\ \A a \in answers :
          LET M == Moduli[a[1]]
          IN  a[3] <= N /\ (M <= KeySize => (Residue(a[2], a[3], M) * Base ^ Cap) % M = 0)
    /\ sent = Cardinality(answers)

(* The window follows the stream, and the tables never outgrow their arrays,
   which hold one window and one batch. *)
BuffersSound == TypeOK /\ WindowIsSuffix /\ highWater < HashArray
=============================================================================
