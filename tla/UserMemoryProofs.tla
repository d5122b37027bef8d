-------------------------- MODULE UserMemoryProofs --------------------------
(***************************************************************************)
(* Proofs that programs start in fresh memory and that memory_kb is exact, *)
(* for every amount of memory and every layout.  The inductive invariant   *)
(* adds to the properties what holds of a loaded program: its pages have   *)
(* no dirty bit yet, and what it may write lies in its range.              *)
(***************************************************************************)
EXTENDS UserMemory, FiniteSetTheorems, TLAPS

Loaded ==
    phase = "loaded" =>
        /\ Fits(app)
        /\ dirty \intersect AppPages(app) = {}
        /\ writable \subseteq AppPages(app)

Sets ==
    /\ user \subseteq Pages /\ writable \subseteq UserPages /\ writable \subseteq user
    /\ dirty \subseteq Pages /\ written \subseteq Pages /\ tlb \subseteq Pages
    /\ content \in [Pages -> SUBSET {"old", "new"}]
    /\ app \in Configs /\ phase \in {"idle", "loaded"}

Counted == wrote \subseteq Pages /\ memory = Cardinality(wrote)

IInv == Sets /\ Loaded /\ Counted /\ UnmarkedIsZero /\ FreshMemory

(* An interval inside another. *)
LEMMA Interval ==
    ASSUME NEW a \in Int, NEW b \in Int, NEW x \in Int, NEW y \in Int, x <= a, b <= y
    PROVE  a .. b \subseteq x .. y
OBVIOUS

(* The layout of a program that fits: its regions lie in its range and the
   range in the user's memory. *)
LEMMA Layout ==
    ASSUME NEW c \in Configs, Fits(c)
    PROVE  /\ AppPages(c) \subseteq UserPages
           /\ Filled(c) \subseteq AppPages(c)
           /\ stdin_pages(c) \subseteq AppPages(c)
           /\ ELF_image(c) \in Pages
           /\ ELF_image(c) \notin AppPages(c)
<1> DEFINE lb == load_break(c)
           sb == special_region_break(c)
<1>1. /\ c.mem \in Int /\ c.in \in Nat /\ c.out \in Nat /\ c.ob \in Nat
    BY UserMemoryAssumption DEF Configs
<1>2. Start \in Nat /\ Break \in Nat /\ c.mem >= 2
    BY <1>1, UserMemoryAssumption DEF Fits
<1>3. /\ lb \in Int /\ sb \in Int
      /\ Start + 2 <= lb /\ lb <= lb + c.in /\ lb + c.in <= lb + c.in + c.out
      /\ lb + c.in + c.out <= sb /\ sb = lb + c.in + c.out + c.ob
    BY <1>1, <1>2 DEF load_break, special_region_break
<1>4. sb <= Break
    BY DEF Fits
<1> HIDE DEF lb, sb
<1>5. AppPages(c) = Start .. sb - 1 /\ ELF_image(c) = sb
    BY DEF AppPages, ELF_image, sb
<1>6. stdin_pages(c) = lb .. lb + c.in - 1
    BY DEF stdin_pages, lb
<1>7. OB_pages(c) = lb + c.in + c.out .. sb - 1
    BY DEF OB_pages, lb, sb
<1>8. Start \in Nat /\ Break \in Nat /\ lb \in Int /\ sb \in Int /\ Start < lb /\ lb <= sb /\ sb <= Break
    BY <1>1, <1>2, <1>3, <1>4
<1>9. AppPages(c) \subseteq UserPages
    BY <1>8, <1>5 DEF UserPages
<1>10. stdin_pages(c) \subseteq AppPages(c)
    <2>1. lb + c.in - 1 \in Int /\ sb - 1 \in Int /\ Start <= lb /\ lb + c.in - 1 <= sb - 1
        BY <1>1, <1>2, <1>3
    <2> QED BY <2>1, <1>5, <1>6, <1>8, Interval
<1>11. OB_pages(c) \subseteq AppPages(c)
    <2>1. lb + c.in + c.out \in Int /\ sb - 1 \in Int /\ Start <= lb + c.in + c.out
        BY <1>1, <1>2, <1>3
    <2> QED BY <2>1, <1>5, <1>7, <1>8, Interval
<1>12. Start \in AppPages(c) /\ lb - 1 \in AppPages(c)
    BY <1>8, <1>5
<1>13. Filled(c) \subseteq AppPages(c)
    BY <1>10, <1>11, <1>12 DEF Filled, lb
<1>14. sb \in Pages
    BY <1>8 DEF Pages
<1>15. sb \notin Start .. sb - 1
    BY <1>8
<1> QED BY <1>5, <1>9, <1>10, <1>13, <1>14, <1>15

(* A machine that has just set up its page tables satisfies the invariant. *)
LEMMA InitIInv == ASSUME Init PROVE IInv
<1> USE UserMemoryAssumption
<1>1. app \in Configs
    BY DEF Init, NoApp, Configs
<1>2. Sets
    BY <1>1 DEF Init, Sets, Pages, UserPages
<1>3. Loaded /\ UnmarkedIsZero /\ FreshMemory
    BY DEF Init, Loaded, UnmarkedIsZero, FreshMemory
<1>4. Counted
    BY FS_EmptySet DEF Init, Counted
<1> QED BY <1>2, <1>3, <1>4 DEF IInv

(* load_elf32 preserves it: what it does not clear was zero already. *)
LEMMA LoadIInv == ASSUME IInv, NEW c \in Configs, load_elf32(c) PROVE IInv'
<1> DEFINE kept(p) == IF p \in AppPages(c) \intersect written THEN {} ELSE Old(content[p])
<1>1. /\ AppPages(c) \subseteq UserPages /\ Filled(c) \subseteq AppPages(c)
      /\ ELF_image(c) \in Pages /\ ELF_image(c) \notin AppPages(c)
    BY Layout DEF load_elf32
<1>2. UserPages \subseteq Pages
    BY UserMemoryAssumption DEF UserPages, Pages
<1>3. /\ written' = (written \ AppPages(c)) \union Filled(c) \union {ELF_image(c)}
      /\ dirty' = dirty \ (UserPages \union {ELF_image(c)})
      /\ app' = c /\ phase' = "loaded" /\ Fits(c)
    BY DEF load_elf32, set_duck_written
<1>4. content' = [p \in Pages |->
                     IF p = ELF_image(c) THEN (IF c.small THEN kept(p) ELSE {}) \union {"new"}
                     ELSE IF p \in Filled(c) THEN kept(p) \union {"new"} ELSE kept(p)]
    BY DEF load_elf32
<1>5. \A p \in Pages : kept(p) \in SUBSET {"old", "new"}
    BY DEF Old
<1>6. \A p \in Pages : p \in AppPages(c) \/ p \notin written => kept(p) = {}
    BY DEF IInv, UnmarkedIsZero, Old
<1> HIDE DEF kept
<1>7. Sets'
  <2>1. user' \subseteq Pages /\ writable' \subseteq UserPages /\ writable' \subseteq user'
      BY <1>1, <1>2 DEF load_elf32, IInv, Sets
  <2>2. dirty' \subseteq Pages /\ tlb' \subseteq Pages
      BY <1>1, <1>2 DEF load_elf32, IInv, Sets
  <2>3. written' \subseteq Pages
      BY <1>1, <1>2, <1>3 DEF IInv, Sets
  <2>4. content' \in [Pages -> SUBSET {"old", "new"}]
    <3>1. ASSUME NEW p \in Pages
          PROVE  (IF p = ELF_image(c) THEN (IF c.small THEN kept(p) ELSE {}) \union {"new"}
                  ELSE IF p \in Filled(c) THEN kept(p) \union {"new"} ELSE kept(p))
                    \in SUBSET {"old", "new"}
        BY <1>5
    <3> QED BY <1>4, <3>1
  <2> QED BY <1>3, <2>1, <2>2, <2>3, <2>4 DEF Sets
<1>8. Loaded'
  <2>1. dirty' \intersect AppPages(c) = {}
      BY <1>1, <1>3
  <2>2. writable' \subseteq AppPages(c)
      BY <1>1 DEF load_elf32, IInv, Sets
  <2> QED BY <1>3, <2>1, <2>2 DEF Loaded
<1>9. UnmarkedIsZero'
  <2> SUFFICES ASSUME NEW p \in Pages, p \notin written' PROVE content'[p] = {}
      BY DEF UnmarkedIsZero
  <2>1. p \notin Filled(c) /\ p # ELF_image(c) /\ (p \in AppPages(c) \/ p \notin written)
      BY <1>3
  <2> QED BY <2>1, <1>4, <1>6
<1>10. FreshMemory'
  <2> SUFFICES ASSUME NEW p \in AppPages(c) PROVE "old" \notin content'[p]
      BY <1>3 DEF FreshMemory
  <2>1. p \in Pages /\ p # ELF_image(c)
      BY <1>1, <1>2
  <2>2. content'[p] = IF p \in Filled(c) THEN {} \union {"new"} ELSE {}
      BY <2>1, <1>4, <1>6
  <2> QED BY <2>2
<1>11. Counted'
    BY DEF load_elf32, Counted, IInv
<1> QED BY <1>7, <1>8, <1>9, <1>10, <1>11 DEF IInv

(* A run preserves it: no dirty bit was set before, and none is missed. *)
LEMMA RunIInv == ASSUME IInv, run PROVE IInv'
<1> PICK w \in SUBSET writable :
          /\ content' = [p \in Pages |-> IF p \in w THEN content[p] \union {"new"} ELSE content[p]]
          /\ dirty' = dirty \union (w \ syscall_return)
          /\ written' = written \union set_duck_written_by_dirty(dirty \union (w \ syscall_return), app)
          /\ memory' = Cardinality((dirty \union (w \ syscall_return)) \intersect AppPages(app))
          /\ wrote' = w
    BY DEF run
<1>1. phase = "loaded" /\ phase' = "idle" /\ app' = app /\ user' = user /\ writable' = writable /\ tlb' = {}
    BY DEF run
<1>2. Fits(app) /\ dirty \intersect AppPages(app) = {} /\ w \subseteq AppPages(app)
    BY <1>1 DEF IInv, Loaded
<1>3. AppPages(app) \subseteq UserPages /\ UserPages \subseteq Pages
    BY <1>2, Layout, UserMemoryAssumption DEF IInv, Sets, UserPages, Pages
<1>4. dirty' = dirty \union w /\ written' = written \union w
    BY <1>2 DEF syscall_return, set_duck_written_by_dirty
<1>5. (dirty \union (w \ syscall_return)) \intersect AppPages(app) = w
    BY <1>2 DEF syscall_return
<1>6. Sets'
  <2>1. content' \in [Pages -> SUBSET {"old", "new"}]
      BY DEF IInv, Sets
  <2> QED BY <1>1, <1>2, <1>3, <1>4, <2>1 DEF IInv, Sets
<1>7. Loaded' /\ FreshMemory'
    BY <1>1 DEF Loaded, FreshMemory
<1>8. UnmarkedIsZero'
  <2> SUFFICES ASSUME NEW p \in Pages, p \notin written' PROVE content'[p] = {}
      BY DEF UnmarkedIsZero
  <2>1. p \notin w /\ p \notin written
      BY <1>4
  <2> QED BY <2>1 DEF IInv, UnmarkedIsZero
<1>9. Counted'
    BY <1>2, <1>3, <1>5 DEF Counted
<1> QED BY <1>6, <1>7, <1>8, <1>9 DEF IInv

(* The invariant holds in every reachable state. *)
LEMMA Inductive == Spec => []IInv
<1>1. Init => IInv
    BY InitIInv
<1>2. IInv /\ [Next]_vars => IInv'
  <2> SUFFICES ASSUME IInv, [Next]_vars PROVE IInv'
      OBVIOUS
  <2>1. CASE UNCHANGED vars
      BY <2>1 DEF vars, IInv, Sets, Loaded, Counted, UnmarkedIsZero, FreshMemory
  <2>2. CASE \E c \in Configs : load_elf32(c)
      BY <2>2, LoadIInv
  <2>3. CASE \E c \in Configs : load_refused(c)
      BY <2>3, <2>1 DEF load_refused
  <2>4. CASE run
      BY <2>4, RunIInv
  <2> QED BY <2>1, <2>2, <2>3, <2>4 DEF Next
<1> QED BY <1>1, <1>2, PTL DEF Spec

(* Whatever programs ran before, and wherever their regions lay, a program
   starts in memory without a byte of theirs. *)
THEOREM StartsFresh == Spec => []FreshMemory
<1>1. IInv => FreshMemory
    BY DEF IInv
<1> QED BY <1>1, Inductive, PTL

(* The marks never miss a page that is not all zeros, and memory_kb is exactly
   what the program wrote. *)
THEOREM MarksSuffice == Spec => []MarksSound
<1>1. IInv => memory \in 0 .. Break + 1
  <2> SUFFICES ASSUME IInv PROVE memory \in 0 .. Break + 1
      OBVIOUS
  <2>1. Break \in Int /\ 0 \in Int /\ ~(0 > Break)
      BY UserMemoryAssumption
  <2>2. IsFiniteSet(Pages) /\ Cardinality(Pages) = Break + 1
      BY <2>1, FS_Interval DEF Pages
  <2>3. wrote \in SUBSET Pages /\ memory = Cardinality(wrote)
      BY DEF IInv, Counted
  <2>4. IsFiniteSet(wrote) /\ Cardinality(wrote) <= Break + 1
      BY <2>2, <2>3, FS_Subset
  <2>5. Cardinality(wrote) \in Nat
      BY <2>4, FS_CardinalityType
  <2> QED BY <2>1, <2>3, <2>4, <2>5
<1>2. IInv => MarksSound
    BY <1>1 DEF IInv, Sets, Counted, TypeOK, MemoryIsWritten, MarksSound
<1> QED BY <1>2, Inductive, PTL
=============================================================================
