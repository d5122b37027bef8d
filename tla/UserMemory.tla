----------------------------- MODULE UserMemory -----------------------------
(***************************************************************************)
(* Loading and running 32-bit programs one after the other in the same     *)
(* memory: load_elf32 and run of lib/elf.cpp over the page flags of        *)
(* lib/memory.cpp.  To avoid clearing all of it for every program, a page  *)
(* is cleared only if it is marked PTE_DUCK_WRITTEN; what a program wrote  *)
(* is found by the dirty bits the processor sets in the page table.        *)
(*                                                                         *)
(* Pages are numbered from kernel_break on; Break is vaddr_break, and the  *)
(* page of that number belongs to the judge's buffers.  The translation    *)
(* cache matters: a write through an entry cached as dirty leaves the bit  *)
(* in the page table alone.  (64-bit programs load at 4 MiB, below the     *)
(* present kernel_break of 16 MiB, and are always refused.)                *)
(***************************************************************************)
EXTENDS Integers, FiniteSets

CONSTANTS
    Break,      \* vaddr_break
    Start,      \* 0x8048000
    Need,       \* pages between min_vaddr and max_vaddr; the first is read from the file
    MaxMem, MaxRegion   \* bounds: pages of the memory limit, of stdin and IB, stdout and stderr, OB

ASSUME UserMemoryAssumption ==
    /\ Break \in Nat /\ Start \in Nat /\ Need \in Nat \ {0}
    /\ MaxMem \in Nat \ {0} /\ MaxRegion \in Nat

VARIABLES
    user,       \* pages with PTE_USER
    writable,   \* those of them with PTE_WRITABLE
    dirty,      \* pages with PTE_DIRTY in the page table
    written,    \* pages with PTE_DUCK_WRITTEN
    tlb,        \* pages with a cached translation that is marked dirty
    content,    \* of every page, whose bytes are in it besides zeros
    app,        \* the program loaded last
    phase,      \* "idle" between runs, "loaded" before a run
    memory,     \* RunResult::memory_bytes in pages
    wrote       \* history: pages the program wrote

vars == <<user, writable, dirty, written, tlb, content, app, phase, memory, wrote>>

Pages == 0 .. Break
UserPages == 0 .. Break - 1

(* AppConfig in pages: stdin and IB, stdout and stderr go together.  small:
   the file is shorter than a page. *)
Configs ==
    [mem : 1 .. MaxMem, in : 0 .. MaxRegion, out : 0 .. MaxRegion, ob : 0 .. MaxRegion,
     OB_need_clear : BOOLEAN, small : BOOLEAN]

load_break(c) == Start + c.mem
stdin_pages(c) == load_break(c) .. load_break(c) + c.in - 1
special_region_break(c) == load_break(c) + c.in + c.out + c.ob
OB_pages(c) == load_break(c) + c.in + c.out .. special_region_break(c) - 1
AppPages(c) == Start .. special_region_break(c) - 1
ELF_image(c) == special_region_break(c)

(* One page for the stack; the special region inside the user's memory.  The
   page of the image is not part of the check. *)
Fits(c) ==
    /\ c.mem >= Need + 1
    /\ load_break(c) <= Break /\ special_region_break(c) <= Break

(* Pages load_elf32 fills: the file, stdin and IB, OB, the stack's last. *)
Filled(c) ==
    {Start, load_break(c) - 1} \union stdin_pages(c)
        \union (IF c.OB_need_clear THEN {} ELSE OB_pages(c))

NoApp == [mem |-> 1, in |-> 0, out |-> 0, ob |-> 0, OB_need_clear |-> TRUE, small |-> FALSE]

(* init_page_table_4k: no user pages, all marked, whatever they hold. *)
Init ==
    /\ user = {} /\ writable = {}
    /\ dirty = Pages /\ written = Pages
    /\ tlb = {}
    /\ content = [p \in Pages |-> {"old"}]
    /\ app = NoApp /\ phase = "idle"
    /\ memory = 0 /\ wrote = {}

Old(s) == IF s = {} THEN {} ELSE {"old"}

(* clear_duck_written_pages takes the mark off, the set_duck_written calls
   put it on what has been filled. *)
set_duck_written(c) == (written \ AppPages(c)) \union Filled(c) \union {ELF_image(c)}

load_elf32(c) ==
    /\ phase = "idle" /\ Fits(c)
    /\ user' = (user \ UserPages) \union AppPages(c) \union {ELF_image(c)}
    /\ writable' = (writable \ UserPages) \union (AppPages(c) \ ({Start} \union stdin_pages(c)))
    /\ content' = [p \in Pages |->
           LET kept == IF p \in AppPages(c) \intersect written THEN {} ELSE Old(content[p])
           IN  IF p = ELF_image(c) THEN (IF c.small THEN kept ELSE {}) \union {"new"}
               ELSE IF p \in Filled(c) THEN kept \union {"new"} ELSE kept]
    /\ written' = set_duck_written(c)
    /\ dirty' = dirty \ (UserPages \union {ELF_image(c)})
    /\ tlb' = (AppPages(c) \intersect written) \union Filled(c) \union {ELF_image(c)}
    /\ app' = c /\ phase' = "loaded"
    /\ UNCHANGED <<memory, wrote>>

(* return false, before anything is changed. *)
load_refused(c) ==
    /\ phase = "idle" /\ ~Fits(c)
    /\ UNCHANGED vars

(* Mutant: the cached translations survive into the program. *)
syscall_return_unflushed == tlb

(* syscall_return_32_record_tsc reloads cr3 on the way to the program. *)
syscall_return == {}

(* Mutant: the special region is forgotten. *)
written_by_dirty_below(d, c) == d \intersect (Start .. load_break(c) - 1)

set_duck_written_by_dirty(d, c) == d \intersect AppPages(c)

(* The program writes the pages w and traps, which flushes the cache again. *)
run ==
    /\ phase = "loaded"
    /\ \E w \in SUBSET writable :
          LET d == dirty \union (w \ syscall_return)
          IN  /\ content' = [p \in Pages |-> IF p \in w THEN content[p] \union {"new"} ELSE content[p]]
              /\ dirty' = d
              /\ written' = written \union set_duck_written_by_dirty(d, app)
              /\ memory' = Cardinality(d \intersect AppPages(app))
              /\ wrote' = w
    /\ tlb' = {}
    /\ phase' = "idle"
    /\ UNCHANGED <<user, writable, app>>

Next == (\E c \in Configs : load_elf32(c) \/ load_refused(c)) \/ run

Spec == Init /\ [][Next]_vars

-----------------------------------------------------------------------------
(* Page sets are sets of pages, contents have their types. *)
TypeOK ==
    /\ user \subseteq Pages /\ writable \subseteq user
    /\ dirty \subseteq Pages /\ written \subseteq Pages /\ tlb \subseteq Pages
    /\ content \in [Pages -> SUBSET {"old", "new"}]
    /\ app \in Configs /\ phase \in {"idle", "loaded"}
    /\ memory \in 0 .. Break + 1 /\ wrote \subseteq Pages

(* Every page that is not marked is all zeros: the marks the loader sets and
   those made from dirty bits after a run together miss no write. *)
UnmarkedIsZero ==
    \A p \in Pages : p \notin written => content[p] = {}

(* A program starts in memory without a byte of any earlier program: what is
   not loaded for it is zero, though only marked pages were cleared. *)
FreshMemory == phase = "loaded" => \A p \in AppPages(app) : "old" \notin content[p]

(* memory_kb counts the pages the program wrote ("dirty pages" in
   inc/judger.hpp), neither those the loader wrote nor fewer because of
   translations the loader left in the cache. *)
MemoryIsWritten == phase = "idle" => memory = Cardinality(wrote)

(* The marks and the bits of the page tables describe the memory: unmarked
   pages are zero, and the count of a finished program is right. *)
MarksSound == TypeOK /\ UnmarkedIsZero /\ MemoryIsWritten

(* "Clear memory and prepare to load": no page the program can read shows
   bytes of an earlier one. *)
AllUserMemoryFresh == phase = "loaded" => \A p \in user : "old" \notin content[p]
=============================================================================
