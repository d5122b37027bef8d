------------------------------ MODULE LwipMem -------------------------------
(***************************************************************************)
(* lwIP's heap (core/mem.c): a doubly linked list of blocks in address     *)
(* order, each with a header, first fit from the lowest free block.  The   *)
(* packets lwIP sends and its DHCP client live there.                      *)
(***************************************************************************)
EXTENDS Integers, FiniteSetsExt

CONSTANTS
    MEM_SIZE,           \* the address of ram_end
    SIZEOF_STRUCT_MEM,  \* a header
    MIN_SIZE,           \* the least data of a block
    Sizes               \* sizes asked for

ASSUME MemAssumption ==
    /\ {SIZEOF_STRUCT_MEM, MIN_SIZE} \subseteq Nat \ {0}
    /\ SIZEOF_STRUCT_MEM + MIN_SIZE < MEM_SIZE
    /\ Sizes \subseteq 1 .. MEM_SIZE

VARIABLES
    ram,        \* the headers, by address: struct mem
    lfree,      \* the lowest free block
    lent        \* what callers hold: bytes they may use, by block

memVars == <<ram, lfree, lent>>

(* Headers link headers, and callers hold blocks. *)
MemTypeOK ==
    /\ \A p \in DOMAIN ram : {ram[p].next, ram[p].prev, lfree} \subseteq DOMAIN ram
    /\ DOMAIN lent \subseteq DOMAIN ram

Struct(next, prev, used) == [next |-> next, prev |-> prev, used |-> used]
Room(p) == ram[p].next - (p + SIZEOF_STRUCT_MEM)
Aligned(size) == Max({size, MIN_SIZE})

(* r with the header at p; a header that is merged into another is gone. *)
With(r, p, h) == [q \in DOMAIN r \cup {p} |-> IF q = p THEN h ELSE r[q]]
Without(r, p) == [q \in DOMAIN r \ {p} |-> r[q]]

(* The block before which next lies now begins at p. *)
Linked(r, next, p) == IF next = MEM_SIZE THEN r ELSE [r EXCEPT ![next].prev = p]

(* mem_init. *)
MemInit ==
    /\ ram = [p \in {0, MEM_SIZE} |->
                IF p = 0 THEN Struct(MEM_SIZE, 0, FALSE) ELSE Struct(MEM_SIZE, MEM_SIZE, TRUE)]
    /\ lfree = 0
    /\ lent = << >>

-----------------------------------------------------------------------------
(* A free block from p2 to the end of block p, whose data ends at p2. *)
Split(r, p, p2) ==
    LET next == r[p].next
    IN  Linked(With([r EXCEPT ![p].next = p2], p2, Struct(next, p, FALSE)), next, p2)

(* The rest of block p is worth a block of its own. *)
Splits(p, size) == Room(p) >= size + SIZEOF_STRUCT_MEM + MIN_SIZE

(* Blocks the scan of mem_malloc stops at. *)
Fits(size) == {p \in DOMAIN ram :
                  lfree <= p /\ p < MEM_SIZE - size /\ ~ram[p].used /\ Room(p) >= size}

(* The lowest block from p on that is free, or ram_end. *)
NextFree(r, p) == Min({q \in DOMAIN r : q >= p /\ (~r[q].used \/ q = MEM_SIZE)})

(* mem_malloc of size bytes that succeeds. *)
mem_malloc(size_in) ==
    LET size == Aligned(size_in)
        p == Min(Fits(size))
        r == IF Splits(p, size) THEN Split(ram, p, p + SIZEOF_STRUCT_MEM + size) ELSE ram
    IN  /\ Fits(size) # {}
        /\ ram' = [r EXCEPT ![p].used = TRUE]
        /\ lfree' = IF p = lfree THEN NextFree(ram', p) ELSE lfree
        /\ lent' = With(lent, p, size_in)

(* mem_malloc returns NULL. *)
mem_malloc_null(size_in) == Fits(Aligned(size_in)) = {} /\ UNCHANGED memVars

(* The first half of plug_holes: with the block behind.  Alone, it is the
   mutant of plug_holes that forgets the block before. *)
plug_forward(r, low, p) ==
    LET n == r[p].next
    IN  IF n # MEM_SIZE /\ ~r[n].used
        THEN [ram |-> Linked(Without([r EXCEPT ![p].next = r[n].next], n), r[n].next, p),
              lfree |-> IF low = n THEN p ELSE low]
        ELSE [ram |-> r, lfree |-> low]

(* The second half of plug_holes: with the block before. *)
plug_backward(r, low, p) ==
    LET b == r[p].prev
    IN  IF b # p /\ ~r[b].used
        THEN [ram |-> Linked(Without([r EXCEPT ![b].next = r[p].next], p), r[p].next, b),
              lfree |-> IF low = p THEN b ELSE low]
        ELSE [ram |-> r, lfree |-> low]

(* plug_holes. *)
plug_holes(r, low, p) ==
    LET f == plug_forward(r, low, p)
    IN  plug_backward(f.ram, f.lfree, p)

(* lfree when block p becomes free. *)
lowest(p) == IF p < lfree THEN p ELSE lfree

(* mem_free. *)
mem_free(p) ==
    LET h == plug_holes([ram EXCEPT ![p].used = FALSE], lowest(p), p)
    IN  /\ ram' = h.ram
        /\ lfree' = h.lfree
        /\ lent' = Without(lent, p)

(* The free block behind p begins at p2 now. *)
MoveDown(p, p2) == Split(Without([ram EXCEPT ![p].next = ram[ram[p].next].next], ram[p].next), p, p2)

(* mem_trim of a block to a size that is smaller. *)
mem_trim(p, new_size) ==
    LET newsize == Aligned(new_size)
        n == ram[p].next
        p2 == p + SIZEOF_STRUCT_MEM + newsize
    IN  /\ new_size < lent[p]
        /\ CASE newsize = Room(p) -> UNCHANGED <<ram, lfree>>
             [] newsize # Room(p) /\ ~ram[n].used ->
                  /\ ram' = MoveDown(p, p2)
                  /\ lfree' = IF lfree = n THEN p2 ELSE lfree
             [] newsize # Room(p) /\ ram[n].used /\ Splits(p, newsize) ->
                  /\ ram' = Split(ram, p, p2)
                  /\ lfree' = lowest(p2)
             [] OTHER -> UNCHANGED <<ram, lfree>>
        /\ lent' = [lent EXCEPT ![p] = new_size]

MemNext ==
    \/ \E n \in Sizes : mem_malloc(n) \/ mem_malloc_null(n)
    \/ \E p \in DOMAIN lent : mem_free(p) \/ \E n \in Sizes : mem_trim(p, n)

MemSpec == MemInit /\ [][MemNext]_memVars

-----------------------------------------------------------------------------
Free == {p \in DOMAIN ram : ~ram[p].used}

(* The blocks cover the heap without a gap: each begins where the one before
   it ends, the links agree in both directions, and no block but ram_end
   is without data (the assertions of mem_link_valid and mem_sanity). *)
BlocksTile ==
    /\ DOMAIN lent \cup {MEM_SIZE} = DOMAIN ram \ Free
    /\ \A p \in DOMAIN ram \ {MEM_SIZE} :
          /\ ram[p].next = Min({q \in DOMAIN ram : q > p})
          /\ ram[p].next = MEM_SIZE \/ ram[ram[p].next].prev = p
          /\ Room(p) >= MIN_SIZE

(* What callers hold is inside their blocks, so no two of them share a byte
   and none reaches a header. *)
LentInside == \A p \in DOMAIN lent : ram[p].used /\ lent[p] <= Room(p)

(* No free block is followed by a free one, as the comment of plug_holes
   says; and lfree is the lowest of them, so that the scan of mem_malloc
   misses none. *)
HolesPlugged ==
    /\ \A p \in Free : ram[p].next \notin Free
    /\ lfree = Min(Free \cup {MEM_SIZE})

(* The heap is whole: mem_malloc, mem_free and mem_trim split and join blocks
   without losing room or giving it out twice. *)
HeapSound == MemTypeOK /\ BlocksTile /\ LentInside /\ HolesPlugged
=============================================================================
