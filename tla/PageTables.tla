----------------------------- MODULE PageTables -----------------------------
(***************************************************************************)
(* Memory::init of lib/memory.cpp: page tables are taken from the lowest   *)
(* available huge pages, as many as a budget says, and every huge page     *)
(* above them is mapped to the next virtual address through tables of      *)
(* small pages.  The allocator asserts that it stays inside the budget.    *)
(*                                                                         *)
(* The available huge pages are n in a row from kernel_break on; a hole    *)
(* above the tables changes nothing but physical addresses.                *)
(***************************************************************************)
EXTENDS Integers

CONSTANTS
    H,          \* pages of a huge page, which is also the entries of a table
    K,          \* kernel_break in huge pages
    Sizes       \* numbers of available huge pages

VARIABLES
    n_huge_pages,
    next_page_table_address,    \* in pages
    page_table_break,           \* in huge pages
    i,                          \* the next huge page to map
    vaddr,                      \* where it goes, in huge pages
    phase

vars == <<n_huge_pages, next_page_table_address, page_table_break, i, vaddr, phase>>

Ceil(a, b) == (a + b - 1) \div b

Init ==
    /\ n_huge_pages \in Sizes
    /\ next_page_table_address = K * H
    /\ page_table_break = 0
    /\ i = 0 /\ vaddr = K
    /\ phase = "break"

(* In huge pages: 4 tables reserved, a P1 for each huge page, P2s, P3 and P4. *)
budget(n) == Ceil(4 + n + Ceil(n, H) + 2, H)

(* The loop looks at huge pages below n_huge_pages only, of which the first
   K are not available; the break stays 0 if they do not suffice. *)
init_page_table_break ==
    /\ phase = "break"
    /\ page_table_break' = IF K + budget(n_huge_pages) <= n_huge_pages
                           THEN K + budget(n_huge_pages) ELSE 0
    /\ i' = page_table_break'
    /\ phase' = "kernel"
    /\ UNCHANGED <<n_huge_pages, next_page_table_address, vaddr>>

(* m calls of page_table_alloc, up to a failing assertion. *)
page_table_alloc(m, then) ==
    /\ next_page_table_address' = next_page_table_address + m
    /\ phase' = IF next_page_table_address + m <= page_table_break * H THEN then ELSE "assert"

(* P4, two P3s, a P2, and a P1 for every huge page of the kernel. *)
init_empty_kernel_page_table ==
    /\ phase = "kernel"
    /\ page_table_alloc(4 + K, "user")
    /\ UNCHANGED <<n_huge_pages, page_table_break, i, vaddr>>

(* One turn of the loop of init_page_table_4k: a P2 too if the address is
   the first of its gigabyte. *)
init_page_table_4k ==
    /\ phase = "user" /\ i < K + n_huge_pages
    /\ page_table_alloc(IF vaddr % H = 0 THEN 2 ELSE 1, "user")
    /\ i' = i + 1 /\ vaddr' = vaddr + 1
    /\ UNCHANGED <<n_huge_pages, page_table_break>>

lcr3 ==
    /\ phase = "user" /\ i = K + n_huge_pages
    /\ phase' = "done"
    /\ UNCHANGED <<n_huge_pages, next_page_table_address, page_table_break, i, vaddr>>

Next == init_page_table_break \/ init_empty_kernel_page_table \/ init_page_table_4k \/ lcr3

Spec == Init /\ [][Next]_vars

-----------------------------------------------------------------------------
(* page_table_alloc's "assert(next_page_table_address <= page_table_break)":
   the budget made before the tables covers them. *)
BudgetSuffices == phase # "assert"
=============================================================================
