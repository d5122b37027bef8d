------------------------------ MODULE MCSolver ------------------------------
(* Small instances of the solver: seven is prime to ten, six is even like M1. *)
EXTENDS Solver

ModuliDef == <<7, 6>>
MinLenDef == <<2, 1>>
=============================================================================
