---------------------------- MODULE UserProgram ----------------------------
(***************************************************************************)
(* A judge loads a program into the user's memory (UserMemory) and runs it *)
(* under the timer (Trap).  The two share nothing but the instant in which *)
(* the program runs, so a behaviour follows one side of it, the memory or  *)
(* the time; the other keeps its first state.                              *)
(***************************************************************************)
EXTENDS UserMemory, Trap

VARIABLE side

programVars == <<side, vars, trapVars>>

ProgramInit == side \in {"memory", "time"} /\ Init /\ TrapInit /\ (side = "memory" => irr)

MemorySide(A) == side = "memory" /\ A /\ UNCHANGED <<side, trapVars>>
TimeSide(A) == side = "time" /\ A /\ UNCHANGED <<side, vars>>

ProgramNext == MemorySide(Next) \/ TimeSide(TrapNext)

(* Interrupts are taken where they are enabled, and time passes. *)
ProgramFairness ==
    /\ WF_programVars(TimeSide(timer_counts \/ timer_stops \/ wake))
    /\ WF_programVars(TimeSide(Tick))

ProgramSpec == ProgramInit /\ [][ProgramNext]_programVars /\ ProgramFairness
=============================================================================
