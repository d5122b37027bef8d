-------------------------------- MODULE Trap --------------------------------
(***************************************************************************)
(* Entering a user program and getting back from it: kern/trap.cpp and the *)
(* entries of kern/trap_entry.S, with the timer of lib/lapic.cpp that ends *)
(* a program after its time limit and the sleep of lib/scheduler.cpp that  *)
(* uses the same timer and the same counter.                               *)
(*                                                                         *)
(* Time goes in periods of the timer (0.5 ms).  The kernel runs with       *)
(* interrupts disabled, and timer_disable only sets a very long period, so *)
(* an interrupt may be pending whenever the kernel enables them again.     *)
(* While a program runs the time stamp counter starts at zero; TSC_ADJUST  *)
(* keeps what was taken off.                                               *)
(***************************************************************************)
EXTENDS Integers

CONSTANTS
    TimeLimits,         \* in periods, rounded down
    Thousand,           \* 1000: one period in so many is added
    Twenty,             \* 20 periods, "10ms", are added
    ClockMod,           \* 2^64
    Idle1, Sleep1, Idle2, Sleep2    \* idle_policy_ms

ASSUME TrapAssumption ==
    /\ TimeLimits \subseteq Nat
    /\ {Thousand, Twenty, ClockMod} \subseteq Nat \ {0}
    /\ \A n \in TimeLimits : n + n \div Thousand + Twenty < ClockMod
    /\ {Idle1, Sleep1, Idle2, Sleep2} \subseteq Nat \ {0} /\ Idle1 < Idle2

VARIABLES
    mode,               \* what the processor does: kernel, user, asleep
    limit,              \* user_time_limit_ns in periods
    cnt,                \* __lapic_timer_cnt
    irr,                \* a timer interrupt is pending
    left,               \* periods to the interrupt of a single shot
    tsc, adjust,        \* the counter as rdtsc reads it, TSC_ADJUST
    to_user,            \* tf_to_user.tf_regs.tsc
    measured,           \* tf_run_user.tf_regs.tsc: the time the program took
    trap_num,           \* how the last program ended
    current_state, last_active,     \* of the scheduler
    now, ran, quiet     \* history: the time, the time in the program, and
                        \* the time since a packet, up to Idle2

trapVars == <<mode, limit, cnt, irr, left, tsc, adjust, to_user, measured, trap_num,
              current_state, last_active, now, ran, quiet>>

scheduler == <<current_state, last_active, quiet>>

TrapInit ==
    /\ mode = "kernel"
    /\ limit = 0 /\ cnt = 0 /\ irr \in BOOLEAN /\ left = 0
    /\ tsc = 0 /\ adjust = 0 /\ to_user = 0 /\ measured = 0
    /\ trap_num = "syscall"
    /\ current_state = "ACTIVE" /\ last_active = 0
    /\ now = 0 /\ ran = 0 /\ quiet = 0

Clock(t) == t % ClockMod

(* Mutant: nothing is added to the limit. *)
timer_cnt_exact(n) == n

(* "0.5ms per interrupt, add 10ms + 0.1% for context switching" *)
timer_cnt(n) == n + n \div Thousand + Twenty

(* run_user_64 or run_user_32, the trap it makes and the return to the
   program, which records the counter and sets it to zero. *)
run_user(n) ==
    /\ mode = "kernel" /\ n \in TimeLimits
    /\ mode' = "user"
    /\ limit' = n
    /\ cnt' = timer_cnt(n)
    /\ to_user' = tsc
    /\ adjust' = Clock(adjust - tsc) /\ tsc' = 0
    /\ ran' = 0
    /\ UNCHANGED <<irr, left, measured, trap_num, scheduler, now>>

(* "restore kernel tsc" *)
restore_tsc == tsc' = Clock(tsc - adjust) /\ adjust' = 0

(* Mutant: the time of the program is taken from the counter as it is. *)
time_in_user_raw == Clock(tsc - to_user)

time_in_user == Clock(tsc - adjust - to_user)

(* trap_handler for a trap from the program. *)
trap_handler(num) ==
    /\ mode = "user"
    /\ restore_tsc
    /\ measured' = time_in_user
    /\ trap_num' = num
    /\ mode' = "kernel"
    /\ UNCHANGED <<limit, cnt, left, to_user, scheduler, now, ran>>

(* A system call or a fault ends the program; the timer may fire before
   timer_disable. *)
Leave(num) ==
    /\ trap_handler(num)
    /\ irr' \in {irr, TRUE}

LastInterrupt == cnt = 1

(* Mutant: the counter is not stored. *)
timer_counts_stuck ==
    /\ mode = "user" /\ irr /\ ~LastInterrupt
    /\ irr' = FALSE
    /\ UNCHANGED <<mode, limit, cnt, left, tsc, adjust, to_user, measured, trap_num, scheduler, now, ran>>

(* The timer trap __trap_32 counts down and returns to the program, or goes
   on to the trap handler. *)
timer_counts ==
    /\ mode = "user" /\ irr /\ ~LastInterrupt
    /\ cnt' = cnt - 1
    /\ irr' = FALSE
    /\ UNCHANGED <<mode, limit, left, tsc, adjust, to_user, measured, trap_num, scheduler, now, ran>>

timer_stops ==
    /\ irr /\ LastInterrupt
    /\ trap_handler("timer")
    /\ irr' = FALSE

(* trap_handler for the timer in the kernel: "just return with interrupts
   disabled". *)
wake ==
    /\ mode = "asleep" /\ irr
    /\ mode' = "kernel"
    /\ irr' = FALSE /\ left' = 0
    /\ restore_tsc
    /\ UNCHANGED <<limit, cnt, to_user, measured, trap_num, scheduler, now, ran>>

(* Time passes: the interrupt of a period or of a single shot becomes pending,
   and an earlier one is taken before. *)
Tick ==
    /\ mode = "kernel" \/ ~irr
    /\ tsc' = Clock(tsc + 1) /\ now' = Clock(now + 1)
    /\ left' = IF left > 0 THEN left - 1 ELSE left
    /\ CASE mode = "user" -> irr' = TRUE
         [] mode = "asleep" -> irr' = (left = 1)
         [] OTHER -> UNCHANGED irr
    /\ ran' = IF mode = "user" /\ ran < ClockMod - 1 THEN ran + 1 ELSE ran
    /\ quiet' = IF quiet < Idle2 THEN quiet + 1 ELSE quiet
    /\ UNCHANGED <<mode, limit, cnt, adjust, to_user, measured, trap_num, current_state, last_active>>

(* The very long period that timer_disable leaves behind is over. *)
Late ==
    /\ mode = "kernel" /\ ~irr
    /\ irr' = TRUE
    /\ UNCHANGED <<mode, limit, cnt, left, tsc, adjust, to_user, measured, trap_num, scheduler, now, ran>>

(* A packet is received or sent. *)
set_active ==
    /\ mode = "kernel"
    /\ current_state' = "ACTIVE" /\ quiet' = 0
    /\ UNCHANGED <<mode, limit, cnt, irr, left, tsc, adjust, to_user, measured, trap_num, last_active, now, ran>>

get_sleep_duration(idle) == IF idle >= Idle2 THEN Sleep2 ELSE IF idle >= Idle1 THEN Sleep1 ELSE 0

(* Mutant: the time at which idling began is taken once only. *)
set_idle_once == last_active' = last_active

set_idle == last_active' = IF current_state = "ACTIVE" THEN tsc ELSE last_active

powersave_sleep(n) == cnt' = 1 /\ left' = n

(* The idle routine of the server: set_idle, and sleep if it has been idle for
   long enough. *)
idle ==
    /\ mode = "kernel"
    /\ set_idle
    /\ current_state' = "IDLE"
    /\ LET n == get_sleep_duration(Clock(tsc - last_active'))
       IN  IF n = 0 THEN UNCHANGED <<mode, cnt, left>>
           ELSE powersave_sleep(n) /\ mode' = "asleep"
    /\ UNCHANGED <<limit, irr, tsc, adjust, to_user, measured, trap_num, now, ran, quiet>>

TrapNext ==
    \/ \E n \in TimeLimits : run_user(n)
    \/ \E num \in {"syscall", "fault"} : Leave(num)
    \/ timer_counts \/ timer_stops \/ wake \/ Tick \/ Late
    \/ set_active \/ idle

TrapSpec == TrapInit /\ [][TrapNext]_trapVars
-----------------------------------------------------------------------------
(* Counters and modes stay in their ranges. *)
TrapTypeOK ==
    /\ mode \in {"kernel", "user", "asleep"}
    /\ limit \in Nat /\ cnt \in Nat /\ irr \in BOOLEAN /\ left \in Nat
    /\ {tsc, adjust, to_user, measured, last_active, now} \subseteq 0 .. ClockMod - 1
    /\ trap_num \in {"syscall", "fault", "timer"}
    /\ current_state \in {"ACTIVE", "IDLE"} /\ ran \in Nat /\ quiet \in 0 .. Idle2

(* The timer alone decides whether a program exceeded its limit, and it counts
   interrupts: a program that it stopped has had its time, even if the first
   interrupt was left over from the kernel, and one that ended by itself had no
   more than the limit and what is added to it. *)
VerdictFair ==
    mode = "kernel" =>
        /\ trap_num = "timer" => ran >= limit
        /\ ran <= limit + limit \div Thousand + Twenty

(* The time reported is the time the program ran, whatever the kernel's counter
   was before. *)
MeasuredIsRan == mode = "kernel" => measured = Clock(ran)

(* The kernel's clock, which every program sets to zero, never shows it. *)
KernelClockKept == mode # "user" => tsc = now

(* Programs run with a counter of their own, and both counts come out right:
   the program's time and the kernel's clock. *)
TimeKept == TrapTypeOK /\ MeasuredIsRan /\ KernelClockKept

(* The processor goes to sleep only when no packet came for some time: what
   the scheduler remembers of the last one survives programs and wraps. *)
SleepsWhenIdle == [][mode' = "asleep" /\ mode # "asleep" => quiet >= Idle1]_trapVars

(* A program that does not end by itself is stopped. *)
ProgramStopped == mode = "user" ~> mode = "kernel"

(* The server wakes up by the timer, with no packet to wake it. *)
SleeperWakes == mode = "asleep" ~> mode = "kernel"

(* Saving power costs no packet: the processor sleeps only in a quiet time,
   and never for good. *)
SleepsSafely == SleepsWhenIdle /\ SleeperWakes
=============================================================================
