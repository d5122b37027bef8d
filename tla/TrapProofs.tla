----------------------------- MODULE TrapProofs -----------------------------
(***************************************************************************)
(* The verdict on the time of a program is fair for all time limits and    *)
(* all values of the constants of Trap.                                    *)
(***************************************************************************)
EXTENDS Trap, TLAPS

(* The interrupt that is pending, as a number.                             *)
Pending == IF irr THEN 1 ELSE 0

(* In a program the interrupts still to come and the periods that have     *)
(* passed add up to those the limit allows, or to one less: the one left   *)
(* over from the kernel.                                                   *)
InterruptsAddUp ==
    mode = "user" =>
        /\ cnt > 0
        /\ limit \in TimeLimits
        /\ cnt - Pending + ran \in {timer_cnt(limit), timer_cnt(limit) - 1}

VerdictInv ==
    /\ limit \in Nat /\ cnt \in Nat /\ ran \in Nat /\ irr \in BOOLEAN
    /\ InterruptsAddUp
    /\ mode # "user" => /\ trap_num = "timer" => ran >= limit
                        /\ ran <= timer_cnt(limit)

(* What is added to a limit is not negative, and at least one period.      *)
LEMMA LimitExtended ==
    ASSUME NEW n \in Nat
    PROVE  timer_cnt(n) \in Nat /\ timer_cnt(n) > n
<1>1. Thousand \in Nat \ {0} /\ Twenty \in Nat \ {0} BY TrapAssumption
<1>2. n \div Thousand \in Nat BY <1>1
<1>3. QED BY <1>1, <1>2 DEF timer_cnt

(* A program starts with all its interrupts to come.                       *)
LEMMA RunKeeps ==
    ASSUME VerdictInv, NEW n \in TimeLimits, run_user(n)
    PROVE  VerdictInv'
<1>1. n \in Nat BY TrapAssumption
<1>2. timer_cnt(n) \in Nat /\ timer_cnt(n) > n BY <1>1, LimitExtended
<1>3. mode' = "user" /\ limit' = n /\ cnt' = timer_cnt(n) /\ ran' = 0 /\ irr' = irr
    BY DEF run_user
<1>4. QED BY <1>1, <1>2, <1>3 DEF VerdictInv, InterruptsAddUp, Pending

(* A program ends by itself within what the limit allows.                  *)
LEMMA LeaveKeeps ==
    ASSUME VerdictInv, NEW num \in {"syscall", "fault"}, Leave(num)
    PROVE  VerdictInv'
<1>1. mode = "user" /\ mode' = "kernel" /\ trap_num' = num /\ irr' \in BOOLEAN
      /\ limit' = limit /\ cnt' = cnt /\ ran' = ran
    BY DEF Leave, trap_handler, VerdictInv
<1>2. timer_cnt(limit) \in Nat BY LimitExtended DEF VerdictInv
<1>3. ran <= timer_cnt(limit)
    BY <1>1, <1>2 DEF VerdictInv, InterruptsAddUp, Pending
<1>4. QED BY <1>1, <1>3 DEF VerdictInv, InterruptsAddUp, timer_cnt

(* The last interrupt comes after the limit.                               *)
LEMMA StopKeeps == VerdictInv /\ timer_stops => VerdictInv'
<1> SUFFICES ASSUME VerdictInv, timer_stops PROVE VerdictInv' OBVIOUS
<1>1. mode = "user" /\ mode' = "kernel" /\ irr' = FALSE /\ irr /\ cnt = 1
      /\ limit' = limit /\ cnt' = cnt /\ ran' = ran
    BY DEF timer_stops, trap_handler, LastInterrupt
<1>2. timer_cnt(limit) \in Nat /\ timer_cnt(limit) > limit BY LimitExtended DEF VerdictInv
<1>3. limit <= ran /\ ran <= timer_cnt(limit)
    BY <1>1, <1>2 DEF VerdictInv, InterruptsAddUp, Pending
<1>4. QED BY <1>1, <1>3 DEF VerdictInv, InterruptsAddUp, timer_cnt

(* An interrupt that is not the last one is counted.                       *)
LEMMA CountKeeps == VerdictInv /\ timer_counts => VerdictInv'
<1> SUFFICES ASSUME VerdictInv, timer_counts PROVE VerdictInv' OBVIOUS
<1>1. mode = "user" /\ mode' = "user" /\ irr' = FALSE /\ irr /\ cnt # 1 /\ cnt' = cnt - 1
      /\ limit' = limit /\ ran' = ran
    BY DEF timer_counts, LastInterrupt
<1>2. timer_cnt(limit) \in Nat BY LimitExtended DEF VerdictInv
<1>3. timer_cnt(limit)' = timer_cnt(limit) BY <1>1 DEF timer_cnt
<1>4. Pending = 1 /\ Pending' = 0 BY <1>1 DEF Pending
<1>5. cnt \in Nat /\ ran \in Nat /\ cnt > 0 /\ limit \in TimeLimits /\ limit \in Nat
      /\ cnt - Pending + ran \in {timer_cnt(limit), timer_cnt(limit) - 1}
    BY <1>1 DEF VerdictInv, InterruptsAddUp
<1>6. cnt' \in Nat /\ cnt' > 0 /\ cnt' - Pending' + ran' = cnt - Pending + ran
    BY <1>1, <1>4, <1>5
<1>7. QED BY <1>1, <1>3, <1>5, <1>6 DEF VerdictInv, InterruptsAddUp

(* A period in the program makes an interrupt pending; elsewhere nothing   *)
(* is counted.  The history of the time in the program does not saturate.  *)
LEMMA TickKeeps == VerdictInv /\ Tick => VerdictInv'
<1> SUFFICES ASSUME VerdictInv, Tick PROVE VerdictInv' OBVIOUS
<1>1. mode' = mode /\ limit' = limit /\ cnt' = cnt /\ trap_num' = trap_num BY DEF Tick
<1>2. timer_cnt(limit)' = timer_cnt(limit) BY <1>1 DEF timer_cnt
<1>3. CASE mode = "user"
    <2>1. irr = FALSE /\ irr' = TRUE BY <1>3 DEF Tick, VerdictInv
    <2>2. limit \in TimeLimits BY <1>3 DEF VerdictInv, InterruptsAddUp
    <2>3. timer_cnt(limit) < ClockMod /\ ClockMod \in Nat BY <2>2, TrapAssumption DEF timer_cnt
    <2>4. timer_cnt(limit) \in Nat BY LimitExtended DEF VerdictInv
    <2>5. ran < timer_cnt(limit) BY <1>3, <2>1, <2>4 DEF VerdictInv, InterruptsAddUp, Pending
    <2>6. ran' = ran + 1 BY <1>3, <2>3, <2>4, <2>5 DEF Tick, VerdictInv
    <2>7. QED BY <1>1, <1>2, <1>3, <2>1, <2>4, <2>6 DEF VerdictInv, InterruptsAddUp, Pending
<1>4. CASE mode # "user"
    <2>1. ran' = ran BY <1>4 DEF Tick
    <2>2. irr' \in BOOLEAN BY <1>4 DEF Tick, VerdictInv
    <2>3. QED BY <1>1, <1>2, <1>4, <2>1, <2>2 DEF VerdictInv, InterruptsAddUp
<1>5. QED BY <1>3, <1>4

(* Steps of the kernel and of the sleep.                                   *)
LEMMA KernelKeeps == VerdictInv /\ (wake \/ Late \/ set_active \/ idle) => VerdictInv'
<1> SUFFICES ASSUME VerdictInv, wake \/ Late \/ set_active \/ idle PROVE VerdictInv' OBVIOUS
<1>1. mode # "user" /\ mode' # "user" /\ irr' \in BOOLEAN
      /\ limit' = limit /\ ran' = ran /\ trap_num' = trap_num
    BY DEF wake, Late, set_active, idle, VerdictInv
<1>2. cnt' \in Nat BY DEF wake, Late, set_active, idle, powersave_sleep, VerdictInv
<1>3. QED BY <1>1, <1>2 DEF VerdictInv, InterruptsAddUp, timer_cnt

(* The interrupts add up in every state.                                   *)
THEOREM VerdictInvariance == TrapSpec => []VerdictInv
<1>1. TrapInit => VerdictInv
    <2> SUFFICES ASSUME TrapInit PROVE VerdictInv OBVIOUS
    <2>1. timer_cnt(0) \in Nat BY LimitExtended
    <2>2. QED BY <2>1 DEF TrapInit, VerdictInv, InterruptsAddUp
<1>2. VerdictInv /\ [TrapNext]_trapVars => VerdictInv'
    <2> SUFFICES ASSUME VerdictInv, [TrapNext]_trapVars PROVE VerdictInv' OBVIOUS
    <2>1. CASE TrapNext
        BY <2>1, RunKeeps, LeaveKeeps, StopKeeps, CountKeeps, TickKeeps, KernelKeeps DEF TrapNext
    <2>2. CASE UNCHANGED trapVars
        BY <2>2 DEF trapVars, VerdictInv, InterruptsAddUp, Pending, timer_cnt
    <2>3. QED BY <2>1, <2>2
<1>3. QED BY <1>1, <1>2, PTL DEF TrapSpec

(* The verdict of the timer in trap.cpp and __trap_32 is fair for all time *)
(* limits: a program it stopped has had its time, and no program runs      *)
(* longer than the limit and what is added to it.                          *)
THEOREM VerdictIsFair == TrapSpec => []VerdictFair
<1>1. VerdictInv => VerdictFair BY DEF VerdictInv, VerdictFair, timer_cnt
<1>2. QED BY <1>1, VerdictInvariance, PTL

-----------------------------------------------------------------------------
(* The clock.  In a program the counter shows the time of the program, and *)
(* TSC_ADJUST and the recorded counter agree on what was taken off.        *)
Negative(t) == IF t = 0 THEN 0 ELSE ClockMod - t

Plus(t, u) == IF t + u < ClockMod THEN t + u ELSE t + u - ClockMod

ClockInv ==
    /\ tsc \in 0 .. ClockMod - 1 /\ adjust \in 0 .. ClockMod - 1
    /\ to_user \in 0 .. ClockMod - 1 /\ now \in 0 .. ClockMod - 1
    /\ mode = "user" => /\ ran \in 0 .. ClockMod - 1 /\ tsc = ran
                        /\ adjust = Negative(to_user)
                        /\ now = Plus(to_user, ran)
    /\ mode # "user" => tsc = now /\ adjust = 0 /\ measured = Clock(ran)

(* Arithmetic of the counter.                                              *)
LEMMA ClockIsNat == ClockMod \in Nat /\ ClockMod > 0
BY TrapAssumption

(* A time below the width of the counter is what the counter reads.        *)
LEMMA ClockExact == ASSUME NEW t \in 0 .. ClockMod - 1 PROVE Clock(t) = t
BY ClockIsNat DEF Clock

(* A negative time wraps once.                                             *)
LEMMA ClockNegative ==
    ASSUME NEW t \in Int, 0 - ClockMod <= t, t < 0
    PROVE  Clock(t) = t + ClockMod
<1>1. t + ClockMod \in 0 .. ClockMod - 1 BY ClockIsNat
<1>2. t = (0 - 1) * ClockMod + (t + ClockMod) BY ClockIsNat
<1>3. QED BY <1>1, <1>2, ClockIsNat DEF Clock

(* The counter goes on by one, or wraps.                                   *)
LEMMA ClockNext ==
    ASSUME NEW t \in 0 .. ClockMod - 1
    PROVE  Clock(t + 1) = IF t + 1 = ClockMod THEN 0 ELSE t + 1
BY ClockIsNat DEF Clock

(* A program starts with a counter of zero.                                *)
LEMMA RunKeepsClock ==
    ASSUME ClockInv, NEW n \in TimeLimits, run_user(n)
    PROVE  ClockInv'
<1>1. tsc \in 0 .. ClockMod - 1 /\ tsc = now /\ adjust = 0
    BY DEF ClockInv, run_user
<1>2. mode' = "user" /\ to_user' = tsc /\ adjust' = Clock(0 - tsc) /\ tsc' = 0 /\ ran' = 0
      /\ now' = now
    BY <1>1 DEF run_user
<1>3. Clock(0 - tsc) = Negative(tsc)
    <2>1. CASE tsc = 0 BY <2>1, ClockIsNat, ClockExact DEF Negative
    <2>2. CASE tsc > 0
        <3>1. Clock(0 - tsc) = 0 - tsc + ClockMod BY <1>1, <2>2, ClockIsNat, ClockNegative
        <3>2. QED BY <1>1, <2>2, <3>1, ClockIsNat DEF Negative
    <2>3. QED BY <1>1, <2>1, <2>2
<1>4. adjust' = Negative(to_user)' BY <1>2, <1>3 DEF Negative
<1>5. now' = Plus(to_user, ran)' BY <1>1, <1>2, ClockIsNat DEF Plus
<1>6. adjust' \in 0 .. ClockMod - 1 BY <1>1, <1>2, <1>3, ClockIsNat DEF Negative
<1>7. QED BY <1>1, <1>2, <1>4, <1>5, <1>6, ClockIsNat DEF ClockInv

(* A trap from the program gives the kernel its counter back and measures  *)
(* the program.                                                            *)
LEMMA TrapKeepsClock ==
    ASSUME ClockInv, NEW num, trap_handler(num)
    PROVE  ClockInv'
<1>1. /\ ran \in 0 .. ClockMod - 1 /\ tsc = ran /\ to_user \in 0 .. ClockMod - 1
      /\ adjust = Negative(to_user) /\ now = Plus(to_user, ran) /\ now \in 0 .. ClockMod - 1
    BY DEF ClockInv, trap_handler
<1>2. /\ mode' = "kernel" /\ adjust' = 0 /\ to_user' = to_user /\ now' = now /\ ran' = ran
      /\ tsc' = Clock(tsc - adjust) /\ measured' = Clock(tsc - adjust - to_user)
    BY DEF trap_handler, restore_tsc, time_in_user
<1>3. tsc' = now /\ measured' = ran
    <2>1. CASE to_user = 0
        BY <1>1, <1>2, <2>1, ClockIsNat, ClockExact DEF Negative, Plus
    <2>2. CASE to_user # 0
        <3>1. tsc - adjust = ran + to_user - ClockMod /\ tsc - adjust - to_user = ran - ClockMod
            BY <1>1, <2>2, ClockIsNat DEF Negative
        <3>2. measured' = ran
            BY <1>1, <1>2, <3>1, ClockIsNat, ClockNegative
        <3>3. tsc' = now
            <4>1. CASE ran + to_user < ClockMod
                BY <1>1, <1>2, <3>1, <4>1, ClockIsNat, ClockNegative DEF Plus
            <4>2. CASE ~(ran + to_user < ClockMod)
                <5>1. ran + to_user - ClockMod \in 0 .. ClockMod - 1 BY <1>1, <4>2, ClockIsNat
                <5>2. QED BY <1>1, <1>2, <3>1, <4>2, <5>1, ClockExact DEF Plus
            <4>3. QED BY <4>1, <4>2
        <3>4. QED BY <3>2, <3>3
    <2>3. QED BY <2>1, <2>2
<1>4. measured' = Clock(ran') BY <1>1, <1>2, <1>3, ClockExact
<1>5. QED BY <1>1, <1>2, <1>3, <1>4, ClockIsNat DEF ClockInv, Clock

(* Time passes for the program and for the kernel alike.                   *)
LEMMA TickKeepsClock == VerdictInv /\ ClockInv /\ Tick => ClockInv'
<1> SUFFICES ASSUME VerdictInv, ClockInv, Tick PROVE ClockInv' OBVIOUS
<1>1. tsc \in 0 .. ClockMod - 1 /\ now \in 0 .. ClockMod - 1 BY DEF ClockInv
<1>2. mode' = mode /\ adjust' = adjust /\ to_user' = to_user /\ measured' = measured
      /\ tsc' = Clock(tsc + 1) /\ now' = Clock(now + 1)
    BY DEF Tick
<1>3. tsc' \in 0 .. ClockMod - 1 /\ now' \in 0 .. ClockMod - 1
    BY <1>1, <1>2, ClockNext, ClockIsNat
<1>4. CASE mode = "user"
    <2>1. /\ ran \in 0 .. ClockMod - 1 /\ tsc = ran /\ to_user \in 0 .. ClockMod - 1
          /\ now = Plus(to_user, ran)
        BY <1>4 DEF ClockInv
    <2>2. irr = FALSE /\ limit \in TimeLimits BY <1>4 DEF Tick, VerdictInv, InterruptsAddUp
    <2>3. timer_cnt(limit) < ClockMod BY <2>2, TrapAssumption DEF timer_cnt
    <2>4. timer_cnt(limit) \in Nat BY LimitExtended DEF VerdictInv
    <2>5. ran < timer_cnt(limit) BY <1>4, <2>2, <2>4 DEF VerdictInv, InterruptsAddUp, Pending
    <2>6. ran + 1 \in 0 .. ClockMod - 1 BY <2>1, <2>3, <2>4, <2>5, ClockIsNat
    <2>7. ran' = ran + 1 BY <1>4, <2>1, <2>6, ClockIsNat DEF Tick
    <2>8. tsc' = ran' BY <1>2, <2>1, <2>6, <2>7, ClockExact
    <2>9. now' = Plus(to_user, ran)'
        BY <1>1, <1>2, <2>1, <2>6, <2>7, ClockNext, ClockIsNat DEF Plus
    <2>10. adjust' = Negative(to_user)' BY <1>2, <1>4 DEF ClockInv, Negative
    <2>11. QED BY <1>2, <1>3, <1>4, <2>6, <2>7, <2>8, <2>9, <2>10 DEF ClockInv
<1>5. CASE mode # "user"
    <2>1. ran' = ran BY <1>5 DEF Tick
    <2>2. QED BY <1>2, <1>3, <1>5, <2>1 DEF ClockInv, Clock
<1>6. QED BY <1>4, <1>5

(* The other steps leave the clock alone.                                  *)
LEMMA OthersKeepClock ==
    ClockInv /\ (timer_counts \/ wake \/ Late \/ set_active \/ idle) => ClockInv'
<1> SUFFICES ASSUME ClockInv, timer_counts \/ wake \/ Late \/ set_active \/ idle PROVE ClockInv'
    OBVIOUS
<1>1. CASE wake
    <2>1. tsc' = tsc BY <1>1, ClockExact, ClockIsNat DEF wake, restore_tsc, ClockInv
    <2>2. adjust' = 0 /\ mode' = "kernel" /\ mode = "asleep" /\ to_user' = to_user /\ now' = now
          /\ ran' = ran /\ measured' = measured
        BY <1>1 DEF wake, restore_tsc
    <2>3. QED BY <2>1, <2>2, ClockIsNat DEF ClockInv, Clock
<1>2. CASE timer_counts \/ Late \/ set_active \/ idle
    <2>1. /\ mode' = "user" <=> mode = "user"
          /\ UNCHANGED <<tsc, adjust, to_user, now, ran, measured>>
        BY <1>2 DEF timer_counts, Late, set_active, idle
    <2>2. QED BY <2>1 DEF ClockInv, Negative, Plus, Clock
<1>3. QED BY <1>1, <1>2

(* The counter is right in every state.                                    *)
THEOREM ClockInvariance == TrapSpec => []ClockInv
<1>1. TrapInit => ClockInv
    BY ClockIsNat, ClockExact DEF TrapInit, ClockInv
<1>2. VerdictInv /\ ClockInv /\ [TrapNext]_trapVars => ClockInv'
    <2> SUFFICES ASSUME VerdictInv, ClockInv, [TrapNext]_trapVars PROVE ClockInv' OBVIOUS
    <2>1. CASE TrapNext
        BY <2>1, RunKeepsClock, TrapKeepsClock, TickKeepsClock, OthersKeepClock
        DEF TrapNext, Leave, timer_stops
    <2>2. CASE UNCHANGED trapVars
        BY <2>2 DEF trapVars, ClockInv, Negative, Plus, Clock
    <2>3. QED BY <2>1, <2>2
<1>3. QED BY <1>1, <1>2, VerdictInvariance, PTL DEF TrapSpec

(* The counters stay within their width.                                   *)
LEMMA NextTyped == TrapTypeOK /\ VerdictInv' /\ TrapNext => TrapTypeOK'
<1> SUFFICES ASSUME TrapTypeOK, VerdictInv', TrapNext PROVE TrapTypeOK' OBVIOUS
<1>1. \A t \in Int : Clock(t) \in 0 .. ClockMod - 1 BY ClockIsNat DEF Clock
<1>2. /\ mode' \in {"kernel", "user", "asleep"} /\ trap_num' \in {"syscall", "fault", "timer"}
      /\ current_state' \in {"ACTIVE", "IDLE"}
    BY DEF TrapNext, run_user, Leave, trap_handler, timer_counts, timer_stops, wake, Tick, Late,
           set_active, idle, scheduler, TrapTypeOK
<1>3. limit' \in Nat /\ cnt' \in Nat /\ irr' \in BOOLEAN /\ ran' \in Nat BY DEF VerdictInv
<1>4. left' \in Nat
    <2>1. CASE Tick BY <2>1 DEF Tick, TrapTypeOK
    <2>2. CASE idle
        <3> DEFINE n == get_sleep_duration(Clock(tsc - last_active'))
        <3>1. n \in Nat BY TrapAssumption DEF get_sleep_duration
        <3> HIDE DEF n
        <3>2. left' = left \/ left' = n BY <2>2 DEF idle, powersave_sleep, n
        <3>3. QED BY <3>1, <3>2 DEF TrapTypeOK
    <2>3. CASE ~Tick /\ ~idle
        <3>1. left' = left \/ left' = 0
            BY <2>3 DEF TrapNext, run_user, Leave, trap_handler, timer_counts, timer_stops, wake, Late,
               set_active
        <3>2. QED BY <3>1 DEF TrapTypeOK
    <2>4. QED BY <2>1, <2>2, <2>3
<1>5. quiet' \in 0 .. Idle2
    <2>1. Idle2 \in Nat BY TrapAssumption
    <2>2. CASE Tick BY <2>1, <2>2 DEF Tick, TrapTypeOK
    <2>3. CASE ~Tick
        <3>1. quiet' = quiet \/ quiet' = 0
            BY <2>3 DEF TrapNext, run_user, Leave, trap_handler, timer_counts, timer_stops, wake,
               Late, set_active, idle, scheduler
        <3>2. QED BY <2>1, <3>1 DEF TrapTypeOK
    <2>4. QED BY <2>2, <2>3
<1>6. /\ tsc \in 0 .. ClockMod - 1 /\ adjust \in 0 .. ClockMod - 1 /\ now \in 0 .. ClockMod - 1
      /\ to_user \in 0 .. ClockMod - 1 /\ measured \in 0 .. ClockMod - 1
    BY DEF TrapTypeOK
<1>7. /\ tsc' \in 0 .. ClockMod - 1 /\ adjust' \in 0 .. ClockMod - 1 /\ now' \in 0 .. ClockMod - 1
      /\ to_user' \in 0 .. ClockMod - 1 /\ measured' \in 0 .. ClockMod - 1
    <2>1. tsc + 1 \in Int /\ now + 1 \in Int /\ tsc - adjust \in Int /\ adjust - tsc \in Int
          /\ tsc - adjust - to_user \in Int /\ 0 \in 0 .. ClockMod - 1
        BY <1>6, ClockIsNat
    <2>2. /\ Clock(tsc + 1) \in 0 .. ClockMod - 1 /\ Clock(now + 1) \in 0 .. ClockMod - 1
          /\ Clock(tsc - adjust) \in 0 .. ClockMod - 1 /\ Clock(adjust - tsc) \in 0 .. ClockMod - 1
          /\ Clock(tsc - adjust - to_user) \in 0 .. ClockMod - 1
        BY <1>1, <2>1
    <2>3. /\ tsc' \in {tsc, 0, Clock(tsc + 1), Clock(tsc - adjust)}
          /\ adjust' \in {adjust, 0, Clock(adjust - tsc)}
          /\ now' \in {now, Clock(now + 1)}
          /\ to_user' \in {to_user, tsc}
          /\ measured' \in {measured, Clock(tsc - adjust - to_user)}
        BY DEF TrapNext, run_user, Leave, trap_handler, timer_counts, timer_stops, wake, Tick, Late,
           set_active, idle, restore_tsc, time_in_user
    <2>4. QED BY <1>6, <2>1, <2>2, <2>3
<1>8. last_active' \in 0 .. ClockMod - 1
    BY DEF TrapNext, run_user, Leave, trap_handler, timer_counts, timer_stops, wake, Tick,
       Late, set_active, idle, set_idle, scheduler, TrapTypeOK
<1>9. QED BY <1>2, <1>3, <1>4, <1>5, <1>7, <1>8 DEF TrapTypeOK

(* However often programs set it to zero, and through any number of its    *)
(* wraps, the kernel's counter shows the time (restore_tsc in trap.cpp),   *)
(* and the time trap_handler reports is the time the program ran.          *)
THEOREM TimeIsKept == TrapSpec => []TimeKept
<1>1. TrapInit => TrapTypeOK BY ClockIsNat, TrapAssumption DEF TrapInit, TrapTypeOK
<1>2. TrapTypeOK /\ VerdictInv' /\ [TrapNext]_trapVars => TrapTypeOK'
    <2>1. CASE UNCHANGED trapVars BY <2>1 DEF trapVars, TrapTypeOK
    <2>2. QED BY <2>1, NextTyped
<1>3. TrapTypeOK /\ ClockInv => TimeKept BY DEF ClockInv, TimeKept, KernelClockKept, MeasuredIsRan
<1>4. QED BY <1>1, <1>2, <1>3, VerdictInvariance, ClockInvariance, PTL DEF TrapSpec
=============================================================================
