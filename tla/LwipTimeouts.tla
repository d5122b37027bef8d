---------------------------- MODULE LwipTimeouts ----------------------------
(***************************************************************************)
(* lwIP's timeout list (core/timeouts.c), which the contestant's loop      *)
(* serves with sys_check_timeouts.  The cyclic timers are always on it;    *)
(* the TCP timer is on it while there are TCP control blocks.  Times are   *)
(* 32-bit milliseconds and wrap; left counts, without wrapping, how long   *)
(* each entry still has.                                                   *)
(***************************************************************************)
EXTENDS Integers, SequencesExt

CONSTANTS
    TimeMod,    \* 2^32
    Interval,   \* of each timer, "tcp" among them
    MaxLag      \* the loop calls sys_check_timeouts at least this often

Timers == DOMAIN Interval
Cyclic == Timers \ {"tcp"}

ASSUME TimeAssumption ==
    /\ "tcp" \in Timers
    /\ \A t \in Timers : Interval[t] \in 1 .. TimeMod \div 4
    /\ 4 * MaxLag < TimeMod \div 2

VARIABLES
    ms,             \* sys_now()
    next_timeout,   \* the list, entries [time, h]
    tcp_timer_active,
    pcbs,           \* tcp_active_pcbs || tcp_tw_pcbs
    check,          \* the call: "no", "loop", or the handler that runs
    start,          \* its now; 0 outside the call
    due_time,       \* current_timeout_due_time; 0 when no handler runs
    lag,            \* since the loop last returned from the call or began it
    left            \* until each entry's time

timeoutVars == <<ms, next_timeout, tcp_timer_active, pcbs, check, start, due_time, lag, left>>

(* Times are in range, and the list's entries are timers. *)
TimeoutsTypeOK ==
    /\ {ms, start, due_time} \subseteq 0 .. TimeMod - 1
    /\ \A i \in DOMAIN next_timeout :
          next_timeout[i].time \in 0 .. TimeMod - 1 /\ next_timeout[i].h \in Timers
    /\ {tcp_timer_active, pcbs} \subseteq BOOLEAN
    /\ check \in {"no", "loop"} \cup Timers
    /\ lag \in 0 .. MaxLag

(* Mutant: the times are compared as they are. *)
TIME_LESS_THAN_plain(t, u) == t < u

(* TIME_LESS_THAN: the difference is above LWIP_MAX_TIMEOUT. *)
TIME_LESS_THAN(t, u) == (t - u) % TimeMod > TimeMod \div 2 - 1

(* sys_timeout_abs: before the first entry with a later time. *)
sys_timeout_abs(list, time, h) ==
    LET later == {i \in DOMAIN list : TIME_LESS_THAN(time, list[i].time)}
    IN  InsertAt(list, IF later = {} THEN Len(list) + 1 ELSE Min(later),
                 [time |-> time, h |-> h])

(* The entry of h is set for time, which is n from now. *)
Set(time, h, n) ==
    /\ next_timeout' = sys_timeout_abs(next_timeout, time % TimeMod, h)
    /\ left' = [left EXCEPT ![h] = n]

(* sys_timeout. *)
sys_timeout(msecs, h) == Set(ms + msecs, h, msecs)

(* sys_timeouts_init: the cyclic timers, one after the other. *)
TimeoutsInit ==
    /\ ms \in 0 .. TimeMod - 1
    /\ next_timeout =
          FoldLeft(LAMBDA list, h : sys_timeout_abs(list, (ms + Interval[h]) % TimeMod, h),
                   <<>>, SetToSeq(Cyclic))
    /\ tcp_timer_active = FALSE
    /\ pcbs = FALSE
    /\ check = "no"
    /\ start = 0
    /\ due_time = 0
    /\ lag = 0
    /\ left = Interval

-----------------------------------------------------------------------------
(* tcp_timer_needed, called when a control block is registered. *)
tcp_timer_needed ==
    IF tcp_timer_active THEN UNCHANGED <<tcp_timer_active, next_timeout, left>>
    ELSE tcp_timer_active' = TRUE /\ sys_timeout(Interval["tcp"], "tcp")

(* TCP_REG, from the contestant's tick or from a handler. *)
Register ==
    /\ ~pcbs /\ check \in {"no", "tcp"}
    /\ pcbs' = TRUE
    /\ tcp_timer_needed
    /\ UNCHANGED <<ms, check, start, due_time, lag>>

(* The last control block goes. *)
Unregister ==
    /\ pcbs /\ check \in {"no", "tcp"}
    /\ pcbs' = FALSE
    /\ UNCHANGED <<ms, next_timeout, tcp_timer_active, check, start, due_time, lag, left>>

(* sys_check_timeouts is called. *)
sys_check_timeouts ==
    /\ check = "no"
    /\ check' = "loop"
    /\ start' = ms
    /\ lag' = 0
    /\ UNCHANGED <<ms, next_timeout, tcp_timer_active, pcbs, due_time, left>>

(* An expired entry is taken off the list and its handler called. *)
expire ==
    /\ check = "loop" /\ next_timeout # <<>>
    /\ ~TIME_LESS_THAN(start, next_timeout[1].time)
    /\ check' = next_timeout[1].h
    /\ due_time' = next_timeout[1].time
    /\ next_timeout' = Tail(next_timeout)
    /\ UNCHANGED <<ms, tcp_timer_active, pcbs, start, lag, left>>

(* Nothing has expired: the call returns. *)
return_check ==
    /\ check = "loop"
    /\ next_timeout # <<>> => TIME_LESS_THAN(start, next_timeout[1].time)
    /\ check' = "no"
    /\ start' = 0
    /\ UNCHANGED <<ms, next_timeout, tcp_timer_active, pcbs, due_time, lag, left>>

(* lwip_cyclic_timer sets itself again, after cyclic->handler(). *)
lwip_cyclic_timer(h) ==
    IF TIME_LESS_THAN((due_time + Interval[h]) % TimeMod, ms)
    THEN Set(ms + Interval[h], h, Interval[h])
    ELSE Set(due_time + Interval[h], h, left[h] + Interval[h])

(* tcpip_tcp_timer, after tcp_tmr(). *)
tcpip_tcp_timer ==
    IF pcbs THEN sys_timeout(Interval["tcp"], "tcp") /\ UNCHANGED tcp_timer_active
    ELSE tcp_timer_active' = FALSE /\ UNCHANGED <<next_timeout, left>>

(* The handler ends. *)
handled ==
    /\ check \in Timers
    /\ IF check = "tcp" THEN tcpip_tcp_timer
       ELSE lwip_cyclic_timer(check) /\ UNCHANGED tcp_timer_active
    /\ check' = "loop"
    /\ due_time' = 0
    /\ UNCHANGED <<ms, pcbs, start, lag>>

Pass ==
    /\ lag < MaxLag
    /\ lag' = lag + 1
    /\ ms' = (ms + 1) % TimeMod
    /\ left' = [h \in Timers |-> Max({left[h] - 1, -4 * MaxLag})]
    /\ UNCHANGED <<next_timeout, tcp_timer_active, pcbs, check, start, due_time>>

Call == sys_check_timeouts \/ expire \/ return_check \/ handled

TimeoutsNext == Register \/ Unregister \/ Call \/ Pass

(* Time passes and the loop goes on. *)
TimeoutsFairness == WF_timeoutVars(Pass) /\ WF_timeoutVars(Call)

TimeoutsSpec == TimeoutsInit /\ [][TimeoutsNext]_timeoutVars /\ TimeoutsFairness

-----------------------------------------------------------------------------
Entries(h) == Cardinality({i \in DOMAIN next_timeout : next_timeout[i].h = h})

(* Every timer that should run has one entry, on the list or about to be put
   there by its handler; so the pool of one entry per timer is enough. *)
OneEntryEach ==
    /\ \A h \in Cyclic : Entries(h) = IF check = h THEN 0 ELSE 1
    /\ Entries("tcp") = IF tcp_timer_active /\ check # "tcp" THEN 1 ELSE 0
    /\ pcbs => tcp_timer_active

(* The list is in the order in which the entries are due. *)
SoonestFirst ==
    \A i, j \in DOMAIN next_timeout :
        i < j => left[next_timeout[i].h] <= left[next_timeout[j].h]

(* A handler is called only when its time has come, and sys_check_timeouts
   returns only when every handler whose time had come at its call was called. *)
ServedInTime ==
    [][/\ expire => left[next_timeout[1].h] <= 0
       /\ return_check =>
            \A i \in DOMAIN next_timeout : left[next_timeout[i].h] > -lag]_timeoutVars

(* The handler of every cyclic timer is called again and again, the TCP
   timer's as long as there are control blocks. *)
TimersKeepRunning ==
    /\ \A h \in Cyclic : []<>(check = h)
    /\ []<>(check = "tcp" \/ ~pcbs)
=============================================================================
