------------------------------- MODULE Judger -------------------------------
(***************************************************************************)
(* kern/judger.cpp: the shared buffer, the caches that feed it, and judge, *)
(* which runs a program on regions of the buffer and remembers the result  *)
(* of the last request until the buffer changes, so that a request that is *)
(* sent again is not run again.                                            *)
(*                                                                         *)
(* Requests come in any order and any number of times here; DuckServer     *)
(* puts a client and a network around this module.  A byte of the buffer   *)
(* is a cell.  Of a program, only what it leaves in the regions counts:    *)
(* Program(e, i) stands for the output of ELF cell e on input cell i.      *)
(***************************************************************************)
EXTENDS Integers, Sequences, FiniteSets

CONSTANTS
    BufSize, Vals,      \* cells of the buffer and their values
    Digests,
    Word, KiB,          \* the number of values of a uint64_t, and 1024
    MaxTime,            \* MAX_TIME_LIMIT_NS
    MaxJudges           \* bound: judgements counted

VARIABLES
    buffer, judge_seq_num, judge_result, judge_result_cleared, n_judges,
    cache,      \* elf_cache and data_cache alike: [digest, data]
    call,       \* history: the last request
    reply,      \* the answer to it
    judged      \* history: the buffer when the last judgement ended

vars == <<buffer, judge_seq_num, judge_result, judge_result_cleared, n_judges,
          cache, call, reply, judged>>
judgeVars == <<judge_seq_num, judge_result, judge_result_cleared, n_judges, judged>>

Cells == 0 .. BufSize - 1
Zero == 0

NoSeq == Word - 1       \* -1ul

NoReply == [kind |-> "silent"]

Stored(d) == {o \in cache : o.digest = d}
Region(b) == b.off .. b.off + b.len - 1

(* What programs compute is not part of this code. *)
Program(e, i) == (e + i) % Cardinality(Vals)

-----------------------------------------------------------------------------
NotJudged == [error |-> "Not Judged", status |-> "none", stdout_size |-> 0]

(* Mutant: the flag is set, the sequence number stays. *)
clear_flag_only ==
    /\ judge_result_cleared' = TRUE
    /\ judge_result' = IF judge_result_cleared THEN judge_result ELSE NotJudged
    /\ UNCHANGED <<judge_seq_num, n_judges, judged>>

clear_judge_result ==
    /\ judge_result_cleared' = TRUE
    /\ judge_seq_num' = IF judge_result_cleared THEN judge_seq_num ELSE NoSeq
    /\ judge_result' = IF judge_result_cleared THEN judge_result ELSE NotJudged
    /\ UNCHANGED <<n_judges, judged>>

Init ==
    /\ buffer = [c \in Cells |-> Zero]
    /\ judge_seq_num = NoSeq
    /\ judge_result = NotJudged
    /\ judge_result_cleared = TRUE
    /\ n_judges = 0
    /\ cache = {}
    /\ call = [op |-> "none"]
    /\ reply = NoReply
    /\ judged = buffer

is_valid_buffer(b) == b.off < BufSize /\ b.len <= BufSize - b.off
check_overlap(b1, b2) == ~(b1.off + b1.len <= b2.off \/ b2.off + b2.len <= b1.off)

(* Nothing changes and nothing is sent. *)
Refuse == reply' = NoReply /\ UNCHANGED <<buffer, cache, judgeVars>>

Put(off, data) ==
    buffer' = [c \in Cells |-> IF c \in off .. off + Len(data) - 1 THEN data[c - off + 1] ELSE buffer[c]]
Get(off, len) == [k \in 1 .. len |-> buffer[off + k - 1]]

clear_buffer(m) ==
    IF is_valid_buffer(m)
    THEN /\ Put(m.off, [k \in 1 .. m.len |-> Zero])
         /\ clear_judge_result
         /\ reply' = [kind |-> "ok-clear-buffer", off |-> m.off, len |-> m.len]
         /\ UNCHANGED cache
    ELSE Refuse

read_buffer(m) ==
    IF is_valid_buffer(m)
    THEN /\ reply' = [kind |-> "ok-read-buffer", off |-> m.off, data |-> Get(m.off, m.len)]
         /\ UNCHANGED <<buffer, cache, judgeVars>>
    ELSE Refuse

write_buffer(m) ==
    IF is_valid_buffer([off |-> m.off, len |-> Len(m.data)])
    THEN /\ Put(m.off, m.data)
         /\ clear_judge_result
         /\ reply' = [kind |-> "ok-write-buffer", off |-> m.off, len |-> Len(m.data)]
         /\ UNCHANGED cache
    ELSE Refuse

copy_buffer(m) ==
    LET dst == [off |-> m.off, len |-> m.len]
        src == [off |-> m.src, len |-> m.len]
    IN  IF is_valid_buffer(dst) /\ is_valid_buffer(src) /\ ~check_overlap(dst, src)
        THEN /\ Put(m.off, Get(m.src, m.len))
             /\ clear_judge_result
             /\ reply' = [kind |-> "ok-copy-buffer", off |-> m.off, src |-> m.src, len |-> m.len]
             /\ UNCHANGED cache
        ELSE Refuse

compare_buffer(m) ==
    IF is_valid_buffer([off |-> m.off, len |-> m.len]) /\ is_valid_buffer([off |-> m.src, len |-> m.len])
    THEN /\ reply' = [kind |-> "ok-compare-buffer", off |-> m.off, src |-> m.src, len |-> m.len,
                      equal |-> Get(m.off, m.len) = Get(m.src, m.len)]
         /\ UNCHANGED <<buffer, cache, judgeVars>>
    ELSE Refuse

(* Which objects a cache gives up, and which it has no room for, is LruCache's
   matter; here any may go.  The offsets are not checked by the code: requests
   name regions of the buffer. *)
load_cache(m) ==
    \/ \E o \in Stored(m.digest) :
          /\ Len(o.data) = m.len
          /\ Put(m.off, o.data)
          /\ clear_judge_result
          /\ reply' = [kind |-> "ok-load-cache", off |-> m.off, len |-> m.len]
          /\ UNCHANGED cache
    \/ /\ \A o \in Stored(m.digest) : Len(o.data) # m.len
       /\ reply' = [kind |-> "fail-load-cache", off |-> m.off, len |-> m.len]
       /\ UNCHANGED <<buffer, cache, judgeVars>>

store_cache(m) ==
    /\ \/ /\ reply' = [kind |-> "ok-store-cache", off |-> m.off, len |-> m.len]
          /\ IF Stored(m.digest) # {} THEN UNCHANGED cache
             ELSE \E kept \in SUBSET cache :
                     cache' = kept \union {[digest |-> m.digest, data |-> Get(m.off, m.len)]}
       \/ /\ Stored(m.digest) = {}
          /\ reply' = [kind |-> "fail-store-cache", off |-> m.off, len |-> m.len]
          /\ UNCHANGED cache
    /\ UNCHANGED <<buffer, judgeVars>>

-----------------------------------------------------------------------------
buffers(req) == <<req.ELF, req.stdin, req.stdout, req.stderr, req.IB, req.OB>>

(* Mutant: each region is only compared with the one before it. *)
check_neighbours(b) ==
    \A i \in DOMAIN b : is_valid_buffer(b[i]) /\ (i > 1 => ~check_overlap(b[i], b[i - 1]))

check_buffers(b) ==
    \A i \in DOMAIN b : is_valid_buffer(b[i]) /\ \A j \in 1 .. i - 1 : ~check_overlap(b[i], b[j])

judge_reply(r) ==
    IF r.error # "none" THEN [kind |-> "ok-judge", error |-> r.error]
    ELSE [kind |-> "ok-judge", error |-> "none", status |-> r.status, stdout_size |-> r.stdout_size]

(* Mutant: a request judged before is dropped. *)
judge_again_silent(req) ==
    /\ req.seq_num = judge_seq_num
    /\ reply' = NoReply
    /\ UNCHANGED <<buffer, judgeVars>>

(* Mutant: a result is forgotten once it was sent again. *)
judge_again_forgets(req) ==
    /\ req.seq_num = judge_seq_num
    /\ reply' = judge_reply(judge_result)
    /\ judge_result' = NotJudged
    /\ UNCHANGED <<buffer, judge_seq_num, judge_result_cleared, n_judges, judged>>

(* The request judged last: its result is sent again. *)
judge_again(req) ==
    /\ req.seq_num = judge_seq_num
    /\ reply' = judge_reply(judge_result)
    /\ UNCHANGED <<buffer, judgeVars>>

(* Mutant: the sequence number is not remembered. *)
judge_begin_forgets(req) ==
    /\ req.seq_num # judge_seq_num
    /\ n_judges < MaxJudges
    /\ n_judges' = n_judges + 1
    /\ judge_result_cleared' = FALSE
    /\ UNCHANGED judge_seq_num

judge_begin(req) ==
    /\ req.seq_num # judge_seq_num
    /\ n_judges < MaxJudges
    /\ n_judges' = n_judges + 1
    /\ judge_result_cleared' = FALSE
    /\ judge_seq_num' = req.seq_num

(* The product is a uint64_t: the test sees the overflows whose remainder is
   smaller than the factor. *)
overflow(req) == (req.memory_hard_limit_kb * KiB) % Word < req.memory_hard_limit_kb

(* The checks in their order; ELF::load refuses what is no program. *)
refusal(req) ==
    IF overflow(req) \/ ~check_buffers(buffers(req)) THEN "Can't load ELF"
    ELSE IF req.time_limit_ns \notin 1 .. MaxTime THEN "Invalid time limit"
    ELSE IF \A c \in Region(req.ELF) : buffer[c] = Zero THEN "Can't load ELF"
    ELSE "none"

(* Only the error is set, the rest of the result is left from an earlier run. *)
judge_refused(req) ==
    /\ judge_begin(req)
    /\ refusal(req) # "none"
    /\ judge_result' = [judge_result EXCEPT !.error = refusal(req)]
    /\ reply' = judge_reply(judge_result')
    /\ judged' = buffer
    /\ UNCHANGED buffer

(* time_ns comes from counters that read_performance_counters no longer reads:
   one cycle, zero nanoseconds. *)
time_ns == 0

status(trap, req) ==
    IF time_ns > req.time_limit_ns \/ trap = "timer" THEN "Time Limit Exceeded"
    ELSE IF trap # "exit" THEN "Runtime Error" ELSE "Run Finished"

(* The program may stop anywhere in its output; OB is copied whole. *)
judge_run(req) ==
    /\ judge_begin(req)
    /\ refusal(req) = "none"
    /\ \E trap \in {"exit", "fault", "timer"}, wroteOB \in BOOLEAN,
          n \in 0 .. req.stdout.len, e \in 0 .. req.stderr.len :
          LET out == Program(buffer[req.ELF.off], buffer[req.stdin.off])
              ob(c) == IF wroteOB THEN out ELSE IF req.OB_need_clear THEN Zero ELSE buffer[c]
          IN  /\ trap = "exit" => n = req.stdout.len
              /\ judge_result' = [error |-> "none", status |-> status(trap, req), stdout_size |-> n]
              /\ buffer' = [c \in Cells |->
                     IF c \in Region(req.OB) THEN ob(c)
                     ELSE IF c \in Region([req.stdout EXCEPT !.len = n])
                             \union Region([req.stderr EXCEPT !.len = e]) THEN out
                     ELSE buffer[c]]
    /\ reply' = judge_reply(judge_result')
    /\ judged' = buffer'

judge(m) == (judge_again(m) \/ judge_refused(m) \/ judge_run(m)) /\ UNCHANGED cache

(* duck_packet_handle: the first process_ function that knows the request. *)
duck_packet_handle(m) ==
    /\ call' = m
    /\ \/ m.op = "clear-buffer" /\ clear_buffer(m)
       \/ m.op = "read-buffer" /\ read_buffer(m)
       \/ m.op = "write-buffer" /\ write_buffer(m)
       \/ m.op = "copy-buffer" /\ copy_buffer(m)
       \/ m.op = "compare-buffer" /\ compare_buffer(m)
       \/ m.op = "load-cache" /\ load_cache(m)
       \/ m.op = "store-cache" /\ store_cache(m)
       \/ m.op = "judge" /\ judge(m)

-----------------------------------------------------------------------------
(* The state of the judge stays in its ranges. *)
TypeOK ==
    /\ buffer \in [Cells -> Vals]
    /\ judge_seq_num \in 0 .. Word - 1
    /\ judge_result.error \in {"none", "Not Judged", "Can't load ELF", "Invalid time limit"}
    /\ judge_result_cleared \in BOOLEAN
    /\ n_judges \in 0 .. MaxJudges
    /\ cache \subseteq [digest : Digests, data : Seq(Vals)]

(* A remembered result is one of the buffer as it is: whatever changed a byte
   since the judgement (a clear, a write, a copy, a load from a cache) has
   made the judge forget it, across the shortcut judge_result_cleared takes. *)
ResultIsCurrent == TypeOK /\ (judge_seq_num # NoSeq => buffer = judged)

(* judge leaves the program and its inputs as they were: the regions it
   writes (stdout, stderr, OB) never meet the ones it reads. *)
InputsKept ==
    [][call'.op = "judge" =>
          \A c \in Region(call'.ELF) \union Region(call'.stdin) \union Region(call'.IB) :
              c \in Cells => buffer'[c] = buffer[c]]_vars
=============================================================================
