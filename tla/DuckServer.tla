------------------------------ MODULE DuckServer ------------------------------
(***************************************************************************)
(* kern/duck_server.cpp between a client and the judge: one request per    *)
(* UDP packet, one reply or none, and no state of its own.  The client,    *)
(* which is not part of the repository, works by stop and wait: it repeats *)
(* a request until a reply of its kind arrives.  The network loses and     *)
(* duplicates packets, and keeps their order as a wire does.               *)
(*                                                                         *)
(* A client may also send requests in any order, its own affair: then the  *)
(* network does not matter, and only the promises of Judger are left.      *)
(*                                                                         *)
(* In each round the client writes an input, has it judged, and reads the  *)
(* output.  Its sequence numbers come round again, as those of a client    *)
(* that was restarted do; with SeqNums = 1 they are all the same.          *)
(***************************************************************************)
EXTENDS Judger

CONSTANTS
    AnyRequests,    \* requests of a client that sends them in any order
    SeqNums,    \* how many sequence numbers the client uses
    Rounds,     \* bound: judgements the client asks for
    Cap,        \* bound: packets on their way in one direction
    MaxDups     \* bound: packets the network duplicates

VARIABLES
    waits,          \* the client works by stop and wait
    c2s, s2c,       \* packets to and from the server
    dups,           \* how many of them were duplicated
    round, step,    \* where the client is
    told, got       \* the last judgement and output it accepted

net == <<c2s, s2c, dups>>
client == <<waits, round, step, told, got>>
allVars == <<vars, net, client>>

At(off, len) == [off |-> off, len |-> len]
Input(r) == r % 2

Request ==
    CASE step = "elf" -> [op |-> "write-buffer", off |-> 0, data |-> <<1>>]
      [] step = "write" -> [op |-> "write-buffer", off |-> 1, data |-> <<Input(round)>>]
      [] step = "read" -> [op |-> "read-buffer", off |-> 2, len |-> 1]
      [] OTHER ->
           [op |-> "judge", seq_num |-> 1 + (round % SeqNums), time_limit_ns |-> 1, memory_hard_limit_kb |-> 1,
            ELF |-> At(0, 1), stdin |-> At(1, 1), stdout |-> At(2, 1), stderr |-> At(2, 0),
            IB |-> At(0, 0), OB |-> At(0, 0), OB_need_clear |-> FALSE]

(* Replies name the request and its region, but carry no sequence number. *)
Answers(r) ==
    CASE step = "elf" -> r.kind = "ok-write-buffer" /\ r.off = 0
      [] step = "write" -> r.kind = "ok-write-buffer" /\ r.off = 1
      [] step = "read" -> r.kind = "ok-read-buffer"
      [] OTHER -> r.kind = "ok-judge"

DInit ==
    /\ Init
    /\ waits \in BOOLEAN
    /\ c2s = <<>> /\ s2c = <<>> /\ dups = 0
    /\ round = 1 /\ step = "elf"
    /\ told = NoReply /\ got = NoReply

(* First transmission or retransmission. *)
Send ==
    /\ waits
    /\ round <= Rounds /\ Len(c2s) < Cap
    /\ c2s' = Append(c2s, Request)
    /\ UNCHANGED <<vars, s2c, dups, client>>

Receive ==
    /\ s2c # <<>>
    /\ s2c' = Tail(s2c)
    /\ IF round <= Rounds /\ Answers(Head(s2c))
       THEN /\ step' = CASE step = "elf" -> "write" [] step = "write" -> "judge"
                         [] step = "judge" -> "read" [] OTHER -> "write"
            /\ round' = IF step = "read" THEN round + 1 ELSE round
            /\ told' = IF step = "judge" THEN Head(s2c) ELSE told
            /\ got' = IF step = "read" THEN Head(s2c) ELSE got
       ELSE UNCHANGED <<round, step, told, got>>
    /\ UNCHANGED <<vars, waits, c2s, dups>>

Lose ==
    /\ \/ c2s # <<>> /\ c2s' = Tail(c2s) /\ UNCHANGED s2c
       \/ s2c # <<>> /\ s2c' = Tail(s2c) /\ UNCHANGED c2s
    /\ UNCHANGED <<vars, dups, client>>

Duplicate ==
    /\ dups < MaxDups /\ dups' = dups + 1
    /\ \/ c2s # <<>> /\ Len(c2s) < Cap /\ c2s' = <<Head(c2s)>> \o c2s /\ UNCHANGED s2c
       \/ s2c # <<>> /\ Len(s2c) < Cap /\ s2c' = <<Head(s2c)>> \o s2c /\ UNCHANGED c2s
    /\ UNCHANGED <<vars, client>>

(* udp_packet_handle: one packet, and the reply if there is one. *)
Handle ==
    /\ c2s # <<>> /\ Len(s2c) < Cap
    /\ duck_packet_handle(Head(c2s))
    /\ c2s' = Tail(c2s)
    /\ s2c' = IF reply' = NoReply THEN s2c ELSE Append(s2c, reply')
    /\ UNCHANGED <<dups, client>>

(* The same for a request of the other kind of client. *)
HandleAny ==
    /\ ~waits
    /\ \E m \in AnyRequests : duck_packet_handle(m)
    /\ UNCHANGED <<net, client>>

DNext == Send \/ Receive \/ Lose \/ Duplicate \/ Handle \/ HandleAny

(* The client keeps repeating its request, and the network does not lose
   every packet. *)
DSpec ==
    /\ DInit /\ [][DNext]_allVars
    /\ WF_allVars(Send) /\ SF_allVars(Handle) /\ SF_allVars(Receive)

-----------------------------------------------------------------------------
(* However often packets are repeated or lost, every request is judged once:
   the judge's statistics count the client's rounds. *)
JudgedOnce == waits => n_judges <= round

(* While the client reads the output, what it was told is what the judge
   holds for this round: no late reply of an earlier round was taken for it. *)
ToldIsThisRound ==
    waits /\ step = "read" /\ round <= Rounds => n_judges = round /\ told = judge_reply(judge_result)

(* The output the client reads in a round whose run finished is the program's
   on the input of that round. *)
OutputIsOfInput ==
    waits /\ step = "write" /\ round > 1 /\ told.error = "none" /\ told.status = "Run Finished" =>
        got.data = <<Program(1, Input(round - 1))>>

(* What the client has in hand at the end of a round is of that round, the
   verdict and the output. *)
ToldRight == ToldIsThisRound /\ OutputIsOfInput

(* A client that keeps repeating its request gets through all its rounds: the
   judge answers a request it has already judged, too. *)
ClientFinishes == waits ~> round > Rounds
=============================================================================
