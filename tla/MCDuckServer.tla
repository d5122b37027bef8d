------------------------------ MODULE MCDuckServer ----------------------------
(***************************************************************************)
(* DuckServer, with requests for the client that sends them in any order.  *)
(* Cell 0 holds the program, cell 1 the input, cell 2 the output and cell  *)
(* 3 the OB region.                                                        *)
(***************************************************************************)
EXTENDS DuckServer

Judge(seq, time, kb, elf, ob) ==
    [op |-> "judge", seq_num |-> seq, time_limit_ns |-> time, memory_hard_limit_kb |-> kb,
     ELF |-> elf, stdin |-> At(1, 1), stdout |-> At(2, 1), stderr |-> At(2, 0),
     IB |-> At(3, 0), OB |-> ob, OB_need_clear |-> seq = 1]

JudgeRequests ==
    {Judge(seq, 1, 1, At(0, 1), At(3, 1)) : seq \in {1, 2}}
        \union {Judge(3, 0, 1, At(0, 1), At(3, 1)),     \* no time
                Judge(3, 1, 5, At(0, 1), At(3, 1)),     \* an overflow the check sees
                Judge(3, 1, 1, At(0, 1), At(0, 1)),     \* OB on the program
                Judge(3, 1, 1, At(0, 1), At(4, 0))}     \* OB outside

Requests ==
    JudgeRequests
        \union [op : {"clear-buffer", "read-buffer"}, off : {1, 3}, len : {0, 1, 2}]
        \union [op : {"write-buffer"}, off : {0, 1}, data : {<<v>> : v \in Vals}]
        \union [op : {"copy-buffer", "compare-buffer"}, off : {1}, src : {1, 2, 4}, len : {1}]
        \union [op : {"load-cache", "store-cache"}, off : {1}, len : {1, 2}, digest : Digests]
=============================================================================
