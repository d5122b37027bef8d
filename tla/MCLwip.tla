------------------------------- MODULE MCLwip -------------------------------
EXTENDS Lwip

(* The TCP timer, a cyclic timer as fast and one three times slower.       *)
Intervals == [tcp |-> 1, fine |-> 1, coarse |-> 3]

(* A datagram sent as two fragments, of which routers cut the first in two *)
(* ways.                                                                   *)
SentFragments == {<<0, 3>>, <<3, 4>>, <<0, 1>>, <<1, 3>>, <<1, 2>>, <<2, 3>>}
=============================================================================
