-------------------------- MODULE MCAdaptivePolicy --------------------------
(* The controller for TLC: windows on both sides of every threshold. *)
EXTENDS AdaptivePolicy

\* Duplicate rates of 0, 100 (nothing prefetched), 0, 47, 50, 79 and 80 percent.
Rates == {<<0, 0>>, <<0, 5>>, <<10, 0>>, <<10, 9>>, <<10, 10>>, <<10, 39>>, <<10, 40>>}

\* With a queue of 64: an eighth is 8, a quarter 16, a half 32, a thirty-second 2.
Depths == {1, 2, 8, 9, 16, 17, 32, 33}

\* Every rate at every depth, and one window that dropped a request.
SampleWindows ==
  {[prefetched |-> r[1], duplicates |-> r[2], dropped |-> 0, depth |-> q] :
     r \in Rates, q \in Depths}
  \cup {[prefetched |-> 10, duplicates |-> 0, dropped |-> 1, depth |-> 1]}

\* With nothing to look ahead to (-s 0 -S 0) among them, and more than the maximum.
StartConfigs ==
  {[enabled |-> e, seq |-> s, stride |-> t, cooldown |-> 0] :
     e \in BOOLEAN, s \in {0, 1, 4, 7}, t \in {0, 2}}

=============================================================================
