-------------------------- MODULE MCBenchIteration --------------------------
(* Three pages and two memory maps for TLC: an area may grow while it is read. *)
EXTENDS BenchIteration

Area(s, e) == [start |-> s, end |-> e]
Pages == 0 .. 2
Idle == {2}
Maps == {{Area(0, 1), Area(2, 3)}, {Area(0, 2), Area(2, 3)}}

=============================================================================
