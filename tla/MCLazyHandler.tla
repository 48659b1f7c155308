--------------------------- MODULE MCLazyHandler ---------------------------
(* A small instance of LazyHandler for TLC. *)
EXTENDS LazyHandler, TLC

CONSTANTS t1, t2

Threads == {t1, t2}
Symmetry == Permutations(Threads)

\* Page 0 is never mapped; page 4 lies past the registered area.
LazyPages == {1, 2, 3}
ImagePages == {1, 2}
HotFile == <<3, 1>>
NoFile == <<>>
NoPages == {}
NoActor == {}
OnlyEager == {"eager"}
FaultAndPrefetch == {"main", "worker"}

\* The same with two registered pages.
FewPages == {1, 2}
FewImagePages == {1}
PrefetchedImagePage == {2}
OnePage == {1}
OtherPage == {2}

SequentialConfig == [enabled |-> TRUE, seq |-> 2, stride |-> 1, cooldown |-> 0]

\* One page ahead.
OneAheadConfig == [enabled |-> TRUE, seq |-> 1, stride |-> 1, cooldown |-> 0]

=============================================================================
