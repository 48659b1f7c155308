---------------------------- MODULE MCPageServers ----------------------------
(* Small dumps and two connections for TLC; a page is two bytes. *)
EXTENDS PageServers

CONSTANTS c1, c2

Connections == {c1, c2}
PromptOnes == {c1}

E(v, n, inherited, place) == [vaddr |-> v, nr |-> n, parent |-> inherited, at |-> place]

\* A page left to the parent dump between two stored entries; the file is cut short.
Incremental ==
  [maps |-> << [pages |-> "p1", entries |->
                 <<E(2, 2, FALSE, 0), E(6, 1, TRUE, 4), E(8, 1, FALSE, 4)>>] >>,
   size |-> [f \in {"p1"} |-> 5]]

\* Three processes: the first one's pages file is missing, the others share address 4.
Family ==
  [maps |-> << [pages |-> "p0", entries |-> <<E(2, 1, FALSE, 0)>>],
               [pages |-> "p1", entries |-> <<E(4, 2, FALSE, 0)>>],
               [pages |-> "p2", entries |-> <<E(4, 1, FALSE, 0)>>] >>,
   size |-> [f \in {"p1", "p2"} |-> 4]]

NoImages == [maps |-> <<>>, size |-> [f \in {} |-> 0]]

Dumps == {Incremental, Family, NoImages}
\* One request is enough to be in the way of the other connection.
Requests == [c \in Connections |-> IF c \in PromptOnes THEN 2 ELSE 1]

\* Byte 5 lies in the page at 4, byte 8 at the start of the page at 8.
Addresses == {5, 8}

=============================================================================
