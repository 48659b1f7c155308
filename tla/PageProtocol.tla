---------------------------- MODULE PageProtocol ----------------------------
(***************************************************************************)
(* What a page server promises: on every connection the answers come in    *)
(* the order of the requests, each the page its address stands for, until  *)
(* the connection is closed.                                               *)
(***************************************************************************)
EXTENDS Naturals, Sequences

CONSTANTS Clients, Requests

VARIABLES
  source,      \* the page every address stands for
  asked,       \* requests received on a connection
  answered,    \* pages sent on it
  closed       \* the connections that have been closed

vars == <<source, asked, answered, closed>>

Init ==
  /\ asked = [c \in Clients |-> <<>>]
  /\ answered = [c \in Clients |-> <<>>]
  /\ closed = {}

Ask(c, a) ==
  /\ asked' = [asked EXCEPT ![c] = Append(@, a)]
  /\ UNCHANGED <<source, answered, closed>>

Answer(c) ==
  /\ c \notin closed
  /\ Len(answered[c]) < Len(asked[c])
  /\ answered' = [answered EXCEPT ![c] = Append(@, source[asked[c][Len(@) + 1]])]
  /\ UNCHANGED <<source, asked, closed>>

Close ==
  /\ \E S \in SUBSET Clients : closed' = closed \cup S
  /\ UNCHANGED <<source, asked, answered>>

Next ==
  \/ \E c \in Clients : Answer(c) \/ \E a \in Requests : Ask(c, a)
  \/ Close

Spec == Init /\ [][Next]_vars

=============================================================================
