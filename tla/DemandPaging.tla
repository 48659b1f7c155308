---------------------------- MODULE DemandPaging ----------------------------
(***************************************************************************)
(* What post-copy restore promises the process, with the handler, its      *)
(* threads and its connections left out: a thread that touches a missing   *)
(* page waits until that page, and no other, holds the bytes of the dump.  *)
(* Once the service is degraded (the fault path lost its connection, or    *)
(* the handler has gone) zeros may take the place of those bytes.          *)
(*                                                                         *)
(* LazyHandler implements this specification for a process that makes no   *)
(* lifecycle calls.                                                        *)
(***************************************************************************)
CONSTANTS
  Pages,        \* the pages of the process
  Threads,      \* its threads
  Source(_),    \* page -> the bytes it had in the dump
  NoBytes,      \* the content of a missing page
  Zeros         \* the content of a zero page

VARIABLES
  memory,       \* page -> content
  waiting,      \* pairs <<thread, page>>: who waits for what
  degraded,     \* whether zeros may be served
  ended         \* the handler has gone, or the process has

dpVars == <<memory, waiting, degraded, ended>>

Init ==
  /\ memory = [p \in Pages |-> NoBytes]
  /\ waiting = {}
  /\ degraded = FALSE
  /\ ended = FALSE

\* A running thread touches a missing page.
Fault(t, p) ==
  /\ ~ ended
  /\ memory[p] = NoBytes
  /\ \A q \in Pages : <<t, q>> \notin waiting
  /\ waiting' = waiting \cup {<<t, p>>}
  /\ UNCHANGED <<memory, degraded, ended>>

\* A page arrives, wanted or not, and releases everyone who waits for it.
Arrive(p) ==
  /\ memory[p] = NoBytes
  /\ \/ memory' = [memory EXCEPT ![p] = Source(p)]
     \/ degraded /\ memory' = [memory EXCEPT ![p] = Zeros]
  /\ waiting' = waiting \ (Threads \X {p})
  /\ UNCHANGED <<degraded, ended>>

Degrade ==
  /\ degraded' = TRUE
  /\ UNCHANGED <<memory, waiting, ended>>

\* The service ends, or the process does: nobody waits any more, ever.
Release ==
  /\ ended' = TRUE
  /\ waiting' = {}
  /\ degraded' \in {degraded, TRUE}
  /\ UNCHANGED memory

Next ==
  \/ \E p \in Pages : Arrive(p) \/ \E t \in Threads : Fault(t, p)
  \/ Degrade
  \/ Release

Spec == Init /\ [][Next]_dpVars

=============================================================================
