----------------------------- MODULE PageFetch -----------------------------
(***************************************************************************)
(* What the handler's three threads share: the set of served pages, one    *)
(* TCP connection each to the page server, and the pipelined fetch         *)
(* (pipeline_fetch_install, and the copy of its loops that                 *)
(* eager_fetch_thread holds): send every request, then receive and install *)
(* the answers in order, recording each installed page as served.          *)
(*                                                                         *)
(* The page server answers the requests of a connection in order, from a   *)
(* page map that never changes, so a connection is the sequence of its     *)
(* unanswered requests and an answer is computed when it is received.      *)
(***************************************************************************)
EXTENDS UserFault, Sequences

CONSTANT MayBreak          \* the threads whose connection may fail

\* "main" runs handle_faults, "worker" async_prefetch_thread and "eager"
\* eager_fetch_thread; each names its own connection.
Actor == {"main", "worker", "eager"}

ASSUME BreakAssumption == MayBreak \subseteq Actor

VARIABLES
  served,     \* struct served_state: pages recorded as installed
  up,         \* actor -> its connection works
  sent,       \* actor -> requests the server has not answered, oldest first
  todo,       \* actor -> targets still to be received, oldest first
  pc          \* actor -> where its thread is

fetchVars == <<served, up, sent, todo, pc>>

FetchPC == {"send", "recv", "record", "fetched", "failed"}

PFTypeOK ==
  /\ served \subseteq Page
  /\ up \in [Actor -> BOOLEAN]
  /\ sent \in [Actor -> Seq(Page)]
  /\ todo \in [Actor -> Seq(Page)]

Goto(a, label) == pc' = [pc EXCEPT ![a] = label]

\* handle_client: the page of the image, or zeros.
Reply(p) == IF p \in Image THEN p ELSE Zero

----------------------------------------------------------------------------
\* connect_page_server, at the start of the two helper threads.
Connect(a, next) ==
  /\ pc[a] = "connect"
  /\ \/ /\ up' = [up EXCEPT ![a] = TRUE]
        /\ Goto(a, next)
     \/ /\ a \in MayBreak
        /\ UNCHANGED up
        /\ Goto(a, "failed")
  /\ UNCHANGED <<ufVars, served, sent, todo>>

\* The server or the network ends a connection; nothing reconnects.
Break(a) ==
  /\ a \in MayBreak
  /\ up[a]
  /\ up' = [up EXCEPT ![a] = FALSE]
  /\ UNCHANGED <<ufVars, served, sent, todo, pc>>

\* Mutant of FetchSend: a page counts as served once it has been asked for.
FetchSendRecords(a) ==
  /\ pc[a] = "send"
  /\ up[a]
  /\ sent' = [sent EXCEPT ![a] = @ \o todo[a]]
  /\ served' = served \cup {todo[a][i] : i \in DOMAIN todo[a]}
  /\ Goto(a, "recv")
  /\ UNCHANGED <<ufVars, up, todo>>

\* Send all requests; they queue up behind whatever is still unanswered.
FetchSend(a) ==
  /\ pc[a] = "send"
  /\ up[a]
  /\ sent' = [sent EXCEPT ![a] = @ \o todo[a]]
  /\ Goto(a, "recv")
  /\ UNCHANGED <<ufVars, served, up, todo>>

\* Mutant of AfterTarget: the receive loop stops after one target.
AfterTargetStops(a) == "fetched"

AfterTarget(a) == IF Len(todo[a]) = 1 THEN "fetched" ELSE "recv"

\* Mutant of Installs: install_page reports success whatever the ioctl says.
InstallsAlways(p) == TRUE

\* install_page returns 0: the page is copied, or was mapped already (EEXIST).
Installs(p) == ~ CopyRefused(p)

(***************************************************************************)
(* recv_exact then install_page: the oldest answer goes to the oldest      *)
(* target.  A refusal skips served_insert and is otherwise ignored.        *)
(***************************************************************************)
FetchInstall(a) ==
  /\ pc[a] = "recv"
  /\ up[a]
  /\ sent[a] # <<>>
  /\ todo[a] # <<>>
  /\ LET p == Head(todo[a]) IN
     /\ CopyEffect(p, Reply(Head(sent[a])))
     /\ IF Installs(p)
          THEN UNCHANGED todo /\ Goto(a, "record")
          ELSE todo' = [todo EXCEPT ![a] = Tail(@)] /\ Goto(a, AfterTarget(a))
  /\ sent' = [sent EXCEPT ![a] = Tail(@)]
  /\ UNCHANGED <<served, up>>

\* served_insert of the target just installed.
FetchRecord(a) ==
  /\ pc[a] = "record"
  /\ todo[a] # <<>>
  /\ served' = served \cup {Head(todo[a])}
  /\ todo' = [todo EXCEPT ![a] = Tail(@)]
  /\ Goto(a, AfterTarget(a))
  /\ UNCHANGED <<ufVars, up, sent>>

\* Mutant of FetchFail: a failed send or recv goes unnoticed, and the zeroed
\* buffer is installed as if the page had come.
FetchFailUnnoticed(a) ==
  /\ pc[a] \in {"send", "recv"}
  /\ ~ up[a]
  /\ CopyEffect(Head(todo[a]), Zero)
  /\ sent' = [sent EXCEPT ![a] = <<>>]
  /\ todo' = [todo EXCEPT ![a] = <<>>]
  /\ Goto(a, "fetched")
  /\ UNCHANGED <<served, up>>

\* A send or a recv fails: the rest of the batch is abandoned.
FetchFail(a) ==
  /\ pc[a] \in {"send", "recv"}
  /\ ~ up[a]
  /\ sent' = [sent EXCEPT ![a] = <<>>]
  /\ todo' = [todo EXCEPT ![a] = <<>>]
  /\ Goto(a, "failed")
  /\ UNCHANGED <<ufVars, served, up>>

Fetch(a) == FetchSend(a) \/ FetchInstall(a) \/ FetchRecord(a) \/ FetchFail(a)

=============================================================================
