----------------------------- MODULE PageServers -----------------------------
(***************************************************************************)
(* The two page servers behind one protocol: criu_page_server.py or        *)
(* page_server.py serves a few connections whose clients send their        *)
(* requests in batches, in pieces, and may go at any time.                 *)
(***************************************************************************)
EXTENDS ImageServer, DevServer

VARIABLES
  program,     \* which of the two runs
  source       \* history: the page that every address stands for

given == <<image, program, source>>
vars == <<wireVars, threadVars, given, buildVars, fds, devUp>>

TypeOK ==
  /\ WireTypeOK
  /\ image \in Dump /\ program \in {"criu", "dev"} /\ devUp \in BOOLEAN
  /\ phase \in {"build", "listen", "exited"}
  /\ \A c \in Client : Unread(c) \in 0 .. MaxRequests[c]

Init ==
  /\ WireInit
  /\ \/ program = "criu" /\ image \in Dump /\ devUp = FALSE
     \/ program = "dev" /\ image = (CHOOSE d \in Dump : TRUE) /\ devUp = TRUE
  /\ phase = "build" /\ pageMap = [p \in {} |-> <<>>]
  /\ fileNo = 1 /\ entryNo = 1 /\ offset = 0
  /\ fds = [c \in Client |-> NoFiles]
  /\ source = [a \in Address |-> IF program = "criu" THEN DumpPage(a) ELSE Pattern(a)]

\* A connection to a server that does not listen is refused.
Listening == IF program = "criu" THEN phase = "listen" ELSE devUp

ClientActs(c) ==
  /\ client[c] = "out" => Listening
  /\ ClientStep(c)
  /\ UNCHANGED <<given, buildVars, fds, devUp>>

ImageServes == program = "criu" /\ ImageStep /\ UNCHANGED <<devUp, program, source>>
DevServes == program = "dev" /\ DevStep /\ UNCHANGED <<given, buildVars, fds>>

\* Every client has gone or is refused.
Quiet ==
  /\ \A c \in Client : client[c] = "gone" \/ (client[c] = "out" /\ ~ Listening)
  /\ UNCHANGED vars

Next == (\E c \in Client : ClientActs(c)) \/ ImageServes \/ DevServes \/ Quiet

Spec == Init /\ [][Next]_vars

(***************************************************************************)
(* The image server's threads run, and its main thread builds the map and  *)
(* accepts; a prompt client reads the answers it waits for.  Other clients *)
(* may stop reading, or stop in the middle of a request, and stay          *)
(* connected for ever.                                                     *)
(***************************************************************************)
Fairness ==
  /\ WF_vars(ImageServes /\ Build)
  /\ \A c \in Client :
       /\ WF_vars(ImageServes /\ Accept(c))
       /\ WF_vars(ImageServes /\ ThreadStep(c))
       /\ c \in Prompt => WF_vars(ClientActs(c) /\ ClientReads(c))

FairSpec == Spec /\ Fairness

(***************************************************************************)
(* Every connection is answered in the order of its requests, each request *)
(* with the page of its address, however the stream is cut into pieces,    *)
(* whatever other connections do, and whoever goes away.                   *)
(***************************************************************************)
Protocol == INSTANCE PageProtocol WITH
  Clients <- Client, Requests <- Address,
  closed <- {c \in Client : st[c] = "done"}

ImplementsProtocol == Protocol!Spec

(***************************************************************************)
(* A prompt client of the image server that has sent a batch gets all of   *)
(* its answers (or the end of its connection): no other client, neither    *)
(* one that never reads nor one that stops in the middle of a request,     *)
(* holds it up, and the buffers never make client and server wait for each *)
(* other (docstring, lines 9-10).                                          *)
(***************************************************************************)
BatchAnswered ==
  \A c \in Prompt : program = "criu" /\ client[c] = "await" ~> client[c] \in {"ask", "gone"}

=============================================================================
