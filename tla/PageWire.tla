------------------------------ MODULE PageWire ------------------------------
(***************************************************************************)
(* The TCP connections of a page server: every connection carries eight-   *)
(* byte requests one way and pages the other.  A stream is represented by  *)
(* positions in it: the requests a client has written completely, the      *)
(* bytes of the next one, and how far the server and the client have read. *)
(* Segments may split a request anywhere.                                  *)
(***************************************************************************)
EXTENDS Naturals, Sequences

CONSTANTS
  Client,        \* connections to the server
  Prompt,        \* those whose clients read their answers in due time
  Address,       \* addresses a client may ask for
  ReqLen,        \* bytes of a request, 8 in the code
  Batch,         \* requests a client sends before it reads the answers
  ReqCap,        \* requests and
  RespCap,       \* pages a connection buffers
  MaxRequests,   \* bound: requests of each connection
  Garbage,       \* a number spelled by bytes of two requests
  Nothing        \* no request, no page

ASSUME WireAssumption ==
  /\ Prompt \subseteq Client /\ Address \subseteq Nat
  /\ ReqLen \in Nat \ {0} /\ Batch \in Nat \ {0}
  /\ MaxRequests \in [Client -> Nat]
  /\ ReqCap \in Nat /\ Batch <= ReqCap
  /\ RespCap \in Nat \ {0}
  /\ Garbage \notin Nat /\ Nothing \notin Nat

VARIABLES
  client,        \* "out", "ask" (sending a batch), "await" (its answers), "gone"
  asked,         \* the requests a client has written completely
  part,          \* bytes of its next request already written
  taken,         \* how many answers the client has read
  backlog,       \* connections waiting to be accepted
  st,            \* where the server is with a connection
  pos,           \* the server's position in the stream of requests
  buf,           \* the bytes it has collected: where in a request they begin, how many
  request,       \* the request it has decoded
  page,          \* the answer it is about to send
  answered       \* the answers it has sent

wireVars == <<client, asked, part, taken, backlog>>
threadVars == <<st, pos, buf, request, page, answered>>

Busy == {"recv", "look", "seek", "read", "send"}

WireTypeOK ==
  /\ client \in [Client -> {"out", "ask", "await", "gone"}]
  /\ asked \in [Client -> Seq(Address)]
  /\ part \in [Client -> 0 .. ReqLen - 1]
  /\ taken \in [Client -> Nat]
  /\ backlog \in Seq(Client)
  /\ st \in [Client -> Busy \cup {"none", "done"}]
  /\ pos \in [Client -> [req : Nat, byte : 0 .. ReqLen - 1]]
  /\ buf \in [Client -> [from : 0 .. ReqLen - 1, len : 0 .. ReqLen]]
  /\ request \in [Client -> Address \cup {Garbage, Nothing}]

WireInit ==
  /\ client = [c \in Client |-> "out"]
  /\ asked = [c \in Client |-> <<>>]
  /\ part = [c \in Client |-> 0]
  /\ taken = [c \in Client |-> 0]
  /\ backlog = <<>>
  /\ st = [c \in Client |-> "none"]
  /\ pos = [c \in Client |-> [req |-> 0, byte |-> 0]]
  /\ buf = [c \in Client |-> [from |-> 0, len |-> 0]]
  /\ request = [c \in Client |-> Nothing]
  /\ page = [c \in Client |-> Nothing]
  /\ answered = [c \in Client |-> <<>>]

----------------------------------------------------------------------------
(* The clients.                                                            *)

Connect(c) ==
  /\ client[c] = "out"
  /\ client' = [client EXCEPT ![c] = "ask"]
  /\ backlog' = Append(backlog, c)
  /\ UNCHANGED <<asked, part, taken, threadVars>>

MayWrite(c) ==
  /\ client[c] = "ask"
  /\ Len(asked[c]) < MaxRequests[c]
  /\ Len(asked[c]) - taken[c] < Batch
  /\ Len(asked[c]) - pos[c].req < ReqCap

\* A request leaves in pieces: the last piece completes it.
WritePart(c) ==
  /\ MayWrite(c)
  /\ \E n \in part[c] + 1 .. ReqLen - 1 : part' = [part EXCEPT ![c] = n]
  /\ UNCHANGED <<client, asked, taken, backlog, threadVars>>

WriteRest(c) ==
  /\ MayWrite(c)
  /\ \E a \in Address : asked' = [asked EXCEPT ![c] = Append(@, a)]
  /\ part' = [part EXCEPT ![c] = 0]
  /\ UNCHANGED <<client, taken, backlog, threadVars>>

BatchSent(c) ==
  /\ client[c] = "ask" /\ part[c] = 0 /\ taken[c] < Len(asked[c])
  /\ client' = [client EXCEPT ![c] = "await"]
  /\ UNCHANGED <<asked, part, taken, backlog, threadVars>>

ReadAnswer(c) ==
  /\ client[c] = "await" /\ taken[c] < Len(answered[c])
  /\ taken' = [taken EXCEPT ![c] = @ + 1]
  /\ client' = [client EXCEPT ![c] = IF taken'[c] = Len(asked[c]) THEN "ask" ELSE @]
  /\ UNCHANGED <<asked, part, backlog, threadVars>>

\* The connection ends under a client that waits for an answer.
ReadEnd(c) ==
  /\ client[c] = "await" /\ taken[c] = Len(answered[c]) /\ st[c] = "done"
  /\ client' = [client EXCEPT ![c] = "gone"]
  /\ UNCHANGED <<asked, part, taken, backlog, threadVars>>

\* A client may go at any time, in the middle of a request or with answers unread.
Leave(c) ==
  /\ client[c] \in {"ask", "await"}
  /\ client' = [client EXCEPT ![c] = "gone"]
  /\ UNCHANGED <<asked, part, taken, backlog, threadVars>>

ClientReads(c) == ReadAnswer(c) \/ ReadEnd(c)
ClientStep(c) ==
  Connect(c) \/ WritePart(c) \/ WriteRest(c) \/ BatchSent(c) \/ ClientReads(c) \/ Leave(c)

----------------------------------------------------------------------------
(* What the socket calls of a server do.                                   *)

\* n bytes of the stream lie beyond the server's position.
Available(c, n) ==
  LET whole == Len(asked[c])
      to == pos[c].byte + n
  IN \/ pos[c].req = whole /\ to <= part[c]
     \/ pos[c].req < whole /\ to <= ReqLen
     \/ pos[c].req + 1 = whole /\ to <= ReqLen + part[c]
     \/ pos[c].req + 1 < whole

Advanced(c, n) ==
  IF pos[c].byte + n < ReqLen THEN [pos[c] EXCEPT !.byte = @ + n]
  ELSE [req |-> pos[c].req + 1, byte |-> pos[c].byte + n - ReqLen]

\* The number that ReqLen bytes ending at p spell, if they began inside a request.
Decoded(c, from, p) == IF from = 0 THEN asked[c][p.req] ELSE Garbage

\* recv returned n bytes.
Take(c, n) ==
  /\ Available(c, n)
  /\ pos' = [pos EXCEPT ![c] = Advanced(c, n)]
  /\ buf' = [buf EXCEPT ![c] = [from |-> IF @.len = 0 THEN pos[c].byte ELSE @.from,
                                len |-> @.len + n]]

\* recv has nothing more to return, or reports that the client reset the connection.
StreamEnds(c) == client[c] = "gone"

\* sendall returns once the connection's buffer takes the page.
Deliver(c) ==
  /\ client[c] = "gone" \/ Len(answered[c]) - taken[c] < RespCap
  /\ answered' = [answered EXCEPT ![c] = Append(@, page[c])]
  /\ buf' = [buf EXCEPT ![c] = [from |-> 0, len |-> 0]]

\* Request and page are locals of one turn of the loop.
Forget(c) ==
  /\ request' = [request EXCEPT ![c] = Nothing]
  /\ page' = [page EXCEPT ![c] = Nothing]

\* The pages a client has been sent and has not read.
Unread(c) == Len(answered[c]) - taken[c]

=============================================================================
