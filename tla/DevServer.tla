------------------------------ MODULE DevServer ------------------------------
(***************************************************************************)
(* page_server.py, the server the handler is developed against: no dump,   *)
(* one connection after the other, one call of recv for each request, and  *)
(* pages filled with a byte derived from the request.                      *)
(***************************************************************************)
EXTENDS PageWire

VARIABLE devUp     \* the server runs

Pattern(a) == (a + 1) % 255

\* accept is called only after the connection before has been dealt with.
DevAccept(c) ==
  /\ devUp
  /\ \A d \in Client : st[d] \notin Busy
  /\ backlog # <<>> /\ c = Head(backlog)
  /\ backlog' = Tail(backlog)
  /\ st' = [st EXCEPT ![c] = "recv"]
  /\ UNCHANGED <<client, asked, part, taken, pos, buf, request, page, answered, devUp>>

DevClose(c) ==
  /\ st' = [st EXCEPT ![c] = "done"]
  /\ Forget(c)
  /\ UNCHANGED <<answered, devUp>>

DevServe(c) ==
  /\ st' = [st EXCEPT ![c] = "send"]
  /\ request' = [request EXCEPT ![c] = Decoded(c, buf'[c].from, pos'[c])]
  /\ page' = [page EXCEPT ![c] = IF request'[c] = Garbage THEN Garbage ELSE Pattern(request'[c])]
  /\ UNCHANGED <<answered, devUp>>

\* recv(8) may return less than a request: the connection is then given up.
Complete(c) == buf'[c].len = ReqLen

DevReceive(c) ==
  /\ st[c] = "recv"
  /\ \E n \in 1 .. ReqLen : Take(c, n)
  /\ IF Complete(c) THEN DevServe(c) ELSE DevClose(c)

DevEnd(c) ==
  /\ st[c] = "recv" /\ StreamEnds(c)
  /\ DevClose(c)
  /\ UNCHANGED <<pos, buf>>

\* A reset is caught; a broken pipe is not and ends the server.
DevSend(c) ==
  /\ st[c] = "send"
  /\ \/ /\ Deliver(c)
        /\ st' = [st EXCEPT ![c] = "recv"]
        /\ Forget(c)
        /\ UNCHANGED <<pos, devUp>>
     \/ /\ client[c] = "gone"
        /\ DevClose(c)
        /\ UNCHANGED <<pos, buf>>
     \/ /\ client[c] = "gone"
        /\ devUp' = FALSE
        /\ st' = [d \in Client |-> IF client[d] = "out" THEN "none" ELSE "done"]
        /\ Forget(c)
        /\ UNCHANGED <<pos, buf, answered>>

DevStep ==
  \E c \in Client :
    \/ DevAccept(c)
    \/ (DevReceive(c) \/ DevEnd(c) \/ DevSend(c)) /\ UNCHANGED wireVars

=============================================================================
