------------------------------ MODULE AtomicSet ------------------------------
(***************************************************************************)
(* A set shared by threads, each of whose operations takes effect at one   *)
(* instant between its call and its return: what the handler expects of    *)
(* struct served_state.  An insertion may fail and leave the set alone.    *)
(***************************************************************************)
CONSTANTS
  Threads,
  Elements,
  Request(_)     \* the operations a thread may call on an element

VARIABLES
  members,       \* the set
  busy,          \* thread -> whether it is inside an operation
  request,       \* thread -> its operation: a record with fields op and addr
  answer         \* thread -> "none" until its operation has taken effect

asVars == <<members, busy, request, answer>>

Init ==
  /\ members = {}
  /\ busy = [t \in Threads |-> FALSE]
  /\ request \in [Threads -> UNION {Request(e) : e \in Elements}]
  /\ answer = [t \in Threads |-> "none"]

Call(t, r) ==
  /\ ~ busy[t]
  /\ busy' = [busy EXCEPT ![t] = TRUE]
  /\ request' = [request EXCEPT ![t] = r]
  /\ answer' = [answer EXCEPT ![t] = "none"]
  /\ UNCHANGED members

\* The instant at which a look-up is answered.
Look(t) ==
  /\ busy[t] /\ answer[t] = "none"
  /\ request[t].op = "contains"
  /\ answer' = [answer EXCEPT ![t] = IF request[t].addr \in members THEN "yes" ELSE "no"]
  /\ UNCHANGED <<members, busy, request>>

\* The instant at which an element is a member, or is refused.
Insert(t) ==
  /\ busy[t] /\ answer[t] = "none"
  /\ request[t].op = "insert"
  /\ \/ /\ members' = members \cup {request[t].addr}
        /\ answer' = [answer EXCEPT ![t] = "yes"]
     \/ /\ answer' = [answer EXCEPT ![t] = "no"]
        /\ UNCHANGED members
  /\ UNCHANGED <<busy, request>>

Return(t) ==
  /\ busy[t] /\ answer[t] # "none"
  /\ busy' = [busy EXCEPT ![t] = FALSE]
  /\ UNCHANGED <<members, request, answer>>

Next ==
  \E t \in Threads :
    \/ \E e \in Elements : \E r \in Request(e) : Call(t, r)
    \/ Look(t) \/ Insert(t) \/ Return(t)

Spec == Init /\ [][Next]_asVars

=============================================================================
