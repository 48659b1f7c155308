----------------------------- MODULE EagerFetch -----------------------------
(***************************************************************************)
(* The eager fetch thread (eager_fetch_thread): reads the hot-pages file   *)
(* front to back, skips what is served already, and fetches the rest in    *)
(* batches over a connection of its own.                                   *)
(***************************************************************************)
EXTENDS PageFetch

CONSTANTS
  HotPages,       \* the addresses of the hot-pages file, in order
  HotReadable,    \* the file can be opened
  EagerBatch      \* EAGER_BATCH_SIZE

ASSUME HotAssumption ==
  /\ HotPages \in Seq(Page)
  /\ HotReadable \in BOOLEAN
  /\ EagerBatch \in Nat \ {0}

VARIABLE hotPos   \* the record of the file to be read next

EagerPC == {"none", "connect", "scan", "done", "exited"} \cup FetchPC

EFTypeOK ==
  /\ hotPos \in 1 .. Len(HotPages) + 1
  /\ pc["eager"] \in EagerPC

EagerConnect ==
  /\ Connect("eager", IF HotReadable THEN "scan" ELSE "done")
  /\ UNCHANGED hotPos

\* One record: skip it, or add it to the batch; a full batch is fetched.
EagerScan ==
  /\ pc["eager"] = "scan"
  /\ hotPos <= Len(HotPages)
  /\ hotPos' = hotPos + 1
  /\ IF HotPages[hotPos] \in served
       THEN UNCHANGED <<todo, pc>>
       ELSE /\ todo' = [todo EXCEPT !["eager"] = Append(@, HotPages[hotPos])]
            /\ IF Len(todo["eager"]) + 1 = EagerBatch
                 THEN Goto("eager", "send")
                 ELSE UNCHANGED pc
  /\ UNCHANGED <<ufVars, served, up, sent>>

\* Mutant of EagerEndOfFile: the last, partial batch is forgotten.
EagerEndOfFileDrops ==
  /\ pc["eager"] = "scan"
  /\ hotPos = Len(HotPages) + 1
  /\ Goto("eager", "done")
  /\ UNCHANGED <<ufVars, served, up, sent, todo, hotPos>>

\* End of file: flush what is left of the batch.
EagerEndOfFile ==
  /\ pc["eager"] = "scan"
  /\ hotPos = Len(HotPages) + 1
  /\ Goto("eager", IF todo["eager"] = <<>> THEN "done" ELSE "send")
  /\ UNCHANGED <<ufVars, served, up, sent, todo, hotPos>>

EagerFetching == Fetch("eager") /\ UNCHANGED hotPos

\* The batch is installed: read on.
EagerNextBatch ==
  /\ pc["eager"] = "fetched"
  /\ Goto("eager", "scan")
  /\ UNCHANGED <<ufVars, served, up, sent, todo, hotPos>>

\* The label done: close the file and the connection, and return.
EagerDone ==
  /\ pc["eager"] \in {"failed", "done"}
  /\ up' = [up EXCEPT !["eager"] = FALSE]
  /\ Goto("eager", "exited")
  /\ UNCHANGED <<ufVars, served, sent, todo, hotPos>>

EagerStep ==
  EagerConnect \/ EagerScan \/ EagerEndOfFile \/ EagerFetching \/ EagerNextBatch \/ EagerDone

=============================================================================
