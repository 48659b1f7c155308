--------------------------- MODULE PytorchWorkload ---------------------------
(***************************************************************************)
(* The benchmark's PyTorch process (eval/workloads/pytorch_infer.py) and   *)
(* the three files it shares with the harness.  It loads its model, waits  *)
(* for one trigger, answers it, and then only stays alive.  CRIU stops it  *)
(* wherever it is and goes on from there in the restored copy.             *)
(***************************************************************************)
EXTENDS Integers, FiniteSets

CONSTANTS
  Page,        \* the pages of its address space: 0 .. n
  IdlePages,   \* those the interpreter touches while it waits
  Layouts      \* the memory maps it may have: sets of areas [start, end]

VARIABLES
  wpc,         \* "load", "ready", "poll", "infer", "open", "write" or "idle"
  alive,       \* "run", "zombie" or "gone"
  seen,        \* history: the trigger it has acted on
  fd,          \* its result file: "closed", "linked" or "unlinked"
  readyFile,
  trigger,     \* who touched the trigger file: "none", "profile" or "probe"
  result,      \* "none", "empty" or the trigger the answer is for
  areas,       \* its memory map
  accessed     \* pages whose accessed bit is set

procVars == <<wpc, seen, fd>>
files == <<readyFile, trigger, result>>
memory == <<areas, accessed>>
workloadVars == <<procVars, alive, files, memory>>

PagesIn(a) == a.start .. a.end - 1
Mapped(map) == UNION {PagesIn(a) : a \in map}

LayoutAssumption ==
  /\ IsFiniteSet(Page) /\ Page = 0 .. Cardinality(Page) - 1
  /\ IdlePages \subseteq Page
  /\ Layouts \subseteq SUBSET [start : Page, end : Nat]
  /\ \A map \in Layouts :
       /\ IdlePages \subseteq Mapped(map) /\ Mapped(map) \subseteq Page
       /\ \A a \in map : a.start < a.end
       /\ \A a, b \in map : a # b => PagesIn(a) \cap PagesIn(b) = {}
ASSUME LayoutAssumption

Trigger == {"none", "profile", "probe"}

WorkloadTypeOK ==
  /\ wpc \in {"load", "ready", "poll", "infer", "open", "write", "idle"}
  /\ alive \in {"run", "zombie", "gone"} /\ seen \in Trigger
  /\ fd \in {"closed", "linked", "unlinked"}
  /\ readyFile \in BOOLEAN /\ trigger \in Trigger
  /\ result \in {"none", "empty", "profile", "probe"}
  /\ areas \in Layouts /\ accessed \subseteq Mapped(areas)

WorkloadInit ==
  /\ wpc = "load" /\ alive = "run" /\ seen = "none" /\ fd = "closed"
  /\ readyFile = FALSE /\ trigger = "none" /\ result = "none"
  /\ areas \in Layouts /\ accessed = Mapped(areas)

Goto(from, to) == alive = "run" /\ wpc = from /\ wpc' = to

\* Import torch, load the model and warm it with one forward pass.
Load == Goto("load", "ready") /\ UNCHANGED <<seen, fd, files, memory>>

SignalReady ==
  Goto("ready", "poll") /\ readyFile' = TRUE
  /\ UNCHANGED <<seen, fd, trigger, result, memory>>

\* os.path.exists(trigger_file), every 10 ms
SeeTrigger ==
  /\ trigger # "none"
  /\ Goto("poll", "infer") /\ seen' = trigger
  /\ UNCHANGED <<fd, files, memory>>

Infer == Goto("infer", "open") /\ UNCHANGED <<seen, fd, files, memory>>

\* open(.., "w") truncates; the answer stays in the process's buffer.
OpenResult ==
  Goto("open", "write") /\ result' = "empty" /\ fd' = "linked"
  /\ UNCHANGED <<seen, readyFile, trigger, memory>>

\* Closing writes the buffer, into a file that may have lost its name.
WriteResult ==
  /\ Goto("write", "idle") /\ fd' = "closed"
  /\ result' = IF fd = "linked" THEN seen ELSE result
  /\ UNCHANGED <<seen, readyFile, trigger, memory>>

WorkloadStep ==
  /\ Load \/ SignalReady \/ SeeTrigger \/ Infer \/ OpenResult \/ WriteResult
  /\ UNCHANGED alive

Computing == wpc \in {"load", "infer"}

\* It runs over its memory: all of it while it computes.
Touches(p) ==
  /\ alive = "run" /\ p \in Mapped(areas) /\ (Computing \/ p \in IdlePages)
  /\ accessed' = accessed \cup {p}
  /\ UNCHANGED <<procVars, alive, files, areas>>

\* It maps and unmaps memory while it computes.
Remaps ==
  /\ alive = "run" /\ Computing
  /\ \E map \in Layouts \ {areas} :
       areas' = map /\ accessed' = accessed \cap Mapped(map)
  /\ UNCHANGED <<procVars, alive, files>>

\* Out of memory, say; its parent reaps it a little later.
Dies == alive = "run" /\ alive' = "zombie" /\ UNCHANGED <<procVars, files, memory>>
Reaped == alive = "zombie" /\ alive' = "gone" /\ UNCHANGED <<procVars, files, memory>>

\* rm -f and touch by the harness; an open file lives on without its name.
RemoveResult ==
  /\ result' = "none"
  /\ fd' = IF fd = "linked" THEN "unlinked" ELSE fd
RemoveTrigger == trigger' = "none"
TouchTrigger(who) == trigger' = who

=============================================================================
