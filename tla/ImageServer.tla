----------------------------- MODULE ImageServer -----------------------------
(***************************************************************************)
(* criu_page_server.py: builds the map from addresses to places in the     *)
(* pages-*.img files of a dump, then serves every connection in a thread   *)
(* of its own, each with its own cache of open files.                      *)
(***************************************************************************)
EXTENDS PageWire

CONSTANTS
  PageSize,
  Dump,          \* the dumps the server may be started on
  Zero,          \* a page of zeros
  OpenMayFail    \* whether opening a pages file may fail after the start

VARIABLES
  image,         \* the dump: its pagemap files in sorted order, sizes of its pages files
  phase,         \* "build", "listen", "exited"
  pageMap,       \* address -> <<pages file, offset>>
  fileNo,        \* the pagemap file and
  entryNo,       \* the entry of it that comes next
  offset,        \* file_offset
  fds            \* fd_cache: connection -> open pages files with their positions

buildVars == <<phase, pageMap, fileNo, entryNo, offset>>

EntryPages(e) == {e.vaddr + k * PageSize : k \in 0 .. e.nr - 1}
StoredBytes(e) == IF e.parent THEN 0 ELSE e.nr * PageSize

(***************************************************************************)
(* CRIU writes the pages of a pagemap file's entries one after the other   *)
(* into its pages file (docstring, lines 51-54), so the pages of an entry  *)
(* begin where those of the entry before it end; "at" records that place.  *)
(* Pages an entry leaves to the parent dump are in neither.                *)
(***************************************************************************)
WellFormed(d) ==
  \A f \in DOMAIN d.maps :
    LET entries == d.maps[f].entries IN
    \A i \in DOMAIN entries :
      entries[i].at = IF i = 1 THEN 0 ELSE entries[i - 1].at + StoredBytes(entries[i - 1])

Entry == [vaddr : Nat, nr : Nat, parent : BOOLEAN, at : Nat]

ASSUME DumpAssumption ==
  /\ PageSize \in Nat \ {0}
  /\ OpenMayFail \in BOOLEAN
  /\ Dump # {}
  /\ \A d \in Dump :
       /\ DOMAIN d = {"maps", "size"}
       /\ \E File \in {DOMAIN d.size \cup {d.maps[f].pages : f \in DOMAIN d.maps}} :
            /\ d.maps \in Seq([pages : File, entries : Seq(Entry)])
            /\ d.size \in [DOMAIN d.size -> Nat]
       /\ WellFormed(d)

----------------------------------------------------------------------------
(* build_page_map                                                          *)

Map == image.maps[fileNo]
PagesExist == Map.pages \in DOMAIN image.size

NoPagemaps ==
  /\ image.maps = <<>>
  /\ phase' = "exited"
  /\ UNCHANGED <<pageMap, fileNo, entryNo, offset>>

NextFile ==
  /\ fileNo' = fileNo + 1 /\ entryNo' = 1 /\ offset' = 0
  /\ UNCHANGED <<phase, pageMap>>

SkipFile == fileNo <= Len(image.maps) /\ ~ PagesExist /\ NextFile

EndOfFile ==
  /\ fileNo <= Len(image.maps) /\ PagesExist
  /\ entryNo > Len(Map.entries)
  /\ NextFile

\* Where page p of the entry at hand lies.
Place(e, p) == <<Map.pages, offset + (p - e.vaddr)>>

\* Mutant: inherited pages take up room in the pages file.
InParentAdvances(e) ==
  e.parent /\ offset' = offset + e.nr * PageSize /\ UNCHANGED pageMap

InParent(e) == e.parent /\ UNCHANGED <<pageMap, offset>>

Stored(e) ==
  /\ ~ e.parent
  /\ pageMap' = [p \in DOMAIN pageMap \cup EntryPages(e) |->
                   IF p \in EntryPages(e) THEN Place(e, p) ELSE pageMap[p]]
  /\ offset' = offset + e.nr * PageSize

NextEntry ==
  /\ fileNo <= Len(image.maps) /\ PagesExist
  /\ entryNo <= Len(Map.entries)
  /\ InParent(Map.entries[entryNo]) \/ Stored(Map.entries[entryNo])
  /\ entryNo' = entryNo + 1
  /\ UNCHANGED <<phase, fileNo>>

Listen ==
  /\ image.maps # <<>> /\ fileNo > Len(image.maps)
  /\ phase' = "listen"
  /\ UNCHANGED <<pageMap, fileNo, entryNo, offset>>

Build ==
  /\ phase = "build"
  /\ NoPagemaps \/ SkipFile \/ NextEntry \/ EndOfFile \/ Listen
  /\ UNCHANGED <<image, fds, wireVars, threadVars>>

----------------------------------------------------------------------------
(* main's accept loop and handle_client                                    *)

NoFiles == [f \in {} |-> 0]

\* Mutant: one fd_cache for all threads.
CacheShared(c) == CHOOSE d \in Client : TRUE

\* Every accepted connection has its own thread and its own fd_cache.
CacheOf(c) == c

\* Mutant: main calls handle_client itself instead of starting a thread.
AcceptAlone == phase = "listen" /\ \A d \in Client : st[d] \notin Busy

MayAccept == phase = "listen"

Accept(c) ==
  /\ MayAccept
  /\ backlog # <<>> /\ c = Head(backlog)
  /\ backlog' = Tail(backlog)
  /\ st' = [st EXCEPT ![c] = "recv"]
  /\ fds' = [fds EXCEPT ![c] = NoFiles]
  /\ UNCHANGED <<client, asked, part, taken, pos, buf, request, page, answered>>

\* The finally clause: the connection is closed, and the files of its cache.
CloseFiles(c) == fds' = [fds EXCEPT ![CacheOf(c)] = NoFiles]

EndThread(c) ==
  /\ st' = [st EXCEPT ![c] = "done"]
  /\ CloseFiles(c)
  /\ Forget(c)
  /\ UNCHANGED <<pos, buf, answered>>

\* recv_exact: collects until the request is complete.
Receive(c) ==
  /\ st[c] = "recv"
  /\ \E n \in 1 .. ReqLen - buf[c].len :
       /\ Take(c, n)
       /\ IF buf'[c].len = ReqLen
            THEN /\ st' = [st EXCEPT ![c] = "look"]
                 /\ request' = [request EXCEPT ![c] = Decoded(c, buf'[c].from, pos'[c])]
            ELSE UNCHANGED <<st, request>>
  /\ UNCHANGED <<page, answered, fds>>

EndOfStream(c) == st[c] = "recv" /\ StreamEnds(c) /\ EndThread(c)

PageOf(a) == a - (a % PageSize)
Mapped(a) == a # Garbage /\ PageOf(a) \in DOMAIN pageMap

LookUp(c) ==
  /\ st[c] = "look"
  /\ IF Mapped(request[c])
       THEN /\ pageMap[PageOf(request[c])][1] \in DOMAIN fds[CacheOf(c)]
            /\ st' = [st EXCEPT ![c] = "seek"]
            /\ UNCHANGED page
       ELSE /\ page' = [page EXCEPT ![c] = Zero]
            /\ st' = [st EXCEPT ![c] = "send"]
  /\ UNCHANGED <<pos, buf, request, answered, fds>>

AtPosition(c, f, o) ==
  [fds EXCEPT ![CacheOf(c)] = [g \in DOMAIN @ \cup {f} |-> IF g = f THEN o ELSE @[g]]]

OpenFile(c) ==
  /\ st[c] = "look" /\ Mapped(request[c])
  /\ LET f == pageMap[PageOf(request[c])][1] IN
       /\ f \notin DOMAIN fds[CacheOf(c)]
       /\ \/ /\ fds' = AtPosition(c, f, 0)
             /\ st' = [st EXCEPT ![c] = "seek"]
             /\ UNCHANGED <<pos, buf, request, page, answered>>
          \/ OpenMayFail /\ EndThread(c)   \* an exception that nobody catches

Seek(c) ==
  /\ st[c] = "seek"
  /\ LET place == pageMap[PageOf(request[c])] IN fds' = AtPosition(c, place[1], place[2])
  /\ st' = [st EXCEPT ![c] = "read"]
  /\ UNCHANGED <<pos, buf, request, page, answered>>

\* PageSize bytes of a pages file; a short read is filled up with zeros.
Content(f, o) ==
  LET whole == o + PageSize <= image.size[f]
  IN IF image.size[f] <= o THEN Zero
     ELSE <<f, o, IF whole THEN PageSize ELSE image.size[f] - o>>

Read(c) ==
  /\ st[c] = "read"
  /\ LET f == pageMap[PageOf(request[c])][1]
         o == fds[CacheOf(c)][f]
     IN /\ f \in DOMAIN fds[CacheOf(c)]
        /\ page' = [page EXCEPT ![c] = Content(f, o)]
        /\ fds' = AtPosition(c, f, o + PageSize)
  /\ st' = [st EXCEPT ![c] = "send"]
  /\ UNCHANGED <<pos, buf, request, answered>>

Send(c) ==
  /\ st[c] = "send"
  /\ \/ /\ Deliver(c)
        /\ st' = [st EXCEPT ![c] = "recv"]
        /\ Forget(c)
        /\ UNCHANGED <<pos, fds>>
     \/ client[c] = "gone" /\ EndThread(c)   \* ConnectionResetError, BrokenPipeError

ThreadStep(c) ==
  /\ Receive(c) \/ EndOfStream(c) \/ LookUp(c) \/ OpenFile(c) \/ Seek(c) \/ Read(c) \/ Send(c)
  /\ UNCHANGED <<wireVars, image, buildVars>>

ImageStep ==
  \/ Build
  \/ \E c \in Client : (Accept(c) /\ UNCHANGED <<image, buildVars>>) \/ ThreadStep(c)

----------------------------------------------------------------------------
(* What the dump says of an address.                                       *)

Entries ==
  UNION {{<<f, i>> : i \in DOMAIN image.maps[f].entries} : f \in DOMAIN image.maps}
EntryAt(x) == image.maps[x[1]].entries[x[2]]
PagesOf(x) == image.maps[x[1]].pages

\* Entry x of the dump stores page p.
Stores(x, p) ==
  ~ EntryAt(x).parent /\ PagesOf(x) \in DOMAIN image.size /\ p \in EntryPages(EntryAt(x))

\* Where the dump has put page p of entry x.
TruePlace(x, p) == <<PagesOf(x), EntryAt(x).at + (p - EntryAt(x).vaddr)>>

NotAfter(x, y) == x[1] < y[1] \/ (x[1] = y[1] /\ x[2] <= y[2])

\* Of several entries for one address, of several processes in one dump, the last counts.
Latest(p) == CHOOSE x \in Entries :
  Stores(x, p) /\ \A y \in Entries : Stores(y, p) => NotAfter(y, x)

InDump(p) == \E x \in Entries : Stores(x, p)

DumpPage(a) ==
  LET p == PageOf(a)
      place == TruePlace(Latest(p), p)
  IN IF InDump(p) THEN Content(place[1], place[2]) ELSE Zero

\* The entries the builder has gone through.
Seen(x) == x[1] < fileNo \/ (x[1] = fileNo /\ x[2] < entryNo)

(***************************************************************************)
(* The map built so far is the dump's, as far as it has been read: every   *)
(* stored page is in it, with the place where CRIU put it, although the    *)
(* running offset is shared by stored and inherited entries and restarted  *)
(* for every file (lines 75-87).                                           *)
(***************************************************************************)
MapFaithful ==
  \A p \in DOMAIN pageMap \cup UNION {EntryPages(EntryAt(x)) : x \in Entries} :
    LET seen == {x \in Entries : Seen(x) /\ Stores(x, p)}
    IN /\ p \in DOMAIN pageMap <=> seen # {}
       /\ \A x \in seen : (\A y \in seen : NotAfter(y, x)) => pageMap[p] = TruePlace(x, p)

(***************************************************************************)
(* However a connection ends - end of stream, reset, broken pipe, or an    *)
(* exception handle_client does not catch - no file of its cache is left   *)
(* open (the finally clause, lines 138-142).                               *)
(***************************************************************************)
FilesClosed == \A c \in Client : st[c] = "done" => fds[c] = NoFiles

=============================================================================
