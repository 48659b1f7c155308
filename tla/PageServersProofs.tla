-------------------------- MODULE PageServersProofs --------------------------
(***************************************************************************)
(* Theorems about the page servers, for every dump, any number of clients, *)
(* any length of a request, and streams that are cut into pieces anywhere. *)
(***************************************************************************)
EXTENDS PageServers, TLAPS

----------------------------------------------------------------------------
(* Building the page map.                                                  *)

\* Entries of the dump that have been read and store page p.
SeenStores(p) == {x \in Entries : Seen(x) /\ Stores(x, p)}

IsLast(x, S) == x \in S /\ \A y \in S : NotAfter(y, x)

\* The map has exactly the pages seen, each at the place of its last entry.
MapOK ==
  \A p \in DOMAIN pageMap \cup UNION {EntryPages(EntryAt(x)) : x \in Entries} :
    /\ p \in DOMAIN pageMap <=> SeenStores(p) # {}
    /\ p \in DOMAIN pageMap =>
         \E x \in SeenStores(p) : IsLast(x, SeenStores(p)) /\ pageMap[p] = TruePlace(x, p)

\* The running offset is where the next entry's pages begin.
OffsetOK ==
  fileNo <= Len(image.maps) =>
    /\ entryNo <= Len(Map.entries) + 1
    /\ offset = IF entryNo = 1 THEN 0
                ELSE Map.entries[entryNo - 1].at + StoredBytes(Map.entries[entryNo - 1])

BuildInv ==
  /\ image \in Dump
  /\ phase \in {"build", "listen", "exited"}
  /\ fileNo \in Nat \ {0} /\ entryNo \in Nat \ {0}
  /\ phase = "listen" => fileNo > Len(image.maps)
  /\ OffsetOK /\ MapOK

LEMMA DumpFacts ==
  ASSUME NEW d \in Dump
  PROVE  /\ Len(d.maps) \in Nat /\ DOMAIN d.maps = 1 .. Len(d.maps)
         /\ \A f \in 1 .. Len(d.maps) :
              /\ Len(d.maps[f].entries) \in Nat
              /\ DOMAIN d.maps[f].entries = 1 .. Len(d.maps[f].entries)
              /\ \A i \in 1 .. Len(d.maps[f].entries) : d.maps[f].entries[i] \in Entry
         /\ WellFormed(d)
<1>1. PICK File : d.maps \in Seq([pages : File, entries : Seq(Entry)])
  BY DumpAssumption
<1>2. Len(d.maps) \in Nat /\ DOMAIN d.maps = 1 .. Len(d.maps)
  BY <1>1
<1>3. ASSUME NEW f \in 1 .. Len(d.maps) PROVE d.maps[f].entries \in Seq(Entry)
  <2> DEFINE Maps == [pages : File, entries : Seq(Entry)]
  <2>1. d.maps[f] \in Maps
    <3>1. d.maps \in Seq(Maps)
      BY <1>1
    <3> HIDE DEF Maps
    <3> QED
      BY <3>1
  <2> QED
    BY <2>1
<1>4. WellFormed(d)
  BY DumpAssumption
<1>5. ASSUME NEW f \in 1 .. Len(d.maps)
      PROVE  /\ Len(d.maps[f].entries) \in Nat
             /\ DOMAIN d.maps[f].entries = 1 .. Len(d.maps[f].entries)
             /\ \A i \in 1 .. Len(d.maps[f].entries) : d.maps[f].entries[i] \in Entry
  BY <1>3
<1> QED
  BY <1>2, <1>4, <1>5

LEMMA EntriesAre ==
  ASSUME image \in Dump
  PROVE  \A x : x \in Entries <=>
           \E f \in 1 .. Len(image.maps) : \E i \in 1 .. Len(image.maps[f].entries) : x = <<f, i>>
<1> DEFINE Of(f) == {<<f, i>> : i \in DOMAIN image.maps[f].entries}
<1>1. DOMAIN image.maps = 1 .. Len(image.maps)
  BY DumpFacts
<1>2. \A f \in 1 .. Len(image.maps) :
        DOMAIN image.maps[f].entries = 1 .. Len(image.maps[f].entries)
  BY DumpFacts
<1>3. \A x : x \in Entries <=> \E f \in DOMAIN image.maps : x \in Of(f)
  BY DEF Entries
<1>4. \A f : \A x : x \in Of(f) <=> \E i \in DOMAIN image.maps[f].entries : x = <<f, i>>
  OBVIOUS
<1> HIDE DEF Of
<1> QED
  BY <1>1, <1>2, <1>3, <1>4

\* Two entries that are not after each other are one.
LEMMA OrderIsStrict ==
  ASSUME image \in Dump, NEW x \in Entries, NEW y \in Entries, NotAfter(x, y), NotAfter(y, x)
  PROVE  x = y
<1>1. PICK f \in 1 .. Len(image.maps) : \E i \in 1 .. Len(image.maps[f].entries) : x = <<f, i>>
  BY EntriesAre
<1>2. PICK i \in 1 .. Len(image.maps[f].entries) : x = <<f, i>>
  BY <1>1
<1>3. PICK g \in 1 .. Len(image.maps) : \E j \in 1 .. Len(image.maps[g].entries) : y = <<g, j>>
  BY EntriesAre
<1>4. PICK j \in 1 .. Len(image.maps[g].entries) : y = <<g, j>>
  BY <1>3
<1>5. f \in Nat /\ g \in Nat /\ i \in Nat /\ j \in Nat
  BY <1>2, <1>4, DumpFacts
<1> QED
  BY <1>2, <1>4, <1>5 DEF NotAfter

LEMMA InitBuild == Init => BuildInv
<1> SUFFICES ASSUME Init PROVE BuildInv
  OBVIOUS
<1>0. image \in Dump
  BY DumpAssumption DEF Init
<1>1. OffsetOK
  BY <1>0, DumpFacts DEF Init, OffsetOK, Map
<1>2. \A p : SeenStores(p) = {}
  <2>1. \A x \in Entries : ~ Seen(x)
    BY <1>0, EntriesAre DEF Init, Seen
  <2> QED
    BY <2>1 DEF SeenStores
<1>3. MapOK
  BY <1>2 DEF Init, MapOK
<1> QED
  BY <1>0, <1>1, <1>3 DEF Init, BuildInv

----------------------------------------------------------------------------
(* Each step of the builder.                                               *)

LEMMA EntryFacts ==
  ASSUME BuildInv, fileNo <= Len(image.maps)
  PROVE  /\ fileNo \in 1 .. Len(image.maps) /\ Len(Map.entries) \in Nat
         /\ \A i \in 1 .. Len(Map.entries) :
              /\ Map.entries[i] \in Entry
              /\ Map.entries[i].at = IF i = 1 THEN 0
                   ELSE Map.entries[i - 1].at + StoredBytes(Map.entries[i - 1])
<1>1. image \in Dump /\ fileNo \in Nat \ {0}
  BY DEF BuildInv
<1>2. fileNo \in 1 .. Len(image.maps) /\ fileNo \in DOMAIN image.maps
  BY <1>1, DumpFacts
<1>3. /\ Len(Map.entries) \in Nat /\ DOMAIN Map.entries = 1 .. Len(Map.entries)
      /\ \A i \in 1 .. Len(Map.entries) : Map.entries[i] \in Entry
  BY <1>1, <1>2, DumpFacts DEF Map
<1>4. \A i \in DOMAIN Map.entries :
        Map.entries[i].at = IF i = 1 THEN 0
          ELSE Map.entries[i - 1].at + StoredBytes(Map.entries[i - 1])
  BY <1>1, <1>2, DumpFacts DEF WellFormed, Map
<1> QED
  BY <1>2, <1>3, <1>4

\* The map stays right while neither it nor the entries seen for any page change.
LEMMA MapOnlyGrowsSeen ==
  ASSUME MapOK, UNCHANGED <<image, pageMap>>, Entries' = Entries,
         \A x : EntryAt(x)' = EntryAt(x), \A p : SeenStores(p)' = SeenStores(p)
  PROVE  MapOK'
<1> DEFINE Known == DOMAIN pageMap \cup UNION {EntryPages(EntryAt(x)) : x \in Entries}
<1>1. Known' = Known
  BY DEF EntryPages
<1>2. \A x, p : TruePlace(x, p)' = TruePlace(x, p)
  BY DEF TruePlace, PagesOf
<1>3. \A p : \A x : IsLast(x, SeenStores(p))' <=> IsLast(x, SeenStores(p))
  BY DEF IsLast, NotAfter
<1>4. ASSUME NEW p \in Known
      PROVE  /\ p \in DOMAIN pageMap <=> SeenStores(p) # {}
             /\ p \in DOMAIN pageMap =>
                  \E x \in SeenStores(p) :
                    IsLast(x, SeenStores(p)) /\ pageMap[p] = TruePlace(x, p)
  BY DEF MapOK
<1>5. ASSUME NEW p \in Known'
      PROVE  /\ p \in DOMAIN pageMap' <=> SeenStores(p)' # {}
             /\ p \in DOMAIN pageMap' =>
                  \E x \in SeenStores(p)' :
                    IsLast(x, SeenStores(p))' /\ pageMap'[p] = TruePlace(x, p)'
  <2>1. p \in Known
    BY <1>1
  <2> HIDE DEF Known
  <2> QED
    BY <1>2, <1>3, <1>4, <2>1
<1> QED
  BY <1>5 DEF MapOK

\* A file that is skipped or done with adds no page.
LEMMA NextFileKeeps ==
  ASSUME BuildInv, fileNo <= Len(image.maps), NextFile, UNCHANGED image,
         ~ PagesExist \/ entryNo > Len(Map.entries)
  PROVE  BuildInv'
<1>1. fileNo \in 1 .. Len(image.maps) /\ Len(Map.entries) \in Nat /\ image \in Dump
  BY EntryFacts DEF BuildInv
<1>2. Entries' = Entries /\ \A x : EntryAt(x)' = EntryAt(x)
  BY DEF Entries, EntryAt
<1>3. \A x, p : Stores(x, p)' = Stores(x, p)
  BY <1>2 DEF Stores, PagesOf, EntryAt
<1>4. ASSUME NEW x \in Entries, NEW p, Stores(x, p) PROVE Seen(x)' <=> Seen(x)
  <2>1. PICK f \in 1 .. Len(image.maps) : \E i \in 1 .. Len(image.maps[f].entries) : x = <<f, i>>
    BY <1>1, EntriesAre
  <2>2. PICK i \in 1 .. Len(image.maps[f].entries) : x = <<f, i>>
    BY <2>1
  <2>3. f = fileNo => PagesExist
    BY <1>4, <2>2 DEF Stores, PagesOf, PagesExist, Map
  <2>4. i \in Nat /\ i >= 1 /\ fileNo' = fileNo + 1 /\ entryNo' = 1
    BY <1>1, DumpFacts DEF NextFile
  <2>5. f = fileNo => i < entryNo
    BY <1>1, <2>3, DumpFacts DEF Map, BuildInv
  <2> QED
    BY <1>1, <2>2, <2>4, <2>5 DEF Seen, BuildInv
<1>5. \A p : SeenStores(p)' = SeenStores(p)
  BY <1>2, <1>3, <1>4 DEF SeenStores
<1>6. MapOK'
  BY <1>2, <1>5, MapOnlyGrowsSeen DEF BuildInv, NextFile
<1>7. OffsetOK'
  <2> SUFFICES ASSUME fileNo' <= Len(image'.maps)
               PROVE  1 <= Len(image'.maps[fileNo'].entries) + 1
    BY DEF OffsetOK, NextFile, Map
  <2>1. fileNo' \in 1 .. Len(image'.maps)
    BY <1>1 DEF NextFile
  <2> QED
    BY <1>1, <2>1, DumpFacts
<1> QED
  BY <1>1, <1>6, <1>7 DEF BuildInv, NextFile

\* The entry at hand is the next one to be seen, and the last so far.
LEMMA NextSeen ==
  ASSUME BuildInv, fileNo <= Len(image.maps), entryNo <= Len(Map.entries),
         UNCHANGED <<image, fileNo>>, entryNo' = entryNo + 1
  PROVE  /\ <<fileNo, entryNo>> \in Entries
         /\ Map.entries[entryNo].at = offset
         /\ \A x \in Entries : Seen(x)' <=> Seen(x) \/ x = <<fileNo, entryNo>>
         /\ \A x \in Entries : Seen(x) => NotAfter(x, <<fileNo, entryNo>>)
<1>1. /\ fileNo \in 1 .. Len(image.maps) /\ Len(Map.entries) \in Nat /\ image \in Dump
      /\ entryNo \in 1 .. Len(Map.entries) /\ Len(image.maps) \in Nat
  BY EntryFacts, DumpFacts DEF BuildInv
<1>2. <<fileNo, entryNo>> \in Entries
  BY <1>1, EntriesAre DEF Map
<1>3. Map.entries[entryNo].at = offset
  BY <1>1, EntryFacts DEF BuildInv, OffsetOK
<1>4. ASSUME NEW x \in Entries
      PROVE  /\ Seen(x)' <=> Seen(x) \/ x = <<fileNo, entryNo>>
             /\ Seen(x) => NotAfter(x, <<fileNo, entryNo>>)
  <2>1. PICK f \in 1 .. Len(image.maps) : \E i \in 1 .. Len(image.maps[f].entries) : x = <<f, i>>
    BY <1>1, EntriesAre
  <2>2. PICK i \in 1 .. Len(image.maps[f].entries) : x = <<f, i>>
    BY <2>1
  <2>3. f \in Nat /\ i \in Nat /\ x[1] = f /\ x[2] = i
    BY <1>1, <2>2, DumpFacts
  <2>4. Seen(x)' <=> Seen(x) \/ x = <<fileNo, entryNo>>
    BY <1>1, <2>2, <2>3 DEF Seen
  <2>5. Seen(x) => NotAfter(x, <<fileNo, entryNo>>)
    BY <1>1, <2>3 DEF Seen, NotAfter
  <2> QED
    BY <2>4, <2>5
<1> QED
  BY <1>2, <1>3, <1>4

LEMMA InParentKeeps ==
  ASSUME BuildInv, fileNo <= Len(image.maps), PagesExist, entryNo <= Len(Map.entries),
         InParent(Map.entries[entryNo]), UNCHANGED <<image, fileNo, phase>>,
         entryNo' = entryNo + 1
  PROVE  BuildInv'
<1> DEFINE x0 == <<fileNo, entryNo>>
<1>1. /\ x0 \in Entries /\ Map.entries[entryNo].at = offset
      /\ \A x \in Entries : Seen(x)' <=> Seen(x) \/ x = x0
  BY NextSeen
<1>2. Entries' = Entries /\ \A x, p : Stores(x, p)' = Stores(x, p)
  BY DEF Entries, Stores, PagesOf, EntryAt
<1>3. \A p : ~ Stores(x0, p)
  BY DEF Stores, EntryAt, InParent, Map
<1>4. \A p : SeenStores(p)' = SeenStores(p)
  <2> HIDE DEF x0
  <2> QED
    BY <1>1, <1>2, <1>3 DEF SeenStores
<1>5. MapOK'
  <2>1. UNCHANGED pageMap /\ \A x : EntryAt(x)' = EntryAt(x)
    BY DEF InParent, EntryAt
  <2> QED
    BY <1>2, <1>4, <2>1, MapOnlyGrowsSeen DEF BuildInv
<1>6. /\ Map.entries[entryNo] \in Entry /\ StoredBytes(Map.entries[entryNo]) = 0
      /\ Len(Map.entries) \in Nat /\ entryNo \in Nat \ {0}
  BY EntryFacts DEF BuildInv, InParent, StoredBytes
<1>7. Map.entries[entryNo].at \in Nat
  BY <1>6 DEF Entry
<1>8. OffsetOK'
  BY <1>1, <1>6, <1>7 DEF OffsetOK, InParent, Map, StoredBytes
<1> QED
  BY <1>5, <1>8 DEF BuildInv

LEMMA StoredKeeps ==
  ASSUME BuildInv, fileNo <= Len(image.maps), PagesExist, entryNo <= Len(Map.entries),
         Stored(Map.entries[entryNo]), UNCHANGED <<image, fileNo, phase>>,
         entryNo' = entryNo + 1
  PROVE  BuildInv'
<1> DEFINE x0 == <<fileNo, entryNo>>
           e == Map.entries[entryNo]
<1>1. /\ x0 \in Entries /\ e.at = offset
      /\ \A x \in Entries : Seen(x)' <=> Seen(x) \/ x = x0
      /\ \A x \in Entries : Seen(x) => NotAfter(x, x0)
  BY NextSeen
<1>2. Entries' = Entries /\ \A x, p : Stores(x, p)' = Stores(x, p)
  BY DEF Entries, Stores, PagesOf, EntryAt
<1>3. \A p : Stores(x0, p) <=> p \in EntryPages(e)
  BY DEF Stores, EntryAt, PagesOf, PagesExist, Stored, Map
<1>4. \A p : TruePlace(x0, p) = Place(e, p)
  BY <1>1 DEF TruePlace, Place, EntryAt, PagesOf, Map
<1>5. NotAfter(x0, x0)
  BY DEF NotAfter, BuildInv
<1>6. \A p : SeenStores(p)' = IF p \in EntryPages(e) THEN SeenStores(p) \cup {x0}
                             ELSE SeenStores(p)
  <2> HIDE DEF x0, e
  <2> QED
    BY <1>1, <1>2, <1>3 DEF SeenStores
<1>7. pageMap' = [p \in DOMAIN pageMap \cup EntryPages(e) |->
                    IF p \in EntryPages(e) THEN Place(e, p) ELSE pageMap[p]]
  BY DEF Stored
<1>8. \A x, p : TruePlace(x, p)' = TruePlace(x, p) /\ EntryAt(x)' = EntryAt(x)
  BY DEF TruePlace, PagesOf, EntryAt
<1>9. EntryPages(e) \subseteq UNION {EntryPages(EntryAt(x)) : x \in Entries}
  <2>1. e = EntryAt(x0)
    BY DEF EntryAt, Map
  <2> HIDE DEF x0, e
  <2> QED
    BY <1>1, <2>1
<1>10. MapOK'
  <2> HIDE DEF x0, e
  <2> DEFINE All == UNION {EntryPages(EntryAt(x)) : x \in Entries}
  <2>1. (UNION {EntryPages(EntryAt(x)) : x \in Entries})' = All
    BY <1>2, <1>8 DEF EntryPages
  <2>2. SUFFICES ASSUME NEW p \in DOMAIN pageMap' \cup All
                 PROVE  /\ p \in DOMAIN pageMap' <=> SeenStores(p)' # {}
                        /\ p \in DOMAIN pageMap' =>
                             \E x \in SeenStores(p)' :
                               IsLast(x, SeenStores(p)') /\ pageMap'[p] = TruePlace(x, p)
    BY <1>8, <2>1 DEF MapOK, IsLast, NotAfter
  <2>3. CASE p \in EntryPages(e)
    <3>1. SeenStores(p)' = SeenStores(p) \cup {x0} /\ p \in DOMAIN pageMap'
          /\ pageMap'[p] = TruePlace(x0, p)
      BY <1>4, <1>6, <1>7, <2>3
    <3>2. IsLast(x0, SeenStores(p)')
      BY <1>1, <1>5, <3>1 DEF IsLast, SeenStores
    <3> QED
      BY <3>1, <3>2
  <2>4. CASE p \notin EntryPages(e)
    <3>1. /\ SeenStores(p)' = SeenStores(p) /\ (p \in DOMAIN pageMap' <=> p \in DOMAIN pageMap)
          /\ p \in DOMAIN pageMap => pageMap'[p] = pageMap[p]
      BY <1>6, <1>7, <2>4
    <3>2. p \in DOMAIN pageMap \cup All
      BY <1>7, <2>4
    <3> QED
      BY <3>1, <3>2 DEF BuildInv, MapOK
  <2> QED
    BY <2>3, <2>4
<1>11. e \in Entry /\ StoredBytes(e) = e.nr * PageSize
       /\ Len(Map.entries) \in Nat /\ entryNo \in Nat \ {0}
  BY EntryFacts DEF BuildInv, Stored, StoredBytes
<1>12. OffsetOK'
  <2>1. offset' = e.at + StoredBytes(e)
    BY <1>1, <1>11 DEF Stored
  <2>2. entryNo' # 1 /\ entryNo' - 1 = entryNo /\ entryNo' <= Len(Map.entries) + 1
    BY <1>11
  <2>3. Map' = Map /\ Map'.entries[entryNo' - 1] = e
    BY <2>2 DEF Map
  <2>4. StoredBytes(Map'.entries[entryNo' - 1]) = StoredBytes(e)
    BY <2>3
  <2> HIDE DEF e, x0
  <2> QED
    BY <2>1, <2>2, <2>3, <2>4 DEF OffsetOK
<1> QED
  BY <1>10, <1>12 DEF BuildInv

LEMMA SameMap ==
  ASSUME BuildInv, UNCHANGED <<image, pageMap, fileNo, entryNo, offset>>,
         phase' \in {"build", "listen", "exited"}, phase' = "listen" => fileNo > Len(image.maps)
  PROVE  BuildInv'
<1>1. Entries' = Entries /\ \A x : EntryAt(x)' = EntryAt(x) /\ (Seen(x)' <=> Seen(x))
  BY DEF Entries, EntryAt, Seen
<1>2. \A x, p : Stores(x, p)' = Stores(x, p) /\ TruePlace(x, p)' = TruePlace(x, p)
  BY DEF Stores, TruePlace, PagesOf, EntryAt
<1>3. \A p : SeenStores(p)' = SeenStores(p)
  BY <1>1, <1>2 DEF SeenStores
<1>4. MapOK'
  BY <1>1, <1>2, <1>3 DEF BuildInv, MapOK, IsLast
<1>5. OffsetOK'
  BY DEF BuildInv, OffsetOK, Map
<1> QED
  BY <1>4, <1>5 DEF BuildInv

LEMMA BuildKeeps ==
  ASSUME BuildInv, Build
  PROVE  BuildInv'
<1> USE DEF Build
<1>1. CASE NoPagemaps \/ Listen
  <2>1. image \in Dump /\ phase' \in {"build", "listen", "exited"}
        /\ (phase' = "listen" => fileNo > Len(image.maps))
    BY <1>1 DEF NoPagemaps, Listen, BuildInv
  <2> QED
    BY <1>1, <2>1, SameMap DEF NoPagemaps, Listen
<1>2. CASE SkipFile \/ EndOfFile
  BY <1>2, NextFileKeeps DEF SkipFile, EndOfFile
<1>3. CASE NextEntry
  BY <1>3, InParentKeeps, StoredKeeps DEF NextEntry
<1> QED
  BY <1>1, <1>2, <1>3

LEMMA SameBuild ==
  ASSUME BuildInv, UNCHANGED <<image, buildVars>>
  PROVE  BuildInv'
BY SameMap DEF buildVars, BuildInv

LEMMA NextBuild == BuildInv /\ [Next]_vars => BuildInv'
<1> SUFFICES ASSUME BuildInv, [Next]_vars PROVE BuildInv'
  OBVIOUS
<1>1. CASE ImageServes
  <2>1. Build \/ UNCHANGED <<image, buildVars>>
    BY <1>1 DEF ImageServes, ImageStep, ThreadStep
  <2> QED
    BY <2>1, BuildKeeps, SameBuild
<1>2. CASE ~ ImageServes
  <2>1. UNCHANGED <<image, buildVars>>
    BY <1>2 DEF Next, ClientActs, DevServes, Quiet, vars, given
  <2> QED
    BY <2>1, SameBuild
<1> QED
  BY <1>1, <1>2

LEMMA BuildSafety == Spec => []BuildInv
BY InitBuild, NextBuild, PTL DEF Spec

(***************************************************************************)
(* For every dump, the map has exactly the stored pages read so far, each  *)
(* at the place where CRIU put the last of them.                           *)
(***************************************************************************)
THEOREM MapSafety == Spec => []MapFaithful
<1>1. BuildInv => MapFaithful
  <2> SUFFICES ASSUME BuildInv,
                      NEW p \in DOMAIN pageMap \cup UNION {EntryPages(EntryAt(x)) : x \in Entries}
               PROVE  /\ p \in DOMAIN pageMap <=> SeenStores(p) # {}
                      /\ \A x \in SeenStores(p) : (\A y \in SeenStores(p) : NotAfter(y, x)) =>
                           pageMap[p] = TruePlace(x, p)
    BY DEF MapFaithful, SeenStores
  <2>1. p \in DOMAIN pageMap <=> SeenStores(p) # {}
    BY DEF BuildInv, MapOK
  <2>2. ASSUME NEW x \in SeenStores(p), \A y \in SeenStores(p) : NotAfter(y, x)
        PROVE  pageMap[p] = TruePlace(x, p)
    <3>1. PICK z \in SeenStores(p) : IsLast(z, SeenStores(p)) /\ pageMap[p] = TruePlace(z, p)
      BY <2>1 DEF BuildInv, MapOK
    <3>2. NotAfter(x, z) /\ NotAfter(z, x)
      BY <2>2, <3>1 DEF IsLast
    <3>3. x = z
      BY <3>2, OrderIsStrict DEF BuildInv, SeenStores
    <3> QED
      BY <3>1, <3>3
  <2> QED
    BY <2>1, <2>2
<1> QED
  BY <1>1, BuildSafety, PTL

----------------------------------------------------------------------------
(* Serving.                                                                *)

\* What the finished map says of an address is what the dump says.
LEMMA ServedFromDump ==
  ASSUME BuildInv, phase = "listen", NEW a \in Address
  PROVE  DumpPage(a) = IF Mapped(a) THEN Content(pageMap[PageOf(a)][1], pageMap[PageOf(a)][2])
                       ELSE Zero
<1> DEFINE p == PageOf(a)
<1>1. image \in Dump /\ fileNo \in Nat /\ fileNo > Len(image.maps) /\ Len(image.maps) \in Nat
  BY DumpFacts DEF BuildInv
<1>2. \A x \in Entries : Seen(x)
  BY <1>1, EntriesAre DEF Seen
<1>3. \A x : x \in SeenStores(p) <=> x \in Entries /\ Stores(x, p)
  BY <1>2 DEF SeenStores
<1>4. Mapped(a) <=> p \in DOMAIN pageMap
  BY WireAssumption DEF Mapped
<1>5. CASE p \in DOMAIN pageMap
  <2> HIDE DEF p
  <2>1. PICK z \in SeenStores(p) : IsLast(z, SeenStores(p)) /\ pageMap[p] = TruePlace(z, p)
    BY <1>5 DEF BuildInv, MapOK
  <2>2. z \in Entries /\ Stores(z, p) /\ \A y \in Entries : Stores(y, p) => NotAfter(y, z)
    BY <1>3, <2>1 DEF IsLast
  <2>3. Latest(p) \in Entries /\ Stores(Latest(p), p)
        /\ \A y \in Entries : Stores(y, p) => NotAfter(y, Latest(p))
    BY <2>2 DEF Latest
  <2>4. Latest(p) = z
    BY <1>1, <2>2, <2>3, OrderIsStrict
  <2>5. InDump(p)
    BY <2>2 DEF InDump
  <2> QED
    BY <1>4, <1>5, <2>1, <2>4, <2>5 DEF DumpPage, p
<1>6. CASE p \notin DOMAIN pageMap
  <2>1. ASSUME NEW x \in Entries, Stores(x, p) PROVE FALSE
    <3>1. p \in UNION {EntryPages(EntryAt(y)) : y \in Entries}
      BY <2>1 DEF Stores
    <3>2. SeenStores(p) # {}
      BY <1>3, <2>1
    <3> HIDE DEF p
    <3> QED
      BY <1>6, <3>1, <3>2 DEF BuildInv, MapOK
  <2>2. ~ InDump(p)
    BY <2>1 DEF InDump
  <2> QED
    BY <1>4, <1>6, <2>2 DEF DumpPage
<1> QED
  BY <1>5, <1>6

----------------------------------------------------------------------------
(* The connections: where the streams and the threads are.                 *)

Sent == {source[a] : a \in Address}

ServeTypes ==
  /\ client \in [Client -> {"out", "ask", "await", "gone"}]
  /\ asked \in [Client -> Seq(Address)] /\ answered \in [Client -> Seq(Sent)]
  /\ part \in [Client -> 0 .. ReqLen - 1]
  /\ backlog \in Seq(Client)
  /\ st \in [Client -> Busy \cup {"none", "done"}]
  /\ pos \in [Client -> [req : Nat, byte : Nat]]
  /\ buf \in [Client -> [from : Nat, len : Nat]]
  /\ request = [c \in Client |-> request[c]] /\ page = [c \in Client |-> page[c]]
  /\ fds = [c \in Client |-> fds[c]]
  /\ program \in {"criu", "dev"} /\ devUp \in BOOLEAN

\* A thread reads on from where its last answer's request ended, always at a request.
StreamOK(c) ==
  /\ st[c] = "none" => pos[c].req = 0 /\ pos[c].byte = 0 /\ buf[c].len = 0 /\ answered[c] = <<>>
  /\ st[c] = "recv" =>
       /\ pos[c].req = Len(answered[c]) /\ pos[c].byte = buf[c].len
       /\ buf[c].len < ReqLen /\ (buf[c].len > 0 => buf[c].from = 0 /\ program = "criu")
  /\ st[c] \in Busy \ {"recv"} =>
       /\ pos[c].req = Len(answered[c]) + 1 /\ pos[c].byte = 0
       /\ pos[c].req <= Len(asked[c]) /\ request[c] = asked[c][pos[c].req]
  /\ st[c] = "send" => page[c] = source[request[c]]
  /\ st[c] \in {"seek", "read"} => Mapped(request[c])
  /\ st[c] = "read" =>
       fds[c][pageMap[PageOf(request[c])][1]] = pageMap[PageOf(request[c])][2]
  /\ st[c] = "done" => fds[c] = NoFiles

\* Who waits to be accepted, and which program has which threads.
QueueOK ==
  /\ \A c \in Client : client[c] = "out" => st[c] = "none"
  /\ \A i \in 1 .. Len(backlog) : client[backlog[i]] # "out"
  /\ \A i, j \in 1 .. Len(backlog) : i # j => backlog[i] # backlog[j]
  /\ program = "criu" \/ devUp => \A i \in 1 .. Len(backlog) : st[backlog[i]] = "none"
  /\ program = "criu" => \A c \in Client : st[c] \in Busy => phase = "listen"
  /\ program = "dev" => \A c \in Client : st[c] \in {"none", "recv", "send", "done"} /\ fds[c] = NoFiles

SourceOK == source = [a \in Address |-> IF program = "criu" THEN DumpPage(a) ELSE Pattern(a)]

ServeInv == ServeTypes /\ (\A c \in Client : StreamOK(c)) /\ QueueOK /\ SourceOK

Implements == [Protocol!Next]_(Protocol!vars)

LEMMA InitServe == Init => ServeInv /\ Protocol!Init
<1> SUFFICES ASSUME Init PROVE ServeInv /\ Protocol!Init
  OBVIOUS
<1> USE DEF Init, WireInit
<1>1. ServeTypes
  <2>1. /\ asked \in [Client -> Seq(Address)] /\ answered \in [Client -> Seq(Sent)]
        /\ backlog \in Seq(Client)
    OBVIOUS
  <2>2. ReqLen \in Nat \ {0} /\ part \in [Client -> 0 .. ReqLen - 1]
    BY WireAssumption
  <2>3. pos \in [Client -> [req : Nat, byte : Nat]] /\ buf \in [Client -> [from : Nat, len : Nat]]
    OBVIOUS
  <2> QED
    BY <2>1, <2>2, <2>3 DEF ServeTypes
<1>2. \A c \in Client : StreamOK(c)
  BY DEF StreamOK, Busy
<1>3. QueueOK
  BY DEF QueueOK, Busy
<1>4. SourceOK
  BY DEF SourceOK
<1>5. Protocol!Init
  BY DEF Protocol!Init
<1> QED
  BY <1>1, <1>2, <1>3, <1>4, <1>5 DEF ServeInv

----------------------------------------------------------------------------
(* What a step of one thread leaves to prove.                              *)

\* Thread c alone has moved, from one place of its loop to v.
OnlyThread(c, v) ==
  /\ st[c] \in Busy /\ v \in Busy \cup {"done"} /\ st' = [st EXCEPT ![c] = v]
  /\ \A d \in Client \ {c} :
       /\ pos'[d] = pos[d] /\ buf'[d] = buf[d] /\ request'[d] = request[d]
       /\ page'[d] = page[d] /\ answered'[d] = answered[d] /\ fds'[d] = fds[d]
  /\ UNCHANGED <<wireVars, given, buildVars, devUp>>
  /\ program = "dev" => v \in {"recv", "send", "done"} /\ fds' = fds

\* The dump does not change, nor what an address stands for.
LEMMA SourceKept ==
  ASSUME SourceOK, UNCHANGED given
  PROVE  SourceOK'
<1>1. image' = image /\ program' = program /\ source' = source
  BY DEF given
<1>2. Entries' = Entries /\ \A x : EntryAt(x)' = EntryAt(x) /\ PagesOf(x)' = PagesOf(x)
  BY <1>1 DEF Entries, EntryAt, PagesOf
<1>3. \A x, p : Stores(x, p)' = Stores(x, p) /\ TruePlace(x, p)' = TruePlace(x, p)
  BY <1>1 DEF Stores, TruePlace, EntryAt, PagesOf
<1>4. \A p : InDump(p)' = InDump(p)
  BY <1>2, <1>3 DEF InDump
<1>5. ASSUME NEW p PROVE Latest(p)' = Latest(p)
  BY <1>2, <1>3, Zenon DEF Latest
<1>6. \A f, o : Content(f, o)' = Content(f, o)
  BY <1>1 DEF Content
<1>7. \A a : DumpPage(a)' = DumpPage(a)
  BY <1>3, <1>4, <1>5, <1>6 DEF DumpPage
<1> QED
  BY <1>1, <1>7 DEF SourceOK

LEMMA ThreadTypes ==
  ASSUME ServeTypes, NEW c \in Client, NEW v, OnlyThread(c, v),
         answered' \in [Client -> Seq(Sent)],
         pos' \in [Client -> [req : Nat, byte : Nat]], buf' \in [Client -> [from : Nat, len : Nat]],
         request' = [d \in Client |-> request'[d]], page' = [d \in Client |-> page'[d]],
         fds' = [d \in Client |-> fds'[d]]
  PROVE  ServeTypes'
<1>1. Sent' = Sent
  BY DEF OnlyThread, given, Sent
<1>2. st' \in [Client -> Busy \cup {"none", "done"}]
  BY DEF OnlyThread, ServeTypes
<1> QED
  BY <1>1, <1>2 DEF OnlyThread, ServeTypes, wireVars, given

LEMMA ThreadKeeps ==
  ASSUME ServeInv, NEW c \in Client, NEW v, OnlyThread(c, v), ServeTypes', StreamOK(c)'
  PROVE  ServeInv'
<1> USE DEF OnlyThread, wireVars, given, buildVars
<1>1. ASSUME NEW d \in Client, d # c PROVE StreamOK(d)'
  <2>1. StreamOK(d) /\ st'[d] = st[d]
    BY <1>1 DEF ServeInv, ServeTypes
  <2> QED
    BY <1>1, <2>1 DEF StreamOK, Mapped
<1>2. QueueOK'
  <2>1. \A d \in Client : st'[d] = IF d = c THEN v ELSE st[d]
    BY DEF ServeInv, ServeTypes
  <2>2. \A i \in 1 .. Len(backlog) : backlog[i] \in Client
    BY DEF ServeInv, ServeTypes
  <2>3. client[c] # "out" /\ (program = "criu" => phase = "listen")
    BY DEF ServeInv, QueueOK, Busy
  <2>4. program = "criu" \/ devUp => \A i \in 1 .. Len(backlog) : st[backlog[i]] = "none" /\ backlog[i] # c
    BY DEF ServeInv, QueueOK, Busy
  <2> QED
    BY <2>1, <2>2, <2>3, <2>4 DEF ServeInv, QueueOK
<1>3. SourceOK'
  BY SourceKept DEF ServeInv
<1> QED
  BY <1>1, <1>2, <1>3 DEF ServeInv

\* A thread that sends nothing goes on, or closes its connection.
LEMMA ThreadSilent ==
  ASSUME ServeInv, NEW c \in Client, NEW v, OnlyThread(c, v), UNCHANGED answered
  PROVE  Implements
<1> USE DEF OnlyThread, wireVars, given
<1>1. \A d \in Client : st'[d] = IF d = c THEN v ELSE st[d]
  BY DEF ServeInv, ServeTypes
<1>2. CASE v = "done"
  <2>1. {d \in Client : st'[d] = "done"} = {d \in Client : st[d] = "done"} \cup {c}
    BY <1>1, <1>2
  <2>2. Protocol!Close
    BY <2>1 DEF Protocol!Close
  <2> QED
    BY <2>2 DEF Implements, Protocol!Next
<1>3. CASE v # "done"
  <2>1. {d \in Client : st'[d] = "done"} = {d \in Client : st[d] = "done"}
    BY <1>1, <1>3 DEF Busy
  <2> QED
    BY <2>1 DEF Implements, Protocol!vars
<1> QED
  BY <1>2, <1>3

\* An answer is the page of the request next in line.
LEMMA ThreadAnswers ==
  ASSUME ServeInv, NEW c \in Client, OnlyThread(c, "recv"), st[c] = "send",
         answered' = [answered EXCEPT ![c] = Append(@, page[c])]
  PROVE  Implements
<1> USE DEF OnlyThread, wireVars, given
<1>1. \A d \in Client : st'[d] = "done" <=> st[d] = "done"
  BY DEF ServeInv, ServeTypes
<1>2. {d \in Client : st'[d] = "done"} = {d \in Client : st[d] = "done"}
  BY <1>1
<1>3. StreamOK(c) /\ answered \in [Client -> Seq(Sent)] /\ asked \in [Client -> Seq(Address)]
  BY DEF ServeInv, ServeTypes
<1>4. /\ Len(answered[c]) \in Nat /\ Len(asked[c]) \in Nat
      /\ Len(answered[c]) < Len(asked[c])
      /\ page[c] = source[asked[c][Len(answered[c]) + 1]]
  BY <1>3 DEF StreamOK, Busy
<1>5. Protocol!Answer(c)
  BY <1>2, <1>4 DEF Protocol!Answer
<1> QED
  BY <1>5 DEF Implements, Protocol!Next

----------------------------------------------------------------------------
(* The image server's threads.                                             *)

Frozen == UNCHANGED <<wireVars, given, buildVars, devUp>>

\* Bytes that arrive continue the request, or complete it at its own end.
LEMMA Received ==
  ASSUME ServeInv, NEW c \in Client, st[c] = "recv", NEW n \in 1 .. ReqLen - buf[c].len, Take(c, n)
  PROVE  /\ pos' \in [Client -> [req : Nat, byte : Nat]]
         /\ buf' \in [Client -> [from : Nat, len : Nat]]
         /\ \A d \in Client \ {c} : pos'[d] = pos[d] /\ buf'[d] = buf[d]
         /\ buf'[c].from = 0 /\ buf'[c].len = buf[c].len + n
         /\ buf'[c].len # ReqLen =>
              /\ pos'[c].req = Len(answered[c]) /\ pos'[c].byte = buf'[c].len
              /\ buf'[c].len < ReqLen
         /\ buf'[c].len = ReqLen =>
              /\ pos'[c].req = Len(answered[c]) + 1 /\ pos'[c].byte = 0
              /\ pos'[c].req <= Len(asked[c])
<1>1. /\ pos[c].req = Len(answered[c]) /\ pos[c].byte = buf[c].len /\ buf[c].len < ReqLen
      /\ buf[c].len > 0 => buf[c].from = 0
  BY DEF ServeInv, StreamOK
<1>2. /\ pos \in [Client -> [req : Nat, byte : Nat]] /\ buf \in [Client -> [from : Nat, len : Nat]]
      /\ part[c] \in 0 .. ReqLen - 1 /\ Len(asked[c]) \in Nat /\ Len(answered[c]) \in Nat
      /\ ReqLen \in Nat \ {0}
  <2>1. ServeTypes
    BY DEF ServeInv
  <2>2. Len(asked[c]) \in Nat /\ Len(answered[c]) \in Nat
    BY <2>1 DEF ServeTypes
  <2> QED
    BY <2>1, <2>2, WireAssumption DEF ServeTypes
<1>3. pos[c].byte \in Nat /\ pos[c].req \in Nat /\ buf[c].len \in Nat /\ n \in Nat /\ n > 0
  BY <1>2
<1>4. Advanced(c, n) = IF pos[c].byte + n < ReqLen
                       THEN [req |-> pos[c].req, byte |-> pos[c].byte + n]
                       ELSE [req |-> pos[c].req + 1, byte |-> 0]
  BY <1>1, <1>2, <1>3 DEF Advanced
<1>5. pos' = [pos EXCEPT ![c] = Advanced(c, n)]
  BY DEF Take
<1>6. buf' = [buf EXCEPT ![c] = [from |-> 0, len |-> buf[c].len + n]]
  <2>1. (IF buf[c].len = 0 THEN pos[c].byte ELSE buf[c].from) = 0
    BY <1>1, <1>3
  <2>2. buf' = [buf EXCEPT ![c] = [from |-> IF buf[c].len = 0 THEN pos[c].byte ELSE buf[c].from,
                                   len |-> buf[c].len + n]]
    BY DEF Take
  <2> QED
    BY <2>1, <2>2
<1>7. /\ pos'[c] = Advanced(c, n) /\ Advanced(c, n) \in [req : Nat, byte : Nat]
      /\ pos' \in [Client -> [req : Nat, byte : Nat]]
  BY <1>2, <1>3, <1>4, <1>5
<1>8. pos[c].byte + n = ReqLen => pos[c].req < Len(asked[c])
  <2>1. Available(c, n)
    BY DEF Take
  <2>2. part[c] \in Nat /\ part[c] < ReqLen
    BY <1>2
  <2> QED
    BY SMTT(40), <1>2, <1>3, <2>1, <2>2 DEF Available
<1>9. buf'[c].from = 0 /\ buf'[c].len = buf[c].len + n
      /\ buf' \in [Client -> [from : Nat, len : Nat]]
  BY <1>2, <1>3, <1>6
<1>10. \A d \in Client \ {c} : pos'[d] = pos[d] /\ buf'[d] = buf[d]
  BY <1>2, <1>5, <1>6
<1>11. buf'[c].len # ReqLen => pos[c].byte + n < ReqLen /\ buf'[c].len < ReqLen
  BY <1>1, <1>2, <1>3, <1>9
<1>12. buf'[c].len # ReqLen =>
         pos'[c].req = Len(answered[c]) /\ pos'[c].byte = buf'[c].len
  BY <1>1, <1>4, <1>7, <1>9, <1>11
<1>13. buf'[c].len = ReqLen => pos[c].byte + n = ReqLen
  BY <1>1, <1>9
<1>14. buf'[c].len = ReqLen =>
         pos'[c].req = Len(answered[c]) + 1 /\ pos'[c].byte = 0 /\ pos'[c].req <= Len(asked[c])
  BY <1>1, <1>2, <1>3, <1>4, <1>7, <1>8, <1>13
<1> QED
  BY <1>7, <1>9, <1>10, <1>11, <1>12, <1>14

LEMMA ReceiveServes ==
  ASSUME ServeInv, NEW c \in Client, program = "criu", Receive(c), Frozen
  PROVE  ServeInv' /\ Implements
<1> USE DEF Frozen
<1>1. st[c] = "recv" /\ st \in [Client -> Busy \cup {"none", "done"}]
  BY DEF Receive, ServeInv, ServeTypes
<1>2. PICK n \in 1 .. ReqLen - buf[c].len :
        /\ Take(c, n)
        /\ IF buf'[c].len = ReqLen
             THEN /\ st' = [st EXCEPT ![c] = "look"]
                  /\ request' = [request EXCEPT ![c] = Decoded(c, buf'[c].from, pos'[c])]
             ELSE UNCHANGED <<st, request>>
  BY DEF Receive
<1>3. UNCHANGED <<page, answered, fds>>
  BY DEF Receive
<1> DEFINE v == IF buf'[c].len = ReqLen THEN "look" ELSE "recv"
<1>4. st' = [st EXCEPT ![c] = v] /\ st'[c] = v
  BY <1>1, <1>2
<1>5. /\ request' = [d \in Client |-> request'[d]]
      /\ \A d \in Client \ {c} : request'[d] = request[d]
      /\ v = "look" => request'[c] = asked[c][pos'[c].req]
  BY <1>1, <1>2, Received DEF ServeInv, ServeTypes, Decoded
<1>6. OnlyThread(c, v)
  BY <1>1, <1>2, <1>3, <1>4, <1>5, Received DEF OnlyThread, Busy
<1>7. ServeTypes'
  BY <1>1, <1>2, <1>3, <1>5, <1>6, Received, ThreadTypes DEF ServeInv, ServeTypes
<1>8. StreamOK(c)'
  BY <1>1, <1>2, <1>3, <1>4, <1>5, Received DEF StreamOK, Busy, wireVars, given
<1> QED
  BY <1>3, <1>6, <1>7, <1>8, ThreadKeeps, ThreadSilent

LEMMA EndThreadServes ==
  ASSUME ServeInv, NEW c \in Client, program = "criu", st[c] \in Busy, EndThread(c), Frozen
  PROVE  ServeInv' /\ Implements
<1> USE DEF Frozen, EndThread, CloseFiles, CacheOf, Forget
<1>1. OnlyThread(c, "done")
  BY DEF OnlyThread, ServeInv, ServeTypes
<1>2. ServeTypes'
  BY <1>1, ThreadTypes DEF ServeInv, ServeTypes
<1>3. StreamOK(c)'
  BY DEF ServeInv, ServeTypes, StreamOK, Busy
<1> QED
  BY <1>1, <1>2, <1>3, ThreadKeeps, ThreadSilent

LEMMA RequestKnown ==
  ASSUME ServeInv, NEW c \in Client, program = "criu", st[c] \in Busy \ {"recv"}
  PROVE  /\ phase = "listen" /\ request[c] \in Address
         /\ source[request[c]] = DumpPage(request[c])
<1>1. /\ pos[c].req = Len(answered[c]) + 1 /\ pos[c].req <= Len(asked[c])
      /\ request[c] = asked[c][pos[c].req]
  BY DEF ServeInv, StreamOK
<1>2. asked[c] \in Seq(Address) /\ Len(answered[c]) \in Nat
  BY DEF ServeInv, ServeTypes
<1>3. request[c] \in Address
  BY <1>1, <1>2
<1>4. phase = "listen"
  BY DEF ServeInv, QueueOK
<1> QED
  BY <1>3, <1>4 DEF ServeInv, SourceOK

LEMMA LookUpServes ==
  ASSUME ServeInv, BuildInv, NEW c \in Client, program = "criu", LookUp(c), Frozen
  PROVE  ServeInv' /\ Implements
<1> USE DEF Frozen, LookUp, CacheOf
<1>1. /\ StreamOK(c) /\ phase = "listen" /\ request[c] \in Address
      /\ source[request[c]] = DumpPage(request[c])
  BY RequestKnown DEF ServeInv, Busy
<1> DEFINE v == IF Mapped(request[c]) THEN "seek" ELSE "send"
<1>2. OnlyThread(c, v)
  BY DEF OnlyThread, ServeInv, ServeTypes, Busy
<1>3. ServeTypes'
  BY <1>2, ThreadTypes DEF ServeInv, ServeTypes
<1>4. ~ Mapped(request[c]) => page'[c] = source[request[c]]
  BY <1>1, ServedFromDump DEF ServeInv, ServeTypes
<1>5. st'[c] = v
  BY DEF ServeInv, ServeTypes
<1>6. StreamOK(c)'
  BY <1>1, <1>4, <1>5 DEF StreamOK, Busy, Mapped, wireVars, given, buildVars
<1> QED
  BY <1>2, <1>3, <1>6, ThreadKeeps, ThreadSilent

LEMMA OpenFileServes ==
  ASSUME ServeInv, NEW c \in Client, program = "criu", OpenFile(c), Frozen
  PROVE  ServeInv' /\ Implements
<1>1. st[c] = "look" /\ Mapped(request[c])
  BY DEF OpenFile
<1>2. CASE EndThread(c)
  BY <1>1, <1>2, EndThreadServes DEF Busy
<1>3. CASE /\ \E f : fds' = AtPosition(c, f, 0)
           /\ st' = [st EXCEPT ![c] = "seek"]
           /\ UNCHANGED <<pos, buf, request, page, answered>>
  <2> USE <1>1, <1>3 DEF Frozen
  <2>1. /\ fds' = [d \in Client |-> fds'[d]]
        /\ \A d \in Client \ {c} : fds'[d] = fds[d]
    BY DEF AtPosition, CacheOf, ServeInv, ServeTypes
  <2>2. OnlyThread(c, "seek")
    BY <2>1 DEF OnlyThread, Busy
  <2>3. ServeTypes'
    BY <2>1, <2>2, ThreadTypes DEF ServeInv, ServeTypes
  <2>4. StreamOK(c)'
    BY DEF ServeInv, ServeTypes, StreamOK, Busy, Mapped, wireVars, given, buildVars
  <2> QED
    BY <2>2, <2>3, <2>4, ThreadKeeps, ThreadSilent
<1> QED
  BY <1>2, <1>3 DEF OpenFile

\* The two calls on one file belong together: the cache is the thread's own.
LEMMA SeekServes ==
  ASSUME ServeInv, NEW c \in Client, program = "criu", Seek(c), Frozen
  PROVE  ServeInv' /\ Implements
<1> DEFINE place == pageMap[PageOf(request[c])]
<1>1. /\ st[c] = "seek" /\ st' = [st EXCEPT ![c] = "read"]
      /\ fds' = AtPosition(c, place[1], place[2])
      /\ UNCHANGED <<pos, buf, request, page, answered>>
  BY DEF Seek
<1>2. /\ fds' = [d \in Client |-> fds'[d]]
      /\ \A d \in Client \ {c} : fds'[d] = fds[d]
      /\ fds'[c][place[1]] = place[2]
  BY <1>1 DEF AtPosition, CacheOf, ServeInv, ServeTypes
<1>3. OnlyThread(c, "read")
  BY <1>1, <1>2 DEF OnlyThread, Busy, Frozen
<1>4. ServeTypes'
  BY <1>1, <1>2, <1>3, ThreadTypes DEF ServeInv, ServeTypes
<1>5. StreamOK(c)'
  BY <1>1, <1>2 DEF ServeInv, ServeTypes, StreamOK, Busy, Mapped, Frozen, wireVars, given, buildVars
<1> QED
  BY <1>1, <1>3, <1>4, <1>5, ThreadKeeps, ThreadSilent

LEMMA ReadServes ==
  ASSUME ServeInv, BuildInv, NEW c \in Client, program = "criu", Read(c), Frozen
  PROVE  ServeInv' /\ Implements
<1> DEFINE place == pageMap[PageOf(request[c])]
<1>1. /\ st[c] = "read" /\ st' = [st EXCEPT ![c] = "send"]
      /\ page' = [page EXCEPT ![c] = Content(place[1], fds[c][place[1]])]
      /\ fds' = AtPosition(c, place[1], fds[c][place[1]] + PageSize)
      /\ UNCHANGED <<pos, buf, request, answered>>
  BY DEF Read, CacheOf
<1>2. /\ StreamOK(c) /\ phase = "listen" /\ request[c] \in Address
      /\ source[request[c]] = DumpPage(request[c]) /\ Mapped(request[c])
      /\ fds[c][place[1]] = place[2]
  BY <1>1, RequestKnown DEF ServeInv, StreamOK, Busy
<1>3. Content(place[1], fds[c][place[1]]) = source[request[c]]
  BY <1>2, ServedFromDump
<1>4. /\ fds' = [d \in Client |-> fds'[d]] /\ page' = [d \in Client |-> page'[d]]
      /\ \A d \in Client \ {c} : fds'[d] = fds[d] /\ page'[d] = page[d]
      /\ page'[c] = source[request[c]]
  BY <1>1, <1>3 DEF AtPosition, CacheOf, ServeInv, ServeTypes
<1>5. OnlyThread(c, "send")
  BY <1>1, <1>2, <1>4 DEF OnlyThread, Busy, Frozen
<1>6. ServeTypes'
  <2>1. /\ ServeTypes /\ answered' \in [Client -> Seq(Sent)]
        /\ pos' \in [Client -> [req : Nat, byte : Nat]] /\ buf' \in [Client -> [from : Nat, len : Nat]]
        /\ request' = [d \in Client |-> request'[d]]
    BY <1>1 DEF ServeInv, ServeTypes
  <2> QED
    BY <1>4, <1>5, <2>1, ThreadTypes
<1>7. StreamOK(c)'
  BY <1>1, <1>2, <1>4 DEF ServeInv, ServeTypes, StreamOK, Busy, Frozen, wireVars, given
<1> QED
  BY <1>1, <1>5, <1>6, <1>7, ThreadKeeps, ThreadSilent

\* An answer that leaves, by either program.
LEMMA DeliverServes ==
  ASSUME ServeInv, NEW c \in Client, st[c] = "send", st' = [st EXCEPT ![c] = "recv"],
         Deliver(c), Forget(c), UNCHANGED <<pos, fds>>, Frozen
  PROVE  ServeInv' /\ Implements
<1> USE DEF Deliver, Forget, Frozen
<1>1. StreamOK(c) /\ request[c] \in Address /\ page[c] \in Sent
  BY DEF ServeInv, ServeTypes, StreamOK, Busy, Sent
<1>2. /\ answered \in [Client -> Seq(Sent)]
      /\ answered' = [answered EXCEPT ![c] = Append(@, page[c])]
      /\ Append(answered[c], page[c]) \in Seq(Sent)
      /\ Len(Append(answered[c], page[c])) = Len(answered[c]) + 1
  BY <1>1 DEF ServeInv, ServeTypes
<1>3. /\ answered' \in [Client -> Seq(Sent)] /\ Len(answered'[c]) = Len(answered[c]) + 1
      /\ \A d \in Client \ {c} : answered'[d] = answered[d]
  BY <1>2
<1>4. OnlyThread(c, "recv")
  BY <1>3 DEF OnlyThread, ServeInv, ServeTypes, Busy
<1>5. ServeTypes'
  <2>1. [from |-> 0, len |-> 0] \in [from : Nat, len : Nat]
    OBVIOUS
  <2>2. buf' \in [Client -> [from : Nat, len : Nat]]
    BY <2>1 DEF ServeInv, ServeTypes
  <2> QED
    <3>1. ServeTypes /\ pos' \in [Client -> [req : Nat, byte : Nat]]
      BY DEF ServeInv, ServeTypes
    <3>2. /\ request' = [d \in Client |-> request'[d]] /\ page' = [d \in Client |-> page'[d]]
          /\ fds' = [d \in Client |-> fds'[d]]
      BY DEF ServeInv, ServeTypes
    <3> QED
      BY <1>3, <1>4, <2>2, <3>1, <3>2, ThreadTypes
<1>6. StreamOK(c)'
  BY <1>1, <1>3, WireAssumption DEF ServeInv, ServeTypes, StreamOK, Busy
<1> QED
  BY <1>2, <1>4, <1>5, <1>6, ThreadKeeps, ThreadAnswers

LEMMA ImageThreadServes ==
  ASSUME ServeInv, BuildInv, NEW c \in Client, program = "criu", ThreadStep(c),
         UNCHANGED <<devUp, program, source>>
  PROVE  ServeInv' /\ Implements
<1>1. Frozen
  BY DEF ThreadStep, Frozen, given
<1>2. CASE EndOfStream(c)
  BY <1>1, <1>2, EndThreadServes DEF EndOfStream, Busy
<1>3. CASE Send(c)
  <2>1. CASE client[c] = "gone" /\ EndThread(c)
    BY <1>1, <1>3, <2>1, EndThreadServes DEF Send, Busy
  <2> QED
    BY <1>1, <1>3, <2>1, DeliverServes DEF Send
<1> QED
  BY <1>1, <1>2, <1>3, ReceiveServes, LookUpServes, OpenFileServes, SeekServes, ReadServes
     DEF ThreadStep

\* The first of the backlog gets a thread; its stream has not been touched.
LEMMA AcceptServes ==
  ASSUME ServeInv, NEW c, backlog # <<>>, c = Head(backlog), backlog' = Tail(backlog),
         st' = [st EXCEPT ![c] = "recv"],
         UNCHANGED <<client, asked, part, pos, buf, request, page, answered, given, buildVars, devUp>>,
         \/ program = "criu" /\ phase = "listen" /\ fds' = [fds EXCEPT ![c] = NoFiles]
         \/ program = "dev" /\ devUp /\ fds' = fds
  PROVE  ServeInv' /\ Implements
<1> USE DEF given, buildVars
<1>1. /\ backlog \in Seq(Client) /\ Len(backlog) \in Nat /\ Len(backlog) > 0
      /\ c = backlog[1] /\ c \in Client
  <2>1. backlog \in Seq(Client)
    BY DEF ServeInv, ServeTypes
  <2> QED
    BY <2>1
<1>2. /\ backlog' \in Seq(Client) /\ Len(backlog') = Len(backlog) - 1
      /\ \A i \in 1 .. Len(backlog') : backlog'[i] = backlog[i + 1] /\ i + 1 \in 1 .. Len(backlog)
  BY <1>1
<1>3. st[c] = "none" /\ client[c] # "out"
  BY <1>1 DEF ServeInv, QueueOK
<1>4. \A d \in Client : st'[d] = IF d = c THEN "recv" ELSE st[d]
  BY DEF ServeInv, ServeTypes
<1>5. ServeTypes'
  <2>1. Sent' = Sent
    BY DEF Sent
  <2>2. st' \in [Client -> Busy \cup {"none", "done"}] /\ fds' = [d \in Client |-> fds'[d]]
    BY DEF ServeInv, ServeTypes, Busy
  <2>3. ServeTypes
    BY DEF ServeInv
  <2> QED
    BY <1>2, <2>1, <2>2, <2>3 DEF ServeTypes
<1>6. ASSUME NEW d \in Client PROVE StreamOK(d)'
  <2>1. CASE d = c
    BY <1>3, <1>4, <2>1, WireAssumption DEF ServeInv, StreamOK, Busy
  <2>2. CASE d # c
    <3>1. st'[d] = st[d] /\ fds'[d] = fds[d]
      BY <1>4, <2>2 DEF ServeInv, ServeTypes
    <3> QED
      BY <3>1 DEF ServeInv, StreamOK, Mapped
  <2> QED
    BY <2>1, <2>2
<1>7. QueueOK'
  <2>1. \A i \in 1 .. Len(backlog') : backlog'[i] # c /\ client[backlog'[i]] # "out"
    BY <1>1, <1>2 DEF ServeInv, QueueOK
  <2>2. \A i, j \in 1 .. Len(backlog') : i # j => backlog'[i] # backlog'[j]
    BY <1>1, <1>2 DEF ServeInv, QueueOK
  <2>3. \A i \in 1 .. Len(backlog') : backlog'[i] \in Client /\ st[backlog'[i]] = "none"
    BY <1>1, <1>2 DEF ServeInv, QueueOK
  <2>4. program = "criu" => \A d \in Client : st'[d] \in Busy => phase = "listen"
    BY DEF ServeInv, QueueOK
  <2>5. program = "dev" => \A d \in Client : st'[d] \in {"none", "recv", "send", "done"} /\ fds[d] = NoFiles
    BY <1>4 DEF ServeInv, QueueOK
  <2> QED
    BY <1>3, <1>4, <2>1, <2>2, <2>3, <2>4, <2>5 DEF ServeInv, QueueOK
<1>8. SourceOK'
  BY SourceKept DEF ServeInv
<1>9. Implements
  <2>1. {d \in Client : st'[d] = "done"} = {d \in Client : st[d] = "done"}
    BY <1>3, <1>4
  <2> QED
    BY <2>1 DEF Implements, Protocol!vars
<1> QED
  BY <1>5, <1>6, <1>7, <1>8, <1>9 DEF ServeInv

----------------------------------------------------------------------------
(* The development server.                                                 *)

DevFrozen == UNCHANGED <<wireVars, given, buildVars, fds>>

LEMMA DevCloses ==
  ASSUME ServeInv, NEW c \in Client, program = "dev", st[c] \in Busy, DevClose(c), DevFrozen,
         pos' \in [Client -> [req : Nat, byte : Nat]], buf' \in [Client -> [from : Nat, len : Nat]],
         \A d \in Client \ {c} : pos'[d] = pos[d] /\ buf'[d] = buf[d]
  PROVE  ServeInv' /\ Implements
<1> USE DEF DevFrozen, DevClose, Forget
<1>1. OnlyThread(c, "done")
  BY DEF OnlyThread, ServeInv, ServeTypes
<1>2. ServeTypes'
  BY <1>1, ThreadTypes DEF ServeInv, ServeTypes
<1>3. StreamOK(c)'
  BY DEF ServeInv, ServeTypes, StreamOK, QueueOK, Busy
<1> QED
  BY <1>1, <1>2, <1>3, ThreadKeeps, ThreadSilent

LEMMA DevReceiveServes ==
  ASSUME ServeInv, NEW c \in Client, program = "dev", DevReceive(c), DevFrozen
  PROVE  ServeInv' /\ Implements
<1>1. st[c] = "recv" /\ buf[c].len = 0 /\ ReqLen \in Nat
  <2>1. st[c] = "recv" /\ buf[c].len \in Nat
    BY DEF DevReceive, ServeInv, ServeTypes
  <2> QED
    BY <2>1, WireAssumption DEF ServeInv, StreamOK
<1>2. PICK n \in 1 .. ReqLen - buf[c].len : Take(c, n)
  BY <1>1 DEF DevReceive
<1>3. CASE ~ Complete(c)
  BY <1>1, <1>2, <1>3, DevCloses, Received DEF DevReceive, Busy
<1>4. CASE Complete(c)
  <2> USE DEF DevFrozen
  <2>1. /\ st' = [st EXCEPT ![c] = "send"]
        /\ request' = [request EXCEPT ![c] = Decoded(c, buf'[c].from, pos'[c])]
        /\ page' = [page EXCEPT ![c] = IF request'[c] = Garbage THEN Garbage ELSE Pattern(request'[c])]
        /\ UNCHANGED <<answered, devUp>>
    BY <1>4 DEF DevReceive, DevServe
  <2>2. /\ pos'[c].req = Len(answered[c]) + 1 /\ pos'[c].byte = 0
        /\ pos'[c].req <= Len(asked[c]) /\ buf'[c].from = 0
    BY <1>1, <1>2, <1>4, Received DEF Complete
  <2>3. /\ request' = [d \in Client |-> request'[d]] /\ page' = [d \in Client |-> page'[d]]
        /\ \A d \in Client \ {c} : request'[d] = request[d] /\ page'[d] = page[d]
        /\ request'[c] = asked[c][pos'[c].req]
    BY <2>1, <2>2 DEF ServeInv, ServeTypes, Decoded
  <2>4. request'[c] \in Address
    <3>1. asked[c] \in Seq(Address) /\ Len(answered[c]) \in Nat
      BY DEF ServeInv, ServeTypes
    <3> QED
      BY <2>2, <2>3, <3>1
  <2>5. page'[c] = source[request'[c]]
    <3>1. request'[c] # Garbage
      BY <2>4, WireAssumption
    <3>2. page'[c] = Pattern(request'[c])
      BY <2>1, <3>1 DEF ServeInv, ServeTypes
    <3> QED
      BY <2>4, <3>2 DEF ServeInv, SourceOK
  <2>6. OnlyThread(c, "send")
    BY <1>1, <1>2, <2>1, <2>3, Received DEF OnlyThread, Busy
  <2>7. ServeTypes'
    <3>1. /\ pos' \in [Client -> [req : Nat, byte : Nat]]
          /\ buf' \in [Client -> [from : Nat, len : Nat]]
      BY <1>1, <1>2, Received
    <3>2. answered' \in [Client -> Seq(Sent)] /\ fds' = [d \in Client |-> fds'[d]]
      BY <2>1 DEF ServeInv, ServeTypes
    <3> QED
      BY <2>3, <2>6, <3>1, <3>2, ThreadTypes DEF ServeInv
  <2>8. StreamOK(c)'
    BY <2>1, <2>2, <2>3, <2>5 DEF ServeInv, ServeTypes, StreamOK, Busy, wireVars, given
  <2> QED
    BY <2>1, <2>6, <2>7, <2>8, ThreadKeeps, ThreadSilent
<1> QED
  BY <1>3, <1>4

\* A broken pipe ends the program, and every connection with it.
LEMMA DevDies ==
  ASSUME ServeInv, NEW c \in Client, program = "dev", DevFrozen, devUp' = FALSE,
         st' = [d \in Client |-> IF client[d] = "out" THEN "none" ELSE "done"],
         Forget(c), UNCHANGED <<pos, buf, answered>>
  PROVE  ServeInv' /\ Implements
<1> USE DEF DevFrozen, Forget, wireVars, given, buildVars
<1>1. ServeTypes'
  <2>1. Sent' = Sent
    BY DEF Sent
  <2>2. st' \in [Client -> Busy \cup {"none", "done"}]
    OBVIOUS
  <2> QED
    BY <2>1, <2>2 DEF ServeInv, ServeTypes
<1>2. ASSUME NEW d \in Client PROVE StreamOK(d)'
  BY DEF ServeInv, StreamOK, QueueOK, Busy
<1>3. QueueOK'
  BY DEF ServeInv, QueueOK
<1>4. SourceOK'
  BY SourceKept DEF ServeInv
<1>5. Implements
  <2>1. {d \in Client : st'[d] = "done"}
          = {d \in Client : st[d] = "done"} \cup {d \in Client : client[d] # "out"}
    BY DEF ServeInv, QueueOK
  <2>2. Protocol!Close
    BY <2>1 DEF Protocol!Close
  <2> QED
    BY <2>2 DEF Implements, Protocol!Next
<1> QED
  BY <1>1, <1>2, <1>3, <1>4, <1>5 DEF ServeInv

LEMMA DevServesProtocol ==
  ASSUME ServeInv, DevServes, program = "dev"
  PROVE  ServeInv' /\ Implements
<1>1. PICK c \in Client :
        \/ DevAccept(c)
        \/ (DevReceive(c) \/ DevEnd(c) \/ DevSend(c)) /\ UNCHANGED wireVars
  BY DEF DevServes, DevStep
<1>2. UNCHANGED <<given, buildVars, fds>>
  BY DEF DevServes
<1>3. CASE DevAccept(c)
  BY <1>2, <1>3, AcceptServes DEF DevAccept
<1>4. CASE UNCHANGED wireVars /\ DevReceive(c)
  BY <1>2, <1>4, DevReceiveServes DEF DevFrozen
<1>5. CASE UNCHANGED wireVars /\ DevEnd(c)
  BY <1>2, <1>5, DevCloses DEF DevFrozen, DevEnd, ServeInv, ServeTypes, Busy
<1>6. CASE UNCHANGED wireVars /\ DevSend(c)
  <2>1. DevFrozen /\ st[c] = "send"
    BY <1>2, <1>6 DEF DevFrozen, DevSend
  <2>2. CASE Deliver(c) /\ st' = [st EXCEPT ![c] = "recv"] /\ Forget(c) /\ UNCHANGED <<pos, devUp>>
    BY <1>2, <1>6, <2>1, <2>2, DeliverServes DEF Frozen
  <2>3. CASE DevClose(c) /\ UNCHANGED <<pos, buf>>
    BY <2>1, <2>3, DevCloses DEF ServeInv, ServeTypes, Busy
  <2> QED
    BY <1>6, <2>1, <2>2, <2>3, DevDies DEF DevSend
<1> QED
  BY <1>1, <1>3, <1>4, <1>5, <1>6

----------------------------------------------------------------------------
(* The clients, and the whole.                                             *)

\* A client moves: requests grow, somebody joins the backlog, nothing else.
LEMMA ClientKeeps ==
  ASSUME ServeInv, NEW c \in Client, UNCHANGED <<threadVars, given, buildVars, fds, devUp>>,
         client' \in [Client -> {"out", "ask", "await", "gone"}],
         part' \in [Client -> 0 .. ReqLen - 1], asked' \in [Client -> Seq(Address)],
         \A d \in Client : /\ client'[d] = "out" => client[d] = "out"
                           /\ Len(asked'[d]) >= Len(asked[d])
                           /\ \A i \in 1 .. Len(asked[d]) : asked'[d][i] = asked[d][i],
         \/ backlog' = backlog
         \/ backlog' = Append(backlog, c) /\ client[c] = "out" /\ client'[c] # "out"
  PROVE  ServeInv'
<1> USE DEF threadVars, given, buildVars
<1>1. backlog \in Seq(Client) /\ Len(backlog) \in Nat
  BY DEF ServeInv, ServeTypes
<1>2. /\ backlog' \in Seq(Client) /\ Len(backlog') \in {Len(backlog), Len(backlog) + 1}
      /\ \A i \in 1 .. Len(backlog) : backlog'[i] = backlog[i]
      /\ Len(backlog') # Len(backlog) =>
           backlog'[Len(backlog')] = c /\ client[c] = "out" /\ client'[c] # "out"
  <2>1. CASE backlog' = backlog
    BY <1>1, <2>1
  <2>2. CASE backlog' = Append(backlog, c) /\ client[c] = "out" /\ client'[c] # "out"
    <3>1. /\ backlog' \in Seq(Client) /\ Len(backlog') = Len(backlog) + 1
          /\ \A i \in 1 .. Len(backlog) : backlog'[i] = backlog[i]
          /\ backlog'[Len(backlog) + 1] = c
      BY <1>1, <2>2
    <3> QED
      BY <2>2, <3>1
  <2> QED
    BY <2>1, <2>2
<1>3. ServeTypes'
  <2>1. Sent' = Sent
    BY DEF Sent
  <2> QED
    <3>1. ServeTypes /\ backlog' \in Seq(Client)
      BY <1>2 DEF ServeInv
    <3> QED
      BY <2>1, <3>1 DEF ServeTypes
<1>4. ASSUME NEW d \in Client PROVE StreamOK(d)'
  <2>0. /\ StreamOK(d) /\ asked[d] \in Seq(Address) /\ asked'[d] \in Seq(Address)
        /\ answered[d] \in Seq(Sent)
    BY DEF ServeInv, ServeTypes
  <2>1. StreamOK(d) /\ Len(asked[d]) \in Nat /\ Len(asked'[d]) \in Nat /\ Len(answered[d]) \in Nat
    BY <2>0
  <2>2. pos[d].req <= Len(asked[d]) => pos[d].req <= Len(asked'[d])
    <3>1. pos[d].req \in Nat /\ Len(asked'[d]) >= Len(asked[d])
      BY DEF ServeInv, ServeTypes
    <3> QED
      BY <2>1, <3>1
  <2>3. /\ st[d] \in Busy \ {"recv"} =>
             /\ pos[d].req <= Len(asked[d]) /\ pos[d].req = Len(answered[d]) + 1
             /\ request[d] = asked[d][pos[d].req]
    BY <2>1 DEF StreamOK
  <2>4. st[d] \in Busy \ {"recv"} => pos[d].req \in 1 .. Len(asked[d])
    BY <2>1, <2>3
  <2>5. st[d] \in Busy \ {"recv"} => request[d] = asked'[d][pos[d].req]
    BY <2>3, <2>4
  <2> QED
    BY <2>1, <2>2, <2>3, <2>5 DEF StreamOK, Mapped
<1>5. QueueOK'
  <2>1. ASSUME NEW i \in 1 .. Len(backlog)
        PROVE  /\ backlog[i] \in Client /\ client[backlog[i]] # "out"
               /\ client'[backlog[i]] # "out"
    <3>1. backlog[i] \in Client
      BY <1>1
    <3>2. client[backlog[i]] # "out"
      BY DEF ServeInv, QueueOK
    <3> QED
      BY <3>1, <3>2
  <2>2. \A i \in 1 .. Len(backlog') :
          \/ i \in 1 .. Len(backlog)
          \/ i = Len(backlog') /\ Len(backlog') # Len(backlog)
    BY <1>1, <1>2
  <2>3. \A i \in 1 .. Len(backlog') : backlog'[i] \in Client /\ client'[backlog'[i]] # "out"
    BY SMTT(40), <1>2, <2>1, <2>2
  <2>4. ASSUME NEW i \in 1 .. Len(backlog'), NEW j \in 1 .. Len(backlog'), i # j
        PROVE  backlog'[i] # backlog'[j]
    <3>1. CASE i \in 1 .. Len(backlog) /\ j \in 1 .. Len(backlog)
      <4>1. backlog[i] # backlog[j]
        BY <2>4, <3>1 DEF ServeInv, QueueOK
      <4> QED
        BY <1>2, <3>1, <4>1
    <3>2. CASE i \notin 1 .. Len(backlog)
      <4>1. /\ backlog'[i] = c /\ client[c] = "out"
            /\ j \in 1 .. Len(backlog) /\ backlog'[j] = backlog[j]
        BY <1>2, <2>2, <2>4, <3>2
      <4> QED
        BY <2>1, <4>1
    <3>3. CASE j \notin 1 .. Len(backlog)
      <4>1. /\ backlog'[j] = c /\ client[c] = "out"
            /\ i \in 1 .. Len(backlog) /\ backlog'[i] = backlog[i]
        BY <1>2, <2>2, <2>4, <3>3
      <4> QED
        BY <2>1, <4>1
    <3> QED
      BY <3>1, <3>2, <3>3
  <2>5. program = "criu" \/ devUp => \A i \in 1 .. Len(backlog') : st[backlog'[i]] = "none"
    BY SMTT(40), <1>2, <2>2 DEF ServeInv, QueueOK
  <2> QED
    BY <2>3, <2>4, <2>5 DEF ServeInv, QueueOK
<1>6. SourceOK'
  BY SourceKept DEF ServeInv
<1> QED
  BY <1>3, <1>4, <1>5, <1>6 DEF ServeInv

LEMMA ClientActsServes ==
  ASSUME ServeInv, NEW c \in Client, ClientActs(c)
  PROVE  ServeInv' /\ Implements
<1>1. UNCHANGED <<threadVars, given, buildVars, fds, devUp>>
  BY DEF ClientActs, ClientStep, Connect, WritePart, WriteRest, BatchSent, ClientReads,
         ReadAnswer, ReadEnd, Leave
<1>2. /\ client \in [Client -> {"out", "ask", "await", "gone"}]
      /\ part \in [Client -> 0 .. ReqLen - 1] /\ asked \in [Client -> Seq(Address)]
      /\ ReqLen \in Nat \ {0}
  BY WireAssumption DEF ServeInv, ServeTypes
<1>3. CASE WriteRest(c)
  <2>1. PICK a \in Address : asked' = [asked EXCEPT ![c] = Append(@, a)]
    BY <1>3 DEF WriteRest
  <2>2. /\ asked[c] \in Seq(Address) /\ Append(asked[c], a) \in Seq(Address)
        /\ Len(Append(asked[c], a)) = Len(asked[c]) + 1 /\ Len(asked[c]) \in Nat
        /\ \A i \in 1 .. Len(asked[c]) : Append(asked[c], a)[i] = asked[c][i]
    BY <1>2
  <2>3. asked' \in [Client -> Seq(Address)]
        /\ \A d \in Client : /\ Len(asked'[d]) >= Len(asked[d])
                             /\ \A i \in 1 .. Len(asked[d]) : asked'[d][i] = asked[d][i]
    BY <1>2, <2>1, <2>2
  <2>4. part' \in [Client -> 0 .. ReqLen - 1] /\ client' = client /\ backlog' = backlog
    BY <1>2, <1>3 DEF WriteRest
  <2>5. ServeInv'
    BY <1>1, <1>2, <2>3, <2>4, ClientKeeps
  <2>6. Protocol!Ask(c, a)
    BY <1>1, <2>1 DEF Protocol!Ask, threadVars, given
  <2> QED
    BY <2>5, <2>6 DEF Implements, Protocol!Next
<1>4. CASE UNCHANGED asked
  <2>1. Implements
    BY <1>1, <1>4 DEF Implements, Protocol!vars, threadVars, given
  <2>2. CASE Connect(c)
    <3>1. /\ client' = [client EXCEPT ![c] = "ask"] /\ client[c] = "out"
          /\ backlog' = Append(backlog, c) /\ part' = part
      BY <2>2 DEF Connect
    <3>2. client' \in [Client -> {"out", "ask", "await", "gone"}] /\ client'[c] # "out"
          /\ \A d \in Client : client'[d] = "out" => client[d] = "out"
      BY <1>2, <3>1
    <3>3. \A d \in Client : Len(asked'[d]) >= Len(asked[d])
      BY <1>2, <1>4
    <3> QED
      BY <1>1, <1>2, <1>4, <2>1, <3>1, <3>2, <3>3, ClientKeeps
  <2>3. CASE WritePart(c)
    <3>1. PICK n \in part[c] + 1 .. ReqLen - 1 : part' = [part EXCEPT ![c] = n]
      BY <2>3 DEF WritePart
    <3>2. part' \in [Client -> 0 .. ReqLen - 1] /\ client' = client /\ backlog' = backlog
      BY <1>2, <2>3, <3>1 DEF WritePart
    <3>3. \A d \in Client : Len(asked'[d]) >= Len(asked[d])
      BY <1>2, <1>4
    <3> QED
      BY <1>1, <1>2, <1>4, <2>1, <3>2, <3>3, ClientKeeps
  <2>4. CASE BatchSent(c) \/ ReadAnswer(c) \/ ReadEnd(c) \/ Leave(c)
    <3>1. /\ client' \in [Client -> {"out", "ask", "await", "gone"}]
          /\ \A d \in Client : client'[d] = "out" => client[d] = "out"
          /\ part' = part /\ backlog' = backlog
      BY <1>2, <2>4 DEF BatchSent, ReadAnswer, ReadEnd, Leave
    <3>2. \A d \in Client : Len(asked'[d]) >= Len(asked[d])
      BY <1>2, <1>4
    <3> QED
      BY <1>1, <1>2, <1>4, <2>1, <3>1, <3>2, ClientKeeps
  <2> QED
    BY <1>3, <1>4, <2>1, <2>2, <2>3, <2>4 DEF ClientActs, ClientStep, ClientReads, WriteRest
<1> QED
  BY <1>3, <1>4 DEF ClientActs, ClientStep, ClientReads, Connect, WritePart, BatchSent,
                    ReadAnswer, ReadEnd, Leave

\* While the map is built nobody is served, so no thread reads it half done.
LEMMA BuildServes ==
  ASSUME ServeInv, Build, program = "criu", UNCHANGED <<devUp, program, source>>
  PROVE  ServeInv' /\ Implements
<1> USE DEF Build, wireVars, threadVars
<1>1. \A c \in Client : st[c] \notin Busy
  BY DEF ServeInv, QueueOK
<1>2. ServeTypes'
  <2>1. Sent' = Sent
    BY DEF Sent
  <2> QED
    BY <2>1 DEF ServeInv, ServeTypes
<1>3. ASSUME NEW c \in Client PROVE StreamOK(c)'
  BY <1>1 DEF ServeInv, StreamOK, Busy
<1>4. QueueOK'
  BY <1>1 DEF ServeInv, QueueOK
<1>5. SourceOK'
  BY SourceKept DEF ServeInv, given
<1>6. Implements
  BY DEF Implements, Protocol!vars
<1> QED
  BY <1>2, <1>3, <1>4, <1>5, <1>6 DEF ServeInv

LEMMA StillServes ==
  ASSUME ServeInv, UNCHANGED vars
  PROVE  ServeInv' /\ Implements
<1> USE DEF vars, wireVars, threadVars, given, buildVars
<1>1. ServeTypes'
  <2>1. Sent' = Sent
    BY DEF Sent
  <2> QED
    BY <2>1 DEF ServeInv, ServeTypes
<1>2. ASSUME NEW c \in Client PROVE StreamOK(c)'
  BY DEF ServeInv, StreamOK, Mapped
<1>3. QueueOK'
  BY DEF ServeInv, QueueOK
<1>4. SourceOK'
  BY SourceKept DEF ServeInv
<1>5. Implements
  BY DEF Implements, Protocol!vars
<1> QED
  BY <1>1, <1>2, <1>3, <1>4, <1>5 DEF ServeInv

LEMMA NextServe ==
  ASSUME ServeInv, BuildInv, [Next]_vars
  PROVE  ServeInv' /\ Implements
<1>1. CASE \E c \in Client : ClientActs(c)
  BY <1>1, ClientActsServes
<1>2. CASE ImageServes
  <2>1. program = "criu" /\ UNCHANGED <<devUp, program, source>>
    BY <1>2 DEF ImageServes
  <2>2. CASE Build
    BY <2>1, <2>2, BuildServes
  <2>3. CASE \E c \in Client : Accept(c) /\ UNCHANGED <<image, buildVars>>
    <3>1. PICK c \in Client : Accept(c) /\ UNCHANGED <<image, buildVars>>
      BY <2>3
    <3> QED
      BY <2>1, <3>1, AcceptServes DEF Accept, MayAccept, given
  <2>4. CASE \E c \in Client : ThreadStep(c)
    BY <2>1, <2>4, ImageThreadServes
  <2> QED
    BY <1>2, <2>2, <2>3, <2>4 DEF ImageServes, ImageStep
<1>3. CASE DevServes
  BY <1>3, DevServesProtocol DEF DevServes
<1>4. CASE UNCHANGED vars
  BY <1>4, StillServes
<1> QED
  BY <1>1, <1>2, <1>3, <1>4 DEF Next, Quiet

(***************************************************************************)
(* For every dump and any number of clients, either program answers the    *)
(* requests of a connection in their order, each with the page of its      *)
(* address, wherever the streams are cut and whoever goes away.            *)
(***************************************************************************)
THEOREM ProtocolSafety == Spec => ImplementsProtocol
<1>1. BuildInv /\ ServeInv /\ [Next]_vars => ServeInv' /\ Implements
  BY NextServe
<1> QED
  BY <1>1, InitServe, BuildSafety, PTL DEF Spec, Implements, ImplementsProtocol, Protocol!Spec

(***************************************************************************)
(* However a connection ends, none of its files stays open.                *)
(***************************************************************************)
THEOREM FilesSafety == Spec => []FilesClosed
<1>1. BuildInv /\ ServeInv /\ [Next]_vars => ServeInv'
  BY NextServe
<1>2. ServeInv => FilesClosed
  BY DEF ServeInv, StreamOK, FilesClosed
<1> QED
  BY <1>1, <1>2, InitServe, BuildSafety, PTL DEF Spec

=============================================================================
