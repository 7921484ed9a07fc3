-------------------------- MODULE DirectoryStorage --------------------------
(***************************************************************************)
(* Storage in a directory: a FileOwner per stored item, the file it writes *)
(* under an index, and the catalog of labels and indexes that is written   *)
(* when datalackey ends and read when it starts again.                     *)
(*                                                                         *)
(* Data items are numbered in the order they are made, across all runs of  *)
(* the program; the FileOwner of item d has the name d too, both the one   *)
(* that writes it and the one a later run loads.  index[d] never changes,  *)
(* so a catalog that maps labels to items stands for one that maps them to *)
(* indexes.  Serials, notifications and the mutex of the map are those of  *)
(* MemoryStorage; the threads here are those of the data sinks.            *)
(***************************************************************************)
EXTENDS Integers, FiniteSets

CONSTANTS
    Labels,        \* labels of data
    Threads,       \* the threads that read input, one data sink each
    Builds,        \* whether assertions are compiled in: TRUE (Debug), FALSE (Release)
    MayCrash,      \* the program may be killed
    MaxData,       \* bound: items made in a behaviour
    PrimeLimit     \* indexes collected when freed is primed (100)

ASSUME DirectoryAssumption ==
    /\ Builds \subseteq BOOLEAN /\ MayCrash \in BOOLEAN
    /\ MaxData \in Nat /\ PrimeLimit \in Nat
    /\ 0 \notin Labels

Data == 1 .. MaxData
Indexes == 1 .. MaxData
NoData == 0

VARIABLES
    asserts,     \* the build that runs has assertions (no -DNDEBUG)
    phase,       \* "down", "creating", "up", "storing" or "refused"
    catalog,     \* item of each label in the catalog file
    catalogFile, \* "none", "cut" (truncated, not yet written) or "whole"
    disk,        \* the item each index's file was written with, or NoData
    index,       \* FileOwner::index of each item, 0 before it exists
    made         \* number of items made so far

VARIABLES
    label2data,  \* the item of each label, or NoData
    group,       \* the items of each thread's DataGroup
    label,       \* the label each item of a group is for
    readers,     \* items a FileReader holds on to
    owners,      \* the items whose FileOwner exists
    file,        \* what the FileOwner of each item keeps about its file
    used, freed  \* FileOwner::used and freed

VARIABLE crashed \* history: the program was killed or failed an assertion

diskVars == <<catalog, catalogFile, disk>>
runVars == <<label2data, group, label, readers, owners, file, used, freed>>
vars == <<asserts, phase, diskVars, index, made, runVars, crashed>>

NewFile == [owner |-> TRUE, present |-> FALSE, open |-> FALSE,
            finished |-> FALSE, error |-> FALSE, over |-> FALSE]

(* Nothing of a run is left in memory.                                     *)
Forgotten ==
    /\ label2data' = [l \in Labels |-> NoData]
    /\ group' = [t \in Threads |-> {}]
    /\ label' = [d \in Data |-> NoData]
    /\ readers' = {} /\ owners' = {}
    /\ file' = [d \in Data |-> NewFile]
    /\ used' = {} /\ freed' = {}

Init ==
    /\ asserts \in Builds
    /\ phase = "down"
    /\ catalog = [l \in Labels |-> NoData] /\ catalogFile = "none"
    /\ disk = [i \in Indexes |-> NoData]
    /\ index = [d \in Data |-> 0] /\ made = 0
    /\ label2data = [l \in Labels |-> NoData]
    /\ group = [t \in Threads |-> {}]
    /\ label = [d \in Data |-> NoData]
    /\ readers = {} /\ owners = {}
    /\ file = [d \in Data |-> NewFile]
    /\ used = {} /\ freed = {}
    /\ crashed = FALSE

(***************************************************************************)
(* Start.  Without a catalog one is written, to see that it can be.  A     *)
(* catalog that does not parse makes the storage invalid: datalackey exits *)
(* with 12.                                                                *)
(***************************************************************************)
StartNew ==
    /\ phase = "down" /\ catalogFile = "none"
    /\ phase' = "creating" /\ catalogFile' = "cut"
    /\ UNCHANGED <<catalog, disk, index, made, runVars, crashed>>

Created ==
    /\ phase = "creating"
    /\ phase' = "up" /\ catalogFile' = "whole"
    /\ UNCHANGED <<catalog, disk, index, made, runVars, crashed>>

StartRefused ==
    /\ phase = "down" /\ catalogFile = "cut"
    /\ phase' = "refused"
    /\ UNCHANGED <<diskVars, index, made, runVars, crashed>>

Catalogued == {catalog[l] : l \in Labels} \ {NoData}

(* FileOwner(Root, Index): fd stays open, and used.insert is part of an    *)
(* assertion (which IndexesAreExclusive says holds).                       *)
LoadedFile(d) == [owner |-> FALSE, present |-> TRUE, open |-> disk[index[d]] # NoData,
                  finished |-> TRUE, error |-> disk[index[d]] = NoData, over |-> FALSE]

(* Mutant of LoadedUsed: the loaded indexes are not remembered.            *)
LoadedUnused == {}

LoadedUsed == IF asserts THEN {index[d] : d \in Catalogued} ELSE {}

StartLoad ==
    /\ phase = "down" /\ catalogFile = "whole"
    /\ phase' = "up"
    /\ label2data' = catalog
    /\ owners' = Catalogued
    /\ file' = [d \in Data |-> IF d \in Catalogued THEN LoadedFile(d) ELSE NewFile]
    /\ used' = LoadedUsed
    /\ UNCHANGED <<diskVars, index, made, group, label, readers, freed, crashed>>

(***************************************************************************)
(* The index of a new FileOwner: the smallest freed one, or one more than  *)
(* are in use; when that is in use too, because a catalog was loaded,      *)
(* freed is filled with the gaps between the used ones, up to a limit.     *)
(***************************************************************************)
Smallest(S) == CHOOSE i \in S : \A j \in S : i <= j
Largest(S) == CHOOSE i \in S : \A j \in S : j <= i

GapsBelow(U, u) == (1 .. u - 1) \ U

Primed(U) ==
    LET enough == {u \in U : Cardinality(GapsBelow(U, u)) > PrimeLimit}
    IN  GapsBelow(U, IF enough # {} THEN Smallest(enough) ELSE Largest(U))

(* Mutant of Choice: one more than are in use, always.                     *)
ChoiceUnprimed == [index |-> Cardinality(used) + 1, freed |-> freed]

Choice ==
    IF freed = {} /\ Cardinality(used) + 1 \notin used
    THEN [index |-> Cardinality(used) + 1, freed |-> {}]
    ELSE LET candidates == IF freed = {} THEN Primed(used) ELSE freed
         IN  [index |-> Smallest(candidates), freed |-> candidates \ {Smallest(candidates)}]

(***************************************************************************)
(* A data sink reads an item: StartItem makes the FileOwner, Append writes *)
(* the value, which is passed on as a whole, and Finish closes the file.   *)
(* A label occurs once in a group.                                         *)
(***************************************************************************)
StartItem(t, l) ==
    LET d == made + 1 IN
    /\ phase = "up" /\ made < MaxData
    /\ \A e \in group[t] : file[e].finished /\ label[e] # l
    /\ made' = d
    /\ index' = [index EXCEPT ![d] = Choice.index]
    /\ used' = used \cup {Choice.index} /\ freed' = Choice.freed
    /\ owners' = owners \cup {d}
    /\ group' = [group EXCEPT ![t] = @ \cup {d}]
    /\ label' = [label EXCEPT ![d] = l]
    /\ UNCHANGED <<phase, diskVars, label2data, readers, file, crashed>>

(* The file is created with O_EXCL: if there is one already the item is in *)
(* error.  The sink does not look at the result.                           *)
AppendItem(t, d) ==
    /\ phase = "up" /\ d \in group[t]
    /\ ~file[d].finished /\ ~file[d].present /\ ~file[d].error
    /\ IF disk[index[d]] = NoData
       THEN /\ disk' = [disk EXCEPT ![index[d]] = d]
            /\ file' = [file EXCEPT ![d].present = TRUE, ![d].open = TRUE]
       ELSE /\ file' = [file EXCEPT ![d].error = TRUE]
            /\ UNCHANGED disk
    /\ UNCHANGED <<phase, catalog, catalogFile, index, made, label2data, group,
                   label, readers, owners, used, freed, crashed>>

Finish(t, d) ==
    /\ phase = "up" /\ d \in group[t]
    /\ ~file[d].finished /\ (file[d].present \/ file[d].error)
    /\ file' = [file EXCEPT ![d].finished = TRUE, ![d].open = FALSE]
    /\ UNCHANGED <<phase, diskVars, index, made, label2data, group, label,
                   readers, owners, used, freed, crashed>>

LeavesGroup(t) ==
    /\ group' = [group EXCEPT ![t] = {}]
    /\ label' = [d \in Data |-> IF d \in group[t] THEN NoData ELSE label[d]]

(* The text was broken, or the input ended: the group goes away, and the   *)
(* item that was being read with it.                                       *)
DropGroup(t) ==
    /\ phase = "up" /\ group[t] # {}
    /\ LeavesGroup(t)
    /\ UNCHANGED <<phase, diskVars, index, made, label2data, readers, owners,
                   file, used, freed, crashed>>

(***************************************************************************)
(* The commands on the map.  del() makes the item own its file again, so   *)
(* that the file goes with it; Own asserts that the file is closed.        *)
(***************************************************************************)
(* Mutant of OwnFails: the assertion is gone, as in a build with -DNDEBUG.  *)
OwnPasses(S) == FALSE

OwnFails(S) == asserts /\ \E d \in S : file[d].open

(* Mutant of Owning: the items deleted leave their files behind.           *)
OwningNothing(S, kept) ==
    [d \in Data |-> IF d \in kept THEN [file[d] EXCEPT !.owner = FALSE] ELSE file[d]]

Owning(S, kept) ==
    [d \in Data |-> CASE d \in S -> [file[d] EXCEPT !.owner = TRUE]
                      [] d \in kept \ S -> [file[d] EXCEPT !.owner = FALSE]
                      [] OTHER -> file[d]]

(* The items of labels L.                                                  *)
ItemsOf(L) == {label2data[l] : l \in L} \ {NoData}

Killed == phase' = "down" /\ Forgotten /\ crashed' = TRUE

(* The map becomes new, the items S are deleted and the items kept added.  *)
Change(new, S, kept) ==
    IF OwnFails(S)
    THEN Killed /\ UNCHANGED <<diskVars, index, made>>
    ELSE /\ label2data' = new
         /\ file' = Owning(S, kept)
         /\ UNCHANGED <<phase, diskVars, index, made, readers, owners, used,
                        freed, crashed>>

Delete(l) ==
    /\ phase = "up" /\ label2data[l] # NoData
    /\ Change([label2data EXCEPT ![l] = NoData], ItemsOf({l}), {})
    /\ phase' = "up" => UNCHANGED <<group, label>>

Rename(old, new) ==
    /\ phase = "up" /\ label2data[old] # NoData
    /\ Change([label2data EXCEPT ![old] = NoData, ![new] = label2data[old]],
              ItemsOf({new} \ {old}), {})
    /\ phase' = "up" => UNCHANGED <<group, label>>

LabelsOf(G) == {label[d] : d \in G}

Add(t) ==
    LET G == group[t] IN
    /\ phase = "up" /\ G # {} /\ \A d \in G : file[d].finished
    /\ Change([l \in Labels |-> IF l \in LabelsOf(G) THEN CHOOSE d \in G : label[d] = l
                                                     ELSE label2data[l]],
              ItemsOf(LabelsOf(G)), G)
    /\ phase' = "up" => LeavesGroup(t)

(* Prepare gives a command a FileReader, which keeps the item until it has *)
(* been read.                                                              *)
Prepare(l) ==
    /\ phase = "up" /\ label2data[l] # NoData
    /\ readers' = readers \cup {label2data[l]}
    /\ UNCHANGED <<phase, diskVars, index, made, label2data, group, label, owners,
                   file, used, freed, crashed>>

ReaderDone(d) ==
    /\ phase = "up" /\ d \in readers
    /\ readers' = readers \ {d}
    /\ UNCHANGED <<phase, diskVars, index, made, label2data, group, label, owners,
                   file, used, freed, crashed>>

(***************************************************************************)
(* ~FileOwner, when the last reference is gone: the file is closed and, if *)
(* owned, unlinked; then the index is given back under index_mutex, as     *)
(* part of assertions.                                                     *)
(***************************************************************************)
(* Mutant of Unreferenced: readers do not count.                           *)
Unmapped(d) == d \in owners \ ItemsOf(Labels) /\ \A t \in Threads : d \notin group[t]

Unreferenced(d) ==
    /\ d \in owners \ (ItemsOf(Labels) \cup readers)
    /\ \A t \in Threads : d \notin group[t]

Unlink(d) ==
    /\ phase = "up" /\ Unreferenced(d) /\ ~file[d].over
    /\ file' = [file EXCEPT ![d].over = TRUE, ![d].open = FALSE]
    /\ disk' = IF file[d].owner /\ file[d].present
               THEN [disk EXCEPT ![index[d]] = NoData] ELSE disk
    /\ UNCHANGED <<phase, catalog, catalogFile, index, made, label2data, group,
                   label, readers, owners, used, freed, crashed>>

Release(d) ==
    /\ phase = "up" /\ d \in owners /\ file[d].over
    /\ owners' = owners \ {d}
    /\ IF asserts THEN used' = used \ {index[d]} /\ freed' = freed \cup {index[d]}
                  ELSE UNCHANGED <<used, freed>>
    /\ file' = [file EXCEPT ![d] = NewFile]
    /\ UNCHANGED <<phase, diskVars, index, made, label2data, group, label, readers,
                   crashed>>

(***************************************************************************)
(* The end: everything that refers to items is deleted first.  The         *)
(* destructor of the storage cuts the catalog, writes it anew and then     *)
(* lets go of the items, which do not own their files.                     *)
(***************************************************************************)
Stop ==
    /\ phase = "up"
    /\ \A t \in Threads : group[t] = {}
    /\ readers = {} /\ owners \subseteq ItemsOf(Labels)
    /\ phase' = "storing" /\ catalogFile' = "cut"
    /\ UNCHANGED <<catalog, disk, index, made, runVars, crashed>>

Stored ==
    /\ phase = "storing"
    /\ phase' = "down" /\ catalogFile' = "whole"
    /\ catalog' = label2data
    /\ disk' = [i \in Indexes |->
                   IF \E d \in owners : index[d] = i /\ file[d].owner /\ file[d].present
                   THEN NoData ELSE disk[i]]
    /\ Forgotten
    /\ UNCHANGED <<index, made, crashed>>

Crash ==
    /\ MayCrash /\ phase \in {"creating", "up", "storing"}
    /\ Killed
    /\ UNCHANGED <<diskVars, index, made>>

Refused == phase = "refused" /\ UNCHANGED vars

Step ==
    \/ StartNew \/ Created \/ StartRefused \/ StartLoad
    \/ \E t \in Threads :
        \/ \E l \in Labels : StartItem(t, l)
        \/ \E d \in Data : AppendItem(t, d) \/ Finish(t, d)
        \/ DropGroup(t) \/ Add(t)
    \/ \E l \in Labels : Delete(l) \/ Prepare(l)
    \/ \E old, new \in Labels : Rename(old, new)
    \/ \E d \in Data : ReaderDone(d) \/ Unlink(d) \/ Release(d)
    \/ Stop \/ Stored \/ Crash \/ Refused

Next == Step /\ UNCHANGED asserts

Spec == Init /\ [][Next]_vars

----------------------------------------------------------------------------
Files == [owner : BOOLEAN, present : BOOLEAN, open : BOOLEAN,
          finished : BOOLEAN, error : BOOLEAN, over : BOOLEAN]

(* Every variable has the shape the code gives it.                         *)
TypeOK ==
    /\ asserts \in BOOLEAN
    /\ phase \in {"down", "creating", "up", "storing", "refused"}
    /\ catalog \in [Labels -> Data \cup {NoData}]
    /\ catalogFile \in {"none", "cut", "whole"}
    /\ disk \in [Indexes -> Data \cup {NoData}]
    /\ index \in [Data -> Indexes \cup {0}] /\ made \in 0 .. MaxData
    /\ label2data \in [Labels -> Data \cup {NoData}]
    /\ group \in [Threads -> SUBSET owners]
    /\ label \in [Data -> Labels \cup {NoData}]
    /\ readers \subseteq owners /\ owners \subseteq 1 .. made
    /\ file \in [Data -> Files]
    /\ used \subseteq Indexes /\ freed \subseteq Indexes
    /\ crashed \in BOOLEAN

(* The assertions on the indexes hold: no two FileOwners have the same     *)
(* one, used is exactly those of the FileOwners and freed none of them,    *)
(* whatever was loaded, freed and primed before.                           *)
IndexesAreExclusive ==
    asserts =>
        /\ \A d, e \in owners : index[d] = index[e] => d = e
        /\ used = {index[d] : d \in owners}
        /\ freed \cap used = {}

(* What is stored, and what a command still reads although it was deleted, *)
(* is in its own file, in this run and in those that load it.  Only a      *)
(* build with assertions satisfies it.                                     *)
StoredIsOnDisk ==
    (~crashed /\ phase \in {"up", "storing"}) =>
        \A d \in ItemsOf(Labels) \cup readers : disk[index[d]] = d

(* A build with assertions does so, over any number of runs.               *)
StoredIsOnDiskAsserted == asserts => StoredIsOnDisk

(* After the program has ended the directory holds the files of the        *)
(* catalog and no others.                                                  *)
NoStrayFiles ==
    (~crashed /\ phase = "down") =>
        \A i \in Indexes : disk[i] # NoData => \E d \in Catalogued : index[d] = i

(* In either build: a file the catalog promises leaves the disk only after *)
(* a command of this run has deleted or overwritten a label that the       *)
(* catalog maps to that file, and the last reader of it is done.  A run    *)
(* that is killed, ends or throws a group away leaves the file where it    *)
(* was, also when a new item was given the same index.                     *)
CatalogSurvives ==
    [][\A d \in Catalogued : (disk[index[d]] = d /\ disk'[index[d]] # d) =>
        \E e \in Catalogued :
            /\ index[e] = index[d]
            /\ phase = "up" /\ e \notin ItemsOf(Labels) \cup readers]_vars
=============================================================================
