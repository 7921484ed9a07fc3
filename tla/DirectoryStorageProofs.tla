------------------------ MODULE DirectoryStorageProofs ------------------------
(***************************************************************************)
(* What holds of DirectoryStorage for any labels, inputs and numbers of    *)
(* items, over any number of runs: the theorems and their proofs.          *)
(***************************************************************************)
EXTENDS DirectoryStorage, FiniteSetTheorems, NaturalsInduction, WellFoundedInduction, TLAPS

(***************************************************************************)
(* The invariant.  Outside of a run nothing is in memory.                  *)
(***************************************************************************)
Running == phase \in {"up", "storing"}

Blank ==
    /\ label2data = [l \in Labels |-> NoData]
    /\ group = [t \in Threads |-> {}]
    /\ label = [d \in Data |-> NoData]
    /\ readers = {} /\ owners = {}
    /\ file = [d \in Data |-> NewFile]
    /\ used = {} /\ freed = {}

InMap == ItemsOf(Labels)

(* Who refers to an item: a group, until it is added as a whole, then the  *)
(* map and the readers.  A FileOwner ends when nobody does.                *)
References ==
    /\ ~Running => Blank
    /\ InMap \subseteq owners
    /\ Catalogued \subseteq 1 .. made
    /\ catalogFile = "none" \/ phase = "creating" => Catalogued = {}
    /\ \A d \in Data \ owners : file[d] = NewFile
    /\ \A d \in owners : file[d].over => Unreferenced(d)
    /\ phase = "storing" => owners \subseteq InMap /\ readers = {}
    /\ \A l, m \in Labels : (label2data[l] = label2data[m] /\ label2data[l] # NoData) => l = m
    /\ \A l, m \in Labels : (catalog[l] = catalog[m] /\ catalog[l] # NoData) => l = m

Groups ==
    /\ \A t \in Threads : group[t] \cap (InMap \cup readers \cup Catalogued) = {}
    /\ \A t, u \in Threads : t # u => group[t] \cap group[u] = {}
    /\ \A t \in Threads : \A d, e \in group[t] :
          label[d] \in Labels /\ (label[d] = label[e] => d = e)

(* An index was given to an item that was made.                            *)
Indexing ==
    /\ \A d \in 1 .. made : index[d] \in Indexes
    /\ used \subseteq {index[d] : d \in 1 .. made}
    /\ freed \cap used = {}
    /\ IndexesAreExclusive
    /\ asserts => \A d, e \in Catalogued : index[d] = index[e] => d = e

(* A file is the storage's, and stays, exactly while its item is stored.   *)
Ownership ==
    /\ \A d \in owners : file[d].owner <=> d \notin InMap
    /\ \A d \in owners : file[d].finished => file[d].present \/ file[d].error
    /\ \A d \in InMap \cup readers : file[d].finished

(* Nobody was killed: what a FileOwner thinks is on the disk is there.     *)
OnDisk ==
    (asserts /\ ~crashed) =>
        /\ Running => /\ \A d \in owners : ~file[d].error
                      /\ \A d \in owners : file[d].present /\ ~file[d].over => disk[index[d]] = d
        /\ ~Running => \A d \in Catalogued : disk[index[d]] = d

(* And nothing else is, in either build.                                   *)
Accounted ==
    ~crashed =>
        \A i \in Indexes : disk[i] # NoData =>
            IF Running THEN \E d \in owners : index[d] = i /\ file[d].present /\ ~file[d].over
                       ELSE \E d \in Catalogued : index[d] = i

(* What a FileOwner of this run has written is not what the catalog means. *)
Fresh ==
    \A d \in owners \ Catalogued : file[d].present => disk[index[d]] \notin Catalogued

IInv == TypeOK /\ References /\ Groups /\ Indexing /\ Ownership /\ OnDisk /\ Accounted /\ Fresh

(***************************************************************************)
(* The index of a new item is in nobody's use.                             *)
(***************************************************************************)
LEMMA SmallestIsOne ==
  ASSUME NEW S \in SUBSET Nat, S # {}
  PROVE  Smallest(S) \in S /\ \A j \in S : Smallest(S) <= j
  <1>1. PICK n \in S : \A j \in S : <<j, n>> \notin OpToRel(<, Nat)
    BY WFMin, NatLessThanWellFounded, Zenon
  <1>2. \A j \in S : ~(j < n)
    BY <1>1, Zenon DEF OpToRel
  <1>3. \A j \in S : n <= j
    BY <1>2
  <1>4. QED
    BY <1>3, Zenon DEF Smallest

LEMMA LargestIsOne ==
  ASSUME NEW N \in Nat, NEW S \in SUBSET (1 .. N), S # {}
  PROVE  Largest(S) \in S /\ \A j \in S : j <= Largest(S)
  <1> DEFINE bounds == {n \in Nat : \A j \in S : j <= n}
             n == Smallest(bounds)
  <1>1. N \in bounds
    OBVIOUS
  <1>2. n \in bounds /\ \A m \in bounds : n <= m
    BY <1>1, SmallestIsOne
  <1> HIDE DEF n
  <1>3. n \in S
    <2> SUFFICES ASSUME n \notin S PROVE FALSE
      OBVIOUS
    <2>1. n \in Nat /\ \A j \in S : j <= n
      BY <1>2
    <2>2. \A j \in S : j \in Int /\ 1 <= j /\ j # n
      OBVIOUS
    <2>3. \A j \in S : j <= n - 1 /\ 0 <= n - 1
      BY <2>1, <2>2
    <2>4. n - 1 \in bounds
      <3>0. PICK j \in S : TRUE
        OBVIOUS
      <3>1. n - 1 \in Nat
        BY <2>1, <2>3, <3>0
      <3>2. QED
        BY <2>3, <3>1
    <2>5. n <= n - 1
      BY <1>2, <2>4
    <2>6. QED
      BY <2>1, <2>5
  <1>4. \E i \in S : \A j \in S : j <= i
    BY <1>2, <1>3
  <1>5. QED
    BY <1>4, Zenon DEF Largest

LEMMA GapsAreNumbers ==
  ASSUME NEW U \in SUBSET Indexes, NEW u \in Indexes
  PROVE  /\ GapsBelow(U, u) \in SUBSET Indexes /\ GapsBelow(U, u) \cap U = {}
         /\ IsFiniteSet(GapsBelow(U, u))
  <1>1. GapsBelow(U, u) \in SUBSET Indexes /\ GapsBelow(U, u) \cap U = {}
    BY DirectoryAssumption DEF GapsBelow, Indexes
  <1>2. IsFiniteSet(Indexes)
    BY FS_Interval, DirectoryAssumption DEF Indexes
  <1>3. QED
    BY <1>1, <1>2, FS_Subset

(* When one more than are in use is in use, something below is not.        *)
LEMMA ThereIsAGap ==
  ASSUME NEW U \in SUBSET Indexes, IsFiniteSet(U), Cardinality(U) + 1 \in U
  PROVE  /\ Primed(U) \in SUBSET Indexes /\ Primed(U) # {} /\ Primed(U) \cap U = {}
  <1> DEFINE enough == {u \in U : Cardinality(GapsBelow(U, u)) > PrimeLimit}
             top == IF enough # {} THEN Smallest(enough) ELSE Largest(U)
  <1>1. U \in SUBSET (1 .. MaxData) /\ U # {} /\ MaxData \in Nat
    BY DirectoryAssumption DEF Indexes
  <1>2. enough # {} => Smallest(enough) \in enough
    <2>1. \A u \in U : u \in Nat
      BY <1>1
    <2>2. enough \in SUBSET Nat
      BY <2>1
    <2> HIDE DEF enough
    <2>3. QED
      BY <2>2, SmallestIsOne
  <1>3. Largest(U) \in U /\ Largest(U) \in Nat /\ \A j \in U : j <= Largest(U)
    <2>1. Largest(U) \in U /\ \A j \in U : j <= Largest(U)
      BY <1>1, LargestIsOne, Zenon
    <2>2. \A u \in U : u \in Nat
      BY <1>1
    <2>3. QED
      BY <2>1, <2>2, Zenon
  <1>4. top \in U
    <2>1. CASE enough # {}
      BY <1>2, <2>1
    <2>2. CASE enough = {}
      BY <1>3, <2>2
    <2>3. QED
      BY <2>1, <2>2
  <1>5. Primed(U) = GapsBelow(U, top)
    BY DEF Primed
  <1>6. GapsBelow(U, top) # {}
    <2>1. CASE enough # {}
      <3>1. top \in enough
        BY <1>2, <2>1
      <3>2. Cardinality(GapsBelow(U, top)) > PrimeLimit
        BY <3>1
      <3>3. IsFiniteSet(GapsBelow(U, top))
        BY <1>4, GapsAreNumbers
      <3>4. Cardinality(GapsBelow(U, top)) \in Nat
        BY <3>3, FS_CardinalityType
      <3>5. Cardinality(GapsBelow(U, top)) # 0
        BY <3>2, <3>4, DirectoryAssumption
      <3>6. QED
        BY <3>5, FS_EmptySet
    <2>2. CASE enough = {}
      <3> DEFINE n == Largest(U)
      <3> SUFFICES ASSUME GapsBelow(U, n) = {} PROVE FALSE
        BY <2>2
      <3>1. n \in U /\ n \in Nat /\ \A j \in U : j <= n
        BY <1>3
      <3> HIDE DEF n
      <3>2. 1 .. n \subseteq U
        BY <3>1 DEF GapsBelow
      <3>3. Cardinality(1 .. n) = n
        BY <3>1, FS_Interval
      <3>4. Cardinality(1 .. n) <= Cardinality(U)
        BY <3>2, FS_Subset
      <3>5. Cardinality(U) \in Nat /\ Cardinality(U) + 1 <= n
        BY <3>1, FS_CardinalityType
      <3>6. QED
        BY <3>1, <3>3, <3>4, <3>5
    <2>3. QED
      BY <2>1, <2>2
  <1> HIDE DEF top
  <1>7. top \in Indexes
    BY <1>4
  <1>8. QED
    <2>1. GapsBelow(U, top) \in SUBSET Indexes /\ GapsBelow(U, top) \cap U = {}
      BY <1>7, GapsAreNumbers
    <2>2. QED
      BY <1>5, <1>6, <2>1, Zenon

(* No more indexes are in use than items were made.                        *)
LEMMA UsedIsBounded ==
  ASSUME TypeOK, Indexing
  PROVE  IsFiniteSet(used) /\ Cardinality(used) \in Nat /\ Cardinality(used) <= made
  <1> DEFINE given == {index[d] : d \in 1 .. made}
             f == [d \in 1 .. made |-> index[d]]
  <1>1. made \in Nat
    BY DirectoryAssumption DEF TypeOK
  <1>2. IsFiniteSet(1 .. made) /\ Cardinality(1 .. made) = made
    BY <1>1, FS_Interval
  <1>3. f \in Surjection(1 .. made, given)
    BY DEF Surjection
  <1>4. IsFiniteSet(given) /\ Cardinality(given) <= made
    BY <1>2, <1>3, FS_Surjection
  <1>5. Cardinality(given) \in Nat
    BY <1>4, FS_CardinalityType
  <1>6. used \in SUBSET given
    BY DEF Indexing
  <1>7. IsFiniteSet(used) /\ Cardinality(used) <= Cardinality(given)
    BY <1>4, <1>6, FS_Subset
  <1>8. Cardinality(used) \in Nat
    BY <1>7, FS_CardinalityType
  <1>9. QED
    BY <1>1, <1>4, <1>5, <1>7, <1>8

LEMMA ChoiceIsFree ==
  ASSUME TypeOK, Indexing, made < MaxData
  PROVE  /\ Choice.index \in Indexes \ used
         /\ Choice.freed \subseteq Indexes
         /\ Choice.freed \cap (used \cup {Choice.index}) = {}
  <1> DEFINE candidates == IF freed = {} THEN Primed(used) ELSE freed
  <1>1. used \in SUBSET Indexes /\ freed \in SUBSET Indexes /\ freed \cap used = {}
    BY DEF TypeOK, Indexing
  <1>2. CASE freed = {} /\ Cardinality(used) + 1 \notin used
    <2>1. Choice = [index |-> Cardinality(used) + 1, freed |-> {}]
      BY <1>2 DEF Choice
    <2>2. Cardinality(used) + 1 \in Indexes
      BY UsedIsBounded, DirectoryAssumption DEF Indexes, TypeOK
    <2>3. QED
      BY <1>2, <2>1, <2>2
  <1>3. CASE ~(freed = {} /\ Cardinality(used) + 1 \notin used)
    <2>1. Choice = [index |-> Smallest(candidates), freed |-> candidates \ {Smallest(candidates)}]
      BY <1>3 DEF Choice
    <2>2. candidates \in SUBSET Indexes /\ candidates # {} /\ candidates \cap used = {}
      BY <1>1, <1>3, UsedIsBounded, ThereIsAGap
    <2> HIDE DEF candidates
    <2>3. candidates \in SUBSET Nat
      BY <2>2 DEF Indexes
    <2>4. Smallest(candidates) \in candidates
      BY <2>2, <2>3, SmallestIsOne
    <2>5. QED
      BY <2>1, <2>2, <2>4
  <1>4. QED
    BY <1>2, <1>3

(***************************************************************************)
(* The first state and the steps, one lemma for each action.               *)
(***************************************************************************)
LEMMA InitHolds == Init => IInv
  <1> SUFFICES ASSUME Init PROVE IInv
    OBVIOUS
  <1> USE DEF Init
  <1>1. InMap = {} /\ Catalogued = {} /\ ~Running
    BY DEF InMap, ItemsOf, Catalogued, Running
  <1>2. NewFile \in Files
    BY DEF NewFile, Files
  <1>3. TypeOK
    <2>1. made \in 0 .. MaxData /\ owners \subseteq 1 .. made
      BY DirectoryAssumption
    <2>2. file \in [Data -> Files] /\ index \in [Data -> Indexes \cup {0}]
      BY <1>2
    <2>3. asserts \in BOOLEAN
      BY DirectoryAssumption
    <2>4. QED
      BY <2>1, <2>2, <2>3 DEF TypeOK, NoData
  <1>4. References
    BY <1>1 DEF References, Blank
  <1>5. Groups
    BY DEF Groups
  <1>6. Indexing
    BY <1>1, DirectoryAssumption DEF Indexing, IndexesAreExclusive
  <1>7. Ownership
    BY <1>1 DEF Ownership
  <1>8. OnDisk /\ Accounted /\ Fresh
    BY <1>1 DEF OnDisk, Accounted, Fresh
  <1>9. QED
    BY <1>3, <1>4, <1>5, <1>6, <1>7, <1>8 DEF IInv

LEMMA NothingChanges == IInv /\ UNCHANGED vars => IInv'
  <1> SUFFICES ASSUME IInv, UNCHANGED vars PROVE IInv'
    OBVIOUS
  <1> USE DEF vars, diskVars, runVars
  <1>1. TypeOK'
    BY DEF IInv, TypeOK
  <1>2. InMap' = InMap /\ Catalogued' = Catalogued /\ Running' = Running /\ Blank' = Blank
    BY DEF InMap, ItemsOf, Catalogued, Running, Blank
  <1>3. \A d : Unreferenced(d)' = Unreferenced(d)
    BY DEF Unreferenced, ItemsOf
  <1>4. References'
    BY <1>2, <1>3 DEF IInv, References
  <1>5. Groups' /\ Indexing'
    BY <1>2 DEF IInv, Groups, Indexing, IndexesAreExclusive
  <1>6. Ownership' /\ OnDisk' /\ Accounted' /\ Fresh'
    BY <1>2 DEF IInv, Ownership, OnDisk, Accounted, Fresh
  <1>7. QED
    BY <1>1, <1>4, <1>5, <1>6 DEF IInv

(* A run that is killed leaves nothing but what is on the disk.            *)
LEMMA KilledKeeps == IInv /\ Killed /\ UNCHANGED <<asserts, diskVars, index, made>> => IInv'
  <1> SUFFICES ASSUME IInv, Killed, UNCHANGED <<asserts, diskVars, index, made>> PROVE IInv'
    OBVIOUS
  <1>0. asserts' = asserts
    OBVIOUS
  <1> USE <1>0
  <1> USE DEF Killed, diskVars
  <1>1. InMap' = {} /\ Catalogued' = Catalogued /\ ~Running' /\ Blank'
    BY DEF Forgotten, InMap, ItemsOf, Catalogued, Running, Blank
  <1>2. NewFile \in Files
    BY DEF NewFile, Files
  <1>3. TypeOK'
    BY <1>2, DirectoryAssumption DEF IInv, TypeOK, Forgotten, NoData
  <1>4. References'
    BY <1>1 DEF IInv, References, Blank
  <1>5. Groups'
    BY DEF Groups, Forgotten
  <1>6. Indexing'
    BY <1>1 DEF IInv, Indexing, IndexesAreExclusive, Forgotten
  <1>7. Ownership'
    BY <1>1 DEF Ownership, Forgotten
  <1>8. OnDisk' /\ Accounted' /\ Fresh'
    BY <1>1 DEF OnDisk, Accounted, Fresh, Blank
  <1>9. QED
    BY <1>3, <1>4, <1>5, <1>6, <1>7, <1>8 DEF IInv

(* The steps of starting and stopping that change the phase only.          *)
LEMMA PhaseKeeps ==
  IInv /\ (StartNew \/ Created \/ StartRefused \/ Stop) /\ UNCHANGED asserts => IInv'
  <1> SUFFICES ASSUME IInv, StartNew \/ Created \/ StartRefused \/ Stop, UNCHANGED asserts
               PROVE  IInv'
    OBVIOUS
  <1>0. asserts' = asserts
    OBVIOUS
  <1> USE <1>0
  <1> USE DEF StartNew, Created, StartRefused, Stop, diskVars, runVars
  <1>1. TypeOK'
    <2>1. phase' \in {"down", "creating", "up", "storing", "refused"}
          /\ catalogFile' \in {"none", "cut", "whole"}
      BY DEF IInv, TypeOK
    <2>2. QED
      BY <2>1 DEF IInv, TypeOK
  <1>2. InMap' = InMap /\ Catalogued' = Catalogued /\ Blank' = Blank
    BY DEF InMap, ItemsOf, Catalogued, Blank
  <1>3. \A d : Unreferenced(d)' = Unreferenced(d)
    BY DEF Unreferenced, ItemsOf
  <1>4. ~Running' => Blank
    BY DEF IInv, References, Running
  <1>5. References'
    BY <1>2, <1>3, <1>4 DEF IInv, References, InMap
  <1>6. Groups' /\ Indexing'
    BY <1>2 DEF IInv, Groups, Indexing, IndexesAreExclusive
  <1>7. Ownership'
    BY <1>2 DEF IInv, Ownership
  <1>8. OnDisk' /\ Accounted'
    <2>1. CASE Running' = Running
      BY <1>2, <2>1 DEF IInv, OnDisk, Accounted
    <2>2. CASE Created
      <3>1. ~Running /\ owners = {} /\ Catalogued = {}
        BY <2>2 DEF IInv, References, Running, Blank
      <3>2. QED
        BY <2>2, <3>1 DEF IInv, OnDisk, Accounted, Running
    <2>3. QED
      BY <2>1, <2>2 DEF Running
  <1>9. Fresh'
    BY <1>2 DEF IInv, Fresh
  <1>10. QED
    BY <1>1, <1>5, <1>6, <1>7, <1>8, <1>9 DEF IInv

LEMMA StartLoadKeeps == IInv /\ StartLoad /\ UNCHANGED asserts => IInv'
  <1> SUFFICES ASSUME IInv, StartLoad, UNCHANGED asserts PROVE IInv'
    OBVIOUS
  <1>0. asserts' = asserts
    OBVIOUS
  <1> USE <1>0
  <1> USE DEF StartLoad, diskVars
  <1>1. Blank /\ ~Running /\ Running'
    BY DEF IInv, References, Running
  <1>2. InMap' = Catalogued /\ Catalogued' = Catalogued /\ owners' = Catalogued
    BY DEF InMap, ItemsOf, Catalogued
  <1>3. Catalogued \subseteq Data /\ \A d \in Catalogued : d # NoData /\ index[d] \in Indexes
    BY DirectoryAssumption DEF IInv, TypeOK, References, Indexing, Catalogued, Data
  <1>4. \A d \in Data : file'[d] = IF d \in Catalogued THEN LoadedFile(d) ELSE NewFile
    OBVIOUS
  <1>5. NewFile \in Files /\ \A d \in Data : LoadedFile(d) \in Files
    BY DEF NewFile, LoadedFile, Files
  <1>6. \A d \in Catalogued :
           /\ file'[d].owner = FALSE /\ file'[d].present = TRUE /\ file'[d].finished = TRUE
           /\ (file'[d].open <=> disk[index[d]] # NoData) /\ file'[d].over = FALSE
           /\ (file'[d].error <=> disk[index[d]] = NoData)
    BY <1>3, <1>4 DEF LoadedFile
  <1>7. group' = [t \in Threads |-> {}] /\ readers' = {} /\ freed' = {}
    BY <1>1 DEF Blank
  <1>8. used' \subseteq {index[d] : d \in 1 .. made}
        /\ (asserts => used' = {index[d] : d \in Catalogued})
    BY DEF IInv, References, LoadedUsed
  <1>9. TypeOK'
    <2>1. used' \subseteq Indexes
      BY <1>8 DEF IInv, Indexing
    <2>2. file' \in [Data -> Files]
      BY <1>4, <1>5
    <2>3. owners' \subseteq 1 .. made
      BY <1>2 DEF IInv, References
    <2>4. QED
      BY <1>7, <2>1, <2>2, <2>3 DEF IInv, TypeOK
  <1>10. References'
    <2>1. \A d \in Data \ owners' : file'[d] = NewFile
      BY <1>2, <1>4
    <2>2. \A d \in owners' : ~file'[d].over
      BY <1>2, <1>6
    <2>3. QED
      BY <1>1, <1>2, <2>1, <2>2 DEF IInv, References
  <1>11. Groups'
    BY <1>7 DEF Groups
  <1>12. Indexing'
    BY <1>2, <1>7, <1>8 DEF IInv, Indexing, IndexesAreExclusive
  <1>13. Ownership'
    BY <1>2, <1>6, <1>7 DEF Ownership
  <1>14. OnDisk'
    <2> SUFFICES ASSUME asserts, ~crashed PROVE OnDisk'
      BY DEF OnDisk
    <2>1. \A d \in Catalogued : disk[index[d]] = d
      BY <1>1 DEF IInv, OnDisk
    <2>2. \A d \in Catalogued : ~file'[d].error
      BY <1>3, <1>6, <2>1
    <2>3. QED
      BY <1>1, <1>2, <1>6, <2>1, <2>2 DEF OnDisk
  <1>15. Accounted' /\ Fresh'
    BY <1>1, <1>2, <1>6 DEF IInv, Accounted, Fresh
  <1>16. QED
    BY <1>9, <1>10, <1>11, <1>12, <1>13, <1>14, <1>15 DEF IInv

LEMMA StartItemKeeps ==
  ASSUME NEW t \in Threads, NEW l \in Labels, IInv, StartItem(t, l), UNCHANGED asserts
  PROVE  IInv'
  <1>0. asserts' = asserts
    OBVIOUS
  <1> USE <1>0
  <1> DEFINE d == made + 1
  <1> USE DEF StartItem, diskVars
  <1>1. /\ d \in Data /\ d \notin 1 .. made /\ d \notin owners
        /\ 1 .. made' = (1 .. made) \cup {d} /\ 1 .. made \subseteq Data /\ d # NoData
    BY DirectoryAssumption DEF IInv, TypeOK, Data, NoData
  <1>2. /\ Choice.index \in Indexes \ used /\ Choice.freed \subseteq Indexes
        /\ Choice.freed \cap (used \cup {Choice.index}) = {}
    BY ChoiceIsFree DEF IInv
  <1>3. InMap' = InMap /\ Catalogued' = Catalogued /\ Running /\ Running'
    BY DEF InMap, ItemsOf, Catalogued, Running
  <1>4. d \notin InMap /\ d \notin readers /\ d \notin Catalogued
    BY <1>1 DEF IInv, References, TypeOK
  <1>5. file[d] = NewFile /\ file' = file
    BY <1>1 DEF IInv, References
  <1>6. index'[d] = Choice.index /\ \A e \in 1 .. made : index'[e] = index[e] /\ e # d
    BY <1>1 DEF IInv, TypeOK
  <1>7. owners' = owners \cup {d} /\ owners \subseteq 1 .. made /\ Catalogued \subseteq 1 .. made
    BY DEF IInv, TypeOK, References
  <1>8. \A u \in Threads : group'[u] = IF u = t THEN group[t] \cup {d} ELSE group[u]
    BY DEF IInv, TypeOK
  <1>9. \A u \in Threads : group[u] \subseteq owners
    BY DEF IInv, TypeOK
  <1>10. label'[d] = l /\ \A e \in owners : label'[e] = label[e]
    BY <1>1, <1>7 DEF IInv, TypeOK
  <1> HIDE DEF d
  <1>11. TypeOK'
    <2>1. made' \in 0 .. MaxData /\ owners' \subseteq 1 .. made'
      BY <1>1, <1>7, DirectoryAssumption DEF IInv, TypeOK, d
    <2>2. index' \in [Data -> Indexes \cup {0}] /\ used' \subseteq Indexes /\ freed' \subseteq Indexes
      BY <1>2 DEF IInv, TypeOK
    <2>3. group' \in [Threads -> SUBSET owners']
      BY <1>7 DEF IInv, TypeOK, d
    <2>4. label' \in [Data -> Labels \cup {NoData}]
      BY DEF IInv, TypeOK
    <2>5. QED
      BY <2>1, <2>2, <2>3, <2>4, <1>7 DEF IInv, TypeOK
  <1>12. References'
    <2>1. \A e \in owners' : file'[e].over => e # d /\ Unreferenced(e)
      BY <1>5, <1>7 DEF IInv, References, NewFile
    <2>2. \A e \in owners' : file'[e].over => Unreferenced(e)'
      BY <2>1, <1>3, <1>7, <1>8 DEF Unreferenced, InMap
    <2>3. QED
      BY <2>2, <1>1, <1>3, <1>5, <1>7 DEF IInv, References
  <1>13. Groups'
    <2>1. \A u \in Threads : group'[u] \cap (InMap' \cup readers' \cup Catalogued') = {}
      BY <1>3, <1>4, <1>8 DEF IInv, Groups
    <2>2. \A u, v \in Threads : u # v => group'[u] \cap group'[v] = {}
      BY <1>1, <1>8, <1>9 DEF IInv, Groups
    <2>3. \A u \in Threads : \A e, f \in group'[u] :
             label'[e] \in Labels /\ (label'[e] = label'[f] => e = f)
      BY <1>8, <1>9, <1>10 DEF IInv, Groups
    <2>4. QED
      BY <2>1, <2>2, <2>3 DEF Groups
  <1>14. Indexing'
    <2>1. \A e \in 1 .. made' : index'[e] \in Indexes
      BY <1>1, <1>2, <1>6 DEF IInv, Indexing
    <2>2. used' \subseteq {index'[e] : e \in 1 .. made'}
      BY <1>1, <1>6 DEF IInv, Indexing
    <2>3. freed' \cap used' = {}
      BY <1>2
    <2>4. ASSUME asserts
          PROVE  /\ \A e, f \in owners' : index'[e] = index'[f] => e = f
                 /\ used' = {index'[e] : e \in owners'}
      <3>1. /\ \A e, f \in owners : index[e] = index[f] => e = f
            /\ used = {index[e] : e \in owners}
        BY <2>4 DEF IInv, Indexing, IndexesAreExclusive
      <3>2. \A e \in owners : index'[e] = index[e] /\ index[e] # index'[d]
        BY <1>2, <1>6, <1>7, <3>1
      <3>3. \A e, f \in owners' : index'[e] = index'[f] => e = f
        BY <1>7, <3>1, <3>2
      <3>4. used' = {index'[e] : e \in owners'}
        <4>1. {index'[e] : e \in owners'} = {index[e] : e \in owners} \cup {index'[d]}
          BY <1>7, <3>2
        <4>2. QED
          BY <1>6, <3>1, <4>1
      <3>5. QED
        BY <3>3, <3>4
    <2>5. asserts => \A e, f \in Catalogued' : index'[e] = index'[f] => e = f
      BY <1>3, <1>6, <1>7 DEF IInv, Indexing
    <2>6. QED
      BY <2>1, <2>2, <2>3, <2>4, <2>5 DEF Indexing, IndexesAreExclusive
  <1>15. Ownership'
    BY <1>3, <1>4, <1>5, <1>7 DEF IInv, Ownership, NewFile
  <1>16. OnDisk' /\ Accounted'
    <2>1. \A e \in owners : index'[e] = index[e]
      BY <1>6, <1>7
    <2>2. ~file[d].error /\ ~file[d].present
      BY <1>5 DEF NewFile
    <2>3. QED
      BY <1>3, <1>5, <1>7, <2>1, <2>2 DEF IInv, OnDisk, Accounted
  <1>17. Fresh'
    BY <1>3, <1>5, <1>6, <1>7 DEF IInv, Fresh, NewFile
  <1>18. QED
    BY <1>11, <1>12, <1>13, <1>14, <1>15, <1>16, <1>17 DEF IInv

(* An item in a group is nothing else yet.                                 *)
LEMMA InGroup ==
  ASSUME IInv, NEW t \in Threads, NEW d \in group[t]
  PROVE  /\ d \in Data /\ d \in owners /\ d \notin InMap /\ d \notin Catalogued /\ d \notin readers
         /\ index[d] \in Indexes /\ ~file[d].over /\ file[d].owner
  <1>1. d \in owners /\ d \in 1 .. made /\ d \in Data
    BY DirectoryAssumption DEF IInv, TypeOK, Data
  <1>2. d \notin InMap /\ d \notin Catalogued /\ d \notin readers
    BY DEF IInv, Groups
  <1>3. ~file[d].over
    BY <1>1 DEF IInv, References, Unreferenced
  <1>4. QED
    BY <1>1, <1>2, <1>3 DEF IInv, Indexing, Ownership

LEMMA AppendKeeps ==
  ASSUME NEW t \in Threads, NEW d \in Data, IInv, AppendItem(t, d), UNCHANGED asserts
  PROVE  IInv'
  <1>0. asserts' = asserts
    OBVIOUS
  <1> USE <1>0
  <1> USE DEF AppendItem
  <1>1. /\ d \in owners /\ d \notin InMap /\ d \notin Catalogued /\ d \notin readers
        /\ index[d] \in Indexes /\ ~file[d].over
    BY InGroup
  <1>2. InMap' = InMap /\ Catalogued' = Catalogued /\ Running /\ Running'
    BY DEF InMap, ItemsOf, Catalogued, Running
  <1>3. /\ file' \in [Data -> Files] /\ \A e \in Data \ {d} : file'[e] = file[e]
        /\ file'[d].owner = file[d].owner /\ file'[d].finished = FALSE /\ file'[d].over = FALSE
        /\ disk[index[d]] = NoData => file'[d].present = TRUE /\ file'[d].error = FALSE
        /\ disk[index[d]] # NoData => file'[d].present = file[d].present
    <2>1. file \in [Data -> Files] /\ file[d] \in Files
      BY DEF IInv, TypeOK
    <2>2. file[d].finished = FALSE /\ file[d].over = FALSE /\ file[d].error = FALSE
      BY <1>1, <2>1 DEF Files
    <2>3. CASE disk[index[d]] = NoData
      <3> DEFINE r == [file[d] EXCEPT !.present = TRUE, !.open = TRUE]
      <3>1. /\ r \in Files /\ r.owner = file[d].owner /\ r.finished = FALSE /\ r.over = FALSE
            /\ r.present = TRUE /\ r.error = FALSE
        BY <2>1, <2>2 DEF Files
      <3>2. file' = [file EXCEPT ![d] = r]
        BY <2>3
      <3> HIDE DEF r, AppendItem
      <3>3. QED
        BY <2>1, <2>3, <3>1, <3>2
    <2>4. CASE disk[index[d]] # NoData
      <3> DEFINE r == [file[d] EXCEPT !.error = TRUE]
      <3>1. /\ r \in Files /\ r.owner = file[d].owner /\ r.finished = FALSE /\ r.over = FALSE
            /\ r.present = file[d].present
        BY <2>1, <2>2 DEF Files
      <3>2. file' = [file EXCEPT ![d] = r]
        BY <2>4
      <3> HIDE DEF r, AppendItem
      <3>3. QED
        BY <2>1, <2>4, <3>1, <3>2
    <2>5. QED
      BY <2>3, <2>4, Zenon
  <1>4. /\ UNCHANGED <<phase, catalog, catalogFile, index, made, label2data, group,
                       label, readers, owners, used, freed, crashed>>
        /\ disk[index[d]] = NoData => disk' = [disk EXCEPT ![index[d]] = d]
        /\ disk[index[d]] # NoData => disk' = disk
        /\ ~file[d].present
    OBVIOUS
  <1> HIDE DEF AppendItem
  <1>5. disk' \in [Indexes -> Data \cup {NoData}]
    BY <1>4 DEF IInv, TypeOK
  <1>6. owners \subseteq Data /\ Catalogued \subseteq Data /\ owners \subseteq 1 .. made
    BY DirectoryAssumption DEF IInv, TypeOK, Catalogued, Data
  <1>7. TypeOK'
    BY <1>3, <1>4, <1>5 DEF IInv, TypeOK
  <1>8. References'
    <2>1. \A e \in owners' : file'[e].over => Unreferenced(e)
      BY <1>3, <1>4, <1>6 DEF IInv, References, Files
    <2>2. \A e \in owners' : file'[e].over => Unreferenced(e)'
      BY <1>4, <2>1 DEF Unreferenced, ItemsOf
    <2>3. \A e \in Data \ owners' : file'[e] = NewFile
      BY <1>1, <1>3, <1>4 DEF IInv, References
    <2>4. QED
      BY <1>2, <1>4, <2>2, <2>3 DEF IInv, References
  <1>9. Groups' /\ Indexing'
    BY <1>2, <1>4 DEF IInv, Groups, Indexing, IndexesAreExclusive
  <1>10. Ownership'
    <2>1. InMap \subseteq owners /\ readers \subseteq owners
      BY DEF IInv, References, TypeOK
    <2>2. QED
      BY <1>1, <1>2, <1>3, <1>4, <1>6, <2>1 DEF IInv, Ownership
  <1>11. OnDisk'
    <2> SUFFICES ASSUME asserts, ~crashed' PROVE OnDisk'
      BY DEF OnDisk
    <2>1. /\ \A e \in owners : ~file[e].error
          /\ \A e \in owners : file[e].present /\ ~file[e].over => disk[index[e]] = e
      BY <1>2, <1>4 DEF IInv, OnDisk
    <2>2. \A e, f \in owners : index[e] = index[f] => e = f
      BY DEF IInv, Indexing, IndexesAreExclusive
    <2>3. disk[index[d]] = NoData
      BY <1>1, <1>2, <1>4, <2>2 DEF IInv, Accounted
    <2>4. disk'[index[d]] = d /\ \A i \in Indexes \ {index[d]} : disk'[i] = disk[i]
      BY <1>1, <1>4, <2>3 DEF IInv, TypeOK
    <2>5. \A e \in owners \ {d} : index[e] \in Indexes \ {index[d]}
      BY <1>1, <1>6, <2>2 DEF IInv, Indexing
    <2>6. \A e \in owners' : ~file'[e].error
      BY <1>3, <1>4, <1>6, <2>1, <2>3
    <2>7. \A e \in owners' : file'[e].present /\ ~file'[e].over => disk'[index'[e]] = e
      BY <1>3, <1>4, <1>6, <2>1, <2>4, <2>5
    <2>8. QED
      BY <1>2, <1>4, <2>6, <2>7 DEF OnDisk
  <1>12. Accounted'
    <2> SUFFICES ASSUME ~crashed, NEW i \in Indexes, disk'[i] # NoData
                 PROVE  \E e \in owners' : index'[e] = i /\ file'[e].present /\ ~file'[e].over
      BY <1>2, <1>4 DEF Accounted
    <2>1. CASE i = index[d] /\ disk[i] = NoData
      BY <1>1, <1>3, <1>4, <2>1
    <2>2. CASE i # index[d] \/ disk[i] # NoData
      <3>1. disk[i] # NoData
        BY <1>1, <1>4, <2>2 DEF IInv, TypeOK
      <3>2. PICK e \in owners : index[e] = i /\ file[e].present /\ ~file[e].over
        BY <1>2, <3>1 DEF IInv, Accounted
      <3>3. e # d
        BY <1>4, <3>2
      <3>4. QED
        BY <1>3, <1>4, <1>6, <3>2, <3>3
    <2>3. QED
      BY <2>1, <2>2
  <1>13. Fresh'
    <2> SUFFICES ASSUME NEW e \in owners \ Catalogued, file'[e].present
                 PROVE  disk'[index[e]] \notin Catalogued
      BY <1>2, <1>4 DEF Fresh
    <2>1. index[e] \in Indexes
      BY <1>6 DEF IInv, Indexing
    <2>2. CASE disk' = disk
      <3>1. e # d => file[e].present
        BY <1>3, <1>6
      <3>2. e = d => disk[index[d]] # NoData
        BY <1>1, <1>4, <2>2, DirectoryAssumption DEF IInv, TypeOK, Data, NoData
      <3>3. e # d
        BY <1>3, <1>4, <3>2
      <3>4. QED
        BY <2>2, <3>1, <3>3 DEF IInv, Fresh
    <2>3. CASE disk' # disk
      <3>1. disk' = [disk EXCEPT ![index[d]] = d]
        BY <1>4, <2>3
      <3>2. CASE index[e] = index[d]
        BY <1>1, <2>1, <3>1, <3>2 DEF IInv, TypeOK
      <3>3. CASE index[e] # index[d]
        <4>1. file[e].present /\ disk'[index[e]] = disk[index[e]]
          BY <1>3, <1>6, <2>1, <3>1, <3>3 DEF IInv, TypeOK
        <4>2. QED
          BY <4>1 DEF IInv, Fresh
      <3>4. QED
        BY <3>2, <3>3
    <2>4. QED
      BY <2>2, <2>3
  <1>14. QED
    BY <1>7, <1>8, <1>9, <1>10, <1>11, <1>12, <1>13 DEF IInv

LEMMA FinishKeeps ==
  ASSUME NEW t \in Threads, NEW d \in Data, IInv, Finish(t, d), UNCHANGED asserts
  PROVE  IInv'
  <1>0. asserts' = asserts
    OBVIOUS
  <1> USE <1>0
  <1> USE DEF Finish, diskVars
  <1>1. d \in owners /\ d \notin InMap /\ d \notin Catalogued /\ d \notin readers
    BY InGroup
  <1>2. InMap' = InMap /\ Catalogued' = Catalogued /\ Running /\ Running'
    BY DEF InMap, ItemsOf, Catalogued, Running
  <1>3. /\ UNCHANGED <<phase, catalog, catalogFile, disk, index, made, label2data, group, label,
                       readers, owners, used, freed, crashed>>
        /\ file[d].present \/ file[d].error
    OBVIOUS
  <1>4. /\ file' \in [Data -> Files] /\ \A e \in Data \ {d} : file'[e] = file[e]
        /\ file'[d].owner = file[d].owner /\ file'[d].present = file[d].present
        /\ file'[d].error = file[d].error /\ file'[d].over = file[d].over
    <2> DEFINE r == [file[d] EXCEPT !.finished = TRUE, !.open = FALSE]
    <2>1. file \in [Data -> Files] /\ file[d] \in Files
      BY DEF IInv, TypeOK
    <2>2. /\ r \in Files /\ r.owner = file[d].owner /\ r.present = file[d].present
          /\ r.error = file[d].error /\ r.over = file[d].over
      BY <2>1 DEF Files
    <2>3. file' = [file EXCEPT ![d] = r]
      OBVIOUS
    <2> HIDE DEF r, Finish
    <2>4. QED
      BY <2>1, <2>2, <2>3
  <1> HIDE DEF Finish, diskVars
  <1>5. owners \subseteq Data /\ Catalogued \subseteq Data /\ InMap \subseteq owners
    BY DirectoryAssumption DEF IInv, TypeOK, References, Catalogued, Data
  <1>6. TypeOK'
    BY <1>3, <1>4 DEF IInv, TypeOK
  <1>7. References'
    <2>1. \A e \in owners' : file'[e].over => Unreferenced(e)
      BY <1>3, <1>4, <1>5 DEF IInv, References
    <2>2. \A e \in owners' : file'[e].over => Unreferenced(e)'
      BY <1>3, <2>1 DEF Unreferenced, ItemsOf
    <2>3. \A e \in Data \ owners' : file'[e] = NewFile
      BY <1>1, <1>3, <1>4 DEF IInv, References
    <2>4. QED
      BY <1>2, <1>3, <2>2, <2>3 DEF IInv, References
  <1>8. Groups' /\ Indexing'
    BY <1>2, <1>3 DEF IInv, Groups, Indexing, IndexesAreExclusive
  <1>9. Ownership'
    <2>1. readers \subseteq owners
      BY DEF IInv, TypeOK
    <2>2. QED
      BY <1>1, <1>2, <1>3, <1>4, <1>5, <2>1 DEF IInv, Ownership
  <1>10. OnDisk'
    <2>1. \A e \in owners : /\ file'[e].present <=> file[e].present
                            /\ file'[e].error <=> file[e].error
                            /\ file'[e].over <=> file[e].over
      BY <1>4, <1>5
    <2> SUFFICES ASSUME asserts, ~crashed' PROVE OnDisk'
      BY DEF OnDisk
    <2>2. /\ \A e \in owners : ~file[e].error
          /\ \A e \in owners : file[e].present /\ ~file[e].over => disk[index[e]] = e
      BY <1>2, <1>3 DEF IInv, OnDisk
    <2>3. QED
      BY <1>2, <1>3, <2>1, <2>2 DEF OnDisk
  <1>11. Accounted' /\ Fresh'
    <2>1. \A e \in owners : /\ file'[e].present <=> file[e].present
                            /\ file'[e].over <=> file[e].over
      BY <1>4, <1>5
    <2>2. QED
      BY <1>2, <1>3, <2>1 DEF IInv, Accounted, Fresh
  <1>12. QED
    BY <1>6, <1>7, <1>8, <1>9, <1>10, <1>11 DEF IInv

LEMMA DropGroupKeeps ==
  ASSUME NEW t \in Threads, IInv, DropGroup(t), UNCHANGED asserts
  PROVE  IInv'
  <1>0. asserts' = asserts
    OBVIOUS
  <1> USE <1>0
  <1> USE DEF DropGroup, LeavesGroup, diskVars
  <1>1. UNCHANGED <<phase, catalog, catalogFile, disk, index, made, label2data,
                    readers, owners, file, used, freed, crashed>>
    OBVIOUS
  <1>2. InMap' = InMap /\ Catalogued' = Catalogued /\ Running /\ Running'
    BY DEF InMap, ItemsOf, Catalogued, Running
  <1>3. group' \in [Threads -> SUBSET owners] /\ \A u \in Threads : group'[u] \subseteq group[u]
    BY DEF IInv, TypeOK
  <1>4. label' \in [Data -> Labels \cup {NoData}]
    BY DEF IInv, TypeOK
  <1>5. ASSUME NEW u \in Threads, NEW d \in group'[u]
        PROVE  label'[d] = label[d]
    <2>1. u # t /\ d \in group[u] /\ group[u] \cap group[t] = {}
      BY <1>5 DEF IInv, TypeOK, Groups
    <2>2. d \in Data
      BY <2>1, InGroup
    <2>3. QED
      BY <2>1, <2>2
  <1> HIDE DEF DropGroup, LeavesGroup, diskVars
  <1>6. TypeOK'
    BY <1>1, <1>3, <1>4 DEF IInv, TypeOK
  <1>7. References'
    <2>1. \A d : Unreferenced(d) => Unreferenced(d)'
      BY <1>1, <1>3 DEF Unreferenced, ItemsOf
    <2>2. QED
      BY <1>1, <1>2, <2>1 DEF IInv, References
  <1>8. Groups'
    <2>1. \A u \in Threads : group'[u] \cap (InMap' \cup readers' \cup Catalogued') = {}
      BY <1>1, <1>2, <1>3 DEF IInv, Groups
    <2>2. \A u, v \in Threads : u # v => group'[u] \cap group'[v] = {}
      BY <1>3 DEF IInv, Groups
    <2>3. \A u \in Threads : \A d, e \in group'[u] :
             label'[d] \in Labels /\ (label'[d] = label'[e] => d = e)
      BY <1>3, <1>5 DEF IInv, Groups
    <2>4. QED
      BY <2>1, <2>2, <2>3 DEF Groups
  <1>9. Indexing' /\ Ownership' /\ OnDisk' /\ Accounted' /\ Fresh'
    BY <1>1, <1>2 DEF IInv, Indexing, IndexesAreExclusive, Ownership, OnDisk, Accounted, Fresh
  <1>10. QED
    BY <1>6, <1>7, <1>8, <1>9 DEF IInv

LEMMA PrepareKeeps ==
  ASSUME NEW l \in Labels, IInv, Prepare(l), UNCHANGED asserts
  PROVE  IInv'
  <1>0. asserts' = asserts
    OBVIOUS
  <1> USE <1>0
  <1> DEFINE d == label2data[l]
  <1>1. UNCHANGED <<phase, catalog, catalogFile, disk, index, made, label2data, group, label,
                    owners, file, used, freed, crashed>>
        /\ readers' = readers \cup {d} /\ phase = "up" /\ d # NoData
    BY DEF Prepare, diskVars
  <1>2. InMap' = InMap /\ Catalogued' = Catalogued /\ Running /\ Running'
    BY <1>1 DEF InMap, ItemsOf, Catalogued, Running
  <1>3. d \in InMap /\ d \in owners
    BY <1>1 DEF InMap, ItemsOf, IInv, References
  <1> HIDE DEF d
  <1>4. TypeOK'
    BY <1>1, <1>3 DEF IInv, TypeOK
  <1>5. References'
    <2>1. \A e \in owners : file[e].over => Unreferenced(e) /\ e # d
      BY <1>3 DEF IInv, References, Unreferenced, InMap
    <2>2. \A e \in owners : file[e].over => Unreferenced(e)'
      BY <1>1, <2>1 DEF Unreferenced, ItemsOf
    <2>3. phase' # "storing"
      BY <1>1
    <2>4. QED
      BY <1>1, <1>2, <2>2, <2>3 DEF IInv, References
  <1>6. Groups'
    <2>1. \A t \in Threads : d \notin group[t]
      BY <1>3 DEF IInv, Groups
    <2>2. QED
      BY <1>1, <1>2, <2>1 DEF IInv, Groups
  <1>7. Ownership'
    BY <1>1, <1>2, <1>3 DEF IInv, Ownership
  <1>8. Indexing' /\ OnDisk' /\ Accounted' /\ Fresh'
    BY <1>1, <1>2 DEF IInv, Indexing, IndexesAreExclusive, OnDisk, Accounted, Fresh
  <1>9. QED
    BY <1>4, <1>5, <1>6, <1>7, <1>8 DEF IInv

LEMMA ReaderDoneKeeps ==
  ASSUME NEW d \in Data, IInv, ReaderDone(d), UNCHANGED asserts
  PROVE  IInv'
  <1>0. asserts' = asserts
    OBVIOUS
  <1> USE <1>0
  <1>1. UNCHANGED <<phase, catalog, catalogFile, disk, index, made, label2data, group, label,
                    owners, file, used, freed, crashed>>
        /\ readers' = readers \ {d} /\ phase = "up"
    BY DEF ReaderDone, diskVars
  <1>2. InMap' = InMap /\ Catalogued' = Catalogued /\ Running /\ Running'
    BY <1>1 DEF InMap, ItemsOf, Catalogued, Running
  <1>3. TypeOK'
    BY <1>1 DEF IInv, TypeOK
  <1>4. References'
    <2>1. \A e : Unreferenced(e) => Unreferenced(e)'
      BY <1>1 DEF Unreferenced, ItemsOf
    <2>2. phase' # "storing"
      BY <1>1
    <2>3. QED
      BY <1>1, <1>2, <2>1, <2>2 DEF IInv, References
  <1>5. Groups' /\ Ownership'
    BY <1>1, <1>2 DEF IInv, Groups, Ownership
  <1>6. Indexing' /\ OnDisk' /\ Accounted' /\ Fresh'
    BY <1>1, <1>2 DEF IInv, Indexing, IndexesAreExclusive, OnDisk, Accounted, Fresh
  <1>7. QED
    BY <1>3, <1>4, <1>5, <1>6 DEF IInv

(* An item that nobody refers to owns its file, and nobody else's.         *)
LEMMA UnlinkKeeps ==
  ASSUME NEW d \in Data, IInv, Unlink(d), UNCHANGED asserts
  PROVE  IInv'
  <1>0. asserts' = asserts
    OBVIOUS
  <1> USE <1>0
  <1> USE DEF Unlink
  <1>1. /\ UNCHANGED <<phase, catalog, catalogFile, index, made, label2data, group, label,
                       readers, owners, used, freed, crashed>>
        /\ Unreferenced(d) /\ ~file[d].over
        /\ file[d].owner /\ file[d].present => disk' = [disk EXCEPT ![index[d]] = NoData]
        /\ ~(file[d].owner /\ file[d].present) => disk' = disk
    OBVIOUS
  <1>2. InMap' = InMap /\ Catalogued' = Catalogued /\ Running /\ Running'
    BY DEF InMap, ItemsOf, Catalogued, Running
  <1>3. /\ file' \in [Data -> Files] /\ \A e \in Data \ {d} : file'[e] = file[e]
        /\ file'[d].owner = file[d].owner /\ file'[d].present = file[d].present
        /\ file'[d].error = file[d].error /\ file'[d].finished = file[d].finished
        /\ file'[d].over = TRUE
    <2> DEFINE r == [file[d] EXCEPT !.over = TRUE, !.open = FALSE]
    <2>1. file \in [Data -> Files] /\ file[d] \in Files
      BY DEF IInv, TypeOK
    <2>2. /\ r \in Files /\ r.owner = file[d].owner /\ r.present = file[d].present
          /\ r.error = file[d].error /\ r.finished = file[d].finished /\ r.over = TRUE
      BY <2>1 DEF Files
    <2>3. file' = [file EXCEPT ![d] = r]
      OBVIOUS
    <2> HIDE DEF r, Unlink
    <2>4. QED
      BY <2>1, <2>2, <2>3
  <1> HIDE DEF Unlink
  <1>4. /\ d \in owners /\ d \notin InMap /\ d \notin readers /\ index[d] \in Indexes
        /\ file[d].owner
    BY <1>1 DEF Unreferenced, InMap, IInv, TypeOK, Indexing, Ownership
  <1>5. /\ disk' \in [Indexes -> Data \cup {NoData}]
        /\ \A i \in Indexes \ {index[d]} : disk'[i] = disk[i]
        /\ \A i \in Indexes : disk'[i] # NoData => disk'[i] = disk[i]
        /\ file[d].present => disk'[index[d]] = NoData
        /\ disk[index[d]] = NoData => disk'[index[d]] = NoData
    BY <1>1, <1>4 DEF IInv, TypeOK
  <1>6. /\ owners \subseteq Data /\ Catalogued \subseteq Data /\ owners \subseteq 1 .. made
        /\ InMap \subseteq owners /\ readers \subseteq owners /\ \A e \in Data : e # NoData
    BY DirectoryAssumption DEF IInv, TypeOK, References, Catalogued, Data, NoData
  <1>7. TypeOK'
    BY <1>1, <1>3, <1>5 DEF IInv, TypeOK
  <1>8. References'
    <2>1. \A e \in owners : file'[e].over => Unreferenced(e)
      BY <1>1, <1>3, <1>6 DEF IInv, References
    <2>2. \A e \in owners : file'[e].over => Unreferenced(e)'
      BY <1>1, <2>1 DEF Unreferenced, ItemsOf
    <2>3. \A e \in Data \ owners' : file'[e] = NewFile
      BY <1>1, <1>3, <1>4 DEF IInv, References
    <2>4. QED
      BY <1>1, <1>2, <2>2, <2>3 DEF IInv, References
  <1>9. Groups' /\ Indexing'
    BY <1>1, <1>2 DEF IInv, Groups, Indexing, IndexesAreExclusive
  <1>10. Ownership'
    BY <1>1, <1>2, <1>3, <1>4, <1>6 DEF IInv, Ownership
  <1>11. OnDisk'
    <2> SUFFICES ASSUME asserts, ~crashed' PROVE OnDisk'
      BY DEF OnDisk
    <2>1. /\ \A e \in owners : ~file[e].error
          /\ \A e \in owners : file[e].present /\ ~file[e].over => disk[index[e]] = e
      BY <1>1, <1>2 DEF IInv, OnDisk
    <2>2. \A e, f \in owners : index[e] = index[f] => e = f
      BY DEF IInv, Indexing, IndexesAreExclusive
    <2>3. \A e \in owners \ {d} : index[e] \in Indexes \ {index[d]}
      BY <1>4, <1>6, <2>2 DEF IInv, Indexing
    <2>4. \A e \in owners' : ~file'[e].error
      BY <1>1, <1>3, <1>6, <2>1
    <2>5. \A e \in owners' : file'[e].present /\ ~file'[e].over => disk'[index'[e]] = e
      BY <1>1, <1>3, <1>5, <1>6, <2>1, <2>3
    <2>6. QED
      BY <1>2, <2>4, <2>5 DEF OnDisk
  <1>12. Accounted'
    <2> SUFFICES ASSUME ~crashed, NEW i \in Indexes, disk'[i] # NoData
                 PROVE  \E e \in owners' : index'[e] = i /\ file'[e].present /\ ~file'[e].over
      BY <1>1, <1>2 DEF Accounted
    <2>1. PICK e \in owners : index[e] = i /\ file[e].present /\ ~file[e].over
      BY <1>2, <1>5 DEF IInv, Accounted
    <2>2. e # d
      BY <1>5, <2>1
    <2>3. file'[e] = file[e]
      BY <1>3, <1>6, <2>2
    <2>4. QED
      BY <1>1, <2>1, <2>3
  <1>13. Fresh'
    <2> SUFFICES ASSUME NEW e \in owners \ Catalogued, file'[e].present
                 PROVE  disk'[index[e]] \notin Catalogued
      BY <1>1, <1>2 DEF Fresh
    <2>1. index[e] \in Indexes /\ file[e].present
      BY <1>3, <1>6 DEF IInv, Indexing
    <2>2. disk[index[e]] \notin Catalogued
      BY <2>1 DEF IInv, Fresh
    <2>3. NoData \notin Catalogued
      BY DEF Catalogued
    <2>4. QED
      BY <1>5, <2>1, <2>2, <2>3
  <1>14. QED
    BY <1>7, <1>8, <1>9, <1>10, <1>11, <1>12, <1>13 DEF IInv

(* The index that is given back was the item's alone.                      *)
LEMMA ReleaseKeeps ==
  ASSUME NEW d \in Data, IInv, Release(d), UNCHANGED asserts
  PROVE  IInv'
  <1>0. asserts' = asserts
    OBVIOUS
  <1> USE <1>0
  <1>1. /\ UNCHANGED <<phase, catalog, catalogFile, disk, index, made, label2data, group, label,
                       readers, crashed>>
        /\ phase = "up" /\ d \in owners /\ file[d].over
        /\ owners' = owners \ {d} /\ file' = [file EXCEPT ![d] = NewFile]
        /\ asserts => used' = used \ {index[d]} /\ freed' = freed \cup {index[d]}
        /\ ~asserts => used' = used /\ freed' = freed
    BY DEF Release, diskVars
  <1>2. InMap' = InMap /\ Catalogued' = Catalogued /\ Running /\ Running'
    BY <1>1 DEF InMap, ItemsOf, Catalogued, Running
  <1>3. NewFile \in Files
    BY DEF NewFile, Files
  <1>4. file' \in [Data -> Files] /\ file'[d] = NewFile /\ \A e \in Data \ {d} : file'[e] = file[e]
    BY <1>1, <1>3 DEF IInv, TypeOK
  <1>5. d \notin InMap /\ d \notin readers /\ \A t \in Threads : d \notin group[t]
    BY <1>1 DEF IInv, References, Unreferenced, InMap
  <1>6. owners \subseteq Data /\ Catalogued \subseteq Data /\ owners \subseteq 1 .. made
    BY DirectoryAssumption DEF IInv, TypeOK, References, Catalogued, Data
  <1>7. index[d] \in Indexes
    BY <1>1, <1>6 DEF IInv, Indexing
  <1>8. TypeOK'
    <2>1. group' \in [Threads -> SUBSET owners'] /\ readers' \subseteq owners'
      BY <1>1, <1>5 DEF IInv, TypeOK
    <2>2. used' \subseteq Indexes /\ freed' \subseteq Indexes
      BY <1>1, <1>7 DEF IInv, TypeOK
    <2>3. QED
      BY <1>1, <1>4, <2>1, <2>2 DEF IInv, TypeOK
  <1>9. References'
    <2>1. \A e \in owners' : file'[e].over => Unreferenced(e)'
      BY <1>1, <1>4, <1>6 DEF IInv, References, Unreferenced, ItemsOf
    <2>2. \A e \in Data \ owners' : file'[e] = NewFile
      BY <1>1, <1>4 DEF IInv, References
    <2>3. InMap' \subseteq owners' /\ phase' # "storing"
      BY <1>1, <1>2, <1>5 DEF IInv, References
    <2>4. QED
      BY <1>1, <1>2, <2>1, <2>2, <2>3 DEF IInv, References
  <1>10. Groups'
    BY <1>1, <1>2 DEF IInv, Groups
  <1>11. Indexing'
    <2>1. used' \subseteq used /\ freed' \cap used' = {}
      BY <1>1 DEF IInv, Indexing
    <2>2. ASSUME asserts
          PROVE  /\ \A e, f \in owners' : index'[e] = index'[f] => e = f
                 /\ used' = {index'[e] : e \in owners'}
      <3>1. /\ \A e, f \in owners : index[e] = index[f] => e = f
            /\ used = {index[e] : e \in owners}
        BY <2>2 DEF IInv, Indexing, IndexesAreExclusive
      <3>2. used' = {index[e] : e \in owners \ {d}}
        BY <1>1, <2>2, <3>1
      <3>3. QED
        BY <1>1, <3>1, <3>2
    <2>3. QED
      BY <1>1, <1>2, <2>1, <2>2 DEF IInv, Indexing, IndexesAreExclusive
  <1>12. Ownership'
    <2>1. InMap \subseteq owners' /\ readers \subseteq owners'
      BY <1>1, <1>5 DEF IInv, References, TypeOK
    <2>2. QED
      BY <1>1, <1>2, <1>4, <1>6, <2>1 DEF IInv, Ownership
  <1>13. OnDisk'
    <2> SUFFICES ASSUME asserts, ~crashed' PROVE OnDisk'
      BY DEF OnDisk
    <2>1. /\ \A e \in owners : ~file[e].error
          /\ \A e \in owners : file[e].present /\ ~file[e].over => disk[index[e]] = e
      BY <1>1, <1>2 DEF IInv, OnDisk
    <2>2. \A e \in owners' : e \in owners /\ file'[e] = file[e]
      BY <1>1, <1>4, <1>6
    <2>3. QED
      BY <1>1, <1>2, <2>1, <2>2 DEF OnDisk
  <1>14. Accounted' /\ Fresh'
    <2>1. \A e \in owners : e # d => e \in owners' /\ file'[e] = file[e]
      BY <1>1, <1>4, <1>6
    <2>2. \A e \in owners' : e \in owners /\ e # d
      BY <1>1
    <2>3. Accounted'
      BY <1>1, <1>2, <2>1 DEF IInv, Accounted
    <2>4. Fresh'
      BY <1>1, <1>2, <2>1, <2>2 DEF IInv, Fresh
    <2>5. QED
      BY <2>3, <2>4
  <1>15. QED
    BY <1>8, <1>9, <1>10, <1>11, <1>12, <1>13, <1>14 DEF IInv

(***************************************************************************)
(* A command changes the map: the items S leave it, which nobody may have  *)
(* open, and the items K of a group enter it.                              *)
(***************************************************************************)
MapChange(S, K) ==
    /\ phase = "up"
    /\ UNCHANGED <<phase, catalog, catalogFile, disk, index, made, readers, owners, used, freed,
                   crashed>>
    /\ S \subseteq InMap /\ InMap' = (InMap \ S) \cup K
    /\ \A d \in K : file[d].finished /\ \E t \in Threads : d \in group[t]
    /\ label2data' \in [Labels -> Data \cup {NoData}]
    /\ \A l, m \in Labels : (label2data'[l] = label2data'[m] /\ label2data'[l] # NoData) => l = m
    /\ file' = Owning(S, K)
    /\ group' \in [Threads -> SUBSET owners] /\ label' \in [Data -> Labels \cup {NoData}]
    /\ \A t \in Threads : group'[t] \subseteq group[t] \ K
    /\ \A t \in Threads : \A d \in group'[t] : label'[d] = label[d]

LEMMA MapChangeKeeps ==
  ASSUME NEW S, NEW K, IInv, MapChange(S, K), UNCHANGED asserts
  PROVE  IInv'
  <1>0. asserts' = asserts
    OBVIOUS
  <1> USE <1>0
  <1>1. /\ UNCHANGED <<phase, catalog, catalogFile, disk, index, made, readers, owners, used,
                       freed, crashed>>
        /\ phase = "up" /\ S \subseteq InMap /\ InMap' = (InMap \ S) \cup K
        /\ \A d \in K : file[d].finished /\ \E t \in Threads : d \in group[t]
    BY DEF MapChange
  <1>2. Catalogued' = Catalogued /\ Running /\ Running'
    BY <1>1 DEF Catalogued, Running
  <1>3. \A d \in K : /\ d \in Data /\ d \in owners /\ d \notin InMap /\ d \notin Catalogued
                     /\ d \notin readers /\ ~file[d].over
    BY <1>1, InGroup
  <1>4. owners \subseteq Data /\ Catalogued \subseteq Data /\ owners \subseteq 1 .. made
        /\ InMap \subseteq owners /\ readers \subseteq owners
    BY DirectoryAssumption DEF IInv, TypeOK, References, Catalogued, Data
  <1>5. /\ file' \in [Data -> Files]
        /\ \A d \in Data : /\ file'[d].owner = IF d \in S THEN TRUE
                                               ELSE IF d \in K THEN FALSE ELSE file[d].owner
                           /\ file'[d].present = file[d].present
                           /\ file'[d].open = file[d].open
                           /\ file'[d].finished = file[d].finished
                           /\ file'[d].error = file[d].error
                           /\ file'[d].over = file[d].over
        /\ \A d \in Data \ (S \cup K) : file'[d] = file[d]
    <2>1. \A d \in Data : file[d] \in Files
      BY DEF IInv, TypeOK
    <2>2. \A d \in Data : file'[d] = CASE d \in S -> [file[d] EXCEPT !.owner = TRUE]
                                       [] d \in K \ S -> [file[d] EXCEPT !.owner = FALSE]
                                       [] OTHER -> file[d]
      BY DEF MapChange, Owning
    <2>3. ASSUME NEW d \in Data
          PROVE  /\ file'[d] \in Files
                 /\ file'[d].owner = IF d \in S THEN TRUE
                                     ELSE IF d \in K THEN FALSE ELSE file[d].owner
                 /\ file'[d].present = file[d].present
                 /\ file'[d].open = file[d].open
                 /\ file'[d].finished = file[d].finished
                 /\ file'[d].error = file[d].error
                 /\ file'[d].over = file[d].over
                 /\ d \notin S \cup K => file'[d] = file[d]
      <3>1. CASE d \in S
        <4>1. file'[d] = [file[d] EXCEPT !.owner = TRUE]
          BY <2>2, <3>1
        <4>2. QED
          BY <2>1, <3>1, <4>1 DEF Files
      <3>2. CASE d \in K \ S
        <4>1. file'[d] = [file[d] EXCEPT !.owner = FALSE]
          BY <2>2, <3>2
        <4>2. QED
          BY <2>1, <3>2, <4>1 DEF Files
      <3>3. CASE d \notin S \cup K
        <4>1. file'[d] = file[d]
          BY <2>2, <3>3
        <4>2. QED
          BY <2>1, <3>3, <4>1
      <3>4. QED
        BY <3>1, <3>2, <3>3
    <2>4. file' = [d \in Data |-> file'[d]]
      BY DEF MapChange, Owning
    <2>5. QED
      BY <2>3, <2>4
  <1>6. \A t \in Threads : group'[t] \subseteq group[t] \ K
    BY DEF MapChange
  <1>7. TypeOK'
    BY <1>1, <1>5 DEF IInv, TypeOK, MapChange
  <1>8. References'
    <2>1. \A d \in owners : file'[d].over => Unreferenced(d)'
      <3> SUFFICES ASSUME NEW d \in owners, file'[d].over PROVE Unreferenced(d)'
        OBVIOUS
      <3>1. file[d].over
        BY <1>4, <1>5
      <3>2. Unreferenced(d) /\ d \notin K
        BY <1>3, <3>1 DEF IInv, References
      <3>3. d \notin InMap' /\ d \notin readers' /\ d \in owners'
        BY <1>1, <3>2 DEF Unreferenced, InMap
      <3>4. \A t \in Threads : d \notin group'[t]
        BY <1>6, <3>2 DEF Unreferenced
      <3>5. QED
        BY <3>3, <3>4 DEF Unreferenced, InMap
    <2>2. \A d \in Data \ owners' : file'[d] = NewFile
      BY <1>1, <1>3, <1>4, <1>5 DEF IInv, References
    <2>3. InMap' \subseteq owners'
      BY <1>1, <1>3, <1>4
    <2>4. \A l, m \in Labels : (label2data'[l] = label2data'[m] /\ label2data'[l] # NoData) => l = m
      BY DEF MapChange
    <2>5. QED
      BY <1>1, <1>2, <2>1, <2>2, <2>3, <2>4 DEF IInv, References
  <1>9. Groups'
    <2>1. \A t \in Threads : group'[t] \cap (InMap' \cup readers' \cup Catalogued') = {}
      BY <1>1, <1>2, <1>6 DEF IInv, Groups
    <2>2. \A t, u \in Threads : t # u => group'[t] \cap group'[u] = {}
      BY <1>6 DEF IInv, Groups
    <2>3. \A t \in Threads : \A d, e \in group'[t] :
             label'[d] \in Labels /\ (label'[d] = label'[e] => d = e)
      BY <1>6 DEF IInv, Groups, MapChange
    <2>4. QED
      BY <2>1, <2>2, <2>3 DEF Groups
  <1>10. Indexing'
    BY <1>1, <1>2 DEF IInv, Indexing, IndexesAreExclusive
  <1>11. Ownership'
    <2>1. \A d \in owners : file'[d].owner <=> d \notin InMap'
      BY <1>1, <1>3, <1>4, <1>5 DEF IInv, Ownership
    <2>2. \A d \in owners : file'[d].finished => file'[d].present \/ file'[d].error
      BY <1>4, <1>5 DEF IInv, Ownership
    <2>3. \A d \in InMap' \cup readers : file'[d].finished
      BY <1>1, <1>3, <1>4, <1>5 DEF IInv, Ownership
    <2>4. QED
      BY <1>1, <2>1, <2>2, <2>3 DEF Ownership
  <1>12. OnDisk'
    <2> SUFFICES ASSUME asserts, ~crashed' PROVE OnDisk'
      BY DEF OnDisk
    <2>1. /\ \A e \in owners : ~file[e].error
          /\ \A e \in owners : file[e].present /\ ~file[e].over => disk[index[e]] = e
      BY <1>1, <1>2 DEF IInv, OnDisk
    <2>2. \A e \in owners : /\ file'[e].present <=> file[e].present
                            /\ file'[e].error <=> file[e].error
                            /\ file'[e].over <=> file[e].over
      BY <1>4, <1>5
    <2>3. QED
      BY <1>1, <1>2, <2>1, <2>2 DEF OnDisk
  <1>13. Accounted' /\ Fresh'
    <2>1. \A e \in owners : /\ file'[e].present <=> file[e].present
                            /\ file'[e].over <=> file[e].over
      BY <1>4, <1>5
    <2>2. QED
      BY <1>1, <1>2, <2>1 DEF IInv, Accounted, Fresh
  <1>14. QED
    BY <1>7, <1>8, <1>9, <1>10, <1>11, <1>12, <1>13 DEF IInv

(* Each of the three commands is such a change, or fails the assertion.    *)
LEMMA DeleteKeeps ==
  ASSUME NEW l \in Labels, IInv, Delete(l), UNCHANGED asserts
  PROVE  IInv'
  <1>0. asserts' = asserts
    OBVIOUS
  <1> USE <1>0
  <1> DEFINE S == ItemsOf({l})
  <1>1. CASE OwnFails(S)
    <2>1. Killed /\ UNCHANGED <<diskVars, index, made>>
      BY <1>1 DEF Delete, Change
    <2>2. QED
      BY <2>1, KilledKeeps
  <1>2. CASE ~OwnFails(S)
    <2>1. /\ UNCHANGED <<phase, catalog, catalogFile, disk, index, made, readers, owners, used,
                         freed, crashed>>
          /\ phase = "up" /\ label2data' = [label2data EXCEPT ![l] = NoData]
          /\ file' = Owning(S, {}) /\ UNCHANGED <<group, label>>
      BY <1>2 DEF Delete, Change, diskVars
    <2>2. S = {label2data[l]} /\ label2data[l] # NoData
      BY DEF Delete, ItemsOf
    <2>3. /\ label2data \in [Labels -> Data \cup {NoData}]
          /\ \A k, m \in Labels : (label2data[k] = label2data[m] /\ label2data[k] # NoData) => k = m
      BY DEF IInv, TypeOK, References
    <2>4. \A m \in Labels : label2data'[m] = IF m = l THEN NoData ELSE label2data[m]
      BY <2>1, <2>3
    <2>5. S \subseteq InMap /\ InMap' = InMap \ S
      BY <2>2, <2>3, <2>4 DEF InMap, ItemsOf
    <2>6. \A k, m \in Labels : (label2data'[k] = label2data'[m] /\ label2data'[k] # NoData) => k = m
      BY <2>3, <2>4
    <2>7. label2data' \in [Labels -> Data \cup {NoData}]
      BY <2>1, <2>3
    <2> HIDE DEF S
    <2>8. MapChange(S, {})
      BY <2>1, <2>5, <2>6, <2>7 DEF MapChange, IInv, TypeOK
    <2>9. QED
      BY <2>8, MapChangeKeeps
  <1>3. QED
    BY <1>1, <1>2

LEMMA RenameKeeps ==
  ASSUME NEW old \in Labels, NEW new \in Labels, IInv, Rename(old, new), UNCHANGED asserts
  PROVE  IInv'
  <1>0. asserts' = asserts
    OBVIOUS
  <1> USE <1>0
  <1> DEFINE S == ItemsOf({new} \ {old})
  <1>1. CASE OwnFails(S)
    <2>1. Killed /\ UNCHANGED <<diskVars, index, made>>
      BY <1>1 DEF Rename, Change
    <2>2. QED
      BY <2>1, KilledKeeps
  <1>2. CASE ~OwnFails(S)
    <2>1. /\ UNCHANGED <<phase, catalog, catalogFile, disk, index, made, readers, owners, used,
                         freed, crashed>>
          /\ phase = "up"
          /\ label2data' = [label2data EXCEPT ![old] = NoData, ![new] = label2data[old]]
          /\ file' = Owning(S, {}) /\ UNCHANGED <<group, label>>
      BY <1>2 DEF Rename, Change, diskVars
    <2>2. /\ S = {label2data[m] : m \in {new} \ {old}} \ {NoData}
          /\ label2data[old] # NoData
      BY DEF Rename, ItemsOf
    <2>3. /\ label2data \in [Labels -> Data \cup {NoData}]
          /\ \A k, m \in Labels : (label2data[k] = label2data[m] /\ label2data[k] # NoData) => k = m
      BY DEF IInv, TypeOK, References
    <2>4. \A m \in Labels : label2data'[m] = IF m = new THEN label2data[old]
                                             ELSE IF m = old THEN NoData ELSE label2data[m]
      BY <2>1, <2>3
    <2>5. S \subseteq InMap
      BY <2>2 DEF InMap, ItemsOf
    <2>6. \A d : d \in InMap' <=> d \in InMap \ S
      <3>1. ASSUME NEW d \in InMap' PROVE d \in InMap \ S
        <4>1. PICK m \in Labels : label2data'[m] = d /\ d # NoData
          BY <3>1 DEF InMap, ItemsOf
        <4>2. CASE m = new
          BY <2>2, <2>3, <2>4, <4>1, <4>2 DEF InMap, ItemsOf
        <4>3. CASE m # new
          BY <2>2, <2>3, <2>4, <4>1, <4>3 DEF InMap, ItemsOf
        <4>4. QED
          BY <4>2, <4>3
      <3>2. ASSUME NEW d \in InMap \ S PROVE d \in InMap'
        <4>1. PICK m \in Labels : label2data[m] = d /\ d # NoData
          BY <3>2 DEF InMap, ItemsOf
        <4>2. CASE m = old
          <5>1. label2data'[new] = d
            BY <2>4, <4>1, <4>2
          <5>2. QED
            BY <4>1, <5>1 DEF InMap, ItemsOf
        <4>3. CASE m # old
          <5>1. m # new
            BY <2>2, <3>2, <4>1, <4>3
          <5>2. label2data'[m] = d
            BY <2>4, <4>1, <4>3, <5>1
          <5>3. QED
            BY <4>1, <5>2 DEF InMap, ItemsOf
        <4>4. QED
          BY <4>2, <4>3
      <3>3. QED
        BY <3>1, <3>2
    <2>7. \A k, m \in Labels : (label2data'[k] = label2data'[m] /\ label2data'[k] # NoData) => k = m
      BY <2>3, <2>4
    <2>8. label2data' \in [Labels -> Data \cup {NoData}]
      BY <2>1, <2>3
    <2> HIDE DEF S
    <2>9. MapChange(S, {})
      BY <2>1, <2>5, <2>6, <2>7, <2>8 DEF MapChange, IInv, TypeOK
    <2>10. QED
      BY <2>9, MapChangeKeeps
  <1>3. QED
    BY <1>1, <1>2

LEMMA AddKeeps ==
  ASSUME NEW t \in Threads, IInv, Add(t), UNCHANGED asserts
  PROVE  IInv'
  <1>0. asserts' = asserts
    OBVIOUS
  <1> USE <1>0
  <1> DEFINE G == group[t]
             S == ItemsOf(LabelsOf(G))
             item(l) == CHOOSE d \in G : label[d] = l
  <1>1. CASE OwnFails(S)
    <2>1. Killed /\ UNCHANGED <<diskVars, index, made>>
      BY <1>1 DEF Add, Change
    <2>2. QED
      BY <2>1, KilledKeeps
  <1>2. CASE ~OwnFails(S)
    <2>1. /\ UNCHANGED <<phase, catalog, catalogFile, disk, index, made, readers, owners, used,
                         freed, crashed>>
          /\ phase = "up"
          /\ label2data' = [l \in Labels |-> IF l \in LabelsOf(G) THEN item(l) ELSE label2data[l]]
          /\ file' = Owning(S, G) /\ LeavesGroup(t) /\ \A d \in G : file[d].finished
      BY <1>2 DEF Add, Change, diskVars
    <2>2. /\ label2data \in [Labels -> Data \cup {NoData}]
          /\ \A k, m \in Labels : (label2data[k] = label2data[m] /\ label2data[k] # NoData) => k = m
      BY DEF IInv, TypeOK, References
    <2>3. \A d \in G : d \in Data /\ d # NoData /\ d \notin InMap
      BY InGroup, DirectoryAssumption DEF Data, NoData
    <2>4. \A d, e \in G : label[d] \in Labels /\ (label[d] = label[e] => d = e)
      BY DEF IInv, Groups
    <2>5. \A l \in LabelsOf(G) : item(l) \in G /\ label[item(l)] = l
      <3> SUFFICES ASSUME NEW l \in LabelsOf(G) PROVE item(l) \in G /\ label[item(l)] = l
        OBVIOUS
      <3>1. \E d \in G : label[d] = l
        BY DEF LabelsOf
      <3>2. QED
        BY <3>1, Zenon
    <2>6. \A d \in G : label[d] \in LabelsOf(G) /\ item(label[d]) = d
      <3>1. \A d \in G : label[d] \in LabelsOf(G)
        BY DEF LabelsOf
      <3>2. QED
        BY <2>4, <2>5, <3>1
    <2> HIDE DEF item
    <2>7. \A m \in Labels : label2data'[m] = IF m \in LabelsOf(G) THEN item(m) ELSE label2data[m]
      BY <2>1
    <2>8. LabelsOf(G) \subseteq Labels
      BY <2>4 DEF LabelsOf
    <2>9. S \subseteq InMap /\ S = {label2data[l] : l \in LabelsOf(G)} \ {NoData}
      BY <2>8 DEF InMap, ItemsOf
    <2>10. \A d : d \in InMap' <=> d \in (InMap \ S) \cup G
      <3>1. ASSUME NEW d \in InMap' PROVE d \in (InMap \ S) \cup G
        <4>1. PICK m \in Labels : label2data'[m] = d /\ d # NoData
          BY <3>1 DEF InMap, ItemsOf
        <4>2. CASE m \in LabelsOf(G)
          BY <2>5, <2>7, <4>1, <4>2
        <4>3. CASE m \notin LabelsOf(G)
          <5>1. label2data[m] = d
            BY <2>7, <4>1, <4>3
          <5>2. d \in InMap
            BY <4>1, <5>1 DEF InMap, ItemsOf
          <5>3. d \notin S
            BY <2>2, <2>8, <2>9, <4>1, <4>3, <5>1
          <5>4. QED
            BY <5>2, <5>3
        <4>4. QED
          BY <4>2, <4>3
      <3>2. ASSUME NEW d \in InMap \ S PROVE d \in InMap'
        <4>1. PICK m \in Labels : label2data[m] = d /\ d # NoData
          BY <3>2 DEF InMap, ItemsOf
        <4>2. m \notin LabelsOf(G)
          BY <2>9, <3>2, <4>1
        <4>3. label2data'[m] = d
          BY <2>7, <4>1, <4>2
        <4>4. QED
          BY <4>1, <4>3 DEF InMap, ItemsOf
      <3>3. ASSUME NEW d \in G PROVE d \in InMap'
        <4>1. label2data'[label[d]] = d
          BY <2>4, <2>6, <2>7
        <4>2. QED
          BY <2>3, <2>4, <4>1 DEF InMap, ItemsOf
      <3>4. QED
        BY <3>1, <3>2, <3>3
    <2>11. \A k, m \in Labels : (label2data'[k] = label2data'[m] /\ label2data'[k] # NoData) => k = m
      <3> SUFFICES ASSUME NEW k \in Labels, NEW m \in Labels, label2data'[k] = label2data'[m],
                          label2data'[k] # NoData
                   PROVE  k = m
        OBVIOUS
      <3>1. \A l \in Labels : label2data[l] # NoData => label2data[l] \in InMap
        BY DEF InMap, ItemsOf
      <3>2. CASE k \in LabelsOf(G) /\ m \in LabelsOf(G)
        BY <2>5, <2>7, <3>2
      <3>3. CASE k \in LabelsOf(G) /\ m \notin LabelsOf(G)
        BY <2>3, <2>5, <2>7, <3>1, <3>3
      <3>4. CASE k \notin LabelsOf(G) /\ m \in LabelsOf(G)
        BY <2>3, <2>5, <2>7, <3>1, <3>4
      <3>5. CASE k \notin LabelsOf(G) /\ m \notin LabelsOf(G)
        BY <2>2, <2>7, <3>5
      <3>6. QED
        BY <3>2, <3>3, <3>4, <3>5
    <2>12. label2data' \in [Labels -> Data \cup {NoData}]
      BY <2>1, <2>2, <2>3, <2>5
    <2>14. /\ group' \in [Threads -> SUBSET owners] /\ label' \in [Data -> Labels \cup {NoData}]
           /\ \A u \in Threads : group'[u] = IF u = t THEN {} ELSE group[u]
           /\ \A d \in Data : d \notin G => label'[d] = label[d]
      BY <2>1 DEF LeavesGroup, IInv, TypeOK
    <2>15. \A u \in Threads : group'[u] \subseteq group[u] \ G
      BY <2>14 DEF IInv, Groups
    <2>16. \A u \in Threads : \A d \in group'[u] : d \in Data /\ label'[d] = label[d]
      BY <2>14, <2>15, InGroup
    <2> HIDE DEF S
    <2>17. MapChange(S, G)
      BY <2>1, <2>9, <2>10, <2>11, <2>12, <2>14, <2>15, <2>16 DEF MapChange
    <2>18. QED
      BY <2>17, MapChangeKeeps
  <1>3. QED
    BY <1>1, <1>2

(* The items that the catalog gets keep their files.                       *)
LEMMA StoredRemovesNothing == IInv /\ Stored => disk' = disk
  <1> SUFFICES ASSUME IInv, Stored PROVE disk' = disk
    OBVIOUS
  <1>1. \A d \in owners : ~file[d].owner
    BY DEF Stored, IInv, References, Ownership
  <1>2. disk' = [i \in Indexes |-> disk[i]]
    BY <1>1 DEF Stored
  <1>3. QED
    BY <1>2 DEF IInv, TypeOK

LEMMA StoredKeeps == IInv /\ Stored /\ UNCHANGED asserts => IInv'
  <1> SUFFICES ASSUME IInv, Stored, UNCHANGED asserts PROVE IInv'
    OBVIOUS
  <1>0. asserts' = asserts
    OBVIOUS
  <1> USE <1>0
  <1>1. /\ phase = "storing" /\ phase' = "down" /\ catalogFile' = "whole" /\ catalog' = label2data
        /\ Forgotten /\ UNCHANGED <<index, made, crashed>> /\ disk' = disk
    BY StoredRemovesNothing DEF Stored
  <1>2. InMap' = {} /\ Catalogued' = InMap /\ Running /\ ~Running' /\ Blank'
    BY <1>1 DEF Forgotten, InMap, ItemsOf, Catalogued, Running, Blank
  <1>3. owners = InMap /\ readers = {} /\ owners \subseteq 1 .. made
    BY <1>1 DEF IInv, References, TypeOK
  <1>4. NewFile \in Files
    BY DEF NewFile, Files
  <1>5. TypeOK'
    BY <1>1, <1>4, DirectoryAssumption DEF IInv, TypeOK, Forgotten, NoData
  <1>6. References'
    BY <1>1, <1>2, <1>3 DEF IInv, References, Blank
  <1>7. Groups'
    BY <1>1 DEF Groups, Forgotten
  <1>8. Indexing'
    BY <1>1, <1>2, <1>3 DEF IInv, Indexing, IndexesAreExclusive, Forgotten
  <1>9. Ownership'
    BY <1>1, <1>2 DEF Ownership, Forgotten
  <1>10. OnDisk'
    <2> SUFFICES ASSUME asserts, ~crashed' PROVE OnDisk'
      BY DEF OnDisk
    <2>1. /\ \A e \in owners : ~file[e].error
          /\ \A e \in owners : file[e].present /\ ~file[e].over => disk[index[e]] = e
      BY <1>1, <1>2 DEF IInv, OnDisk
    <2>2. \A e \in owners : ~file[e].over /\ file[e].present
      BY <1>3, <2>1 DEF IInv, References, Ownership, Unreferenced, InMap
    <2>3. QED
      BY <1>1, <1>2, <1>3, <2>1, <2>2 DEF OnDisk
  <1>11. Accounted' /\ Fresh'
    BY <1>1, <1>2, <1>3 DEF IInv, Accounted, Fresh, Blank
  <1>12. QED
    BY <1>5, <1>6, <1>7, <1>8, <1>9, <1>10, <1>11 DEF IInv

LEMMA StepsKeep == IInv /\ [Next]_vars => IInv'
  <1> SUFFICES ASSUME IInv, [Next]_vars PROVE IInv'
    OBVIOUS
  <1>0. asserts' = asserts
    BY DEF Next, vars
  <1>1. CASE StartNew \/ Created \/ StartRefused \/ Stop
    BY <1>0, <1>1, PhaseKeeps
  <1>2. CASE StartLoad
    BY <1>0, <1>2, StartLoadKeeps
  <1>3. ASSUME NEW t \in Threads, NEW l \in Labels, StartItem(t, l) PROVE IInv'
    BY <1>0, <1>3, StartItemKeeps
  <1>4. ASSUME NEW t \in Threads, NEW d \in Data, AppendItem(t, d) PROVE IInv'
    BY <1>0, <1>4, AppendKeeps
  <1>5. ASSUME NEW t \in Threads, NEW d \in Data, Finish(t, d) PROVE IInv'
    BY <1>0, <1>5, FinishKeeps
  <1>6. ASSUME NEW t \in Threads, DropGroup(t) PROVE IInv'
    BY <1>0, <1>6, DropGroupKeeps
  <1>7. ASSUME NEW t \in Threads, Add(t) PROVE IInv'
    BY <1>0, <1>7, AddKeeps
  <1>8. ASSUME NEW l \in Labels, Delete(l) PROVE IInv'
    BY <1>0, <1>8, DeleteKeeps
  <1>9. ASSUME NEW l \in Labels, Prepare(l) PROVE IInv'
    BY <1>0, <1>9, PrepareKeeps
  <1>10. ASSUME NEW old \in Labels, NEW new \in Labels, Rename(old, new) PROVE IInv'
    BY <1>0, <1>10, RenameKeeps
  <1>11. ASSUME NEW d \in Data, ReaderDone(d) PROVE IInv'
    BY <1>0, <1>11, ReaderDoneKeeps
  <1>12. ASSUME NEW d \in Data, Unlink(d) PROVE IInv'
    BY <1>0, <1>12, UnlinkKeeps
  <1>13. ASSUME NEW d \in Data, Release(d) PROVE IInv'
    BY <1>0, <1>13, ReleaseKeeps
  <1>14. CASE Stored
    BY <1>0, <1>14, StoredKeeps
  <1>15. CASE Crash
    BY <1>0, <1>15, KilledKeeps DEF Crash
  <1>16. CASE Refused \/ UNCHANGED vars
    BY <1>16, NothingChanges DEF Refused
  <1>17. QED
    BY <1>1, <1>2, <1>3, <1>4, <1>5, <1>6, <1>7, <1>8, <1>9, <1>10, <1>11, <1>12, <1>13, <1>14,
       <1>15, <1>16 DEF Next, Step

THEOREM Invariance == Spec => []IInv
  BY InitHolds, StepsKeep, PTL DEF Spec

(***************************************************************************)
(* Every variable keeps its shape, with assertions or without.             *)
(***************************************************************************)
THEOREM TypeCorrect == Spec => []TypeOK
  <1>1. IInv => TypeOK
    BY DEF IInv
  <1>2. QED
    BY <1>1, Invariance, PTL

(***************************************************************************)
(* The assertions on indexes in FileOwner hold: used is what the           *)
(* FileOwners have, each its own, and freed is none of it, after any       *)
(* sequence of runs that load what earlier ones stored.                    *)
(***************************************************************************)
THEOREM IndexesBelongToOne == Spec => []IndexesAreExclusive
  <1>1. IInv => IndexesAreExclusive
    BY DEF IInv, Indexing
  <1>2. QED
    BY <1>1, Invariance, PTL

(***************************************************************************)
(* In a build with assertions what is stored, or still being read, is in   *)
(* its own file over any number of runs, as long as none is killed.        *)
(***************************************************************************)
THEOREM DataIsOnDisk == Spec => []StoredIsOnDiskAsserted
  <1>1. IInv => StoredIsOnDiskAsserted
    <2> SUFFICES ASSUME IInv, asserts, ~crashed, phase \in {"up", "storing"},
                        NEW d \in InMap \cup readers
                 PROVE  disk[index[d]] = d
      BY DEF StoredIsOnDiskAsserted, StoredIsOnDisk, InMap
    <2>1. d \in owners /\ Running
      BY DEF IInv, References, TypeOK, Running
    <2>2. ~file[d].over
      BY <2>1 DEF IInv, References, Unreferenced, InMap
    <2>3. ~file[d].error
      BY <2>1 DEF IInv, OnDisk
    <2>4. file[d].present
      BY <2>1, <2>3 DEF IInv, Ownership
    <2>5. QED
      BY <2>1, <2>2, <2>4 DEF IInv, OnDisk
  <1>2. QED
    BY <1>1, Invariance, PTL

(***************************************************************************)
(* In either build a run that was not killed leaves no file that its       *)
(* catalog does not list.                                                  *)
(***************************************************************************)
THEOREM DirectoryIsClean == Spec => []NoStrayFiles
  <1>1. IInv => NoStrayFiles
    BY DEF IInv, Accounted, NoStrayFiles, Running
  <1>2. QED
    BY <1>1, Invariance, PTL

(***************************************************************************)
(* In either build, and whenever the program is killed: a file of the      *)
(* catalog leaves the disk only when a command took one of its labels away *)
(* and nobody reads it any more.                                           *)
(***************************************************************************)
THEOREM CatalogIsKept == Spec => CatalogSurvives
  <1>1. IInv /\ [Next]_vars =>
            [\A d \in Catalogued : (disk[index[d]] = d /\ disk'[index[d]] # d) =>
                \E e \in Catalogued :
                    /\ index[e] = index[d]
                    /\ phase = "up" /\ e \notin ItemsOf(Labels) \cup readers]_vars
    <2> DEFINE Let(e) == phase = "up" /\ e \notin ItemsOf(Labels) \cup readers
    <2> SUFFICES ASSUME IInv, [Next]_vars, NEW d \in Catalogued,
                        disk[index[d]] = d, disk'[index[d]] # d
                 PROVE  \E e \in Catalogued : index[e] = index[d] /\ Let(e)
      BY Zenon
    <2>1. d # NoData /\ index[d] \in Indexes /\ d \in Data
      BY DirectoryAssumption DEF IInv, TypeOK, References, Indexing, Catalogued, Data
    <2>2. disk' # disk
      OBVIOUS
    <2>3. ASSUME NEW t \in Threads, NEW e \in Data, AppendItem(t, e)
          PROVE  FALSE
      <3>1. index[d] # index[e] \/ disk' = disk
        BY <2>1, <2>3 DEF AppendItem
      <3>2. disk' = disk \/ disk' = [disk EXCEPT ![index[e]] = e]
        BY <2>3 DEF AppendItem
      <3>3. QED
        BY <2>1, <3>1, <3>2 DEF IInv, TypeOK
    <2>4. ASSUME NEW e \in Data, Unlink(e)
          PROVE  e \in Catalogued /\ index[e] = index[d] /\ Let(e)
      <3>1. e \in owners /\ Let(e)
        BY <2>4 DEF Unlink, Unreferenced
      <3>2. disk' = [disk EXCEPT ![index[e]] = NoData] /\ file[e].present
        BY <2>2, <2>4 DEF Unlink
      <3>3. index[e] = index[d]
        BY <2>1, <3>2 DEF IInv, TypeOK
      <3>4. e \in Catalogued
        BY <3>1, <3>2, <3>3 DEF IInv, Fresh
      <3>5. QED
        BY <3>1, <3>3, <3>4
    <2>5. ~Stored
      BY <2>2, StoredRemovesNothing
    <2>6. (\E t \in Threads, e \in Data : AppendItem(t, e)) \/ (\E e \in Data : Unlink(e))
      BY <2>2, <2>5 DEF Next, Step, StartNew, Created, StartRefused, StartLoad, StartItem,
         Finish, DropGroup, Add, Delete, Prepare, Rename, ReaderDone, Release, Stop, Crash,
         Refused, Change, Killed, diskVars, vars
    <2>7. QED
      BY <2>3, <2>4, <2>6
  <1>2. QED
    BY <1>1, Invariance, PTL DEF Spec, CatalogSurvives
===============================================================================
