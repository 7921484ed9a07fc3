------------------------ MODULE MemoryStorageProofs ------------------------
(***************************************************************************)
(* What holds of MemoryStorage for any labels, threads and Outputs and any *)
(* number of serials: the theorems about MemoryStorage and their proofs.   *)
(***************************************************************************)
EXTENDS MemoryStorage, SequenceTheorems, FiniteSetTheorems, TLAPS

LEMMA SerialOfType == MapOK => \A l \in Labels : SerialOf(l) \in 0 .. MaxSerial
  BY ConstantsAssumption DEF MapOK, SerialOf, NoValue, Values

(***************************************************************************)
(* The map.                                                                *)
(***************************************************************************)
LEMMA MapInit == Init => MapOK
  BY ConstantsAssumption DEF Init, MapOK, NoValue, Values

LEMMA MapNext == MapOK /\ [Next]_vars => MapOK'
  <1> SUFFICES ASSUME MapOK, [Next]_vars PROVE MapOK'
    OBVIOUS
  <1> USE ConstantsAssumption
  <1>1. ASSUME NEW t \in Threads, NEW l \in Labels, Delete(t, l) PROVE MapOK'
    BY <1>1 DEF Delete, Release, MapOK, NoValue
  <1>2. ASSUME NEW t \in Threads, NEW old \in Labels, NEW new \in Labels,
               Rename(t, old, new)
        PROVE  MapOK'
    <2> DEFINE v == label2data[old]
    <2>1. v \in Values
      BY <1>2 DEF Rename, MapOK, NoValue, Values
    <2>2. label2data' \in [Labels -> 0 .. MaxSerial]
      BY <1>2, <2>1 DEF Rename, Move, MapOK, NoValue, Values
    <2>3. valueSerial' \in [Values -> 0 .. MaxSerial] /\ serial' \in 1 .. MaxSerial + 1
      BY <1>2, <2>1 DEF Rename, ReSerial, MapOK
    <2>4. QED
      BY <1>2, <2>2, <2>3 DEF Rename, Release, MapOK
  <1>3. ASSUME NEW t \in Threads, NEW G \in SUBSET Labels, AddBegin(t, G) PROVE MapOK'
    BY <1>3 DEF AddBegin, MapOK
  <1>4. ASSUME NEW t \in Threads, NEW l \in Labels, AddItem(t, l) PROVE MapOK'
    BY <1>4 DEF AddItem, MapOK, Values
  <1>5. ASSUME NEW t \in Threads, AddUnlock(t) PROVE MapOK'
    BY <1>5 DEF AddUnlock, Release, MapOK
  <1>6. ASSUME UNCHANGED mapVars PROVE MapOK'
    BY <1>6 DEF mapVars, MapOK
  <1>7. QED
    BY <1>1, <1>2, <1>3, <1>4, <1>5, <1>6
    DEF Next, ReadSerial, Notify, Register, List, SendListed, Prepare, vars, mapVars

(***************************************************************************)
(* Which serial names what.  Values created so far have distinct serials   *)
(* below the next one, a serial that is yet to come names no Value, and    *)
(* labels hold created Values, no two the same.                            *)
(***************************************************************************)
Naming ==
    /\ \A v \in Values : valueSerial[v] < serial /\ (v >= serial => valueSerial[v] = 0)
    /\ \A v, w \in Values : (valueSerial[v] # 0 /\ valueSerial[v] = valueSerial[w]) => v = w
    /\ \A l \in Labels : label2data[l] # NoValue => valueSerial[label2data[l]] # 0
    /\ \A l, m \in Labels : (label2data[l] # NoValue /\ label2data[l] = label2data[m]) => l = m

LEMMA NamingNext == MapOK /\ Naming /\ [Next]_vars => Naming'
  <1> SUFFICES ASSUME MapOK, Naming, [Next]_vars PROVE Naming'
    OBVIOUS
  <1> USE ConstantsAssumption
  <1>1. ASSUME NEW t \in Threads, NEW l \in Labels, Delete(t, l) PROVE Naming'
    BY <1>1 DEF Delete, MapOK, Naming, NoValue
  <1>2. ASSUME NEW t \in Threads, NEW old \in Labels, NEW new \in Labels,
               Rename(t, old, new)
        PROVE  Naming'
    <2> DEFINE v == label2data[old]
    <2>1. /\ v \in Values /\ v # NoValue /\ serial \in Nat
          /\ serial' = serial + 1
          /\ valueSerial' = [valueSerial EXCEPT ![v] = serial]
          /\ label2data' = [label2data EXCEPT ![old] = NoValue, ![new] = v]
      BY <1>2 DEF Rename, Move, ReSerial, MapOK, NoValue, Values
    <2>2. v < serial
      BY <2>1 DEF Naming, MapOK, Values
    <2>3. /\ \A w \in Values : valueSerial'[w] = IF w = v THEN serial ELSE valueSerial[w]
          /\ label2data'[new] = v
          /\ \A l \in Labels \ {new} : label2data'[l] \in {NoValue, label2data[l]}
                                     /\ label2data'[l] # v
      BY <2>1 DEF MapOK, Naming
    <2>4. \A l \in Labels : label2data[l] # NoValue => label2data[l] \in Values
      BY DEF MapOK, NoValue, Values
    <2>5. /\ \A w \in Values : valueSerial'[w] < serial' /\ (w >= serial' => valueSerial'[w] = 0)
          /\ \A w, u \in Values :
                (valueSerial'[w] # 0 /\ valueSerial'[w] = valueSerial'[u]) => w = u
      BY <2>1, <2>2, <2>3, SMTT(30) DEF Naming, MapOK, Values
    <2>6. \A l \in Labels : label2data'[l] # NoValue => valueSerial'[label2data'[l]] # 0
      BY <2>1, <2>3, <2>4 DEF Naming, MapOK
    <2>7. \A l, m \in Labels :
            (label2data'[l] # NoValue /\ label2data'[l] = label2data'[m]) => l = m
      <3>1. \A l, m \in Labels \ {new} :
              (label2data'[l] # NoValue /\ label2data'[l] = label2data'[m]) => l = m
        BY <2>3 DEF Naming
      <3>2. QED
        BY <2>3, <3>1
    <2>8. QED
      BY <2>5, <2>6, <2>7 DEF Naming
  <1>3. ASSUME NEW t \in Threads, NEW l \in Labels, AddItem(t, l) PROVE Naming'
    <2>1. /\ serial \in Values /\ serial # NoValue /\ serial' = serial + 1
          /\ valueSerial' = [valueSerial EXCEPT ![serial] = serial]
          /\ label2data' = [label2data EXCEPT ![l] = serial]
      BY <1>3 DEF AddItem, MapOK, NoValue, Values
    <2>2. valueSerial[serial] = 0
      BY <2>1 DEF Naming, Values
    <2>3. /\ \A w \in Values :
                valueSerial'[w] = IF w = serial THEN serial ELSE valueSerial[w]
          /\ \A k \in Labels : label2data'[k] = IF k = l THEN serial ELSE label2data[k]
      BY <2>1 DEF MapOK
    <2>4. \A k \in Labels : label2data[k] # NoValue =>
                label2data[k] \in Values /\ label2data[k] # serial
      BY <2>2 DEF MapOK, Naming, NoValue, Values
    <2>5. /\ \A w \in Values : valueSerial'[w] < serial' /\ (w >= serial' => valueSerial'[w] = 0)
          /\ \A w, u \in Values :
                (valueSerial'[w] # 0 /\ valueSerial'[w] = valueSerial'[u]) => w = u
      BY <2>1, <2>3 DEF Naming, MapOK, Values
    <2>6. \A k \in Labels : label2data'[k] # NoValue => valueSerial'[label2data'[k]] # 0
      BY <2>1, <2>3, <2>4 DEF Naming, NoValue
    <2>7. \A k, m \in Labels :
            (label2data'[k] # NoValue /\ label2data'[k] = label2data'[m]) => k = m
      BY <2>1, <2>3, <2>4 DEF Naming
    <2>8. QED
      BY <2>5, <2>6, <2>7 DEF Naming
  <1>4. ASSUME UNCHANGED <<label2data, valueSerial, serial>> PROVE Naming'
    BY <1>4 DEF Naming
  <1>5. QED
    BY <1>1, <1>2, <1>3, <1>4
    DEF Next, AddBegin, AddUnlock, ReadSerial, Notify, Register, List, SendListed, Prepare,
        vars, mapVars

LEMMA NamingInvariant == Spec => [](MapOK /\ Naming)
  <1>1. Init => Naming
    BY ConstantsAssumption DEF Init, Naming, NoValue, Values
  <1>2. QED
    BY <1>1, MapInit, MapNext, NamingNext, PTL DEF Spec

(* Whatever adds, overwrites, renames and deletes the threads perform, a   *)
(* serial belongs to the data of one label only.                           *)
THEOREM SerialsIdentify == Spec => []SerialIdentifiesLabel
  <1>1. MapOK /\ Naming => SerialIdentifiesLabel
    BY DEF MapOK, Naming, SerialIdentifiesLabel, SerialOf, NoValue, Values
  <1>2. QED
    BY <1>1, NamingInvariant, PTL

(* A step of any thread leaves a label's serial alone or gives the label   *)
(* the newest one.                                                         *)
THEOREM SerialsOnlyRise == Spec => SerialsRise
  <1> DEFINE Rises == \A l \in Labels : (SerialOf(l) # 0 /\ SerialOf(l)' # 0) =>
                          SerialOf(l) <= SerialOf(l)'
  <1>1. ASSUME MapOK, Naming, [Next]_vars PROVE Rises
    <2> USE ConstantsAssumption
    <2>1. ASSUME NEW t \in Threads, NEW l \in Labels, Delete(t, l) PROVE Rises
      BY <1>1, <2>1 DEF Delete, MapOK, Naming, SerialOf, NoValue, Values
    <2>2. ASSUME NEW t \in Threads, NEW old \in Labels, NEW new \in Labels,
                 Rename(t, old, new)
          PROVE  Rises
      BY <1>1, <2>2 DEF Rename, Move, ReSerial, MapOK, Naming, SerialOf, NoValue, Values
    <2>3. ASSUME NEW t \in Threads, NEW l \in Labels, AddItem(t, l) PROVE Rises
      BY <1>1, <2>3 DEF AddItem, MapOK, Naming, SerialOf, NoValue, Values
    <2>4. ASSUME UNCHANGED <<label2data, valueSerial, serial>> PROVE Rises
      BY <1>1, <2>4, SerialOfType DEF SerialOf, MapOK
    <2>5. QED
      BY <1>1, <2>1, <2>2, <2>3, <2>4
      DEF Next, AddBegin, AddUnlock, ReadSerial, Notify, Register, List, SendListed, Prepare,
          vars, mapVars
  <1>2. QED
    BY <1>1, NamingInvariant, PTL DEF Spec, SerialsRise

(***************************************************************************)
(* The types of what the threads say and the Outputs hear.                 *)
(***************************************************************************)
LEMMA HistoryNext == MapOK /\ HistoryOK /\ [Next]_vars => HistoryOK'
  <1> SUFFICES ASSUME MapOK, HistoryOK, [Next]_vars PROVE HistoryOK'
    OBVIOUS
  <1>1. MapOK'
    BY MapNext
  <1>2. Serials \in [Labels -> 0 .. MaxSerial] /\ Serials' \in [Labels -> 0 .. MaxSerial]
    <2>1. \A l \in Labels : SerialOf(l) \in 0 .. MaxSerial
      BY SerialOfType
    <2>2. \A l \in Labels : SerialOf(l)' \in 0 .. MaxSerial
      BY <1>1, SerialOfType, ConstantsAssumption DEF MapOK, SerialOf, NoValue, Values
    <2>3. QED
      BY <2>1, <2>2 DEF Serials
  <1>3. CASE Release /\ view' = view
    BY <1>1, <1>2, <1>3 DEF Release, HistoryOK, MapOK
  <1>4. CASE before' = before /\ view' \in {view, Serials}
    BY <1>2, <1>4 DEF HistoryOK
  <1>5. QED
    BY <1>3, <1>4
    DEF Next, Delete, Rename, AddBegin, AddItem, AddUnlock, ReadSerial, Notify, Register,
        List, SendListed, Prepare, vars, mapVars

LEMMA NoteQueues ==
    \A q \in Seq(NoteType) :
        /\ \A n \in NoteType : <<n>> \in Seq(NoteType) /\ Append(q, n) \in Seq(NoteType)
        /\ \A n, k \in NoteType : <<n, k>> \in Seq(NoteType)
        /\ q # << >> => /\ Head(q) \in NoteType /\ Tail(q) \in Seq(NoteType)
                       /\ \A n \in NoteType : [q EXCEPT ![1] = n] \in Seq(NoteType)
  <1>1. ASSUME NEW n \in NoteType, NEW k \in NoteType
        PROVE  <<n>> \in Seq(NoteType) /\ <<n, k>> \in Seq(NoteType)
    OBVIOUS
  <1>2. ASSUME NEW q \in Seq(NoteType), NEW n \in NoteType
        PROVE  Append(q, n) \in Seq(NoteType)
    BY AppendProperties
  <1>3. ASSUME NEW q \in Seq(NoteType), q # << >>
        PROVE  /\ Head(q) \in NoteType /\ Tail(q) \in Seq(NoteType)
               /\ \A n \in NoteType : [q EXCEPT ![1] = n] \in Seq(NoteType)
    <2>1. 1 \in 1 .. Len(q)
      BY <1>3, EmptySeq
    <2>2. QED
      BY <1>3, <2>1, HeadTailProperties, ExceptSeq
  <1>4. QED
    BY <1>1, <1>2, <1>3

LEMMA NotesNext == MapOK /\ NotesOK /\ [Next]_vars => NotesOK'
  <1> SUFFICES ASSUME MapOK, NotesOK, [Next]_vars PROVE NotesOK'
    OBVIOUS
  <1> USE ConstantsAssumption
  <1>1. ASSUME NEW t \in Threads, NEW l \in Labels, Delete(t, l) PROVE NotesOK'
    <2>1. Deleted(l, SerialOf(l)) \in NoteType
      BY SerialOfType DEF Deleted, Note, NoteType, SentType
    <2>2. QED
      BY <1>1, <2>1, NoteQueues DEF Delete, DeleteNotes, NotesOK
  <1>2. ASSUME NEW t \in Threads, NEW old \in Labels, NEW new \in Labels,
               Rename(t, old, new)
        PROVE  NotesOK'
    <2> DEFINE v == label2data[old]
    <2>1. v \in Values
      BY <1>2 DEF Rename, MapOK, NoValue, Values
    <2>2. Deleted(old, valueSerial[v]) \in NoteType /\ Unread(new, v) \in NoteType
      BY <2>1 DEF Deleted, Unread, Note, NoteType, SentType, MapOK
    <2>3. QED
      BY <1>2, <2>2, NoteQueues DEF Rename, NotesOK
  <1>3. ASSUME NEW t \in Threads, NEW l \in Labels, AddItem(t, l) PROVE NotesOK'
    <2>1. Stored(l, serial) \in NoteType
      BY <1>3 DEF AddItem, Stored, Note, NoteType, SentType, MapOK
    <2>2. QED
      BY <1>3, <2>1, NoteQueues DEF AddItem, NotesOK
  <1>4. ASSUME NEW t \in Threads, ReadSerial(t) PROVE NotesOK'
    <2> DEFINE n == Head(notes[t])
    <2>1. n \in NoteType /\ n.kind = "unread"
      BY <1>4, NoteQueues DEF ReadSerial, NotesOK
    <2>2. n.label \in Labels /\ n.serial \in Values
      BY <2>1 DEF NoteType, SentType
    <2>3. Stored(n.label, valueSerial[n.serial]) \in NoteType
      BY <2>2 DEF Stored, Note, NoteType, SentType, MapOK
    <2>4. QED
      BY <1>4, <2>3, NoteQueues DEF ReadSerial, NotesOK
  <1>5. ASSUME NEW t \in Threads, Notify(t) PROVE NotesOK'
    BY <1>5, NoteQueues DEF Notify, NotesOK
  <1>6. ASSUME UNCHANGED notes PROVE NotesOK'
    BY <1>6 DEF NotesOK
  <1>7. QED
    BY <1>1, <1>2, <1>3, <1>4, <1>5, <1>6
    DEF Next, AddBegin, AddUnlock, Register, List, SendListed, Prepare, vars

LEMMA ListenersNext == MapOK /\ NotesOK /\ ListenersOK /\ [Next]_vars => ListenersOK'
  <1> SUFFICES ASSUME MapOK, NotesOK, ListenersOK, [Next]_vars PROVE ListenersOK'
    OBVIOUS
  <1>1. ASSUME NEW t \in Threads, Notify(t) PROVE ListenersOK'
    <2>1. Head(notes[t]) \in NoteType /\ Head(notes[t]).kind # "unread"
      BY <1>1, NoteQueues DEF Notify, NotesOK
    <2>2. Head(notes[t]) \in SentType
      BY <2>1 DEF NoteType
    <2>3. QED
      BY <1>1, <2>2 DEF Notify, ListenersOK
  <1>2. ASSUME NEW o \in Outputs, List(o) PROVE ListenersOK'
    <2>1. \A l \in Labels : Stored(l, SerialOf(l)) \in SentType
      BY SerialOfType DEF Stored, Note, SentType
    <2>2. QED
      BY <1>2, <2>1 DEF List, ListenersOK
  <1>3. ASSUME NEW o \in Outputs, Register(o) \/ SendListed(o) PROVE ListenersOK'
    BY <1>3 DEF Register, SendListed, ListenersOK
  <1>4. ASSUME UNCHANGED listenVars PROVE ListenersOK'
    BY <1>4 DEF listenVars, ListenersOK
  <1>5. QED
    BY <1>1, <1>2, <1>3, <1>4
    DEF Next, Delete, Rename, AddBegin, AddItem, AddUnlock, ReadSerial, Prepare, vars,
        listenVars

(* In every reachable state every variable has its type.                   *)
THEOREM TypeCorrect == Spec => []TypeOK
  <1>1. Init => TypeOK
    <2>1. Init => NotesOK /\ ListenersOK /\ HistoryOK
      BY ConstantsAssumption DEF Init, NotesOK, ListenersOK, HistoryOK
    <2>2. QED
      BY <2>1, MapInit DEF TypeOK
  <1>2. TypeOK /\ [Next]_vars => TypeOK'
    BY MapNext, NotesNext, ListenersNext, HistoryNext DEF TypeOK
  <1>3. QED
    BY <1>1, <1>2, PTL DEF Spec

(***************************************************************************)
(* Refinement.  While no thread adds, before is the present map.  While    *)
(* one does, the labels whose serial differs from before's are the items   *)
(* added so far: they carry the serials from before.next on in the order   *)
(* of the labels, and come before all the group has left.                  *)
(***************************************************************************)
Added == {l \in Labels : SerialOf(l) # before.store[l]}

AddedInOrder ==
    /\ IsFiniteSet(Added)
    /\ Added \cup group[lock] # {}
    /\ serial = before.next + Cardinality(Added)
    /\ \A l \in Added : SerialOf(l) = before.next + Cardinality({k \in Added : k < l})
    /\ \A l \in Added, m \in group[lock] : l < m
    /\ \A l \in Labels : before.store[l] < before.next

Progress ==
    /\ lock = NoThread => before = [store |-> Serials, next |-> serial]
    /\ lock # NoThread => AddedInOrder

Steady == MapOK /\ Naming /\ HistoryOK /\ Progress

(* AddItem changes the serial of the label it stores and of no other.      *)
LEMMA ItemSerials ==
    ASSUME Steady, NEW t \in Threads, NEW l \in Labels, AddItem(t, l)
    PROVE  /\ SerialOf(l)' = serial
           /\ \A k \in Labels \ {l} : SerialOf(k)' = SerialOf(k)
  <1>1. /\ serial \in Values /\ serial # NoValue
        /\ valueSerial' = [valueSerial EXCEPT ![serial] = serial]
        /\ label2data' = [label2data EXCEPT ![l] = serial]
    BY ConstantsAssumption DEF Steady, AddItem, MapOK, NoValue, Values
  <1>2. \A k \in Labels : label2data[k] # NoValue =>
            label2data[k] \in Values /\ label2data[k] # serial
    BY <1>1, ConstantsAssumption DEF Steady, MapOK, Naming, NoValue, Values
  <1>3. QED
    BY <1>1, <1>2 DEF Steady, MapOK, SerialOf

LEMMA ItemProgress ==
    ASSUME Steady, NEW t \in Threads, NEW l \in Labels, AddItem(t, l)
    PROVE  Progress'
  <1>1. /\ lock = t /\ lock' = t /\ t # NoThread /\ before' = before
        /\ l \in group[t] /\ \A k \in group[t] : l <= k
        /\ group'[t] = group[t] \ {l}
        /\ serial' = serial + 1 /\ group[t] \subseteq Labels
    BY ConstantsAssumption DEF AddItem, Steady, MapOK
  <1>2. AddedInOrder
    BY <1>1 DEF Steady, Progress
  <1>3. /\ before.next \in Nat /\ serial \in Nat
        /\ \A k \in Labels : before.store[k] \in Nat
    BY DEF Steady, HistoryOK, MapOK
  <1>4. Labels \subseteq Nat
    BY ConstantsAssumption
  <1>5. l \notin Added
    BY <1>1, <1>2, <1>4 DEF AddedInOrder
  <1>6. Cardinality(Added) \in Nat /\ IsFiniteSet(Added)
    BY <1>2, FS_CardinalityType DEF AddedInOrder
  <1>7. Added' = Added \cup {l}
    <2>1. serial # before.store[l]
      BY <1>2, <1>3, <1>6 DEF AddedInOrder
    <2>2. QED
      BY <1>1, <2>1, ItemSerials DEF Added
  <1>8. IsFiniteSet(Added') /\ Cardinality(Added') = Cardinality(Added) + 1
    BY <1>5, <1>6, <1>7, FS_AddElement
  <1> DEFINE A == Added
  <1>9. l \in Nat /\ (\A k \in A : k \in Nat /\ k < l) /\ group[t] \subseteq Nat
    BY <1>1, <1>2, <1>4 DEF AddedInOrder, Added
  <1> HIDE DEF A
  <1>10. {k \in A \cup {l} : k < l} = A
    BY <1>9
  <1>11. \A m \in A : {k \in A \cup {l} : k < m} = {k \in A : k < m}
    BY <1>9
  <1> USE DEF A
  <1>12. \A m \in Added' : SerialOf(m)' = before.next + Cardinality({k \in Added' : k < m})
    <2>1. SerialOf(l)' = before.next + Cardinality({k \in Added' : k < l})
      BY <1>2, <1>7, <1>10, ItemSerials DEF AddedInOrder
    <2>2. ASSUME NEW m \in Added
          PROVE  SerialOf(m)' = before.next + Cardinality({k \in Added' : k < m})
      <3>1. m \in Labels \ {l}
        BY <1>5 DEF Added
      <3>2. SerialOf(m)' = SerialOf(m)
        BY <3>1, ItemSerials
      <3>3. QED
        BY <1>2, <1>7, <1>11, <3>2 DEF AddedInOrder
    <2>3. QED
      BY <1>7, <2>1, <2>2
  <1>13. \A k \in Added', m \in group'[t] : k < m
    <2>1. \A k \in Added, m \in group[t] : k < m
      BY <1>1, <1>2 DEF AddedInOrder
    <2>2. \A m \in group'[t] : m \in group[t] /\ l < m
      BY <1>1, <1>9
    <2>3. QED
      BY <1>7, <2>1, <2>2
  <1>14. serial' = before.next + Cardinality(Added')
    BY <1>1, <1>2, <1>3, <1>6, <1>8 DEF AddedInOrder
  <1>15. AddedInOrder'
    BY <1>1, <1>2, <1>7, <1>8, <1>12, <1>13, <1>14 DEF AddedInOrder
  <1>16. QED
    BY <1>1, <1>15 DEF Progress

LEMMA ProgressNext == Steady /\ [Next]_vars => Progress'
  <1> SUFFICES ASSUME Steady, [Next]_vars PROVE Progress'
    OBVIOUS
  <1>1. ASSUME Release PROVE Progress'
    BY <1>1 DEF Release, Progress
  <1>2. ASSUME NEW t \in Threads, NEW G \in SUBSET Labels, AddBegin(t, G) PROVE Progress'
    <2>1. /\ before = [store |-> Serials, next |-> serial]
          /\ lock' = t /\ t # NoThread /\ group'[t] = G /\ G # {}
          /\ UNCHANGED <<label2data, valueSerial, serial, before>>
      BY <1>2, ConstantsAssumption DEF AddBegin, Steady, Progress, MapOK
    <2>2. \A l \in Labels : SerialOf(l) = before.store[l] /\ SerialOf(l)' = SerialOf(l)
      BY <2>1 DEF Serials, SerialOf
    <2>3. Added' = {}
      BY <2>1, <2>2 DEF Added
    <2>4. \A l \in Labels : SerialOf(l) < serial
      BY DEF Steady, MapOK, Naming, SerialOf, NoValue, Values
    <2>5. AddedInOrder'
      BY <2>1, <2>2, <2>3, <2>4, FS_EmptySet DEF AddedInOrder, Steady, MapOK
    <2>6. QED
      BY <2>1, <2>5 DEF Progress
  <1>3. ASSUME UNCHANGED mapVars PROVE Progress'
    BY <1>3 DEF Steady, Progress, AddedInOrder, Added, Serials, SerialOf, mapVars
  <1>4. QED
    BY <1>1, <1>2, <1>3, ItemProgress
    DEF Next, Delete, Rename, AddUnlock, ReadSerial, Notify, Register, List, SendListed,
        Prepare, vars, mapVars

LEMMA SteadyInvariant == Spec => []Steady
  <1>1. Init => Steady
    <2>1. Init => MapOK /\ HistoryOK
      BY MapInit, ConstantsAssumption DEF Init, HistoryOK
    <2>2. Init => Naming
      BY ConstantsAssumption DEF Init, Naming, NoValue, Values
    <2>3. Init => Progress
      BY DEF Init, Progress, Serials, SerialOf, NoValue
    <2>4. QED
      BY <2>1, <2>2, <2>3 DEF Steady
  <1>2. Steady /\ [Next]_vars => Steady'
    BY MapNext, NamingNext, HistoryNext, ProgressNext DEF Steady
  <1>3. QED
    BY <1>1, <1>2, PTL DEF Spec

LEMMA DeletesOne ==
    ASSUME Steady, NEW t \in Threads, NEW l \in Labels, Delete(t, l)
    PROVE  Promise!Delete(l)
  <1>1. /\ before = [store |-> Serials, next |-> serial]
        /\ before' = [store |-> Serials', next |-> serial]
        /\ label2data' = [label2data EXCEPT ![l] = NoValue]
        /\ label2data[l] # NoValue
        /\ UNCHANGED <<valueSerial, view>>
    BY DEF Delete, Release, Steady, Progress
  <1>2. SerialOf(l) # 0
    BY <1>1 DEF Steady, Naming, SerialOf
  <1>3. Serials' = [Serials EXCEPT ![l] = 0]
    BY <1>1 DEF Serials, SerialOf, Steady, MapOK
  <1>4. QED
    BY <1>1, <1>2, <1>3 DEF Promise!Delete, Serials

(* Rename changes the serials of the two labels it names and of no other.  *)
LEMMA RenameSerials ==
    ASSUME Steady, NEW t \in Threads, NEW old \in Labels, NEW new \in Labels,
           Rename(t, old, new)
    PROVE  /\ SerialOf(new)' = serial
           /\ old # new => SerialOf(old)' = 0
           /\ \A k \in Labels \ {old, new} : SerialOf(k)' = SerialOf(k)
  <1> DEFINE v == label2data[old]
  <1>1. /\ label2data' = [label2data EXCEPT ![old] = NoValue, ![new] = v]
        /\ valueSerial' = [valueSerial EXCEPT ![v] = serial]
        /\ v # NoValue /\ v \in Values
    BY DEF Rename, Move, ReSerial, Steady, MapOK, NoValue, Values
  <1>2. SerialOf(new)' = serial
    BY <1>1 DEF SerialOf, Steady, MapOK
  <1>3. old # new => SerialOf(old)' = 0
    BY <1>1 DEF SerialOf, Steady, MapOK
  <1>4. \A k \in Labels \ {old, new} : SerialOf(k)' = SerialOf(k)
    BY <1>1 DEF SerialOf, Steady, MapOK, Naming, NoValue, Values
  <1>5. QED
    BY <1>2, <1>3, <1>4

LEMMA RenamesOne ==
    ASSUME Steady, NEW t \in Threads, NEW old \in Labels, NEW new \in Labels,
           Rename(t, old, new)
    PROVE  Promise!Rename(old, new)
  <1>1. /\ before = [store |-> Serials, next |-> serial]
        /\ before' = [store |-> Serials', next |-> serial + 1]
        /\ label2data[old] # NoValue
        /\ view' = view
    BY DEF Rename, ReSerial, Release, Steady, Progress
  <1>2. SerialOf(old) # 0
    BY <1>1 DEF Steady, Naming, SerialOf
  <1>3. Serials' = [Serials EXCEPT ![old] = 0, ![new] = serial]
    <2>1. /\ SerialOf(new)' = serial
          /\ old # new => SerialOf(old)' = 0
          /\ \A k \in Labels \ {old, new} : SerialOf(k)' = SerialOf(k)
      BY RenameSerials
    <2>2. QED
      BY <2>1 DEF Serials
  <1>4. QED
    BY <1>1, <1>2, <1>3 DEF Promise!Rename, Serials

(* The two names of Cardinality are one operator.                          *)
LEMMA SameCardinality == \A S : Promise!Cardinality(S) = Cardinality(S)
  BY DEF Cardinality, Promise!Cardinality

LEMMA AddsAll ==
    ASSUME Steady, NEW t \in Threads, AddUnlock(t)
    PROVE  \E G \in (SUBSET Labels) \ {{}} : Promise!AddGroup(G)
  <1>1. /\ lock = t /\ t # NoThread /\ group[t] = {}
        /\ before' = [store |-> Serials', next |-> serial]
        /\ UNCHANGED <<label2data, valueSerial, view>>
    BY ConstantsAssumption DEF AddUnlock, Release
  <1>2. AddedInOrder
    BY <1>1 DEF Steady, Progress
  <1>3. Added \in (SUBSET Labels) \ {{}}
    <2>1. Added # {}
      <3>1. Added \cup group[lock] # {} /\ group[lock] = {}
        BY <1>1, <1>2 DEF AddedInOrder
      <3>2. QED
        BY <3>1
    <2>2. Added \subseteq Labels
      BY DEF Added
    <2>3. QED
      BY <2>1, <2>2
  <1>4. Serials' = Serials
    BY <1>1 DEF Serials, SerialOf
  <1>5. Serials = [l \in Labels |-> IF l \in Added
                                   THEN before.next + Cardinality({k \in Added : k < l})
                                   ELSE before.store[l]]
    BY <1>2 DEF Serials, AddedInOrder, Added
  <1>6. Promise!AddGroup(Added)
    BY <1>1, <1>2, <1>4, <1>5, SameCardinality DEF AddedInOrder, Promise!AddGroup
  <1>7. QED
    BY <1>3, <1>6

LEMMA Looks ==
    ASSUME Steady, lock = NoThread, view' = Serials, before' = before
    PROVE  Promise!Look
  BY DEF Steady, Progress, Promise!Look

(* MemoryStorage implements the map of labels to serials whose operations  *)
(* are single steps: every step of a thread is one operation of the map or *)
(* leaves it alone.                                                        *)
THEOREM Atomicity == Spec => GroupsAreAtomic
  <1>1. Init => Promise!Init
    BY DEF Init, Promise!Init
  <1>2. Steady /\ [Next]_vars => [Promise!Next]_(Promise!vars)
    <2> SUFFICES ASSUME Steady, [Next]_vars PROVE [Promise!Next]_(Promise!vars)
      OBVIOUS
    <2>1. CASE before' = before /\ view' = view
      BY <2>1 DEF Promise!vars
    <2>2. ASSUME NEW o \in Outputs, List(o) PROVE Promise!Next
      BY <2>2, Looks DEF List, mapVars, Promise!Next
    <2>3. CASE Prepare
      BY <2>3, Looks DEF Prepare, mapVars, Promise!Next
    <2>4. QED
      BY <2>1, <2>2, <2>3, DeletesOne, RenamesOne, AddsAll
      DEF Next, AddBegin, AddItem, ReadSerial, Notify, Register, SendListed, vars, mapVars,
          Promise!Next
  <1>3. QED
    BY <1>1, <1>2, SteadyInvariant, PTL DEF Spec, GroupsAreAtomic, Promise!Spec

(***************************************************************************)
(* What the listeners of a MemoryStorage can conclude from the             *)
(* notifications they hear, whichever threads rename.                      *)
(*                                                                         *)
(* What is said.  A notification waits until its thread sends it, the      *)
(* "stored" of a Rename with the serial its Value has by then.  What an    *)
(* Output says is what it has heard or would hear if every thread sent now *)
(* what it has to send.  A second rename can take back that a label was    *)
(* stored with a serial, and let a later serial be said of it instead.     *)
(***************************************************************************)
In(n, q) == \E i \in DOMAIN q : q[i] = n

Waits(n) == \E t \in Threads : In(n, notes[t])

Pending(kind, l, s) ==
    \/ Waits(Note(kind, l, s))
    \/ kind = "stored" /\ \E v \in Values : Waits(Unread(l, v)) /\ valueSerial[v] = s

Says(o, kind, l, s) == Pending(kind, l, s) \/ Note(kind, l, s) \in heard[o] \cup listing[o]

Kinds == {"stored", "deleted"}

(* A Rename that is not announced yet is one of a Value that exists.       *)
Renaming == \A t \in Threads, l \in Labels, v \in Values :
                In(Unread(l, v), notes[t]) => valueSerial[v] # 0

(* Every serial that is said has been handed out.                          *)
Below == \A o \in Outputs, kind \in Kinds, l \in Labels, s \in Nat :
            Says(o, kind, l, s) => s # 0 /\ s < serial

(* Serials that are said to be deleted are older than the one a label has, *)
(* and those registered and past List say that it is stored.               *)
LatestFor(o, l) ==
    \A s \in Nat : (s # 0 /\ SerialOf(l) = s) =>
        /\ \A q \in Nat : Says(o, "deleted", l, q) => q < s
        /\ o \in registered \ awaiting => Says(o, "stored", l, s)

Latest == \A o \in Outputs, l \in Labels : LatestFor(o, l)

(* Of every serial handed out the controller says where it went: to the    *)
(* label that has it, or that had it until the data was deleted or         *)
(* replaced by later data.                                                 *)
Replaced(o, l, s) ==
    /\ Says(o, "stored", l, s)
    /\ \A m \in Labels : SerialOf(m) # s
    /\ \E r \in Nat : s < r /\ Says(o, "stored", l, r)

Home(o, s) == \E l \in Labels :
    SerialOf(l) = s \/ Says(o, "deleted", l, s) \/ Replaced(o, l, s)

Homes == \A o \in Early, s \in Nat : (s # 0 /\ s < serial) => Home(o, s)

Always == Early \subseteq registered \ awaiting

Conclusions == Below /\ Latest /\ Homes /\ Always

Sound == TypeOK /\ Steady

LEMMA SoundInvariant == Spec => []Sound
  BY TypeCorrect, SteadyInvariant, PTL DEF Sound

(***************************************************************************)
(* Members of a queue, and what waits when one queue changes.              *)
(***************************************************************************)
LEMMA Members ==
    ASSUME NEW q \in Seq(NoteType), NEW a \in NoteType, NEW b \in NoteType, NEW n
    PROVE  /\ ~In(n, << >>)
           /\ In(n, <<a>>) <=> n = a
           /\ In(n, <<a, b>>) <=> n = a \/ n = b
           /\ In(n, Append(q, a)) <=> In(n, q) \/ n = a
  <1>1. ~In(n, << >>) /\ (In(n, <<a>>) <=> n = a) /\ (In(n, <<a, b>>) <=> n = a \/ n = b)
    BY DEF In
  <1>2. In(n, Append(q, a)) <=> In(n, q) \/ n = a
    <2>1. /\ DOMAIN Append(q, a) = 1 .. Len(q) + 1 /\ DOMAIN q = 1 .. Len(q)
          /\ Append(q, a)[Len(q) + 1] = a /\ Len(q) \in Nat
          /\ \A i \in 1 .. Len(q) : Append(q, a)[i] = q[i]
      BY AppendProperties
    <2>2. \A i \in 1 .. Len(q) + 1 : i \in 1 .. Len(q) \/ i = Len(q) + 1
      BY <2>1
    <2>3. (1 .. Len(q)) \subseteq (1 .. Len(q) + 1) /\ Len(q) + 1 \in 1 .. Len(q) + 1
      BY <2>1
    <2>4. QED
      BY <2>1, <2>2, <2>3, Zenon DEF In
  <1>3. QED
    BY <1>1, <1>2

(* e is q, whose first element may be another.                             *)
LEMMA FirstAndRest ==
    ASSUME NEW q \in Seq(NoteType), q # << >>, NEW e, DOMAIN e = DOMAIN q,
           \A i \in DOMAIN q \ {1} : e[i] = q[i], NEW n
    PROVE  1 \in DOMAIN q /\ (In(n, e) <=> n = e[1] \/ In(n, Tail(q)))
  <1>1. /\ Len(q) \in Nat \ {0} /\ DOMAIN q = 1 .. Len(q)
        /\ DOMAIN Tail(q) = 1 .. Len(q) - 1
        /\ \A i \in 1 .. Len(q) - 1 : Tail(q)[i] = q[i + 1]
    BY HeadTailProperties, EmptySeq
  <1>2. \A i \in DOMAIN q \ {1} : \E j \in DOMAIN Tail(q) : Tail(q)[j] = q[i]
    <2>1. ASSUME NEW i \in DOMAIN q \ {1}
          PROVE  i - 1 \in DOMAIN Tail(q) /\ Tail(q)[i - 1] = q[i]
      <3>1. i \in 1 .. Len(q) /\ i # 1 /\ i - 1 \in 1 .. Len(q) - 1 /\ (i - 1) + 1 = i
        BY <1>1
      <3>2. QED
        BY <1>1, <3>1
    <2>2. QED
      BY <2>1
  <1>3. \A j \in DOMAIN Tail(q) : \E i \in DOMAIN q \ {1} : Tail(q)[j] = q[i]
    <2>1. ASSUME NEW j \in DOMAIN Tail(q)
          PROVE  j + 1 \in DOMAIN q \ {1} /\ Tail(q)[j] = q[j + 1]
      BY <1>1
    <2>2. QED
      BY <2>1
  <1>4. 1 \in DOMAIN q
    BY <1>1
  <1>5. QED
    BY <1>2, <1>3, <1>4, ZenonT(60) DEF In

(* The queues of the threads other than t.                                 *)
Elsewhere(t, n) == \E u \in Threads \ {t} : In(n, notes[u])

LEMMA OneQueue ==
    ASSUME NotesOK, NEW t \in Threads, NEW q, notes' = [notes EXCEPT ![t] = q], NEW n
    PROVE  /\ Waits(n)' <=> In(n, q) \/ Elsewhere(t, n)
           /\ Waits(n) <=> In(n, notes[t]) \/ Elsewhere(t, n)
  <1>1. notes'[t] = q /\ \A u \in Threads \ {t} : notes'[u] = notes[u]
    BY DEF NotesOK
  <1>2. QED
    BY <1>1 DEF Waits, Elsewhere

(***************************************************************************)
(* The conclusions.  A step either leaves the map alone, then only what is *)
(* stored can be said in addition, and nothing said is taken back; or it   *)
(* takes labels G away and gives a label of N the newest serial, and says  *)
(* just that, the newest serial being said as well where the serial of a   *)
(* label of G was to be.                                                   *)
(***************************************************************************)
LEMMA SerialBounds ==
    ASSUME Sound
    PROVE  \A l \in Labels : SerialOf(l) \in Nat /\ SerialOf(l) < serial /\ serial \in Nat
  BY SerialOfType DEF Sound, Steady, MapOK, Naming, SerialOf, NoValue, Values

LEMMA QuietKeeps ==
    ASSUME Sound, Conclusions, serial' = serial,
           \A l \in Labels : SerialOf(l)' = SerialOf(l),
           \A o \in Outputs, kind \in Kinds, l \in Labels, s \in Nat :
                Says(o, kind, l, s)' =>
                    Says(o, kind, l, s) \/ (kind = "stored" /\ s # 0 /\ SerialOf(l) = s),
           registered \ awaiting \subseteq (registered \ awaiting)',
           \A o \in registered \ awaiting, kind \in Kinds, l \in Labels, s \in Nat :
                Says(o, kind, l, s) => Says(o, kind, l, s)',
           \A o \in (registered \ awaiting)' :
                \/ o \in registered \ awaiting
                \/ \A l \in Labels, s \in Nat :
                        (s # 0 /\ SerialOf(l) = s) => Says(o, "stored", l, s)'
    PROVE  Conclusions'
  <1>1. Early \subseteq Outputs /\ Early \subseteq registered \ awaiting
    BY ConstantsAssumption DEF Conclusions, Always
  <1>2. Below'
    BY SerialBounds DEF Conclusions, Below, Kinds
  <1>3. Latest'
    <2>1. ASSUME NEW o \in Outputs, NEW l \in Labels PROVE LatestFor(o, l)'
      <3>1. LatestFor(o, l)
        BY DEF Conclusions, Latest
      <3>2. QED
        BY <3>1, SerialBounds DEF LatestFor, Kinds
    <2>2. QED
      BY <2>1 DEF Latest
  <1>4. Homes'
    <2>1. ASSUME NEW o \in Early, NEW s \in Nat, Home(o, s) PROVE Home(o, s)'
      <3>1. o \in registered \ awaiting /\ "stored" \in Kinds /\ "deleted" \in Kinds
        BY <1>1 DEF Kinds
      <3>2. PICK l \in Labels : SerialOf(l) = s \/ Says(o, "deleted", l, s) \/ Replaced(o, l, s)
        BY <2>1 DEF Home
      <3>3. CASE SerialOf(l) = s
        BY <3>3 DEF Home
      <3>4. CASE Says(o, "deleted", l, s)
        <4>1. Says(o, "deleted", l, s)'
          BY <3>1, <3>4
        <4>2. QED
          BY <4>1 DEF Home
      <3>5. CASE Replaced(o, l, s)
        <4>1. Replaced(o, l, s)'
          BY <3>1, <3>5 DEF Replaced
        <4>2. QED
          BY <4>1 DEF Home
      <3>6. QED
        BY <3>2, <3>3, <3>4, <3>5
    <2>2. QED
      BY <2>1 DEF Homes, Conclusions
  <1>5. Always'
    BY <1>1 DEF Always
  <1>7. QED
    BY <1>2, <1>3, <1>4, <1>5 DEF Conclusions

LEMMA SerialsDiffer ==
    ASSUME Sound
    PROVE  \A k, l \in Labels : (SerialOf(k) # 0 /\ SerialOf(k) = SerialOf(l)) => k = l
  BY DEF Sound, Steady, MapOK, Naming, SerialOf, NoValue, Values

Carried(G, s) == \E g \in G : s = SerialOf(g)

LEMMA ChangeKeeps ==
    ASSUME Sound, Conclusions, NEW G \in SUBSET Labels, NEW N \in SUBSET Labels,
           NEW x \in Nat, x = serial,
           \A k, l \in N : k = l,
           serial' = IF N = {} THEN serial ELSE serial + 1,
           \A l \in G : SerialOf(l) # 0,
           \A l \in N : SerialOf(l)' = serial,
           \A l \in G \ N : SerialOf(l)' = 0,
           \A l \in Labels \ (G \cup N) : SerialOf(l)' = SerialOf(l),
           \A o \in Outputs, kind \in Kinds, l \in Labels, s \in Nat :
                Says(o, kind, l, s)' =>
                    \/ Says(o, kind, l, s)
                    \/ kind = "stored" /\ N # {} /\ s = serial
                    \/ kind = "deleted" /\ l \in G /\ s = SerialOf(l),
           \A o \in Outputs, kind \in Kinds, l \in Labels, s \in Nat :
                Says(o, kind, l, s) =>
                    \/ Says(o, kind, l, s)'
                    \/ /\ kind = "stored" /\ N # {} /\ Carried(G, s)
                       /\ Says(o, "stored", l, x)',
           \A o \in Outputs, l \in N : Says(o, "stored", l, x)',
           \A o \in Outputs, l \in G, s \in Nat : s = SerialOf(l) => Says(o, "deleted", l, s)',
           UNCHANGED <<registered, awaiting>>
    PROVE  Conclusions'
  <1>1. /\ Early \subseteq Outputs /\ Early \subseteq registered \ awaiting
        /\ "stored" \in Kinds /\ "deleted" \in Kinds
    BY ConstantsAssumption DEF Conclusions, Always, Kinds
  <1>0. serial \in Nat /\ serial' \in Nat /\ serial <= serial' /\ serial # 0
    BY DEF Sound, TypeOK, MapOK
  <1>2. Below'
    <2>1. \A l \in Labels : SerialOf(l) \in Nat /\ SerialOf(l) < serial
      BY SerialBounds
    <2>2. ASSUME NEW o \in Outputs, NEW kind \in Kinds, NEW l \in Labels, NEW s \in Nat,
                 Says(o, kind, l, s)'
          PROVE  s # 0 /\ s < serial'
      <3>1. CASE Says(o, kind, l, s)
        BY <1>0, <3>1 DEF Conclusions, Below
      <3>2. CASE N # {} /\ s = serial
        BY <1>0, <3>2
      <3>3. CASE l \in G /\ s = SerialOf(l)
        BY <1>0, <2>1, <3>3
      <3>4. QED
        BY <2>2, <3>1, <3>2, <3>3
    <2>3. QED
      BY <2>2 DEF Below
  <1>3. Latest'
    <2>1. ASSUME NEW o \in Outputs, NEW l \in Labels PROVE LatestFor(o, l)'
      <3>1. LatestFor(o, l) /\ \A kind \in Kinds, s \in Nat : Says(o, kind, l, s) => s < serial
        BY DEF Conclusions, Latest, Below
      <3>2. SerialOf(l) < serial /\ SerialOf(l) \in Nat /\ serial \in Nat
        BY SerialBounds
      <3>3. CASE l \in N
        <4>1. \A q \in Nat : Says(o, "deleted", l, q)' => q < serial
          BY <1>1, <3>1, <3>2, <3>3
        <4>2. Says(o, "stored", l, x)' /\ SerialOf(l)' = x
          BY <3>3
        <4>3. QED
          BY <4>1, <4>2 DEF LatestFor
      <3>4. CASE l \in G \ N
        BY <3>4 DEF LatestFor
      <3>5. CASE l \notin G \cup N
        <4>1. SerialOf(l)' = SerialOf(l)
          BY <3>5
        <4>2. \A q \in Nat : Says(o, "deleted", l, q)' => Says(o, "deleted", l, q)
          BY <1>1, <3>5
        <4>3. ASSUME NEW s \in Nat, s # 0, SerialOf(l) = s, Says(o, "stored", l, s)
              PROVE  Says(o, "stored", l, s)'
          <5>1. \A g \in G : s # SerialOf(g)
            BY <3>5, <4>3, SerialsDiffer
          <5>2. QED
            BY <1>1, <4>3, <5>1 DEF Carried
        <4>4. QED
          BY <3>1, <4>1, <4>2, <4>3 DEF LatestFor
      <3>6. QED
        BY <3>3, <3>4, <3>5
    <2>2. QED
      BY <2>1 DEF Latest
  <1>4. Homes'
    <2>1. ASSUME NEW o \in Early, NEW s \in Nat, s # 0, s < serial, Home(o, s)
          PROVE  Home(o, s)'
      <3>1. /\ o \in Outputs /\ o \in registered \ awaiting
            /\ \A m \in Labels : SerialOf(m) \in Nat /\ SerialOf(m) < serial
        BY <1>1, SerialBounds
      <3>2. PICK l \in Labels : SerialOf(l) = s \/ Says(o, "deleted", l, s) \/ Replaced(o, l, s)
        BY <2>1 DEF Home
      <3>3. CASE Says(o, "deleted", l, s)
        <4>1. Says(o, "deleted", l, s)'
          BY <1>1, <3>1, <3>3
        <4>2. QED
          BY <4>1 DEF Home
      <3>4. CASE Replaced(o, l, s)
        <4>1. Says(o, "stored", l, s)'
          BY <1>1, <3>1, <3>4 DEF Replaced, Carried
        <4>2. \A m \in Labels : SerialOf(m)' # s
          BY <1>0, <2>1, <3>1, <3>4 DEF Replaced
        <4>3. PICK r \in Nat : s < r /\ Says(o, "stored", l, r)
          BY <3>4 DEF Replaced
        <4>4. Says(o, "stored", l, r)' \/ Says(o, "stored", l, x)'
          BY <1>1, <3>1, <4>3
        <4>5. QED
          BY <1>0, <2>1, <4>1, <4>2, <4>3, <4>4 DEF Home, Replaced
      <3>5. CASE SerialOf(l) = s /\ l \in G
        <4>1. Says(o, "deleted", l, s)'
          BY <3>1, <3>5
        <4>2. QED
          BY <4>1 DEF Home
      <3>6. CASE SerialOf(l) = s /\ l \notin G \cup N
        <4>1. SerialOf(l)' = s
          BY <3>6
        <4>2. QED
          BY <4>1 DEF Home
      <3>7. CASE SerialOf(l) = s /\ l \in N \ G
        <4>1. Says(o, "stored", l, s)
          BY <2>1, <3>1, <3>7 DEF Conclusions, Latest, LatestFor
        <4>2. \A g \in G : s # SerialOf(g)
          BY <2>1, <3>7, SerialsDiffer
        <4>3. Says(o, "stored", l, s)'
          BY <1>1, <3>1, <4>1, <4>2 DEF Carried
        <4>4. \A m \in Labels : SerialOf(m)' # s
          <5>1. \A m \in Labels : SerialOf(m) = s => m = l
            BY <2>1, <3>7, SerialsDiffer
          <5>2. QED
            BY <1>0, <2>1, <3>7, <5>1
        <4>5. Says(o, "stored", l, x)'
          BY <3>1, <3>7
        <4>6. QED
          BY <1>0, <2>1, <4>3, <4>4, <4>5 DEF Home, Replaced
      <3>8. QED
        BY <3>2, <3>3, <3>4, <3>5, <3>6, <3>7
    <2>2. ASSUME N # {}, NEW o \in Early PROVE Home(o, x)'
      BY <2>2 DEF Home
    <2>3. \A s \in Nat : (s # 0 /\ s < serial') => s < serial \/ (N # {} /\ s = serial)
      BY <1>0
    <2>4. QED
      BY <2>1, <2>2, <2>3 DEF Homes, Conclusions
  <1>5. Always'
    BY <1>1 DEF Always
  <1>6. QED
    BY <1>2, <1>3, <1>4, <1>5 DEF Conclusions

(***************************************************************************)
(* What each action adds to what waits.                                    *)
(***************************************************************************)
LEMMA DeleteWaits ==
    ASSUME Sound, NEW t \in Threads, NEW l \in Labels, Delete(t, l)
    PROVE  \A n : Waits(n)' <=> Waits(n) \/ n = Deleted(l, SerialOf(l))
  <1>1. PICK d : d = Deleted(l, SerialOf(l))
    OBVIOUS
  <1>2. d \in NoteType /\ NotesOK /\ << >> \in Seq(NoteType)
    BY <1>1, SerialOfType DEF Sound, TypeOK, Steady, Deleted, Note, NoteType, SentType
  <1>3. notes[t] = << >> /\ notes' = [notes EXCEPT ![t] = <<d>>]
    BY <1>1 DEF Delete, Idle, DeleteNotes
  <1>4. ASSUME NEW n PROVE Waits(n)' <=> Waits(n) \/ n = d
    <2>1. ~In(n, << >>) /\ (In(n, <<d>>) <=> n = d)
      BY <1>2, Members
    <2>2. (Waits(n)' <=> In(n, <<d>>) \/ Elsewhere(t, n)) /\ (Waits(n) <=> In(n, notes[t]) \/ Elsewhere(t, n))
      BY <1>2, <1>3, OneQueue
    <2>3. QED
      BY <1>3, <2>1, <2>2
  <1>5. QED
    BY <1>1, <1>4

LEMMA RenameWaits ==
    ASSUME Sound, NEW t \in Threads, NEW old \in Labels, NEW new \in Labels,
           Rename(t, old, new)
    PROVE  /\ label2data[old] \in Values /\ SerialOf(old) = valueSerial[label2data[old]]
           /\ \A n : Waits(n)' <=> \/ Waits(n) \/ n = Deleted(old, SerialOf(old))
                                   \/ n = Unread(new, label2data[old])
  <1>1. PICK v : v = label2data[old]
    OBVIOUS
  <1>2. PICK d : d = Deleted(old, SerialOf(old))
    OBVIOUS
  <1>3. v \in Values /\ SerialOf(old) = valueSerial[v]
    BY <1>1 DEF Rename, Sound, Steady, MapOK, SerialOf, NoValue, Values
  <1>4. d \in NoteType /\ Unread(new, v) \in NoteType /\ NotesOK /\ << >> \in Seq(NoteType)
    BY <1>2, <1>3, SerialOfType
    DEF Sound, TypeOK, Steady, Deleted, Unread, Note, NoteType, SentType
  <1>5. notes[t] = << >> /\ notes' = [notes EXCEPT ![t] = <<d, Unread(new, v)>>]
    BY <1>1, <1>2, <1>3 DEF Rename, Idle
  <1>6. ASSUME NEW n PROVE Waits(n)' <=> Waits(n) \/ n = d \/ n = Unread(new, v)
    <2>1. ~In(n, << >>) /\ (In(n, <<d, Unread(new, v)>>) <=> n = d \/ n = Unread(new, v))
      BY <1>4, Members
    <2>2. /\ Waits(n)' <=> In(n, <<d, Unread(new, v)>>) \/ Elsewhere(t, n)
          /\ Waits(n) <=> In(n, notes[t]) \/ Elsewhere(t, n)
      BY <1>4, <1>5, OneQueue
    <2>3. QED
      BY <1>5, <2>1, <2>2
  <1>7. QED
    BY <1>1, <1>2, <1>3, <1>6

LEMMA AddWaits ==
    ASSUME Sound, NEW t \in Threads, NEW l \in Labels, AddItem(t, l)
    PROVE  \A n : Waits(n)' <=> Waits(n) \/ n = Stored(l, serial)
  <1>1. PICK d : d = Stored(l, serial)
    OBVIOUS
  <1>2. d \in NoteType /\ NotesOK /\ notes[t] \in Seq(NoteType)
    BY <1>1 DEF Sound, TypeOK, MapOK, NotesOK, AddItem, Stored, Note, NoteType, SentType
  <1>3. notes' = [notes EXCEPT ![t] = Append(notes[t], d)]
    BY <1>1 DEF AddItem
  <1>4. ASSUME NEW n PROVE Waits(n)' <=> Waits(n) \/ n = d
    <2>1. In(n, Append(notes[t], d)) <=> In(n, notes[t]) \/ n = d
      BY <1>2, Members
    <2>2. /\ Waits(n)' <=> In(n, Append(notes[t], d)) \/ Elsewhere(t, n)
          /\ Waits(n) <=> In(n, notes[t]) \/ Elsewhere(t, n)
      BY <1>2, <1>3, OneQueue
    <2>3. QED
      BY <2>1, <2>2
  <1>5. QED
    BY <1>1, <1>4

(* The "stored" of a Rename gets the serial its Value has by then.         *)
LEMMA ReadWaits ==
    ASSUME Sound, NEW t \in Threads, ReadSerial(t)
    PROVE  \E l \in Labels, v \in Values, s \in 0 .. MaxSerial :
               /\ s = valueSerial[v] /\ In(Unread(l, v), notes[t])
               /\ \A n : Waits(n)' => Waits(n) \/ n = Stored(l, s)
               /\ \A n : Waits(n) => Waits(n)' \/ n = Unread(l, v)
               /\ Waits(Unread(l, v)) /\ Waits(Stored(l, s))'
               /\ \A n : In(n, notes'[t]) => In(n, notes[t]) \/ n = Stored(l, s)
               /\ \A u \in Threads \ {t} : notes'[u] = notes[u]
  <1>1. /\ NotesOK /\ notes[t] \in Seq(NoteType) /\ notes[t] # << >>
        /\ Head(notes[t]) \in NoteType /\ Head(notes[t]).kind = "unread"
    BY NoteQueues DEF Sound, TypeOK, NotesOK, ReadSerial
  <1>2. \E l \in Labels, v \in Values : Head(notes[t]) = Unread(l, v)
    BY <1>1 DEF NoteType, SentType, Unread, Note
  <1>3. PICK l \in Labels, v \in Values : Head(notes[t]) = Unread(l, v)
    BY <1>2
  <1>4. PICK s \in 0 .. MaxSerial : s = valueSerial[v]
    BY DEF Sound, TypeOK, MapOK
  <1>5. PICK q : q = [notes[t] EXCEPT ![1] = Stored(l, s)]
    OBVIOUS
  <1>6. Unread(l, v).label = l /\ Unread(l, v).serial = v /\ Stored(l, s) \in NoteType
    BY DEF Unread, Stored, Note, NoteType, SentType
  <1>7. notes' = [notes EXCEPT ![t] = q]
    BY <1>3, <1>4, <1>5, <1>6 DEF ReadSerial
  <1>8. ASSUME NEW n
        PROVE  /\ In(n, notes[t]) <=> n = Unread(l, v) \/ In(n, Tail(notes[t]))
               /\ In(n, q) <=> n = Stored(l, s) \/ In(n, Tail(notes[t]))
               /\ Waits(n)' <=> In(n, q) \/ Elsewhere(t, n)
               /\ Waits(n) <=> In(n, notes[t]) \/ Elsewhere(t, n)
    <2>1. In(n, notes[t]) <=> n = Unread(l, v) \/ In(n, Tail(notes[t]))
      <3>1. notes[t][1] = Unread(l, v)
        BY <1>1, <1>3
      <3>2. QED
        BY <1>1, <3>1, FirstAndRest
    <2>2. In(n, q) <=> n = Stored(l, s) \/ In(n, Tail(notes[t]))
      <3>1. 1 \in DOMAIN notes[t]
        BY <1>1, FirstAndRest
      <3>2. /\ DOMAIN q = DOMAIN notes[t] /\ q[1] = Stored(l, s)
            /\ \A i \in DOMAIN notes[t] \ {1} : q[i] = notes[t][i]
        BY <1>1, <1>5, <3>1
      <3>3. QED
        BY <1>1, <3>2, FirstAndRest
    <2>3. /\ Waits(n)' <=> In(n, q) \/ Elsewhere(t, n)
          /\ Waits(n) <=> In(n, notes[t]) \/ Elsewhere(t, n)
      BY <1>1, <1>7, OneQueue
    <2>4. QED
      BY <2>1, <2>2, <2>3
  <1>9. notes'[t] = q /\ \A u \in Threads \ {t} : notes'[u] = notes[u]
    BY <1>1, <1>7 DEF NotesOK
  <1>10. QED
    BY <1>4, <1>8, <1>9

LEMMA NotifyWaits ==
    ASSUME Sound, NEW t \in Threads, Notify(t)
    PROVE  \E h \in NoteType :
               /\ h.kind # "unread" /\ Waits(h)
               /\ \A n : Waits(n)' => Waits(n)
               /\ \A n : Waits(n) => Waits(n)' \/ n = h
               /\ \A n : In(n, notes'[t]) => In(n, notes[t])
               /\ \A u \in Threads \ {t} : notes'[u] = notes[u]
               /\ heard' = [o \in Outputs |-> IF o \in registered
                                              THEN heard[o] \cup {h} ELSE heard[o]]
  <1>1. /\ NotesOK /\ notes[t] \in Seq(NoteType) /\ notes[t] # << >>
        /\ Head(notes[t]) \in NoteType /\ Head(notes[t]).kind # "unread"
    BY NoteQueues DEF Sound, TypeOK, NotesOK, Notify
  <1>2. PICK h \in NoteType : h = Head(notes[t])
    BY <1>1
  <1>3. PICK q : q = Tail(notes[t])
    OBVIOUS
  <1>4. notes' = [notes EXCEPT ![t] = q]
    BY <1>3 DEF Notify
  <1>5. ASSUME NEW n
        PROVE  /\ In(n, notes[t]) <=> n = h \/ In(n, q)
               /\ Waits(n)' <=> In(n, q) \/ Elsewhere(t, n)
               /\ Waits(n) <=> In(n, notes[t]) \/ Elsewhere(t, n)
    <2>1. In(n, notes[t]) <=> n = h \/ In(n, Tail(notes[t]))
      <3>1. notes[t][1] = h
        BY <1>1, <1>2
      <3>2. QED
        BY <1>1, <3>1, FirstAndRest
    <2>2. /\ Waits(n)' <=> In(n, q) \/ Elsewhere(t, n)
          /\ Waits(n) <=> In(n, notes[t]) \/ Elsewhere(t, n)
      BY <1>1, <1>4, OneQueue
    <2>3. QED
      BY <1>2, <1>3, <2>1, <2>2
  <1>6. notes'[t] = q /\ \A u \in Threads \ {t} : notes'[u] = notes[u]
    BY <1>1, <1>4 DEF NotesOK
  <1>7. heard' = [o \in Outputs |-> IF o \in registered
                                    THEN heard[o] \cup {h} ELSE heard[o]]
    BY <1>2 DEF Notify
  <1>8. QED
    BY <1>1, <1>2, <1>5, <1>6, <1>7

(***************************************************************************)
(* A "stored" whose serial is not read yet is one of a Value that exists.  *)
(***************************************************************************)
LEMMA KindsDiffer ==
    \A k, l, s, v :
        /\ Unread(l, v) # Deleted(k, s) /\ Unread(l, v) # Stored(k, s)
        /\ \A kind \in Kinds : Unread(l, v) # Note(kind, k, s)
        /\ \A w : Unread(l, v) = Unread(k, w) => l = k /\ v = w
  BY DEF Unread, Deleted, Stored, Note, Kinds

LEMMA RenamingNext == Sound /\ Renaming /\ [Next]_vars => Renaming'
  <1> SUFFICES ASSUME Sound, Renaming, [Next]_vars,
                      NEW u \in Threads, NEW l \in Labels, NEW v \in Values,
                      In(Unread(l, v), notes'[u])
               PROVE  valueSerial'[v] # 0
    BY DEF Renaming, In, Unread, Note
  <1>0. PICK n : n = Unread(l, v) /\ In(n, notes'[u])
    OBVIOUS
  <1>1. MapOK /\ NotesOK /\ serial # 0 /\ << >> \in Seq(NoteType)
    BY DEF Sound, TypeOK, MapOK
  <1>2. ASSUME In(n, notes[u]), valueSerial'[v] \in {valueSerial[v], serial}
        PROVE  valueSerial'[v] # 0
    BY <1>0, <1>1, <1>2 DEF Renaming
  <1>3. ASSUME NEW t \in Threads, NEW k \in Labels, Delete(t, k)
        PROVE  In(n, notes[u]) /\ valueSerial' = valueSerial
    <2>1. PICK d : d = Deleted(k, SerialOf(k))
      OBVIOUS
    <2>2. d \in NoteType /\ n # d
      BY <1>0, <1>1, <2>1, KindsDiffer, SerialOfType DEF Deleted, Note, NoteType, SentType
    <2>3. ~In(n, <<d>>)
      BY <1>1, <2>2, Members
    <2>4. notes' = [notes EXCEPT ![t] = <<d>>] /\ valueSerial' = valueSerial
      BY <1>3, <2>1 DEF Delete, DeleteNotes
    <2>5. QED
      BY <1>0, <1>1, <2>3, <2>4 DEF NotesOK
  <1>4. ASSUME NEW t \in Threads, NEW old \in Labels, NEW new \in Labels,
               Rename(t, old, new)
        PROVE  valueSerial'[v] # 0
    <2>1. PICK d : d = Deleted(old, SerialOf(old))
      OBVIOUS
    <2>2. PICK w \in Values : w = label2data[old] /\ SerialOf(old) = valueSerial[w]
      BY <1>4, RenameWaits
    <2>3. d \in NoteType /\ Unread(new, w) \in NoteType /\ n # d
      BY <1>0, <1>1, <2>1, <2>2, KindsDiffer, SerialOfType DEF Deleted, Unread, Note, NoteType, SentType
    <2>4. In(n, <<d, Unread(new, w)>>) => v = w
      <3>1. In(n, <<d, Unread(new, w)>>) <=> n = d \/ n = Unread(new, w)
        BY DEF In
      <3>2. QED
        BY <1>0, <2>3, <3>1, KindsDiffer
    <2>5. /\ notes' = [notes EXCEPT ![t] = <<d, Unread(new, w)>>]
          /\ valueSerial' = [valueSerial EXCEPT ![w] = serial]
      BY <1>4, <2>1, <2>2 DEF Rename, ReSerial
    <2>6. valueSerial'[v] \in {valueSerial[v], serial} /\ (v = w => valueSerial'[v] = serial)
      BY <1>1, <2>5 DEF MapOK
    <2>7. CASE u = t
      BY <1>0, <1>1, <2>4, <2>5, <2>6, <2>7 DEF NotesOK
    <2>8. CASE u # t
      <3>1. In(n, notes[u])
        BY <1>0, <1>1, <2>5, <2>8 DEF NotesOK
      <3>2. QED
        BY <1>2, <2>6, <3>1
    <2>9. QED
      BY <2>7, <2>8
  <1>5. ASSUME NEW t \in Threads, NEW k \in Labels, AddItem(t, k)
        PROVE  In(n, notes[u]) /\ valueSerial'[v] \in {valueSerial[v], serial}
    <2>1. PICK d : d = Stored(k, serial)
      OBVIOUS
    <2>2. d \in NoteType /\ n # d
      <3>1. d \in NoteType
        BY <1>1, <1>5, <2>1 DEF AddItem, MapOK, Stored, Note, NoteType, SentType
      <3>2. QED
        BY <1>0, <2>1, <3>1, KindsDiffer
    <2>3. \A q \in Seq(NoteType) : In(n, Append(q, d)) => In(n, q)
      BY <2>2, Members
    <2>4. notes' = [notes EXCEPT ![t] = Append(notes[t], d)] /\ notes[t] \in Seq(NoteType)
      BY <1>1, <1>5, <2>1 DEF AddItem, NotesOK
    <2>5. In(n, notes[u])
      BY <1>0, <1>1, <2>3, <2>4 DEF NotesOK
    <2>6. QED
      BY <1>1, <1>5, <2>5 DEF AddItem, MapOK
  <1>6. ASSUME NEW t \in Threads, ReadSerial(t)
        PROVE  In(n, notes[u]) /\ valueSerial' = valueSerial
    <2>1. PICK k \in Labels, s \in 0 .. MaxSerial :
                /\ \A m : In(m, notes'[t]) => In(m, notes[t]) \/ m = Stored(k, s)
                /\ \A w \in Threads \ {t} : notes'[w] = notes[w]
      BY <1>6, ReadWaits
    <2>2. n # Stored(k, s)
      BY <1>0, KindsDiffer
    <2>3. In(n, notes[u])
      BY <1>0, <2>1, <2>2
    <2>4. QED
      BY <1>6, <2>3 DEF ReadSerial, mapVars
  <1>7. ASSUME NEW t \in Threads, Notify(t)
        PROVE  In(n, notes[u]) /\ valueSerial' = valueSerial
    <2>1. /\ \A m : In(m, notes'[t]) => In(m, notes[t])
          /\ \A w \in Threads \ {t} : notes'[w] = notes[w]
      BY <1>7, NotifyWaits
    <2>2. In(n, notes[u])
      BY <1>0, <2>1
    <2>3. QED
      BY <1>7, <2>2 DEF Notify, mapVars
  <1>8. CASE UNCHANGED <<notes, valueSerial>>
    BY <1>0, <1>2, <1>8
  <1>9. QED
    BY <1>0, <1>2, <1>3, <1>4, <1>5, <1>6, <1>7, <1>8
    DEF Next, AddBegin, AddUnlock, Register, List, SendListed, Prepare, vars, mapVars

(***************************************************************************)
(* What each action adds to what is said.                                  *)
(***************************************************************************)
LEMMA NoteParts ==
    \A k, l, m, s, x, v, w :
        /\ \A kind, other : Note(kind, l, s) = Note(other, m, x)
                                <=> kind = other /\ l = m /\ s = x
        /\ Unread(l, v) = Unread(m, w) <=> l = m /\ v = w
        /\ \A kind \in Kinds : Unread(l, v) # Note(kind, m, x)
  BY DEF Note, Unread, Kinds

LEMMA DeleteSays ==
    ASSUME Sound, NEW t \in Threads, NEW l \in Labels, Delete(t, l)
    PROVE  \A o \in Outputs, kind \in Kinds, m \in Labels, s \in Nat :
               Says(o, kind, m, s)' <=> \/ Says(o, kind, m, s)
                                        \/ kind = "deleted" /\ m = l /\ s = SerialOf(l)
  <1>1. /\ \A n : Waits(n)' <=> Waits(n) \/ n = Note("deleted", l, SerialOf(l))
        /\ UNCHANGED <<valueSerial, heard, listing>>
    BY DeleteWaits DEF Delete, listenVars, Deleted
  <1>2. \A kind \in Kinds, m \in Labels, s \in Nat :
            Pending(kind, m, s)' <=> \/ Pending(kind, m, s)
                                     \/ kind = "deleted" /\ m = l /\ s = SerialOf(l)
    BY <1>1, NoteParts DEF Pending, Kinds
  <1>3. QED
    BY <1>1, <1>2 DEF Says

LEMMA RenameSays ==
    ASSUME Sound, Renaming, NEW t \in Threads,
           NEW old \in Labels, NEW new \in Labels, Rename(t, old, new),
           NEW x \in Nat, x = serial, NEW y \in Nat, y = SerialOf(old)
    PROVE  \A o \in Outputs, kind \in Kinds, m \in Labels, s \in Nat :
               /\ Says(o, kind, m, s)' =>
                    \/ Says(o, kind, m, s)
                    \/ kind = "stored" /\ s = serial
                    \/ kind = "deleted" /\ m = old /\ s = SerialOf(old)
               /\ Says(o, kind, m, s) =>
                    \/ Says(o, kind, m, s)'
                    \/ kind = "stored" /\ s = SerialOf(old) /\ Says(o, "stored", m, x)'
               /\ Says(o, "stored", new, x)' /\ Says(o, "deleted", old, y)'
  <1>1. PICK v \in Values : v = label2data[old] /\ SerialOf(old) = valueSerial[v]
    BY RenameWaits
  <1>2. /\ \A n : Waits(n)' <=> \/ Waits(n) \/ n = Note("deleted", old, SerialOf(old))
                                \/ n = Unread(new, v)
        /\ UNCHANGED <<heard, listing>>
        /\ valueSerial' = [valueSerial EXCEPT ![v] = serial]
    BY <1>1, RenameWaits DEF Rename, ReSerial, listenVars, Deleted
  <1>3. /\ valueSerial'[v] = serial
        /\ \A w \in Values \ {v} : valueSerial'[w] = valueSerial[w]
    BY <1>2 DEF Sound, TypeOK, MapOK
  <1>4. \A m \in Labels, w \in Values :
            Waits(Unread(m, w))' <=> Waits(Unread(m, w)) \/ (m = new /\ w = v)
    BY <1>2, NoteParts DEF Kinds
  <1>5. ASSUME NEW kind \in Kinds, NEW m \in Labels, NEW s \in Nat
        PROVE  Waits(Note(kind, m, s))' <=>
                    \/ Waits(Note(kind, m, s))
                    \/ kind = "deleted" /\ m = old /\ s = SerialOf(old)
    <2>1. Note(kind, m, s) # Unread(new, v)
      BY NoteParts
    <2>2. Note(kind, m, s) = Note("deleted", old, SerialOf(old)) <=>
                kind = "deleted" /\ m = old /\ s = SerialOf(old)
      BY NoteParts
    <2>3. QED
      BY <1>2, <2>1, <2>2
  <1>6. ASSUME NEW kind \in Kinds, NEW m \in Labels, NEW s \in Nat
        PROVE  Pending(kind, m, s)' =>
                    \/ Pending(kind, m, s)
                    \/ kind = "stored" /\ s = serial
                    \/ kind = "deleted" /\ m = old /\ s = SerialOf(old)
    <2>1. ASSUME NEW w \in Values, Waits(Unread(m, w))', valueSerial'[w] = s, s # serial
          PROVE  Waits(Unread(m, w)) /\ valueSerial[w] = s
      BY <1>3, <1>4, <2>1
    <2>2. QED
      BY <1>5, <2>1 DEF Pending
  <1>7. ASSUME NEW kind \in Kinds, NEW m \in Labels, NEW s \in Nat, Pending(kind, m, s)
        PROVE  \/ Pending(kind, m, s)'
               \/ kind = "stored" /\ s = SerialOf(old) /\ Pending("stored", m, x)'
    <2>1. CASE Waits(Note(kind, m, s))
      BY <1>5, <2>1 DEF Pending
    <2>2. CASE kind = "stored" /\ \E w \in Values : Waits(Unread(m, w)) /\ valueSerial[w] = s
      <3>1. PICK w \in Values : Waits(Unread(m, w)) /\ valueSerial[w] = s
        BY <2>2
      <3>2. Waits(Unread(m, w))'
        BY <1>4, <3>1
      <3>3. QED
        BY <1>1, <1>3, <2>2, <3>1, <3>2 DEF Pending
    <2>3. QED
      BY <1>7, <2>1, <2>2 DEF Pending
  <1>8. Pending("stored", new, x)' /\ Pending("deleted", old, y)'
    BY <1>2, <1>3, <1>4 DEF Pending
  <1>9. QED
    BY <1>2, <1>6, <1>7, <1>8 DEF Says

LEMMA AddSays ==
    ASSUME Sound, Renaming, NEW t \in Threads, NEW l \in Labels, AddItem(t, l)
    PROVE  \A o \in Outputs, kind \in Kinds, m \in Labels, s \in Nat :
               Says(o, kind, m, s)' <=> \/ Says(o, kind, m, s)
                                        \/ kind = "stored" /\ m = l /\ s = serial
  <1>1. /\ \A n : Waits(n)' <=> Waits(n) \/ n = Note("stored", l, serial)
        /\ UNCHANGED <<heard, listing>>
        /\ valueSerial' = [valueSerial EXCEPT ![serial] = serial]
    BY AddWaits DEF AddItem, listenVars, Stored
  <1>2. \A m \in Labels, w \in Values : Waits(Unread(m, w)) => valueSerial[w] # 0
    BY DEF Waits, Renaming
  <1>3. serial \in Values => valueSerial[serial] = 0
    BY DEF Sound, Steady, Naming, Values
  <1>4. \A m \in Labels, w \in Values :
            /\ Waits(Unread(m, w))' <=> Waits(Unread(m, w))
            /\ Waits(Unread(m, w)) => valueSerial'[w] = valueSerial[w]
    <2>1. \A m \in Labels, w \in Values : Waits(Unread(m, w))' <=> Waits(Unread(m, w))
      BY <1>1, NoteParts DEF Kinds
    <2>2. \A w \in Values \ {serial} : valueSerial'[w] = valueSerial[w]
      BY <1>1 DEF Sound, TypeOK, MapOK
    <2>3. QED
      BY <1>2, <1>3, <2>1, <2>2
  <1>5. \A kind \in Kinds, m \in Labels, s \in Nat :
            Pending(kind, m, s)' <=> \/ Pending(kind, m, s)
                                     \/ kind = "stored" /\ m = l /\ s = serial
    <2>1. ASSUME NEW kind \in Kinds, NEW m \in Labels, NEW s \in Nat
          PROVE  Waits(Note(kind, m, s))' <=> \/ Waits(Note(kind, m, s))
                                              \/ kind = "stored" /\ m = l /\ s = serial
      BY <1>1, NoteParts
    <2>2. QED
      BY <1>4, <2>1 DEF Pending
  <1>6. QED
    BY <1>1, <1>5 DEF Says

LEMMA ReadSays ==
    ASSUME Sound, NEW t \in Threads, ReadSerial(t)
    PROVE  \A o \in Outputs, kind \in Kinds, m \in Labels, s \in Nat :
               Says(o, kind, m, s)' <=> Says(o, kind, m, s)
  <1>1. PICK l \in Labels, v \in Values, x \in 0 .. MaxSerial :
            /\ x = valueSerial[v]
            /\ \A n : Waits(n)' => Waits(n) \/ n = Note("stored", l, x)
            /\ \A n : Waits(n) => Waits(n)' \/ n = Unread(l, v)
            /\ Waits(Unread(l, v)) /\ Waits(Note("stored", l, x))'
    BY ReadWaits DEF Stored
  <1>2. UNCHANGED <<valueSerial, heard, listing>>
    BY DEF ReadSerial, mapVars, listenVars
  <1>3. ASSUME NEW kind \in Kinds, NEW m \in Labels, NEW s \in Nat
        PROVE  Pending(kind, m, s)' <=> Pending(kind, m, s)
    <2>1. Waits(Note(kind, m, s)) => Waits(Note(kind, m, s))'
      BY <1>1, NoteParts
    <2>2. Waits(Note(kind, m, s))' =>
                Waits(Note(kind, m, s)) \/ (kind = "stored" /\ m = l /\ s = x)
      BY <1>1, NoteParts
    <2>3. \A w \in Values : Waits(Unread(m, w))' => Waits(Unread(m, w))
      BY <1>1, NoteParts DEF Kinds
    <2>4. \A w \in Values : Waits(Unread(m, w)) => Waits(Unread(m, w))' \/ (m = l /\ w = v)
      BY <1>1, NoteParts
    <2>5. QED
      BY <1>1, <1>2, <2>1, <2>2, <2>3, <2>4 DEF Pending
  <1>4. QED
    BY <1>2, <1>3 DEF Says

LEMMA NotifySays ==
    ASSUME Sound, NEW t \in Threads, Notify(t)
    PROVE  \A o \in Outputs, kind \in Kinds, m \in Labels, s \in Nat :
               /\ Says(o, kind, m, s)' => Says(o, kind, m, s)
               /\ o \in registered => (Says(o, kind, m, s) => Says(o, kind, m, s)')
  <1>1. PICK h \in NoteType :
            /\ h.kind # "unread" /\ Waits(h)
            /\ \A n : Waits(n)' => Waits(n)
            /\ \A n : Waits(n) => Waits(n)' \/ n = h
            /\ heard' = [o \in Outputs |-> IF o \in registered
                                           THEN heard[o] \cup {h} ELSE heard[o]]
    BY NotifyWaits
  <1>2. UNCHANGED <<valueSerial, listing>>
    BY DEF Notify, mapVars
  <1>3. \A m, w : Unread(m, w) # h
    BY <1>1 DEF Unread, Note
  <1>4. ASSUME NEW kind \in Kinds, NEW m \in Labels, NEW s \in Nat
        PROVE  /\ Pending(kind, m, s)' => Pending(kind, m, s)
               /\ Pending(kind, m, s) => Pending(kind, m, s)' \/ Note(kind, m, s) = h
               /\ Note(kind, m, s) = h => Pending(kind, m, s)
    BY <1>1, <1>2, <1>3 DEF Pending
  <1>5. QED
    BY <1>1, <1>2, <1>4 DEF Says

(***************************************************************************)
(* Every step keeps what can be concluded.                                 *)
(***************************************************************************)
LEMMA QuietSteps ==
    ASSUME Sound, Conclusions,
           UNCHANGED <<label2data, valueSerial, serial, registered, awaiting>>,
           \A o \in Outputs, kind \in Kinds, l \in Labels, s \in Nat :
                /\ Says(o, kind, l, s)' => Says(o, kind, l, s)
                /\ o \in registered => (Says(o, kind, l, s) => Says(o, kind, l, s)')
    PROVE  Conclusions'
  <1>1. registered \subseteq Outputs
    BY DEF Sound, TypeOK, ListenersOK
  <1>2. \A l \in Labels : SerialOf(l)' = SerialOf(l)
    BY DEF SerialOf
  <1>3. QED
    BY <1>1, <1>2, QuietKeeps

LEMMA ListKeeps ==
    ASSUME Sound, Conclusions, NEW p \in Outputs, List(p)
    PROVE  Conclusions'
  <1>1. /\ UNCHANGED <<label2data, valueSerial, serial, notes, registered, heard>>
        /\ awaiting' = awaiting \ {p}
        /\ listing' = [listing EXCEPT ![p] = {Note("stored", l, SerialOf(l)) :
                                        l \in {k \in Labels : label2data[k] # NoValue}}]
    BY DEF List, mapVars, Stored
  <1>2. \A l \in Labels : SerialOf(l)' = SerialOf(l)
    BY <1>1 DEF SerialOf
  <1>3. \A kind \in Kinds, l \in Labels, s \in Nat :
            Pending(kind, l, s)' <=> Pending(kind, l, s)
    BY <1>1 DEF Pending, Waits
  <1>4. ASSUME NEW o \in Outputs
        PROVE  listing'[o] = IF o = p THEN {Note("stored", l, SerialOf(l)) :
                                        l \in {k \in Labels : label2data[k] # NoValue}}
                             ELSE listing[o]
    BY <1>1 DEF Sound, TypeOK, ListenersOK
  <1>5. \A l \in Labels : label2data[l] # NoValue <=> SerialOf(l) # 0
    BY DEF Sound, Steady, Naming, SerialOf, NoValue
  <1>6. \A kind \in Kinds, m \in Labels, s \in Nat :
            Note(kind, m, s) \in listing'[p] <=>
                kind = "stored" /\ s # 0 /\ SerialOf(m) = s
    <2>1. ASSUME NEW kind \in Kinds, NEW m \in Labels, NEW s \in Nat
          PROVE  Note(kind, m, s) \in listing'[p] <=>
                     \E l \in Labels : /\ label2data[l] # NoValue
                                       /\ Note(kind, m, s) = Note("stored", l, SerialOf(l))
      BY <1>4
    <2>2. ASSUME NEW kind \in Kinds, NEW m \in Labels, NEW s \in Nat, NEW l \in Labels
          PROVE  Note(kind, m, s) = Note("stored", l, SerialOf(l)) <=>
                     kind = "stored" /\ m = l /\ s = SerialOf(l)
      BY NoteParts
    <2>3. QED
      BY <1>5, <2>1, <2>2
  <1>7. \A o \in Outputs, kind \in Kinds, l \in Labels, s \in Nat :
            /\ o # p => (Says(o, kind, l, s)' <=> Says(o, kind, l, s))
            /\ Says(o, kind, l, s)' =>
                    Says(o, kind, l, s) \/ (kind = "stored" /\ s # 0 /\ SerialOf(l) = s)
            /\ (o = p /\ kind = "stored" /\ s # 0 /\ SerialOf(l) = s) => Says(o, kind, l, s)'
    BY <1>1, <1>3, <1>4, <1>6 DEF Says
  <1>8. p \in awaiting /\ registered \subseteq Outputs
    BY DEF List, Sound, TypeOK, ListenersOK
  <1>9. serial' = serial /\ registered \ awaiting \subseteq (registered \ awaiting)'
    BY <1>1
  <1>10. /\ \A o \in registered \ awaiting, kind \in Kinds, l \in Labels, s \in Nat :
                Says(o, kind, l, s) => Says(o, kind, l, s)'
         /\ \A o \in (registered \ awaiting)' :
                \/ o \in registered \ awaiting
                \/ \A l \in Labels, s \in Nat :
                        (s # 0 /\ SerialOf(l) = s) => Says(o, "stored", l, s)'
    BY <1>1, <1>7, <1>8 DEF Kinds
  <1>11. QED
    BY <1>2, <1>7, <1>9, <1>10, QuietKeeps

LEMMA RegisterKeeps ==
    ASSUME Sound, Conclusions, NEW p \in Outputs, Register(p)
    PROVE  Conclusions'
  <1>1. /\ UNCHANGED <<label2data, valueSerial, serial, notes, listing, heard>>
        /\ awaiting' = awaiting \cup {p} /\ registered' = registered \cup {p}
        /\ p \notin registered
    BY DEF Register, mapVars
  <1>2. \A l \in Labels : SerialOf(l)' = SerialOf(l)
    BY <1>1 DEF SerialOf
  <1>3. \A o \in Outputs, kind \in Kinds, l \in Labels, s \in Nat :
            Says(o, kind, l, s)' <=> Says(o, kind, l, s)
    BY <1>1 DEF Says, Pending, Waits
  <1>4. (registered \ awaiting)' = registered \ awaiting /\ registered \subseteq Outputs
    BY <1>1 DEF Sound, TypeOK, ListenersOK
  <1>5. QED
    BY <1>1, <1>2, <1>3, <1>4, QuietKeeps

LEMMA SendKeeps ==
    ASSUME Sound, Conclusions, NEW p \in Outputs, SendListed(p)
    PROVE  Conclusions'
  <1>1. PICK n \in listing[p] :
            /\ listing' = [listing EXCEPT ![p] = listing[p] \ {n}]
            /\ heard' = [heard EXCEPT ![p] = heard[p] \cup {n}]
            /\ UNCHANGED <<label2data, valueSerial, serial, notes, registered, awaiting>>
    BY DEF SendListed, mapVars
  <1>2. \A o \in Outputs : heard'[o] \cup listing'[o] = heard[o] \cup listing[o]
    BY <1>1 DEF Sound, TypeOK, ListenersOK
  <1>3. \A o \in Outputs, kind \in Kinds, l \in Labels, s \in Nat :
            Says(o, kind, l, s)' <=> Says(o, kind, l, s)
    BY <1>1, <1>2 DEF Says, Pending, Waits
  <1>4. QED
    BY <1>1, <1>3, QuietSteps

LEMMA DeleteConcludes ==
    ASSUME Sound, Conclusions, NEW t \in Threads, NEW l \in Labels, Delete(t, l)
    PROVE  Conclusions'
  <1>0. PICK x \in Nat : x = serial
    BY DEF Sound, TypeOK, MapOK
  <1> DEFINE G == {l}
             N == {}
  <1>1. /\ label2data' = [label2data EXCEPT ![l] = NoValue] /\ label2data[l] # NoValue
        /\ UNCHANGED <<valueSerial, serial, registered, awaiting>>
    BY DEF Delete, listenVars
  <1>2. SerialOf(l) # 0 /\ SerialOf(l)' = 0
    BY <1>1 DEF Sound, Steady, Naming, MapOK, SerialOf
  <1>3. \A m \in Labels \ {l} : SerialOf(m)' = SerialOf(m)
    BY <1>1 DEF Sound, Steady, MapOK, SerialOf
  <1>4. /\ serial' = IF N = {} THEN serial ELSE serial + 1
        /\ G \in SUBSET Labels /\ N \in SUBSET Labels
    BY <1>1
  <1>5. /\ \A o \in Outputs, kind \in Kinds, m \in Labels, s \in Nat :
            Says(o, kind, m, s)' => \/ Says(o, kind, m, s)
                                    \/ kind = "stored" /\ N # {} /\ s = serial
                                    \/ kind = "deleted" /\ m \in G /\ s = SerialOf(m)
        /\ \A o \in Outputs, kind \in Kinds, m \in Labels, s \in Nat :
            Says(o, kind, m, s) =>
                \/ Says(o, kind, m, s)'
                \/ /\ kind = "stored" /\ N # {} /\ Carried(G, s)
                   /\ Says(o, "stored", m, x)'
        /\ \A o \in Outputs, m \in N : Says(o, "stored", m, x)'
        /\ \A o \in Outputs, m \in G, s \in Nat : s = SerialOf(m) => Says(o, "deleted", m, s)'
    BY <1>0, <1>2, DeleteSays, SerialBounds DEF Kinds
  <1>6. /\ \A m \in G : SerialOf(m) # 0
        /\ \A m \in N : SerialOf(m)' = serial
        /\ \A m \in G \ N : SerialOf(m)' = 0
        /\ \A m \in Labels \ (G \cup N) : SerialOf(m)' = SerialOf(m)
        /\ \A m, k \in N : m = k
    BY <1>2, <1>3
  <1>7. UNCHANGED <<registered, awaiting>>
    BY <1>1
  <1> HIDE DEF G, N
  <1>8. QED
    BY <1>0, <1>7, <1>4, <1>5, <1>6, ChangeKeeps, ZenonT(60)

LEMMA RenameConcludes ==
    ASSUME Sound, Conclusions, Renaming, NEW t \in Threads,
           NEW old \in Labels, NEW new \in Labels, Rename(t, old, new)
    PROVE  Conclusions'
  <1>0. PICK x \in Nat : x = serial
    BY DEF Sound, TypeOK, MapOK
  <1> DEFINE G == {old}
             N == {new}
  <1>1. serial' = serial + 1 /\ label2data[old] # NoValue /\ UNCHANGED <<registered, awaiting>>
    BY DEF Rename, ReSerial, listenVars
  <1>2. SerialOf(old) # 0
    BY <1>1 DEF Sound, Steady, Naming, SerialOf
  <1>3. /\ SerialOf(new)' = serial
        /\ old # new => SerialOf(old)' = 0
        /\ \A k \in Labels \ {old, new} : SerialOf(k)' = SerialOf(k)
    BY RenameSerials DEF Sound
  <1>4. /\ serial' = IF N = {} THEN serial ELSE serial + 1
        /\ G \in SUBSET Labels /\ N \in SUBSET Labels
    BY <1>1
  <1>5. PICK y \in Nat : y = SerialOf(old)
    BY SerialBounds
  <1>6. \A o \in Outputs, kind \in Kinds, m \in Labels, s \in Nat :
            Says(o, kind, m, s)' => \/ Says(o, kind, m, s)
                                    \/ kind = "stored" /\ N # {} /\ s = serial
                                    \/ kind = "deleted" /\ m \in G /\ s = SerialOf(m)
    BY <1>0, <1>5, RenameSays
  <1>7. \A o \in Outputs, kind \in Kinds, m \in Labels, s \in Nat :
            Says(o, kind, m, s) =>
                \/ Says(o, kind, m, s)'
                \/ /\ kind = "stored" /\ N # {} /\ Carried(G, s)
                   /\ Says(o, "stored", m, x)'
    BY <1>0, <1>5, RenameSays DEF Carried
  <1>8. /\ \A o \in Outputs, m \in N : Says(o, "stored", m, x)'
        /\ \A o \in Outputs, m \in G, s \in Nat : s = SerialOf(m) => Says(o, "deleted", m, s)'
    BY <1>0, <1>5, RenameSays DEF Kinds
  <1>9. /\ \A m \in G : SerialOf(m) # 0
        /\ \A m \in N : SerialOf(m)' = serial
        /\ \A m \in G \ N : SerialOf(m)' = 0
        /\ \A m \in Labels \ (G \cup N) : SerialOf(m)' = SerialOf(m)
        /\ \A m, k \in N : m = k
    BY <1>2, <1>3
  <1> HIDE DEF G, N
  <1>10. QED
    BY <1>0, <1>1, <1>4, <1>6, <1>7, <1>8, <1>9, ChangeKeeps, ZenonT(120)

LEMMA AddConcludes ==
    ASSUME Sound, Conclusions, Renaming, NEW t \in Threads, NEW l \in Labels, AddItem(t, l)
    PROVE  Conclusions'
  <1>0. PICK x \in Nat : x = serial
    BY DEF Sound, TypeOK, MapOK
  <1> DEFINE G == {}
             N == {l}
  <1>1. serial' = serial + 1 /\ UNCHANGED <<registered, awaiting>>
    BY DEF AddItem, listenVars
  <1>2. SerialOf(l)' = serial /\ \A k \in Labels \ {l} : SerialOf(k)' = SerialOf(k)
    BY ItemSerials DEF Sound
  <1>3. /\ serial' = IF N = {} THEN serial ELSE serial + 1
        /\ G \in SUBSET Labels /\ N \in SUBSET Labels
    BY <1>1
  <1>4. /\ \A o \in Outputs, kind \in Kinds, m \in Labels, s \in Nat :
            Says(o, kind, m, s)' => \/ Says(o, kind, m, s)
                                    \/ kind = "stored" /\ N # {} /\ s = serial
                                    \/ kind = "deleted" /\ m \in G /\ s = SerialOf(m)
        /\ \A o \in Outputs, kind \in Kinds, m \in Labels, s \in Nat :
            Says(o, kind, m, s) =>
                \/ Says(o, kind, m, s)'
                \/ /\ kind = "stored" /\ N # {} /\ Carried(G, s)
                   /\ Says(o, "stored", m, x)'
        /\ \A o \in Outputs, m \in N : Says(o, "stored", m, x)'
        /\ \A o \in Outputs, m \in G, s \in Nat : s = SerialOf(m) => Says(o, "deleted", m, s)'
    BY <1>0, AddSays, SerialBounds DEF Kinds
  <1>5. /\ \A m \in G : SerialOf(m) # 0
        /\ \A m \in N : SerialOf(m)' = serial
        /\ \A m \in G \ N : SerialOf(m)' = 0
        /\ \A m \in Labels \ (G \cup N) : SerialOf(m)' = SerialOf(m)
        /\ \A m, k \in N : m = k
    BY <1>2
  <1> HIDE DEF G, N
  <1>6. QED
    BY <1>0, <1>1, <1>3, <1>4, <1>5, ChangeKeeps, ZenonT(60)

LEMMA ConclusionsNext == Sound /\ Renaming /\ Conclusions /\ [Next]_vars => Conclusions'
  <1> SUFFICES ASSUME Sound, Renaming, Conclusions, [Next]_vars PROVE Conclusions'
    OBVIOUS
  <1>1. ASSUME NEW t \in Threads, ReadSerial(t) PROVE Conclusions'
    <2>1. UNCHANGED <<label2data, valueSerial, serial, registered, awaiting>>
      BY <1>1 DEF ReadSerial, mapVars, listenVars
    <2>2. QED
      BY <1>1, <2>1, ReadSays, QuietSteps
  <1>2. ASSUME NEW t \in Threads, Notify(t) PROVE Conclusions'
    <2>1. UNCHANGED <<label2data, valueSerial, serial, registered, awaiting>>
      BY <1>2 DEF Notify, mapVars
    <2>2. QED
      BY <1>2, <2>1, NotifySays, QuietSteps
  <1>3. CASE UNCHANGED <<label2data, valueSerial, serial, notes, registered, awaiting, listing, heard>>
    <2>1. \A o \in Outputs, kind \in Kinds, l \in Labels, s \in Nat :
            Says(o, kind, l, s)' <=> Says(o, kind, l, s)
      BY <1>3 DEF Says, Pending, Waits
    <2>2. QED
      BY <1>3, <2>1, QuietSteps
  <1>4. QED
    BY <1>1, <1>2, <1>3, DeleteConcludes, RenameConcludes, AddConcludes, RegisterKeeps,
       ListKeeps, SendKeeps
    DEF Next, AddBegin, AddUnlock, Prepare, vars, mapVars, listenVars

LEMMA ToldInvariant == Spec => [](Sound /\ Renaming /\ Conclusions)
  <1>1. Init => Renaming /\ Conclusions
    <2> SUFFICES ASSUME Init PROVE Renaming /\ Conclusions
      OBVIOUS
    <2>1. \A n : \A t \in Threads : ~In(n, notes[t])
      BY DEF Init, In
    <2>2. \A o \in Outputs, kind \in Kinds, l \in Labels, s \in Nat : ~Says(o, kind, l, s)
      BY <2>1, ConstantsAssumption DEF Init, Says, Pending, Waits
    <2>3. \A l \in Labels : SerialOf(l) = 0
      BY DEF Init, SerialOf
    <2>4. \A s \in Nat : ~(s # 0 /\ s < serial)
      BY DEF Init
    <2>5. QED
      BY <2>1, <2>2, <2>3, <2>4, ConstantsAssumption
      DEF Init, Renaming, Conclusions, Below, Latest, LatestFor, Homes, Always, Kinds
  <1>2. Sound /\ Renaming /\ Conclusions /\ [Next]_vars => (Renaming /\ Conclusions)'
    BY RenamingNext, ConclusionsNext
  <1>3. QED
    BY <1>1, <1>2, SoundInvariant, PTL DEF Spec

(***************************************************************************)
(* The theorems.                                                           *)
(***************************************************************************)

(* When all is sent, what an Output heard is what it says.                 *)
LEMMA Heard ==
    ASSUME Sound, NEW o \in Outputs, Quiescent(o), NEW l \in Labels
    PROVE  /\ \A kind \in Kinds, s \in Nat : Says(o, kind, l, s) <=> Note(kind, l, s) \in heard[o]
           /\ Announced(o, l) \subseteq Nat
           /\ \A s \in Nat : s \in Announced(o, l) <=>
                    Says(o, "stored", l, s) \/ Says(o, "deleted", l, s)
  <1>1. \A n : ~Waits(n)
    BY DEF Quiescent, Waits, In
  <1>2. \A kind, s : Says(o, kind, l, s) <=> Note(kind, l, s) \in heard[o]
    BY <1>1 DEF Says, Pending, Quiescent
  <1>3. heard[o] \subseteq SentType
    BY DEF Sound, TypeOK, ListenersOK
  <1>4. ASSUME NEW n \in heard[o], n.label = l
        PROVE  n = Note("stored", l, n.serial) \/ n = Note("deleted", l, n.serial)
    BY <1>3, <1>4 DEF SentType, Note
  <1>5. ASSUME NEW n \in heard[o] PROVE n.serial \in Nat
    BY <1>3, <1>5 DEF SentType
  <1>6. \A kind, s : Note(kind, l, s).label = l /\ Note(kind, l, s).serial = s
                    /\ Note(kind, l, s).kind = kind
    BY DEF Note
  <1>7. \A s : s \in Announced(o, l) <=>
                    Note("stored", l, s) \in heard[o] \/ Note("deleted", l, s) \in heard[o]
    BY <1>4, <1>5, <1>6 DEF Announced
  <1>8. Announced(o, l) \subseteq Nat
    BY <1>5 DEF Announced
  <1>9. QED
    BY <1>2, <1>7, <1>8

(* Once every notification is out a child started at any moment knows of   *)
(* every label that is stored, and with which serial.                      *)
THEOREM ChildrenMissNothing == Spec => []ChildMissesNothing
  <1>1. ASSUME Sound, Conclusions, NEW o \in Outputs, Quiescent(o), NEW l \in Labels,
               SerialOf(l) # 0
        PROVE  Stored(l, SerialOf(l)) \in heard[o] /\ Deleted(l, SerialOf(l)) \notin heard[o]
    <2>1. PICK s \in Nat : s = SerialOf(l)
      BY <1>1, SerialBounds
    <2>2. Says(o, "stored", l, s) /\ ~Says(o, "deleted", l, s)
      BY <1>1, <2>1 DEF Conclusions, Latest, LatestFor, Quiescent
    <2>3. QED
      BY <1>1, <2>1, <2>2, Heard DEF Kinds, Stored, Deleted
  <1>2. Sound /\ Conclusions => ChildMissesNothing
    BY <1>1 DEF ChildMissesNothing
  <1>3. QED
    BY <1>2, ToldInvariant, PTL

(* Once every notification is out the controller can tell, whichever       *)
(* threads renamed, which labels have no data and, but for the labels      *)
(* whose newest serial was announced for another as well, which data the   *)
(* others have.                                                            *)
THEOREM ControllerIsRight == Spec => []ControllerAgrees
  <1>1. ASSUME Sound, Conclusions, NEW o \in Early, Quiescent(o), NEW l \in Labels,
               SerialOf(l) # 0
        PROVE  /\ SerialOf(l) \in Announced(o, l)
               /\ \A q \in Announced(o, l) : Deleted(l, q) \in heard[o] => q < SerialOf(l)
    <2>1. PICK s \in Nat : s = SerialOf(l)
      BY <1>1, SerialBounds
    <2>2. o \in Outputs /\ LatestFor(o, l) /\ o \in registered \ awaiting
      BY <1>1, ConstantsAssumption DEF Conclusions, Latest, Quiescent
    <2>3. Says(o, "stored", l, s) /\ \A q \in Nat : Says(o, "deleted", l, q) => q < s
      BY <1>1, <2>1, <2>2 DEF LatestFor
    <2>4. QED
      BY <1>1, <2>1, <2>2, <2>3, Heard DEF Kinds, Deleted
  <1>2. ASSUME Sound, Conclusions, NEW o \in Early, Quiescent(o), NEW l \in Labels,
               NEW s \in Announced(o, l), Newest(o, l, s), Deleted(l, s) \notin heard[o],
               \A k \in Labels \ {l} : s \notin Announced(o, k)
        PROVE  SerialOf(l) = s
    <2>1. o \in Outputs
      BY ConstantsAssumption
    <2>2. s \in Nat /\ (Says(o, "stored", l, s) \/ Says(o, "deleted", l, s))
      BY <1>2, <2>1, Heard
    <2>3. s # 0 /\ s < serial
      BY <1>2, <2>1, <2>2 DEF Conclusions, Below, Kinds
    <2>4. PICK h \in Labels : SerialOf(h) = s \/ Says(o, "deleted", h, s) \/ Replaced(o, h, s)
      BY <1>2, <2>2, <2>3 DEF Conclusions, Homes, Home
    <2>5. CASE SerialOf(h) = s
      <3>1. s \in Announced(o, h)
        BY <1>1, <1>2, <2>3, <2>5
      <3>2. QED
        BY <1>2, <2>5, <3>1
    <2>6. CASE Says(o, "deleted", h, s)
      <3>1. s \in Announced(o, h) /\ Note("deleted", h, s) \in heard[o]
        BY <1>2, <2>1, <2>2, <2>6, Heard DEF Kinds
      <3>2. h = l
        BY <1>2, <3>1
      <3>3. QED
        BY <1>2, <3>1, <3>2 DEF Deleted
    <2>7. CASE Replaced(o, h, s)
      <3>1. PICK r \in Nat : s < r /\ Says(o, "stored", h, r)
        BY <2>7 DEF Replaced
      <3>2. s \in Announced(o, h) /\ r \in Announced(o, h)
        BY <1>2, <2>1, <2>2, <2>7, <3>1, Heard DEF Replaced
      <3>3. h = l
        BY <1>2, <3>2
      <3>4. r <= s
        BY <1>2, <3>2, <3>3 DEF Newest
      <3>5. QED
        BY <2>2, <3>1, <3>4
    <2>8. QED
      BY <2>4, <2>5, <2>6, <2>7
  <1>3. Sound /\ Conclusions => ControllerAgrees
    <2> SUFFICES ASSUME Sound, Conclusions, NEW o \in Early, Quiescent(o), NEW l \in Labels
                 PROVE  /\ Announced(o, l) = {} => SerialOf(l) = 0
                        /\ \A s \in Announced(o, l) : Newest(o, l, s) =>
                             IF Deleted(l, s) \in heard[o] THEN SerialOf(l) = 0
                             ELSE (\A k \in Labels \ {l} : s \notin Announced(o, k))
                                    => SerialOf(l) = s
      BY DEF ControllerAgrees
    <2>1. Announced(o, l) = {} => SerialOf(l) = 0
      BY <1>1
    <2>2. ASSUME NEW s \in Announced(o, l), Newest(o, l, s), Deleted(l, s) \in heard[o]
          PROVE  SerialOf(l) = 0
      <3> SUFFICES ASSUME SerialOf(l) # 0 PROVE FALSE
        OBVIOUS
      <3>1. SerialOf(l) \in Announced(o, l) /\ s < SerialOf(l)
        BY <1>1, <2>2
      <3>2. SerialOf(l) <= s /\ SerialOf(l) \in Nat /\ s \in Nat
        BY <2>2, <3>1, Heard, SerialBounds, ConstantsAssumption DEF Newest
      <3>3. QED
        BY <3>1, <3>2
    <2>3. QED
      BY <1>2, <2>1, <2>2
  <1>4. QED
    BY <1>3, ToldInvariant, PTL
============================================================================
