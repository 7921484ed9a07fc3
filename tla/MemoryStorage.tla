--------------------------- MODULE MemoryStorage ---------------------------
(***************************************************************************)
(* The in-memory Storage as the command threads use it.  Each runner       *)
(* thread and the main thread perform Delete, Rename and Add under         *)
(* label2data_mutex, release it, and only then send the notifications of   *)
(* what they did, so notifications of two threads mix.  An Output that     *)
(* asked for data notifications hears them; the Output of a new child is   *)
(* registered first and is then sent the List of what is stored.           *)
(*                                                                         *)
(* A Value object is named by the serial it was created with; ReSerial     *)
(* changes the serial it carries, never the object.                        *)
(***************************************************************************)
EXTENDS Integers, Sequences, FiniteSets

CONSTANTS
    Labels,      \* labels, numbers so that they are ordered as in std::map
    Threads,     \* threads that execute commands
    Outputs,     \* the Outputs that take data notifications
    Early,       \* those registered before any data exists (the controller)
    NoThread,    \* label2data_mutex is free
    MaxSerial    \* bound: serials handed out in a behaviour

ASSUME ConstantsAssumption ==
    /\ Labels \subseteq Nat
    /\ Early \subseteq Outputs
    /\ NoThread \notin Threads
    /\ MaxSerial \in Nat

Values == 1 .. MaxSerial
NoValue == 0

VARIABLES
    lock,        \* holder of label2data_mutex across steps, or NoThread
    label2data,  \* the Value object of each label, or NoValue
    valueSerial, \* the serial each Value object carries, 0 before it exists
    serial,      \* MemoryStorage::serial, the next one to hand out
    group,       \* what is left of the DataGroup each thread is adding
    notes,       \* notifications each thread has yet to send, in order
    registered,  \* the members of DataNotifiedOutputs
    awaiting,    \* the new children's Outputs whose runner has yet to call List
    listing,     \* per Output: the List entries its runner has yet to send
    heard        \* per Output: every data notification queued to it

VARIABLES
    before,      \* history: label2data's serials and serial at last release
    view         \* history: the serials the latest reader of the map saw

mapVars == <<lock, label2data, valueSerial, serial, group, before>>
listenVars == <<registered, awaiting, listing, heard>>
vars == <<lock, label2data, valueSerial, serial, group, notes, registered,
          awaiting, listing, heard, before, view>>

Note(kind, l, s) == [kind |-> kind, label |-> l, serial |-> s]
Deleted(l, s) == Note("deleted", l, s)
Stored(l, s) == Note("stored", l, s)
(* NotifyStore(New.String(), v->Serial()): the serial is read when the     *)
(* call is made, after the mutex was released.                             *)
Unread(l, v) == Note("unread", l, v)

(* The serial under which l is stored, 0 when it is not.                   *)
SerialOf(l) == IF label2data[l] = NoValue THEN 0 ELSE valueSerial[label2data[l]]
Serials == [l \in Labels |-> SerialOf(l)]

Init ==
    /\ lock = NoThread
    /\ label2data = [l \in Labels |-> NoValue]
    /\ valueSerial = [v \in Values |-> 0]
    /\ serial = 1
    /\ group = [t \in Threads |-> {}]
    /\ notes = [t \in Threads |-> << >>]
    /\ registered = Early
    /\ awaiting = {}
    /\ listing = [o \in Outputs |-> {}]
    /\ heard = [o \in Outputs |-> {}]
    /\ before = [store |-> [l \in Labels |-> 0], next |-> 1]
    /\ view = [l \in Labels |-> 0]

(* The thread executes no command.                                         *)
Idle(t) == lock # t /\ notes[t] = << >>

Release == /\ lock' = NoThread
           /\ before' = [store |-> Serials', next |-> serial']

(* Mutant of DeleteNotes: the serial is read after the label was removed.   *)
DeleteNotesLate(l) == <<Deleted(l, 0)>>

DeleteNotes(l) == <<Deleted(l, SerialOf(l))>>

(***************************************************************************)
(* Delete: del() under the mutex, then the notification.  A label without  *)
(* data changes nothing (the command reports it missing).                  *)
(***************************************************************************)
Delete(t, l) ==
    /\ Idle(t) /\ lock = NoThread
    /\ label2data[l] # NoValue
    /\ label2data' = [label2data EXCEPT ![l] = NoValue]
    /\ notes' = [notes EXCEPT ![t] = DeleteNotes(l)]
    /\ UNCHANGED <<valueSerial, serial, group, view>>
    /\ UNCHANGED listenVars
    /\ Release

(* Mutant of Move: the old label stays.                                    *)
MoveCopies(old, new) == label2data' = [label2data EXCEPT ![new] = label2data[old]]

Move(old, new) == label2data' = [label2data EXCEPT ![old] = NoValue, ![new] = label2data[old]]

(* Mutant of ReSerial: the Value keeps the serial it has.                  *)
SerialKept(v) == serial' = serial + 1 /\ UNCHANGED valueSerial

ReSerial(v) == /\ valueSerial' = [valueSerial EXCEPT ![v] = serial]
               /\ serial' = serial + 1

(***************************************************************************)
(* Rename: the Value moves to New, whose own data is dropped with no       *)
(* notification, and is given the next serial.                             *)
(***************************************************************************)
Rename(t, old, new) ==
    LET v == label2data[old] IN
    /\ Idle(t) /\ lock = NoThread
    /\ serial <= MaxSerial
    /\ v # NoValue
    /\ Move(old, new)
    /\ ReSerial(v)
    /\ notes' = [notes EXCEPT ![t] = <<Deleted(old, valueSerial[v]), Unread(new, v)>>]
    /\ UNCHANGED <<group, view>>
    /\ UNCHANGED listenVars
    /\ Release

(***************************************************************************)
(* Add: the mutex is held while DataGroup::Get hands out the items in      *)
(* label order, one per step here; what a label held before is dropped     *)
(* with no notification.                                                   *)
(***************************************************************************)
AddBegin(t, G) ==
    /\ Idle(t) /\ lock = NoThread
    /\ G # {} /\ IsFiniteSet(G) /\ serial + Cardinality(G) <= MaxSerial + 1
    /\ lock' = t
    /\ group' = [group EXCEPT ![t] = G]
    /\ UNCHANGED <<label2data, valueSerial, serial, notes, before, view>>
    /\ UNCHANGED listenVars

AddItem(t, l) ==
    /\ lock = t
    /\ l \in group[t] /\ \A k \in group[t] : l <= k
    /\ serial <= MaxSerial
    /\ group' = [group EXCEPT ![t] = @ \ {l}]
    /\ label2data' = [label2data EXCEPT ![l] = serial]
    /\ valueSerial' = [valueSerial EXCEPT ![serial] = serial]
    /\ serial' = serial + 1
    /\ notes' = [notes EXCEPT ![t] = Append(@, Stored(l, serial))]
    /\ UNCHANGED <<lock, before, view>>
    /\ UNCHANGED listenVars

AddUnlock(t) ==
    /\ lock = t /\ group[t] = {}
    /\ UNCHANGED <<label2data, valueSerial, serial, group, notes, view>>
    /\ UNCHANGED listenVars
    /\ Release

(***************************************************************************)
(* Storage::NotifyDelete and NotifyStore: one call reaches every           *)
(* registered Output while OutputCollection holds its own mutex.           *)
(***************************************************************************)
ReadSerial(t) ==
    /\ lock # t /\ notes[t] # << >>
    /\ LET n == Head(notes[t]) IN
        /\ n.kind = "unread"
        /\ notes' = [notes EXCEPT ![t][1] = Stored(n.label, valueSerial[n.serial])]
    /\ UNCHANGED <<mapVars, view>>
    /\ UNCHANGED listenVars

Notify(t) ==
    /\ lock # t /\ notes[t] # << >>
    /\ Head(notes[t]).kind # "unread"
    /\ heard' = [o \in Outputs |-> IF o \in registered
                                   THEN heard[o] \cup {Head(notes[t])}
                                   ELSE heard[o]]
    /\ notes' = [notes EXCEPT ![t] = Tail(@)]
    /\ UNCHANGED <<registered, awaiting, listing, view>>
    /\ UNCHANGED mapVars

(* Mutant of Register: the Output never joins the collection.              *)
RegisterForgotten(o) ==
    /\ o \notin registered
    /\ awaiting' = awaiting \cup {o}
    /\ UNCHANGED <<notes, registered, listing, heard, view>>
    /\ UNCHANGED mapVars

(***************************************************************************)
(* A child that asked for data notifications: its Output is registered     *)
(* when it is created, then the runner takes the List and sends it as      *)
(* "stored" notifications to that Output alone.                            *)
(***************************************************************************)
Register(o) ==
    /\ o \notin registered
    /\ registered' = registered \cup {o}
    /\ awaiting' = awaiting \cup {o}
    /\ UNCHANGED <<notes, listing, heard, view>>
    /\ UNCHANGED mapVars

List(o) ==
    /\ o \in awaiting /\ lock = NoThread
    /\ awaiting' = awaiting \ {o}
    /\ listing' = [listing EXCEPT ![o] = {Stored(l, SerialOf(l)) :
                                     l \in {k \in Labels : label2data[k] # NoValue}}]
    /\ view' = Serials
    /\ UNCHANGED <<notes, registered, heard>>
    /\ UNCHANGED mapVars

(* Mutant of SendListed: the loop ends after one entry.                    *)
SendsOneListed(o) ==
    /\ \E n \in listing[o] : heard' = [heard EXCEPT ![o] = @ \cup {n}]
    /\ listing' = [listing EXCEPT ![o] = {}]
    /\ UNCHANGED <<notes, registered, awaiting, view>>
    /\ UNCHANGED mapVars

SendListed(o) ==
    /\ \E n \in listing[o] :
        /\ listing' = [listing EXCEPT ![o] = @ \ {n}]
        /\ heard' = [heard EXCEPT ![o] = @ \cup {n}]
    /\ UNCHANGED <<notes, registered, awaiting, view>>
    /\ UNCHANGED mapVars

(* Mutant of Prepare: label2data_mutex is not taken.                       *)
PrepareUnlocked ==
    /\ view' = Serials
    /\ UNCHANGED notes
    /\ UNCHANGED mapVars
    /\ UNCHANGED listenVars

(* Prepare and Info read all they want in one critical section.            *)
Prepare ==
    /\ lock = NoThread
    /\ view' = Serials
    /\ UNCHANGED notes
    /\ UNCHANGED mapVars
    /\ UNCHANGED listenVars

Next ==
    \/ \E t \in Threads :
        \/ \E l \in Labels : Delete(t, l)
        \/ \E old, new \in Labels : Rename(t, old, new)
        \/ \E G \in SUBSET Labels : AddBegin(t, G)
        \/ \E l \in Labels : AddItem(t, l)
        \/ AddUnlock(t)
        \/ ReadSerial(t)
        \/ Notify(t)
    \/ \E o \in Outputs : Register(o) \/ List(o) \/ SendListed(o)
    \/ Prepare

Spec == Init /\ [][Next]_vars

----------------------------------------------------------------------------
SentType == [kind : {"deleted", "stored"}, label : Labels, serial : 0 .. MaxSerial]
NoteType == SentType \cup [kind : {"unread"}, label : Labels, serial : Values]

MapOK ==
    /\ lock \in Threads \cup {NoThread}
    /\ label2data \in [Labels -> 0 .. MaxSerial]
    /\ valueSerial \in [Values -> 0 .. MaxSerial]
    /\ serial \in 1 .. MaxSerial + 1
    /\ group \in [Threads -> SUBSET Labels]

ListenersOK ==
    /\ registered \in SUBSET Outputs
    /\ awaiting \in SUBSET registered
    /\ listing \in [Outputs -> SUBSET SentType]
    /\ heard \in [Outputs -> SUBSET SentType]

HistoryOK ==
    /\ before \in [store : [Labels -> 0 .. MaxSerial], next : 1 .. MaxSerial + 1]
    /\ view \in [Labels -> 0 .. MaxSerial]

NotesOK == notes \in [Threads -> Seq(NoteType)]

(* Every variable has the shape the code gives it.                         *)
TypeOK == MapOK /\ NotesOK /\ ListenersOK /\ HistoryOK

(* A Value is reachable from one label only, and no two labels carry the   *)
(* same serial: the serial identifies the data whatever sequence of adds,  *)
(* overwrites, renames and deletes led here.                               *)
SerialIdentifiesLabel ==
    \A l, m \in Labels :
        /\ (label2data[l] # NoValue /\ label2data[l] = label2data[m]) => l = m
        /\ (SerialOf(l) # 0 /\ SerialOf(l) = SerialOf(m)) => l = m

(* A notification that says a label was stored with a serial is true: no   *)
(* two labels are ever announced under one serial, on any Output.  Two     *)
(* threads that rename break it (MemoryStorage.cpp:147 reads the serial    *)
(* after the mutex was released), so no run expects it to hold.            *)
OneLabelPerAnnouncedSerial ==
    \A o, p \in Outputs : \A n \in heard[o], k \in heard[p] :
        (n.kind = "stored" /\ k.kind = "stored" /\ n.serial = k.serial)
            => n.label = k.label

Quiescent(o) == /\ lock = NoThread
                /\ \A t \in Threads : notes[t] = << >>
                /\ o \in registered \ awaiting /\ listing[o] = {}

(* The serials o was told of for l, stored or deleted, and the newest.     *)
Announced(o, l) == {n.serial : n \in {k \in heard[o] : k.label = l}}
Newest(o, l, s) == s \in Announced(o, l) /\ \A r \in Announced(o, l) : r <= s

(* What a client that compares serials can rely on once every notification *)
(* is out, on an Output registered all along (the controller's), in        *)
(* whatever order the threads sent them.  A label no notification named,   *)
(* or whose newest serial was announced deleted, has no data; a label      *)
(* whose newest serial was announced for no other label has that very      *)
(* data.  In the case left, a serial announced for two labels because a    *)
(* second rename came between unlock and NotifyStore, the newest serial of *)
(* a label says nothing of it: it may be empty or have older data.         *)
ControllerAgrees ==
    \A o \in Early : Quiescent(o) => \A l \in Labels :
        /\ Announced(o, l) = {} => SerialOf(l) = 0
        /\ \A s \in Announced(o, l) : Newest(o, l, s) =>
            IF Deleted(l, s) \in heard[o] THEN SerialOf(l) = 0
            ELSE (\A k \in Labels \ {l} : s \notin Announced(o, k)) => SerialOf(l) = s

(* Whatever is stored, every Output that is up to date was told of it with *)
(* the serial it has now and never told that serial was deleted there:     *)
(* also the Output of a child started in the middle of it, from its List   *)
(* and the notifications that mixed with it.                               *)
ChildMissesNothing ==
    \A o \in Outputs : Quiescent(o) =>
        \A l \in Labels : SerialOf(l) # 0 =>
            /\ Stored(l, SerialOf(l)) \in heard[o]
            /\ Deleted(l, SerialOf(l)) \notin heard[o]

(* While a label keeps having data its serial never goes back.             *)
SerialsRise ==
    [][\A l \in Labels : (SerialOf(l) # 0 /\ SerialOf(l)' # 0) =>
            SerialOf(l) <= SerialOf(l)']_vars

Promise == INSTANCE LabelStore WITH
    store <- before.store, next <- before.next, view <- view

(* The storage implements the map whose operations are single steps: the   *)
(* items of a group appear together and no reader sees some of them.       *)
GroupsAreAtomic == Promise!Spec
============================================================================
