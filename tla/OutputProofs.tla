---------------------------- MODULE OutputProofs ----------------------------
(***************************************************************************)
(* What holds of every Output, for any number of writers, messages and     *)
(* batches: the theorems about Output and their proofs.                    *)
(***************************************************************************)
EXTENDS Output, SequenceTheorems, TLAPS

(* The threads are who they are and nobody else.                           *)
LEMMA Distinct ==
    /\ Feeder # Closer /\ Feeder # Destroyer /\ Closer # Destroyer
    /\ Feeder # Nobody /\ Closer # Nobody /\ Destroyer # Nobody
    /\ \A w \in Writers : w \notin {Feeder, Closer, Destroyer, Nobody}
    /\ Threads = Writers \cup {Feeder, Closer, Destroyer}
    /\ Clearers = {Feeder, Destroyer}
    /\ Nobody \notin Threads
    /\ Notifiers \subseteq Writers /\ Direct \subseteq Writers
    /\ DataNotifier \in Notifiers
  BY ConstantsAssumption DEF Writers, Threads, Clearers

(* What taking and adding an item does to a queue.                         *)
LEMMA QueueTypes ==
    /\ << >> \in Seq(Items)
    /\ \A q \in Seq(Items) :
        /\ \A e \in Items : Append(q, e) \in Seq(Items)
        /\ q # << >> => Head(q) \in Items /\ Tail(q) \in Seq(Items)
  <1>1. << >> \in Seq(Items)
    BY EmptySeq
  <1>2. \A q \in Seq(Items), e \in Items : Append(q, e) \in Seq(Items)
    BY AppendProperties
  <1>3. \A q \in Seq(Items) : q # << >> => Head(q) \in Items /\ Tail(q) \in Seq(Items)
    BY HeadTailProperties
  <1>4. QED
    BY <1>1, <1>2, <1>3

LEMMA AppendedSet ==
    ASSUME NEW q \in Seq(Items), NEW e \in Items
    PROVE  SeqSet(Append(q, e)) = SeqSet(q) \cup {e}
  <1>1. /\ DOMAIN q = 1 .. Len(q)
        /\ DOMAIN Append(q, e) = 1 .. Len(q) + 1
        /\ Len(q) \in Nat
    BY AppendProperties
  <1>2. /\ \A i \in 1 .. Len(q) : Append(q, e)[i] = q[i]
        /\ Append(q, e)[Len(q) + 1] = e
    BY AppendProperties
  <1>3. 1 .. Len(q) + 1 = (1 .. Len(q)) \cup {Len(q) + 1}
    BY <1>1
  <1>4. QED
    BY <1>1, <1>2, <1>3, Zenon DEF SeqSet

LEMMA TakenSet ==
    ASSUME NEW q \in Seq(Items), q # << >>
    PROVE  SeqSet(q) = {Head(q)} \cup SeqSet(Tail(q))
  <1>1. ASSUME NEW i \in 1 .. Len(q) PROVE q[i] \in {Head(q)} \cup SeqSet(Tail(q))
    <2>1. CASE i = 1
      BY <2>1
    <2>2. CASE i # 1
      <3>1. i - 1 \in 1 .. Len(Tail(q)) /\ Tail(q)[i - 1] = q[i]
        BY <2>2, HeadTailProperties
      <3>2. QED
        BY <3>1 DEF SeqSet
    <2>3. QED
      BY <2>1, <2>2
  <1>2. ASSUME NEW i \in 1 .. Len(Tail(q)) PROVE Tail(q)[i] \in SeqSet(q)
    <2>1. i + 1 \in 1 .. Len(q) /\ Tail(q)[i] = q[i + 1]
      BY HeadTailProperties
    <2>2. QED
      BY <2>1 DEF SeqSet
  <1>3. Head(q) \in SeqSet(q)
    BY EmptySeq DEF SeqSet
  <1>4. DOMAIN q = 1 .. Len(q) /\ DOMAIN Tail(q) = 1 .. Len(Tail(q))
    BY HeadTailProperties
  <1>5. QED
    BY <1>1, <1>2, <1>3, <1>4 DEF SeqSet

(***************************************************************************)
(* Where the threads are.                                                  *)
(***************************************************************************)
LEMMA PlacesInit == Init => PlacesOK
  BY Distinct DEF Init, PlacesOK, WriterPlaces, FeederPlaces, DestroyerPlaces

LEMMA PlacesWriter == ASSUME PlacesOK, NEW w \in Writers, WriterStep(w) PROVE PlacesOK'
  <1>1. \/ pc' = pc
        \/ \E place \in WriterPlaces : pc' = [pc EXCEPT ![w] = place]
    BY DEF WriterStep, Writable, InsertLock, Insert, EndCheck, EndMaster, EndedLockSets,
           EndedLockMutex, EndedQueue, FeedCheck, FeedPush, Goto, WriterPlaces
  <1>2. QED
    BY <1>1, Distinct DEF PlacesOK

LEMMA PlacesFeeder == ASSUME PlacesOK, FeederStep PROVE PlacesOK'
  <1>1. \/ pc' = pc
        \/ \E place \in FeederPlaces : pc' = [pc EXCEPT ![Feeder] = place]
    BY Distinct
    DEF FeederStep, FeederCheck, FeederTake, FeederWake, FeederWrite, WriteFails, ReadFails,
        Catch, OrphanLock, OrphanedUnlocked, FeederClose, ClearStep, NoGlobalMessages, Left,
        LeftTo, ClearLockSets, ClearLockMutex, Cleared, Orphan, Goto, FeederPlaces
  <1>2. QED
    BY <1>1, Distinct DEF PlacesOK

LEMMA PlacesCloser == ASSUME PlacesOK, CloserStep PROVE PlacesOK'
  <1>1. \/ pc' = pc
        \/ \E place \in {"idle", "leave", "done"} : pc' = [pc EXCEPT ![Closer] = place]
    BY Distinct DEF CloserStep, End, NoGlobalMessages, Left, LeftTo, Goto
  <1>2. QED
    BY <1>1, Distinct DEF PlacesOK, FeederPlaces, DestroyerPlaces

LEMMA PlacesDestroyer == ASSUME PlacesOK, DestroyerStep PROVE PlacesOK'
  <1>1. \/ pc' = pc
        \/ \E place \in DestroyerPlaces : pc' = [pc EXCEPT ![Destroyer] = place]
    BY Distinct
    DEF DestroyerStep, Destroy, Join, ClearStep, NoGlobalMessages, Left,
        LeftTo, ClearLockSets, ClearLockMutex, Cleared, Orphan, Goto, DestroyerPlaces
  <1>2. QED
    BY <1>1, Distinct DEF PlacesOK

LEMMA PlacesNext == PlacesOK /\ [Next]_vars => PlacesOK'
  BY PlacesWriter, PlacesFeeder, PlacesCloser, PlacesDestroyer
  DEF Next, Gone, vars, PlacesOK

THEOREM PlacesCorrect == Spec => []PlacesOK
  BY PlacesInit, PlacesNext, PTL DEF Spec

(***************************************************************************)
(* The types of the other variables.                                       *)
(***************************************************************************)
LEMMA FlagsInit == Init => FlagsOK
  BY Distinct DEF Init, FlagsOK

LEMMA FlagsNext == FlagsOK /\ [Next]_vars => FlagsOK'
  <1> SUFFICES ASSUME FlagsOK, [Next]_vars PROVE FlagsOK'
    OBVIOUS
  <1>1. ASSUME NEW w \in Writers, WriterStep(w) PROVE FlagsOK'
    BY <1>1, Distinct
    DEF WriterStep, Writable, InsertLock, Insert, EndCheck, EndMaster, EndedLockSets,
        EndedLockMutex, EndedQueue, FeedCheck, FeedPush, Goto, FlagsOK, flags, locks,
        LockSets, LockMutex
  <1>2. CASE FeederStep
    BY <1>2, Distinct
    DEF FeederStep, FeederCheck, FeederTake, FeederWake, FeederWrite, WriteFails, ReadFails,
        Catch, OrphanLock, OrphanedUnlocked, FeederClose, ClearStep, NoGlobalMessages, Left,
        Leave, SetsEof, ClearLockSets, ClearLockMutex, Cleared, Orphan, FlagsOK, flags, locks,
        LockSets, LockMutex
  <1>3. CASE CloserStep
    BY <1>3, Distinct
    DEF CloserStep, End, NoGlobalMessages, Left, Leave, SetsEof, FlagsOK, flags, locks
  <1>4. CASE DestroyerStep
    BY <1>4, Distinct
    DEF DestroyerStep, Destroy, Join, ClearStep, NoGlobalMessages, Left, Leave, SetsEof,
        ClearLockSets, ClearLockMutex, Cleared, Orphan, FlagsOK, flags, locks,
        LockSets, LockMutex
  <1>5. QED
    BY <1>1, <1>2, <1>3, <1>4 DEF Next, Gone, vars, FlagsOK, flags, locks

LEMMA BuffersInit == Init => BuffersOK
  BY ConstantsAssumption DEF Init, BuffersOK

LEMMA BuffersNext == BuffersOK /\ [Next]_vars => BuffersOK'
  <1> SUFFICES ASSUME BuffersOK, [Next]_vars PROVE BuffersOK'
    OBVIOUS
  <1>1. ASSUME NEW w \in Writers, WriterStep(w) PROVE BuffersOK'
    <2>1. CASE Writable(w) \/ FeedCheck(w)
      BY <2>1, ConstantsAssumption
      DEF Writable, FeedCheck, MayWrite, BuffersOK, items, queues, work, history
    <2>2. CASE Insert(w)
      <3>1. todo' \in [Clearers -> SUBSET Writers]
        BY <2>2 DEF Insert, BuffersOK
      <3>2. QED
        BY <2>2, <3>1 DEF Insert, BuffersOK, items
    <2>3. CASE ~Writable(w) /\ ~FeedCheck(w) /\ ~Insert(w)
      BY <1>1, <2>3
      DEF WriterStep, InsertLock, EndCheck, EndMaster, EndedLockSets, EndedLockMutex,
          EndedQueue, FeedPush, BuffersOK, items, queues, work, history
    <2>4. QED
      BY <2>1, <2>2, <2>3
  <1>2. ASSUME NEW c \in Clearers, ClearStep(c) PROVE BuffersOK'
    BY <1>2
    DEF ClearStep, NoGlobalMessages, Left, ClearLockSets, ClearLockMutex, Cleared, Orphan,
        BuffersOK, items, queues, work, history
  <1>3. CASE FeederStep
    BY <1>2, <1>3, Distinct
    DEF FeederStep, FeederCheck, FeederTake, FeederWake, FeederWrite, WriteFails, ReadFails,
        Catch, OrphanLock, OrphanedUnlocked, FeederClose, BuffersOK, items, queues, work, history
  <1>4. CASE CloserStep
    BY <1>4
    DEF CloserStep, End, NoGlobalMessages, Left, BuffersOK, items, queues, work, history
  <1>5. CASE DestroyerStep
    BY <1>2, <1>5, Distinct
    DEF DestroyerStep, Destroy, Join, BuffersOK, items, queues, work, history
  <1>6. QED
    BY <1>1, <1>3, <1>4, <1>5 DEF Next, Gone, vars, BuffersOK, items, queues, work, history

(* A writer that is doing something has begun a message or a batch, so the *)
(* item it is going to queue has a number.                                 *)
Numbered == \A w \in Writers : pc[w] # "idle" => count[w] >= 1

LEMMA NumberedInit == Init => Numbered
  BY Distinct DEF Init, Numbered

LEMMA NumberedNext == PlacesOK /\ BuffersOK /\ Numbered /\ [Next]_vars => Numbered'
  <1> SUFFICES ASSUME PlacesOK, BuffersOK, Numbered, [Next]_vars PROVE Numbered'
    OBVIOUS
  <1>1. ASSUME NEW w \in Writers, WriterStep(w) PROVE Numbered'
    <2>1. CASE Writable(w) \/ FeedCheck(w)
      BY <2>1, Distinct
      DEF Writable, FeedCheck, MayWrite, Goto, PlacesOK, BuffersOK, Numbered
    <2>2. CASE ~Writable(w) /\ ~FeedCheck(w)
      BY <1>1, <2>2, Distinct
      DEF WriterStep, InsertLock, Insert, EndCheck, EndMaster, EndedLockSets, EndedLockMutex,
          EndedQueue, FeedPush, Goto, PlacesOK, Numbered, items
    <2>3. QED
      BY <2>1, <2>2
  <1>2. CASE FeederStep \/ CloserStep \/ DestroyerStep \/ Gone \/ UNCHANGED vars
    <2>1. count' = count
      BY <1>2
      DEF FeederStep, FeederCheck, FeederTake, FeederWake, FeederWrite, WriteFails, ReadFails,
          Catch, OrphanLock, OrphanedUnlocked, FeederClose, CloserStep, End, DestroyerStep,
          Destroy, Join, ClearStep, NoGlobalMessages, Left, ClearLockSets, ClearLockMutex,
          Cleared, Orphan, Gone, vars, items
    <2>2. \A w \in Writers : pc'[w] = pc[w]
      BY <1>2, Distinct
      DEF FeederStep, FeederCheck, FeederTake, FeederWake, FeederWrite, WriteFails, ReadFails,
          Catch, OrphanLock, OrphanedUnlocked, FeederClose, CloserStep, End, DestroyerStep,
          Destroy, Join, ClearStep, NoGlobalMessages, Left, ClearLockSets, ClearLockMutex,
          Cleared, Orphan, Gone, vars, Goto, PlacesOK
    <2>3. QED
      BY <2>1, <2>2 DEF Numbered
  <1>3. QED
    BY <1>1, <1>2 DEF Next

(* The feeder holds an item when it is about to write it, and only then.   *)
Holding == (current = << >>) <=> pc[Feeder] \notin {"write", "writeBatch"}

LEMMA QueuesInit == Init => QueuesOK /\ Holding
  BY QueueTypes, Distinct DEF Init, QueuesOK, Holding

LEMMA QueuesWriter ==
    ASSUME PlacesOK, BuffersOK, Numbered, QueuesOK, Holding, NEW w \in Writers, WriterStep(w)
    PROVE  QueuesOK' /\ Holding'
  <1>1. QueuesOK'
    <2>1. ASSUME pc[w] # "idle" PROVE <<w, count[w]>> \in Items
      BY <2>1, ConstantsAssumption DEF BuffersOK, Numbered, Items
    <2>2. CASE EndedQueue(w)
      BY <2>1, <2>2, QueueTypes DEF EndedQueue, Queued, Goto, QueuesOK, work, history
    <2>3. CASE FeedPush(w)
      BY <2>1, <2>3, QueueTypes DEF FeedPush, Goto, QueuesOK, work, history
    <2>4. CASE ~EndedQueue(w) /\ ~FeedPush(w)
      BY <2>4
      DEF WriterStep, Writable, InsertLock, Insert, EndCheck, EndMaster, EndedLockSets,
          EndedLockMutex, FeedCheck, QueuesOK, queues, work, history
    <2>5. QED
      BY <2>2, <2>3, <2>4
  <1>2. current' = current
    BY DEF WriterStep, Writable, InsertLock, Insert, EndCheck, EndMaster, EndedLockSets,
           EndedLockMutex, EndedQueue, FeedCheck, FeedPush, work, history
  <1>3. pc'[Feeder] = pc[Feeder]
    BY Distinct
    DEF WriterStep, Writable, InsertLock, Insert, EndCheck, EndMaster, EndedLockSets,
        EndedLockMutex, EndedQueue, FeedCheck, FeedPush, Goto, PlacesOK
  <1>4. QED
    BY <1>1, <1>2, <1>3 DEF Holding

LEMMA QueuesClear ==
    ASSUME PlacesOK, QueuesOK, Holding, NEW c \in Clearers, ClearStep(c)
    PROVE  QueuesOK' /\ Holding'
  <1>1. QueuesOK'
    BY QueueTypes
    DEF ClearStep, NoGlobalMessages, Left, ClearLockSets, ClearLockMutex, Cleared, Orphan,
        QueuesOK, queues, work, history
  <1>2. Holding'
    BY Distinct
    DEF ClearStep, NoGlobalMessages, Left, LeftTo, ClearLockSets, ClearLockMutex, Cleared,
        Orphan, Goto, Holding, PlacesOK, work, history
  <1>3. QED
    BY <1>1, <1>2

LEMMA QueuesFeeder ==
    ASSUME PlacesOK, QueuesOK, Holding, FeederStep
    PROVE  QueuesOK' /\ Holding'
  <1> USE Distinct
  <1>1. CASE FeederTake
    <2>1. << >> \notin Items
      BY DEF Items
    <2>2. CASE endedBuffers # << >>
      <3>1. Head(endedBuffers) \in Items /\ Tail(endedBuffers) \in Seq(Items)
        BY <2>2, QueueTypes DEF QueuesOK
      <3>2. /\ current' = Head(endedBuffers) /\ endedBuffers' = Tail(endedBuffers)
            /\ pc' = [pc EXCEPT ![Feeder] = "write"]
            /\ UNCHANGED <<inputs, written, history>>
        BY <1>1, <2>2 DEF FeederTake, NothingQueued, Goto
      <3>3. QED
        BY <2>1, <3>1, <3>2 DEF QueuesOK, Holding, PlacesOK, history
    <2>3. CASE endedBuffers = << >> /\ inputs # << >>
      <3>1. Head(inputs) \in Items /\ Tail(inputs) \in Seq(Items)
        BY <2>3, QueueTypes DEF QueuesOK
      <3>2. /\ current' = Head(inputs) /\ inputs' = Tail(inputs)
            /\ pc' = [pc EXCEPT ![Feeder] = "writeBatch"]
            /\ UNCHANGED <<endedBuffers, written, history>>
        BY <1>1, <2>3 DEF FeederTake, NothingQueued, Goto
      <3>3. QED
        BY <2>1, <3>1, <3>2 DEF QueuesOK, Holding, PlacesOK, history
    <2>4. CASE NothingQueued
      BY <1>1, <2>4 DEF FeederTake, NothingQueued, QueuesOK, Holding, Goto, PlacesOK, history
    <2>5. QED
      BY <2>2, <2>3, <2>4 DEF NothingQueued
  <1>2. CASE FeederWrite
    <2>1. current \in Items
      BY <1>2 DEF FeederWrite, QueuesOK, Holding, Goto
    <2>2. QED
      BY <1>2, <2>1, QueueTypes DEF FeederWrite, QueuesOK, Holding, Goto, PlacesOK, queues, history
  <1>3. CASE ReadFails
    <2>1. ErrorItem \in Items
      BY ConstantsAssumption DEF ErrorItem, Items
    <2>2. endedBuffers' \in Seq(Items)
      BY <1>3, <2>1, QueueTypes DEF ReadFails, QueuesOK
    <2>3. /\ current' = << >> /\ pc' = [pc EXCEPT ![Feeder] = "failed"]
          /\ UNCHANGED <<inputs, written, history>>
      BY <1>3 DEF ReadFails, Goto
    <2>4. QED
      BY <2>2, <2>3 DEF QueuesOK, Holding, PlacesOK, history
  <1>4. CASE ClearStep(Feeder)
    BY <1>4, QueuesClear
  <1>5. CASE FeederStep /\ ~FeederTake /\ ~FeederWrite /\ ~ReadFails /\ ~ClearStep(Feeder)
    BY <1>5, QueueTypes
    DEF FeederStep, FeederCheck, FeederWake, WriteFails, Catch, OrphanLock, OrphanedUnlocked,
        FeederClose, QueuesOK, Holding, Goto, PlacesOK, queues, work, history
  <1>6. QED
    BY <1>1, <1>2, <1>3, <1>4, <1>5

(* What was issued has numbers that fit.                                   *)
LEMMA IssuedItems == BuffersOK => Issued \subseteq Items
  <1> SUFFICES ASSUME BuffersOK, NEW w \in Direct, NEW n \in 1 .. count[w]
               PROVE  <<w, n>> \in Items
    BY DEF Issued
  <1>1. count[w] \in 0 .. MaxItems
    BY Distinct DEF BuffersOK
  <1>2. QED
    BY <1>1, Distinct, ConstantsAssumption DEF Items

LEMMA QueuesNext ==
    PlacesOK /\ BuffersOK /\ Numbered /\ QueuesOK /\ Holding /\ [Next]_vars
        => QueuesOK' /\ Holding'
  <1> SUFFICES ASSUME PlacesOK, BuffersOK, Numbered, QueuesOK, Holding, [Next]_vars
               PROVE  QueuesOK' /\ Holding'
    OBVIOUS
  <1>1. CASE CloserStep \/ Destroy \/ Join \/ Gone \/ UNCHANGED vars
    BY <1>1, Distinct, IssuedItems
    DEF CloserStep, End, NoGlobalMessages, Left, LeftTo, Destroy, Join, Gone, vars, Goto,
        QueuesOK, Holding, PlacesOK, queues, work, history
  <1>2. QED
    BY <1>1, QueuesWriter, QueuesFeeder, QueuesClear, Distinct DEF Next, DestroyerStep

TypeInv == TypeOK /\ Numbered /\ Holding

LEMMA TypeNext == TypeInv /\ [Next]_vars => TypeInv'
  BY PlacesNext, FlagsNext, BuffersNext, NumberedNext, QueuesNext DEF TypeInv, TypeOK

THEOREM TypeInvariant == Spec => []TypeInv
  <1>1. Init => TypeInv
    BY PlacesInit, FlagsInit, BuffersInit, NumberedInit, QueuesInit DEF TypeInv, TypeOK
  <1>2. QED
    BY <1>1, TypeNext, PTL DEF Spec

(* In every reachable state every variable has its type.                   *)
THEOREM TypeCorrect == Spec => []TypeOK
  BY TypeInvariant, PTL DEF TypeInv

(***************************************************************************)
(* The locks.  A thread in a critical section holds its mutex.             *)
(***************************************************************************)
Holders == \A t \in Threads : /\ InSets(t) => sets = t
                              /\ InMutex(t) => mut = t

LEMMA HoldersWriter ==
    ASSUME PlacesOK, Holders, NEW w \in Writers, WriterStep(w) PROVE Holders'
  <1> USE Distinct DEF Goto, PlacesOK, Holders, InSets, InMutex
  <1>1. CASE Writable(w) \/ EndCheck(w) \/ EndMaster(w) \/ FeedCheck(w) \/ FeedPush(w)
    BY <1>1 DEF Writable, EndCheck, EndMaster, FeedCheck, FeedPush, locks
  <1>2. CASE InsertLock(w) \/ Insert(w)
    BY <1>2 DEF InsertLock, Insert, LockMutex
  <1>3. CASE EndedLockSets(w) \/ EndedLockMutex(w)
    BY <1>3 DEF EndedLockSets, EndedLockMutex, LockSets, LockMutex
  <1>4. CASE EndedQueue(w)
    BY <1>4 DEF EndedQueue
  <1>5. QED
    BY <1>1, <1>2, <1>3, <1>4 DEF WriterStep

LEMMA HoldersClear ==
    ASSUME PlacesOK, Holders, NEW c \in Clearers, ClearStep(c) PROVE Holders'
  <1> USE Distinct DEF Goto, PlacesOK, Holders, InSets, InMutex
  <1>1. CASE NoGlobalMessages(c) \/ Left(c) \/ (\E w \in Writers : Orphan(c, w))
    BY <1>1 DEF NoGlobalMessages, Left, LeftTo, Orphan, locks
  <1>2. CASE ClearLockSets(c)
    BY <1>2 DEF ClearLockSets, LockSets
  <1>3. CASE ClearLockMutex(c)
    BY <1>3 DEF ClearLockMutex, LockMutex
  <1>4. CASE Cleared(c)
    BY <1>4 DEF Cleared
  <1>5. QED
    BY <1>1, <1>2, <1>3, <1>4 DEF ClearStep

LEMMA HoldersFeeder ==
    ASSUME PlacesOK, Holders, FeederStep PROVE Holders'
  <1> USE Distinct DEF Goto, PlacesOK, Holders, InSets, InMutex
  <1>1. CASE ClearStep(Feeder)
    BY <1>1, HoldersClear
  <1>2. CASE OrphanLock
    BY <1>2 DEF OrphanLock, LockSets
  <1>3. CASE OrphanedUnlocked
    BY <1>3 DEF OrphanedUnlocked
  <1>4. CASE FeederCheck \/ FeederTake \/ FeederWake
    BY <1>4 DEF FeederCheck, FeederTake, FeederWake, locks
  <1>5. CASE FeederWrite \/ WriteFails \/ ReadFails \/ Catch \/ FeederClose
    BY <1>5 DEF FeederWrite, WriteFails, ReadFails, Catch, FeederClose, locks
  <1>6. QED
    BY <1>1, <1>2, <1>3, <1>4, <1>5 DEF FeederStep

LEMMA HoldersNext == PlacesOK /\ Holders /\ [Next]_vars => Holders'
  <1> SUFFICES ASSUME PlacesOK, Holders, [Next]_vars PROVE Holders'
    OBVIOUS
  <1>1. CASE CloserStep \/ Destroy \/ Join \/ Gone \/ UNCHANGED vars
    BY <1>1, Distinct
    DEF CloserStep, End, NoGlobalMessages, Left, LeftTo, Destroy, Join, Gone, vars, Goto,
        PlacesOK, Holders, InSets, InMutex, locks
  <1>2. QED
    BY <1>1, HoldersWriter, HoldersFeeder, HoldersClear, Distinct DEF Next, DestroyerStep

LEMMA HoldersInvariant == Spec => []Holders
  <1>1. Init => Holders
    BY Distinct DEF Init, Holders, InSets, InMutex
  <1>2. QED
    BY <1>1, HoldersNext, PlacesCorrect, PTL DEF Spec

(* No two threads are inside a section of input_sets_mutex, nor inside one *)
(* of Output::mutex, however many threads write.                           *)
THEOREM Exclusion == Spec => []MutualExclusion
  <1>1. Holders => MutualExclusion
    BY DEF Holders, MutualExclusion
  <1>2. QED
    BY <1>1, HoldersInvariant, PTL

(***************************************************************************)
(* Deletion.  A notifier in the middle of a message keeps the Output in    *)
(* its collection; the destructor goes on only when no collection has it.  *)
(***************************************************************************)
Deletion ==
    /\ \A n \in Notifiers : pc[n] # "idle" => n \in registered
    /\ pc[Destroyer] \notin {"idle", "leave"} => registered = {}

LEMMA DeletionWriter ==
    ASSUME PlacesOK, Deletion, NEW w \in Writers, WriterStep(w) PROVE Deletion'
  <1>1. registered' = registered /\ pc'[Destroyer] = pc[Destroyer]
    BY Distinct
    DEF WriterStep, Writable, InsertLock, Insert, EndCheck, EndMaster, EndedLockSets,
        EndedLockMutex, EndedQueue, FeedCheck, FeedPush, Goto, PlacesOK, flags
  <1>2. \A v \in Writers : v # w => pc'[v] = pc[v]
    BY Distinct
    DEF WriterStep, Writable, InsertLock, Insert, EndCheck, EndMaster, EndedLockSets,
        EndedLockMutex, EndedQueue, FeedCheck, FeedPush, Goto, PlacesOK
  <1>3. pc[w] # "idle" \/ MayWrite(w)
    BY DEF WriterStep, Writable, InsertLock, Insert, EndCheck, EndMaster, EndedLockSets,
           EndedLockMutex, EndedQueue, FeedCheck, FeedPush, Goto
  <1>4. QED
    BY <1>1, <1>2, <1>3, Distinct, ConstantsAssumption DEF Deletion, MayWrite

LEMMA DeletionNext == PlacesOK /\ Deletion /\ [Next]_vars => Deletion'
  <1> SUFFICES ASSUME PlacesOK, Deletion, [Next]_vars PROVE Deletion'
    OBVIOUS
  <1> USE Distinct DEF Goto, PlacesOK, Deletion
  <1>1. ASSUME NEW t \in {Feeder, Closer, Destroyer}, NoGlobalMessages(t) PROVE Deletion'
    BY <1>1 DEF NoGlobalMessages, Leave
  <1>2. ASSUME NEW t \in {Feeder, Closer, Destroyer}, Left(t) PROVE Deletion'
    BY <1>2 DEF Left, LeftAll, LeftTo
  <1>3. ASSUME NEW c \in Clearers, ClearStep(c) PROVE Deletion'
    BY <1>1, <1>2, <1>3
    DEF ClearStep, ClearLockSets, ClearLockMutex, Cleared, Orphan, flags
  <1>4. CASE FeederStep
    BY <1>3, <1>4
    DEF FeederStep, FeederCheck, FeederTake, FeederWake, FeederWrite, WriteFails, ReadFails,
        Catch, OrphanLock, OrphanedUnlocked, FeederClose, flags
  <1>5. CASE CloserStep
    BY <1>1, <1>2, <1>5 DEF CloserStep, End
  <1>6. CASE Destroy
    BY <1>6 DEF Destroy, flags
  <1>7. CASE Join
    BY <1>7 DEF Join
  <1>8. CASE Gone \/ UNCHANGED vars
    BY <1>8 DEF Gone, vars, flags
  <1>9. QED
    BY <1>3, <1>4, <1>5, <1>6, <1>7, <1>8, DeletionWriter DEF Next, DestroyerStep

(***************************************************************************)
(* Messages.  While nothing failed, the feeder stops only after it saw     *)
(* eof and the queue of messages empty, and a message that ends after eof  *)
(* is refused: the queue the feeder and the destructor clear is empty.     *)
(***************************************************************************)
Feeding ==
    /\ pc[Feeder] \in {"check", "lock", "wait", "write", "writeBatch"} =>
            channel = "open" /\ ~failed
    /\ pc[Feeder] \in {"leave", "orphanLock", "orphanUnlocked"} => failed
    /\ pc[Feeder] \in {"close", "clear", "clearMutex", "orphan", "done"} =>
            failed \/ (eof /\ endedBuffers = << >>)
    /\ pc[Destroyer] \in {"clear", "clearMutex", "orphan", "gone"} => pc[Feeder] = "done"

LEMMA FeedingWriter ==
    ASSUME PlacesOK, Feeding, NEW w \in Writers, WriterStep(w) PROVE Feeding'
  <1>1. UNCHANGED flags /\ pc'[Feeder] = pc[Feeder] /\ pc'[Destroyer] = pc[Destroyer]
    BY Distinct
    DEF WriterStep, Writable, InsertLock, Insert, EndCheck, EndMaster, EndedLockSets,
        EndedLockMutex, EndedQueue, FeedCheck, FeedPush, Goto, PlacesOK
  <1>2. endedBuffers' = endedBuffers \/ ~Refused
    BY DEF WriterStep, Writable, InsertLock, Insert, EndCheck, EndMaster, EndedLockSets,
           EndedLockMutex, EndedQueue, FeedCheck, FeedPush, queues
  <1>3. QED
    BY <1>1, <1>2 DEF Feeding, Refused, flags

LEMMA FeedingFeeder ==
    ASSUME PlacesOK, Feeding, FeederStep PROVE Feeding'
  <1> USE Distinct DEF Goto, PlacesOK, Feeding
  <1>1. CASE FeederCheck \/ FeederWake
    BY <1>1 DEF FeederCheck, FeederWake, flags, queues
  <1>2. CASE FeederTake
    BY <1>2 DEF FeederTake, NothingQueued, flags
  <1>3. CASE FeederWrite \/ WriteFails
    BY <1>3 DEF FeederWrite, WriteFails, flags, queues
  <1>4. CASE ReadFails
    BY <1>4 DEF ReadFails, flags
  <1>5. CASE Catch \/ FeederClose
    BY <1>5 DEF Catch, FeederClose, queues
  <1>6. CASE OrphanLock \/ OrphanedUnlocked
    BY <1>6 DEF OrphanLock, OrphanedUnlocked, flags, queues
  <1>7. CASE NoGlobalMessages(Feeder) \/ Left(Feeder)
    BY <1>7 DEF NoGlobalMessages, Left, LeftTo, SetsEof, queues
  <1>8. CASE ClearLockSets(Feeder) \/ ClearLockMutex(Feeder)
    BY <1>8 DEF ClearLockSets, ClearLockMutex, flags, queues
  <1>9. CASE Cleared(Feeder) \/ (\E w \in Writers : Orphan(Feeder, w))
    BY <1>9 DEF Cleared, Orphan, flags, queues
  <1>10. QED
    BY <1>1, <1>2, <1>3, <1>4, <1>5, <1>6, <1>7, <1>8, <1>9 DEF FeederStep, ClearStep

LEMMA FeedingDestroyer ==
    ASSUME PlacesOK, Feeding, DestroyerStep PROVE Feeding'
  <1> USE Distinct DEF Goto, PlacesOK, Feeding
  <1>1. CASE Destroy \/ Join
    BY <1>1 DEF Destroy, Join, flags, queues
  <1>2. CASE NoGlobalMessages(Destroyer) \/ Left(Destroyer)
    BY <1>2 DEF NoGlobalMessages, Left, LeftTo, SetsEof, queues
  <1>3. CASE ClearLockSets(Destroyer) \/ ClearLockMutex(Destroyer)
    BY <1>3 DEF ClearLockSets, ClearLockMutex, flags, queues
  <1>4. CASE Cleared(Destroyer) \/ (\E w \in Writers : Orphan(Destroyer, w))
    BY <1>4 DEF Cleared, Orphan, flags, queues
  <1>5. QED
    BY <1>1, <1>2, <1>3, <1>4 DEF DestroyerStep, ClearStep

LEMMA FeedingNext == PlacesOK /\ Feeding /\ [Next]_vars => Feeding'
  <1> SUFFICES ASSUME PlacesOK, Feeding, [Next]_vars PROVE Feeding'
    OBVIOUS
  <1>1. CASE CloserStep
    BY <1>1, Distinct
    DEF CloserStep, End, NoGlobalMessages, Left, LeftTo, SetsEof, Goto, PlacesOK, Feeding,
        queues
  <1>2. CASE Gone \/ UNCHANGED vars
    BY <1>2 DEF Gone, vars, flags, queues, Feeding
  <1>3. QED
    BY <1>1, <1>2, FeedingWriter, FeedingFeeder, FeedingDestroyer DEF Next

(***************************************************************************)
(* Pointers.  While nothing failed, a message that points to the Output    *)
(* is in buffers from Insert until it is ended, so clear_buffers, which    *)
(* holds both mutexes, sees every one, and the destructor is not through   *)
(* before it took the pointers away.                                       *)
(***************************************************************************)
Between(w) == pc[w] \in {"open", "endMaster", "endSets", "endMutex", "endQueue"}

Points(w) == Between(w) /\ w \in master

Tracked ==
    /\ \A w \in Writers : Points(w) => w \in buffers
    /\ \A w \in Writers : MasterHeld(w) => w \in master
    /\ \A c \in Clearers, w \in Writers : pc[c] = "orphan" /\ Points(w) => w \in todo[c]
    /\ ~Exists => \A w \in Direct : Uses(w) => pc[w] \in {"insert", "feed"}

Pointing == PlacesOK /\ BuffersOK /\ Holders /\ Feeding

LEMMA TrackedWriter ==
    ASSUME Pointing, Tracked, NEW w \in Writers, WriterStep(w)
    PROVE  Tracked'
  <1> USE Distinct DEF Pointing
  <1>1. /\ \A t \in Threads : t # w => pc'[t] = pc[t]
        /\ Clearers \subseteq Threads /\ w \notin Clearers /\ w \in Threads
        /\ Writers \subseteq Threads /\ Direct \subseteq Writers
        /\ (Exists' <=> Exists)
    BY ConstantsAssumption
    DEF WriterStep, Writable, InsertLock, Insert, EndCheck, EndMaster, EndedLockSets,
        EndedLockMutex, EndedQueue, FeedCheck, FeedPush, Goto, PlacesOK, Exists
  <1>2. \A v \in Writers : v # w => /\ (v \in master' <=> v \in master)
                                   /\ (v \in buffers' <=> v \in buffers)
    BY DEF WriterStep, Writable, InsertLock, Insert, EndCheck, EndMaster, EndedLockSets,
           EndedLockMutex, EndedQueue, FeedCheck, FeedPush, items, queues
  <1>3. \A c \in Clearers : /\ pc'[c] = pc[c]
                            /\ pc[c] = "orphan" => todo'[c] = todo[c]
    BY <1>1
    DEF WriterStep, Writable, InsertLock, Insert, EndCheck, EndMaster, EndedLockSets,
        EndedLockMutex, EndedQueue, FeedCheck, FeedPush, work, BuffersOK
  <1>4. \A v \in Writers : v # w => (Points(v)' <=> Points(v)) /\ (MasterHeld(v)' <=> MasterHeld(v))
                                   /\ (Uses(v)' <=> Uses(v))
    BY <1>1, <1>2 DEF Points, Between, MasterHeld, Uses
  <1>5. /\ Points(w)' => w \in buffers'
        /\ MasterHeld(w)' => w \in master'
        /\ \A c \in Clearers : pc[c] = "orphan" /\ Points(w)' => w \in todo[c]
        /\ (~Exists /\ w \in Direct /\ Uses(w)') => pc'[w] \in {"insert", "feed"}
    <2>0. /\ Points(w) => w \in buffers
          /\ MasterHeld(w) => w \in master
          /\ \A c \in Clearers : pc[c] = "orphan" /\ Points(w) => w \in todo[c]
          /\ (~Exists /\ w \in Direct /\ Uses(w)) => pc[w] \in {"insert", "feed"}
      BY DEF Tracked
    <2> USE <1>1, <2>0 DEF Points, Between, MasterHeld, Uses, Goto, PlacesOK
    <2>1. CASE Writable(w)
      BY <2>1 DEF Writable, queues
    <2>2. CASE InsertLock(w)
      BY <2>2 DEF InsertLock, queues
    <2>3. CASE Insert(w)
      <3>1. mut = w
        BY <2>3 DEF Holders, InMutex, Insert
      <3>2. \A c \in Clearers : pc[c] # "orphan"
        BY <3>1 DEF Holders, InMutex
      <3>3. QED
        BY <2>3, <3>2 DEF Insert, items
    <2>4. CASE EndCheck(w)
      BY <2>4 DEF EndCheck, queues
    <2>5. CASE EndMaster(w)
      BY <2>5 DEF EndMaster, items, queues
    <2>6. CASE EndedLockSets(w) \/ EndedLockMutex(w)
      BY <2>6 DEF EndedLockSets, EndedLockMutex, items, queues
    <2>7. CASE EndedQueue(w)
      BY <2>7 DEF EndedQueue, items
    <2>8. CASE FeedCheck(w) \/ FeedPush(w)
      BY <2>8 DEF FeedCheck, FeedPush, items, queues
    <2>9. QED
      BY <2>1, <2>2, <2>3, <2>4, <2>5, <2>6, <2>7, <2>8 DEF WriterStep
  <1>6. QED
    BY <1>1, <1>2, <1>3, <1>4, <1>5 DEF Tracked

(* A step that moves no writer and changes no buffer.                      *)
LEMMA TrackedRest ==
    ASSUME Tracked, UNCHANGED <<master, buffers>>,
           \A w \in Writers : pc'[w] = pc[w],
           \A c \in Clearers : pc'[c] = "orphan" => pc[c] = "orphan" /\ todo'[c] = todo[c],
           Exists' <=> Exists
    PROVE  Tracked'
  <1>1. \A w \in Writers : (Points(w)' <=> Points(w)) /\ (MasterHeld(w)' <=> MasterHeld(w))
                           /\ (Uses(w)' <=> Uses(w))
    BY DEF Points, Between, MasterHeld, Uses
  <1>2. QED
    BY <1>1 DEF Tracked, Writers

LEMMA TrackedClear ==
    ASSUME Pointing, Tracked, NEW c \in Clearers, ClearStep(c)
    PROVE  Tracked'
  <1> USE Distinct DEF Pointing
  <1>1. /\ \A w \in Writers : pc'[w] = pc[w]
        /\ Clearers \subseteq Threads /\ Writers \subseteq Threads /\ Direct \subseteq Writers
        /\ \A t \in Threads : t # c => pc'[t] = pc[t]
    BY ConstantsAssumption
    DEF ClearStep, NoGlobalMessages, Left, ClearLockSets, ClearLockMutex, Cleared, Orphan,
        Goto, PlacesOK
  <1>2. CASE NoGlobalMessages(c) \/ Left(c) \/ ClearLockSets(c)
    <2>1. /\ UNCHANGED <<master, buffers, todo>> /\ (Exists' <=> Exists)
          /\ pc'[c] = "orphan" => pc[c] = "orphan"
      BY <1>1, <1>2
      DEF NoGlobalMessages, Left, LeftTo, ClearLockSets, Goto, PlacesOK, Exists, items, queues, work
    <2>2. QED
      BY <1>1, <2>1, TrackedRest
  <1>3. CASE ClearLockMutex(c)
    <2>1. /\ UNCHANGED <<master, buffers>> /\ (Exists' <=> Exists)
          /\ todo'[c] = buffers /\ \A d \in Clearers : d # c => todo'[d] = todo[d]
      BY <1>1, <1>3 DEF ClearLockMutex, Goto, PlacesOK, BuffersOK, Exists, items, queues
    <2>2. \A w \in Writers : (Points(w)' <=> Points(w)) /\ (MasterHeld(w)' <=> MasterHeld(w))
                             /\ (Uses(w)' <=> Uses(w))
      BY <1>1, <2>1 DEF Points, Between, MasterHeld, Uses
    <2>3. QED
      BY <1>1, <2>1, <2>2 DEF Tracked
  <1>4. CASE \E w \in Writers : Orphan(c, w)
    <2>1. PICK w \in Writers : Orphan(c, w)
      BY <1>4
    <2>2. /\ UNCHANGED <<pc, buffers>> /\ (Exists' <=> Exists) /\ ~MasterHeld(w)
          /\ master' = master \ {w}
          /\ todo'[c] = todo[c] \ {w} /\ \A d \in Clearers : d # c => todo'[d] = todo[d]
      BY <2>1 DEF Orphan, BuffersOK, Exists, queues
    <2>3. /\ \A v \in Writers : (MasterHeld(v)' <=> MasterHeld(v)) /\ (Points(v)' => Points(v) /\ v # w)
          /\ \A v \in Writers : Uses(v)' => Uses(v)
      BY <2>2 DEF Points, Between, MasterHeld, Uses
    <2>4. QED
      BY <1>1, <2>2, <2>3 DEF Tracked
  <1>5. CASE Cleared(c)
    <2>1. /\ pc[c] = "orphan" /\ todo[c] = {} /\ UNCHANGED <<master, todo>>
          /\ pc'[c] # "orphan"
      BY <1>1, <1>5 DEF Cleared, Goto, PlacesOK, items, work
    <2>2. \A w \in Writers : ~Points(w) /\ ~MasterHeld(w)
      BY <2>1 DEF Tracked, Points, Between, MasterHeld
    <2>3. mut = c
      BY <1>1, <2>1 DEF Holders, InMutex
    <2>4. \A w \in Writers : pc[w] # "inserting"
      BY <1>1, <2>3 DEF Holders, InMutex
    <2>5. \A w \in Writers : Uses(w)' => pc'[w] \in {"insert", "feed"}
      BY <1>1, <2>1, <2>2, <2>4 DEF Uses, Points, Between, MasterHeld
    <2>6. \A w \in Writers : ~Points(w)' /\ ~MasterHeld(w)'
      BY <1>1, <2>1, <2>2 DEF Points, Between, MasterHeld
    <2>7. QED
      BY <1>1, <2>5, <2>6 DEF Tracked
  <1>6. QED
    BY <1>2, <1>3, <1>4, <1>5 DEF ClearStep

LEMMA TrackedNext == Pointing /\ Tracked /\ [Next]_vars /\ ~failed' => Tracked'
  <1> SUFFICES ASSUME Pointing, Tracked, [Next]_vars, ~failed' PROVE Tracked'
    OBVIOUS
  <1> USE Distinct
  <1>1. CASE ClearStep(Feeder) \/ ClearStep(Destroyer)
    BY <1>1, TrackedClear
  <1>2. CASE OrphanedUnlocked \/ Catch
    BY <1>2 DEF OrphanedUnlocked, Catch, Goto, Pointing, Feeding, flags
  <1>3. CASE FeederCheck \/ FeederTake \/ FeederWake \/ FeederWrite \/ WriteFails \/ ReadFails
             \/ OrphanLock \/ FeederClose
    <2>1. /\ UNCHANGED <<master, buffers>> /\ \A w \in Writers : pc'[w] = pc[w]
          /\ pc'[Feeder] # "orphan" /\ pc'[Destroyer] = pc[Destroyer]
          /\ todo'[Destroyer] = todo[Destroyer]
      BY <1>3
      DEF FeederCheck, FeederTake, FeederWake, FeederWrite, WriteFails, ReadFails, OrphanLock,
          FeederClose, Goto, Pointing, PlacesOK, BuffersOK, items, queues, work
    <2>2. QED
      BY <2>1, TrackedRest DEF Exists
  <1>4. CASE CloserStep \/ Destroy \/ Join \/ Gone \/ UNCHANGED vars
    <2>1. /\ UNCHANGED <<master, buffers, todo>> /\ \A w \in Writers : pc'[w] = pc[w]
          /\ pc'[Feeder] = pc[Feeder] /\ (Exists' <=> Exists)
          /\ pc'[Destroyer] = "orphan" => pc[Destroyer] = "orphan"
      BY <1>4
      DEF CloserStep, End, NoGlobalMessages, Left, LeftTo, Destroy, Join, Gone, vars, Goto, Exists,
          Pointing, PlacesOK, items, queues, work
    <2>2. QED
      BY <2>1, TrackedRest
  <1>5. QED
    BY <1>1, <1>2, <1>3, <1>4, TrackedWriter DEF Next, FeederStep, DestroyerStep

(* What has failed stays so.                                               *)
LEMMA FailedStays == PlacesOK /\ [Next]_vars /\ ~failed' => ~failed
  <1> SUFFICES ASSUME PlacesOK, [Next]_vars, failed PROVE failed'
    BY DEF PlacesOK
  <1>1. ASSUME NEW c \in Clearers, ClearStep(c) PROVE failed'
    BY <1>1
    DEF ClearStep, NoGlobalMessages, Left, ClearLockSets, ClearLockMutex, Cleared, Orphan, flags
  <1>2. ASSUME NEW w \in Writers, WriterStep(w) PROVE failed'
    BY <1>2
    DEF WriterStep, Writable, InsertLock, Insert, EndCheck, EndMaster, EndedLockSets,
        EndedLockMutex, EndedQueue, FeedCheck, FeedPush, flags
  <1>3. CASE FeederStep
    BY <1>1, <1>3
    DEF FeederStep, FeederCheck, FeederTake, FeederWake, FeederWrite, WriteFails, ReadFails,
        Catch, OrphanLock, OrphanedUnlocked, FeederClose, flags, Clearers
  <1>4. CASE CloserStep \/ Destroy \/ Join \/ Gone \/ UNCHANGED vars
    BY <1>4 DEF CloserStep, End, NoGlobalMessages, Left, Destroy, Join, Gone, vars, flags
  <1>5. QED
    BY <1>1, <1>2, <1>3, <1>4 DEF Next, DestroyerStep, Clearers

(* No notification is in progress when the Output is deleted, and unless   *)
(* it failed no message of any thread points to it.                        *)
THEOREM SafeDeletion == Spec => []NoUseAfterDelete
  <1> DEFINE I == /\ PlacesOK /\ BuffersOK /\ Holders /\ Feeding /\ Deletion
                  /\ (~failed => Tracked)
  <1>1. Init => Feeding /\ Deletion /\ Tracked
    BY Distinct
    DEF Init, Feeding, Deletion, Tracked, Points, Between, MasterHeld, Exists
  <1>2. I /\ [Next]_vars => Feeding' /\ Deletion' /\ (~failed' => Tracked')
    BY FeedingNext, DeletionNext, TrackedNext, FailedStays DEF Pointing
  <1>3. I => NoUseAfterDelete
    BY Distinct DEF Deletion, Tracked, NoUseAfterDelete, Uses, Writers, Exists
  <1>4. TypeOK => PlacesOK /\ BuffersOK
    BY DEF TypeOK
  <1>5. Spec => [](PlacesOK /\ BuffersOK)
    BY <1>4, TypeCorrect, PTL
  <1>6. QED
    BY <1>1, <1>2, <1>3, <1>5, HoldersInvariant, PTL DEF Spec

(***************************************************************************)
(* Messages kept.                                                          *)
(***************************************************************************)
Kept == TypeInv /\ Feeding /\ AcceptedMessagesSurvive

LEMMA KeptWriter ==
    ASSUME Kept, NEW w \in Writers, WriterStep(w) PROVE AcceptedMessagesSurvive'
  <1>1. /\ UNCHANGED <<flags, current, written>>
        /\ pc'[Feeder] = pc[Feeder]
    BY Distinct
    DEF WriterStep, Writable, InsertLock, Insert, EndCheck, EndMaster, EndedLockSets,
        EndedLockMutex, EndedQueue, FeedCheck, FeedPush, Goto, Kept, TypeInv, TypeOK,
        PlacesOK, work, history
  <1>2. CASE EndedQueue(w) /\ ~Refused
    <2>1. <<w, count[w]>> \in Items
      BY <1>2, ConstantsAssumption
      DEF EndedQueue, Goto, Kept, TypeInv, TypeOK, BuffersOK, Numbered, Items
    <2>2. endedBuffers \in Seq(Items)
      BY DEF Kept, TypeInv, TypeOK, QueuesOK
    <2>3. SeqSet(endedBuffers') = SeqSet(endedBuffers) \cup {<<w, count[w]>>}
      BY <1>2, <2>1, <2>2, AppendedSet DEF EndedQueue, Queued
    <2>4. accepted' = accepted \cup {<<w, count[w]>>}
      BY <1>2 DEF EndedQueue
    <2>5. QED
      BY <1>1, <2>3, <2>4 DEF Kept, AcceptedMessagesSurvive, flags
  <1>3. CASE ~(EndedQueue(w) /\ ~Refused)
    <2>1. UNCHANGED <<endedBuffers, accepted>>
      BY <1>3
      DEF WriterStep, Writable, InsertLock, Insert, EndCheck, EndMaster, EndedLockSets,
          EndedLockMutex, EndedQueue, FeedCheck, FeedPush, queues, history
    <2>2. QED
      BY <1>1, <2>1 DEF Kept, AcceptedMessagesSurvive, SeqSet, flags
  <1>4. QED
    BY <1>2, <1>3

LEMMA KeptTake == Kept /\ FeederTake => AcceptedMessagesSurvive'
  <1> SUFFICES ASSUME Kept, FeederTake PROVE AcceptedMessagesSurvive'
    OBVIOUS
  <1>1. accepted \subseteq SeqSet(endedBuffers) \cup SeqSet(written)
    <2>1. current = << >> /\ << >> \notin accepted
      <3>1. current = << >>
        BY DEF FeederTake, Kept, TypeInv, Holding
      <3>2. << >> \notin Items
        BY DEF Items
      <3>3. QED
        BY <3>1, <3>2 DEF Kept, TypeInv, TypeOK, QueuesOK
    <2>2. ~failed /\ pc[Feeder] # "failed"
      BY DEF FeederTake, Goto, Kept, Feeding
    <2>3. QED
      BY <2>1, <2>2 DEF Kept, AcceptedMessagesSurvive
  <1>2. UNCHANGED <<accepted, written>>
    BY DEF FeederTake, history
  <1>3. SeqSet(endedBuffers) \subseteq SeqSet(endedBuffers') \cup {current'}
    <2>1. endedBuffers \in Seq(Items)
      BY DEF Kept, TypeInv, TypeOK, QueuesOK
    <2>2. CASE endedBuffers # << >>
      <3>1. endedBuffers' = Tail(endedBuffers) /\ current' = Head(endedBuffers)
        BY <2>2 DEF FeederTake, NothingQueued
      <3>2. QED
        BY <2>1, <2>2, <3>1, TakenSet
    <2>3. CASE endedBuffers = << >>
      BY <2>3 DEF FeederTake, NothingQueued, SeqSet
    <2>4. QED
      BY <2>2, <2>3
  <1>4. QED
    BY <1>1, <1>2, <1>3 DEF AcceptedMessagesSurvive, SeqSet

LEMMA KeptWrite == Kept /\ FeederWrite => AcceptedMessagesSurvive'
  <1> SUFFICES ASSUME Kept, FeederWrite PROVE AcceptedMessagesSurvive'
    OBVIOUS
  <1>1. current \in Items /\ written \in Seq(Items)
    BY DEF FeederWrite, Goto, Kept, TypeInv, TypeOK, Holding, QueuesOK
  <1>2. SeqSet(written') = SeqSet(written) \cup {current}
    BY <1>1, AppendedSet DEF FeederWrite
  <1>3. UNCHANGED <<accepted, endedBuffers, failed>> /\ ~failed /\ pc[Feeder] # "failed"
    BY DEF FeederWrite, Goto, Kept, Feeding, flags, queues, history
  <1>4. QED
    BY <1>2, <1>3 DEF Kept, AcceptedMessagesSurvive, SeqSet

(* A queue that is cleared is empty, unless something failed.              *)
LEMMA KeptClear ==
    ASSUME Kept, NEW c \in Clearers, ClearStep(c) PROVE AcceptedMessagesSurvive'
  <1>1. UNCHANGED <<accepted, current, written, failed>>
    BY DEF ClearStep, NoGlobalMessages, Left, ClearLockSets, ClearLockMutex, Cleared, Orphan,
           flags, work, history
  <1>2. pc[Feeder] # "failed" \/ pc'[Feeder] = "failed"
    BY Distinct
    DEF ClearStep, NoGlobalMessages, Left, LeftTo, ClearLockSets, ClearLockMutex, Cleared,
        Orphan, Goto, Kept, TypeInv, TypeOK, PlacesOK
  <1>3. failed \/ endedBuffers' = endedBuffers
    <2>1. CASE Cleared(c)
      BY <2>1, Distinct DEF Cleared, Goto, Kept, Feeding
    <2>2. CASE ~Cleared(c)
      BY <2>2
      DEF ClearStep, NoGlobalMessages, Left, ClearLockSets, ClearLockMutex, Orphan, queues
    <2>3. QED
      BY <2>1, <2>2
  <1>4. QED
    BY <1>1, <1>2, <1>3 DEF Kept, AcceptedMessagesSurvive, SeqSet

LEMMA KeptNext == Kept /\ [Next]_vars => Kept'
  <1> SUFFICES ASSUME Kept, [Next]_vars PROVE AcceptedMessagesSurvive'
    BY TypeNext, FeedingNext DEF Kept, TypeInv, TypeOK
  <1>1. CASE FeederCheck \/ FeederWake \/ OrphanLock \/ OrphanedUnlocked \/ FeederClose
    BY <1>1, Distinct
    DEF FeederCheck, FeederWake, OrphanLock, OrphanedUnlocked, FeederClose, Goto, Kept,
        TypeInv, TypeOK, PlacesOK, AcceptedMessagesSurvive, SeqSet, flags, queues, work, history
  <1>2. CASE WriteFails \/ ReadFails \/ Catch
    BY <1>2, Distinct
    DEF WriteFails, ReadFails, Catch, Goto, Kept, TypeInv, TypeOK, PlacesOK,
        AcceptedMessagesSurvive
  <1>3. CASE CloserStep \/ Destroy \/ Join
    BY <1>3, Distinct
    DEF CloserStep, End, NoGlobalMessages, Left, LeftTo, Destroy, Join, Goto, Kept, TypeInv,
        TypeOK, PlacesOK, AcceptedMessagesSurvive, SeqSet, flags, queues, work, history
  <1>4. CASE Gone \/ UNCHANGED vars
    BY <1>4
    DEF Gone, vars, Kept, AcceptedMessagesSurvive, SeqSet, flags, queues, work, history
  <1>5. QED
    BY <1>1, <1>2, <1>3, <1>4, KeptWriter, KeptTake, KeptWrite, KeptClear, Distinct
    DEF Next, FeederStep, DestroyerStep

(* A message whose End was accepted is in the queue, in the feeder's hand  *)
(* or on the channel as long as nothing failed: neither End nor the        *)
(* destructor drops it.                                                    *)
THEOREM NoMessageLost == Spec => []AcceptedMessagesSurvive
  <1>1. Init => Kept
    <2>1. Init => Feeding /\ AcceptedMessagesSurvive
      BY Distinct DEF Init, Feeding, AcceptedMessagesSurvive
    <2>2. QED
      BY <2>1, PlacesInit, FlagsInit, BuffersInit, NumberedInit, QueuesInit
      DEF Kept, TypeInv, TypeOK
  <1>2. Kept => AcceptedMessagesSurvive
    BY DEF Kept
  <1>3. QED
    BY <1>1, <1>2, KeptNext, PTL DEF Spec

(***************************************************************************)
(* Order.  What the steps do to the queues and to the channel.             *)
(***************************************************************************)
LEMMA WriterMoves ==
    ASSUME PlacesOK, NEW w \in Writers, WriterStep(w)
    PROVE  /\ UNCHANGED <<current, written, flags, due>>
           /\ \A t \in Threads : t # w => pc'[t] = pc[t]
           /\ \/ /\ pc[w] = "idle" /\ MayWrite(w) /\ count' = [count EXCEPT ![w] = @ + 1]
                 /\ UNCHANGED <<endedBuffers, inputs, accepted>>
              \/ /\ pc[w] = "endQueue" /\ pc'[w] = "idle" /\ ~Refused
                 /\ endedBuffers' = Append(endedBuffers, <<w, count[w]>>)
                 /\ accepted' = accepted \cup {<<w, count[w]>>}
                 /\ UNCHANGED <<inputs, count>>
              \/ /\ pc[w] = "feed" /\ pc'[w] = "idle"
                 /\ inputs' = Append(inputs, <<w, count[w]>>)
                 /\ UNCHANGED <<endedBuffers, accepted, count>>
              \/ /\ pc[w] # "idle"
                 /\ UNCHANGED <<endedBuffers, inputs, accepted, count>>
  <1> USE Distinct DEF Goto, PlacesOK, work, history, items, queues
  <1>1. CASE Writable(w) \/ FeedCheck(w)
    BY <1>1 DEF Writable, FeedCheck, MayWrite
  <1>2. CASE EndedQueue(w)
    BY <1>2 DEF EndedQueue, Queued
  <1>3. CASE FeedPush(w)
    BY <1>3 DEF FeedPush
  <1>4. CASE InsertLock(w) \/ Insert(w) \/ EndCheck(w) \/ EndMaster(w)
    BY <1>4 DEF InsertLock, Insert, EndCheck, EndMaster
  <1>5. CASE EndedLockSets(w) \/ EndedLockMutex(w)
    BY <1>5 DEF EndedLockSets, EndedLockMutex
  <1>6. QED
    BY <1>1, <1>2, <1>3, <1>4, <1>5 DEF WriterStep

(* The feeder has not ended and nothing made it end.                       *)
Feeds == pc[Feeder] \in {"check", "lock", "wait", "write", "writeBatch"}

TakesMessage ==
    /\ pc[Feeder] = "lock" /\ pc'[Feeder] = "write" /\ endedBuffers # << >>
    /\ current' = Head(endedBuffers) /\ endedBuffers' = Tail(endedBuffers)
    /\ UNCHANGED <<inputs, written>>

TakesBatch ==
    /\ pc[Feeder] = "lock" /\ pc'[Feeder] = "writeBatch" /\ inputs # << >>
    /\ current' = Head(inputs) /\ inputs' = Tail(inputs)
    /\ UNCHANGED <<endedBuffers, written>>

Writes ==
    /\ pc[Feeder] \in {"write", "writeBatch"} /\ pc'[Feeder] = "check"
    /\ written' = Append(written, current) /\ current' = << >>
    /\ UNCHANGED <<endedBuffers, inputs>>

Errs ==
    /\ pc[Feeder] = "writeBatch" /\ pc'[Feeder] = "failed"
    /\ endedBuffers' \in {endedBuffers, Append(endedBuffers, ErrorItem)}
    /\ current' = << >> /\ UNCHANGED <<inputs, written>>

Rests ==
    /\ endedBuffers' \in {endedBuffers, << >>} /\ inputs' \in {inputs, << >>}
    /\ current' \in {current, << >>} /\ written' = written
    /\ pc'[Feeder] \in {"write", "writeBatch"} => pc'[Feeder] = pc[Feeder] /\ current' = current
    /\ Feeds' => Feeds

LEMMA OtherMoves ==
    ASSUME PlacesOK, FeederStep \/ CloserStep \/ DestroyerStep \/ Gone \/ UNCHANGED vars
    PROVE  /\ \A w \in Writers : pc'[w] = pc[w]
           /\ UNCHANGED <<count, accepted>> /\ (due' = due \/ Destroy)
           /\ TakesMessage \/ TakesBatch \/ Writes \/ Errs \/ Rests
  <1> DEFINE Moves == /\ \A w \in Writers : pc'[w] = pc[w]
                      /\ UNCHANGED <<count, accepted, due>>
                      /\ TakesMessage \/ TakesBatch \/ Writes \/ Errs \/ Rests
  <1> USE Distinct DEF Goto, PlacesOK, work, history, items, queues
  <1>1. CASE FeederTake
    BY <1>1 DEF FeederTake, NothingQueued, TakesMessage, TakesBatch, Rests, Feeds
  <1>2. CASE FeederWrite
    BY <1>2 DEF FeederWrite, Writes
  <1>3. CASE ReadFails
    BY <1>3 DEF ReadFails, Errs
  <1>4. CASE WriteFails \/ Catch \/ OrphanLock \/ OrphanedUnlocked \/ FeederClose
    BY <1>4 DEF WriteFails, Catch, OrphanLock, OrphanedUnlocked, FeederClose, Rests, Feeds
  <1>5. CASE FeederCheck \/ FeederWake
    BY <1>5 DEF FeederCheck, FeederWake, Rests, Feeds
  <1>6. CASE CloserStep
    BY <1>6 DEF CloserStep, End, NoGlobalMessages, Left, LeftTo, Rests, Feeds
  <1>7. CASE Destroy \/ Join \/ Gone \/ UNCHANGED vars
    BY <1>7 DEF Destroy, Join, Gone, vars, Rests, Feeds
  <1>8. ASSUME NEW c \in Clearers, ClearStep(c) PROVE Moves
    <2>1. CASE NoGlobalMessages(c) \/ Left(c)
      BY <2>1 DEF NoGlobalMessages, Left, LeftTo, Rests, Feeds
    <2>2. CASE ClearLockSets(c) \/ ClearLockMutex(c)
      BY <2>2 DEF ClearLockSets, ClearLockMutex, Rests, Feeds
    <2>3. CASE Cleared(c)
      BY <2>3 DEF Cleared, Rests, Feeds
    <2>4. CASE \E w \in Writers : Orphan(c, w)
      BY <2>4 DEF Orphan, Rests, Feeds
    <2>5. QED
      BY <1>8, <2>1, <2>2, <2>3, <2>4 DEF ClearStep
  <1>9. QED
    BY <1>1, <1>2, <1>3, <1>4, <1>5, <1>6, <1>7, <1>8 DEF FeederStep, DestroyerStep

(* Items have a writer and a number.                                       *)
LEMMA ItemParts ==
    /\ \A e \in Items : e[1] \in Writers \cup {Feeder} /\ e[2] \in Nat /\ e[2] >= 1
    /\ << >> \notin Items
  BY ConstantsAssumption DEF Items

(* What has left a writer has a number that the writer does not use again. *)
IsIssued(e) ==
    /\ e[1] \in Writers /\ e[2] <= count[e[1]]
    /\ pc[e[1]] # "idle" => e[2] < count[e[1]]

AllIssued ==
    /\ \A e \in accepted \cup SeqSet(inputs) \cup SeqSet(written) : IsIssued(e)
    /\ current # << >> => IsIssued(current)

LEMMA QueueSets ==
    ASSUME TypeInv
    PROVE  /\ SeqSet(endedBuffers) \subseteq Items /\ SeqSet(inputs) \subseteq Items
           /\ SeqSet(written) \subseteq Items /\ accepted \subseteq Items
           /\ endedBuffers \in Seq(Items) /\ inputs \in Seq(Items) /\ written \in Seq(Items)
           /\ current \in Items \cup {<< >>}
           /\ \A w \in Writers : count[w] \in Nat
           /\ \A w \in Writers : pc[w] # "idle" => <<w, count[w]>> \in Items
           /\ SeqSet(<< >>) = {}
  <1>1. /\ endedBuffers \in Seq(Items) /\ inputs \in Seq(Items) /\ written \in Seq(Items)
        /\ accepted \subseteq Items /\ current \in Items \cup {<< >>}
    BY DEF TypeInv, TypeOK, QueuesOK
  <1>2. ASSUME NEW q \in Seq(Items) PROVE SeqSet(q) \subseteq Items
    BY ElementOfSeq, LenProperties DEF SeqSet
  <1>3. \A w \in Writers : count[w] \in 0 .. MaxItems
    BY DEF TypeInv, TypeOK, BuffersOK
  <1>4. \A w \in Writers : count[w] \in Nat
    BY <1>3
  <1>5. \A w \in Writers : pc[w] # "idle" => <<w, count[w]>> \in Items
    BY <1>3, ConstantsAssumption DEF TypeInv, Numbered, Items
  <1>6. SeqSet(<< >>) = {}
    BY DEF SeqSet
  <1>7. QED
    BY <1>1, <1>2, <1>4, <1>5, <1>6

LEMMA IssuedStays ==
    ASSUME TypeInv, NEW w \in Writers, WriterStep(w), NEW e \in Items, IsIssued(e)
    PROVE  IsIssued(e)'
  <1>1. PlacesOK /\ count \in [Writers -> 0 .. MaxItems] /\ Writers \subseteq Threads
    BY Distinct DEF TypeInv, TypeOK, BuffersOK
  <1>2. CASE e[1] = w
    <2>1. count[w] \in Nat /\ e[2] \in Nat
      BY QueueSets, ItemParts
    <2>2. CASE count' = [count EXCEPT ![w] = @ + 1] /\ pc[w] = "idle"
      BY <1>1, <1>2, <2>1, <2>2 DEF IsIssued
    <2>3. CASE count' = count /\ pc[w] # "idle"
      BY <1>1, <1>2, <2>1, <2>3 DEF IsIssued
    <2>4. QED
      BY <1>1, <2>2, <2>3, WriterMoves
  <1>3. CASE e[1] # w
    <2>1. e[1] \in Writers /\ pc'[e[1]] = pc[e[1]]
      BY <1>1, <1>3, WriterMoves DEF IsIssued
    <2>2. count'[e[1]] = count[e[1]]
      BY <1>1, <1>3, <2>1, WriterMoves
    <2>3. QED
      BY <2>1, <2>2 DEF IsIssued
  <1>4. QED
    BY <1>2, <1>3

LEMMA IssuedWriter ==
    ASSUME TypeInv, AllIssued, NEW w \in Writers, WriterStep(w)
    PROVE  AllIssued'
  <1>0. PICK e : e = <<w, count[w]>>
    OBVIOUS
  <1>1. UNCHANGED <<current, written>> /\ PlacesOK
    BY WriterMoves DEF TypeInv, TypeOK
  <1>2. \A f \in Items : IsIssued(f) => IsIssued(f)'
    BY IssuedStays
  <1>3. ASSUME pc[w] # "idle", pc'[w] = "idle", count' = count PROVE IsIssued(e)'
    BY <1>0, <1>3, QueueSets DEF IsIssued
  <1>4. accepted' \cup SeqSet(inputs') \subseteq accepted \cup SeqSet(inputs) \cup {e}
        /\ (accepted' \cup SeqSet(inputs') \subseteq accepted \cup SeqSet(inputs) \/ IsIssued(e)')
    <2>1. CASE UNCHANGED <<inputs, accepted>>
      BY <2>1
    <2>2. CASE /\ pc[w] = "endQueue" /\ pc'[w] = "idle" /\ UNCHANGED <<inputs, count>>
               /\ accepted' = accepted \cup {e}
      BY <1>3, <2>2
    <2>3. CASE /\ pc[w] = "feed" /\ pc'[w] = "idle" /\ UNCHANGED <<accepted, count>>
               /\ inputs' = Append(inputs, e)
      <3>1. SeqSet(inputs') = SeqSet(inputs) \cup {e}
        BY <1>0, <2>3, AppendedSet, QueueSets
      <3>2. QED
        BY <1>3, <2>3, <3>1
    <2>4. QED
      BY <1>0, <1>1, <2>1, <2>2, <2>3, WriterMoves
  <1> DEFINE old == accepted \cup SeqSet(inputs) \cup SeqSet(written)
             new == accepted' \cup SeqSet(inputs') \cup SeqSet(written')
  <1>5. \A f \in new : IsIssued(f)'
    <2>1. \A f \in old : IsIssued(f)'
      BY <1>2, QueueSets DEF AllIssued
    <2>2. SeqSet(written') = SeqSet(written)
      BY <1>1
    <2>3. CASE new \subseteq old
      BY <2>1, <2>3
    <2>4. CASE IsIssued(e)'
      BY <1>4, <2>1, <2>2, <2>4
    <2>5. QED
      BY <1>4, <2>2, <2>3, <2>4
  <1>6. (current # << >> => IsIssued(current))'
    BY <1>1, <1>2, QueueSets DEF AllIssued
  <1>7. QED
    BY <1>1, <1>5, <1>6 DEF AllIssued

LEMMA IssuedOther ==
    ASSUME TypeInv, AllIssued, SeqSet(endedBuffers) \subseteq accepted \/ ~Feeds,
           FeederStep \/ CloserStep \/ DestroyerStep \/ Gone \/ UNCHANGED vars
    PROVE  AllIssued'
  <1>1. \A w \in Writers : pc'[w] = pc[w] /\ count'[w] = count[w]
    BY OtherMoves DEF TypeInv, TypeOK
  <1>2. \A f : IsIssued(f) => IsIssued(f)'
    BY <1>1 DEF IsIssued
  <1>3. accepted' = accepted /\ (TakesMessage \/ TakesBatch \/ Writes \/ Errs \/ Rests)
    BY OtherMoves DEF TypeInv, TypeOK
  <1>4. CASE TakesMessage
    <2>1. current' \in accepted /\ UNCHANGED <<inputs, written>>
      BY <1>4, TakenSet, QueueSets DEF TakesMessage, Feeds
    <2>2. QED
      BY <1>2, <1>3, <2>1 DEF AllIssued, SeqSet
  <1>5. CASE TakesBatch
    <2>1. current' \in SeqSet(inputs) /\ SeqSet(inputs') \subseteq SeqSet(inputs)
          /\ written' = written
      BY <1>5, TakenSet, QueueSets DEF TakesBatch
    <2>2. QED
      BY <1>2, <1>3, <2>1 DEF AllIssued
  <1>6. CASE Writes
    <2>1. current \in Items
      BY <1>6, QueueSets DEF Writes, TypeInv, Holding
    <2>2. SeqSet(written') = SeqSet(written) \cup {current}
          /\ current' = << >> /\ inputs' = inputs
      BY <1>6, <2>1, AppendedSet, QueueSets DEF Writes
    <2>3. current # << >>
      BY <2>1, ItemParts
    <2>4. QED
      BY <1>2, <1>3, <2>2, <2>3 DEF AllIssued
  <1>7. CASE Errs \/ Rests
    <2>1. SeqSet(inputs') \subseteq SeqSet(inputs) /\ written' = written
          /\ current' \in {current, << >>}
      BY <1>7, QueueSets DEF Errs, Rests
    <2>2. QED
      BY <1>2, <1>3, <2>1 DEF AllIssued
  <1>8. QED
    BY <1>3, <1>4, <1>5, <1>6, <1>7

(* The queues keep messages and batches apart.                             *)
Kinds ==
    /\ Feeds => SeqSet(endedBuffers) \subseteq accepted
    /\ SeqSet(endedBuffers) \subseteq accepted \cup {ErrorItem}
    /\ SeqSet(inputs) \cap accepted = {}
    /\ pc[Feeder] = "write" => current \in accepted
    /\ pc[Feeder] = "writeBatch" => current \notin accepted

LEMMA KindsWriter ==
    ASSUME TypeInv, AllIssued, Kinds, NEW w \in Writers, WriterStep(w)
    PROVE  Kinds'
  <1>0. PICK e : e = <<w, count[w]>>
    OBVIOUS
  <1>1. UNCHANGED <<current, written>> /\ pc'[Feeder] = pc[Feeder] /\ (Feeds' <=> Feeds)
    BY WriterMoves, Distinct DEF TypeInv, TypeOK, Feeds
  <1>2. CASE UNCHANGED <<endedBuffers, inputs, accepted>>
    BY <1>1, <1>2 DEF Kinds
  <1>3. pc[w] # "idle" =>
            e \in Items /\ e \notin SeqSet(inputs) /\ e \notin accepted /\ e # current
    <2> SUFFICES ASSUME pc[w] # "idle"
                 PROVE  e \in Items /\ ~IsIssued(e) /\ e # << >>
      BY DEF AllIssued
    <2>1. e \in Items /\ count[w] \in Nat
      BY <1>0, QueueSets
    <2>2. QED
      BY <1>0, <2>1, ItemParts DEF IsIssued
  <1>4. CASE /\ pc[w] = "endQueue" /\ endedBuffers' = Append(endedBuffers, e)
             /\ accepted' = accepted \cup {e} /\ UNCHANGED <<inputs, count>>
    <2>1. SeqSet(endedBuffers') = SeqSet(endedBuffers) \cup {e}
      BY <1>3, <1>4, AppendedSet, QueueSets
    <2>2. QED
      BY <1>1, <1>3, <1>4, <2>1 DEF Kinds
  <1>5. CASE /\ pc[w] = "feed" /\ inputs' = Append(inputs, e)
             /\ UNCHANGED <<endedBuffers, accepted, count>>
    <2>1. SeqSet(inputs') = SeqSet(inputs) \cup {e}
      BY <1>3, <1>5, AppendedSet, QueueSets
    <2>2. QED
      BY <1>1, <1>3, <1>5, <2>1 DEF Kinds
  <1>6. QED
    BY <1>0, <1>2, <1>4, <1>5, WriterMoves DEF TypeInv, TypeOK

LEMMA KindsOther ==
    ASSUME TypeInv, Kinds, FeederStep \/ CloserStep \/ DestroyerStep \/ Gone \/ UNCHANGED vars
    PROVE  Kinds'
  <1>1. accepted' = accepted /\ (TakesMessage \/ TakesBatch \/ Writes \/ Errs \/ Rests)
    BY OtherMoves DEF TypeInv, TypeOK
  <1>2. CASE TakesMessage
    <2>1. current' \in SeqSet(endedBuffers) /\ SeqSet(endedBuffers') \subseteq SeqSet(endedBuffers)
      BY <1>2, TakenSet, QueueSets DEF TakesMessage
    <2>2. QED
      BY <1>1, <1>2, <2>1 DEF Kinds, TakesMessage, Feeds
  <1>3. CASE TakesBatch
    <2>1. current' \in SeqSet(inputs) /\ SeqSet(inputs') \subseteq SeqSet(inputs)
      BY <1>3, TakenSet, QueueSets DEF TakesBatch
    <2>2. QED
      BY <1>1, <1>3, <2>1 DEF Kinds, TakesBatch, Feeds
  <1>4. CASE Writes
    BY <1>1, <1>4 DEF Kinds, Writes, Feeds
  <1>5. CASE Errs
    <2>1. ErrorItem \in Items
      BY ConstantsAssumption DEF ErrorItem, Items
    <2>2. SeqSet(endedBuffers') \subseteq SeqSet(endedBuffers) \cup {ErrorItem}
      BY <1>5, <2>1, AppendedSet, QueueSets DEF Errs
    <2>3. QED
      BY <1>1, <1>5, <2>2 DEF Kinds, Errs, Feeds
  <1>6. CASE Rests
    <2>1. SeqSet(inputs') \subseteq SeqSet(inputs)
          /\ SeqSet(endedBuffers') \subseteq SeqSet(endedBuffers)
      BY <1>6, QueueSets DEF Rests
    <2>2. QED
      BY <1>1, <1>6, <2>1 DEF Kinds, Rests
  <1>7. QED
    BY <1>1, <1>2, <1>3, <1>4, <1>5, <1>6

(* The items of one writer are in each queue in the order it issued them,  *)
(* and what was taken before comes before what is still there.             *)
Before(e, f) == e[1] = f[1] => e[2] < f[2]

Ordered(q) == \A i, j \in DOMAIN q : i < j => Before(q[i], q[j])

LEMMA AppendOrdered ==
    ASSUME NEW q \in Seq(Items), NEW e \in Items, Ordered(q), \A f \in SeqSet(q) : Before(f, e)
    PROVE  Ordered(Append(q, e))
  <1>1. /\ DOMAIN q = 1 .. Len(q) /\ DOMAIN Append(q, e) = 1 .. Len(q) + 1 /\ Len(q) \in Nat
        /\ \A i \in 1 .. Len(q) : Append(q, e)[i] = q[i]
        /\ Append(q, e)[Len(q) + 1] = e
    BY AppendProperties
  <1> SUFFICES ASSUME NEW i \in 1 .. Len(q) + 1, NEW j \in 1 .. Len(q) + 1, i < j
               PROVE  Before(Append(q, e)[i], Append(q, e)[j])
    BY <1>1, Zenon DEF Ordered
  <1>2. i \in 1 .. Len(q) /\ Append(q, e)[i] = q[i]
    BY <1>1
  <1>3. CASE j = Len(q) + 1
    BY <1>1, <1>2, <1>3 DEF SeqSet
  <1>4. CASE j # Len(q) + 1
    BY <1>1, <1>2, <1>4 DEF Ordered
  <1>5. QED
    BY <1>3, <1>4

LEMMA TailOrdered ==
    ASSUME NEW q \in Seq(Items), q # << >>, Ordered(q)
    PROVE  Ordered(Tail(q)) /\ \A f \in SeqSet(Tail(q)) : Before(Head(q), f)
  <1>1. /\ DOMAIN q = 1 .. Len(q) /\ DOMAIN Tail(q) = 1 .. Len(Tail(q))
        /\ \A i \in 1 .. Len(Tail(q)) : i + 1 \in 1 .. Len(q) /\ Tail(q)[i] = q[i + 1]
        /\ Head(q) = q[1] /\ 1 \in 1 .. Len(q)
    BY HeadTailProperties, EmptySeq, LenProperties
  <1>2. Ordered(Tail(q))
    <2> SUFFICES ASSUME NEW i \in 1 .. Len(Tail(q)), NEW j \in 1 .. Len(Tail(q)), i < j
                 PROVE  Before(Tail(q)[i], Tail(q)[j])
      BY <1>1, Zenon DEF Ordered
    <2>1. i + 1 < j + 1
      OBVIOUS
    <2>2. Before(q[i + 1], q[j + 1])
      BY <1>1, <2>1 DEF Ordered
    <2>3. QED
      BY <1>1, <2>2
  <1>3. ASSUME NEW i \in 1 .. Len(Tail(q)) PROVE Before(Head(q), Tail(q)[i])
    <2>1. 1 < i + 1
      OBVIOUS
    <2>2. Before(q[1], q[i + 1])
      BY <1>1, <2>1 DEF Ordered
    <2>3. QED
      BY <1>1, <2>2
  <1>4. QED
    BY <1>1, <1>2, <1>3 DEF SeqSet

Taken == SeqSet(written) \cup ({current} \ {<< >>})

Order ==
    /\ Ordered(inputs) /\ Ordered(endedBuffers)
    /\ \A e \in Taken : \A f \in SeqSet(endedBuffers) : e \in accepted => Before(e, f)
    /\ \A e \in Taken : \A f \in SeqSet(inputs) : e \notin accepted => Before(e, f)
    /\ current # << >> => \A e \in SeqSet(written) :
                              (e \in accepted <=> current \in accepted) => Before(e, current)
    /\ WrittenInOrder

LEMMA OrderWriter ==
    ASSUME TypeInv, AllIssued, Kinds, Order, NEW w \in Writers, WriterStep(w)
    PROVE  Order'
  <1>0. PICK e : e = <<w, count[w]>>
    OBVIOUS
  <1>1. UNCHANGED <<current, written>> /\ Taken' = Taken
    BY WriterMoves DEF TypeInv, TypeOK, Taken
  <1>2. \A i \in DOMAIN written : written[i] \in Taken
    BY DEF Taken, SeqSet
  <1>3. \A f \in Taken : IsIssued(f)
    BY DEF Taken, AllIssued
  <1>4. CASE UNCHANGED <<endedBuffers, inputs, accepted>>
    BY <1>1, <1>4 DEF Order, WrittenInOrder
  <1>5. pc[w] # "idle" =>
            /\ e \in Items /\ e \notin Taken
            /\ \A f \in Taken \cup SeqSet(endedBuffers) \cup SeqSet(inputs) : Before(f, e)
    <2> SUFFICES ASSUME pc[w] # "idle"
                 PROVE  /\ e \in Items /\ e \notin Taken
                        /\ \A f \in Taken \cup SeqSet(endedBuffers) \cup SeqSet(inputs) : Before(f, e)
      OBVIOUS
    <2>1. e \in Items /\ count[w] \in Nat
      BY <1>0, QueueSets
    <2>2. ~IsIssued(e)
      BY <1>0, <2>1 DEF IsIssued
    <2>3. \A f : IsIssued(f) => Before(f, e)
      BY <1>0 DEF IsIssued, Before
    <2>4. Before(ErrorItem, e)
      BY <1>0, Distinct DEF ErrorItem, Before
    <2>5. QED
      BY <1>3, <2>1, <2>2, <2>3, <2>4 DEF AllIssued, Kinds
  <1>6. CASE /\ pc[w] = "endQueue" /\ endedBuffers' = Append(endedBuffers, e)
             /\ accepted' = accepted \cup {e} /\ UNCHANGED <<inputs, count>>
    <2>1. SeqSet(endedBuffers') = SeqSet(endedBuffers) \cup {e}
      BY <1>5, <1>6, AppendedSet, QueueSets
    <2>2. Ordered(endedBuffers')
      BY <1>5, <1>6, AppendOrdered, QueueSets DEF Order
    <2>3. \A f \in Taken : f \in accepted' <=> f \in accepted
      BY <1>5, <1>6
    <2>4. WrittenInOrder'
      BY <1>1, <1>2, <2>3 DEF Order, WrittenInOrder
    <2>5. (current # << >> => \A f \in SeqSet(written) :
                              (f \in accepted <=> current \in accepted) => Before(f, current))'
      BY <1>1, <2>3 DEF Order, Taken
    <2>6. \A f \in Taken' : \A g \in SeqSet(endedBuffers') : f \in accepted' => Before(f, g)
      BY <1>1, <1>5, <1>6, <2>1, <2>3 DEF Order
    <2>7. \A f \in Taken' : \A g \in SeqSet(inputs') : f \notin accepted' => Before(f, g)
      BY <1>1, <1>6, <2>3 DEF Order
    <2>8. QED
      BY <1>6, <2>2, <2>4, <2>5, <2>6, <2>7 DEF Order
  <1>7. CASE /\ pc[w] = "feed" /\ inputs' = Append(inputs, e)
             /\ UNCHANGED <<endedBuffers, accepted, count>>
    <2>1. SeqSet(inputs') = SeqSet(inputs) \cup {e}
      BY <1>5, <1>7, AppendedSet, QueueSets
    <2>2. Ordered(inputs')
      BY <1>5, <1>7, AppendOrdered, QueueSets DEF Order
    <2>3. \A f \in Taken' : \A g \in SeqSet(inputs') : f \notin accepted' => Before(f, g)
      BY <1>1, <1>5, <1>7, <2>1 DEF Order
    <2>4. QED
      BY <1>1, <1>7, <2>2, <2>3 DEF Order, WrittenInOrder
  <1>8. QED
    BY <1>0, <1>4, <1>6, <1>7, WriterMoves DEF TypeInv, TypeOK

LEMMA WritesInOrder ==
    ASSUME NEW e \in Items, written \in Seq(Items), WrittenInOrder,
           written' = Append(written, e), accepted' = accepted,
           \A f \in SeqSet(written) : (f \in accepted <=> e \in accepted) => Before(f, e)
    PROVE  WrittenInOrder'
  <1>1. /\ DOMAIN written = 1 .. Len(written) /\ DOMAIN written' = 1 .. Len(written) + 1
        /\ Len(written) \in Nat /\ \A i \in 1 .. Len(written) : written'[i] = written[i]
        /\ written'[Len(written) + 1] = e
    BY AppendProperties
  <1> SUFFICES ASSUME NEW i \in 1 .. Len(written) + 1, NEW j \in 1 .. Len(written) + 1, i < j,
                      written'[i][1] = written'[j][1],
                      written'[i] \in accepted <=> written'[j] \in accepted
               PROVE  written'[i][2] < written'[j][2]
    BY <1>1, Zenon DEF WrittenInOrder
  <1>2. i \in 1 .. Len(written) /\ written'[i] = written[i]
    BY <1>1
  <1>3. CASE j = Len(written) + 1
    <2>1. written'[j] = e /\ written[i] \in SeqSet(written)
      BY <1>1, <1>2, <1>3 DEF SeqSet
    <2>2. QED
      BY <1>2, <2>1 DEF Before
  <1>4. CASE j # Len(written) + 1
    <2>1. j \in 1 .. Len(written) /\ written'[j] = written[j]
      BY <1>1, <1>4
    <2>2. QED
      BY <1>1, <1>2, <2>1 DEF WrittenInOrder
  <1>5. QED
    BY <1>3, <1>4

LEMMA OrderOther ==
    ASSUME TypeInv, AllIssued, Kinds, Order,
           FeederStep \/ CloserStep \/ DestroyerStep \/ Gone \/ UNCHANGED vars
    PROVE  Order'
  <1>1. accepted' = accepted /\ (TakesMessage \/ TakesBatch \/ Writes \/ Errs \/ Rests)
    BY OtherMoves DEF TypeInv, TypeOK
  <1>2. CASE TakesMessage
    <2>1. /\ current' \in SeqSet(endedBuffers) /\ current' \in accepted
          /\ SeqSet(endedBuffers') \subseteq SeqSet(endedBuffers)
      BY <1>2, TakenSet, QueueSets DEF TakesMessage, Kinds, Feeds
    <2>2. Ordered(endedBuffers') /\ \A f \in SeqSet(endedBuffers') : Before(current', f)
      BY <1>2, TailOrdered, QueueSets DEF TakesMessage, Order
    <2>3. Taken' \subseteq Taken \cup {current'} /\ SeqSet(written) \subseteq Taken
          /\ UNCHANGED <<inputs, written>>
      BY <1>2 DEF Taken, TakesMessage, SeqSet
    <2>4. WrittenInOrder'
      BY <1>1, <2>3 DEF Order, WrittenInOrder
    <2>5. \A e \in SeqSet(written') : e \in accepted => Before(e, current')
      BY <2>1, <2>3 DEF Order
    <2>6. \A e \in Taken' : \A f \in SeqSet(endedBuffers') : e \in accepted => Before(e, f)
      BY <2>1, <2>2, <2>3 DEF Order
    <2>7. \A e \in Taken' : \A f \in SeqSet(inputs') : e \notin accepted => Before(e, f)
      BY <2>1, <2>3 DEF Order
    <2>8. QED
      BY <1>1, <2>1, <2>2, <2>3, <2>4, <2>5, <2>6, <2>7 DEF Order
  <1>3. CASE TakesBatch
    <2>1. /\ current' \in SeqSet(inputs) /\ current' \notin accepted
          /\ SeqSet(inputs') \subseteq SeqSet(inputs)
      BY <1>3, TakenSet, QueueSets DEF TakesBatch, Kinds
    <2>2. Ordered(inputs') /\ \A f \in SeqSet(inputs') : Before(current', f)
      BY <1>3, TailOrdered, QueueSets DEF TakesBatch, Order
    <2>3. Taken' \subseteq Taken \cup {current'} /\ SeqSet(written) \subseteq Taken
          /\ UNCHANGED <<endedBuffers, written>>
      BY <1>3 DEF Taken, TakesBatch, SeqSet
    <2>4. WrittenInOrder'
      BY <1>1, <2>3 DEF Order, WrittenInOrder
    <2>5. \A e \in SeqSet(written') : e \notin accepted => Before(e, current')
      BY <2>1, <2>3 DEF Order
    <2>6. \A e \in Taken' : \A f \in SeqSet(endedBuffers') : e \in accepted => Before(e, f)
      BY <2>1, <2>3 DEF Order
    <2>7. \A e \in Taken' : \A f \in SeqSet(inputs') : e \notin accepted => Before(e, f)
      BY <2>1, <2>2, <2>3 DEF Order
    <2>8. QED
      BY <1>1, <2>1, <2>2, <2>3, <2>4, <2>5, <2>6, <2>7 DEF Order
  <1>4. CASE Writes
    <2>1. current \in Items /\ current # << >>
      BY <1>4, QueueSets, ItemParts DEF Writes, TypeInv, Holding
    <2>2. SeqSet(written') = SeqSet(written) \cup {current} /\ current' = << >>
          /\ UNCHANGED <<endedBuffers, inputs>>
      BY <1>4, <2>1, AppendedSet, QueueSets DEF Writes
    <2>3. Taken' = Taken
      BY <2>1, <2>2 DEF Taken
    <2>4. WrittenInOrder'
      BY <1>1, <1>4, <2>1, WritesInOrder, QueueSets DEF Writes, Order
    <2>5. QED
      BY <1>1, <2>2, <2>3, <2>4 DEF Order
  <1>5. CASE Errs
    <2>1. ErrorItem \in Items
      BY ConstantsAssumption DEF ErrorItem, Items
    <2>2. \A e : IsIssued(e) => Before(e, ErrorItem)
      BY Distinct DEF IsIssued, Before, ErrorItem
    <2>3. Taken' \subseteq Taken /\ current' = << >> /\ UNCHANGED <<inputs, written>>
      BY <1>5 DEF Errs, Taken
    <2>4. \A e \in Taken \cup SeqSet(endedBuffers) : IsIssued(e)
      BY <1>5 DEF Taken, AllIssued, Kinds, Errs, Feeds
    <2>5. /\ SeqSet(endedBuffers') \subseteq SeqSet(endedBuffers) \cup {ErrorItem}
          /\ Ordered(endedBuffers')
      <3>1. CASE endedBuffers' = endedBuffers
        BY <3>1 DEF Order
      <3>2. CASE endedBuffers' = Append(endedBuffers, ErrorItem)
        BY <2>1, <2>2, <2>4, <3>2, AppendedSet, AppendOrdered, QueueSets DEF Order
      <3>3. QED
        BY <1>5, <3>1, <3>2 DEF Errs
    <2>6. WrittenInOrder'
      BY <1>1, <2>3 DEF Order, WrittenInOrder
    <2>7. QED
      BY <1>1, <2>2, <2>3, <2>4, <2>5, <2>6 DEF Order
  <1>6. CASE Rests
    <2>1. /\ SeqSet(inputs') \subseteq SeqSet(inputs) /\ Ordered(inputs')
          /\ SeqSet(endedBuffers') \subseteq SeqSet(endedBuffers) /\ Ordered(endedBuffers')
      <3>1. Ordered(<< >>)
        BY DEF Ordered
      <3>2. QED
        BY <1>6, <3>1, QueueSets DEF Rests, Order
    <2>2. Taken' \subseteq Taken /\ written' = written /\ current' \in {current, << >>}
      BY <1>6 DEF Rests, Taken
    <2>3. WrittenInOrder'
      BY <1>1, <2>2 DEF Order, WrittenInOrder
    <2>4. QED
      BY <1>1, <2>1, <2>2, <2>3 DEF Order
  <1>7. QED
    BY <1>1, <1>2, <1>3, <1>4, <1>5, <1>6

Sequential == TypeInv /\ AllIssued /\ Kinds /\ Order

LEMMA SequentialNext == Sequential /\ [Next]_vars => Sequential'
  <1> SUFFICES ASSUME Sequential, [Next]_vars PROVE Sequential'
    OBVIOUS
  <1>1. TypeInv'
    BY TypeNext DEF Sequential
  <1>2. SeqSet(endedBuffers) \subseteq accepted \/ ~Feeds
    BY DEF Sequential, Kinds
  <1>3. CASE \E w \in Writers : WriterStep(w)
    BY <1>1, <1>3, IssuedWriter, KindsWriter, OrderWriter DEF Sequential
  <1>4. CASE FeederStep \/ CloserStep \/ DestroyerStep \/ Gone \/ UNCHANGED vars
    BY <1>1, <1>2, <1>4, IssuedOther, KindsOther, OrderOther DEF Sequential
  <1>5. QED
    BY <1>3, <1>4 DEF Next

LEMMA SequentialInit == Init => Sequential
  <1> SUFFICES ASSUME Init PROVE Sequential
    OBVIOUS
  <1>1. TypeInv
    BY PlacesInit, FlagsInit, BuffersInit, NumberedInit, QueuesInit DEF TypeInv, TypeOK
  <1>2. AllIssued /\ Kinds /\ Order
    BY Distinct DEF Init, AllIssued, Kinds, Order, Ordered, Taken, WrittenInOrder, SeqSet
  <1>3. QED
    BY <1>1, <1>2 DEF Sequential

(* The messages of a writer leave in the order it ended them and its       *)
(* batches in the order it fed them, each once: the feeder takes from the  *)
(* front what Ended and Feed put at the back, and a writer does not use a  *)
(* number again.                                                           *)
THEOREM NothingIsSwapped == Spec => []WrittenInOrder
  <1>1. Sequential => WrittenInOrder
    BY DEF Sequential, Order
  <1>2. QED
    BY <1>1, SequentialInit, SequentialNext, PTL DEF Spec

(***************************************************************************)
(* Completeness.  Until eof is set nothing a Direct writer does is         *)
(* discarded, refused or orphaned, and the feeder goes on: what was issued *)
(* is queued, in the feeder's hand or written.  What was so when the       *)
(* deletion began stays so, and the feeder ends with nothing left of it.   *)
(***************************************************************************)
Going == ~failed /\ pc[Feeder] # "failed"

Ending ==
    /\ pc[Destroyer] \notin {"idle", "leave"} => eof
    /\ channel # "failed" /\ (channel = "closed" => eof)

Opened ==
    ~eof => \A w \in Direct :
        /\ pc[w] \in {"insert", "inserting", "open"} => w \in master /\ w \notin ended
        /\ pc[w] = "endMaster" => w \in master

Ends == {"close", "clear", "clearMutex", "orphan", "done"}

Drained == pc[Feeder] \in Ends => due \subseteq SeqSet(written)

Somewhere(e) == e \in SeqSet(endedBuffers) \cup SeqSet(inputs) \cup {current} \cup SeqSet(written)

AllThere ==
    ~eof => \A w \in Direct : \A n \in 1 .. count[w] :
                (n = count[w] /\ pc[w] # "idle") \/ Somewhere(<<w, n>>)

DueThere == \A e \in due : Somewhere(e)

Complete == Ending /\ Opened /\ Drained /\ AllThere /\ DueThere

Whole == Sequential /\ Feeding /\ (Going => Complete)

(* Before eof a writer at work finds the Output as it was made.            *)
LEMMA WritersAreHeard ==
    ASSUME Whole, Going, ~eof
    PROVE  ~Refused /\ channel = "open" /\ pc[Destroyer] \in {"idle", "leave"}
           /\ pc[Feeder] \notin Ends
  BY DEF Refused, Whole, Feeding, Going, Complete, Ending, Ends, Sequential, TypeInv, TypeOK, FlagsOK

LEMMA EndingWriter ==
    ASSUME Whole, Going, NEW w \in Writers, WriterStep(w)
    PROVE  Ending'
  <1>1. /\ UNCHANGED <<eof, failed, channel>> /\ pc'[Destroyer] = pc[Destroyer]
    BY WriterMoves, Distinct DEF Whole, Sequential, TypeInv, TypeOK, flags
  <1>2. QED
    BY <1>1 DEF Whole, Complete, Ending

LEMMA OpenedWriter ==
    ASSUME Whole, Going, NEW w \in Writers, WriterStep(w)
    PROVE  Opened'
  <1>0. eof' = eof
    BY WriterMoves DEF Whole, Sequential, TypeInv, TypeOK, flags
  <1> SUFFICES ASSUME ~eof, NEW v \in Direct
               PROVE  /\ pc'[v] \in {"insert", "inserting", "open"} => v \in master' /\ v \notin ended'
                      /\ pc'[v] = "endMaster" => v \in master'
    BY <1>0 DEF Opened
  <1>1. PlacesOK /\ v \in Writers /\ v \in Threads /\ w \in Threads
    BY Distinct DEF Whole, Sequential, TypeInv, TypeOK
  <1>2. /\ pc[v] \in {"insert", "inserting", "open"} => v \in master /\ v \notin ended
        /\ pc[v] = "endMaster" => v \in master
    BY DEF Whole, Complete, Opened
  <1>3. CASE v # w
    <2>1. pc'[v] = pc[v]
      BY <1>1, <1>3, WriterMoves
    <2>2. (v \in master' <=> v \in master) /\ (v \in ended' <=> v \in ended)
      BY <1>3
      DEF WriterStep, Writable, InsertLock, Insert, EndCheck, EndMaster, EndedLockSets,
          EndedLockMutex, EndedQueue, FeedCheck, FeedPush, items
    <2>3. QED
      BY <1>2, <2>1, <2>2
  <1>4. CASE v = w
    BY <1>1, <1>2, <1>4
    DEF WriterStep, Writable, InsertLock, Insert, EndCheck, EndMaster, EndedLockSets,
        EndedLockMutex, EndedQueue, FeedCheck, FeedPush, Goto, PlacesOK, MayWrite, items
  <1>5. QED
    BY <1>3, <1>4

LEMMA DrainedWriter ==
    ASSUME Whole, Going, NEW w \in Writers, WriterStep(w)
    PROVE  Drained'
  <1>1. pc'[Feeder] = pc[Feeder] /\ UNCHANGED <<written, due>>
    BY WriterMoves, Distinct DEF Whole, Sequential, TypeInv, TypeOK
  <1>2. QED
    BY <1>1 DEF Drained, Whole, Complete, SeqSet

(* A writer takes nothing out of the queues.                               *)
LEMMA SomewhereWriter ==
    ASSUME Whole, NEW w \in Writers, WriterStep(w), NEW x, Somewhere(x)
    PROVE  Somewhere(x)'
  <1>1. PlacesOK /\ endedBuffers \in Seq(Items) /\ inputs \in Seq(Items)
    BY QueueSets DEF Whole, Sequential, TypeInv, TypeOK
  <1>2. UNCHANGED <<current, written>>
    BY <1>1, WriterMoves
  <1>3. PICK e : e = <<w, count[w]>>
    OBVIOUS
  <1>4. pc[w] # "idle" => /\ SeqSet(Append(endedBuffers, e)) = SeqSet(endedBuffers) \cup {e}
                          /\ SeqSet(Append(inputs, e)) = SeqSet(inputs) \cup {e}
    <2>1. pc[w] # "idle" => e \in Items
      BY <1>3, QueueSets DEF Whole, Sequential
    <2>2. QED
      BY <1>1, <2>1, AppendedSet
  <1>5. endedBuffers' \in {endedBuffers, Append(endedBuffers, e)}
        /\ inputs' \in {inputs, Append(inputs, e)}
        /\ (pc[w] # "idle" \/ UNCHANGED <<endedBuffers, inputs>>)
    BY <1>1, <1>3, WriterMoves
  <1>6. CASE pc[w] # "idle"
    BY <1>2, <1>4, <1>5, <1>6 DEF Somewhere
  <1>7. CASE UNCHANGED <<endedBuffers, inputs>>
    BY <1>2, <1>7 DEF Somewhere, SeqSet
  <1>8. QED
    BY <1>5, <1>6, <1>7

LEMMA DueThereWriter ==
    ASSUME Whole, Going, NEW w \in Writers, WriterStep(w)
    PROVE  DueThere'
  <1>1. due' = due
    BY WriterMoves DEF Whole, Sequential, TypeInv, TypeOK
  <1>2. QED
    BY <1>1, SomewhereWriter DEF DueThere, Whole, Complete

LEMMA AllThereWriter ==
    ASSUME Whole, Going, NEW w \in Writers, WriterStep(w)
    PROVE  AllThere'
  <1>1. /\ PlacesOK /\ w \in Threads /\ Direct \subseteq Writers /\ Writers \subseteq Threads
        /\ \A v \in Writers : count[v] \in Nat
        /\ count \in [Writers -> 0 .. MaxItems]
    BY Distinct, QueueSets DEF Whole, Sequential, TypeInv, TypeOK, BuffersOK
  <1>2. eof' = eof /\ \A v \in Writers : v # w => pc'[v] = pc[v]
    BY <1>1, WriterMoves DEF flags
  <1> SUFFICES ASSUME ~eof, NEW v \in Direct, NEW n \in 1 .. count'[v],
                      pc'[v] = "idle" \/ n # count'[v]
               PROVE  Somewhere(<<v, n>>)'
    BY <1>2 DEF AllThere
  <1>3. \A u \in Direct : \A m \in 1 .. count[u] :
            (m = count[u] /\ pc[u] # "idle") \/ Somewhere(<<u, m>>)
    BY DEF Whole, Complete, AllThere
  <1>4. PICK e : e = <<w, count[w]>>
    OBVIOUS
  <1>5. pc[w] # "idle" => /\ SeqSet(Append(endedBuffers, e)) = SeqSet(endedBuffers) \cup {e}
                          /\ SeqSet(Append(inputs, e)) = SeqSet(inputs) \cup {e}
    <2>1. endedBuffers \in Seq(Items) /\ inputs \in Seq(Items) /\ (pc[w] # "idle" => e \in Items)
      BY <1>4, QueueSets DEF Whole, Sequential
    <2>2. QED
      BY <2>1, AppendedSet
  <1>6. \A x : Somewhere(x) => Somewhere(x)'
    BY SomewhereWriter
  <1>7. CASE v # w
    <2>1. pc'[v] = pc[v] /\ count'[v] = count[v]
      BY <1>1, <1>2, <1>7, WriterMoves
    <2>2. Somewhere(<<v, n>>)
      BY <1>3, <2>1
    <2>3. QED
      BY <1>6, <2>2
  <1>8. CASE v = w
    <2>1. CASE pc[w] = "idle" /\ MayWrite(w) /\ count' = [count EXCEPT ![w] = @ + 1]
      <3>1. channel = "open"
        BY WritersAreHeard
      <3>2. pc'[w] # "idle"
        BY <1>1, <2>1, <3>1
        DEF WriterStep, Writable, InsertLock, Insert, EndCheck, EndMaster, EndedLockSets,
            EndedLockMutex, EndedQueue, FeedCheck, FeedPush, Goto, PlacesOK
      <3>3. n \in 1 .. count[w]
        BY <1>1, <1>8, <2>1, <3>2
      <3>4. Somewhere(<<v, n>>)
        BY <1>3, <1>8, <2>1, <3>3
      <3>5. QED
        BY <1>6, <3>4
    <2>2. CASE count' = count /\ pc[w] # "idle"
      <3>1. CASE n # count[w]
        <4>1. Somewhere(<<v, n>>)
          BY <1>3, <1>8, <2>2, <3>1
        <4>2. QED
          BY <1>6, <4>1
      <3>2. CASE n = count[w]
        <4>1. pc'[w] = "idle" /\ <<v, n>> = e
          BY <1>4, <1>8, <2>2, <3>2
        <4>2. ~Refused
          BY WritersAreHeard
        <4>3. \/ endedBuffers' = Append(endedBuffers, e)
              \/ inputs' = Append(inputs, e)
          <5>1. ~EndCheck(w)
            BY <1>1, <1>8, <4>1 DEF EndCheck, Goto, PlacesOK, Whole, Complete, Opened
          <5>2. ~EndMaster(w)
            BY <1>1, <1>8, <4>1 DEF EndMaster, Goto, PlacesOK, Whole, Complete, Opened
          <5>3. CASE EndedQueue(w)
            BY <1>4, <4>2, <5>3 DEF EndedQueue, Queued
          <5>4. CASE FeedPush(w)
            BY <1>4, <5>4 DEF FeedPush
          <5>5. QED
            BY <1>1, <2>2, <4>1, <5>1, <5>2, <5>3, <5>4
            DEF WriterStep, Writable, InsertLock, Insert, EndedLockSets, EndedLockMutex, FeedCheck,
                MayWrite, Goto, PlacesOK
        <4>4. e \in SeqSet(endedBuffers') \cup SeqSet(inputs')
          BY <1>5, <2>2, <4>3
        <4>5. QED
          BY <4>1, <4>4 DEF Somewhere
      <3>3. QED
        BY <3>1, <3>2
    <2>3. QED
      BY <1>1, <2>1, <2>2, WriterMoves
  <1>9. QED
    BY <1>7, <1>8

(* What has failed stays so.                                               *)
LEMMA GoingNext ==
    ASSUME PlacesOK, [Next]_vars, Going'
    PROVE  Going
  <1>1. CASE Catch
    BY <1>1 DEF Catch, Going
  <1>2. CASE pc[Feeder] = "failed" /\ ~Catch
    <2> USE Distinct DEF Goto, PlacesOK, Going
    <2>1. ASSUME NEW w \in Writers, WriterStep(w) PROVE FALSE
      BY <1>2, <2>1, WriterMoves
    <2>2. ASSUME NEW c \in Clearers, ClearStep(c) PROVE FALSE
      BY <1>2, <2>2
      DEF ClearStep, NoGlobalMessages, Left, ClearLockSets, ClearLockMutex, Cleared, Orphan
    <2>3. CASE FeederStep
      BY <1>2, <2>2, <2>3
      DEF FeederStep, FeederCheck, FeederTake, FeederWake, FeederWrite, WriteFails, ReadFails,
          OrphanLock, OrphanedUnlocked, FeederClose
    <2>4. CASE CloserStep \/ Destroy \/ Join \/ Gone \/ UNCHANGED vars
      BY <1>2, <2>4 DEF CloserStep, End, NoGlobalMessages, Left, Destroy, Join, Gone, vars
    <2>5. QED
      BY <2>1, <2>2, <2>3, <2>4 DEF Next, DestroyerStep
  <1>3. QED
    BY <1>1, <1>2, FailedStays DEF Going

LEMMA EndingOther ==
    ASSUME Whole, Going, Going',
           FeederStep \/ CloserStep \/ DestroyerStep \/ Gone \/ UNCHANGED vars
    PROVE  Ending'
  <1>1. PlacesOK /\ Ending /\ Feeding
    BY DEF Whole, Sequential, TypeInv, TypeOK, Complete
  <1> USE Distinct DEF Goto, PlacesOK, Ending, Going
  <1>2. ASSUME NEW c \in Clearers, ClearStep(c) PROVE Ending'
    <2>1. CASE NoGlobalMessages(c)
      BY <1>1, <2>1 DEF NoGlobalMessages
    <2>2. CASE Left(c)
      BY <1>1, <2>2 DEF Left, LeftTo, SetsEof, Feeding
    <2>3. CASE ClearLockSets(c) \/ ClearLockMutex(c) \/ Cleared(c)
      BY <1>1, <2>3 DEF ClearLockSets, ClearLockMutex, Cleared, flags
    <2>4. CASE \E w \in Writers : Orphan(c, w)
      BY <1>1, <2>4 DEF Orphan, flags
    <2>5. QED
      BY <1>2, <2>1, <2>2, <2>3, <2>4 DEF ClearStep
  <1>3. CASE FeederCheck \/ FeederTake \/ FeederWake \/ FeederWrite
    BY <1>1, <1>3 DEF FeederCheck, FeederTake, FeederWake, FeederWrite, flags
  <1>4. CASE WriteFails \/ ReadFails \/ Catch
    BY <1>1, <1>4 DEF WriteFails, ReadFails, Catch
  <1>5. CASE OrphanLock \/ OrphanedUnlocked
    BY <1>1, <1>5 DEF OrphanLock, OrphanedUnlocked, flags
  <1>6. CASE FeederClose
    BY <1>1, <1>6 DEF FeederClose, Feeding
  <1>7. CASE CloserStep
    BY <1>1, <1>7 DEF CloserStep, End, NoGlobalMessages, Left, SetsEof, LeftTo
  <1>8. CASE Destroy \/ Join
    BY <1>1, <1>8 DEF Destroy, Join, flags
  <1>9. CASE Gone \/ UNCHANGED vars
    BY <1>1, <1>9 DEF Gone, vars, flags
  <1>10. QED
    BY <1>2, <1>3, <1>4, <1>5, <1>6, <1>7, <1>8, <1>9 DEF FeederStep, DestroyerStep

(* Nothing takes eof back.                                                 *)
LEMMA EofStays ==
    ASSUME PlacesOK, FeederStep \/ CloserStep \/ DestroyerStep \/ Gone \/ UNCHANGED vars, eof
    PROVE  eof'
  BY DEF FeederStep, FeederCheck, FeederTake, FeederWake, FeederWrite, WriteFails, ReadFails,
         Catch, OrphanLock, OrphanedUnlocked, FeederClose, CloserStep, End, DestroyerStep,
         Destroy, Join, ClearStep, NoGlobalMessages, Left, SetsEof, ClearLockSets,
         ClearLockMutex, Cleared, Orphan, Gone, vars, flags

(* Buffers are orphaned after the end only.                                *)
LEMMA OpenedOther ==
    ASSUME Whole, Going, FeederStep \/ CloserStep \/ DestroyerStep \/ Gone \/ UNCHANGED vars
    PROVE  Opened'
  <1>0. eof => eof'
    BY EofStays DEF Whole, Sequential, TypeInv, TypeOK
  <1>1. /\ Opened /\ Ending /\ Feeding /\ PlacesOK /\ Direct \subseteq Writers
        /\ \A w \in Writers : pc'[w] = pc[w]
    BY OtherMoves, Distinct DEF Whole, Sequential, TypeInv, TypeOK, Complete
  <1>2. CASE UNCHANGED <<master, ended>>
    BY <1>0, <1>1, <1>2 DEF Opened
  <1>3. ASSUME NEW c \in Clearers, NEW w \in Writers, Orphan(c, w) PROVE Opened'
    <2>1. eof
      BY <1>1, <1>3, Distinct DEF Orphan, Feeding, Going, Ending, PlacesOK, DestroyerPlaces
    <2>2. QED
      BY <1>0, <2>1 DEF Opened
  <1>4. QED
    BY <1>2, <1>3, Distinct
    DEF FeederStep, FeederCheck, FeederTake, FeederWake, FeederWrite, WriteFails, ReadFails,
        Catch, OrphanLock, OrphanedUnlocked, FeederClose, CloserStep, End, DestroyerStep,
        Destroy, Join, ClearStep, NoGlobalMessages, Left, ClearLockSets, ClearLockMutex,
        Cleared, Gone, vars, items

(* While nothing fails, items move on in order, and are dropped only when  *)
(* the feeder has ended.                                                   *)
LEMMA QueuesOther ==
    ASSUME Whole, Going, Going',
           FeederStep \/ CloserStep \/ DestroyerStep \/ Gone \/ UNCHANGED vars
    PROVE  \/ TakesMessage \/ TakesBatch \/ Writes
           \/ UNCHANGED <<endedBuffers, inputs, current, written>>
           \/ eof /\ pc[Feeder] \in Ends /\ UNCHANGED <<current, written>>
  <1> DEFINE Same == UNCHANGED <<endedBuffers, inputs, current, written>>
             Drops == eof /\ pc[Feeder] \in Ends /\ UNCHANGED <<current, written>>
  <1>1. PlacesOK /\ Feeding
    BY DEF Whole, Sequential, TypeInv, TypeOK
  <1> USE Distinct DEF Goto, PlacesOK, Going, queues, work
  <1>2. CASE FeederTake
    BY <1>1, <1>2 DEF FeederTake, NothingQueued, TakesMessage, TakesBatch
  <1>3. CASE FeederWrite
    BY <1>1, <1>3 DEF FeederWrite, Writes
  <1>4. CASE FeederCheck \/ FeederWake \/ FeederClose
    BY <1>1, <1>4 DEF FeederCheck, FeederWake, FeederClose
  <1>5. CASE WriteFails \/ ReadFails \/ Catch \/ OrphanLock \/ OrphanedUnlocked
    BY <1>1, <1>5 DEF WriteFails, ReadFails, Catch, OrphanLock, OrphanedUnlocked, Feeding
  <1>6. CASE CloserStep \/ Destroy \/ Join \/ Gone \/ UNCHANGED vars
    BY <1>1, <1>6 DEF CloserStep, End, NoGlobalMessages, Left, Destroy, Join, Gone, vars
  <1>7. ASSUME NEW c \in Clearers, ClearStep(c) PROVE Same \/ Drops
    <2>1. CASE NoGlobalMessages(c) \/ Left(c) \/ ClearLockSets(c) \/ ClearLockMutex(c)
      BY <1>1, <2>1 DEF NoGlobalMessages, Left, ClearLockSets, ClearLockMutex
    <2>2. CASE Cleared(c)
      BY <1>1, <2>2 DEF Cleared, Feeding, Ends
    <2>3. CASE \E w \in Writers : Orphan(c, w)
      BY <1>1, <2>3 DEF Orphan
    <2>4. QED
      BY <1>7, <2>1, <2>2, <2>3 DEF ClearStep
  <1>8. QED
    BY <1>2, <1>3, <1>4, <1>5, <1>6, <1>7 DEF FeederStep, DestroyerStep

LEMMA SomewhereOther ==
    ASSUME Whole, Going, Going',
           FeederStep \/ CloserStep \/ DestroyerStep \/ Gone \/ UNCHANGED vars,
           NEW e \in Items
    PROVE  /\ e \in SeqSet(written) => e \in SeqSet(written')
           /\ Somewhere(e) => Somewhere(e)' \/ (eof /\ pc[Feeder] \in Ends)
  <1>1. e # << >>
    BY ItemParts
  <1>2. CASE TakesMessage
    <2>1. SeqSet(endedBuffers) = {current'} \cup SeqSet(endedBuffers')
      BY <1>2, TakenSet, QueueSets DEF TakesMessage, Whole, Sequential
    <2>2. current = << >>
      BY <1>2 DEF TakesMessage, Whole, Sequential, TypeInv, Holding
    <2>3. QED
      BY <1>1, <1>2, <2>1, <2>2 DEF TakesMessage, Somewhere, SeqSet
  <1>3. CASE TakesBatch
    <2>1. SeqSet(inputs) = {current'} \cup SeqSet(inputs')
      BY <1>3, TakenSet, QueueSets DEF TakesBatch, Whole, Sequential
    <2>2. current = << >>
      BY <1>3 DEF TakesBatch, Whole, Sequential, TypeInv, Holding
    <2>3. QED
      BY <1>1, <1>3, <2>1, <2>2 DEF TakesBatch, Somewhere, SeqSet
  <1>4. CASE Writes
    <2>1. current \in Items
      BY <1>4, QueueSets DEF Writes, Whole, Sequential, TypeInv, Holding
    <2>2. SeqSet(written') = SeqSet(written) \cup {current}
      BY <1>4, <2>1, AppendedSet, QueueSets DEF Writes, Whole, Sequential
    <2>3. QED
      BY <1>4, <2>2 DEF Writes, Somewhere
  <1>5. CASE UNCHANGED <<endedBuffers, inputs, current, written>>
    BY <1>5 DEF Somewhere, SeqSet
  <1>6. CASE eof /\ pc[Feeder] \in Ends /\ UNCHANGED <<current, written>>
    BY <1>6 DEF SeqSet
  <1>7. QED
    BY <1>2, <1>3, <1>4, <1>5, <1>6, QueuesOther

LEMMA AllThereOther ==
    ASSUME Whole, Going, Going',
           FeederStep \/ CloserStep \/ DestroyerStep \/ Gone \/ UNCHANGED vars
    PROVE  AllThere'
  <1>1. /\ AllThere /\ Direct \subseteq Writers /\ UNCHANGED count /\ (eof => eof')
        /\ \A w \in Writers : pc'[w] = pc[w]
    BY OtherMoves, EofStays, Distinct DEF Whole, Sequential, TypeInv, TypeOK, Complete
  <1>2. ~eof => pc[Feeder] \notin Ends
    BY WritersAreHeard
  <1>3. \A w \in Direct : \A n \in 1 .. count[w] : <<w, n>> \in Items
    <2>1. \A w \in Direct : count[w] \in 0 .. MaxItems
      BY <1>1 DEF Whole, Sequential, TypeInv, TypeOK, BuffersOK
    <2>2. QED
      BY <1>1, <2>1, ConstantsAssumption DEF Items
  <1>4. ASSUME NEW e \in Items, ~eof, Somewhere(e) PROVE Somewhere(e)'
    BY <1>2, <1>4, SomewhereOther
  <1>5. QED
    BY <1>1, <1>3, <1>4 DEF AllThere

(* What was issued before the deletion began is in one of the places.      *)
LEMMA DueThereOther ==
    ASSUME Whole, Going, Going',
           FeederStep \/ CloserStep \/ DestroyerStep \/ Gone \/ UNCHANGED vars
    PROVE  DueThere'
  <1>1. /\ DueThere /\ Drained /\ AllThere /\ due \subseteq Items
        /\ (due' = due \/ Destroy)
    BY OtherMoves DEF Whole, Sequential, TypeInv, TypeOK, QueuesOK, Complete
  <1>2. CASE due' = due
    <2> SUFFICES ASSUME NEW e \in due PROVE Somewhere(e)'
      BY <1>2 DEF DueThere
    <2>1. CASE pc[Feeder] \in Ends
      <3>1. e \in SeqSet(written')
        BY <1>1, <2>1, SomewhereOther DEF Drained
      <3>2. QED
        BY <3>1 DEF Somewhere
    <2>2. CASE pc[Feeder] \notin Ends
      BY <1>1, <2>2, SomewhereOther DEF DueThere
    <2>3. QED
      BY <2>1, <2>2
  <1>3. CASE Destroy
    <2>1. /\ UNCHANGED <<endedBuffers, inputs, current, written>>
          /\ due' = IF eof THEN {} ELSE Issued
      BY <1>3 DEF Destroy, queues, work
    <2>2. ASSUME NEW e \in due' PROVE Somewhere(e)
      BY <1>1, <2>1, <2>2 DEF Issued, AllThere
    <2>3. QED
      BY <2>1, <2>2 DEF DueThere, Somewhere, SeqSet
  <1>4. QED
    BY <1>1, <1>2, <1>3

(* The feeder ends when it has found nothing left after eof.               *)
LEMMA DrainedOther ==
    ASSUME Whole, Going, Going',
           FeederStep \/ CloserStep \/ DestroyerStep \/ Gone \/ UNCHANGED vars
    PROVE  Drained'
  <1>1. /\ DueThere /\ Drained /\ Feeding /\ PlacesOK /\ due \subseteq Items
        /\ (due' = due \/ Destroy)
    BY OtherMoves DEF Whole, Sequential, TypeInv, TypeOK, QueuesOK, Complete
  <1>2. CASE Destroy
    <2>1. pc'[Feeder] = pc[Feeder] /\ due' = IF eof THEN {} ELSE Issued
      BY <1>1, <1>2, Distinct DEF Destroy, Goto, PlacesOK
    <2>2. QED
      BY <2>1, WritersAreHeard DEF Drained
  <1>3. CASE due' = due /\ pc[Feeder] \in Ends
    BY <1>1, <1>3, SomewhereOther DEF Drained
  <1>4. CASE due' = due /\ pc[Feeder] \notin Ends /\ pc'[Feeder] \in Ends
    <2> USE Distinct DEF Goto, PlacesOK, Going, Ends, Feeding
    <2>1. ~FeederCheck /\ ~Catch /\ ~OrphanedUnlocked
      BY <1>1, <1>4 DEF FeederCheck, Catch, OrphanedUnlocked
    <2>2. ~FeederWake /\ ~FeederWrite /\ ~WriteFails /\ ~ReadFails /\ ~OrphanLock /\ ~FeederClose
      BY <1>1, <1>4 DEF FeederWake, FeederWrite, WriteFails, ReadFails, OrphanLock, FeederClose
    <2>3. \A c \in Clearers : ~ClearStep(c)
      BY <1>1, <1>4
      DEF ClearStep, NoGlobalMessages, Left, LeftTo, ClearLockSets, ClearLockMutex, Cleared, Orphan
    <2>4. ~CloserStep /\ ~Destroy /\ ~Join /\ ~Gone /\ ~UNCHANGED vars
      BY <1>1, <1>4
      DEF CloserStep, End, NoGlobalMessages, Left, LeftTo, Destroy, Join, Gone, vars
    <2>5. FeederTake
      BY <2>1, <2>2, <2>3, <2>4 DEF FeederStep, DestroyerStep
    <2>6. NothingQueued /\ written' = written /\ pc[Feeder] = "lock"
      BY <1>1, <1>4, <2>5 DEF FeederTake
    <2>7. current = << >>
      BY <2>6 DEF Whole, Sequential, TypeInv, Holding
    <2>8. SeqSet(endedBuffers) = {} /\ SeqSet(inputs) = {}
      BY <2>6 DEF NothingQueued, SeqSet
    <2>9. \A e \in due : e \in SeqSet(written)
      BY <1>1, <2>7, <2>8, ItemParts DEF DueThere, Somewhere
    <2>10. QED
      BY <1>4, <2>6, <2>9 DEF Drained
  <1>5. QED
    BY <1>1, <1>2, <1>3, <1>4 DEF Drained

LEMMA WholeNext == Whole /\ [Next]_vars => Whole'
  <1> SUFFICES ASSUME Whole, [Next]_vars PROVE Whole'
    OBVIOUS
  <1>1. PlacesOK
    BY DEF Whole, Sequential, TypeInv, TypeOK
  <1>2. Sequential' /\ Feeding'
    BY <1>1, SequentialNext, FeedingNext DEF Whole
  <1>3. ASSUME Going' PROVE Complete'
    <2>1. Going
      BY <1>1, <1>3, GoingNext
    <2>2. CASE \E w \in Writers : WriterStep(w)
      BY <2>1, <2>2, EndingWriter, OpenedWriter, DrainedWriter, AllThereWriter, DueThereWriter
      DEF Complete
    <2>3. CASE FeederStep \/ CloserStep \/ DestroyerStep \/ Gone \/ UNCHANGED vars
      BY <1>3, <2>1, <2>3, EndingOther, OpenedOther, DrainedOther, AllThereOther, DueThereOther
      DEF Complete
    <2>4. QED
      BY <2>2, <2>3 DEF Next
  <1>4. QED
    BY <1>2, <1>3 DEF Whole

LEMMA WholeInit == Init => Whole
  <1> SUFFICES ASSUME Init PROVE Whole
    OBVIOUS
  <1>1. Feeding
    BY Distinct DEF Init, Feeding
  <1>2. Complete
    BY Distinct DEF Init, Complete, Ending, Opened, Drained, Ends, AllThere, DueThere
  <1>3. QED
    BY <1>1, <1>2, SequentialInit DEF Whole

(* Unless writing or reading failed or End was called before, what threads *)
(* had written and fed when the deletion began is on the channel when the  *)
(* destructor returns, batches and the message in the feeder's hand        *)
(* included, although other threads go on writing.                         *)
THEOREM EverythingIsWritten == Spec => []NothingIssuedIsLost
  <1>1. Whole => NothingIssuedIsLost
    <2> SUFFICES ASSUME Whole, pc[Destroyer] = "gone", ~failed PROVE due \subseteq SeqSet(written)
      BY DEF NothingIssuedIsLost
    <2>1. pc[Feeder] = "done"
      BY DEF Whole, Feeding
    <2>2. QED
      BY <2>1 DEF Whole, Going, Complete, Drained, Ends
  <1>2. QED
    BY <1>1, WholeInit, WholeNext, PTL DEF Spec
=============================================================================
