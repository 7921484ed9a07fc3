------------------------------- MODULE Output -------------------------------
(***************************************************************************)
(* One Output: the messages several threads write at once, the batches of  *)
(* data fed to it, and the feeder thread that moves both to the channel,   *)
(* at the granularity of the three kinds of mutex it uses.                 *)
(*                                                                         *)
(*   sets     Output::input_sets_mutex                                     *)
(*   mut      Output::mutex                                                *)
(*   master_mutex of each OutputItemBuffer, see MasterHeld                 *)
(*                                                                         *)
(* A writer works on one message at a time: between Writable and End its   *)
(* OutputItemBuffer is named by the writer itself, and once handed over it *)
(* is the item <<writer, number>>.  Writers are either Direct, threads     *)
(* that hold a pointer to the Output, or Notifiers: OutputCollection       *)
(* serialises notifiers and keeps its mutex while a message is written, so *)
(* each collection is modelled as one notifier.                            *)
(***************************************************************************)
EXTENDS Integers, Sequences

CONSTANTS
    Direct,        \* threads that write replies here and feed data
    Notifiers,     \* the collections this Output is registered in
    DataNotifier,  \* the one that carries data notifications
    Feeder,        \* the thread running Output::feeder
    Closer,        \* a thread that may call End (the end-feed command)
    Destroyer,     \* the thread that deletes the Output
    Nobody,        \* holder of a free mutex
    Failures,      \* what may fail: "write" (channel), "read" (fed data)
    MaxItems       \* bound: messages and batches per writer

Writers == Direct \cup Notifiers
Clearers == {Feeder, Destroyer}
Threads == Writers \cup Clearers \cup {Closer}

ASSUME ConstantsAssumption ==
    /\ Direct \cap Notifiers = {}
    /\ DataNotifier \in Notifiers
    /\ Feeder \notin {Closer, Destroyer, Nobody} /\ Closer \notin {Destroyer, Nobody}
    /\ Destroyer # Nobody
    /\ Writers \cap {Feeder, Closer, Destroyer, Nobody} = {}
    /\ Failures \subseteq {"write", "read"}
    /\ MaxItems \in Nat

VARIABLES
    pc,          \* where each thread is
    sets, mut,   \* holders of input_sets_mutex and mutex
    eof, failed, \* Output::eof and Output::failed
    channel,     \* "open", "failed" or "closed"
    registered,  \* the collections the Output is a member of
    count,       \* how many messages and batches each writer began
    master,      \* writers whose buffer still points to the Output
    ended,       \* writers whose buffer has its ended flag set
    buffers,     \* Output::buffers
    endedBuffers,\* Output::ended_buffers
    inputs,      \* Output::inputs
    current,     \* the item the feeder has taken and not yet written, or << >>
    todo,        \* per clearer: the buffers its loop has yet to orphan
    written      \* what went to the channel in full, in order

VARIABLES
    accepted,    \* history: the messages that Ended has queued
    due          \* history: what was written and fed when the deletion began

locks == <<sets, mut>>
flags == <<eof, failed, channel, registered>>
items == <<count, master, ended>>
queues == <<buffers, endedBuffers, inputs>>
work == <<current, todo, written>>
history == <<accepted, due>>
vars == <<pc, locks, flags, items, queues, work, history>>

ErrorItem == <<Feeder, 1>>   \* the "data error" notification of the feeder

Init ==
    /\ pc = [t \in Threads |-> IF t = Feeder THEN "check" ELSE "idle"]
    /\ sets = Nobody /\ mut = Nobody
    /\ eof = FALSE /\ failed = FALSE /\ channel = "open"
    /\ registered = Notifiers
    /\ count = [w \in Writers |-> 0]
    /\ master = {} /\ ended = {}
    /\ buffers = {} /\ endedBuffers = << >> /\ inputs = << >>
    /\ current = << >> /\ todo = [c \in Clearers |-> {}] /\ written = << >>
    /\ accepted = {} /\ due = {}

Goto(t, from, to) == pc[t] = from /\ pc' = [pc EXCEPT ![t] = to]

LockSets(t) == sets = Nobody /\ sets' = t
LockMutex(t) == mut = Nobody /\ mut' = t

(* End holds the buffer's master_mutex through the call of Output::Ended.  *)
MasterHeld(w) == pc[w] \in {"endSets", "endMutex", "endQueue"}

(***************************************************************************)
(* A message: Writable, the Writes, End.                                   *)
(***************************************************************************)
(* What a thread does to an Output that was deleted is not modelled.       *)
Exists == pc[Destroyer] # "gone"

(* A Direct writer has a pointer to the Output and nothing tells it that   *)
(* the Output is being deleted; a notifier writes while the Output is in   *)
(* its collection.                                                         *)
MayWrite(w) == /\ pc[w] = "idle" /\ count[w] < MaxItems
               /\ IF w \in Direct THEN Exists ELSE w \in registered

(* Writable: an OutputItemDiscarder when nothing can be written any more,  *)
(* else a new OutputItemBuffer.                                            *)
Writable(w) ==
    /\ MayWrite(w)
    /\ count' = [count EXCEPT ![w] = @ + 1]
    /\ IF channel = "failed" \/ eof
       THEN UNCHANGED <<pc, master, ended>>
       ELSE /\ Goto(w, "idle", "insert")
            /\ master' = master \cup {w}
            /\ ended' = ended \ {w}
    /\ UNCHANGED <<locks, flags, queues, work, history>>

InsertLock(w) ==
    /\ Exists
    /\ Goto(w, "insert", "inserting")
    /\ LockMutex(w)
    /\ UNCHANGED <<sets, flags, items, queues, work, history>>

(* end(false) walks over buffers without mutex: whether its loop sees a    *)
(* buffer inserted meanwhile is left open.                                 *)
Insert(w) ==
    /\ Goto(w, "inserting", "open")
    /\ mut' = Nobody
    /\ buffers' = buffers \cup {w}
    /\ todo' \in {todo} \cup
          {[todo EXCEPT ![c] = @ \cup {w}] : c \in {d \in Clearers : pc[d] = "orphanUnlocked"}}
    /\ UNCHANGED <<sets, flags, items, endedBuffers, inputs, current, written, history>>

(* OutputItemBuffer::End, called by the destructor of OutputItemWriter.    *)
EndCheck(w) ==
    /\ pc[w] = "open"
    /\ IF w \in ended THEN Goto(w, "open", "idle") ELSE Goto(w, "open", "endMaster")
    /\ ended' = ended \cup {w}
    /\ UNCHANGED <<locks, flags, count, master, queues, work, history>>

EndMaster(w) ==
    /\ pc[w] = "endMaster"
    /\ IF w \in master THEN Goto(w, "endMaster", "endSets") ELSE Goto(w, "endMaster", "idle")
    /\ UNCHANGED <<locks, flags, items, queues, work, history>>

(* Output::Ended, with master_mutex held by the caller.                    *)
EndedLockSets(w) ==
    /\ Goto(w, "endSets", "endMutex")
    /\ LockSets(w)
    /\ UNCHANGED <<mut, flags, items, queues, work, history>>

EndedLockMutex(w) ==
    /\ Goto(w, "endMutex", "endQueue")
    /\ LockMutex(w)
    /\ UNCHANGED <<sets, flags, items, queues, work, history>>

Refused == channel # "open" \/ failed \/ eof

(* Mutant of Queued: ended_buffers is filled from the front.               *)
QueuedFirst(w) == <<<<w, count[w]>>>> \o endedBuffers

Queued(w) == Append(endedBuffers, <<w, count[w]>>)

EndedQueue(w) ==
    /\ Goto(w, "endQueue", "idle")
    /\ buffers' = buffers \ {w}
    /\ IF Refused
       THEN UNCHANGED <<endedBuffers, history>>
       ELSE /\ endedBuffers' = Queued(w)
            /\ accepted' = accepted \cup {<<w, count[w]>>}
    /\ sets' = Nobody /\ mut' = Nobody
    /\ UNCHANGED <<flags, items, inputs, work, due>>

(***************************************************************************)
(* A batch of data: Feed checks eof with no mutex, then queues it.         *)
(***************************************************************************)
FeedCheck(w) ==
    /\ w \in Direct /\ MayWrite(w)
    /\ count' = [count EXCEPT ![w] = @ + 1]
    /\ IF eof THEN UNCHANGED pc ELSE Goto(w, "idle", "feed")
    /\ UNCHANGED <<locks, flags, master, ended, queues, work, history>>

FeedPush(w) ==
    /\ Exists
    /\ Goto(w, "feed", "idle")
    /\ sets = Nobody
    /\ inputs' = Append(inputs, <<w, count[w]>>)
    /\ UNCHANGED <<locks, flags, items, buffers, endedBuffers, work, history>>

(***************************************************************************)
(* End from outside: end(true) sets eof, then leaves the collections, each *)
(* once its mutex is free.                                                 *)
(***************************************************************************)
Leave(n) == /\ n \in registered /\ pc[n] = "idle"
            /\ registered' = registered \ {n}

End ==
    /\ ~eof /\ Exists
    /\ Goto(Closer, "idle", "leave")
    /\ eof' = TRUE
    /\ UNCHANGED <<locks, failed, channel, registered, items, queues, work, history>>

(* NoGlobalMessages, for the threads that call it.                         *)
NoGlobalMessages(t) ==
    /\ pc[t] = "leave"
    /\ \E n \in Notifiers : Leave(n)
    /\ UNCHANGED <<pc, locks, eof, failed, channel, items, queues, work, history>>

(* Mutant of LeftTo: end(true) goes on like end(false).                    *)
LeftToOrphan(t) == IF t = Destroyer THEN "join" ELSE "orphanLock"

(* end(true) is over then, end(false) goes on to orphan the buffers.       *)
LeftTo(t) == CASE t = Feeder -> "orphanLock"
               [] t = Closer -> "done"
               [] t = Destroyer -> "join"

(* Mutant of LeftAll: the destructor does not call NoGlobalMessages.       *)
LeftUnlessDeleted(t) == t = Destroyer \/ registered = {}

LeftAll(t) == registered = {}

(* Mutant of SetsEof: the destructor does not call End.                    *)
NoEnd(t) == UNCHANGED eof

SetsEof(t) == IF t = Destroyer THEN eof' = TRUE ELSE UNCHANGED eof

Left(t) ==
    /\ LeftAll(t)
    /\ Goto(t, "leave", LeftTo(t))
    /\ SetsEof(t)
    /\ UNCHANGED <<locks, failed, channel, registered, items, queues, work, history>>

(***************************************************************************)
(* Output::feeder.                                                         *)
(***************************************************************************)
FeederCheck ==
    /\ pc[Feeder] = "check"
    /\ IF channel = "open" THEN Goto(Feeder, "check", "lock")
                           ELSE Goto(Feeder, "check", "close")
    /\ UNCHANGED <<locks, flags, items, queues, work, history>>

(* Mutant of NothingQueued: eof is looked at before the queues.            *)
NothingQueuedOrEof == eof \/ (endedBuffers = << >> /\ inputs = << >>)

NothingQueued == endedBuffers = << >> /\ inputs = << >>

(* One critical section picks a message, else a batch, else finds that     *)
(* nothing more will come, else waits on output_added.                     *)
FeederTake ==
    /\ pc[Feeder] = "lock" /\ sets = Nobody
    /\ \/ /\ endedBuffers # << >>
          /\ current' = Head(endedBuffers)
          /\ endedBuffers' = Tail(endedBuffers)
          /\ Goto(Feeder, "lock", "write")
          /\ UNCHANGED inputs
       \/ /\ endedBuffers = << >> /\ inputs # << >>
          /\ current' = Head(inputs)
          /\ inputs' = Tail(inputs)
          /\ Goto(Feeder, "lock", "writeBatch")
          /\ UNCHANGED endedBuffers
       \/ /\ NothingQueued
          /\ Goto(Feeder, "lock", IF eof THEN "close" ELSE "wait")
          /\ UNCHANGED <<current, endedBuffers, inputs>>
    /\ UNCHANGED <<locks, flags, items, buffers, todo, written, history>>

(* Mutant of FeederWake: the wait has no time limit and only End notifies.  *)
FeederWakeAtEof ==
    /\ eof
    /\ Goto(Feeder, "wait", "check")
    /\ sets = Nobody
    /\ UNCHANGED <<locks, flags, items, queues, work, history>>

(* The wait ends by notify_one or after a second, so at any time; it       *)
(* retakes the mutex and releases it.                                      *)
FeederWake ==
    /\ Goto(Feeder, "wait", "check")
    /\ sets = Nobody
    /\ UNCHANGED <<locks, flags, items, queues, work, history>>

FeederWrite ==
    /\ \/ Goto(Feeder, "write", "check")
       \/ Goto(Feeder, "writeBatch", "check")
    /\ written' = Append(written, current)
    /\ current' = << >>
    /\ UNCHANGED <<locks, flags, items, queues, todo, history>>

(* feed_data throws when the channel failed.                               *)
WriteFails ==
    /\ "write" \in Failures
    /\ \/ Goto(Feeder, "write", "failed")
       \/ Goto(Feeder, "writeBatch", "failed")
    /\ channel' = "failed"
    /\ current' = << >>
    /\ UNCHANGED <<locks, eof, failed, registered, items, queues, todo, written, history>>

(* feed_key_value tells the data-notified Outputs of a read error, this    *)
(* one included, and throws.                                               *)
ReadFails ==
    /\ "read" \in Failures
    /\ Goto(Feeder, "writeBatch", "failed")
    /\ pc[DataNotifier] = "idle" /\ sets = Nobody /\ mut = Nobody
    /\ IF DataNotifier \in registered /\ ~Refused
       THEN endedBuffers' = Append(endedBuffers, ErrorItem)
       ELSE UNCHANGED endedBuffers
    /\ current' = << >>
    /\ UNCHANGED <<locks, flags, items, buffers, inputs, todo, written, history>>

(* The catch block: failed, then end(false), which returns when eof is set *)
(* and otherwise goes on to orphan the buffers.                            *)
Catch ==
    /\ pc[Feeder] = "failed"
    /\ failed' = TRUE /\ eof' = TRUE
    /\ Goto(Feeder, "failed", IF eof THEN "close" ELSE "leave")
    /\ UNCHANGED <<locks, channel, registered, items, queues, work, history>>

(* end(false) holds input_sets_mutex alone around orphan_buffers.          *)
OrphanLock ==
    /\ Goto(Feeder, "orphanLock", "orphanUnlocked")
    /\ LockSets(Feeder)
    /\ todo' = [todo EXCEPT ![Feeder] = buffers]
    /\ UNCHANGED <<mut, flags, items, queues, current, written, history>>

FeederClose ==
    /\ Goto(Feeder, "close", "clear")
    /\ channel' = "closed"
    /\ UNCHANGED <<locks, eof, failed, registered, items, queues, work, history>>

(***************************************************************************)
(* orphan_buffers and clear_buffers, run by the feeder when it ends and by *)
(* the destructor.                                                         *)
(***************************************************************************)
ClearLockSets(c) ==
    /\ Goto(c, "clear", "clearMutex")
    /\ LockSets(c)
    /\ UNCHANGED <<mut, flags, items, queues, work, history>>

(* Mutant of ClearLockMutex: clear_buffers locks one mutex only.           *)
ClearWithoutMutex(c) ==
    /\ Goto(c, "clearMutex", "orphan")
    /\ todo' = [todo EXCEPT ![c] = buffers]
    /\ UNCHANGED <<locks, flags, items, queues, current, written, history>>

ClearLockMutex(c) ==
    /\ Goto(c, "clearMutex", "orphan")
    /\ LockMutex(c)
    /\ todo' = [todo EXCEPT ![c] = buffers]
    /\ UNCHANGED <<sets, flags, items, queues, current, written, history>>

(* OutputItemBuffer::Orphan takes the buffer's master_mutex.               *)
Orphan(c, w) ==
    /\ pc[c] \in {"orphan", "orphanUnlocked"}
    /\ w \in todo[c] /\ ~MasterHeld(w)
    /\ todo' = [todo EXCEPT ![c] = @ \ {w}]
    /\ master' = master \ {w}
    /\ ended' = ended \cup {w}
    /\ UNCHANGED <<pc, locks, flags, count, queues, current, written, history>>

OrphanedUnlocked ==
    /\ todo[Feeder] = {}
    /\ Goto(Feeder, "orphanUnlocked", "close")
    /\ buffers' = {}
    /\ sets' = Nobody
    /\ UNCHANGED <<mut, flags, items, endedBuffers, inputs, work, history>>

Cleared(c) ==
    /\ todo[c] = {}
    /\ Goto(c, "orphan", IF c = Feeder THEN "done" ELSE "gone")
    /\ buffers' = {} /\ endedBuffers' = << >> /\ inputs' = << >>
    /\ sets' = Nobody /\ mut' = Nobody
    /\ UNCHANGED <<flags, items, work, history>>

(***************************************************************************)
(* The destructor: NoGlobalMessages, End, join of the feeder, Close,       *)
(* clear_buffers.  It waits for notifiers and for the feeder only, neither *)
(* for Direct writers nor for the closer.                                  *)
(***************************************************************************)
(* The messages and batches whose End or Feed has returned.                *)
Issued == UNION {{w} \X {n \in 1 .. count[w] : pc[w] = "idle" \/ n < count[w]} :
                     w \in Direct}

Destroy ==
    /\ Goto(Destroyer, "idle", "leave")
    /\ due' = IF eof THEN {} ELSE Issued
    /\ UNCHANGED <<locks, flags, items, queues, work, accepted>>

Join ==
    /\ pc[Feeder] = "done"
    /\ Goto(Destroyer, "join", "clear")
    /\ channel' = "closed"
    /\ UNCHANGED <<locks, eof, failed, registered, items, queues, work, history>>

Gone == pc[Destroyer] = "gone" /\ UNCHANGED vars

WriterStep(w) ==
    \/ Writable(w) \/ InsertLock(w) \/ Insert(w)
    \/ EndCheck(w) \/ EndMaster(w)
    \/ EndedLockSets(w) \/ EndedLockMutex(w) \/ EndedQueue(w)
    \/ FeedCheck(w) \/ FeedPush(w)

ClearStep(c) ==
    \/ NoGlobalMessages(c) \/ Left(c)
    \/ ClearLockSets(c) \/ ClearLockMutex(c) \/ Cleared(c)
    \/ \E w \in Writers : Orphan(c, w)

FeederStep ==
    \/ FeederCheck \/ FeederTake \/ FeederWake \/ FeederWrite
    \/ WriteFails \/ ReadFails \/ Catch
    \/ OrphanLock \/ OrphanedUnlocked \/ FeederClose
    \/ ClearStep(Feeder)

CloserStep == End \/ NoGlobalMessages(Closer) \/ Left(Closer)

DestroyerStep == Destroy \/ Join \/ ClearStep(Destroyer)

Next ==
    \/ \E w \in Writers : WriterStep(w)
    \/ FeederStep \/ CloserStep \/ DestroyerStep
    \/ Gone

Spec == Init /\ [][Next]_vars

(* A thread whose next step stays possible takes it.  Nobody has to start  *)
(* a message or a batch, call End or delete the Output.                    *)
Fairness ==
    /\ \A w \in Writers :
        WF_vars(InsertLock(w) \/ Insert(w) \/ EndCheck(w) \/ EndMaster(w) \/ FeedPush(w)
                \/ EndedLockSets(w) \/ EndedLockMutex(w) \/ EndedQueue(w))
    /\ WF_vars(FeederStep)
    /\ WF_vars(NoGlobalMessages(Closer) \/ Left(Closer))
    /\ WF_vars(Join \/ ClearStep(Destroyer))

FairSpec == Spec /\ Fairness

----------------------------------------------------------------------------
Items == (Writers \cup {Feeder}) \X (1 .. MaxItems + 1)

WriterPlaces == {"idle", "insert", "inserting", "open", "endMaster", "endSets",
                 "endMutex", "endQueue", "feed"}
FeederPlaces == {"check", "lock", "wait", "write", "writeBatch", "failed", "leave",
                 "orphanLock", "orphanUnlocked", "close", "clear", "clearMutex",
                 "orphan", "done"}
DestroyerPlaces == {"idle", "leave", "join", "clear", "clearMutex", "orphan", "gone"}

PlacesOK ==
    /\ pc \in [Threads -> WriterPlaces \cup FeederPlaces \cup DestroyerPlaces]
    /\ \A w \in Writers : pc[w] \in WriterPlaces
    /\ pc[Feeder] \in FeederPlaces /\ pc[Destroyer] \in DestroyerPlaces
    /\ pc[Closer] \in {"idle", "leave", "done"}

FlagsOK ==
    /\ sets \in Threads \cup {Nobody} /\ mut \in Threads \cup {Nobody}
    /\ eof \in BOOLEAN /\ failed \in BOOLEAN
    /\ channel \in {"open", "failed", "closed"}
    /\ registered \subseteq Notifiers

BuffersOK ==
    /\ count \in [Writers -> 0 .. MaxItems]
    /\ master \subseteq Writers /\ ended \subseteq Writers /\ buffers \subseteq Writers
    /\ todo \in [Clearers -> SUBSET Writers]

QueuesOK ==
    /\ endedBuffers \in Seq(Items) /\ inputs \in Seq(Items)
    /\ current \in Items \cup {<< >>}
    /\ written \in Seq(Items)
    /\ accepted \subseteq Items /\ due \subseteq Items

(* Every variable has the shape the code gives it.                         *)
TypeOK == PlacesOK /\ FlagsOK /\ BuffersOK /\ QueuesOK

SeqSet(s) == {s[i] : i \in DOMAIN s}

(* A message End queued is not lost between the queue, the feeder and the  *)
(* channel, whatever End, the destructor and other writers do meanwhile,   *)
(* unless writing or reading failed.                                       *)
AcceptedMessagesSurvive ==
    (~failed /\ pc[Feeder] # "failed") =>
        accepted \subseteq SeqSet(endedBuffers) \cup {current} \cup SeqSet(written)

(* What one thread writes comes out in the order it wrote it, once: items  *)
(* of one writer and one kind are never swapped or repeated.               *)
WrittenInOrder ==
    \A i, j \in DOMAIN written :
        (i < j /\ written[i][1] = written[j][1]
               /\ (written[i] \in accepted <=> written[j] \in accepted)) =>
            written[i][2] < written[j][2]

(* Unless writing or reading failed or End was called before, all that was *)
(* written and fed to the Output when its deletion began has gone out when *)
(* it is over, although Finished, which the main loop waits for, says      *)
(* nothing of the batches nor of the message the feeder holds, and other   *)
(* threads may still write.                                                *)
NothingIssuedIsLost ==
    (pc[Destroyer] = "gone" /\ ~failed) => due \subseteq SeqSet(written)

(* A thread that is about to touch the Output: it fills or ends a message  *)
(* whose buffer points to the Output, or feeds.                            *)
Uses(w) == \/ pc[w] \in {"insert", "inserting", "endSets", "endMutex", "endQueue", "feed"}
           \/ pc[w] \in {"open", "endMaster"} /\ w \in master

(* No notification is in progress when the Output is deleted, and no other *)
(* message points to it: the destructor leaves the collections first,      *)
(* which waits for notifiers, and clear_buffers takes the pointer away     *)
(* from the messages of all others.  It does not wait for a Direct writer  *)
(* inside Writable, before its buffer is in buffers, nor inside Feed:      *)
(* those two go on with what is deleted, and so may a message whose buffer *)
(* was inserted while end(false), after a failure, emptied buffers without *)
(* mutex.                                                                  *)
NoUseAfterDelete ==
    ~Exists => \A w \in Writers : Uses(w) =>
        w \in Direct /\ (failed \/ pc[w] \in {"insert", "feed"})

(* The sections guarded by input_sets_mutex and by mutex.                  *)
InSets(t) == pc[t] \in {"endMutex", "endQueue", "orphanUnlocked", "clearMutex", "orphan"}
InMutex(t) == pc[t] \in {"inserting", "endQueue", "orphan"}

(* No two threads are in sections of one mutex, although clear_buffers,     *)
(* Ended, Writable and end(false) take different sets of them.             *)
MutualExclusion ==
    \A t, u \in Threads : t # u => /\ ~(InSets(t) /\ InSets(u))
                                  /\ ~(InMutex(t) /\ InMutex(u))

(* Threads wait in a circle: a clearer holds input_sets_mutex and wants    *)
(* the master_mutex of a writer that wants input_sets_mutex.               *)
NoLockCycle ==
    ~ \E c \in Clearers, w \in Writers :
        /\ sets = c /\ w \in todo[c]
        /\ pc[w] = "endSets"

(* "Lock as needed": nobody walks over buffers while a thread inserts.     *)
BuffersGuarded ==
    \A w \in Writers : pc[w] = "inserting" => pc[Feeder] # "orphanUnlocked"

(* Output::Finished, which locks both mutexes.                             *)
Finished == buffers = {} /\ endedBuffers = << >>

(* "True when there is no expected output anywhere at the moment."         *)
FinishedMeansNoOutputExpected ==
    (Finished /\ sets = Nobody /\ mut = Nobody /\ ~Refused) =>
        inputs = << >> /\ current = << >>

(* Every queued message is written, or the Output fails: again and again   *)
(* nothing queued is left, however the writers go on.                      *)
MessagesGetOut == []<>(accepted \subseteq SeqSet(written) \/ failed)

(* The destructor, which waits for notifications in progress and then for  *)
(* the feeder to write all there is, comes to its end, but for threads     *)
(* that wait in a circle (NoLockCycle, which the code violates).           *)
DestructorReturns ==
    pc[Destroyer] = "leave" ~> (pc[Destroyer] = "gone" \/ ~NoLockCycle)
============================================================================
