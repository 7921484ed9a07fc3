--------------------------- MODULE ProcessesProofs ---------------------------
(***************************************************************************)
(* What holds of Processes for any identifiers, commands and bounds: the   *)
(* theorems about Processes and their proofs.                              *)
(***************************************************************************)
EXTENDS Processes, SequenceTheorems, TLAPS

(***************************************************************************)
(* Types, first of what commands change, then of what runners do, and last *)
(* of the mutex, which an actor holds while its command or its place says  *)
(* so.                                                                     *)
(***************************************************************************)
Executed == {Nothing} \cup [op : {"run", "end-feed", "terminate"}, id : Ids] \cup
            [op : {"feed"}, at : Objects]

LEMMA ReplyType ==
  ASSUME NEW a \in Actors, Reply(a), command \in [Actors -> Executed]
  PROVE  command' \in [Actors -> Executed]
  BY DEF Reply, Executed

LEMMA CommandType ==
  ASSUME NEW a \in Actors, NEW p \in Ids, NEW name \in {"run", "end-feed", "terminate"},
         command \in [Actors -> Executed], command' = [command EXCEPT ![a] = [op |-> name, id |-> p]]
  PROVE  command' \in [Actors -> Executed]
  <1>1. [op |-> name, id |-> p] \in Executed
    BY DEF Executed
  <1>2. QED
    BY <1>1

CommandsType ==
    /\ processes \subseteq Ids /\ toDelete \in Seq(Ids)
    /\ command \in [Actors -> Executed]
    /\ use \in [Ids -> 0 .. MaxUses]
    /\ launcher \in [Ids -> Actors \X (0 .. MaxUses)] /\ asked \in [Ids -> BOOLEAN]
    /\ dones \in [Objects -> Nat]
    /\ \A p \in processes : use[p] > 0

RunnersType ==
    /\ runner \in [Ids -> RunnerPlaces]
    /\ running \in [Ids -> BOOLEAN] /\ pid \in [Ids -> BOOLEAN]
    /\ toChild \in [Ids -> {"null", "open", "eof", "freed"}]
    /\ child \in [Ids -> {"none", "alive", "zombie", "reaped"}]
    /\ outputs \in [Ids -> BOOLEAN]
    /\ hears \subseteq Ids
    /\ listed \in [Ids -> SUBSET Ids] /\ believes \in [Ids -> SUBSET Ids]
    /\ scanner \in BOOLEAN /\ main \in {"loop", "exited", "failed"}

Locking == lock \in {Free} \cup {p \in Ids : runner[p] = "list"} \cup
                    {a \in Actors : command[a].op \in {"end-feed", "terminate"}}

LEMMA CommandsTypeNext ==
  ASSUME CommandsType, [Next]_vars PROVE CommandsType'
  <1> USE ConstantsAssumption DEF CommandsType
  <1>1. ASSUME NEW a \in Actors, RunRefused(a) \/ FeedUse(a) PROVE CommandsType'
    BY <1>1, ReplyType DEF RunRefused, FeedUse, shared, object
  <1>2. ASSUME NEW a \in Actors, NEW p \in Ids, RunCheck(a, p) \/ RunInUse(a, p)
        PROVE  CommandsType'
    BY <1>2, ReplyType, CommandType DEF RunCheck, RunInUse, shared, object
  <1>3. ASSUME NEW a \in Actors, NEW p \in Ids, RunStart(a, p) PROVE CommandsType'
    <2>1. asked' \in [Ids -> BOOLEAN]
      BY <1>3 DEF RunStart
    <2>2. launcher' \in [Ids -> Actors \X (0 .. MaxUses)]
      BY <1>3 DEF RunStart, IdIsFree, Actors
    <2>3. /\ use' \in [Ids -> 0 .. MaxUses] /\ processes' \subseteq Ids
          /\ \A q \in processes' : use'[q] > 0
      BY <1>3 DEF RunStart, IdIsFree
    <2>4. QED
      BY <1>3, <2>1, <2>2, <2>3, ReplyType DEF RunStart
  <1>4. ASSUME NEW a \in Actors, NEW p \in Ids, RunThreadFails(a, p) PROVE CommandsType'
    <2>1. toDelete' \in Seq(Ids)
      BY <1>4, AppendProperties DEF RunThreadFails
    <2>2. dones' \in [Objects -> Nat]
      <3>1. <<p, use[p] + 1>> \in Objects
        BY <1>4 DEF RunThreadFails, IdIsFree, Objects
      <3>2. QED
        BY <1>4, <3>1 DEF RunThreadFails
    <2>3. use' \in [Ids -> 0 .. MaxUses] /\ \A q \in processes : use'[q] > 0
      BY <1>4 DEF RunThreadFails, IdIsFree
    <2>4. launcher' \in [Ids -> Actors \X (0 .. MaxUses)]
      BY <1>4 DEF RunThreadFails, Actors
    <2>5. QED
      BY <1>4, <2>1, <2>2, <2>3, <2>4, ReplyType DEF RunThreadFails
  <1>5. ASSUME NEW a \in Actors, NEW p \in Ids, FeedFind(a, p) PROVE CommandsType'
    <2>1. p \in processes => [op |-> "feed", at |-> <<p, use[p]>>] \in Executed
      BY DEF Objects, Executed
    <2>2. command' \in [Actors -> Executed]
      BY <1>5, <2>1, ReplyType DEF FeedFind, Object
    <2>3. QED
      BY <1>5, <2>2 DEF FeedFind, shared, object
  <1>6. ASSUME NEW a \in Actors, NEW p \in Ids, EndFeedFind(a, p) \/ TerminateFind(a, p)
        PROVE  CommandsType'
    BY <1>6, ReplyType, CommandType DEF EndFeedFind, TerminateFind, object
  <1>7. ASSUME NEW a \in Actors, NEW p \in Ids, EndFeedUse(a, p) \/ TerminateKill(a, p)
        PROVE  CommandsType'
    BY <1>7, ReplyType DEF EndFeedUse, TerminateKill, object
  <1>8. ASSUME NEW p \in Ids, RunnerStep(p) PROVE CommandsType'
    <2>1. UNCHANGED <<processes, command, object, dones>>
      BY <1>8 DEF RunnerStep, Begin, Spawn, SpawnFails, Announce, List, Tell, NotifyStart, Reap,
                  ScanEnds, Stop, FreeOutput, Finish, HasFinished, shared
    <2>2. toDelete' \in {toDelete, Append(toDelete, p)}
      BY <1>8 DEF RunnerStep, Begin, Spawn, SpawnFails, Announce, List, Tell, NotifyStart, Reap,
                  ScanEnds, Stop, FreeOutput, Finish, HasFinished, shared
    <2>3. toDelete' \in Seq(Ids)
      <3>1. toDelete \in Seq(Ids)
        OBVIOUS
      <3>2. Append(toDelete, p) \in Seq(Ids)
        BY <3>1, AppendProperties
      <3>3. QED
        BY <2>2, <3>1, <3>2
    <2>4. QED
      BY <2>1, <2>3 DEF object
  <1>9. ASSUME CleanFinished PROVE CommandsType'
    <2>1. toDelete' \in Seq(Ids)
      BY <1>9, SubSeqProperties DEF CleanFinished
    <2>2. Last(toDelete) \in processes /\ processes' \subseteq processes
      BY <1>9 DEF CleanFinished
    <2>3. Object(Last(toDelete)) \in Objects
      BY <2>2 DEF Object, Objects
    <2>4. dones' \in [Objects -> Nat]
      BY <1>9, <2>3 DEF CleanFinished
    <2>5. QED
      BY <1>9, <2>1, <2>2, <2>4 DEF CleanFinished, object
  <1>10. QED
    BY <1>1, <1>2, <1>3, <1>4, <1>5, <1>6, <1>7, <1>8, <1>9
    DEF Next, NewCommand, CommandStep, CleanFails, MainExits, ControllerCloses, ChildEnds,
        OutputFails, OutputsEnd, Exited, vars, shared, object

LEMMA RunnersTypeNext ==
  ASSUME CommandsType, RunnersType, [Next]_vars PROVE RunnersType'
  <1> USE DEF RunnersType, RunnerPlaces
  <1>1. ASSUME NEW a \in Actors, NEW p \in Ids, RunStart(a, p) PROVE RunnersType'
    BY <1>1 DEF RunStart, os, notes
  <1>2. ASSUME NEW a \in Actors, NEW p \in Ids, EndFeedUse(a, p) PROVE RunnersType'
    BY <1>2 DEF EndFeedUse, EndIfOpen, EndOutput, os
  <1>3. ASSUME NEW p \in Ids,
               Begin(p) \/ Announce(p) \/ Finish(p) \/ FreeOutput(p) \/ HasFinished(p)
        PROVE  RunnersType'
    BY <1>3 DEF Begin, Announce, Finish, FreeOutput, HasFinished, Step, os, notes
  <1>4. ASSUME NEW p \in Ids, Spawn(p) \/ SpawnFails(p) PROVE RunnersType'
    <2>1. ASSUME MakeOutput(p)
          PROVE  /\ toChild' \in [Ids -> {"null", "open", "eof", "freed"}]
                 /\ hears' \subseteq Ids
      <3>1. PICK state \in {"open", "eof"} : toChild' = [toChild EXCEPT ![p] = state]
        BY <2>1 DEF MakeOutput
      <3>2. toChild' \in [Ids -> {"null", "open", "eof", "freed"}]
        BY <3>1
      <3>3. hears' \subseteq Ids
        BY <2>1 DEF MakeOutput
      <3>4. QED
        BY <3>2, <3>3
    <2>2. CASE Spawn(p)
      BY <2>1, <2>2 DEF Spawn, Step
    <2>3. CASE SpawnFails(p)
      BY <2>1, <2>3 DEF SpawnFails, Step, os
    <2>4. QED
      BY <1>4, <2>2, <2>3
  <1>5. ASSUME NEW p \in Ids, List(p) PROVE RunnersType'
    BY <1>5 DEF List, Step, os, CommandsType
  <1>6. ASSUME NEW p \in Ids, Tell(p) \/ NotifyStart(p) \/ ScanEnds(p) PROVE RunnersType'
    <2>1. CASE Tell(p)
      BY <2>1 DEF Tell, Step, os
    <2>2. CASE NotifyStart(p)
      BY <2>2 DEF NotifyStart, Step, os
    <2>3. CASE ScanEnds(p)
      BY <2>3 DEF ScanEnds, Step, os
    <2>4. QED
      BY <1>6, <2>1, <2>2, <2>3
  <1>7. ASSUME NEW p \in Ids, Reap(p) \/ Stop(p) PROVE RunnersType'
    <2>1. CASE Reap(p)
      BY <2>1 DEF Reap, thread
    <2>2. CASE Stop(p)
      BY <2>2 DEF Stop, Step, os
    <2>3. QED
      BY <1>7, <2>1, <2>2
  <1>8. CASE CleanFinished
    BY <1>8 DEF CleanFinished, CommandsType, notes
  <1>9. CASE CleanFails \/ MainExits \/ ControllerCloses
    BY <1>9 DEF CleanFails, MainExits, ControllerCloses, thread, os, notes
  <1>10. ASSUME NEW p \in Ids, ChildEnds(p) \/ OutputsEnd(p) PROVE RunnersType'
    BY <1>10 DEF ChildEnds, OutputsEnd, thread, notes
  <1>16. ASSUME NEW p \in Ids, OutputFails(p) PROVE RunnersType'
    BY <1>16 DEF OutputFails, EndOutput, os
  <1>11. ASSUME UNCHANGED <<thread, os, notes, scanner, main>> PROVE RunnersType'
    BY <1>11 DEF thread, os, notes
  <1>12. ASSUME NEW a \in Actors, NEW p \in Ids,
                RunCheck(a, p) \/ RunInUse(a, p) \/ RunThreadFails(a, p) \/ FeedFind(a, p)
                \/ EndFeedFind(a, p) \/ TerminateFind(a, p) \/ TerminateKill(a, p)
         PROVE  RunnersType'
    BY <1>11, <1>12 DEF RunCheck, RunInUse, RunThreadFails, FeedFind, EndFeedFind,
                        TerminateFind, TerminateKill
  <1>13. ASSUME NEW a \in Actors, RunRefused(a) \/ FeedUse(a) PROVE RunnersType'
    BY <1>11, <1>13 DEF RunRefused, FeedUse
  <1>14. ASSUME UNCHANGED vars PROVE RunnersType'
    BY <1>11, <1>14 DEF vars
  <1>15. QED
    BY <1>1, <1>2, <1>3, <1>4, <1>5, <1>6, <1>7, <1>8, <1>9, <1>10, <1>12, <1>13, <1>14, <1>16
    DEF Next, NewCommand, CommandStep, RunnerStep, Exited

(* What leaves the mutex with its holder, or free.                         *)
LEMMA LockKept ==
  ASSUME CommandsType, RunnersType, Locking,
         \/ lock' = Free
         \/ lock' = lock /\ UNCHANGED <<command, runner>>
         \/ /\ lock' = lock /\ UNCHANGED runner
            /\ \E a \in Actors : /\ command[a].op \notin {"end-feed", "terminate"}
                                 /\ \A b \in Actors \ {a} : command'[b] = command[b]
         \/ /\ lock' = lock /\ UNCHANGED command
            /\ \E p \in Ids : /\ runner[p] # "list"
                              /\ \A q \in Ids \ {p} : runner'[q] = runner[q]
  PROVE  Locking'
  BY DEF Locking

LEMMA LockingNext ==
  ASSUME CommandsType, RunnersType, Locking, [Next]_vars PROVE Locking'
  <1>1. ASSUME NEW a \in Actors, NEW p \in Ids,
               RunCheck(a, p) \/ RunStart(a, p) \/ RunInUse(a, p) \/ RunThreadFails(a, p)
               \/ FeedFind(a, p) \/ EndFeedUse(a, p) \/ TerminateKill(a, p)
        PROVE  Locking'
    BY <1>1, LockKept
    DEF RunCheck, RunStart, RunInUse, RunThreadFails, FeedFind, EndFeedUse, TerminateKill, shared
  <1>2. ASSUME NEW a \in Actors, RunRefused(a) \/ FeedUse(a) PROVE Locking'
    <2>1. /\ command[a].op \notin {"end-feed", "terminate"} /\ lock' = lock /\ UNCHANGED runner
          /\ \A b \in Actors \ {a} : command'[b] = command[b]
      BY <1>2 DEF RunRefused, FeedUse, Reply, CommandsType, shared, thread
    <2>2. QED
      BY <2>1, LockKept
  <1>3. ASSUME NEW a \in Actors, NEW p \in Ids, EndFeedFind(a, p) \/ TerminateFind(a, p)
        PROVE  Locking'
    <2>1. CASE lock' = Free
      BY <2>1, LockKept
    <2>2. CASE lock' = a /\ command'[a].op \in {"end-feed", "terminate"}
      BY <2>2 DEF Locking
    <2>3. QED
      BY <1>3, <2>1, <2>2 DEF EndFeedFind, TerminateFind, CommandsType
  <1>4. ASSUME NEW p \in Ids, Announce(p) PROVE Locking'
    <2>1. CASE asked[p]
      BY <1>4, <2>1 DEF Announce, Step, Locking, RunnersType
    <2>2. CASE ~asked[p]
      <3>1. /\ lock' = lock /\ UNCHANGED command /\ runner[p] # "list"
            /\ \A q \in Ids \ {p} : runner'[q] = runner[q]
        BY <1>4, <2>2 DEF Announce, Step, RunnersType
      <3>2. QED
        BY <3>1, LockKept
    <2>3. QED
      BY <2>1, <2>2
  <1>5. ASSUME NEW p \in Ids, List(p) PROVE Locking'
    BY <1>5, LockKept DEF List
  <1>6. ASSUME NEW p \in Ids, RunnerStep(p), ~Announce(p), ~List(p) PROVE Locking'
    <2>1. lock' = lock /\ UNCHANGED command
      BY <1>6 DEF RunnerStep, Begin, Spawn, SpawnFails, Tell, NotifyStart, Reap,
                  ScanEnds, Stop, FreeOutput, Finish, HasFinished, shared
    <2>2. runner[p] # "list" /\ \A q \in Ids \ {p} : runner'[q] = runner[q]
      BY <1>6 DEF RunnerStep, Begin, Spawn, SpawnFails, Tell, NotifyStart, Reap,
                  ScanEnds, Stop, FreeOutput, Finish, HasFinished, Step, thread, RunnersType
    <2>3. QED
      BY <2>1, <2>2, LockKept
  <1>7. CASE CleanFinished
    BY <1>7, LockKept DEF CleanFinished
  <1>8. CASE UNCHANGED <<lock, command, runner>>
    BY <1>8, LockKept
  <1>9. QED
    BY <1>1, <1>2, <1>3, <1>4, <1>5, <1>6, <1>7, <1>8
    DEF Next, NewCommand, CommandStep, CleanFails, MainExits, ControllerCloses, ChildEnds,
        OutputFails, OutputsEnd, Exited, vars, shared, thread

TypeInv == CommandsType /\ RunnersType /\ Locking

LEMMA TypeInit == Init => TypeInv
  BY ConstantsAssumption
  DEF Init, TypeInv, CommandsType, RunnersType, RunnerPlaces, Locking, Executed, Actors, Objects

LEMMA TypeNext == TypeInv /\ [Next]_vars => TypeInv'
  BY CommandsTypeNext, RunnersTypeNext, LockingNext DEF TypeInv

(* Every variable has the shape the code gives it, whatever the bounds.    *)
THEOREM TypeCorrect == Spec => []TypeOK
  <1>1. TypeInv => TypeOK
    BY DEF TypeInv, CommandsType, RunnersType, Locking, Executed, TypeOK
  <1>2. QED
    BY TypeInit, TypeNext, <1>1, PTL DEF Spec

(***************************************************************************)
(* Threads and children.  NoOrphans is inductive with the types.  Phases   *)
(* adds where the child cannot be yet, where running is set, and that a    *)
(* child's commands are executed while its output is scanned.              *)
(***************************************************************************)
LEMMA NoOrphansNext ==
  ASSUME TypeInv, NoOrphans, [Next]_vars PROVE NoOrphans'
  <1> USE DEF TypeInv, CommandsType, RunnersType, NoOrphans
  <1>1. ASSUME NEW a \in Actors, NEW p \in Ids, RunStart(a, p) PROVE NoOrphans'
    BY <1>1 DEF RunStart, IdIsFree, os
  <1>2. ASSUME NEW p \in Ids, RunnerStep(p) PROVE NoOrphans'
    <2>1. CASE Begin(p) \/ SpawnFails(p)
      BY <2>1 DEF Begin, SpawnFails, Step, shared, os
    <2>2. CASE Stop(p) \/ FreeOutput(p)
      BY <2>2 DEF Stop, FreeOutput, Step, shared, os
    <2>3. CASE Finish(p) \/ HasFinished(p)
      BY <2>3 DEF Finish, HasFinished, Step, shared, os
    <2>4. CASE Announce(p) \/ List(p) \/ Tell(p) \/ NotifyStart(p)
      BY <2>4, ZenonT(60) DEF Announce, List, Tell, NotifyStart, Step, shared, os
    <2>5. CASE Spawn(p)
      BY <2>5 DEF Spawn, Step, shared
    <2>6. CASE Reap(p)
      BY <2>6 DEF Reap, shared, thread
    <2>7. CASE ScanEnds(p)
      BY <2>7 DEF ScanEnds, ChildOver, Step, shared, os
    <2>8. QED
      BY <1>2, <2>1, <2>4, <2>5, <2>6, <2>7, <2>2, <2>3 DEF RunnerStep
  <1>3. CASE CleanFinished
    BY <1>3 DEF CleanFinished
  <1>4. ASSUME NEW p \in Ids, ChildEnds(p) PROVE NoOrphans'
    BY <1>4 DEF ChildEnds, shared, thread
  <1>5. CASE UNCHANGED <<processes, runner, child>>
    BY <1>5
  <1>6. ASSUME NEW a \in Actors, NEW p \in Ids,
               RunCheck(a, p) \/ RunInUse(a, p) \/ RunThreadFails(a, p) \/ FeedFind(a, p)
               \/ EndFeedFind(a, p) \/ EndFeedUse(a, p) \/ TerminateFind(a, p)
               \/ TerminateKill(a, p)
        PROVE  UNCHANGED <<processes, runner, child>>
    BY <1>6 DEF RunCheck, RunInUse, RunThreadFails, FeedFind, EndFeedFind, EndFeedUse,
                TerminateFind, TerminateKill, shared, thread, os
  <1>7. QED
    BY <1>1, <1>2, <1>3, <1>4, <1>5, <1>6
    DEF Next, NewCommand, CommandStep, RunRefused, FeedUse, CleanFails, MainExits,
        ControllerCloses, OutputFails, OutputsEnd, Exited, vars, shared, thread, os

Phases ==
    \A p \in Ids :
        /\ runner[p] \in {"none", "begin", "setup"} => child[p] = "none"
        /\ runner[p] \in {"setup", "announce", "list", "tell", "start", "scan", "stop"} =>
                running[p]
        /\ command[p] # Nothing => runner[p] = "scan"

LEMMA PhasesNext ==
  ASSUME TypeInv, NoOrphans, Phases, [Next]_vars PROVE Phases'
  <1> USE ConstantsAssumption DEF TypeInv, CommandsType, RunnersType, Phases, Actors
  <1>1. ASSUME NEW a \in Actors, NEW p \in Ids, RunStart(a, p) PROVE Phases'
    BY <1>1 DEF RunStart, IdIsFree, NoOrphans, Reply, os
  <1>2. ASSUME NEW p \in Ids, RunnerStep(p) PROVE Phases'
    <2>1. CASE Begin(p) \/ SpawnFails(p)
      BY <2>1 DEF Begin, SpawnFails, Step, os
    <2>2. CASE FreeOutput(p)
      BY <2>2 DEF FreeOutput, Step, os
    <2>3. CASE Finish(p) \/ HasFinished(p)
      <3>1. /\ UNCHANGED <<child, running, command>> /\ runner[p] # "scan"
            /\ runner'[p] \in {"hand over", "over"}
            /\ \A q \in Ids \ {p} : runner'[q] = runner[q]
        BY <2>3 DEF Finish, HasFinished, Step, os
      <3>2. QED
        BY <3>1
    <2>4. CASE Announce(p) \/ List(p) \/ Tell(p) \/ NotifyStart(p)
      BY <2>4 DEF Announce, List, Tell, NotifyStart, Step, os
    <2>5. CASE Spawn(p)
      BY <2>5 DEF Spawn, Step
    <2>6. CASE Reap(p)
      BY <2>6 DEF Reap, thread
    <2>7. CASE ScanEnds(p) \/ Stop(p)
      BY <2>7 DEF ScanEnds, Stop, Step, os
    <2>8. QED
      BY <1>2, <2>1, <2>4, <2>5, <2>6, <2>7, <2>2, <2>3 DEF RunnerStep
  <1>3. CASE CleanFinished
    BY <1>3 DEF CleanFinished
  <1>4. ASSUME NEW p \in Ids, ChildEnds(p) PROVE Phases'
    BY <1>4 DEF ChildEnds, thread
  <1>5. ASSUME NEW a \in Actors, UNCHANGED <<runner, child, running>>,
               command'[a] # Nothing => a = Main \/ runner[a] = "scan",
               \A b \in Actors \ {a} : command'[b] = command[b]
        PROVE  Phases'
    <2>1. ASSUME NEW p \in Ids, command'[p] # Nothing PROVE runner[p] = "scan"
      <3>1. CASE p = a
        BY <1>5, <2>1, <3>1
      <3>2. CASE p # a
        BY <1>5, <2>1, <3>2
      <3>3. QED
        BY <3>1, <3>2
    <2>2. QED
      BY <1>5, <2>1
  <1>6. ASSUME NEW a \in Actors, NEW p \in Ids,
               RunCheck(a, p) \/ RunInUse(a, p) \/ RunThreadFails(a, p) \/ FeedFind(a, p)
               \/ EndFeedFind(a, p) \/ EndFeedUse(a, p) \/ TerminateFind(a, p)
               \/ TerminateKill(a, p)
        PROVE  Phases'
    <2>1. UNCHANGED <<runner, child, running>>
      BY <1>6 DEF RunCheck, RunInUse, RunThreadFails, FeedFind, EndFeedFind, EndFeedUse,
                  TerminateFind, TerminateKill, thread, os
    <2>2. \A b \in Actors \ {a} : command'[b] = command[b]
      BY <1>6 DEF RunCheck, RunInUse, RunThreadFails, FeedFind, EndFeedFind, EndFeedUse,
                  TerminateFind, TerminateKill, Reply
    <2>3. command'[a] # Nothing => a = Main \/ runner[a] = "scan"
      BY <1>6 DEF RunCheck, RunInUse, RunThreadFails, FeedFind, EndFeedFind, EndFeedUse,
                  TerminateFind, TerminateKill, Reply, MayCommand
    <2>4. QED
      BY <1>5, <2>1, <2>2, <2>3
  <1>7. ASSUME NEW a \in Actors, RunRefused(a) \/ FeedUse(a) PROVE Phases'
    BY <1>7 DEF RunRefused, FeedUse, Reply, thread, os
  <1>8. CASE UNCHANGED <<runner, child, running, command>>
    BY <1>8
  <1>9. QED
    BY <1>1, <1>2, <1>3, <1>4, <1>6, <1>7, <1>8
    DEF Next, NewCommand, CommandStep, CleanFails, MainExits,
        ControllerCloses, OutputFails, OutputsEnd, Exited, vars, thread, os

(***************************************************************************)
(* Nothing is left at the exit: the map is empty, so there is no thread,   *)
(* without a thread no command, and nobody is left to start anything.      *)
(***************************************************************************)
Exits == main = "exited" => processes = {} /\ command[Main] = Nothing

LEMMA ExitsNext ==
  ASSUME TypeInv, NoOrphans, Phases, Exits, [Next]_vars PROVE Exits'
  <1> SUFFICES ASSUME main' = "exited" PROVE processes' = {} /\ command'[Main] = Nothing
    BY DEF Exits
  <1> USE ConstantsAssumption DEF TypeInv, CommandsType, Actors
  <1>1. CASE MainExits
    BY <1>1 DEF MainExits, shared
  <1>2. ASSUME ~MainExits PROVE main = "exited"
    BY <1>2, ZenonT(60) DEF Next, NewCommand, CommandStep, RunCheck, RunRefused, RunStart, RunInUse,
       RunThreadFails, FeedFind, FeedUse, EndFeedFind, EndFeedUse, TerminateFind, TerminateKill,
       RunnerStep, Begin, Spawn, SpawnFails, Announce, List, Tell, NotifyStart, Reap, ScanEnds,
       Stop, FreeOutput, Finish, HasFinished, CleanFinished, CleanFails, ControllerCloses,
       ChildEnds, OutputFails, OutputsEnd, Exited, vars
  <1>3. ASSUME main = "exited" PROVE processes' = {} /\ command'[Main] = Nothing
    <2>1. processes = {} /\ \A p \in Ids : runner[p] = "none"
      BY <1>3 DEF Exits, NoOrphans
    <2>2. \A a \in Actors : command[a] = Nothing /\ command[a].op = "none"
      BY <1>3, <2>1 DEF Exits, Phases, Nothing
    <2>3. \A a \in Actors : ~NewCommand(a)
      BY <1>3, <2>1 DEF NewCommand, RunCheck, FeedFind, EndFeedFind, TerminateFind, MayCommand
    <2>4. \A p \in Ids : ~RunnerStep(p)
      BY <2>1 DEF RunnerStep, Begin, Spawn, SpawnFails, Announce, List, Tell, NotifyStart,
         Reap, ScanEnds, Stop, FreeOutput, Finish, HasFinished, Step
    <2>5. \A a \in Actors : ~CommandStep(a)
      <3>1. \A p \in Ids, w \in {"run", "end-feed", "terminate"} : [op |-> w, id |-> p].op # "none"
        OBVIOUS
      <3>2. \A a \in Actors, p \in Ids, w \in {"run", "end-feed", "terminate"} :
                command[a] # [op |-> w, id |-> p]
        BY <2>2, <3>1
      <3>3. QED
        BY <2>2, <3>2, ZenonT(60) DEF CommandStep, RunRefused, RunStart, RunInUse, RunThreadFails, FeedUse,
                          EndFeedUse, TerminateKill
    <2>6. UNCHANGED <<processes, command>>
      BY <1>3, <2>3, <2>4, <2>5 DEF Next, CleanFinished, CleanFails, MainExits,
         ControllerCloses, ChildEnds, OutputFails, OutputsEnd, Exited, vars, shared
    <2>7. QED
      BY <2>1, <2>2, <2>6
  <1>4. QED
    BY <1>1, <1>2, <1>3

(***************************************************************************)
(* "done" is sent once.  This is inductive with the types: an object is in *)
(* the map from the step that makes it to the one that deletes it, or is   *)
(* deleted at once, and a name is made again only when it is free.         *)
(***************************************************************************)
LEMMA DoneOnceNext ==
  ASSUME TypeInv, DoneOnce, [Next]_vars PROVE DoneOnce'
  <1> DEFINE Sent(p, k) == dones[<<p, k>>] = IF k < use[p] \/ (k = use[p] /\ p \notin processes)
                                            THEN 1 ELSE 0
  <1>1. \A p \in Ids, k \in 1 .. MaxUses : Sent(p, k)
    BY DEF DoneOnce, Objects
  <1>2. ASSUME \A p \in Ids, k \in 1 .. MaxUses : Sent(p, k)' PROVE DoneOnce'
    BY <1>2 DEF DoneOnce, Objects
  <1>3. ASSUME NEW a \in Actors, NEW p \in Ids, RunStart(a, p) PROVE DoneOnce'
    BY <1>3, <1>1, <1>2 DEF RunStart, IdIsFree, TypeInv, CommandsType
  <1>4. ASSUME NEW a \in Actors, NEW p \in Ids, RunThreadFails(a, p) PROVE DoneOnce'
    <2>1. dones' = [dones EXCEPT ![<<p, use[p] + 1>>] = @ + 1] /\ use[p] + 1 \in 1 .. MaxUses
      BY <1>4, ConstantsAssumption DEF RunThreadFails, IdIsFree, TypeInv, CommandsType
    <2>2. \A q \in Ids, k \in 1 .. MaxUses :
            dones'[<<q, k>>] = IF q = p /\ k = use[p] + 1 THEN dones[<<q, k>>] + 1
                                                         ELSE dones[<<q, k>>]
      BY <2>1 DEF TypeInv, CommandsType, Objects
    <2>3. QED
      BY <1>4, <1>1, <1>2, <2>2 DEF RunThreadFails, IdIsFree, TypeInv, CommandsType
  <1>5. CASE CleanFinished
    <2>1. PICK p \in processes : /\ processes' = processes \ {p} /\ use' = use
                                 /\ dones' = [dones EXCEPT ![<<p, use[p]>>] = @ + 1]
      BY <1>5 DEF CleanFinished, Object, object
    <2>2. \A q \in Ids, k \in 1 .. MaxUses :
            dones'[<<q, k>>] = IF q = p /\ k = use[p] THEN dones[<<q, k>>] + 1
                                                     ELSE dones[<<q, k>>]
      BY <2>1 DEF TypeInv, CommandsType, Objects
    <2>3. QED
      BY <1>1, <1>2, <2>1, <2>2 DEF TypeInv, CommandsType
  <1>6. CASE UNCHANGED <<processes, use, dones>>
    BY <1>6, <1>1, <1>2
  <1>7. QED
    BY <1>3, <1>4, <1>5, <1>6
    DEF Next, NewCommand, CommandStep, RunCheck, RunRefused, RunInUse, FeedFind, FeedUse,
       EndFeedFind, EndFeedUse, TerminateFind, TerminateKill, RunnerStep, Begin, Spawn,
       SpawnFails, Announce, List, Tell, NotifyStart, Reap, ScanEnds, Stop, FreeOutput, Finish,
       HasFinished, CleanFails, MainExits, ControllerCloses, ChildEnds, OutputFails, OutputsEnd, Exited,
       vars, shared, object

(***************************************************************************)
(* What a child with process notifications knows: it is registered until   *)
(* its Output ends or it was waited for, and until its runner has sent it  *)
(* the list, a process that is announced is in the list or was heard of.   *)
(***************************************************************************)
Listens(p) == /\ asked[p] /\ toChild[p] = "open" /\ child[p] # "reaped"
              /\ runner[p] \in {"announce", "list", "tell", "start", "scan"}

Hearing ==
    /\ \A p \in Ids : Listens(p) => p \in hears
    /\ \A p, q \in Ids : (Listens(p) /\ runner[q] = "scan") =>
        /\ runner[p] \in {"start", "scan"} => q \in believes[p]
        /\ runner[p] = "tell" => q \in listed[p] \cup believes[p]

LEMMA HearingNext ==
  ASSUME TypeInv, NoOrphans, Phases, Hearing, [Next]_vars PROVE Hearing'
  <1> USE DEF TypeInv, CommandsType, RunnersType, Hearing, Listens
  <1>1. ASSUME NEW a \in Actors, NEW p \in Ids, RunStart(a, p) PROVE Hearing'
    <2>1. /\ runner' = [runner EXCEPT ![p] = "begin"] /\ UNCHANGED <<child, notes>>
          /\ \A q \in Ids \ {p} : toChild'[q] = toChild[q] /\ asked'[q] = asked[q]
      BY <1>1 DEF RunStart, os
    <2>2. QED
      BY <2>1 DEF notes
  <1>2. ASSUME NEW p \in Ids, RunnerStep(p) PROVE Hearing'
    <2>1. CASE Begin(p)
      BY <2>1 DEF Begin, Step, object, os, notes
    <2>2. CASE Spawn(p) \/ SpawnFails(p)
      <3>1. /\ hears' = (IF asked[p] THEN hears \cup {p} ELSE hears)
            /\ UNCHANGED <<listed, believes, asked>>
            /\ runner'[p] \in {"announce", "stop"}
        BY <2>2 DEF Spawn, SpawnFails, MakeOutput, Step, object
      <3>2. \A q \in Ids \ {p} : /\ runner'[q] = runner[q] /\ toChild'[q] = toChild[q]
                                  /\ child'[q] = child[q]
        BY <2>2 DEF Spawn, SpawnFails, MakeOutput, Step, os
      <3>3. \A q \in Ids : Listens(q)' => q = p \/ Listens(q)
        BY <3>1, <3>2
      <3>4. QED
        BY <3>1, <3>2, <3>3
    <2>3. CASE Announce(p)
      <3>1. /\ UNCHANGED <<asked, toChild, child, notes>>
            /\ runner[p] = "announce" /\ runner'[p] = IF asked[p] THEN "list" ELSE "start"
            /\ \A q \in Ids \ {p} : runner'[q] = runner[q]
        BY <2>3 DEF Announce, Step, object, os
      <3>2. QED
        BY <3>1 DEF notes
    <2>4. CASE List(p)
      BY <2>4 DEF List, Step, NoOrphans, Phases, object, os
    <2>5. CASE Tell(p)
      <3>1. /\ UNCHANGED <<asked, toChild, child, hears>>
            /\ runner[p] = "tell" /\ runner'[p] = "start"
            /\ \A q \in Ids \ {p} : /\ runner'[q] = runner[q] /\ listed'[q] = listed[q]
                                     /\ believes'[q] = believes[q]
            /\ toChild[p] = "open" => believes'[p] = believes[p] \cup listed[p]
        BY <2>5 DEF Tell, Step, object, os
      <3>2. QED
        BY <3>1
    <2>6. CASE NotifyStart(p)
      BY <2>6 DEF NotifyStart, Heard, Step, object, os
    <2>7. CASE Reap(p)
      BY <2>7 DEF Reap, thread, object
    <2>8. CASE ScanEnds(p)
      BY <2>8 DEF ScanEnds, Heard, Step, object, os
    <2>9. CASE Stop(p)
      BY <2>9 DEF Stop, Step, object, os
    <2>10. CASE FreeOutput(p) \/ Finish(p) \/ HasFinished(p)
      <3>1. UNCHANGED <<notes, asked, child>>
        BY <2>10 DEF FreeOutput, Finish, HasFinished, object, os
      <3>2. \E to \in {"finish", "hand over", "over"} : runner' = [runner EXCEPT ![p] = to]
        BY <2>10 DEF FreeOutput, Finish, HasFinished, Step
      <3>3. /\ runner'[p] \in {"finish", "hand over", "over"}
            /\ \A q \in Ids \ {p} : runner'[q] = runner[q]
        BY <3>2, ZenonT(60)
      <3>4. \A q \in Ids \ {p} : toChild'[q] = toChild[q]
        BY <2>10 DEF FreeOutput, Finish, HasFinished
      <3>5. QED
        BY <3>1, <3>3, <3>4 DEF notes
    <2>11. QED
      BY <1>2, <2>1, <2>2, <2>3, <2>4, <2>5, <2>6, <2>7, <2>8, <2>9, <2>10 DEF RunnerStep
  <1>3. CASE CleanFinished
    <2>1. PICK p \in Ids : /\ runner' = [runner EXCEPT ![p] = "none"]
                           /\ child' = [child EXCEPT ![p] = "none"]
      BY <1>3 DEF CleanFinished
    <2>2. UNCHANGED <<notes, asked, toChild>>
      BY <1>3 DEF CleanFinished, object
    <2>3. QED
      BY <2>1, <2>2 DEF notes
  <1>4. ASSUME NEW p \in Ids,
               toChild' = [toChild EXCEPT ![p] = "eof"], hears' = hears \ {p},
               UNCHANGED <<runner, child, asked, listed, believes>>
        PROVE  Hearing'
    BY <1>4
  <1>5. ASSUME NEW p \in Ids, OutputFails(p) PROVE Hearing'
    BY <1>4, <1>5 DEF OutputFails, EndOutput, object, os
  <1>6. CASE UNCHANGED <<runner, child, toChild, asked, notes>>
    BY <1>6 DEF notes
  <1>7. ASSUME NEW a \in Actors, NEW p \in Ids, EndFeedUse(a, p) PROVE Hearing'
    <2>1. CASE toChild[p] = "open"
      BY <1>4, <1>7, <2>1 DEF EndFeedUse, EndIfOpen, EndOutput, object, os
    <2>2. CASE toChild[p] # "open"
      BY <1>6, <1>7, <2>2 DEF EndFeedUse, EndIfOpen, object, os, notes
    <2>3. QED
      BY <2>1, <2>2
  <1>8. ASSUME NEW p \in Ids, ChildEnds(p) PROVE Hearing'
    BY <1>8 DEF ChildEnds, object, thread, notes
  <1>9. ASSUME NEW a \in Actors, NewCommand(a) \/ RunRefused(a) \/ FeedUse(a) PROVE Hearing'
    BY <1>6, <1>9
    DEF NewCommand, RunCheck, RunRefused, FeedFind, FeedUse, EndFeedFind, TerminateFind, thread,
        object, os
  <1>10. ASSUME NEW a \in Actors, NEW p \in Ids,
                RunInUse(a, p) \/ RunThreadFails(a, p) \/ TerminateKill(a, p)
         PROVE  Hearing'
    BY <1>6, <1>10 DEF RunInUse, RunThreadFails, TerminateKill, thread, object, os
  <1>11. CASE CleanFails \/ MainExits \/ ControllerCloses \/ Exited \/ UNCHANGED vars
    BY <1>6, <1>11
    DEF CleanFails, MainExits, ControllerCloses, Exited, vars, thread, object, os
  <1>12. ASSUME NEW p \in Ids, OutputsEnd(p) PROVE Hearing'
    BY <1>6, <1>12 DEF OutputsEnd, thread, object
  <1>13. QED
    BY <1>1, <1>2, <1>3, <1>5, <1>7, <1>8, <1>9, <1>10, <1>11, <1>12 DEF Next, CommandStep

(***************************************************************************)
(* The inductive invariant and what follows.                               *)
(***************************************************************************)
IInv == TypeInv /\ NoOrphans /\ Phases /\ Exits /\ DoneOnce /\ Hearing

LEMMA Initially == Init => IInv
  <1> SUFFICES ASSUME Init PROVE IInv
    OBVIOUS
  <1>1. TypeInv
    BY TypeInit
  <1>2. NoOrphans /\ Phases /\ Exits /\ Hearing
    BY ConstantsAssumption DEF Init, NoOrphans, Phases, Exits, Hearing, Listens, Actors
  <1>3. DoneOnce
    BY DEF Init, DoneOnce, Objects
  <1>4. QED
    BY <1>1, <1>2, <1>3 DEF IInv

LEMMA Inductive == IInv /\ [Next]_vars => IInv'
  BY TypeNext, NoOrphansNext, PhasesNext, ExitsNext, DoneOnceNext, HearingNext DEF IInv

(* A thread is in the map while it exists, and does not end before its     *)
(* child was waited for, whatever commands are given by whom, and whatever *)
(* fails.                                                                  *)
THEOREM NobodyIsOrphaned == Spec => []NoOrphans
  <1>1. IInv => NoOrphans
    BY DEF IInv
  <1>2. QED
    BY Initially, Inductive, <1>1, PTL DEF Spec

(* When the main loop has ended there is no thread, no child and no        *)
(* command under way.                                                      *)
THEOREM NothingIsLeft == Spec => []ExitLeavesNothing
  <1>1. IInv => ExitLeavesNothing
    BY ConstantsAssumption DEF IInv, Exits, NoOrphans, Phases, ExitLeavesNothing
  <1>2. QED
    BY Initially, Inductive, <1>1, PTL DEF Spec

(* Each object sends "done" once, when it is deleted.                      *)
THEOREM EachIsDoneOnce == Spec => []DoneOnce
  <1>1. IInv => DoneOnce
    BY DEF IInv
  <1>2. QED
    BY Initially, Inductive, <1>1, PTL DEF Spec

(* A child that asked for process notifications, whose Output is open and  *)
(* that was not waited for misses no process that is announced, although   *)
(* the list it is sent and the announcements overlap.                      *)
THEOREM NoProcessIsMissed == Spec => []ChildMissesNoProcess
  <1>1. IInv => ChildMissesNoProcess
    BY DEF IInv, Hearing, Listens, ChildMissesNoProcess, Told
  <1>2. QED
    BY Initially, Inductive, <1>1, PTL DEF Spec
=============================================================================
