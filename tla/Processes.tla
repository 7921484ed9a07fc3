----------------------------- MODULE Processes -----------------------------
(***************************************************************************)
(* The life of the processes datalackey runs: LocalProcesses, one          *)
(* LocalProcess object and runner thread per process, and the main loop    *)
(* that deletes the objects of finished processes and decides to exit.     *)
(*                                                                         *)
(* Commands come from the controller, executed by the main thread, and     *)
(* from the children, each executed by the child's own runner thread while *)
(* it scans what the child prints.  A process identifier can be used again *)
(* once its object is gone: use[p] counts the objects made for p, and      *)
(* <<p, use[p]>> names one of them.                                        *)
(***************************************************************************)
EXTENDS Integers, Sequences, FiniteSets

CONSTANTS
    Ids,           \* process identifiers
    Main,          \* the main thread, which executes the controller's commands
    Free,          \* nobody holds processes_mutex
    Commands,      \* which of "run", "feed", "end-feed", "terminate" are given
    ChildCommands, \* those that children give too
    Notify,        \* whether children may be given "notify process"
    Fails,         \* what may fail: "thread", "spawn"
    MaxUses,       \* bound: objects per identifier
    MaxObjects     \* bound: objects in all when run is given

ASSUME ConstantsAssumption ==
    /\ Main \notin Ids /\ Free \notin Ids \cup {Main}
    /\ Commands \subseteq {"run", "feed", "end-feed", "terminate"}
    /\ ChildCommands \subseteq Commands
    /\ Notify \in BOOLEAN
    /\ Fails \subseteq {"thread", "spawn"}
    /\ MaxUses \in Nat \ {0} /\ MaxObjects \in Nat \ {0}

Actors == Ids \cup {Main}

VARIABLES
    lock,       \* holder of processes_mutex across steps, or Free
    processes,  \* the identifiers in LocalProcesses::processes
    toDelete,   \* LocalProcesses::to_delete, a stack
    command,    \* what each actor is executing
    use,        \* objects made for each identifier so far
    launcher,   \* who gave the run command: <<actor, its use>>
    asked,      \* LocalProcess::notify_process
    runner,     \* where the runner thread of each process is, "none" without one
    running,    \* LocalProcess::running
    pid,        \* whether LocalProcess::pid is set
    toChild,    \* LocalProcess::to_child: "null", "open", "eof" or "freed"
    child,      \* the operating system's process
    outputs,    \* whether more can come from the child's stdout or stderr
    hears,      \* ProcessNotifiedOutputs: the children whose Output is in it
    listed,     \* what List returned to a child's runner
    believes,   \* the processes each child was told of that did not end since
    scanner,    \* whether the controller's input is open
    main        \* "loop" until the main loop "exited" or the program "failed"

VARIABLE        \* history
    dones       \* how often "done" was sent for each object's run command

shared == <<lock, processes, toDelete>>
object == <<use, launcher, asked>>
thread == <<runner, running, pid, toChild>>
os == <<child, outputs>>
notes == <<hears, listed, believes>>
vars == <<shared, command, object, thread, os, notes, scanner, main, dones>>

Nothing == [op |-> "none"]
Object(p) == <<p, use[p]>>
Made == {o \in Ids \X (1 .. MaxUses) : o[2] <= use[o[1]]}
MayMake(p) == use[p] < MaxUses /\ Cardinality(Made) < MaxObjects

Init ==
    /\ lock = Free /\ processes = {} /\ toDelete = << >>
    /\ command = [a \in Actors |-> Nothing]
    /\ use = [p \in Ids |-> 0]
    /\ launcher = [p \in Ids |-> <<Main, 0>>] /\ asked = [p \in Ids |-> FALSE]
    /\ runner = [p \in Ids |-> "none"]
    /\ running = [p \in Ids |-> FALSE]
    /\ pid = [p \in Ids |-> FALSE]
    /\ toChild = [p \in Ids |-> "null"]
    /\ child = [p \in Ids |-> "none"]
    /\ outputs = [p \in Ids |-> FALSE]
    /\ hears = {} /\ listed = [p \in Ids |-> {}] /\ believes = [p \in Ids |-> {}]
    /\ scanner = TRUE /\ main = "loop"
    /\ dones = [o \in Ids \X (1 .. MaxUses) |-> 0]

(* child_start_mutex is held from Run until the child was spawned.         *)
Starting(p) == runner[p] \in {"begin", "setup"}

(* The Output replies to p's launcher go to, when the launcher is a child: *)
(* its to_child, while the object lives and has not freed it.              *)
LauncherGone(p) ==
    LET a == launcher[p][1] IN
    /\ a # Main
    /\ a \notin processes \/ use[a] # launcher[p][2] \/ toChild[a] = "freed"

(***************************************************************************)
(* Commands.                                                               *)
(***************************************************************************)
(* The threads go on until the program fails.                              *)
Alive == main # "failed"

MayCommand(a, name) ==
    /\ Alive /\ name \in Commands
    /\ command[a] = Nothing
    /\ IF a = Main THEN scanner /\ main = "loop"
                   ELSE name \in ChildCommands /\ runner[a] = "scan" /\ outputs[a]

Reply(a) == Alive /\ command' = [command EXCEPT ![a] = Nothing]

(* Run checks the identifier, releases the mutex to look at the            *)
(* parameters, and checks the identifier again.                            *)
RunCheck(a, p) ==
    /\ MayCommand(a, "run") /\ lock = Free
    /\ MayMake(p)
    /\ IF p \in processes THEN Reply(a)
       ELSE command' = [command EXCEPT ![a] = [op |-> "run", id |-> p]]
    /\ UNCHANGED <<shared, object, thread, os, notes, scanner, main, dones>>

RunRefused(a) ==
    /\ command[a].op = "run"
    /\ Reply(a)
    /\ UNCHANGED <<shared, object, thread, os, notes, scanner, main, dones>>

(* Mutant of IdIsFree: the identifier is not looked up again.              *)
IdWasFree(p) == use[p] < MaxUses

IdIsFree(p) == p \notin processes /\ use[p] < MaxUses

RunStart(a, p) ==
    /\ command[a] = [op |-> "run", id |-> p] /\ lock = Free
    /\ IdIsFree(p)
    /\ Reply(a)
    /\ use' = [use EXCEPT ![p] = @ + 1]
    /\ launcher' = [launcher EXCEPT ![p] = <<a, IF a = Main THEN 0 ELSE use[a]>>]
    /\ \E notify \in BOOLEAN : /\ notify => Notify
                              /\ asked' = [asked EXCEPT ![p] = notify]
    /\ processes' = processes \cup {p}
    /\ runner' = [runner EXCEPT ![p] = "begin"]
    /\ toChild' = [toChild EXCEPT ![p] = "null"]
    /\ UNCHANGED <<lock, toDelete, running, pid, os, notes, scanner, main, dones>>

RunInUse(a, p) ==
    /\ command[a] = [op |-> "run", id |-> p] /\ lock = Free
    /\ p \in processes \/ use[p] = MaxUses
    /\ Reply(a)
    /\ UNCHANGED <<shared, object, thread, os, notes, scanner, main, dones>>

(* No thread can be had: Run tells HasFinished and returns false, and the  *)
(* object, which is in no map, is deleted; its destructor sends "done".    *)
RunThreadFails(a, p) ==
    /\ "thread" \in Fails
    /\ command[a] = [op |-> "run", id |-> p] /\ lock = Free
    /\ IdIsFree(p)
    /\ Reply(a)
    /\ use' = [use EXCEPT ![p] = @ + 1]
    /\ launcher' = [launcher EXCEPT ![p] = <<a, IF a = Main THEN 0 ELSE use[a]>>]
    /\ toDelete' = Append(toDelete, p)
    /\ dones' = [dones EXCEPT ![<<p, use[p] + 1>>] = @ + 1]
    /\ UNCHANGED <<lock, processes, asked, thread, os, notes, scanner, main>>

(* Feed finds the process under the mutex and goes on with the iterator    *)
(* after releasing it.                                                     *)
FeedFind(a, p) ==
    /\ MayCommand(a, "feed") /\ lock = Free
    /\ IF p \in processes
       THEN command' = [command EXCEPT ![a] = [op |-> "feed", at |-> Object(p)]]
       ELSE Reply(a)
    /\ UNCHANGED <<shared, object, thread, os, notes, scanner, main, dones>>

Stale(o) == o[1] \notin processes \/ use[o[1]] # o[2]

FeedUse(a) ==
    /\ command[a].op = "feed"
    /\ Stale(command[a].at) \/ ~Starting(command[a].at[1])
    /\ Reply(a)
    /\ UNCHANGED <<shared, object, thread, os, notes, scanner, main, dones>>

(* EndFeed keeps the mutex; Closed and EndFeed of the process wait for its *)
(* child_start_mutex.                                                      *)
EndFeedFind(a, p) ==
    /\ MayCommand(a, "end-feed") /\ lock = Free
    /\ IF p \in processes
       THEN /\ command' = [command EXCEPT ![a] = [op |-> "end-feed", id |-> p]]
            /\ lock' = a
       ELSE Reply(a) /\ UNCHANGED lock
    /\ UNCHANGED <<processes, toDelete, object, thread, os, notes, scanner, main, dones>>

(* Output::end of p's Output: eof, then NoGlobalMessages.                  *)
EndOutput(p) ==
    /\ toChild' = [toChild EXCEPT ![p] = "eof"]
    /\ hears' = hears \ {p}

EndIfOpen(p) == IF toChild[p] = "open" THEN EndOutput(p) ELSE UNCHANGED <<toChild, hears>>

(* Mutant of EndFeedUse: processes_mutex stays locked when feeding has     *)
(* already ended.                                                          *)
EndFeedKeepsLock(a, p) ==
    /\ command[a] = [op |-> "end-feed", id |-> p]
    /\ ~Starting(p)
    /\ EndIfOpen(p)
    /\ lock' = IF toChild[p] = "open" THEN Free ELSE lock
    /\ Reply(a)
    /\ UNCHANGED <<processes, toDelete, object, runner, running, pid, os,
                   listed, believes, scanner, main, dones>>

EndFeedUse(a, p) ==
    /\ command[a] = [op |-> "end-feed", id |-> p]
    /\ ~Starting(p)
    /\ EndIfOpen(p)
    /\ lock' = Free
    /\ Reply(a)
    /\ UNCHANGED <<processes, toDelete, object, runner, running, pid, os,
                   listed, believes, scanner, main, dones>>

(* Terminate: a process that is not running needs no signal, otherwise     *)
(* kill, once the child was spawned.                                       *)
TerminateFind(a, p) ==
    /\ MayCommand(a, "terminate") /\ lock = Free
    /\ IF p \in processes /\ running[p]
       THEN /\ command' = [command EXCEPT ![a] = [op |-> "terminate", id |-> p]]
            /\ lock' = a
       ELSE Reply(a) /\ UNCHANGED lock
    /\ UNCHANGED <<processes, toDelete, object, thread, os, notes, scanner, main, dones>>

TerminateKill(a, p) ==
    /\ command[a] = [op |-> "terminate", id |-> p]
    /\ ~Starting(p)
    /\ lock' = Free
    /\ Reply(a)
    /\ UNCHANGED <<processes, toDelete, object, thread, os, notes, scanner, main, dones>>

(***************************************************************************)
(* The runner thread of p.                                                 *)
(***************************************************************************)
Step(p, from, to) == Alive /\ runner[p] = from /\ runner' = [runner EXCEPT ![p] = to]

Begin(p) ==
    /\ Step(p, "begin", "setup")
    /\ running' = [running EXCEPT ![p] = TRUE]
    /\ UNCHANGED <<shared, command, object, pid, toChild, os, notes, scanner, main, dones>>

(* Pipes and to_child are made, the child is spawned and                   *)
(* child_start_mutex released.  Without "in", which "notify" requires, the *)
(* Output is at eof at once; with "notify process" it is registered.       *)
MakeOutput(p) ==
    /\ \E state \in {"open", "eof"} : /\ asked[p] => state = "open"
                                     /\ toChild' = [toChild EXCEPT ![p] = state]
    /\ hears' = IF asked[p] THEN hears \cup {p} ELSE hears

Spawn(p) ==
    /\ Step(p, "setup", "announce")
    /\ MakeOutput(p)
    /\ pid' = [pid EXCEPT ![p] = TRUE]
    /\ child' = [child EXCEPT ![p] = "alive"]
    /\ outputs' = [outputs EXCEPT ![p] = TRUE]
    /\ UNCHANGED <<shared, command, object, running, listed, believes, scanner, main,
                   dones>>

SpawnFails(p) ==
    /\ "spawn" \in Fails
    /\ Step(p, "setup", "stop")
    /\ MakeOutput(p)
    /\ UNCHANGED <<shared, command, object, running, pid, os, listed, believes, scanner,
                   main, dones>>

(* run/running is sent; a child that is notified is then told what List    *)
(* finds, which waits for those that are being spawned.                    *)
Announce(p) ==
    /\ IF asked[p]
       THEN lock = Free /\ lock' = p /\ Step(p, "announce", "list")
       ELSE UNCHANGED lock /\ Step(p, "announce", "start")
    /\ UNCHANGED <<processes, toDelete, command, object, running, pid, toChild,
                   os, notes, scanner, main, dones>>

List(p) ==
    /\ \A q \in processes : running[q] => ~Starting(q)
    /\ Step(p, "list", "tell")
    /\ listed' = [listed EXCEPT ![p] = {q \in processes : running[q]}]
    /\ lock' = Free
    /\ UNCHANGED <<processes, toDelete, command, object, running, pid, toChild,
                   os, hears, believes, scanner, main, dones>>

(* An Output at eof discards what it is told.                              *)
Tell(p) ==
    /\ Step(p, "tell", "start")
    /\ believes' = IF toChild[p] = "open"
                   THEN [believes EXCEPT ![p] = @ \cup listed[p]] ELSE believes
    /\ listed' = [listed EXCEPT ![p] = {}]
    /\ UNCHANGED <<shared, command, object, running, pid, toChild, os, hears,
                   scanner, main, dones>>

(* Mutant of Heard: those that are still told the list are passed over.    *)
HeardByTold == {q \in hears : runner[q] = "scan"}

(* Whom Notify reaches.                                                    *)
Heard == hears

NotifyStart(p) ==
    /\ Step(p, "start", "scan")
    /\ believes' = [q \in Ids |-> IF q \in Heard THEN believes[q] \cup {p} ELSE believes[q]]
    /\ UNCHANGED <<shared, command, object, running, pid, toChild, os, hears, listed,
                   scanner, main, dones>>

(* get_child_state: waitpid finds that the child ended, NoGlobalMessages.  *)
Reap(p) ==
    /\ Alive /\ runner[p] = "scan" /\ child[p] = "zombie" /\ command[p] = Nothing
    /\ child' = [child EXCEPT ![p] = "reaped"]
    /\ hears' = hears \ {p}
    /\ UNCHANGED <<shared, command, object, thread, outputs, listed, believes, scanner,
                   main, dones>>

(* Mutant of ChildOver: the loop ends when the outputs have ended.         *)
OutputsOver(p) == ~outputs[p]

ChildOver(p) == child[p] = "reaped" /\ ~outputs[p]

(* The loop ends when the child was reaped and its outputs have ended;     *)
(* NotifyEnd.                                                              *)
ScanEnds(p) ==
    /\ ChildOver(p) /\ command[p] = Nothing
    /\ Step(p, "scan", "stop")
    /\ believes' = [q \in Ids |-> IF q \in Heard THEN believes[q] \ {p} ELSE believes[q]]
    /\ UNCHANGED <<shared, command, object, running, pid, toChild, os, hears, listed,
                   scanner, main, dones>>

(* The rest of runner(): running is reset, to_child freed (the pointer     *)
(* stays), run/finished sent, pid reset, HasFinished told.                 *)
Stop(p) ==
    /\ Step(p, "stop", "free")
    /\ running' = [running EXCEPT ![p] = FALSE]
    /\ hears' = hears \ {p}
    /\ believes' = [believes EXCEPT ![p] = {}]
    /\ UNCHANGED <<shared, command, object, pid, toChild, os, listed, scanner, main,
                   dones>>

FreeOutput(p) ==
    /\ Step(p, "free", "finish")
    /\ toChild' = [toChild EXCEPT ![p] = "freed"]
    /\ UNCHANGED <<shared, command, object, running, pid, os, notes, scanner, main, dones>>

Finish(p) ==
    /\ Step(p, "finish", "hand over")
    /\ pid' = [pid EXCEPT ![p] = FALSE]
    /\ UNCHANGED <<shared, command, object, running, toChild, os, notes, scanner, main,
                   dones>>

HasFinished(p) ==
    /\ Step(p, "hand over", "over")
    /\ toDelete' = Append(toDelete, p)
    /\ UNCHANGED <<lock, processes, command, object, running, pid, toChild, os,
                   notes, scanner, main, dones>>

(***************************************************************************)
(* The main loop.                                                          *)
(***************************************************************************)
(* CleanFinished, one element of to_delete: the object's destructor sends  *)
(* "done" and joins the thread, which has nothing left to do.              *)
Last(stack) == stack[Len(stack)]

CleanFinished ==
    /\ main = "loop" /\ command[Main] = Nothing /\ lock = Free
    /\ toDelete # << >>
    /\ LET p == Last(toDelete) IN
        /\ p \in processes /\ runner[p] = "over"
        /\ toDelete' = SubSeq(toDelete, 1, Len(toDelete) - 1)
        /\ processes' = processes \ {p}
        /\ runner' = [runner EXCEPT ![p] = "none"]
        /\ child' = [child EXCEPT ![p] = "none"]
        /\ dones' = [dones EXCEPT ![Object(p)] = @ + 1]
    /\ UNCHANGED <<lock, command, object, running, pid, toChild, outputs,
                   notes, scanner, main>>

(* An identifier whose thread could not be made is not in the map, and an  *)
(* assertion fails; or it is in the map again by now, and ~LocalProcess    *)
(* asserts that it is not running, or joins a thread that has to wait for  *)
(* to_delete_mutex, which is held here.  Either way this is the end.       *)
CleanFails ==
    /\ main = "loop" /\ command[Main] = Nothing /\ lock = Free
    /\ toDelete # << >>
    /\ ~(Last(toDelete) \in processes /\ runner[Last(toDelete)] = "over")
    /\ main' = "failed"
    /\ UNCHANGED <<shared, command, object, thread, os, notes, scanner, dones>>

(* Mutant of MainExits: only the end of the controller's input counts.     *)
ExitsAtEndOfInput ==
    /\ main = "loop" /\ command[Main] = Nothing
    /\ ~scanner
    /\ main' = "exited"
    /\ UNCHANGED <<shared, command, object, thread, os, notes, scanner, dones>>

(* CleanFinished was called since the last thread could add to to_delete.  *)
MainExits ==
    /\ main = "loop" /\ command[Main] = Nothing
    /\ ~scanner /\ processes = {} /\ toDelete = << >>
    /\ main' = "exited"
    /\ UNCHANGED <<shared, command, object, thread, os, notes, scanner, dones>>

(***************************************************************************)
(* The environment: the controller closes its end, children end by         *)
(* themselves or by the signal, and their output ends, at the latest when  *)
(* whatever they started has closed it.                                    *)
(***************************************************************************)
ControllerCloses ==
    /\ scanner /\ command[Main] = Nothing
    /\ scanner' = FALSE
    /\ UNCHANGED <<shared, command, object, thread, os, notes, main, dones>>

ChildEnds(p) ==
    /\ child[p] = "alive"
    /\ child' = [child EXCEPT ![p] = "zombie"]
    /\ UNCHANGED <<shared, command, object, thread, outputs, notes, scanner, main, dones>>

(* The child does not read any more: writing fails, and the feeder ends    *)
(* the Output.                                                             *)
OutputFails(p) ==
    /\ child[p] # "none" /\ toChild[p] = "open"
    /\ EndOutput(p)
    /\ UNCHANGED <<shared, command, object, runner, running, pid, os, listed, believes,
                   scanner, main, dones>>

OutputsEnd(p) ==
    /\ outputs[p]
    /\ outputs' = [outputs EXCEPT ![p] = FALSE]
    /\ UNCHANGED <<shared, command, object, thread, child, notes, scanner, main, dones>>

Exited == main \in {"exited", "failed"} /\ UNCHANGED vars

CommandStep(a) ==
    \/ RunRefused(a) \/ FeedUse(a)
    \/ \E p \in Ids : \/ RunStart(a, p) \/ RunInUse(a, p) \/ RunThreadFails(a, p)
                      \/ EndFeedUse(a, p) \/ TerminateKill(a, p)

NewCommand(a) ==
    \E p \in Ids : \/ RunCheck(a, p) \/ FeedFind(a, p)
                   \/ EndFeedFind(a, p) \/ TerminateFind(a, p)

RunnerStep(p) ==
    \/ Begin(p) \/ Spawn(p) \/ SpawnFails(p)
    \/ Announce(p) \/ List(p) \/ Tell(p) \/ NotifyStart(p)
    \/ Reap(p) \/ ScanEnds(p)
    \/ Stop(p) \/ FreeOutput(p) \/ Finish(p) \/ HasFinished(p)

Next ==
    \/ \E a \in Actors : NewCommand(a) \/ CommandStep(a)
    \/ \E p \in Ids : RunnerStep(p)
    \/ CleanFinished \/ CleanFails \/ MainExits
    \/ ControllerCloses \/ \E p \in Ids : ChildEnds(p) \/ OutputFails(p) \/ OutputsEnd(p)
    \/ Exited

Spec == Init /\ [][Next]_vars

----------------------------------------------------------------------------
RunnerPlaces == {"none", "begin", "setup", "announce", "list", "tell", "start", "scan", "stop",
                 "free", "finish", "hand over", "over"}

Objects == Ids \X (1 .. MaxUses)

(* Every variable has the shape the code gives it.                         *)
TypeOK ==
    /\ lock \in {Free} \cup {p \in Ids : runner[p] = "list"} \cup
             {a \in Actors : command[a].op \in {"end-feed", "terminate"}}
    /\ processes \subseteq Ids /\ toDelete \in Seq(Ids)
    /\ command \in [Actors -> {Nothing} \cup
            [op : {"run", "end-feed", "terminate"}, id : Ids] \cup
            [op : {"feed"}, at : Objects]]
    /\ use \in [Ids -> 0 .. MaxUses]
    /\ launcher \in [Ids -> Actors \X (0 .. MaxUses)] /\ asked \in [Ids -> BOOLEAN]
    /\ runner \in [Ids -> RunnerPlaces]
    /\ running \in [Ids -> BOOLEAN] /\ pid \in [Ids -> BOOLEAN]
    /\ toChild \in [Ids -> {"null", "open", "eof", "freed"}]
    /\ child \in [Ids -> {"none", "alive", "zombie", "reaped"}]
    /\ outputs \in [Ids -> BOOLEAN]
    /\ hears \subseteq Ids
    /\ listed \in [Ids -> SUBSET Ids] /\ believes \in [Ids -> SUBSET Ids]
    /\ scanner \in BOOLEAN /\ main \in {"loop", "exited", "failed"}
    /\ dones \in [Objects -> Nat]

(* The main loop ends only when no thread runs and no child is left to     *)
(* wait for, although it reads the map without the mutex and children may  *)
(* start other processes until their very end.                             *)
ExitLeavesNothing ==
    main = "exited" => \A p \in Ids : /\ runner[p] = "none" /\ child[p] = "none"
                                      /\ command[p] = Nothing

(* A run command that started something gets its "done" once, when the     *)
(* object is deleted, although identifiers are used again and a thread     *)
(* may be impossible to make.                                              *)
DoneOnce ==
    \A o \in Objects :
        dones[o] = IF o[2] < use[o[1]] \/ (o[2] = use[o[1]] /\ o[1] \notin processes)
                   THEN 1 ELSE 0

(* An identifier is in the map while its thread exists, and the thread of  *)
(* a child that was spawned does not end before the child was waited for.  *)
NoOrphans ==
    \A p \in Ids : /\ p \in processes <=> runner[p] # "none"
                   /\ child[p] \in {"alive", "zombie"} =>
                        runner[p] \in {"announce", "list", "tell", "start", "scan"}

(* A child that asked for process notifications and still reads knows of   *)
(* every process whose runner has announced it, whether it heard that or   *)
(* was told when it started: until feeding it ends, its Output fails or    *)
(* the child was waited for.                                               *)
Told(p) == /\ asked[p] /\ toChild[p] = "open" /\ child[p] # "reaped"
           /\ runner[p] \in {"start", "scan"}

ChildMissesNoProcess ==
    \A p, q \in Ids : (Told(p) /\ runner[q] = "scan") => q \in believes[p]

(* "process", "ended" takes back what the child was told: it does not take *)
(* a process to be running that has been stopped.                          *)
ChildBelievesNoGhost ==
    \A p, q \in Ids : (Told(p) /\ q \in believes[p]) => running[q]

(* "Terminate process. Return true if process exists.": terminate takes a  *)
(* process that is not running for one that needs no signal; none of these *)
(* has a child that is still to come.                                      *)
TerminateTakesEffect ==
    \A p \in processes : ~running[p] => runner[p] \in {"free", "finish", "hand over", "over"}

(* "assert(proc != processes.end())" in CleanFinished.                     *)
CleanFindsProcess ==
    (toDelete # << >> /\ lock = Free) => Last(toDelete) \in processes

(* A feed or end-feed that goes on with a process it found still finds the *)
(* object and its Output; one that has ended answers with an error.        *)
FeedUsesLiveOutput ==
    \A a \in Actors :
        /\ command[a].op = "feed" =>
              /\ ~Stale(command[a].at)
              /\ toChild[command[a].at[1]] # "freed"
        /\ command[a].op = "end-feed" => toChild[command[a].id] # "freed"

(* The reports of a run and its "done" go to whoever gave the command.     *)
ReportsReachLauncher ==
    \A p \in Ids : runner[p] \in {"announce", "scan", "finish", "over"} => ~LauncherGone(p)

(* kill is used on "our child" alone, which is ours until it was waited    *)
(* for.                                                                    *)
OnlyChildrenSignalled ==
    \A a \in Actors : command[a].op = "terminate" =>
        ~(pid[command[a].id] /\ child[command[a].id] = "reaped")
============================================================================
