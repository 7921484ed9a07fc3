------------------------------- MODULE Pipes -------------------------------
(***************************************************************************)
(* Who holds which end of which pipe: datalackey's table of descriptors,   *)
(* the map of their owners, the runner threads that make pipes, spawn a    *)
(* child and close the ends, and the tables the children inherited.        *)
(*                                                                         *)
(* An end <<p, pipe, side>> names the FileDescriptor object of process p   *)
(* and what its descriptor was opened for: stdin_child is pipe "in",       *)
(* stdouterr_child[0] and [1] are "out" and "err".  The ends of Main are   *)
(* datalackey's own standard descriptors.  Files that Open opens are       *)
(* close-on-exec and for the storage alone, so they are left out.          *)
(***************************************************************************)
EXTENDS Integers, Sequences

CONSTANTS
    Ids,     \* process identifiers
    Main,    \* datalackey itself
    Free,    \* what a descriptor is that is not open
    Inputs,  \* the processes that are given "in"
    Broken,  \* the processes posix_spawn may fail for
    Limit,   \* how many descriptors datalackey may have
    Losable  \* which of its own descriptors datalackey may lose: 0, 1

ASSUME ConstantsAssumption ==
    /\ Main \notin Ids /\ Inputs \subseteq Ids /\ Broken \subseteq Ids
    /\ Limit \in Nat /\ Limit > 2
    /\ Losable \subseteq {0, 1}

Fds == 0 .. Limit - 1
Closed == -1
Ends == (Ids \cup {Main}) \X {"in", "out", "err"} \X {"r", "w"}

ASSUME FreeAssumption == Free \notin Ends

VARIABLES
    table,   \* datalackey's descriptors: the end each one is, or Free
    owners,  \* the map from descriptors to FileDescriptor objects
    fd,      \* FileDescriptor::fd of each object
    place,   \* where the runner of each process is
    child,   \* the operating system's process
    std,     \* what each child has as descriptors 0 to 2
    extra,   \* the ends it inherited as other descriptors
    main     \* "loop", "exited", or "failed" by an assertion or a null pointer

descriptors == <<table, owners, fd>>
children == <<child, std, extra>>
vars == <<descriptors, place, children, main>>

ControllerIn == <<Main, "in", "r">>
ControllerOut == <<Main, "out", "w">>
Errors == <<Main, "err", "w">>
NoStandard == [n \in 0 .. 2 |-> Free]

(* The FileDescriptor objects of main: stderr has none.                    *)
Init ==
    /\ table = [n \in Fds |-> CASE n = 0 -> ControllerIn [] n = 1 -> ControllerOut
                               [] n = 2 -> Errors [] OTHER -> Free]
    /\ owners = [table EXCEPT ![2] = Free]
    /\ fd = [e \in Ends |-> IF e = ControllerIn THEN 0
                            ELSE IF e = ControllerOut THEN 1 ELSE Closed]
    /\ place = [p \in Ids |-> "none"]
    /\ child = [p \in Ids |-> "none"]
    /\ std = [p \in Ids |-> NoStandard]
    /\ extra = [p \in Ids |-> {}]
    /\ main = "loop"

(***************************************************************************)
(* FileDescriptor.                                                         *)
(***************************************************************************)
FreeFds == {n \in Fds : table[n] = Free}
TwoAreFree == \E n, m \in FreeFds : n # m
Lowest(set) == CHOOSE n \in set : \A m \in set : n <= m

(* pipe takes the two lowest descriptors and sets no close-on-exec flag.   *)
MakePipe(p, pipe) ==
    LET r == Lowest(FreeFds)
        w == Lowest(FreeFds \ {r})
    IN  /\ TwoAreFree
        /\ table' = [table EXCEPT ![r] = <<p, pipe, "r">>, ![w] = <<p, pipe, "w">>]
        /\ owners' = [owners EXCEPT ![r] = <<p, pipe, "r">>, ![w] = <<p, pipe, "w">>]
        /\ fd' = [fd EXCEPT ![<<p, pipe, "r">>] = r, ![<<p, pipe, "w">>] = w]

(* Mutant of Close: the object does not forget its descriptor.             *)
CloseKeeps(e) ==
    /\ IF fd[e] # Closed /\ owners[fd[e]] = e
       THEN /\ table' = [table EXCEPT ![fd[e]] = Free]
            /\ owners' = [owners EXCEPT ![fd[e]] = Free]
       ELSE UNCHANGED <<table, owners>>
    /\ UNCHANGED fd

Close(e) ==
    /\ IF fd[e] # Closed /\ owners[fd[e]] = e
       THEN /\ table' = [table EXCEPT ![fd[e]] = Free]
            /\ owners' = [owners EXCEPT ![fd[e]] = Free]
       ELSE UNCHANGED <<table, owners>>
    /\ fd' = [fd EXCEPT ![e] = Closed]

(* Closes the ends one by one, those that are open, and goes on.           *)
CloseInOrder(p, ends, next) ==
    LET open == {i \in DOMAIN ends : fd[ends[i]] # Closed} IN
    /\ IF open = {} THEN UNCHANGED descriptors ELSE Close(ends[Lowest(open)])
    /\ place' = IF \A i \in open : i = Lowest(open)
                THEN [place EXCEPT ![p] = next]
                ELSE place

(***************************************************************************)
(* The file actions posix_spawn performs on the child's copy of the table. *)
(* Closing what is closed already is ignored; duplicating it is EBADF,     *)
(* which leaves no table the child could have.                             *)
(***************************************************************************)
Shut(n) == [op |-> "close", fd |-> n]
Dup(n, m) == [op |-> "dup2", fd |-> n, to |-> m]

Perform(tables, action) ==
    IF action.op = "close"
    THEN {[t EXCEPT ![action.fd] = Free] : t \in tables}
    ELSE {[t EXCEPT ![action.to] = t[action.fd]] :
             t \in {u \in tables : u[action.fd] # Free}}

(* Mutant of FileActions: the standard descriptors are closed last.        *)
CloseStandardLast(p) ==
    LET f(pipe, side) == fd[<<p, pipe, side>>]
        WithInput(actions) == IF p \in Inputs THEN actions ELSE << >>
    IN  WithInput(<<Shut(f("in", "w"))>>)
        \o <<Shut(f("out", "r")), Shut(f("err", "r"))>>
        \o WithInput(<<Dup(f("in", "r"), 0)>>)
        \o <<Dup(f("out", "w"), 1), Dup(f("err", "w"), 2)>>
        \o WithInput(<<Shut(f("in", "r"))>>)
        \o <<Shut(f("out", "w")), Shut(f("err", "w")), Shut(0), Shut(1), Shut(2)>>

(* Mutant of FileActions: the output is closed before it is duplicated.    *)
CloseOutputEarly(p) ==
    LET f(pipe, side) == fd[<<p, pipe, side>>]
        WithInput(actions) == IF p \in Inputs THEN actions ELSE << >>
    IN  WithInput(<<Shut(f("in", "w"))>>)
        \o <<Shut(f("out", "r")), Shut(f("err", "r")), Shut(0), Shut(1), Shut(2)>>
        \o WithInput(<<Dup(f("in", "r"), 0)>>)
        \o <<Shut(f("out", "w")), Dup(f("out", "w"), 1), Dup(f("err", "w"), 2)>>
        \o WithInput(<<Shut(f("in", "r"))>>)
        \o <<Shut(f("err", "w"))>>

FileActions(p) ==
    LET f(pipe, side) == fd[<<p, pipe, side>>]
        WithInput(actions) == IF p \in Inputs THEN actions ELSE << >>
    IN  WithInput(<<Shut(f("in", "w"))>>)
        \o <<Shut(f("out", "r")), Shut(f("err", "r")), Shut(0), Shut(1), Shut(2)>>
        \o WithInput(<<Dup(f("in", "r"), 0)>>)
        \o <<Dup(f("out", "w"), 1), Dup(f("err", "w"), 2)>>
        \o WithInput(<<Shut(f("in", "r"))>>)
        \o <<Shut(f("out", "w")), Shut(f("err", "w"))>>

(* The tables there can be after the first n of some actions.              *)
After(actions) ==
    LET after[n \in 0 .. Len(actions)] ==
            IF n = 0 THEN {table} ELSE Perform(after[n - 1], actions[n])
    IN  after

Inherited(p) == After(FileActions(p))[Len(FileActions(p))]

(***************************************************************************)
(* What is open where.                                                     *)
(***************************************************************************)
OpenInChild(e) == \E q \in Ids : e \in extra[q] \/ \E n \in 0 .. 2 : std[q][n] = e
OpenHere(e) == \E n \in Fds : table[n] = e
Written(p, pipe) == OpenHere(<<p, pipe, "w">>) \/ OpenInChild(<<p, pipe, "w">>)
ReadBy(p, pipe) == OpenHere(<<p, pipe, "r">>) \/ OpenInChild(<<p, pipe, "r">>)

(***************************************************************************)
(* Commands, given by the controller or by what a child printed.           *)
(***************************************************************************)
CommandsCome ==
    /\ main = "loop"
    /\ \/ fd[ControllerIn] # Closed
       \/ \E q \in Ids : place[q] = "scan" /\ fd[<<q, "out", "r">>] # Closed

Run(p) ==
    /\ CommandsCome /\ place[p] = "none"
    /\ place' = [place EXCEPT ![p] = "out"]
    /\ UNCHANGED <<descriptors, children, main>>

(* end-feed, and the feeder thread of to_child that closes its channel;    *)
(* the command waits for child_start_mutex.                                *)
EndFeed(p) ==
    /\ CommandsCome /\ place[p] \in {"close", "scan"}
    /\ fd[<<p, "in", "w">>] # Closed
    /\ Close(<<p, "in", "w">>)
    /\ UNCHANGED <<place, children, main>>

(* FileDescriptorOutput::Write fails when nobody can read any more.        *)
WriteFails(p) ==
    /\ main = "loop" /\ place[p] \in {"close", "scan"}
    /\ fd[<<p, "in", "w">>] # Closed /\ ~ReadBy(p, "in")
    /\ Close(<<p, "in", "w">>)
    /\ UNCHANGED <<place, children, main>>

(***************************************************************************)
(* The runner thread.                                                      *)
(***************************************************************************)
Step(p, from, to) ==
    main = "loop" /\ place[p] = from /\ place' = [place EXCEPT ![p] = to]

AfterPipe(p, pipe) ==
    CASE pipe = "out" -> "err"
      [] pipe = "err" -> IF p \in Inputs THEN "in" ELSE "spawn"
      [] pipe = "in" -> "spawn"

Pipe(p, pipe) ==
    /\ Step(p, pipe, AfterPipe(p, pipe))
    /\ MakePipe(p, pipe)
    /\ UNCHANGED <<children, main>>

(* real_runner returns before to_child is made, and runner uses it.        *)
PipeFails(p) ==
    /\ main = "loop" /\ place[p] \in {"out", "err", "in"}
    /\ ~TwoAreFree
    /\ main' = "failed"
    /\ UNCHANGED <<descriptors, place, children>>

Spawn(p) ==
    /\ Step(p, "spawn", "close")
    /\ \E t \in Inherited(p) :
        /\ std' = [std EXCEPT ![p] = [n \in 0 .. 2 |-> t[n]]]
        /\ extra' = [extra EXCEPT ![p] = {t[n] : n \in Fds \ (0 .. 2)} \ {Free}]
    /\ child' = [child EXCEPT ![p] = "alive"]
    /\ UNCHANGED <<descriptors, main>>

(* An errno the code knows: no memory, no executable and so on.            *)
SpawnFails(p) ==
    /\ p \in Broken /\ Step(p, "spawn", "free")
    /\ UNCHANGED <<descriptors, children, main>>

(* EBADF is not one of them: assert(false).                                *)
SpawnImpossible(p) ==
    /\ main = "loop" /\ place[p] = "spawn"
    /\ Inherited(p) = {}
    /\ main' = "failed"
    /\ UNCHANGED <<descriptors, place, children>>

(* Mutant of Given: the child's standard error is forgotten.               *)
GivenOutput(p) == <<<<p, "in", "r">>, <<p, "out", "w">>>>

(* The ends only the child needs.                                          *)
Given(p) == <<<<p, "in", "r">>, <<p, "out", "w">>, <<p, "err", "w">>>>

CloseGiven(p) ==
    /\ main = "loop" /\ place[p] = "close"
    /\ CloseInOrder(p, Given(p), "scan")
    /\ UNCHANGED <<children, main>>

(* FileDescriptorInput::Read finds the end of what the child prints.       *)
ReadEnds(p) ==
    /\ main = "loop" /\ place[p] = "scan"
    /\ \E pipe \in {"out", "err"} :
        /\ fd[<<p, pipe, "r">>] # Closed /\ ~Written(p, pipe)
        /\ Close(<<p, pipe, "r">>)
    /\ UNCHANGED <<place, children, main>>

Reap(p) ==
    /\ main = "loop" /\ place[p] = "scan" /\ child[p] = "zombie"
    /\ child' = [child EXCEPT ![p] = "reaped"]
    /\ UNCHANGED <<descriptors, place, std, extra, main>>

ScanEnds(p) ==
    /\ Step(p, "scan", "free")
    /\ child[p] = "reaped"
    /\ \A pipe \in {"out", "err"} : fd[<<p, pipe, "r">>] = Closed
    /\ UNCHANGED <<descriptors, children, main>>

(* Mutant of Rest: what only the child needs is thought to be closed.      *)
RestAfterSpawn(p) == <<<<p, "out", "r">>, <<p, "in", "w">>, <<p, "err", "r">>>>

(* The ends runner closes, in its order.                                   *)
Rest(p) == <<<<p, "in", "r">>, <<p, "out", "r">>, <<p, "out", "w">>,
             <<p, "in", "w">>, <<p, "err", "r">>, <<p, "err", "w">>>>

FreeEnds(p) ==
    /\ main = "loop" /\ place[p] = "free"
    /\ CloseInOrder(p, Rest(p), "over")
    /\ UNCHANGED <<children, main>>

(***************************************************************************)
(* The main thread.                                                        *)
(***************************************************************************)
Clean(p) ==
    /\ Step(p, "over", "cleaned")
    /\ UNCHANGED <<descriptors, children, main>>

(* The controller has gone: reading finds the end, writing fails.          *)
LoseController ==
    /\ main = "loop"
    /\ \E e \in {ControllerIn, ControllerOut} :
        fd[e] \in Losable /\ Close(e)
    /\ UNCHANGED <<place, children, main>>

MainExits ==
    /\ main = "loop"
    /\ fd[ControllerIn] = Closed
    /\ \A p \in Ids : place[p] \in {"none", "cleaned"}
    /\ main' = "exited"
    /\ UNCHANGED <<descriptors, place, children>>

(***************************************************************************)
(* The children: one may close what it was given, and ends.                *)
(***************************************************************************)
ChildCloses(p) ==
    /\ main = "loop" /\ child[p] = "alive"
    /\ std[p][0] # Free
    /\ std' = [std EXCEPT ![p][0] = Free]
    /\ UNCHANGED <<descriptors, place, child, extra, main>>

ChildEnds(p) ==
    /\ main = "loop" /\ child[p] = "alive"
    /\ child' = [child EXCEPT ![p] = "zombie"]
    /\ std' = [std EXCEPT ![p] = NoStandard]
    /\ extra' = [extra EXCEPT ![p] = {}]
    /\ UNCHANGED <<descriptors, place, main>>

(* The loops of main and of the runners find nothing to do and nap; after  *)
(* the end nothing happens.                                                *)
Nap == UNCHANGED vars

(* What happens to a process without anybody's doing.                      *)
Progress(p) ==
    \/ \E pipe \in {"out", "err", "in"} : Pipe(p, pipe)
    \/ PipeFails(p) \/ SpawnFails(p) \/ Spawn(p) \/ SpawnImpossible(p)
    \/ CloseGiven(p) \/ ReadEnds(p) \/ Reap(p) \/ ScanEnds(p) \/ FreeEnds(p) \/ Clean(p)

Next ==
    \/ \E p \in Ids : \/ Run(p) \/ EndFeed(p) \/ WriteFails(p)
                      \/ Progress(p) \/ ChildCloses(p) \/ ChildEnds(p)
    \/ LoseController \/ MainExits \/ Nap

Spec == Init /\ [][Next]_vars

(* Threads run, and every child ends some time, whatever it was fed;       *)
(* nobody has to give a command.  No step can be taken for ever, so that   *)
(* it is enough to ask that one of these is taken while there is one.      *)
Fairness ==
    WF_vars((\E p \in Ids : ChildEnds(p) \/ Progress(p)) \/ MainExits)

FairSpec == Spec /\ Fairness

----------------------------------------------------------------------------
Places == {"none", "out", "err", "in", "spawn", "close", "scan", "free", "over", "cleaned"}

(* Every variable has the shape the code gives it.                         *)
TypeOK ==
    /\ table \in [Fds -> Ends \cup {Free}] /\ owners \in [Fds -> Ends \cup {Free}]
    /\ fd \in [Ends -> Fds \cup {Closed}]
    /\ place \in [Ids -> Places]
    /\ child \in [Ids -> {"none", "alive", "zombie", "reaped"}]
    /\ std \in [Ids -> [0 .. 2 -> Ends \cup {Free}]]
    /\ extra \in [Ids -> SUBSET Ends]
    /\ main \in {"loop", "exited", "failed"}

(* What an object takes for its descriptor is its own, although numbers    *)
(* are used again at once by other threads: nobody reads, writes or closes *)
(* a descriptor of somebody else, and none is lost from the map.           *)
OwnersAgree ==
    /\ \A n \in Fds \ {2} : owners[n] = table[n]
    /\ \A e \in Ends, n \in Fds : fd[e] = n <=> owners[n] = e

(* When the runner is over datalackey holds no end of its process,         *)
(* whatever failed on the way.                                             *)
NoLeak ==
    \A p \in Ids : place[p] \in {"over", "cleaned"} =>
        \A n \in Fds : table[n] # Free => table[n][1] # p

(* The descriptors a child is to have, and those it gets when the end that *)
(* its errors are written to has the number 1: by the time it is to be     *)
(* duplicated its output has taken its place, and then 1 is closed.        *)
OwnEnd(p, n) ==
    CASE n = 0 -> IF p \in Inputs THEN <<p, "in", "r">> ELSE Free
      [] n = 1 -> <<p, "out", "w">>
      [] n = 2 -> <<p, "err", "w">>

MixedEnd(p, n) ==
    CASE n = 0 -> OwnEnd(p, 0)
      [] n = 1 -> Free
      [] n = 2 -> <<p, "out", "w">>

(* Every child starts with its own pipes as standard input, output and     *)
(* error, whatever numbers the other ends of its pipes got, also those of  *)
(* standard descriptors that datalackey has lost.  The number 1 for its    *)
(* errors is the exception: such a child has no output and its errors are  *)
(* read as its output.                                                     *)
StartedWired ==
    [][\A p \in Ids : (child[p] = "none" /\ child'[p] = "alive") =>
            \A n \in 0 .. 2 :
                std'[p][n] = IF fd[<<p, "err", "w">>] = 1 THEN MixedEnd(p, n)
                                                          ELSE OwnEnd(p, n)]_vars

(* What can stop datalackey in the middle: there is no room for a pipe, or *)
(* one of a child's ends has the number of a standard descriptor that      *)
(* datalackey has lost, and is closed before it is to be duplicated.       *)
NoRoom(p) == place[p] \in {"out", "err", "in"} /\ ~TwoAreFree

StandardTaken(p) ==
    /\ place[p] = "spawn"
    /\ fd[<<p, "out", "w">>] = 1 \/ (p \in Inputs /\ fd[<<p, "in", "r">>] \in {0, 1})

FailureHasCause == main = "failed" => \E p \in Ids : NoRoom(p) \/ StandardTaken(p)

(* Unless it stops so, every process that was started before the           *)
(* controller went comes to its end and is cleaned up, and datalackey      *)
(* exits, although children inherit ends of each other and a runner waits  *)
(* until nobody holds the other end.                                       *)
AllEnd == [](main # "failed") => (fd[ControllerIn] = Closed ~> main = "exited")

(* "Use file actions to close pipes in child.": when end-feed has closed a *)
(* child's input, the child reads to the end of it.                        *)
EndFeedReachesChild ==
    \A p \in Ids : (place[p] = "scan" /\ p \in Inputs /\ fd[<<p, "in", "w">>] = Closed) =>
        ~Written(p, "in")

(* "assert(false)" after "Unexpected posix_spawn err".                     *)
SpawnIsPossible == \A p \in Ids : place[p] = "spawn" => Inherited(p) # {}
============================================================================
