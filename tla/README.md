# A verification project for datalackey

datalackey stores named JSON values and runs processes that read and write
them.  A controller (or a child that was given `in JSON stdin`) sends JSON
arrays, which are commands, and JSON objects, which are data; datalackey
answers with messages, notifies of what was stored, deleted, started and ended,
and feeds stored data to processes.

This directory has TLA+ modules translated from the C++ source, TLC
configurations that check them on small instances, and proofs for TLAPS.
`PROJECT.json` lists the runs, the source lines of every definition, the
hazards, and a mutant for every property that shows what error would break it.

    tlc -config MCOutput.cfg MCOutput          # one run
    tlapm OutputProofs.tla                     # one module of proofs

## The system

Threads: the main thread (`main`: scans the controller's input, executes its
commands, deletes finished processes), one runner thread per process
(`LocalProcess::runner`: scans the child's output, executes the child's
commands, waits for the child), one feeder thread per `Output`
(`Output::feeder`: the only one that writes to a channel).

| component | state | operations | correct when |
|---|---|---|---|
| `Storage`: `MemoryStorage`, `DirectoryStorage` | map of labels to values, the next serial, a mutex; in a directory also the files, the indexes in use or freed, and the catalog | Add a group, Delete, Rename, List, Info, Prepare | groups are all or nothing; serials identify data; each file belongs to one item; restarts keep data |
| `OutputCollection`, `Storage::Notify...` | the Outputs that asked for notifications | Add, Remove, Notify | listeners can work out what is stored; no Output is used after its deletion |
| `Output`, `OutputItemBuffer`, `OutputItemWriter` | messages being written, messages and batches queued, eof, failed, three kinds of mutex | Writable, Write, End, Feed, End from outside, the feeder, the destructor | nothing accepted is lost or swapped; the destructor returns; no deadlock |
| `LocalProcesses`, `LocalProcess`, `Processes` | map of identifiers to processes, the processes to delete, who gets process notifications, per process: thread, running, pid, Output, pipes | run, feed, end-feed, terminate, CleanFinished, Finished, List, NotifyStart, NotifyEnd | each identifier runs once at a time and is reported done once; no thread or child is left behind; children know which processes there are |
| `InputScanner`, `InputScannerJSON` | recipient, depth, in string, escaping | Scan a read of any length | items are cut where JSON says, errors are contained, a zero byte resets |
| `StorageDataSinkJSON`, `DataGroup` | part, open braces and brackets, key, group | Input, End, Discard | an object is stored whole, once |
| `CommandHandlerJSON` and the commands | characters of the command | Input, End, Discard, Execute | a command is parsed from its own characters |
| `CommandDescription(s)` | parse tree of a command's arguments | validate | accepts what the description says |
| `JSONEncoder` | stack of structures | Encode | writes JSON |
| `FileDescriptor`, `FileDescriptorInput/Output` | open ends of pipes and who owns which number, what a Read left in the buffer | Pipe, Close, Read, Write | ends are closed when nobody needs them, by their owner; a child gets its own; what is read is handled |
| `Message...`, `MessageReporter` | the registered messages | Send, Report | a reported form is the form that is sent |
| `InputScannerRawMessage`, `InputScannerDiscard`, `MessageRawJSON` | an open message | Input, End | every byte is reported once |
| `Options`, `StringValueMapper...`, values | none that changes | | |

How they meet: the scanner gives ranges of characters to the data sink or the
command handler; the sink adds a group to the Storage; the Storage, after it
released its mutex, notifies the Outputs of its collection, each of which queues
the message for its feeder; a feed prepares data under the Storage's mutex and
queues it at the child's Output; the runner of a process registers the child's
Output, takes it out of the collections when the child is gone, and hands the
process to the main thread for deletion.

What makes it hard: notifications are sent after the mutex is released, by
several threads; Outputs are ended by end-feed, by errors and by deletion while
others write to them; three mutexes are taken in different orders; processes
are looked up under a mutex and used after it; the scanner passes parts of
items on before it knows that the item is good, and two automata count brackets
over the same text; the directory outlives the program, which may be killed;
descriptors are numbers that another thread gets again at once, and children
inherit every end that is open when they are started.

## Modules

| module | models | state and actions |
|---|---|---|
| `LabelStore` | what a Storage promises | a map changed by `AddGroup`, `Delete`, `Rename` in one step each, seen by `Look` |
| `MemoryStorage` | `MemoryStorage.cpp`, `Storage.cpp`, `OutputCollection.cpp`, the listing in `real_runner` | `Delete` and `Rename` are one step under the mutex, Add is `AddBegin`, `AddItem` per item, `AddUnlock`; notifications are later steps `ReadSerial`, `Notify`; a child is `Register`, `List`, `SendListed`. Values are objects whose serial Rename changes. Refines `LabelStore`, with the map as of the last release of the mutex |
| `Output` | `Output.cpp`, `OutputItem.hpp` | a place per thread; one step per section between two lock operations: `Writable` ... `EndedQueue` for a message, `FeedCheck`, `FeedPush` for a batch, `End`, `Left` for the end, `FeederTake` ... `Cleared` for the feeder and the destructor |
| `Processes` | `LocalProcesses.cpp`, `LocalProcess.cpp`, `Processes.cpp`, the main loop | the map and the list `toDelete`, a place per runner, `command` between the steps of a command. Run is `RunCheck`, `RunStart`; feed is `FeedFind`, `FeedUse`; the runner goes from `Begin` to `HasFinished`, with `Announce`, `List`, `Tell` and `NotifyStart` for the notifications of processes; `hears` are the children that are registered, `listed` what one is still to be told, `believes` what it has heard, `EndOutput` ends an Output and takes it out of `hears`; the main loop has `CleanFinished`, `MainExits` |
| `Pipes` | `FileDescriptor.cpp`, the pipes and file actions of `real_runner`, the closing in `runner` | the operating system's table, the map `owners`, `FileDescriptor::fd` of each end, a place per runner, and per child what it inherited. `Pipe` takes the two lowest numbers, `Spawn` performs the file actions on a copy of the table, `CloseInOrder` is one Close per step, so that threads interleave between them |
| `JsonText` | JSON itself, as a reference | `Start`, `Read` a character, `Complete` |
| `DataSink` | `StorageDataSinkJSON.cpp` | a record, and operators for what Input, End and Discard do to it |
| `InputScanner` | `InputScanner.cpp`, `InputScannerJSON.cpp`, the buffer of `CommandHandlerJSON.cpp` | one character per step, or `ReadEnds`; `pending` is the sink once it has been given the range that is still growing |
| `RawInput` | `FileDescriptorInput::Read`, `Scan` for input without structure, `MessageRawJSON.cpp` | numbered bytes on their way from the child to `reports`; `ReadBlock`, `NothingThere` and `ReadEnd` are what one poll finds, `ScanBuffer` the rest of `Scan` |
| `Inputs` | `MakeInputScanner` | an input is scanned by `InputScanner` or read by `RawInput` |
| `JsonWriter` | `JSONEncoder.cpp`, `Message.cpp`, the reports of `CommandDescriptions.cpp` | operators: the structures and values of each message, and the encoder as a record that `Encode` changes; a stored value is `Raw`, which is JSON in one line or is not (`Readings`) |
| `Commands` | `CommandHandlerJSON::End`, `CommandDescription(s).cpp`, the `Perform` of each command, `LocalProcesses::Run` and `feed` | one command: `BadFormat` ... `Execute` for the elements, `ValidateList`, `ValidateSub` for the arguments, an action per command, and per subcommand of run and feed. `Fault` is where an assertion would fail or an element is missing |
| `MessageReport` | the `Send` of each class in `Messages.hpp`, `ProcessMessages.hpp`, the registered messages, `MessageReporter` | the form every message has when it is sent and when it reports itself; `MessageReports` are the forms that `test/memory/report.sh:16-75` of the repository expects |
| `ReplyText` | `OutputItemWriter` | the replies of `Commands` as text, and that text read as JSON |
| `DirectoryStorage` | `DirectoryStorage.cpp`, `FileOwner.cpp`, the life of a `FileReader` | disk, catalog and memory; an item is `StartItem`, `AppendItem`, `Finish`, `Add`; the destructor is `Unlink`, `Release`; a run is `StartNew` or `StartLoad` to `Stop`, `Stored`, or `Crash`; `asserts` says which build runs: with assertions a failing one ends the run (`Killed`) and `used` remembers what was loaded (`LoadedUsed`) |
| `MC...` | | small instances |
| `MemoryStorageProofs`, `OutputProofs`, `ProcessesProofs`, `PipesProofs`, `DirectoryStorageProofs`, `CommandsProofs`, `RepliesProofs`, `InputsProofs` | | theorems |

What stays out of each module: values are serials or numbers, never contents.
In `Output` encoding is left out, `eof` and `failed` are flags that every thread
sees at once (in the code they are plain bools read without a mutex), and the
one second limit of `wait_for` lets the feeder wake at any time.  In `Processes`
the parameters of a command are accepted or refused; what a pipe does that
cannot be made is in `Pipes`, which in turn leaves out what is read and written,
the commands other than run and end-feed, and the files of the storage, which
are close-on-exec.  Its "failed" is a build with assertions, or a null pointer.
`RawInput` leaves out errors of poll and read; that reads end anywhere is part of
`InputScanner` as well, so that blocks matter to `RawInput` alone.
`DataSink` keeps of a key whether
it is empty and whether it parses, and of a group how many items it has.
`Commands` asks neither storage nor processes: what they answer is any answer,
what commands do to them is in the other modules; numbers are one value.  A
number fed directly makes an assertion of the encoder look at an empty stack
(`JSONEncoder.cpp:98`): `FeedInput` goes on or faults, as undefined behaviour may.
Stored values are JSON in one line, or are not, or could not be read to the end.
`DirectoryStorage` leaves out the serials and notifications, which repeat
`MemoryStorage`, directories below the root (indexes over 46655), and a file
system that fails.

## Runs that pass

| run | question | bounds |
|---|---|---|
| `storage` | Do the serials that listeners hear tell them what is stored, and are groups atomic? `ControllerAgrees`, `ChildMissesNothing`, `SerialIdentifiesLabel`, `SerialsRise`, `GroupsAreAtomic` | two threads, both with all operations, two labels, three serials, the controller and a child that starts at any moment. Three serials let a label be stored, replaced and renamed while the notifications of each are still out, and data be renamed twice before the first rename is announced |
| `output` | Is nothing accepted lost or swapped, does what was written and fed go out, who uses the Output after its deletion, does the destructor return, when end-feed and failures come at any time? `AcceptedMessagesSurvive`, `WrittenInOrder`, `NothingIssuedIsLost`, `NoUseAfterDelete`, `MutualExclusion`, `MessagesGetOut`, `DestructorReturns` | a writer that feeds and replies, the data notifications, two items each; `End`, both failures, and a destructor that waits for no writer but the notifiers. Deadlock is not checked: the code does deadlock here, which `output_locks` shows; `DestructorReturns` excepts that circle alone |
| `processes` | Is every run done once, does datalackey leave a thread or a child behind, and do children learn of every process? `DoneOnce`, `NoOrphans`, `ExitLeavesNothing`, `ChildMissesNoProcess` | two identifiers, up to two runs of each but three in all, so that one is used again while the other is alive; all commands by the controller, run by children; programs and threads that cannot be made. With all commands by children as well it was checked for two runs in all |
| `pipes` | Does every object hold its own descriptor, is every end closed, is a child started with its own, what can stop datalackey, and does all end otherwise once the controller is gone? `OwnersAgree`, `NoLeak`, `StartedWired`, `FailureHasCause`, `AllEnd` | two processes, started in any order by the controller or each other, one with an input; nine descriptors, all of which the process with the input needs, so that they run out for the second one unless its input was ended, it is over, or datalackey has lost 0 or 1, which a controller that is gone closes and the next pipe gets; a spawn may fail |
| `input` | Do scanner, sink and command buffer agree about the text, when is an object stored, and are bytes without structure reported once and in order? `SinkFollowsScanner`, `WellFormedIsStored`, `CommandsAreWhole`, `BytesAreReported` | every stream over eleven kinds of character, cut into reads anywhere; three brackets deep, two members, so that arrays and objects nest in each other both ways. Six bytes in blocks of two: two full blocks and more in one Read or several |
| `directory` | Are indexes exclusive and is what is stored in its own file where assertions are compiled in, and in either build, is no file left behind and does what a catalog lists survive all but deletion? `IndexesAreExclusive`, `StoredIsOnDiskAsserted`, `NoStrayFiles`, `CatalogSurvives` | two inputs, two labels, four items over any number of runs, builds with assertions and without, kills at any step. Four items make a catalog with a gap that has to be found by priming |
| `commands` | Is what validation accepts what is documented and what Perform can handle, is each command done once, is each reply a line of JSON if the stored values are, and of a form that report-commands lists? `ValidatedCanBePerformed`, `SyntaxIsEnforced`, `RejectionShowsWhere`, `DoneOnce`, `RepliesAreLines`, `StartedRunIsSound`, `RepliesAreReported` | every command with up to two arguments of seven kinds; runs of up to two subcommands of every form, with and without program, each also cut short anywhere and with any one argument replaced; runs of three subcommands and a program, feeds of two; stored values of four kinds. Two of a kind make the duplicates, three the pairs that need a third |

`TypeOK` of `MemoryStorage`, `Output`, `Processes` and `DirectoryStorage` is checked by the
run of the module that covers most of its actions; these and `TypeOK` of `Pipes` are proved.

### Fairness

`Output!Fairness`: a thread inside a message, a batch or a lock wait goes on
when it can: mutexes are released after a bounded number of steps and threads
are scheduled.  Nobody has to begin a message, call End or delete the Output.
`Pipes!Fairness`: while anything that needs nobody's doing is possible (a step of
a runner, the end of a child, the end of the main loop) one such thing is done.
No step can be taken for ever, so weak fairness of all together is enough.
`AllEnd` excepts behaviours in which datalackey stops in the middle, and only
those: what stops it is `FailureHasCause`.
Runners are threads that are scheduled; that every child ends some time is an
assumption about the children, whatever they are fed.  Nobody has to give a
command and the controller need not go.

## Runs that fail, and why

Each states what a document, comment or test of the repository says.

- `output_locks`: `OutputItemBuffer::End` takes master_mutex, then
  input_sets_mutex; `clear_buffers` and `end(false)` the other way round. A
  deadlock, where `README.md:34-36` of the repository says "without locking up".
- `processes_feed`: `Feed` goes on with an iterator after unlocking
  (`LocalProcesses.cpp:327`), and `to_child` keeps its value after deletion.
- `directory_reload`: without assertions (`-DNDEBUG`) the indexes of loaded files
  are not remembered, since `used.insert` is the argument of an `assert`; the first
  item after a restart collides with an old file and its data is dropped.
- `pipes_feed`: `FileDescriptor::Pipe` sets no close-on-exec flag, so a process
  started while the input of another is open inherits its writing end; end-feed
  closes datalackey's copy, and the other reads no end of file
  (`test/memory/feed_end.sh:45-48` of the repository expects it to end).
- `input_read`: `Read` answers 0 when nothing follows a block that was full
  (`FileDescriptorInput.cpp:39`), so the bytes stay in the buffer, unhandled until
  more come, and for good when the input ends. `InputScanner.hpp:61` of the
  repository says "Reads as much data as is available and handles it."

More properties that state what is said of the code are defined in the modules
and are violated; they have no run of their own.  To see one, give it as the
INVARIANT of the configuration named here.

| property | configuration | what happens |
|---|---|---|
| `MemoryStorage!OneLabelPerAnnouncedSerial` | `MCMemoryStorage` | `Rename` reads the serial again after the mutex was released (`MemoryStorage.cpp:147`): with two renames of the same data a label is announced under a serial that belongs to another, where `test/memory/rename.sh:31-33` of the repository expects the stored one. Then the newest serial of a label need not be its data, which is why `ControllerAgrees` speaks of serials that were announced for one label only |
| `Output!BuffersGuarded` | `MCOutput` | `end(false)` walks over `buffers` without `mutex` while `Writable` inserts; the message inserted keeps its pointer, which `NoUseAfterDelete` has to except |
| `Output!FinishedMeansNoOutputExpected` | `MCOutput` | `Finished` says nothing of batches nor of the message the feeder holds (the destructor makes up for it: `NothingIssuedIsLost`) |
| `Processes!TerminateTakesEffect` | `MCProcesses` | terminate before the new thread set `running` returns true and does nothing |
| `Processes!OnlyChildrenSignalled` | `MCProcesses` | kill may be used on a pid that waitpid has reaped |
| `Processes!ReportsReachLauncher` | `MCProcesses` | a child's process outlives the child: reports go to a deleted Output |
| `Processes!CleanFindsProcess` | `MCProcesses` | no thread can be made: the assertion in `CleanFinished` fails |
| `Processes!ChildBelievesNoGhost` | `MCProcesses` | a process that ends between the list and its telling is told to a child after its end, and stays in what the child believes |
| `Pipes!SpawnIsPossible` | `MCPipes` | datalackey's input was lost, a pipe gets descriptor 0, the file actions close it and then duplicate it: EBADF, which is an unexpected error. `LocalProcess.cpp:187-198` of the repository knows of it on macOS. `FailureHasCause` says when it comes to that |
| `MessageReport!ReportIsExact` | `MCCommands` | a missing command and one that is not a string are reported with an argument that is not sent (`Messages.cpp:50`), where `MessageReporter.hpp:17` speaks of "a report of all messages that can be sent" |
| `ReplyText!EveryReplyIsLine` | `MCCommands` | `StorageDataSinkJSON` parses no value, so that what is not JSON, or has a newline in a string, is stored, and `get` passes it on, where `README.md:28-31` of the repository says that each reply is a single line that is "fully recognizable as JSON" |
| `InputScanner!NoPartialUpdate` | `MCInputScanner` | a closing brace inside an open array ends the group, so `{"a":1,"b":[2},"c":3}` stores items of a broken object, where `README.md:119-121` of the repository says that either all items of an object are stored or none are |
| `InputScanner!WhitespaceIsIgnored` | `MCInputScanner` | white-space between a zero byte and an object makes the object refused; "White-space outside strings is ignored" (`README.md:123-124` of the repository) |
| `InputScanner!ResetRecovers` | `MCInputScanner` | after a refused object a zero byte does not reset the sink, and the next object is refused as well; "a zero byte can be used to reset the input so that proper JSON can be set after the zero byte" (`README.md:122-123`). `WellFormedIsStored` says what becomes of the object in this case and in the one above |

`DirectoryStorage` shows three more things about crashes, which no document
speaks of.  The catalog is truncated before it is written, so a kill in between
makes the next start exit with 12 (`StartRefused`).  Files of a killed run stay,
and an item that gets their index is stored without data; after the next restart
its label shows the old file (drop `~crashed` from `StoredIsOnDisk`).  And the
files loaded from a catalog stay open, so that deleting or overwriting their
labels fails the assertion in `FileOwner::Own`: with assertions no file of the
catalog ever goes (`OwnFails`).  Without, `CatalogSurvives` says that it goes by
deletion or overwriting alone; but a new item may get the index of a loaded
file, is not written, and two labels of the next catalog then share one file, so
that deleting one label takes the other's data.  That is why the property speaks
of some label with that index, and why `StoredIsOnDisk` is violated in that build.

## Proofs

For any constants that satisfy the ASSUMEs of the modules:

- `OutputProofs`: `TypeCorrect`, `Exclusion` (`MutualExclusion`), `SafeDeletion`
  (`NoUseAfterDelete`), `NoMessageLost` (`AcceptedMessagesSurvive`).  None of the
  last three is inductive by itself.  `Holders` says who holds which mutex at each
  place, which gives exclusion; `Deletion` says that a Destroyer past "leave" means
  that the Output is in no collection, so that notifiers are idle.  Direct writers
  are not waited for: `Tracked` says that while nothing failed a message that points
  to the Output is in `buffers`, or among those `clear_buffers` is about to take the
  pointer from, so that only `Writable` and `Feed` are left that may use the Output
  after its deletion, and those two are the exception that the property names.
  `Feeding` and `Kept` relate the feeder's place to `failed`, to the channel and to
  the queues, so that what leaves `ended_buffers` is current or written.  The type
  invariant is proved in four parts (places, flags, buffers, queues) over `Numbered`
  and `Holding`.
  `NothingIsSwapped` (`WrittenInOrder`): `Order` says that the items of one writer are
  in each queue in the order it issued them, and that what was taken comes before
  what is queued; that a writer uses a number once (`Issued`) and what is a message
  and what a batch (`Kinds`) make it inductive.  `EverythingIsWritten`
  (`NothingIssuedIsLost`): `due` is what was issued when the deletion began without
  an earlier End.  As long as nothing failed (`Going`), everything issued before `eof` is
  `Somewhere` (`AllThere`), messages that are open keep their pointer (`Opened`), what is
  due stays somewhere although writers go on and are refused (`DueThere`), and the
  feeder ends with nothing of it left (`Drained`).
- `MemoryStorageProofs`: `TypeCorrect`, `SerialsIdentify` (`SerialIdentifiesLabel`),
  `SerialsOnlyRise` (`SerialsRise`), `Atomicity` (`GroupsAreAtomic`).  `Naming` says
  that serials are below the next one and that a serial names one Value, and a
  Value one label; `Progress`, `AddedInOrder` and `Steady` say how far the map is
  from what it was at the last release of the mutex while a group is being added,
  which makes `AddUnlock` the step `AddGroup` of `LabelStore` and every step inside
  the mutex a stutter.

  `ChildrenMissNothing` (`ChildMissesNothing`), `ControllerIsRight`
  (`ControllerAgrees`), for any number of threads that rename.
  What an Output `Says` is what it heard and what it is still going to hear, from the
  queues of all threads and the list it is sent; a "stored" of Rename counts with
  the serial its Value has now, which is the one that will be read.  Then every
  step of the storage keeps: whoever is registered is told of the serial a label
  has, and what it is told was deleted there is older (`Latest`); every serial that
  is said was handed out (`Below`), also by a rename that is still to read it
  (`Renaming`).  For the controller, which is registered all along (`Always`), also:
  every serial handed out has a home (`Homes`), a label that has it, or lost it to a
  deletion or to a newer serial that is announced.  When nothing waits, saying is
  having heard; so a label's newest serial that was announced for no other label
  has its home there.  A serial that was announced for two, which two renames of the
  same data make, is the case in which a listener learns nothing.
- `DirectoryStorageProofs`: `TypeCorrect`, `DirectoryIsClean` (`NoStrayFiles`),
  `CatalogIsKept` (`CatalogSurvives`) in either build; `IndexesBelongToOne`
  (`IndexesAreExclusive`) and `DataIsOnDisk` (`StoredIsOnDiskAsserted`) for behaviours of a
  build with assertions, as the properties say: without, `directory_reload` shows
  that data is lost.  `References` and `Groups` say who refers to an item, `Indexing`
  that an index in use was given to an item, is not free and is no other item's;
  that the next index is then nobody's (`ChoiceIsFree`) is counting, also the gaps that
  a catalog leaves; `Ownership` and `OnDisk` relate an item's place in its life to its
  file.  For either build: every file is an item's that is there (`Accounted`), since
  the exclusive open creates none for an item whose index is taken; and what this
  run has written is under an index that no file of the catalog has (`Fresh`), so that
  a group that is thrown away takes no file of the catalog with it.
- `CommandsProofs`: `DoneExactlyOnce` (`DoneOnce`), for any messages.  `Silent`
  says that nothing is written before a command is over, so that the step which
  ends it decides what the replies are; `Known` says that past `End` the command
  has an identifier and is one of the handler's, so that no reply named after it
  can be taken for its "done".  Each action then ends with a list of replies of
  which "done" is the last and the only one (`EndsDone`), writes nothing, or is
  the announcement of a message without identifier.
  Also `ValidatedIsPerformable` (`ValidatedCanBePerformed`, the number fed directly
  being the one fault that is left), `SyntaxDecides`
  (`SyntaxIsEnforced`), `RejectionIsExact` (`RejectionShowsWhere`), `StartedIsSound`
  (`StartedRunIsSound`), for any message that is a sequence of elements with a kind
  and a text (`MessagesAssumption`).  `Agreement`: there is a set of places that
  Validate has been at, from each to the next (`Walk`); when it accepts, one of
  them ends the arguments (`Valid`), and the place of feed and Run is among them.
  `Rightly` is about the reference, `Boundaries`, which tries every way to cut the
  arguments: as far as a walk goes it is the only way (`WalkedAreBoundaries`), so
  where Validate stops nothing in the syntax can go on.  That the recursive
  function behind `Boundaries` has a value everywhere is shown with the least
  place where it has not.  `Gathered` says what the record Run fills in knows of
  each subcommand before the place it is at.
- `RepliesProofs`: `RepliesFitReport` (`RepliesAreReported`), for any message.  The invariant
  is that of `CommandsProofs` and that every reply is `Reportable`.  One lemma per
  message says which form of the report it has, for any identifier but null; an
  action then answers with a list of such replies (`ReportedList`).  Where the report
  has a place-holder for a string the proof needs what validation has seen: that
  the name of a variable is a string is known from the part of "env" that was
  found fine, and that a rejection has one of six types from the flaws there are.
  A reply with a list or a mapping fits whatever its length, so of `FlattenSeq` it
  is enough to show that it returns a sequence.
- `InputsProofs`: `ScannerAndSinkAgree` (`SinkFollowsScanner`), `CommandsStayWhole`
  (`CommandsAreWhole`), `ObjectsAreStored` (`WellFormedIsStored`), `AllBytesAreReported`
  (`BytesAreReported`), for texts of any depth and number of members and blocks of
  any size.  `Agreement` has three parts.  `Ranges` and `Buffered`: the first character of
  an item decides whose range it is, until its last.  `Following`: as long as the
  sink refuses nothing, each character moves its counts, `in_string` and `escaping` as
  it moves the scanner's (`CharFollows`), and between objects the sink is as new, has
  been given white-space, or refuses everything (`Resting`).  `Matching`: inside an object that is well formed so
  far, the brackets the reference has open are as many of each kind as the sink
  counts, and its part, key and group are those the reference expects
  (`CharMatches`); so the brace that completes the text is the one that gives the
  group away.  That is so if the sink was `Ready`; if not it has refused the first
  character it was given of the object (`Refusing`), and the stream goes bad.  With arrays inside objects this rests on the reference keeping the
  order of the brackets, which the sink forgets: the two agree for well-formed
  objects only (see `NoPartialUpdate` above).  `RawAgreement` is about whole blocks
  (`Blocks`); what the reports come to when one is appended is shown with the
  least number of reports for which it would be something else.  That all that is
  read is reported is not so (`input_read`).
- `ProcessesProofs`: `TypeCorrect`, `NobodyIsOrphaned` (`NoOrphans`), `NothingIsLeft`
  (`ExitLeavesNothing`), `EachIsDoneOnce` (`DoneOnce`), `NoProcessIsMissed`
  (`ChildMissesNoProcess`), for any identifiers and numbers of runs.  `TypeInv`
  includes who holds `processes_mutex` (`Locking`).  `Phases` ties the place of a runner
  to its child, `running` and the list `toDelete`; with it and `NoOrphans` an empty map
  means that nothing runs (`Exits`).  `DoneOnce` is inductive by itself, once the
  types are known.  A child `Listens` from its registration until it was waited
  for or its Output ended, by end-feed or a failure, which takes it out of `hears`;
  `Hearing` says that what a listening child does not believe is in the list it is
  still to be told, or not announced yet.
- `PipesProofs`: `TypeCorrect`, `NobodyElsesDescriptor` (`OwnersAgree`), `NothingLeaks`
  (`NoLeak`), `ChildrenAreWired` (`StartedWired`), `FailuresHaveCauses`
  (`FailureHasCause`), for any number of processes and descriptors and whatever
  datalackey has lost of its own.  The invariant adds what is known of
  descriptor 2, which has no object, and which ends of a process are not open
  at each place of its runner: a pipe is made for ends that are not open, and
  a runner is over when the last of the six is closed.  That the lowest number
  of a set exists comes from the well-foundedness of the naturals.  For
  `ChildrenAreWired` also: the ends that a runner has opened so far are open
  (`OpenedInv`), none has the number 2, and no writing end has 0, since a pipe gives
  the lower number to the reading end (`NumbersInv`); then the seven file actions one
  after the other (`After`, a recursive function whose value exists for the least
  list without one) either fail, or leave in 0, 1 and 2 what `Wiring` says: its own
  ends, but when the writing end of its errors has the number 1, which is
  overwritten before it is duplicated.  For `FailuresHaveCauses`: when no table comes
  out of the actions (`Inherited`), one of the ends that are duplicated was closed by
  the actions before, which its number tells (`StandardTaken`).

Only model-checked: the liveness properties `MessagesGetOut`, `DestructorReturns` and
`AllEnd` (the prover does not reach liveness under fairness, nor ENABLED); `RepliesAreLines`
(texts that are folded and parsed, which is an induction over data; `ReplyText` has
recursive operators).

Two things the modules show that are nobody's promise: `LocalProcess::terminate`
is read but false from the constructor on, so "run terminated" is never sent; and the list of
messages in `test/memory/report.sh` is exactly `MessageReports`.

## Not modelled

`PROJECT.json` lists every component with its status.  Left out for good: the
wording of messages; options and start-up, which are sequential and end before
the first thread starts; the values and their classes, of which the modules
keep the identity; label mapping, which is a prefix, a postfix and a map.  Of
`DirectoryStorage`: its serials, notifications and the mutex of its map, which
repeat `MemoryStorage`, directories below the root, and a file system that fails.

## Plan

1. `DirectoryStorage`: two formats and the serial order of the catalog.
2. Messages from the children composed with the Output of their launcher.
