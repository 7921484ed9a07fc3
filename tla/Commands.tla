------------------------------ MODULE Commands ------------------------------
(***************************************************************************)
(* One command, from the text of its message to its replies:               *)
(* CommandHandlerJSON::End looks at the elements, the CommandDescription   *)
(* validates the arguments, and Perform goes through them again, for run   *)
(* and feed with a parser of its own that relies on what was validated.    *)
(*                                                                         *)
(* Sequences are counted from one here, so the reported number of          *)
(* arguments, PastLastIndex, is the place of the last one reported.  The   *)
(* Output is open: with a closed one, or one without a format, replies are *)
(* discarded.                                                              *)
(***************************************************************************)
EXTENDS JsonWriter, FiniteSets, TLC

CONSTANT Messages   \* the messages that may come, sequences of elements

ASSUME MessagesAssumption == Messages \subseteq Seq([kind : STRING, text : STRING])

(* Elements: the values of JsonWriter, and those that no command takes: a  *)
(* number with a fraction, true, false, an array or an object, and         *)
(* something that does not parse.                                          *)
Fraction == [kind |-> "fraction", text |-> ""]
Other == [kind |-> "other", text |-> ""]
Broken == [kind |-> "broken", text |-> ""]
SimpleKinds == {"string", "number", "null"}

VARIABLES
    message,   \* the elements of the array that came
    place,     \* "end", "validate", "feed", "run", "over" or "fault"
    loc,       \* the argument the loop of validate, feed or Run is at
    seen,      \* feed's seen_names
    run,       \* what Run has found in the arguments so far
    replies,   \* the messages that were written
    started    \* whether a process was made: it sends "done" when it ends

vars == <<message, place, loc, seen, run, replies, started>>

NothingFound == [env |-> {}, input |-> FALSE, outputs |-> {}, names |-> << >>,
                 prefix |-> "", postfix |-> "", notify |-> FALSE, directory |-> "", program |-> ""]

Init ==
    /\ message \in Messages
    /\ place = "end" /\ loc = 1 /\ seen = {} /\ run = NothingFound
    /\ replies = << >> /\ started = FALSE

id == message[1]
name == message[2].text
args == SubSeq(message, 3, Len(message))

(***************************************************************************)
(* The descriptions.  A part takes values of some kinds, and strings of    *)
(* some texts when texts is not empty.                                     *)
(***************************************************************************)
SubString == [kinds |-> {"string"}, texts |-> {}]
SubStringNull == [kinds |-> {"string", "null"}, texts |-> {}]
SubAny == [kinds |-> SimpleKinds, texts |-> {}]
SubStringChoice(choices) == [kinds |-> {"string"}, texts |-> choices]

Sub(n, parts) == [name |-> n, parts |-> parts]

FeedSubs == <<Sub("input", <<SubString, SubString>>), Sub("direct", <<SubAny, SubString>>)>>

RunSubs ==
  <<Sub("env", <<SubString, SubAny>>), Sub("env-clear", << >>),
    Sub("output", <<SubString, SubStringNull>>),
    Sub("output-prefix", <<SubString>>), Sub("output-postfix", <<SubString>>),
    Sub("in", <<SubStringChoice({"JSON"}), SubStringChoice({"stdin"})>>),
    Sub("out", <<SubStringChoice({"JSON", "bytes"}), SubStringChoice({"stdout", "stderr"})>>),
    Sub("notify", <<SubStringChoice({"data", "process"})>>),
    Sub("change-directory", <<SubString>>), Sub("program", <<SubString>>)>>

Parameterless == {"no-op", "version", "storage-info"}

(* Each command has one of the descriptions.                               *)
Description ==
    [c \in Parameterless \cup {"get", "delete", "rename", "end-feed", "terminate", "feed", "run"} |->
        CASE c \in Parameterless -> "parameterless"
          [] c \in {"get", "delete"} -> "strings"
          [] c = "rename" -> "pairs"
          [] c \in {"end-feed", "terminate"} -> "list"
          [] c \in {"feed", "run"} -> c]

Subs == IF name = "feed" THEN FeedSubs ELSE RunSubs

(***************************************************************************)
(* Replies.  Writable discards what is written for a null identifier.      *)
(***************************************************************************)
Send(messages) == replies' = IF id = Null THEN replies ELSE replies \o messages

Reply(class, type, rest) == Message(id, class, type, rest)
Done == Reply("done", "", << >>)

(* Messages without an identifier are sent to anybody.                     *)
Announce(type, rest) == replies' = Append(replies, Message(Null, "error", type, rest))

Finish == place' = "over" /\ UNCHANGED <<message, loc, seen, run, started>>

(***************************************************************************)
(* CommandHandlerJSON::End.                                                *)
(***************************************************************************)
Whole == \A k \in DOMAIN message : message[k] # Broken
HasIdentifier == Whole /\ message # << >> /\ id.kind \in SimpleKinds
HasCommand == /\ HasIdentifier /\ Len(message) > 1
              /\ message[2].kind = "string" /\ name \in DOMAIN Description
BadArguments == {k \in 3 .. Len(message) : message[k].kind \notin SimpleKinds}

BadFormat ==
    /\ place = "end" /\ ~Whole
    /\ Announce("format", << >>)
    /\ Finish

BadIdentifier ==
    /\ place = "end" /\ Whole /\ ~HasIdentifier
    /\ Announce("identifier", <<Str(IF message = << >> THEN "missing" ELSE "invalid")>>)
    /\ Finish

BadCommand ==
    /\ place = "end" /\ HasIdentifier /\ ~HasCommand
    /\ LET what == CASE Len(message) = 1 -> <<Str("missing")>>
                     [] Len(message) > 1 /\ message[2].kind # "string" -> <<Str("not-string")>>
                     [] OTHER -> <<Str("unknown"), message[2]>>
       IN Send(<<Reply("error", "command", what), Done>>)
    /\ Finish

BadArgument ==
    /\ place = "end" /\ HasCommand /\ BadArguments # {}
    /\ \E k \in BadArguments :
        /\ \A j \in BadArguments : k <= j
        /\ Send(<<Reply(name, "error", <<Str("argument"),
                        Str(IF message[k] = Fraction THEN "not-integer" ELSE "invalid")>>),
                  Done>>)
    /\ Finish

Execute ==
    /\ place = "end" /\ HasCommand /\ BadArguments = {}
    /\ place' = "validate"
    /\ UNCHANGED <<message, loc, seen, run, replies, started>>

(***************************************************************************)
(* CommandDescription::Validate.                                           *)
(***************************************************************************)
Flaw(what, past) == [what |-> what, past |-> past]
Fine == Flaw("", 0)

(* Mutant of Reject: "done" is not sent.                                   *)
RejectOnly(flaw) ==
    /\ Send(<<Reply("error", flaw.what, <<id, message[2]>> \o SubSeq(args, 1, flaw.past))>>)
    /\ Finish

Reject(flaw) ==
    /\ Send(<<Reply("error", flaw.what, <<id, message[2]>> \o SubSeq(args, 1, flaw.past)), Done>>)
    /\ Finish

Accept ==
    /\ place' = IF Description[name] \in {"feed", "run"} THEN Description[name] ELSE "perform"
    /\ loc' = IF Description[name] = "feed" THEN 2 ELSE 1
    /\ UNCHANGED <<message, seen, run, replies, started>>

NotStrings == {k \in DOMAIN args : args[k].kind # "string"}

ListFlaw ==
    CASE Description[name] = "parameterless" ->
            IF args = << >> THEN Fine ELSE Flaw("unexpected", Len(args))
      [] Description[name] # "parameterless" /\ args = << >> -> Flaw("missing", 0)
      [] Description[name] = "pairs" /\ Len(args) % 2 # 0 -> Flaw("pairless", Len(args))
      [] Description[name] \in {"strings", "pairs"} /\ NotStrings # {} ->
            Flaw("not-string", CHOOSE k \in NotStrings : \A j \in NotStrings : k <= j)
      [] OTHER -> Fine

ValidateList ==
    /\ place = "validate" /\ Description[name] \notin {"feed", "run"}
    /\ IF ListFlaw = Fine THEN Accept ELSE Reject(ListFlaw)

(* The Validate of one part of a subcommand.                               *)
PartFlaw(part, at) ==
    CASE args[at].kind \notin part.kinds ->
            Flaw(IF "null" \in part.kinds THEN "not-string-null" ELSE "not-string", at)
      [] args[at].kind \in part.kinds /\ part.texts # {} /\ args[at].text \notin part.texts ->
            Flaw("unknown", at)
      [] OTHER -> Fine

Named(at) == {k \in DOMAIN Subs : args[at] = Str(Subs[k].name)}
PartsAt(at) == Subs[CHOOSE k \in Named(at) : TRUE].parts

(* Mutant of TooFew: off by one.                                           *)
TooFewButOne(parts, at) == Len(args) + 1 < at + Len(parts)

TooFew(parts, at) == Len(args) < at + Len(parts)

(* The subcommands in turn: the name of one fits or none does.  All of its *)
(* parts have to be there before any is looked at.                         *)
SubFlaw(at) ==
    CASE args[at].kind # "string" -> Flaw("not-string", at)
      [] args[at].kind = "string" /\ Named(at) = {} -> Flaw("unknown", at)
      [] Named(at) # {} /\ TooFew(PartsAt(at), at) -> Flaw("missing", Len(args))
      [] OTHER ->
            LET parts == PartsAt(at)
                flawed == {k \in DOMAIN parts :
                            at + k <= Len(args) /\ PartFlaw(parts[k], at + k) # Fine}
            IN IF flawed = {} THEN Fine
               ELSE LET k == CHOOSE k \in flawed : \A j \in flawed : k <= j
                    IN PartFlaw(parts[k], at + k)

(* Mutant of LastSub: the loop goes on with the arguments of the program.  *)
NoLastSub(at) == FALSE

(* After "program" comes whatever the program wants.                       *)
LastSub(at) == name = "run" /\ args[at] = Str("program")

(* The first argument of feed is the identifier of a process.              *)
First == IF name = "feed" THEN 2 ELSE 1

ValidateFirst ==
    /\ place = "validate" /\ Description[name] \in {"feed", "run"}
    /\ IF args = << >> THEN Reject(Flaw("missing", 0))
       ELSE /\ place' = "subs" /\ loc' = First
            /\ UNCHANGED <<message, seen, run, replies, started>>

(* Mutant of ValidateSub: the flaw is reported one argument too early.     *)
ValidateSubEarly ==
    /\ place = "subs"
    /\ IF loc > Len(args) THEN Accept
       ELSE IF SubFlaw(loc) # Fine THEN Reject([SubFlaw(loc) EXCEPT !.past = @ - 1])
       ELSE IF LastSub(loc) THEN Accept
       ELSE /\ loc' = loc + 1 + Len(PartsAt(loc))
            /\ UNCHANGED <<message, place, seen, run, replies, started>>

ValidateSub ==
    /\ place = "subs"
    /\ IF loc > Len(args) THEN Accept
       ELSE IF SubFlaw(loc) # Fine THEN Reject(SubFlaw(loc))
       ELSE IF LastSub(loc) THEN Accept
       ELSE /\ loc' = loc + 1 + Len(PartsAt(loc))
            /\ UNCHANGED <<message, place, seen, run, replies, started>>

(***************************************************************************)
(* Perform.  "fault" is where an assertion fails, or looks at what is not  *)
(* there, or an argument is read that is not there.                        *)
(***************************************************************************)
Fault == place' = "fault" /\ UNCHANGED <<message, loc, seen, run, replies, started>>

Performs(names) == place = "perform" /\ name \in names

NoOperation ==
    /\ Performs({"no-op"})
    /\ Send(<<Reply(name, "", << >>), Done>>)
    /\ Finish

Commands == <<"delete", "end-feed", "feed", "get", "no-op", "rename", "run",
              "storage-info", "terminate", "version">>

Report(command) ==
    CASE Description[command] = "parameterless" -> Syntax(command)
      [] Description[command] = "feed" -> SubSyntax(command, <<Str("string-id")>>, FeedSubs)
      [] Description[command] = "run" -> SubSyntax(command, << >>, RunSubs)
      [] OTHER -> SyntaxOf(command, "string,...")

Version ==
    /\ Performs({"version"})
    /\ Send(<<Reply(name, "", <<Dictionary, Str("datalackey"), Number, Str("interface"), Number,
                                Str("commands")>>
                  \o Mapping([k \in DOMAIN Commands |-> Str(Commands[k])],
                             [k \in DOMAIN Commands |-> Report(Commands[k])]) \o <<End>>),
              Done>>)
    /\ Finish

StorageInfo ==
    /\ Performs({"storage-info"})
    /\ \E stored \in {<< >>, <<Str("a")>>, <<Str("a"), Str("b")>>} :
        Send(<<Reply(name, "", Mapping(stored, [k \in DOMAIN stored |-> Info])), Done>>)
    /\ Finish

Pick(places) == [k \in 1 .. Cardinality(places) |-> args[SetToSortSeq(places, <)[k]]]
IfAny(list, type) == IF list = << >> THEN << >> ELSE <<Reply(name, type, list)>>

(* Prepare finds the labels that are stored; reading one of them may fail, *)
(* which "messes up the whole thing".                                      *)
Get ==
    /\ Performs({"get"})
    /\ IF NotStrings # {} THEN Fault
       ELSE /\ \E stored \in SUBSET DOMAIN args : \E read \in [stored -> Readings] :
                LET found == SetToSortSeq(stored, <)
                    failing == {k \in stored : read[k] = "part"}
                IN Send(IfAny(Pick(DOMAIN args \ stored), "missing")
                        \o <<Reply(name, "", Mapping(Pick(stored),
                               [k \in 1 .. Cardinality(stored) |-> <<Raw(read[found[k]])>>]))>>
                        \o IfAny(Pick(failing), "failed") \o <<Done>>)
            /\ Finish

(* delete, rename and terminate go through their arguments, and report     *)
(* those that name nothing.                                                *)
ForEach ==
    /\ Performs({"delete", "rename", "terminate"})
    /\ IF \/ name # "terminate" /\ NotStrings # {}
          \/ name = "rename" /\ Len(args) % 2 # 0
       THEN Fault
       ELSE /\ \E missing \in SUBSET {k \in DOMAIN args : name # "rename" \/ k % 2 = 1} :
                Send(IfAny(Pick(missing), "missing") \o <<Done>>)
            /\ Finish

EndFeed ==
    /\ Performs({"end-feed"})
    /\ \E state \in [DOMAIN args -> {"open", "closed", "none"}] :
        LET In(s) == Pick({k \in DOMAIN args : state[k] = s})
        IN Send(IfAny(In("none"), "missing") \o IfAny(In("closed"), "not-open") \o <<Done>>)
    /\ Finish

(***************************************************************************)
(* Processes::Feed.  ProcessInput encodes what is given directly with an   *)
(* encoder of its own, in which nothing is open.  For a number the         *)
(* assertion about keys in JSONEncoder::Encode then looks at the top of an *)
(* empty stack: what it finds there, and whether it gets that far, is      *)
(* undefined.  Without assertions nothing is looked at.                    *)
(***************************************************************************)
FeedRefused ==
    /\ place = "feed" /\ loc = 2
    /\ \E why \in {"not-found", "closed"} :
        Send(<<Reply(name, "error", <<Str(why)>>), Done>>)
    /\ Finish

DirectNumber == args[loc].text = "direct" /\ args[loc + 1].kind = "number"

FeedInput ==
    /\ place = "feed" /\ loc <= Len(args)
    /\ IF \/ loc + 2 > Len(args) \/ args[loc].text \notin {"input", "direct"}
          \/ args[loc + 2].kind # "string"
          \/ args[loc].text = "input" /\ args[loc + 1].kind # "string"
       THEN Fault
       ELSE \/ DirectNumber /\ Fault
            \/ /\ args[loc + 2].text \in seen
               /\ Send(<<Reply(name, "error", <<args[loc], Str("duplicate"), args[loc + 2]>>), Done>>)
               /\ Finish
            \/ /\ args[loc + 2].text \notin seen
               /\ seen' = seen \cup {args[loc + 2].text}
               /\ loc' = loc + 3
               /\ UNCHANGED <<message, place, run, replies, started>>

InputLabels == {k \in DOMAIN args : k % 3 = 0 /\ args[k - 1].text = "input"}

(* What could not be prepared is missing, else the process is fed.         *)
FeedDone ==
    /\ place = "feed" /\ loc > Len(args)
    /\ \E missing \in SUBSET InputLabels :
        Send((IF missing = {} THEN << >>
              ELSE <<Reply(name, "error", <<Str("missing")>> \o Pick(missing))>>) \o <<Done>>)
    /\ Finish

(***************************************************************************)
(* Processes::Run.                                                         *)
(***************************************************************************)
RunError(what) == Send(<<Reply(name, "error", what), Done>>) /\ Finish

(* The identifier is looked up before the arguments are read, and again    *)
(* before the process is made.                                             *)
InUse ==
    /\ \/ place = "run" /\ loc = 1
       \/ place = "start"
    /\ RunError(<<Str("identifier"), Str("in-use")>>)

Found(n, what) ==
    /\ run' = what
    /\ loc' = loc + n
    /\ UNCHANGED <<message, place, seen, replies, started>>

(* A branch of the loop, for a command with n elements in all.             *)
Branch(command, n, step) ==
    /\ place = "run" /\ loc <= Len(args) /\ args[loc].text = command
    /\ IF loc + n - 1 > Len(args) THEN Fault ELSE step

(* The text of the k-th argument of the subcommand.                        *)
Text(k) == args[loc + k].text

(* A name with an equals sign is "=" here.                                 *)
RunEnv == Branch("env", 3,
    IF Text(1) = "=" THEN RunError(<<Str("env"), Str("argument"), Str("invalid"), args[loc + 1]>>)
    ELSE IF Text(1) \in run.env
    THEN RunError(<<Str("env"), Str("argument"), Str("duplicate"), args[loc + 1]>>)
    ELSE Found(3, [run EXCEPT !.env = @ \cup {Text(1)}]))

RunEnvClear == Branch("env-clear", 1, Found(1, run))

RunOutput == Branch("output", 3, Found(3, [run EXCEPT !.names = Append(@, Text(1))]))

RunPrefix == Branch("output-prefix", 2, Found(2, [run EXCEPT !.prefix = Text(1)]))
RunPostfix == Branch("output-postfix", 2, Found(2, [run EXCEPT !.postfix = Text(1)]))

RunIn == Branch("in", 3,
    IF run.input THEN RunError(<<Str("in"), Str("multiple")>>)
                 ELSE Found(3, [run EXCEPT !.input = TRUE]))

Channel == Text(2)

RunOut == Branch("out", 3,
    IF Channel \in run.outputs
    THEN RunError(<<Str("out"), Str("duplicate"), Str(Channel)>>)
    ELSE Found(3, [run EXCEPT !.outputs = @ \cup {Channel}]))

RunNotify == Branch("notify", 2,
    IF Text(1) \in {"data", "process"} THEN Found(2, [run EXCEPT !.notify = TRUE]) ELSE Fault)

RunDirectory == Branch("change-directory", 2, Found(2, [run EXCEPT !.directory = Text(1)]))

(* The rest of the arguments are the program's.  Anything else fails an    *)
(* assertion.                                                              *)
RunProgram ==
    /\ place = "run" /\ loc <= Len(args)
    /\ \A k \in DOMAIN RunSubs :
        RunSubs[k].name # "program" => args[loc].text # RunSubs[k].name
    /\ IF args[loc].text = "program" /\ loc < Len(args)
       THEN Found(Len(args) + 1 - loc, [run EXCEPT !.program = Text(1)])
       ELSE Fault

(* What can be wrong with all the arguments together, in the order in      *)
(* which Run finds it.  The file system is asked about the directory and   *)
(* the program; without a program there is none to be found.  Why one is   *)
(* not found is said when errno says it.                                   *)
Duplicates == {k \in DOMAIN run.names : \E j \in 1 .. k - 1 : run.names[j] = run.names[k]}

Renames == run.names # << >> \/ run.prefix # "" \/ run.postfix # ""

(* Mutant of Consistent: notifications need no input.                      *)
ConsistentOutputs == Duplicates = {} /\ (Renames => run.outputs # {})

Consistent == /\ run.notify => run.input
              /\ Duplicates = {}
              /\ Renames => run.outputs # {}

Collected == place = "run" /\ loc > Len(args)

RunInconsistent ==
    /\ Collected /\ ~Consistent
    /\ RunError(CASE run.notify /\ ~run.input -> <<Str("notify"), Str("no-input")>>
                  [] ~(run.notify /\ ~run.input) /\ Duplicates # {} ->
                        <<Str("output"), Str("duplicate"),
                          Str(run.names[CHOOSE k \in Duplicates : \A j \in Duplicates : k <= j])>>
                  [] OTHER -> <<Str("out"), Str("missing")>>)

RunNoDirectory ==
    /\ Collected /\ (run.notify => run.input)
    /\ run.directory # ""
    /\ RunError(<<Str("change-directory"), Str(run.directory), Str("message")>>)

RunNoProgram ==
    /\ Collected /\ Consistent
    /\ \E reason \in {<< >>, <<Str("message")>>} :
        RunError(<<Str("program"), Str(run.program)>> \o reason)

RunFound ==
    /\ Collected /\ Consistent
    /\ run.program # ""
    /\ place' = "start"
    /\ UNCHANGED <<message, loc, seen, run, replies, started>>

RunStart ==
    /\ place = "start"
    /\ place' = "over"
    /\ started' = TRUE
    /\ UNCHANGED <<message, loc, seen, run, replies>>

Over == place \in {"over", "fault"} /\ UNCHANGED vars

Next ==
    \/ BadFormat \/ BadIdentifier \/ BadCommand \/ BadArgument \/ Execute
    \/ ValidateList \/ ValidateFirst \/ ValidateSub
    \/ NoOperation \/ Version \/ StorageInfo \/ Get \/ ForEach \/ EndFeed
    \/ FeedRefused \/ FeedInput \/ FeedDone
    \/ InUse \/ RunEnv \/ RunEnvClear \/ RunOutput \/ RunPrefix \/ RunPostfix
    \/ RunIn \/ RunOut \/ RunNotify \/ RunDirectory \/ RunProgram
    \/ RunInconsistent \/ RunNoDirectory \/ RunNoProgram \/ RunFound \/ RunStart
    \/ Over

Spec == Init /\ [][Next]_vars

----------------------------------------------------------------------------
(* Two pieces of code read the arguments one after the other: what         *)
(* validation lets through, Perform, feed and Run go through to the end    *)
(* without an assertion that fails, an argument that is not there or a     *)
(* value of the wrong type.  There is one exception: feed may stop at a    *)
(* number that is to be given directly, though "value-string|integer|null" *)
(* is what version reports for it.                                         *)
ValidatedCanBePerformed ==
    place = "fault" => name = "feed" /\ loc \in 2 .. Len(args) - 2 /\ DirectNumber

(* A reference for the syntax that "version" reports: args[i .. j - 1] is  *)
(* a subcommand, or the beginning of one.                                  *)
Begins(s, i, j) ==
    /\ i < j => args[i] = Str(s.name)
    /\ j <= i + 1 + Len(s.parts)
    /\ \A k \in DOMAIN s.parts : i + k < j => PartFlaw(s.parts[k], i + k) = Fine

IsSub(s, i, j) == Begins(s, i, j) /\ j = i + 1 + Len(s.parts)

SubSet == {Subs[k] : k \in DOMAIN Subs}

(* The places where a subcommand, or nothing more, may come: what is       *)
(* before is cut into subcommands, "program" not among them.               *)
CutBefore[j \in First .. Len(args) + 1] ==
    \/ j = First
    \/ \E i \in First .. j - 1 : \E s \in SubSet :
            s.name # "program" /\ IsSub(s, i, j) /\ CutBefore[i]

Boundaries == {j \in First .. Len(args) + 1 : CutBefore[j]}

InSyntax ==
    CASE Description[name] = "parameterless" -> args = << >>
      [] Description[name] \in {"strings", "pairs"} ->
            /\ args # << >> /\ \A k \in DOMAIN args : args[k].kind = "string"
            /\ Description[name] = "pairs" => Len(args) % 2 = 0
      [] Description[name] = "list" -> args # << >>
      [] Description[name] = "feed" -> args # << >> /\ Len(args) + 1 \in Boundaries
      [] Description[name] = "run" ->
            /\ args # << >>
            /\ \E i \in Boundaries :
                \/ i = Len(args) + 1
                \/ \E s \in SubSet : s.name = "program" /\ i < Len(args) /\ IsSub(s, i, i + 2)

Rejected == place = "over" /\ replies # << >> /\ replies[1].class = "error"
                           /\ HasCommand /\ BadArguments = {}

(* A command is performed if its arguments have the syntax, and rejected   *)
(* if they do not.                                                         *)
SyntaxIsEnforced ==
    /\ place \in {"perform", "feed", "run"} /\ (place = "perform" \/ loc = First) => InSyntax
    /\ Rejected => ~InSyntax

Reported == SubSeq(replies[1].rest, 3, Len(replies[1].rest))

(* Some command begins with the first j - 1 arguments.                     *)
CanGoOn(j) ==
    \E i \in Boundaries : i <= j /\ \E s \in SubSet : Begins(s, i, j)

(* The reply that rejects the arguments of feed or run repeats them up to  *)
(* the first that cannot follow those before it, or all of them when there *)
(* are too few.                                                            *)
RejectionShowsWhere ==
    (Rejected /\ Description[name] \in {"feed", "run"} /\ args # << >>) =>
        /\ Reported = SubSeq(args, 1, Len(Reported))
        /\ IF replies[1].type = "missing"
           THEN Reported = args
           ELSE CanGoOn(Len(Reported)) /\ ~CanGoOn(Len(Reported) + 1)

(* A command with an identifier is done once, in the last reply, or starts *)
(* a process, which has it to send; without one there is an error, and a   *)
(* null identifier asks for silence.                                       *)
DoneReplies == {k \in DOMAIN replies : replies[k].class = "done"}

DoneOnce ==
    place = "over" =>
        CASE ~HasIdentifier -> Len(replies) = 1 /\ DoneReplies = {}
          [] HasIdentifier /\ id = Null -> replies = << >>
          [] HasIdentifier /\ id # Null /\ started -> replies = << >>
          [] OTHER -> DoneReplies = {Len(replies)}

(* A process is started with one input at most, and none of its outputs,   *)
(* variables and output names given twice; notifications have an input to  *)
(* go to, and renamed results an output to come from.                      *)
Times(command, k, text) ==
    Cardinality({i \in Boundaries : i + k <= Len(args) /\ args[i] = Str(command)
                                                      /\ args[i + k].text = text})

StartedRunIsSound ==
    started =>
        /\ Times("in", 1, "JSON") <= 1
        /\ \A c \in {"stdout", "stderr"} : Times("out", 2, c) <= 1
        /\ \A n \in {args[k].text : k \in DOMAIN args} :
                Times("env", 1, n) <= 1 /\ Times("output", 1, n) <= 1
        /\ (Times("notify", 1, "data") > 0) => Times("in", 1, "JSON") = 1
        /\ (Times("output", 0, "output") > 0) =>
                Times("out", 2, "stdout") + Times("out", 2, "stderr") > 0
=============================================================================
