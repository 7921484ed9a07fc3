--------------------------- MODULE CommandsProofs ---------------------------
(***************************************************************************)
(* What holds of Commands for any messages: that each command is done      *)
(* once, and that validation and Perform agree about its arguments.        *)
(***************************************************************************)
EXTENDS Commands, SequenceTheorems, FiniteSetTheorems, WellFoundedInduction, TLAPS

(***************************************************************************)
(* Lists of replies that end with "done" and have no other.                *)
(***************************************************************************)
IsDone(m) == m.class = "done"

EndsDone(messages) ==
    /\ << >> \o messages = messages
    /\ {k \in DOMAIN messages : IsDone(messages[k])} = {Len(messages)}

LEMMA OneReply == ASSUME NEW d, IsDone(d) PROVE EndsDone(<<d>>)
  BY DEF EndsDone

LEMMA TwoReplies == ASSUME NEW a, NEW d, ~IsDone(a), IsDone(d) PROVE EndsDone(<<a, d>>)
  BY DEF EndsDone

LEMMA DoneLast ==
  ASSUME NEW S, \A m \in S : ~IsDone(m), NEW list \in Seq(S), NEW d, IsDone(d)
  PROVE  EndsDone(list \o <<d>>)
  <1> DEFINE T == S \cup {d}
             all == list \o <<d>>
  <1>1. list \in Seq(T) /\ <<d>> \in Seq(T) /\ << >> \in Seq(T)
    OBVIOUS
  <1>2. /\ all \in Seq(T) /\ Len(all) = Len(list) + 1
        /\ \A k \in 1 .. Len(list) : all[k] = list[k]
        /\ all[Len(list) + 1] = d
    BY <1>1, ConcatProperties
  <1>3. << >> \o all = all
    BY <1>2, ConcatEmptySeq
  <1>4. \A k \in 1 .. Len(list) : ~IsDone(all[k])
    BY <1>2
  <1>5. DOMAIN all = 1 .. Len(list) + 1 /\ Len(list) \in Nat
    BY <1>2
  <1> HIDE DEF all
  <1>6. {k \in DOMAIN all : IsDone(all[k])} = {Len(all)}
    BY <1>2, <1>4, <1>5
  <1>7. QED
    BY <1>3, <1>6 DEF EndsDone, all

(***************************************************************************)
(* The invariant: nothing is written and no process made before the        *)
(* command is over, and after End has looked at it the command is known.   *)
(***************************************************************************)
Silent == place # "over" => replies = << >> /\ started = FALSE
Known == place \notin {"end", "over"} => HasCommand
IInv == Silent /\ Known /\ DoneOnce

LEMMA CommandName == HasCommand => HasIdentifier /\ name # "done"
  BY DEF HasCommand, Description, Parameterless

LEMMA NotDone == ASSUME HasCommand, NEW type, NEW rest PROVE ~IsDone(Reply(name, type, rest))
  BY CommandName DEF IsDone, Reply, Message

LEMMA ErrorNotDone == ASSUME NEW type, NEW rest PROVE ~IsDone(Reply("error", type, rest))
  BY DEF IsDone, Reply, Message

LEMMA DoneIsDone == IsDone(Done)
  BY DEF IsDone, Done, Reply, Message

LEMMA SameMessage ==
  ASSUME UNCHANGED message
  PROVE  HasIdentifier' = HasIdentifier /\ HasCommand' = HasCommand /\ id' = id
  BY DEF HasIdentifier, HasCommand, Whole, id, name

(* A step that writes replies of which the last, only, is "done".          *)
LEMMA Finished ==
  ASSUME IInv, HasIdentifier, place # "over", NEW list, EndsDone(list), Send(list), Finish
  PROVE  IInv'
  <1>1. place' = "over" /\ started' = FALSE
    BY DEF Finish, IInv, Silent
  <1>2. replies' = IF id = Null THEN << >> ELSE list
    BY DEF Send, EndsDone, IInv, Silent
  <1>3. HasIdentifier' /\ id' = id
    BY SameMessage DEF Finish
  <1>4. id # Null => DoneReplies' = {Len(replies')}
    BY <1>2 DEF DoneReplies, EndsDone, IsDone
  <1>5. QED
    BY <1>1, <1>2, <1>3, <1>4 DEF IInv, Silent, Known, DoneOnce

(* A step that writes nothing.                                             *)
LEMMA Continued ==
  ASSUME IInv, HasCommand, place' # "over", UNCHANGED <<message, replies, started>>,
         place # "over"
  PROVE  IInv'
  BY SameMessage DEF IInv, Silent, Known, DoneOnce

(* A step that rejects the message before it is known whose it is.         *)
LEMMA Announced ==
  ASSUME IInv, ~HasIdentifier, place # "over", NEW type, NEW rest, Announce(type, rest), Finish
  PROVE  IInv'
  <1>1. place' = "over" /\ ~HasIdentifier'
    BY SameMessage DEF Finish
  <1>2. replies' = <<Message(Null, "error", type, rest)>>
    BY DEF Announce, IInv, Silent
  <1>3. Len(replies') = 1 /\ DoneReplies' = {}
    BY <1>2 DEF DoneReplies, Message
  <1>4. QED
    BY <1>1, <1>3 DEF IInv, Silent, Known, DoneOnce

(***************************************************************************)
(* Each action preserves the invariant.                                    *)
(***************************************************************************)
LEMMA EndStep ==
  ASSUME IInv, BadFormat \/ BadIdentifier \/ BadCommand \/ BadArgument \/ Execute
  PROVE  IInv'
  <1>1. CASE BadFormat \/ BadIdentifier
    BY <1>1, Announced DEF BadFormat, BadIdentifier, HasIdentifier
  <1>2. CASE BadCommand
    BY <1>2, Finished, TwoReplies, ErrorNotDone, DoneIsDone DEF BadCommand
  <1>3. CASE BadArgument
    <2>1. PICK k \in BadArguments :
            Send(<<Reply(name, "error", <<Str("argument"),
                        Str(IF message[k] = Fraction THEN "not-integer" ELSE "invalid")>>),
                   Done>>)
      BY <1>3 DEF BadArgument
    <2>2. QED
      BY <1>3, <2>1, Finished, TwoReplies, NotDone, DoneIsDone, CommandName DEF BadArgument
  <1>4. CASE Execute
    BY <1>4, Continued DEF Execute
  <1>5. QED
    BY <1>1, <1>2, <1>3, <1>4

LEMMA RejectStep ==
  ASSUME IInv, HasCommand, place # "over", NEW flaw, Reject(flaw)
  PROVE  IInv'
  BY Finished, TwoReplies, ErrorNotDone, DoneIsDone, CommandName DEF Reject

LEMMA AcceptStep ==
  ASSUME IInv, HasCommand, place # "over", Accept
  PROVE  IInv'
  <1>1. place' # "over"
    BY DEF Accept
  <1>2. QED
    BY <1>1, Continued DEF Accept

LEMMA ValidateStep ==
  ASSUME IInv, ValidateList \/ ValidateFirst \/ ValidateSub
  PROVE  IInv'
  <1>1. HasCommand /\ place # "over"
    BY DEF IInv, Known, ValidateList, ValidateFirst, ValidateSub
  <1>2. CASE ValidateList
    BY <1>1, <1>2, AcceptStep, RejectStep DEF ValidateList
  <1>3. CASE ValidateFirst
    BY <1>1, <1>3, RejectStep, Continued DEF ValidateFirst
  <1>4. CASE ValidateSub
    BY <1>1, <1>4, AcceptStep, RejectStep, Continued DEF ValidateSub
  <1>5. QED
    BY <1>2, <1>3, <1>4

LEMMA FaultStep == ASSUME IInv, HasCommand, place # "over", Fault PROVE IInv'
  BY Continued DEF Fault

LEMMA OneOrNone ==
  ASSUME NEW list, NEW type, NEW S, Reply(name, type, list) \in S
  PROVE  IfAny(list, type) \in Seq(S)
  BY DEF IfAny

LEMMA PerformStep ==
  ASSUME IInv, NoOperation \/ Version \/ StorageInfo \/ Get \/ ForEach \/ EndFeed
  PROVE  IInv'
  <1>1. HasCommand /\ HasIdentifier /\ place # "over"
    BY CommandName
    DEF IInv, Known, NoOperation, Version, StorageInfo, Get, ForEach, EndFeed, Performs
  <1>2. CASE NoOperation
    BY <1>1, <1>2, Finished, TwoReplies, NotDone, DoneIsDone DEF NoOperation
  <1>3. CASE Version
    BY <1>1, <1>3, Finished, TwoReplies, NotDone, DoneIsDone DEF Version
  <1>4. CASE StorageInfo
    <2>1. PICK stored \in {<< >>, <<Str("a")>>, <<Str("a"), Str("b")>>} :
            Send(<<Reply(name, "", Mapping(stored, [k \in DOMAIN stored |-> Info])), Done>>)
      BY <1>4 DEF StorageInfo
    <2>2. QED
      BY <1>1, <1>4, <2>1, Finished, TwoReplies, NotDone, DoneIsDone DEF StorageInfo
  <1>5. CASE Get
    <2>1. CASE NotStrings # {}
      BY <1>1, <1>5, <2>1, FaultStep DEF Get
    <2>2. CASE NotStrings = {}
      <3>1. Finish
        BY <1>5, <2>2 DEF Get
      <3>2. PICK missing, rest, failed :
              Send(IfAny(missing, "missing") \o <<Reply(name, "", rest)>>
                   \o IfAny(failed, "failed") \o <<Done>>)
        BY <1>5, <2>2 DEF Get
      <3> DEFINE S == {Reply(name, "missing", missing), Reply(name, "", rest),
                       Reply(name, "failed", failed)}
                 list == IfAny(missing, "missing") \o <<Reply(name, "", rest)>>
                         \o IfAny(failed, "failed")
      <3>3. \A m \in S : ~IsDone(m)
        BY <1>1, NotDone
      <3>4. IfAny(missing, "missing") \in Seq(S) /\ IfAny(failed, "failed") \in Seq(S)
        BY OneOrNone
      <3>5. list \in Seq(S)
        <4>1. <<Reply(name, "", rest)>> \in Seq(S)
          OBVIOUS
        <4> HIDE DEF S
        <4>2. IfAny(missing, "missing") \o <<Reply(name, "", rest)>> \in Seq(S)
          BY <3>4, <4>1, ConcatProperties
        <4>3. QED
          BY <3>4, <4>2, ConcatProperties
      <3> HIDE DEF S
      <3>6. EndsDone(list \o <<Done>>)
        BY <3>3, <3>5, DoneLast, DoneIsDone
      <3>7. QED
        BY <1>1, <3>1, <3>2, <3>6, Finished
    <2>3. QED
      BY <2>1, <2>2
  <1>6. CASE ForEach
    <2>1. CASE Fault
      BY <1>1, <2>1, FaultStep
    <2>2. CASE ~Fault
      <3>1. Finish
        BY <1>6, <2>2 DEF ForEach
      <3>2. PICK missing : Send(IfAny(missing, "missing") \o <<Done>>)
        BY <1>6, <2>2 DEF ForEach
      <3> DEFINE S == {Reply(name, "missing", missing)}
      <3>3. IfAny(missing, "missing") \in Seq(S)
        BY OneOrNone
      <3>4. \A m \in S : ~IsDone(m)
        BY <1>1, NotDone
      <3>5. EndsDone(IfAny(missing, "missing") \o <<Done>>)
        BY <3>3, <3>4, DoneLast, DoneIsDone
      <3>6. QED
        BY <1>1, <3>1, <3>2, <3>5, Finished
    <2>3. QED
      BY <2>1, <2>2
  <1>7. CASE EndFeed
    <2>1. Finish
      BY <1>7 DEF EndFeed
    <2>2. PICK missing, closed :
            Send(IfAny(missing, "missing") \o IfAny(closed, "not-open") \o <<Done>>)
      BY <1>7 DEF EndFeed
    <2> DEFINE S == {Reply(name, "missing", missing), Reply(name, "not-open", closed)}
               list == IfAny(missing, "missing") \o IfAny(closed, "not-open")
    <2>3. \A m \in S : ~IsDone(m)
      BY <1>1, NotDone
    <2>4. IfAny(missing, "missing") \in Seq(S) /\ IfAny(closed, "not-open") \in Seq(S)
      BY OneOrNone
    <2>5. list \in Seq(S)
      BY <2>4, ConcatProperties
    <2> HIDE DEF S
    <2>6. EndsDone(list \o <<Done>>)
      BY <2>3, <2>5, DoneLast, DoneIsDone
    <2>7. QED
      BY <1>1, <2>1, <2>2, <2>6, Finished
  <1>8. QED
    BY <1>2, <1>3, <1>4, <1>5, <1>6, <1>7

LEMMA FeedStep ==
  ASSUME IInv, FeedRefused \/ FeedInput \/ FeedDone
  PROVE  IInv'
  <1>1. HasCommand /\ HasIdentifier /\ place # "over"
    BY CommandName DEF IInv, Known, FeedRefused, FeedInput, FeedDone
  <1>2. CASE FeedRefused
    <2>1. PICK why : Send(<<Reply(name, "error", <<Str(why)>>), Done>>)
      BY <1>2 DEF FeedRefused
    <2>2. QED
      BY <1>1, <1>2, <2>1, Finished, TwoReplies, NotDone, DoneIsDone DEF FeedRefused
  <1>3. CASE FeedInput
    <2>1. CASE Fault
      BY <1>1, <2>1, FaultStep
    <2>2. CASE ~Fault /\ Finish
      <3>1. Send(<<Reply(name, "error", <<args[loc], Str("duplicate"), args[loc + 2]>>), Done>>)
        BY <1>1, <1>3, <2>2 DEF FeedInput, Finish
      <3>2. QED
        BY <1>1, <2>2, <3>1, Finished, TwoReplies, NotDone, DoneIsDone
    <2>3. CASE ~Fault /\ ~Finish
      BY <1>1, <1>3, <2>3, Continued DEF FeedInput
    <2>4. QED
      BY <2>1, <2>2, <2>3
  <1>4. CASE FeedDone
    <2>1. PICK missing \in SUBSET InputLabels :
            Send((IF missing = {} THEN << >>
                  ELSE <<Reply(name, "error", <<Str("missing")>> \o Pick(missing))>>) \o <<Done>>)
      BY <1>4 DEF FeedDone
    <2> DEFINE reply == Reply(name, "error", <<Str("missing")>> \o Pick(missing))
               list == IF missing = {} THEN << >> ELSE <<reply>>
    <2>2. ~IsDone(reply)
      BY <1>1, NotDone
    <2> HIDE DEF reply
    <2>3. list \in Seq({reply})
      OBVIOUS
    <2> HIDE DEF list
    <2>4. EndsDone(list \o <<Done>>)
      BY <2>2, <2>3, DoneLast, DoneIsDone
    <2>5. QED
      BY <1>1, <1>4, <2>1, <2>4, Finished DEF FeedDone, list, reply
  <1>5. QED
    BY <1>2, <1>3, <1>4

LEMMA RunErrorStep ==
  ASSUME IInv, HasCommand, place # "over", NEW what, RunError(what)
  PROVE  IInv'
  BY Finished, TwoReplies, NotDone, DoneIsDone, CommandName DEF RunError

LEMMA FoundStep ==
  ASSUME IInv, HasCommand, place \notin {"end", "over"}, NEW n, NEW what, Found(n, what)
  PROVE  IInv'
  BY Continued DEF Found

(* The loop of Run over the arguments.                                     *)
LEMMA RunLoopStep ==
  ASSUME IInv,
         \/ RunEnv \/ RunEnvClear \/ RunOutput \/ RunPrefix \/ RunPostfix
         \/ RunIn \/ RunOut \/ RunNotify \/ RunDirectory \/ RunProgram
  PROVE  IInv'
  <1>1. place = "run"
    BY DEF RunEnv, RunEnvClear, RunOutput, RunPrefix, RunPostfix, RunIn, RunOut, RunNotify,
           RunDirectory, RunProgram, Branch
  <1>2. HasCommand /\ place \notin {"end", "over"}
    BY <1>1 DEF IInv, Known
  <1>3. CASE RunEnv
    BY <1>2, <1>3, FaultStep, RunErrorStep, FoundStep DEF RunEnv, Branch
  <1>4. CASE RunEnvClear \/ RunOutput \/ RunPrefix \/ RunPostfix \/ RunDirectory
    BY <1>2, <1>4, FaultStep, FoundStep
    DEF RunEnvClear, RunOutput, RunPrefix, RunPostfix, RunDirectory, Branch
  <1>5. CASE RunIn
    BY <1>2, <1>5, FaultStep, RunErrorStep, FoundStep DEF RunIn, Branch
  <1>6. CASE RunOut
    BY <1>2, <1>6, FaultStep, RunErrorStep, FoundStep DEF RunOut, Branch
  <1>7. CASE RunNotify
    BY <1>2, <1>7, FaultStep, FoundStep DEF RunNotify, Branch
  <1>8. CASE RunProgram
    BY <1>2, <1>8, FaultStep, FoundStep DEF RunProgram
  <1>9. QED
    BY <1>3, <1>4, <1>5, <1>6, <1>7, <1>8

(* Run before and after the loop.                                          *)
LEMMA RunStep ==
  ASSUME IInv,
         InUse \/ RunInconsistent \/ RunNoDirectory \/ RunNoProgram \/ RunFound \/ RunStart
  PROVE  IInv'
  <1>1. HasCommand /\ HasIdentifier /\ place \notin {"end", "over"}
    BY CommandName DEF IInv, Known, InUse, RunInconsistent, RunNoDirectory, RunNoProgram,
                       RunFound, RunStart, Collected
  <1>2. CASE InUse \/ RunInconsistent \/ RunNoDirectory \/ RunNoProgram
    <2>1. PICK what : RunError(what)
      BY <1>2 DEF InUse, RunInconsistent, RunNoDirectory, RunNoProgram
    <2>2. QED
      BY <1>1, <2>1, RunErrorStep
  <1>3. CASE RunFound
    BY <1>1, <1>3, Continued DEF RunFound
  <1>4. CASE RunStart
    <2>1. replies' = << >> /\ started' = TRUE /\ place' = "over" /\ HasIdentifier'
      BY <1>1, <1>4, SameMessage DEF RunStart, IInv, Silent
    <2>2. QED
      BY <2>1 DEF IInv, Silent, Known, DoneOnce
  <1>5. QED
    BY <1>2, <1>3, <1>4

LEMMA Initially == Init => IInv
  BY DEF Init, IInv, Silent, Known, DoneOnce

LEMMA Inductive == IInv /\ [Next]_vars => IInv'
  <1> SUFFICES ASSUME IInv, [Next]_vars PROVE IInv'
    OBVIOUS
  <1>1. CASE Over \/ UNCHANGED vars
    <2>1. UNCHANGED <<message, place, replies, started>>
      BY <1>1 DEF Over, vars
    <2>2. QED
      BY <2>1, SameMessage DEF IInv, Silent, Known, DoneOnce, DoneReplies
  <1>2. CASE Next /\ ~Over
    BY <1>2, EndStep, ValidateStep, PerformStep, FeedStep, RunLoopStep, RunStep DEF Next
  <1>3. QED
    BY <1>1, <1>2

(* A command with an identifier is done once, in the last of its replies,  *)
(* or has started a process that sends "done" itself; one without an       *)
(* identifier gets an error, and a null identifier asks for silence:       *)
(* whatever End, Validate and Perform do with any message that comes.      *)
THEOREM DoneExactlyOnce == Spec => []DoneOnce
  <1>1. IInv => DoneOnce
    BY DEF IInv
  <1>2. QED
    BY Initially, Inductive, <1>1, PTL DEF Spec

(***************************************************************************)
(* Arguments.                                                              *)
(***************************************************************************)

Element == [kind : STRING, text : STRING]

LEMMA Arguments ==
    ASSUME message \in Seq(Element), HasCommand
    PROVE  /\ args \in Seq(Element) /\ Len(args) \in Nat /\ DOMAIN args = 1 .. Len(args)
           /\ \A k \in DOMAIN args : args[k] \in Element
  <1>1. Len(message) > 1 /\ Len(message) \in Nat
    BY DEF HasCommand
  <1>2. args \in Seq(Element)
    BY <1>1, SubSeqProperties DEF args
  <1>3. QED
    BY <1>2

(***************************************************************************)
(* The subcommands of feed and run: their names differ.                    *)
(***************************************************************************)
LEMMA FeedSubsAre ==
    /\ DOMAIN FeedSubs = 1 .. 2
    /\ FeedSubs[1].name = "input" /\ FeedSubs[1].parts = <<SubString, SubString>>
    /\ FeedSubs[2].name = "direct" /\ FeedSubs[2].parts = <<SubAny, SubString>>
  BY DEF FeedSubs, Sub

LEMMA RunSubsAre ==
    /\ DOMAIN RunSubs = 1 .. 10
    /\ RunSubs[1].name = "env" /\ RunSubs[1].parts = <<SubString, SubAny>>
    /\ RunSubs[2].name = "env-clear" /\ RunSubs[2].parts = << >>
    /\ RunSubs[3].name = "output" /\ RunSubs[3].parts = <<SubString, SubStringNull>>
    /\ RunSubs[4].name = "output-prefix" /\ RunSubs[4].parts = <<SubString>>
    /\ RunSubs[5].name = "output-postfix" /\ RunSubs[5].parts = <<SubString>>
    /\ RunSubs[6].name = "in"
    /\ RunSubs[6].parts = <<SubStringChoice({"JSON"}), SubStringChoice({"stdin"})>>
    /\ RunSubs[7].name = "out"
    /\ RunSubs[7].parts =
            <<SubStringChoice({"JSON", "bytes"}), SubStringChoice({"stdout", "stderr"})>>
    /\ RunSubs[8].name = "notify" /\ RunSubs[8].parts = <<SubStringChoice({"data", "process"})>>
    /\ RunSubs[9].name = "change-directory" /\ RunSubs[9].parts = <<SubString>>
    /\ RunSubs[10].name = "program" /\ RunSubs[10].parts = <<SubString>>
  BY DEF RunSubs, Sub

LEMMA NamesDiffer ==
    \A k, m \in DOMAIN Subs : Subs[k].name = Subs[m].name => k = m
  <1>1. \A k, m \in DOMAIN FeedSubs : FeedSubs[k].name = FeedSubs[m].name => k = m
    BY FeedSubsAre
  <1>2. \A k \in 1 .. 10 : k \in {1, 2, 3, 4, 5, 6, 7, 8, 9, 10}
    OBVIOUS
  <1>3. \A k, m \in DOMAIN RunSubs : RunSubs[k].name = RunSubs[m].name => k = m
    BY <1>2, RunSubsAre
  <1>4. QED
    BY <1>1, <1>3 DEF Subs

LEMMA PartsAre ==
    ASSUME NEW at, NEW k \in DOMAIN Subs, args[at] = Str(Subs[k].name)
    PROVE  Named(at) = {k} /\ PartsAt(at) = Subs[k].parts
  <1>1. \A m \in DOMAIN Subs : Str(Subs[m].name) = Str(Subs[k].name) => m = k
    BY NamesDiffer DEF Str
  <1>2. Named(at) = {k}
    BY <1>1 DEF Named
  <1>3. QED
    BY <1>2 DEF PartsAt

(* Every subcommand has a sequence of up to two parts.                     *)
LEMMA PartsAreFew ==
    \A k \in DOMAIN Subs : /\ Len(Subs[k].parts) \in 0 .. 2
                           /\ DOMAIN Subs[k].parts = 1 .. Len(Subs[k].parts)
  <1> DEFINE Few(p) == Len(p) \in 0 .. 2 /\ DOMAIN p = 1 .. Len(p)
  <1>1. Few(<< >>) /\ \A a, b : Few(<<a>>) /\ Few(<<a, b>>)
    OBVIOUS
  <1> HIDE DEF Few
  <1>2. \A k \in DOMAIN FeedSubs : Few(FeedSubs[k].parts)
    <2>1. Few(FeedSubs[1].parts) /\ Few(FeedSubs[2].parts)
      BY <1>1, FeedSubsAre, Zenon
    <2>2. QED
      BY <2>1, FeedSubsAre
  <1>3. \A k \in DOMAIN RunSubs : Few(RunSubs[k].parts)
    <2>1. /\ Few(RunSubs[1].parts) /\ Few(RunSubs[2].parts) /\ Few(RunSubs[3].parts)
          /\ Few(RunSubs[4].parts) /\ Few(RunSubs[5].parts) /\ Few(RunSubs[6].parts)
          /\ Few(RunSubs[7].parts) /\ Few(RunSubs[8].parts) /\ Few(RunSubs[9].parts)
          /\ Few(RunSubs[10].parts)
      BY <1>1, RunSubsAre, ZenonT(60)
    <2>2. \A k \in 1 .. 10 : k \in {1, 2, 3, 4, 5, 6, 7, 8, 9, 10}
      OBVIOUS
    <2>3. QED
      BY <2>1, <2>2, RunSubsAre
  <1>4. \A k \in DOMAIN Subs : Few(Subs[k].parts)
    BY <1>2, <1>3 DEF Subs
  <1>5. QED
    BY <1>4 DEF Few

(***************************************************************************)
(* What Validate says of one subcommand.                                   *)
(***************************************************************************)
LEMMA FlawsDiffer ==
    \A what, past : /\ Flaw(what, past).what = what /\ Flaw(what, past).past = past
                    /\ what # "" => Flaw(what, past) # Fine
  BY DEF Flaw, Fine

(* The numbers of the parts that have a flaw, and the first of them.       *)
Flawed(parts, at) == {k \in DOMAIN parts : at + k <= Len(args) /\ PartFlaw(parts[k], at + k) # Fine}

FirstOf(S) == CHOOSE k \in S : \A j \in S : k <= j

LEMMA FirstOfTwo ==
    ASSUME NEW S \in SUBSET (1 .. 2), S # {}
    PROVE  FirstOf(S) \in S /\ \A j \in S : FirstOf(S) <= j
  <1>1. \E k \in S : \A j \in S : k <= j
    <2>1. CASE 1 \in S
      BY <2>1
    <2>2. CASE 1 \notin S
      <3>1. \A j \in S : j \in 1 .. 2 /\ j # 1
        BY <2>2
      <3>2. \A j \in S : j = 2
        BY <3>1
      <3>3. 2 \in S /\ \A j \in S : 2 <= j
        <4>1. PICK x : x \in S
          OBVIOUS
        <4>2. QED
          BY <3>2, <4>1
      <3>4. QED
        BY <3>3
    <2>3. QED
      BY <2>1, <2>2
  <1>2. QED
    BY <1>1 DEF FirstOf

LEMMA SubFlawOf ==
    ASSUME message \in Seq(Element), HasCommand, NEW at \in 1 .. Len(args),
           NEW k \in DOMAIN Subs, args[at] = Str(Subs[k].name)
    PROVE  LET parts == Subs[k].parts IN
           SubFlaw(at) = IF TooFew(parts, at) THEN Flaw("missing", Len(args))
                         ELSE IF Flawed(parts, at) = {} THEN Fine
                         ELSE PartFlaw(parts[FirstOf(Flawed(parts, at))],
                                       at + FirstOf(Flawed(parts, at)))
  <1>1. args[at].kind = "string" /\ Named(at) # {} /\ PartsAt(at) = Subs[k].parts
    <2>1. args[at].kind = "string"
      BY DEF Str
    <2>2. Named(at) = {k} /\ PartsAt(at) = Subs[k].parts
      BY PartsAre
    <2>3. QED
      BY <2>1, <2>2
  <1>2. QED
    BY <1>1 DEF SubFlaw, Flawed, FirstOf

LEMMA FlawedAreFew ==
    ASSUME NEW k \in DOMAIN Subs, NEW at
    PROVE  LET S == Flawed(Subs[k].parts, at) IN
           /\ S \in SUBSET (1 .. 2)
           /\ S # {} => FirstOf(S) \in S /\ \A j \in S : FirstOf(S) <= j
  <1> DEFINE S == Flawed(Subs[k].parts, at)
  <1>1. DOMAIN Subs[k].parts \subseteq 1 .. 2
    BY PartsAreFew
  <1>2. S \in SUBSET (1 .. 2)
    BY <1>1 DEF Flawed
  <1> HIDE DEF S
  <1>3. S # {} => FirstOf(S) \in S /\ \A j \in S : FirstOf(S) <= j
    BY <1>2, FirstOfTwo
  <1>4. QED
    BY <1>2, <1>3 DEF S

(* It is fine if it is all there and every part is.                        *)
LEMMA FineSub ==
    ASSUME message \in Seq(Element), HasCommand, NEW at \in 1 .. Len(args),
           NEW k \in DOMAIN Subs, args[at] = Str(Subs[k].name)
    PROVE  SubFlaw(at) = Fine <=>
               /\ at + Len(Subs[k].parts) <= Len(args)
               /\ \A p \in DOMAIN Subs[k].parts : PartFlaw(Subs[k].parts[p], at + p) = Fine
  <1> DEFINE parts == Subs[k].parts
  <1>1. Len(parts) \in 0 .. 2 /\ DOMAIN parts = 1 .. Len(parts) /\ Len(args) \in Nat
    BY PartsAreFew, Arguments
  <1>2. /\ Flawed(parts, at) # {} =>
              FirstOf(Flawed(parts, at)) \in Flawed(parts, at)
        /\ SubFlaw(at) = IF TooFew(parts, at) THEN Flaw("missing", Len(args))
                         ELSE IF Flawed(parts, at) = {} THEN Fine
                         ELSE PartFlaw(parts[FirstOf(Flawed(parts, at))],
                                       at + FirstOf(Flawed(parts, at)))
    BY FlawedAreFew, SubFlawOf
  <1> HIDE DEF parts
  <1>3. TooFew(parts, at) <=> ~(at + Len(parts) <= Len(args))
    BY <1>1 DEF TooFew
  <1>4. CASE TooFew(parts, at)
    BY <1>2, <1>3, <1>4, FlawsDiffer DEF parts
  <1>5. CASE ~TooFew(parts, at)
    <2>1. \A p \in DOMAIN parts : at + p <= Len(args)
      BY <1>1, <1>3, <1>5
    <2>2. Flawed(parts, at) = {p \in DOMAIN parts : PartFlaw(parts[p], at + p) # Fine}
      BY <2>1 DEF Flawed
    <2>3. SubFlaw(at) = Fine <=> Flawed(parts, at) = {}
      BY <1>2, <1>5, <2>2
    <2>4. QED
      BY <1>3, <1>5, <2>2, <2>3 DEF parts
  <1>6. QED
    BY <1>4, <1>5

LEMMA FineIsNamed ==
    ASSUME message \in Seq(Element), HasCommand, NEW at \in 1 .. Len(args), SubFlaw(at) = Fine
    PROVE  \E k \in DOMAIN Subs : args[at] = Str(Subs[k].name)
  BY FlawsDiffer DEF SubFlaw, Named

(* A part that is fine is of a kind it takes, and one of its texts.        *)
LEMMA FinePart ==
    ASSUME NEW part, NEW at, PartFlaw(part, at) = Fine
    PROVE  /\ args[at].kind \in part.kinds
           /\ part.texts # {} => args[at].text \in part.texts
  BY FlawsDiffer DEF PartFlaw

(***************************************************************************)
(* The way of ValidateSub.  V are the places it has been at, from First    *)
(* to at: each but First comes after a subcommand that is fine, and each   *)
(* but at is followed by another.  It ends after the arguments or at       *)
(* "program".                                                              *)
(***************************************************************************)
After(at) == at + 1 + Len(PartsAt(at))

Passed(i) == i <= Len(args) /\ SubFlaw(i) = Fine /\ ~LastSub(i)

Walk(V, at) ==
    /\ V \in SUBSET (First .. at) /\ at <= Len(args) + 1
    /\ First \in V /\ at \in V
    /\ \A j \in V \ {First} : \E i \in V : Passed(i) /\ j = After(i)
    /\ \A i \in V \ {at} : Passed(i) /\ After(i) \in V

Ends(at) == \/ at = Len(args) + 1
            \/ at <= Len(args) /\ SubFlaw(at) = Fine /\ LastSub(at)

(* The arguments are those of feed or run, and all have been validated.    *)
Valid(V) == \E e \in V : Walk(V, e) /\ Ends(e)

Walking == place = "subs" =>
               /\ Description[name] \in {"feed", "run"} /\ args # << >>
               /\ \E V : Walk(V, loc)

Walked == place \in {"feed", "run"} =>
              /\ Description[name] = place /\ args # << >>
              /\ \E V : Valid(V) /\ loc \in V \cup {Len(args) + 1}

Listed == place = "perform" => Description[name] \notin {"feed", "run"} /\ ListFlaw = Fine

Typed == message \in Seq(Element)

Agreement == Typed /\ Known /\ Walking /\ Walked /\ Listed /\ ValidatedCanBePerformed

(* All of it is about the message, which does not change.                  *)
LEMMA SameArguments ==
    ASSUME UNCHANGED message
    PROVE  /\ args' = args /\ Description[name]' = Description[name] /\ First' = First
           /\ ListFlaw' = ListFlaw /\ name' = name
           /\ \A at : PartsAt(at)' = PartsAt(at)
           /\ \A at : SubFlaw(at)' = SubFlaw(at)
           /\ \A at : LastSub(at)' = LastSub(at)
  <1>1. args' = args /\ name' = name
    BY DEF args, name
  <1>2. First' = First /\ Subs' = Subs /\ NotStrings' = NotStrings /\ ListFlaw' = ListFlaw
        /\ Description[name]' = Description[name]
    BY <1>1 DEF First, Subs, NotStrings, ListFlaw
  <1>3. \A at : Named(at)' = Named(at) /\ PartsAt(at)' = PartsAt(at) /\ LastSub(at)' = LastSub(at)
    BY <1>1, <1>2 DEF Named, PartsAt, LastSub
  <1>4. \A part, at : PartFlaw(part, at)' = PartFlaw(part, at)
    BY <1>1 DEF PartFlaw
  <1>5. \A parts, at : TooFew(parts, at)' = TooFew(parts, at)
    BY <1>1 DEF TooFew
  <1>6. ASSUME NEW at PROVE SubFlaw(at)' = SubFlaw(at)
    BY DEF SubFlaw, PartFlaw, TooFew, PartsAt, Named, Subs, args, name
  <1>7. QED
    BY <1>1, <1>2, <1>3, <1>6

LEMMA SameWalk ==
    ASSUME UNCHANGED message
    PROVE  \A V : /\ \A at : Walk(V, at)' <=> Walk(V, at)
                  /\ \A at : Ends(at)' <=> Ends(at)
                  /\ Valid(V)' <=> Valid(V)
  <1>1. \A at : (Passed(at)' <=> Passed(at)) /\ After(at)' = After(at)
    BY SameArguments DEF Passed, After
  <1>2. \A V, at : Walk(V, at)' <=> Walk(V, at)
    BY <1>1, SameArguments DEF Walk
  <1>3. \A at : Ends(at)' <=> Ends(at)
    BY SameArguments DEF Ends
  <1>4. QED
    BY <1>2, <1>3 DEF Valid

(***************************************************************************)
(* Each action preserves the agreement.                                    *)
(***************************************************************************)
LEMMA Descriptions ==
    ASSUME HasCommand
    PROVE  /\ name \in DOMAIN Description
           /\ Description[name] = "feed" <=> name = "feed"
           /\ Description[name] = "run" <=> name = "run"
           /\ Description[name] = "parameterless" <=> name \in Parameterless
           /\ Description[name] = "strings" <=> name \in {"get", "delete"}
           /\ Description[name] = "pairs" <=> name = "rename"
           /\ Description[name] = "list" <=> name \in {"end-feed", "terminate"}
  BY DEF HasCommand, Description, Parameterless

Agreed == IInv /\ Agreement

(* A step to a place where nothing is left to agree about.                 *)
LEMMA AgreementEnds ==
    ASSUME Agreed, Known', UNCHANGED message,
           place' \in {"end", "validate", "over", "start"}
    PROVE  Agreement'
  BY DEF Agreed, Agreement, Typed, Walking, Walked, Listed, ValidatedCanBePerformed

LEMMA AfterFine ==
    ASSUME message \in Seq(Element), HasCommand, NEW at \in 1 .. Len(args), SubFlaw(at) = Fine
    PROVE  After(at) \in at + 1 .. Len(args) + 1
  <1>1. PICK k \in DOMAIN Subs : args[at] = Str(Subs[k].name)
    BY FineIsNamed
  <1>2. at + Len(Subs[k].parts) <= Len(args) /\ PartsAt(at) = Subs[k].parts
    BY <1>1, FineSub, PartsAre
  <1>3. Len(Subs[k].parts) \in 0 .. 2 /\ Len(args) \in Nat
    BY PartsAreFew, Arguments
  <1>4. PICK n \in 0 .. 2 : n = Len(PartsAt(at))
    BY <1>2, <1>3
  <1>5. After(at) = at + 1 + n /\ at + n <= Len(args)
    BY <1>2, <1>4 DEF After
  <1>6. QED
    BY <1>3, <1>5

LEMMA AcceptAgrees ==
    ASSUME Agreed, Known', Accept, HasCommand,
           \/ Description[name] \notin {"feed", "run"} /\ ListFlaw = Fine
           \/ Description[name] \in {"feed", "run"} /\ args # << >> /\ \E V : Valid(V)
    PROVE  Agreement'
  <1>1. UNCHANGED message
    BY DEF Accept
  <1>2. CASE Description[name] \notin {"feed", "run"}
    <2>1. place' = "perform"
      BY <1>2 DEF Accept
    <2>2. QED
      BY <1>1, <1>2, <2>1, SameArguments
      DEF Agreed, Agreement, Typed, Walking, Walked, Listed, ValidatedCanBePerformed
  <1>3. CASE Description[name] \in {"feed", "run"}
    <2>1. place' = Description[name] /\ loc' = First
      BY <1>3, Descriptions DEF Accept, First
    <2>2. PICK V : Valid(V)
      BY <1>3
    <2>3. First \in V /\ Valid(V)'
      BY <1>1, <2>2, SameWalk DEF Valid, Walk
    <2>4. QED
      BY <1>1, <1>3, <2>1, <2>3, SameArguments
      DEF Agreed, Agreement, Typed, Walking, Walked, Listed, ValidatedCanBePerformed
  <1>4. QED
    BY <1>2, <1>3

LEMMA SubAgrees ==
    ASSUME Agreed, Known', ValidateSub
    PROVE  Agreement'
  <1>1. HasCommand /\ message \in Seq(Element)
    BY DEF Agreed, Agreement, Typed, Known, ValidateSub
  <1>2. PICK V : Walk(V, loc)
    BY DEF Agreed, Agreement, Walking, ValidateSub
  <1>3. Description[name] \in {"feed", "run"} /\ args # << >> /\ Len(args) \in Nat
    BY <1>1, Arguments DEF Agreed, Agreement, Walking, ValidateSub
  <1>4. loc \in First .. Len(args) + 1 /\ loc \in 1 .. Len(args) + 1
    BY <1>2, <1>3 DEF Walk, First
  <1>5. CASE Accept
    <2>1. Ends(loc)
      BY <1>4, <1>5 DEF ValidateSub, Ends, Accept, Reject, Finish
    <2>2. QED
      BY <1>1, <1>2, <1>3, <1>5, <2>1, AcceptAgrees DEF Valid, Walk
  <1>6. CASE Reject(SubFlaw(loc))
    BY <1>6, AgreementEnds DEF Reject, Finish
  <1>7. CASE ~Accept /\ ~Reject(SubFlaw(loc))
    <2>1. Passed(loc) /\ loc' = After(loc) /\ UNCHANGED <<message, place>> /\ place = "subs"
      BY <1>3, <1>4, <1>7 DEF ValidateSub, Passed, After
    <2>2. loc \in 1 .. Len(args)
      BY <1>3, <1>4, <2>1 DEF Passed
    <2>3. PICK next \in loc + 1 .. Len(args) + 1 : next = After(loc)
      BY <1>1, <2>1, <2>2, AfterFine DEF Passed
    <2> DEFINE W == V \cup {next}
    <2>4. PICK at : at = loc
      OBVIOUS
    <2>5. Walk(W, next)
      <3>1. next \in First .. Len(args) + 1
        BY <1>3, <1>4, <2>3 DEF First
      <3>2. \A j \in W \ {First} : \E i \in W : Passed(i) /\ j = After(i)
        BY <1>2, <2>1, <2>3 DEF Walk
      <3>3. \A i \in W \ {next} : Passed(i) /\ After(i) \in W
        BY <1>2, <2>1, <2>3 DEF Walk
      <3>4. QED
        BY <1>2, <3>1, <3>2, <3>3 DEF Walk
    <2>6. Walk(W, next)'
      <3> HIDE DEF W
      <3>1. PICK U : U = W
        OBVIOUS
      <3>2. Walk(U, next)'
        BY <2>1, <2>5, <3>1, SameWalk
      <3>3. W' = W
        BY DEF W
      <3>4. QED
        BY <3>1, <3>2, <3>3
    <2>7. Walking'
      <3>1. \E U : Walk(U, next)'
        BY <2>6
      <3>2. loc' = next
        BY <2>1, <2>3
      <3>3. QED
        BY <1>3, <2>1, <3>1, <3>2, SameArguments DEF Walking, Walk
    <2>8. QED
      BY <2>1, <2>7 DEF Agreed, Agreement, Typed, Walked, Listed, ValidatedCanBePerformed
  <1>8. QED
    BY <1>5, <1>6, <1>7

LEMMA FirstAgrees ==
    ASSUME Agreed, Known', ValidateList \/ ValidateFirst
    PROVE  Agreement'
  <1>1. HasCommand /\ message \in Seq(Element)
    BY DEF Agreed, Agreement, Typed, Known, ValidateList, ValidateFirst
  <1>2. CASE ValidateList
    BY <1>1, <1>2, AcceptAgrees, AgreementEnds DEF ValidateList, Reject, Finish
  <1>3. CASE ValidateFirst /\ args = << >>
    BY <1>3, AgreementEnds DEF ValidateFirst, Reject, Finish
  <1>4. CASE ValidateFirst /\ args # << >>
    <2>1. /\ place' = "subs" /\ loc' = First /\ UNCHANGED message
          /\ Description[name] \in {"feed", "run"}
      BY <1>4 DEF ValidateFirst
    <2>2. First \in 1 .. 2 /\ First \in First .. Len(args) + 1
      <3>1. Len(args) \in Nat \ {0}
        BY <1>1, <1>4, Arguments, EmptySeq
      <3>2. First \in {1, 2}
        BY DEF First
      <3>3. QED
        BY <3>1, <3>2
    <2>3. PICK f : f = First
      OBVIOUS
    <2>4. Walk({f}, f)
      BY <2>2, <2>3 DEF Walk
    <2>5. Walk({f}, f)' /\ loc' = f
      <3>1. PICK U : U = {f}
        OBVIOUS
      <3>2. Walk(U, f)'
        BY <2>1, <2>4, <3>1, SameWalk
      <3>3. QED
        BY <2>1, <2>3, <3>1, <3>2
    <2>6. QED
      BY <1>4, <2>1, <2>5, SameArguments
      DEF Agreed, Agreement, Typed, Walking, Walked, Listed, ValidatedCanBePerformed
  <1>5. QED
    BY <1>2, <1>3, <1>4

LEMMA PerformAgrees ==
    ASSUME Agreed, Known', NoOperation \/ Version \/ StorageInfo \/ Get \/ ForEach \/ EndFeed
    PROVE  Agreement'
  <1>1. CASE NoOperation \/ Version \/ StorageInfo \/ EndFeed
    BY <1>1, AgreementEnds DEF NoOperation, Version, StorageInfo, EndFeed, Finish
  <1>2. ASSUME Performs({"get", "delete", "rename", "terminate"})
        PROVE  /\ name # "terminate" => NotStrings = {}
               /\ name = "rename" => Len(args) % 2 = 0
    <2>1. HasCommand /\ ListFlaw = Fine
      BY <1>2 DEF Performs, Agreed, Agreement, Listed, Known
    <2>2. CASE name = "rename"
      <3>1. Description[name] = "pairs"
        BY <2>1, <2>2, Descriptions
      <3>2. QED
        BY <2>1, <2>2, <3>1, FlawsDiffer DEF ListFlaw
    <2>3. CASE name \in {"get", "delete"}
      <3>1. Description[name] = "strings"
        BY <2>1, <2>3, Descriptions
      <3>2. QED
        BY <2>1, <2>3, <3>1, FlawsDiffer DEF ListFlaw
    <2>4. QED
      BY <1>2, <2>2, <2>3 DEF Performs
  <1>3. CASE Get
    BY <1>2, <1>3, AgreementEnds DEF Get, Performs, Finish
  <1>4. CASE ForEach
    BY <1>2, <1>4, AgreementEnds DEF ForEach, Performs, Finish
  <1>5. QED
    BY <1>1, <1>3, <1>4

(* While feed or run is at an argument, it is one that Validate looked at, *)
(* and found a subcommand that is fine.                                    *)
LEMMA AtValid ==
    ASSUME Agreed, place \in {"feed", "run"}, loc <= Len(args)
    PROVE  /\ HasCommand /\ message \in Seq(Element) /\ Len(args) \in Nat /\ name = place
           /\ loc \in 1 .. Len(args) /\ SubFlaw(loc) = Fine
           /\ ~LastSub(loc) => \E V : Valid(V) /\ After(loc) \in V \cup {Len(args) + 1}
  <1>1. HasCommand /\ message \in Seq(Element) /\ name = place /\ Len(args) \in Nat
    BY Descriptions, Arguments DEF Agreed, Agreement, Typed, Walked, Known
  <1>2. PICK V : Valid(V) /\ loc \in V \cup {Len(args) + 1}
    BY DEF Agreed, Agreement, Walked
  <1>3. PICK e \in V : Walk(V, e) /\ Ends(e)
    BY <1>2 DEF Valid
  <1>4. loc \in V
    BY <1>1, <1>2
  <1>5. loc \in 1 .. Len(args)
    BY <1>1, <1>3, <1>4 DEF Walk, First
  <1>6. CASE loc = e
    BY <1>1, <1>3, <1>5, <1>6 DEF Ends
  <1>7. CASE loc # e
    BY <1>1, <1>2, <1>3, <1>4, <1>5, <1>7 DEF Walk, Passed
  <1>8. QED
    BY <1>1, <1>5, <1>6, <1>7

(* A step from there to the next subcommand, or behind the arguments.      *)
LEMMA GoesOn ==
    ASSUME Agreed, Known', place \in {"feed", "run"}, UNCHANGED <<message, place>>,
           loc' = Len(args) + 1 \/ \E V : Valid(V) /\ loc' \in V
    PROVE  Agreement'
  <1>1. \E V : Valid(V) /\ loc' \in V \cup {Len(args) + 1}
    BY DEF Agreed, Agreement, Walked
  <1>2. PICK V : Valid(V) /\ loc' \in V \cup {Len(args) + 1}
    BY <1>1
  <1>3. Valid(V)'
    BY <1>2, SameWalk
  <1>4. QED
    BY <1>2, <1>3, SameArguments
    DEF Agreed, Agreement, Typed, Walking, Walked, Listed, ValidatedCanBePerformed

LEMMA FeedAgrees ==
    ASSUME Agreed, Known', FeedRefused \/ FeedInput \/ FeedDone
    PROVE  Agreement'
  <1>1. CASE FeedRefused \/ FeedDone
    BY <1>1, AgreementEnds DEF FeedRefused, FeedDone, Finish
  <1>2. CASE FeedInput
    <2>1. place = "feed" /\ loc <= Len(args)
      BY <1>2 DEF FeedInput
    <2>2. /\ HasCommand /\ message \in Seq(Element) /\ name = "feed" /\ Len(args) \in Nat
          /\ loc \in 1 .. Len(args) /\ SubFlaw(loc) = Fine
          /\ \E V : Valid(V) /\ After(loc) \in V \cup {Len(args) + 1}
      BY <2>1, AtValid DEF LastSub
    <2>3. PICK k \in DOMAIN Subs : args[loc] = Str(Subs[k].name)
      BY <2>2, FineIsNamed
    <2>4. k \in 1 .. 2 /\ Subs = FeedSubs
      BY <2>2, <2>3, FeedSubsAre DEF Subs
    <2>5. /\ Subs[k].name \in {"input", "direct"} /\ Len(Subs[k].parts) = 2
          /\ DOMAIN Subs[k].parts = 1 .. 2
          /\ Subs[k].parts[2] = SubString
          /\ Subs[k].name = "input" => Subs[k].parts[1] = SubString
      BY <2>4, FeedSubsAre
    <2>6. /\ loc + 2 <= Len(args) /\ PartsAt(loc) = Subs[k].parts
          /\ PartFlaw(Subs[k].parts[1], loc + 1) = Fine
          /\ PartFlaw(Subs[k].parts[2], loc + 2) = Fine
      <3>1. /\ loc + Len(Subs[k].parts) <= Len(args)
            /\ \A p \in DOMAIN Subs[k].parts : PartFlaw(Subs[k].parts[p], loc + p) = Fine
        BY <2>2, <2>3, FineSub
      <3>2. PartsAt(loc) = Subs[k].parts
        BY <2>3, PartsAre
      <3>3. 1 \in DOMAIN Subs[k].parts /\ 2 \in DOMAIN Subs[k].parts
        BY <2>5
      <3>4. QED
        BY <2>5, <3>1, <3>2, <3>3
    <2>7. /\ args[loc].text = Subs[k].name /\ args[loc + 2].kind = "string"
          /\ Subs[k].name = "input" => args[loc + 1].kind = "string"
      <3>1. args[loc + 2].kind \in SubString.kinds
        BY <2>5, <2>6, FinePart
      <3>2. Subs[k].name = "input" => args[loc + 1].kind \in SubString.kinds
        BY <2>5, <2>6, FinePart
      <3>3. QED
        BY <2>3, <3>1, <3>2 DEF SubString, Str
    <2>8. ~(\/ loc + 2 > Len(args) \/ args[loc].text \notin {"input", "direct"}
            \/ args[loc + 2].kind # "string"
            \/ args[loc].text = "input" /\ args[loc + 1].kind # "string")
      BY <2>2, <2>5, <2>6, <2>7
    <2>9. CASE Fault
      <3>1. name = "feed" /\ loc \in 2 .. Len(args) - 2 /\ DirectNumber
        <4>1. place' = "fault" /\ place' # "over" /\ place' # place
          BY <2>1, <2>9 DEF Fault
        <4>2. DirectNumber
          BY <1>2, <2>8, <4>1 DEF FeedInput, Finish
        <4>3. PICK V : Valid(V) /\ loc \in V
          BY <2>1, <2>2 DEF Agreed, Agreement, Walked
        <4>4. First = 2 /\ \E at \in V : V \in SUBSET (First .. at)
          BY <2>2, <4>3 DEF Valid, Walk, First
        <4>5. loc \in 2 .. Len(args) - 2
          BY <2>2, <2>6, <4>3, <4>4
        <4>6. QED
          BY <2>2, <4>2, <4>5
      <3>2. place' = "fault" /\ UNCHANGED <<message, loc>>
        BY <2>9 DEF Fault
      <3>3. ValidatedCanBePerformed'
        BY <3>1, <3>2 DEF ValidatedCanBePerformed, DirectNumber, args, name
      <3>4. QED
        BY <3>2, <3>3 DEF Agreed, Agreement, Typed, Walking, Walked, Listed
    <2>10. After(loc) = loc + 3
      <3>1. Len(PartsAt(loc)) = 2
        BY <2>5, <2>6
      <3>2. QED
        BY <2>2, <3>1 DEF After
    <2>11. CASE Finish
      BY <1>2, <2>11, AgreementEnds DEF Finish
    <2>12. CASE ~Finish /\ ~Fault
      <3>1. loc' = loc + 3 /\ UNCHANGED <<message, place>>
        BY <1>2, <2>8, <2>12 DEF FeedInput
      <3>2. QED
        BY <2>1, <2>2, <2>10, <3>1, GoesOn
    <2>13. QED
      BY <2>9, <2>11, <2>12
  <1>3. QED
    BY <1>1, <1>2

(***************************************************************************)
(* Run's branches.  Each takes what Validate has seen as one subcommand.   *)
(***************************************************************************)
LEMMA RunAt ==
    ASSUME Agreed, place = "run", loc <= Len(args)
    PROVE  /\ loc \in 1 .. Len(args) /\ Len(args) \in Nat
           /\ \E k \in DOMAIN RunSubs :
                /\ args[loc] = Str(RunSubs[k].name) /\ args[loc].text = RunSubs[k].name
                /\ loc + Len(RunSubs[k].parts) <= Len(args)
                /\ After(loc) = loc + 1 + Len(RunSubs[k].parts)
                /\ \A p \in DOMAIN RunSubs[k].parts :
                        PartFlaw(RunSubs[k].parts[p], loc + p) = Fine
           /\ args[loc].text # "program" =>
                \E V : Valid(V) /\ After(loc) \in V \cup {Len(args) + 1}
  <1>1. /\ HasCommand /\ message \in Seq(Element) /\ Len(args) \in Nat /\ name = "run"
        /\ loc \in 1 .. Len(args) /\ SubFlaw(loc) = Fine
        /\ ~LastSub(loc) => \E V : Valid(V) /\ After(loc) \in V \cup {Len(args) + 1}
    BY AtValid
  <1>2. Subs = RunSubs
    BY <1>1 DEF Subs
  <1>3. PICK k \in DOMAIN RunSubs : args[loc] = Str(RunSubs[k].name)
    BY <1>1, <1>2, FineIsNamed
  <1>4. /\ loc + Len(RunSubs[k].parts) <= Len(args)
        /\ \A p \in DOMAIN RunSubs[k].parts : PartFlaw(RunSubs[k].parts[p], loc + p) = Fine
    BY <1>1, <1>2, <1>3, FineSub
  <1>5. PartsAt(loc) = RunSubs[k].parts
    BY <1>2, <1>3, PartsAre
  <1>6. args[loc].text = RunSubs[k].name /\ (args[loc].text # "program" => ~LastSub(loc))
    BY <1>3 DEF Str, LastSub
  <1>7. After(loc) = loc + 1 + Len(RunSubs[k].parts)
    BY <1>5 DEF After
  <1>8. QED
    BY <1>1, <1>3, <1>4, <1>6, <1>7

(* The number of elements that the branch of a command takes.              *)
Elements == [c \in {"env", "env-clear", "output", "output-prefix", "output-postfix", "in",
                    "out", "notify", "change-directory"} |->
                CASE c = "env-clear" -> 1
                  [] c \in {"output-prefix", "output-postfix", "notify", "change-directory"} -> 2
                  [] c \in {"env", "output", "in", "out"} -> 3]

LEMMA ElementsAre ==
    \A k \in DOMAIN RunSubs : RunSubs[k].name # "program" =>
        /\ RunSubs[k].name \in DOMAIN Elements
        /\ Elements[RunSubs[k].name] = 1 + Len(RunSubs[k].parts)
  <1>1. \A a, b : Len(<< >>) = 0 /\ Len(<<a>>) = 1 /\ Len(<<a, b>>) = 2
    OBVIOUS
  <1>2. /\ Len(RunSubs[1].parts) = 2 /\ Len(RunSubs[2].parts) = 0 /\ Len(RunSubs[3].parts) = 2
        /\ Len(RunSubs[4].parts) = 1 /\ Len(RunSubs[5].parts) = 1 /\ Len(RunSubs[6].parts) = 2
        /\ Len(RunSubs[7].parts) = 2 /\ Len(RunSubs[8].parts) = 1 /\ Len(RunSubs[9].parts) = 1
    BY <1>1, RunSubsAre, Zenon
  <1>3. \A k \in 1 .. 10 : k \in {1, 2, 3, 4, 5, 6, 7, 8, 9, 10}
    OBVIOUS
  <1> DEFINE Fits(k) == /\ RunSubs[k].name \in DOMAIN Elements
                        /\ Elements[RunSubs[k].name] = 1 + Len(RunSubs[k].parts)
  <1>4. Fits(1) /\ Fits(2) /\ Fits(3)
    BY <1>2, RunSubsAre DEF Elements
  <1>5. Fits(4) /\ Fits(5) /\ Fits(6)
    BY <1>2, RunSubsAre DEF Elements
  <1>6. Fits(7) /\ Fits(8) /\ Fits(9)
    BY <1>2, RunSubsAre DEF Elements
  <1>7. RunSubs[10].name = "program"
    BY RunSubsAre
  <1> HIDE DEF Fits
  <1>8. \A k \in 1 .. 10 : k # 10 => Fits(k)
    BY <1>3, <1>4, <1>5, <1>6
  <1>9. \A k \in DOMAIN RunSubs : RunSubs[k].name # "program" => Fits(k)
    BY <1>7, <1>8, RunSubsAre
  <1>10. QED
    BY <1>9 DEF Fits

(* All of them are there, and the next subcommand is behind them.          *)
LEMMA AtBranch ==
    ASSUME Agreed, NEW c \in DOMAIN Elements,
           place = "run", loc <= Len(args), args[loc].text = c
    PROVE  /\ loc + Elements[c] - 1 <= Len(args) /\ After(loc) = loc + Elements[c]
           /\ \E V : Valid(V) /\ loc + Elements[c] \in V \cup {Len(args) + 1}
  <1>1. PICK k \in DOMAIN RunSubs :
            /\ args[loc].text = RunSubs[k].name
            /\ loc + Len(RunSubs[k].parts) <= Len(args)
            /\ After(loc) = loc + 1 + Len(RunSubs[k].parts)
    BY RunAt
  <1>2. c # "program"
    BY DEF Elements
  <1>3. Elements[c] = 1 + Len(RunSubs[k].parts)
    BY <1>1, <1>2, ElementsAre
  <1>4. loc \in Nat /\ Len(args) \in Nat
    BY RunAt
  <1>5. \E V : Valid(V) /\ After(loc) \in V \cup {Len(args) + 1}
    BY <1>2, RunAt
  <1>6. PICK m \in Nat : m = Len(RunSubs[k].parts)
    <2>1. name = "run"
      BY AtValid
    <2>2. QED
      BY <2>1, PartsAreFew DEF Subs
  <1>7. loc + Elements[c] - 1 <= Len(args) /\ After(loc) = loc + Elements[c]
    <2>1. Elements[c] = 1 + m /\ loc + m <= Len(args) /\ After(loc) = loc + 1 + m
      BY <1>1, <1>3, <1>6
    <2>2. PICK a \in Nat, b \in Nat : a = loc /\ b = Len(args)
      BY <1>4
    <2>3. a + m <= b => a + (1 + m) - 1 <= b
      OBVIOUS
    <2>4. a + 1 + m = a + (1 + m)
      OBVIOUS
    <2>5. QED
      BY <2>1, <2>2, <2>3, <2>4
  <1>8. QED
    BY <1>5, <1>7

(* The loop ends with a reply, or goes on behind the elements.             *)
LEMMA BranchAgrees ==
    ASSUME Agreed, Known', NEW c \in DOMAIN Elements,
           place = "run", loc <= Len(args), args[loc].text = c,
           Finish \/ (loc' = loc + Elements[c] /\ UNCHANGED <<message, place>>)
    PROVE  Agreement'
  <1>1. CASE Finish
    BY <1>1, AgreementEnds DEF Finish
  <1>2. CASE loc' = loc + Elements[c] /\ UNCHANGED <<message, place>>
    BY <1>2, AtBranch, GoesOn
  <1>3. QED
    BY <1>1, <1>2

LEMMA RunAgrees ==
    ASSUME Agreed, Known',
           \/ RunEnv \/ RunEnvClear \/ RunOutput \/ RunPrefix \/ RunPostfix
           \/ RunIn \/ RunOut \/ RunNotify \/ RunDirectory
    PROVE  Agreement'
  <1>1. /\ Elements["env"] = 3 /\ Elements["env-clear"] = 1 /\ Elements["output"] = 3
        /\ Elements["output-prefix"] = 2 /\ Elements["output-postfix"] = 2
        /\ Elements["in"] = 3 /\ Elements["out"] = 3 /\ Elements["notify"] = 2
        /\ Elements["change-directory"] = 2
    BY DEF Elements
  <1>2. DOMAIN Elements = {"env", "env-clear", "output", "output-prefix", "output-postfix",
                           "in", "out", "notify", "change-directory"}
    BY DEF Elements
  <1>3. ASSUME NEW c \in DOMAIN Elements, place = "run", loc <= Len(args), args[loc].text = c
        PROVE  ~(loc + Elements[c] - 1 > Len(args))
    <2>1. loc + Elements[c] - 1 <= Len(args)
      BY <1>3, AtBranch
    <2>2. loc \in Nat /\ Len(args) \in Nat
      BY <1>3, RunAt
    <2>3. PICK m \in Nat : m = Elements[c]
      BY <1>1, <1>2
    <2>4. QED
      BY <2>1, <2>2, <2>3
  <1>4. CASE RunEnv
    <2>1. Finish \/ (loc' = loc + 3 /\ UNCHANGED <<message, place>>)
      BY <1>1, <1>2, <1>3, <1>4 DEF RunEnv, Branch, RunError, Found
    <2>2. QED
      BY <1>1, <1>2, <1>4, <2>1, BranchAgrees DEF RunEnv, Branch
  <1>5. CASE RunEnvClear
    <2>1. Finish \/ (loc' = loc + 1 /\ UNCHANGED <<message, place>>)
      BY <1>1, <1>2, <1>3, <1>5 DEF RunEnvClear, Branch, Found
    <2>2. QED
      BY <1>1, <1>2, <1>5, <2>1, BranchAgrees DEF RunEnvClear, Branch
  <1>6. CASE RunOutput
    <2>1. Finish \/ (loc' = loc + 3 /\ UNCHANGED <<message, place>>)
      BY <1>1, <1>2, <1>3, <1>6 DEF RunOutput, Branch, Found
    <2>2. QED
      BY <1>1, <1>2, <1>6, <2>1, BranchAgrees DEF RunOutput, Branch
  <1>7. CASE RunPrefix
    <2>1. Finish \/ (loc' = loc + 2 /\ UNCHANGED <<message, place>>)
      BY <1>1, <1>2, <1>3, <1>7 DEF RunPrefix, Branch, Found
    <2>2. QED
      BY <1>1, <1>2, <1>7, <2>1, BranchAgrees DEF RunPrefix, Branch
  <1>8. CASE RunPostfix
    <2>1. Finish \/ (loc' = loc + 2 /\ UNCHANGED <<message, place>>)
      BY <1>1, <1>2, <1>3, <1>8 DEF RunPostfix, Branch, Found
    <2>2. QED
      BY <1>1, <1>2, <1>8, <2>1, BranchAgrees DEF RunPostfix, Branch
  <1>9. CASE RunIn
    <2>1. Finish \/ (loc' = loc + 3 /\ UNCHANGED <<message, place>>)
      BY <1>1, <1>2, <1>3, <1>9 DEF RunIn, Branch, RunError, Found
    <2>2. QED
      BY <1>1, <1>2, <1>9, <2>1, BranchAgrees DEF RunIn, Branch
  <1>10. CASE RunOut
    <2>1. Finish \/ (loc' = loc + 3 /\ UNCHANGED <<message, place>>)
      BY <1>1, <1>2, <1>3, <1>10 DEF RunOut, Branch, RunError, Found
    <2>2. QED
      BY <1>1, <1>2, <1>10, <2>1, BranchAgrees DEF RunOut, Branch
  <1>11. CASE RunNotify
    <2>1. Text(1) \in {"data", "process"}
      <3>1. PICK k \in DOMAIN RunSubs :
                /\ RunSubs[k].name = "notify"
                /\ \A p \in DOMAIN RunSubs[k].parts :
                        PartFlaw(RunSubs[k].parts[p], loc + p) = Fine
        BY <1>11, RunAt DEF RunNotify, Branch
      <3>2. k = 8
        <4>1. \A m \in 1 .. 10 : m \in {1, 2, 3, 4, 5, 6, 7, 8, 9, 10}
          OBVIOUS
        <4>2. QED
          BY <3>1, <4>1, RunSubsAre
      <3>3. PartFlaw(SubStringChoice({"data", "process"}), loc + 1) = Fine
        BY <3>1, <3>2, RunSubsAre
      <3>4. QED
        BY <3>3, FinePart DEF SubStringChoice, Text
    <2>2. Finish \/ (loc' = loc + 2 /\ UNCHANGED <<message, place>>)
      BY <1>1, <1>2, <1>3, <1>11, <2>1 DEF RunNotify, Branch, Found
    <2>3. QED
      BY <1>1, <1>2, <1>11, <2>2, BranchAgrees DEF RunNotify, Branch
  <1>12. CASE RunDirectory
    <2>1. Finish \/ (loc' = loc + 2 /\ UNCHANGED <<message, place>>)
      BY <1>1, <1>2, <1>3, <1>12 DEF RunDirectory, Branch, Found
    <2>2. QED
      BY <1>1, <1>2, <1>12, <2>1, BranchAgrees DEF RunDirectory, Branch
  <1>13. QED
    BY <1>4, <1>5, <1>6, <1>7, <1>8, <1>9, <1>10, <1>11, <1>12

LEMMA ProgramAgrees ==
    ASSUME Agreed, Known', RunProgram
    PROVE  Agreement'
  <1>1. place = "run" /\ loc <= Len(args)
    BY DEF RunProgram
  <1>2. PICK k \in DOMAIN RunSubs :
            /\ args[loc].text = RunSubs[k].name
            /\ loc + Len(RunSubs[k].parts) <= Len(args)
    BY <1>1, RunAt
  <1>3. RunSubs[k].name = "program"
    BY <1>2 DEF RunProgram
  <1>4. Len(RunSubs[k].parts) = 1
    <2>1. \A m \in 1 .. 10 : m \in {1, 2, 3, 4, 5, 6, 7, 8, 9, 10}
      OBVIOUS
    <2>2. k = 10
      BY <1>3, <2>1, RunSubsAre
    <2>3. QED
      BY <2>2, RunSubsAre
  <1>5. loc \in 1 .. Len(args) /\ Len(args) \in Nat
    BY <1>1, RunAt
  <1>6. loc < Len(args)
    BY <1>2, <1>4, <1>5
  <1>7. loc' = loc + (Len(args) + 1 - loc) /\ UNCHANGED <<message, place>>
    BY <1>2, <1>3, <1>6 DEF RunProgram, Found
  <1>8. loc' = Len(args) + 1
    BY <1>5, <1>7
  <1>9. QED
    BY <1>1, <1>7, <1>8, GoesOn

LEMMA RestAgrees ==
    ASSUME Agreed, Known',
           \/ BadFormat \/ BadIdentifier \/ BadCommand \/ BadArgument \/ Execute
           \/ InUse \/ RunInconsistent \/ RunNoDirectory \/ RunNoProgram
           \/ RunFound \/ RunStart
    PROVE  Agreement'
  <1>1. UNCHANGED message /\ place' \in {"over", "validate", "start"}
    BY DEF BadFormat, BadIdentifier, BadCommand, BadArgument, Execute, InUse, RunInconsistent,
           RunNoDirectory, RunNoProgram, RunFound, RunStart, RunError, Finish
  <1>2. QED
    BY <1>1, AgreementEnds

LEMMA SameAgrees ==
    ASSUME Agreed, Known', UNCHANGED vars
    PROVE  Agreement'
  <1>1. UNCHANGED <<message, place, loc>>
    BY DEF vars
  <1>2. Walking'
    <2>1. CASE place = "subs"
      <3>1. PICK V : Walk(V, loc)
        BY <2>1 DEF Agreed, Agreement, Walking
      <3>2. PICK at : at = loc
        OBVIOUS
      <3>3. Walk(V, at)' /\ loc' = at
        BY <1>1, <3>1, <3>2, SameWalk
      <3>4. QED
        BY <1>1, <2>1, <3>3, SameArguments DEF Agreed, Agreement, Walking
    <2>2. QED
      BY <1>1, <2>1 DEF Walking
  <1>3. Walked'
    <2>1. CASE place \in {"feed", "run"}
      <3>1. PICK V : Valid(V) /\ loc \in V \cup {Len(args) + 1}
        BY <2>1 DEF Agreed, Agreement, Walked
      <3>2. Valid(V)'
        BY <1>1, <3>1, SameWalk
      <3>3. QED
        BY <1>1, <2>1, <3>1, <3>2, SameArguments DEF Agreed, Agreement, Walked
    <2>2. QED
      BY <1>1, <2>1 DEF Walked
  <1>4. ValidatedCanBePerformed'
    BY <1>1, SameArguments
    DEF Agreed, Agreement, ValidatedCanBePerformed, DirectNumber
  <1>5. QED
    BY <1>1, <1>2, <1>3, <1>4, SameArguments DEF Agreed, Agreement, Typed, Listed

LEMMA AgreesInitially == Init => Agreement
  <1> SUFFICES ASSUME Init PROVE Agreement
    OBVIOUS
  <1>1. message \in Seq(Element)
    BY MessagesAssumption DEF Init, Element
  <1>2. QED
    BY <1>1 DEF Init, Agreement, Typed, Known, Walking, Walked, Listed, ValidatedCanBePerformed

LEMMA AgreesAlways == Agreed /\ [Next]_vars => Agreement'
  <1> SUFFICES ASSUME Agreed, [Next]_vars PROVE Agreement'
    OBVIOUS
  <1>1. Known'
    BY Inductive DEF Agreed, IInv
  <1>2. CASE UNCHANGED vars \/ Over
    BY <1>1, <1>2, SameAgrees DEF Over
  <1>3. CASE Next /\ ~Over
    BY <1>1, <1>3, SubAgrees, FirstAgrees, PerformAgrees, FeedAgrees, RunAgrees, ProgramAgrees,
       RestAgrees
    DEF Next
  <1>4. QED
    BY <1>2, <1>3

(* What Validate lets through, Perform, feed and Run go through to the end *)
(* without an assertion that fails or an argument that is not there, but   *)
(* for a number to be fed directly: the places that feed and Run come to   *)
(* are among those Validate has been at, and what follows each has the     *)
(* parts that are read.                                                    *)
THEOREM ValidatedIsPerformable == Spec => []ValidatedCanBePerformed
  <1>1. Init => Agreed
    BY Initially, AgreesInitially DEF Agreed
  <1>2. Agreed /\ [Next]_vars => Agreed'
    <2>1. Agreed /\ [Next]_vars => IInv' /\ Agreement'
      BY Inductive, AgreesAlways DEF Agreed
    <2>2. QED
      BY <2>1 DEF Agreed
  <1>3. Agreed => ValidatedCanBePerformed
    BY DEF Agreed, Agreement
  <1>4. QED
    BY <1>1, <1>2, <1>3, PTL DEF Spec

(***************************************************************************)
(* The reference for the syntax.  Its recursive definition has a solution: *)
(* of the numbers up to which there is none, there would be a least.       *)
(***************************************************************************)
CutsAt(f, j) ==
    \/ j = First
    \/ \E i \in First .. j - 1 : \E s \in SubSet :
            s.name # "program" /\ IsSub(s, i, j) /\ f[i]

Cuts(f, n) == f = [j \in First .. n |-> CutsAt(f, j)]

LEMMA CutsExist ==
    ASSUME First \in Nat, NEW n \in Nat
    PROVE  \E f : Cuts(f, n)
  <1> DEFINE Bad == {m \in Nat : ~\E f : Cuts(f, m)}
  <1>1. SUFFICES ASSUME Bad # {} PROVE FALSE
    OBVIOUS
  <1>2. PICK m \in Bad : \A k \in Bad : ~(<<k, m>> \in OpToRel(<, Nat))
    <2>1. Bad \subseteq Nat
      OBVIOUS
    <2> HIDE DEF Bad
    <2>2. QED
      BY <1>1, <2>1, WFMin, NatLessThanWellFounded, Zenon
  <1>3. m \in Nat /\ ~\E f : Cuts(f, m)
    OBVIOUS
  <1>4. CASE m = 0 \/ m < First
    <2> DEFINE f == [j \in First .. m |-> TRUE]
    <2>1. \A j \in First .. m : j = First
      BY <1>3, <1>4
    <2>2. \A j \in First .. m : CutsAt(f, j) = TRUE
      BY <2>1, Zenon DEF CutsAt
    <2>3. f = [j \in First .. m |-> CutsAt(f, j)]
      BY <2>2, Zenon
    <2>4. QED
      BY <1>3, <2>3 DEF Cuts
  <1>5. CASE m # 0 /\ ~(m < First)
    <2>1. m - 1 \in Nat /\ m - 1 < m
      BY <1>3, <1>5
    <2>2. <<m - 1, m>> \in OpToRel(<, Nat)
      BY <1>3, <2>1 DEF OpToRel
    <2>3. PICK f : Cuts(f, m - 1)
      BY <1>2, <2>1, <2>2
    <2> DEFINE g == [j \in First .. m |-> IF j = m THEN CutsAt(f, m) ELSE f[j]]
    <2>4. \A j \in First .. m : \A i \in First .. j - 1 : i \in First .. m /\ i # m
      BY <1>3
    <2>5. \A j \in First .. m : \A i \in First .. j - 1 : g[i] = f[i]
      BY <2>4, Zenon
    <2>6. \A j \in First .. m : CutsAt(g, j) = CutsAt(f, j)
      <3> HIDE DEF g
      <3>1. SUFFICES ASSUME NEW j \in First .. m PROVE CutsAt(g, j) <=> CutsAt(f, j)
        BY DEF CutsAt
      <3>2. \A i \in First .. j - 1 : g[i] = f[i]
        BY <2>5
      <3>3. QED
        BY <3>2, Zenon DEF CutsAt
    <2>7. \A j \in First .. m : j # m => j \in First .. m - 1
      BY <1>3
    <2>8. \A j \in First .. m : j # m => f[j] = CutsAt(f, j)
      BY <2>3, <2>7, Zenon DEF Cuts
    <2>9. \A j \in First .. m : g[j] = CutsAt(g, j)
      BY <2>6, <2>8, Zenon
    <2>10. g = [j \in First .. m |-> CutsAt(g, j)]
      <3>1. g = [j \in First .. m |-> g[j]]
        OBVIOUS
      <3> HIDE DEF g
      <3>2. QED
        BY <2>9, <3>1, Zenon
    <2>11. QED
      BY <1>3, <2>10 DEF Cuts
  <1>6. QED
    BY <1>4, <1>5

LEMMA FirstIs == First \in 1 .. 2
  <1>1. First \in {1, 2}
    BY DEF First
  <1>2. QED
    BY <1>1

LEMMA BoundariesAre ==
    ASSUME message \in Seq(Element), HasCommand
    PROVE  /\ Boundaries \subseteq First .. Len(args) + 1
           /\ \A j \in First .. Len(args) + 1 :
                j \in Boundaries <=>
                    \/ j = First
                    \/ \E i \in Boundaries : \E s \in SubSet :
                            i < j /\ s.name # "program" /\ IsSub(s, i, j)
  <1> DEFINE N == Len(args) + 1
  <1>1. First \in Nat /\ N \in Nat
    BY FirstIs, Arguments
  <1>2. CutBefore = [j \in First .. N |-> CutsAt(CutBefore, j)]
    <2>1. \E f : f = [j \in First .. N |-> CutsAt(f, j)]
      BY <1>1, CutsExist DEF Cuts
    <2>2. CutBefore = CHOOSE f : f = [j \in First .. N |-> CutsAt(f, j)]
      BY Zenon DEF CutBefore, CutsAt
    <2>3. QED
      BY <2>1, <2>2, Zenon
  <1>3. \A j \in First .. N : CutBefore[j] <=> CutsAt(CutBefore, j)
    BY <1>2, Zenon
  <1>4. \A j : j \in Boundaries <=> j \in First .. N /\ CutBefore[j]
    BY Zenon DEF Boundaries
  <1>5. ASSUME NEW j \in First .. N
        PROVE  \A i \in First .. N : i < j <=> i \in First .. j - 1
    BY <1>1
  <1>6. ASSUME NEW j \in First .. N
        PROVE  \A i : i \in First .. j - 1 => i \in First .. N
    BY <1>1
  <1> HIDE DEF N
  <1>7. ASSUME NEW j \in First .. N
        PROVE  CutsAt(CutBefore, j) <=>
                    \/ j = First
                    \/ \E i \in Boundaries : \E s \in SubSet :
                            i < j /\ s.name # "program" /\ IsSub(s, i, j)
    BY <1>4, <1>5, <1>6, Zenon DEF CutsAt
  <1>8. QED
    BY <1>3, <1>4, <1>7, Zenon DEF N

(***************************************************************************)
(* A subcommand, for the reference, is what Validate finds fine.           *)
(***************************************************************************)
LEMMA SubSetIs ==
    /\ SubSet = {Subs[k] : k \in DOMAIN Subs}
    /\ name = "feed" => \A k \in DOMAIN Subs : Subs[k].name # "program"
    /\ name = "run" => 10 \in DOMAIN Subs /\ Subs[10].name = "program" /\ Len(Subs[10].parts) = 1
  <1>1. name = "feed" => \A k \in DOMAIN Subs : Subs[k].name # "program"
    BY FeedSubsAre DEF Subs
  <1>2. name = "run" => 10 \in DOMAIN Subs /\ Subs[10].name = "program" /\ Len(Subs[10].parts) = 1
    <2>1. 10 \in DOMAIN RunSubs /\ RunSubs[10].name = "program" /\ RunSubs[10].parts = <<SubString>>
      BY RunSubsAre
    <2>2. Len(<<SubString>>) = 1
      OBVIOUS
    <2>3. Len(RunSubs[10].parts) = 1
      BY <2>1, <2>2, Zenon
    <2>4. QED
      BY <2>1, <2>3 DEF Subs
  <1>3. QED
    BY <1>1, <1>2 DEF SubSet

LEMMA SubIsFine ==
    ASSUME message \in Seq(Element), HasCommand, NEW i \in 1 .. Len(args), NEW k \in DOMAIN Subs,
           NEW j \in 1 .. Len(args) + 1, IsSub(Subs[k], i, j)
    PROVE  args[i] = Str(Subs[k].name) /\ SubFlaw(i) = Fine /\ After(i) = j
  <1>1. PICK m \in 0 .. 2 : m = Len(Subs[k].parts) /\ DOMAIN Subs[k].parts = 1 .. m
    BY PartsAreFew
  <1>2. PICK N \in Nat : N = Len(args)
    BY Arguments
  <1>3. j = i + 1 + m /\ Begins(Subs[k], i, j)
    BY <1>1 DEF IsSub
  <1>4. i < j /\ i + m <= N
    <2>1. i \in Nat /\ j <= N + 1 /\ j = i + 1 + m
      BY <1>2, <1>3
    <2>2. m \in Nat /\ N \in Nat
      BY <1>1
    <2>3. i + m <= N
      <3>1. i + 1 + m <= N + 1
        BY <2>1
      <3>2. \A a, b, c \in Nat : a + 1 + b <= c + 1 => a + b <= c
        OBVIOUS
      <3>3. QED
        BY <2>1, <2>2, <3>1, <3>2
    <2>4. i < j
      BY <2>1, <2>2
    <2>5. QED
      BY <2>3, <2>4
  <1>5. args[i] = Str(Subs[k].name)
    BY <1>3, <1>4 DEF Begins
  <1>6. \A p \in 1 .. m : i + p < j
    <2>1. i \in Nat /\ m \in Nat
      BY <1>1, <1>2
    <2>2. \A a, b \in Nat : \A p \in 1 .. b : a + p < a + 1 + b
      OBVIOUS
    <2>3. QED
      BY <1>3, <2>1, <2>2
  <1>7. \A p \in DOMAIN Subs[k].parts : PartFlaw(Subs[k].parts[p], i + p) = Fine
    BY <1>1, <1>3, <1>6 DEF Begins
  <1>8. SubFlaw(i) = Fine
    BY <1>1, <1>2, <1>4, <1>5, <1>7, FineSub
  <1>9. PartsAt(i) = Subs[k].parts
    BY <1>5, PartsAre
  <1>10. QED
    BY <1>1, <1>3, <1>5, <1>8, <1>9 DEF After

LEMMA FineIsSub ==
    ASSUME message \in Seq(Element), HasCommand, NEW i \in 1 .. Len(args), SubFlaw(i) = Fine
    PROVE  \E k \in DOMAIN Subs : args[i] = Str(Subs[k].name) /\ IsSub(Subs[k], i, After(i))
  <1>1. PICK k \in DOMAIN Subs : args[i] = Str(Subs[k].name)
    BY FineIsNamed
  <1>2. \A p \in DOMAIN Subs[k].parts : PartFlaw(Subs[k].parts[p], i + p) = Fine
    BY <1>1, FineSub
  <1>3. After(i) = i + 1 + Len(Subs[k].parts)
    BY <1>1, PartsAre DEF After
  <1>4. PICK m \in Nat : m = Len(Subs[k].parts)
    BY PartsAreFew
  <1>5. After(i) <= i + 1 + Len(Subs[k].parts)
    BY <1>3, <1>4
  <1>6. QED
    BY <1>1, <1>2, <1>3, <1>5 DEF IsSub, Begins

(***************************************************************************)
(* Validate has been at the places of the reference, all of them when it   *)
(* goes no further.                                                        *)
(***************************************************************************)
LEMMA PassedIs ==
    ASSUME message \in Seq(Element), HasCommand, Description[name] \in {"feed", "run"},
           NEW i \in 1 .. Len(args), NEW j \in 1 .. Len(args) + 1
    PROVE  Passed(i) /\ After(i) = j <=>
               \E s \in SubSet : s.name # "program" /\ IsSub(s, i, j)
  <1>1. name \in {"feed", "run"}
    BY Descriptions
  <1>2. \A k \in DOMAIN Subs : args[i] = Str(Subs[k].name) =>
            (~LastSub(i) <=> Subs[k].name # "program")
    BY <1>1, SubSetIs DEF LastSub, Str
  <1>3. i <= Len(args)
    BY Arguments
  <1>4. ASSUME Passed(i), After(i) = j
        PROVE  \E s \in SubSet : s.name # "program" /\ IsSub(s, i, j)
    BY <1>2, <1>4, FineIsSub, SubSetIs DEF Passed
  <1>5. ASSUME NEW k \in DOMAIN Subs, Subs[k].name # "program", IsSub(Subs[k], i, j)
        PROVE  Passed(i) /\ After(i) = j
    BY <1>2, <1>3, <1>5, SubIsFine DEF Passed
  <1>6. QED
    BY <1>4, <1>5, SubSetIs

(* The least number of a set of numbers.                                   *)
LEMMA Least ==
    ASSUME NEW S, S \subseteq Nat, S # {}
    PROVE  \E m \in S : \A k \in S : m <= k
  <1>1. PICK m \in S : \A k \in S : ~(<<k, m>> \in OpToRel(<, Nat))
    BY WFMin, NatLessThanWellFounded, Zenon
  <1>2. \A k \in S : k < m => <<k, m>> \in OpToRel(<, Nat)
    BY DEF OpToRel
  <1>3. \A k \in S : ~(k < m) /\ k \in Nat /\ m \in Nat
    BY <1>1, <1>2
  <1>4. QED
    BY <1>3

LEMMA WalkedAreBoundaries ==
    ASSUME message \in Seq(Element), HasCommand, Description[name] \in {"feed", "run"},
           NEW V, NEW at, Walk(V, at)
    PROVE  V \subseteq Boundaries /\ (~Passed(at) => Boundaries \subseteq V)
  <1>1. /\ V \subseteq First .. Len(args) + 1 /\ at \in First .. Len(args) + 1
        /\ First \in V /\ at \in V
        /\ \A j \in V \ {First} : \E i \in V : Passed(i) /\ j = After(i)
        /\ \A i \in V \ {at} : Passed(i) /\ After(i) \in V
    <2>1. Len(args) \in Nat
      BY Arguments
    <2>2. First \in 1 .. 2
      BY FirstIs
    <2>3. QED
      BY <2>1, <2>2 DEF Walk
  <1>2. First \in 1 .. 2 /\ Len(args) \in Nat
    BY FirstIs, Arguments
  <1>3. /\ Boundaries \subseteq First .. Len(args) + 1
        /\ \A j \in First .. Len(args) + 1 :
                j \in Boundaries <=>
                    \/ j = First
                    \/ \E i \in Boundaries : \E s \in SubSet :
                            i < j /\ s.name # "program" /\ IsSub(s, i, j)
    BY BoundariesAre
  <1>4. \A i \in First .. Len(args) + 1 : Passed(i) => i \in 1 .. Len(args)
    BY <1>2 DEF Passed
  <1>5. V \subseteq Boundaries
    <2>1. SUFFICES ASSUME V \ Boundaries # {} PROVE FALSE
      OBVIOUS
    <2>2. V \ Boundaries \subseteq Nat
      <3>1. First .. Len(args) + 1 \subseteq Nat
        BY <1>2
      <3>2. QED
        BY <1>1, <3>1, Zenon
    <2>3. PICK j \in V \ Boundaries : \A h \in V \ Boundaries : j <= h
      BY <2>1, <2>2, Least
    <2>4. j # First /\ j \in First .. Len(args) + 1
      BY <1>1, <1>2, <1>3, <2>3
    <2>5. PICK i \in V : Passed(i) /\ j = After(i)
      BY <1>1, <2>3, <2>4
    <2>6. i \in 1 .. Len(args) /\ j \in 1 .. Len(args) + 1
      BY <1>1, <1>2, <1>4, <2>4, <2>5
    <2>7. i < j
      BY <1>2, <2>5, <2>6, AfterFine DEF Passed
    <2>8. i \in Boundaries
      BY <2>3, <2>5, <2>6, <2>7
    <2>9. \E s \in SubSet : s.name # "program" /\ IsSub(s, i, j)
      BY <2>5, <2>6, PassedIs
    <2>10. j \in Boundaries
      BY <1>3, <2>4, <2>7, <2>8, <2>9
    <2>11. QED
      BY <2>3, <2>10
  <1>6. ASSUME ~Passed(at) PROVE Boundaries \subseteq V
    <2>1. SUFFICES ASSUME Boundaries \ V # {} PROVE FALSE
      OBVIOUS
    <2>2. Boundaries \ V \subseteq Nat
      <3>1. First .. Len(args) + 1 \subseteq Nat
        BY <1>2
      <3>2. QED
        BY <1>3, <3>1, Zenon
    <2>3. PICK j \in Boundaries \ V : \A h \in Boundaries \ V : j <= h
      BY <2>1, <2>2, Least
    <2>4. j # First /\ j \in First .. Len(args) + 1
      BY <1>1, <1>2, <1>3, <2>3
    <2>5. PICK i \in Boundaries : \E s \in SubSet :
                i < j /\ s.name # "program" /\ IsSub(s, i, j)
      BY <1>3, <2>3, <2>4
    <2>6. i \in First .. Len(args) + 1
      BY <1>3, <2>5
    <2>7. i \in 1 .. Len(args) /\ j \in 1 .. Len(args) + 1 /\ i < j
      BY <1>2, <2>4, <2>5, <2>6
    <2>8. i \in V
      BY <2>3, <2>5, <2>7
    <2>9. Passed(i) /\ After(i) = j
      BY <2>5, <2>7, PassedIs
    <2>10. j \in V
      BY <1>1, <1>6, <2>8, <2>9
    <2>11. QED
      BY <2>3, <2>10
  <1>7. QED
    BY <1>5, <1>6

(* So Validate comes to the end exactly if the arguments have the syntax.  *)
LEMMA EndsInSyntax ==
    ASSUME message \in Seq(Element), HasCommand, Description[name] \in {"feed", "run"},
           args # << >>, NEW V, NEW at, Walk(V, at), ~Passed(at)
    PROVE  InSyntax <=> Ends(at)
  <1>1. V = Boundaries
    BY WalkedAreBoundaries
  <1>2. V \subseteq First .. at /\ at \in V /\ \A i \in V \ {at} : Passed(i)
    BY DEF Walk
  <1>3. First \in 1 .. 2 /\ Len(args) \in Nat /\ at <= Len(args) + 1 /\ at \in First .. at
    BY <1>2, FirstIs, Arguments DEF Walk
  <1>4. PICK N \in Nat : N = Len(args)
    BY <1>3
  <1>5. \A i \in V : i \in 1 .. N + 1 /\ i <= at
    <2>1. at \in Nat
      BY <1>3
    <2>2. QED
      BY <1>2, <1>3, <1>4, <2>1
  <1>6. N + 1 \in V <=> at = N + 1
    <2>1. at \in Nat /\ at <= N + 1
      BY <1>2, <1>4, <1>5
    <2>2. N + 1 \in V => N + 1 <= at
      BY <1>5
    <2>3. QED
      BY <1>2, <2>1, <2>2
  <1>7. CASE Description[name] = "feed"
    <2>1. InSyntax <=> N + 1 \in V
      BY <1>1, <1>4, <1>7 DEF InSyntax
    <2>2. name = "feed"
      BY <1>7, Descriptions
    <2>3. Ends(at) <=> at = N + 1
      BY <1>4, <2>2 DEF Ends, LastSub
    <2>4. QED
      BY <1>6, <2>1, <2>3
  <1>8. CASE Description[name] = "run"
    <2>1. InSyntax <=> \E i \in V :
                            \/ i = N + 1
                            \/ \E s \in SubSet : s.name = "program" /\ i < N /\ IsSub(s, i, i + 2)
      BY <1>1, <1>4, <1>8 DEF InSyntax
    <2>2. name = "run"
      BY <1>8, Descriptions
    <2>3. ASSUME NEW i \in V, NEW k \in DOMAIN Subs, Subs[k].name = "program",
                 i < N, IsSub(Subs[k], i, i + 2)
          PROVE  Ends(at)
      <3>1. i \in 1 .. Len(args) /\ i + 2 \in 1 .. Len(args) + 1 /\ i <= Len(args)
        <4>1. i \in 1 .. N + 1
          BY <1>5
        <4>2. i \in 1 .. N /\ i + 2 \in 1 .. N + 1 /\ i <= N
          BY <2>3, <4>1
        <4>3. QED
          BY <1>4, <4>2
      <3>2. args[i] = Str("program") /\ SubFlaw(i) = Fine
        BY <2>3, <3>1, SubIsFine
      <3>3. i = at
        BY <1>2, <2>2, <3>2 DEF Passed, LastSub
      <3>4. QED
        BY <2>2, <3>1, <3>2, <3>3 DEF Ends, LastSub
    <2>4. ASSUME at <= Len(args), SubFlaw(at) = Fine, LastSub(at)
          PROVE  \E i \in V : \E s \in SubSet :
                    s.name = "program" /\ i < N /\ IsSub(s, i, i + 2)
      <3>1. at \in 1 .. Len(args)
        BY <1>2, <1>4, <1>5, <2>4
      <3>2. PICK k \in DOMAIN Subs : args[at] = Str(Subs[k].name) /\ IsSub(Subs[k], at, After(at))
        BY <2>4, <3>1, FineIsSub
      <3>3. Subs[k].name = "program" /\ k = 10
        BY <2>2, <2>4, <3>2, SubSetIs, NamesDiffer DEF LastSub, Str
      <3>4. Len(Subs[k].parts) = 1
        BY <2>2, <3>3, SubSetIs
      <3>5. at + 1 <= Len(args)
        BY <2>4, <3>1, <3>2, <3>4, FineSub
      <3>6. at < N
        BY <1>4, <3>1, <3>5
      <3>7. After(at) = at + 2
        <4>1. PartsAt(at) = Subs[k].parts
          BY <3>2, PartsAre
        <4>2. Len(PartsAt(at)) = 1 /\ at \in Nat
          BY <3>1, <3>4, <4>1
        <4>3. After(at) = at + 1 + 1
          BY <4>2 DEF After
        <4>4. QED
          BY <4>2, <4>3
      <3>8. Subs[k] \in SubSet
        BY SubSetIs
      <3>9. QED
        BY <1>2, <3>2, <3>3, <3>6, <3>7, <3>8
    <2>5. ASSUME InSyntax PROVE Ends(at)
      <3>1. PICK i \in V :
                \/ i = N + 1
                \/ \E s \in SubSet : s.name = "program" /\ i < N /\ IsSub(s, i, i + 2)
        BY <2>1, <2>5
      <3>2. CASE i = N + 1
        BY <1>4, <1>6, <3>2 DEF Ends
      <3>3. CASE \E s \in SubSet : s.name = "program" /\ i < N /\ IsSub(s, i, i + 2)
        BY <2>3, <3>3, SubSetIs
      <3>4. QED
        BY <3>1, <3>2, <3>3
    <2>6. ASSUME Ends(at) PROVE InSyntax
      <3>1. CASE at = Len(args) + 1
        BY <1>2, <1>4, <2>1, <3>1
      <3>2. CASE at # Len(args) + 1
        BY <2>1, <2>4, <2>6, <3>2 DEF Ends
      <3>3. QED
        BY <3>1, <3>2
    <2>7. QED
      BY <2>5, <2>6
  <1>9. QED
    BY <1>7, <1>8

(* The syntax of the other commands is that their arguments have no flaw.  *)
LEMMA ListInSyntax ==
    ASSUME HasCommand, Description[name] \notin {"feed", "run"}
    PROVE  InSyntax <=> ListFlaw = Fine
  <1>1. Description[name] \in {"parameterless", "strings", "pairs", "list"}
    BY Descriptions DEF HasCommand, Description
  <1>2. NotStrings = {} <=> \A k \in DOMAIN args : args[k].kind = "string"
    BY DEF NotStrings
  <1>3. \A past : /\ Flaw("unexpected", past) # Fine /\ Flaw("missing", past) # Fine
                  /\ Flaw("pairless", past) # Fine /\ Flaw("not-string", past) # Fine
    BY FlawsDiffer
  <1>4. CASE Description[name] = "parameterless"
    BY <1>3, <1>4 DEF InSyntax, ListFlaw
  <1>5. CASE Description[name] = "list"
    BY <1>3, <1>5 DEF InSyntax, ListFlaw
  <1>6. CASE Description[name] = "strings"
    BY <1>2, <1>3, <1>6 DEF InSyntax, ListFlaw
  <1>7. CASE Description[name] = "pairs"
    <2>1. PICK r : r = Len(args) % 2
      OBVIOUS
    <2>2. QED
      BY <1>2, <1>3, <1>7, <2>1 DEF InSyntax, ListFlaw
  <1>8. QED
    BY <1>1, <1>4, <1>5, <1>6, <1>7

(***************************************************************************)
(* Where the flaw is: the arguments before it begin a command, and with it *)
(* they do not.                                                            *)
(***************************************************************************)
LEMMA GoesNoFurther ==
    ASSUME message \in Seq(Element), HasCommand, Description[name] \in {"feed", "run"},
           NEW V, NEW at, Walk(V, at), ~Passed(at), at <= Len(args)
    PROVE  /\ at \in 1 .. Len(args)
           /\ CanGoOn(at)
           /\ \A j \in at + 1 .. Len(args) + 1 :
                CanGoOn(j) <=> \E k \in DOMAIN Subs : Begins(Subs[k], at, j)
  <1>1. V = Boundaries
    BY WalkedAreBoundaries
  <1>2. V \subseteq First .. at /\ at \in V /\ \A i \in V \ {at} : Passed(i) /\ After(i) \in V
    BY DEF Walk
  <1>3. First \in 1 .. 2 /\ Len(args) \in Nat /\ at \in First .. at
    BY <1>2, FirstIs, Arguments
  <1>4. at \in 1 .. Len(args)
    BY <1>3
  <1>5. \A i \in V : i \in 1 .. at /\ i <= at
    BY <1>2, <1>3, <1>4
  <1>6. CanGoOn(at)
    <2>1. 1 \in DOMAIN Subs
      BY FeedSubsAre, RunSubsAre DEF Subs
    <2>2. Len(Subs[1].parts) \in 0 .. 2 /\ DOMAIN Subs[1].parts = 1 .. Len(Subs[1].parts)
      BY <2>1, PartsAreFew
    <2>3. ~(at < at) /\ at <= at + 1 + Len(Subs[1].parts)
      <3>1. PICK m \in Nat : m = Len(Subs[1].parts)
        BY <2>2
      <3>2. at \in Nat
        BY <1>4
      <3>3. at <= at + 1 + m /\ ~(at < at)
        BY <3>2
      <3>4. QED
        BY <3>1, <3>3
    <2>4. \A p \in DOMAIN Subs[1].parts : ~(at + p < at)
      BY <1>4, <2>2
    <2>5. Begins(Subs[1], at, at)
      BY <2>3, <2>4 DEF Begins
    <2>6. Subs[1] \in SubSet /\ at <= at
      BY <1>4, <2>1, SubSetIs
    <2>7. QED
      BY <1>1, <1>2, <2>5, <2>6 DEF CanGoOn
  <1>7. ASSUME NEW j \in at + 1 .. Len(args) + 1
        PROVE  CanGoOn(j) <=> \E k \in DOMAIN Subs : Begins(Subs[k], at, j)
    <2>1. at < j /\ at <= j /\ j \in Nat
      BY <1>4
    <2>2. ASSUME NEW i \in V, i # at, NEW k \in DOMAIN Subs, Begins(Subs[k], i, j)
          PROVE  FALSE
      <3>1. i \in 1 .. Len(args) /\ i < j
        <4>1. i \in 1 .. at
          BY <1>5
        <4>2. QED
          BY <1>4, <2>1, <4>1
      <3>2. args[i] = Str(Subs[k].name) /\ j <= i + 1 + Len(Subs[k].parts)
        BY <2>2, <3>1 DEF Begins
      <3>3. After(i) = i + 1 + Len(Subs[k].parts)
        BY <3>2, PartsAre DEF After
      <3>4. After(i) \in V
        BY <1>2, <2>2
      <3>5. j <= After(i) /\ After(i) <= at /\ After(i) \in Nat
        BY <1>5, <3>2, <3>3, <3>4
      <3>6. QED
        BY <1>4, <2>1, <3>5
    <2>3. ASSUME CanGoOn(j) PROVE \E k \in DOMAIN Subs : Begins(Subs[k], at, j)
      <3>1. PICK i \in V : \E k \in DOMAIN Subs : Begins(Subs[k], i, j)
        BY <1>1, <2>3, SubSetIs DEF CanGoOn
      <3>2. i = at
        BY <2>2, <3>1
      <3>3. QED
        BY <3>1, <3>2
    <2>4. ASSUME NEW k \in DOMAIN Subs, Begins(Subs[k], at, j) PROVE CanGoOn(j)
      <3>1. Subs[k] \in SubSet
        BY SubSetIs
      <3>2. QED
        BY <1>1, <1>2, <2>1, <2>4, <3>1 DEF CanGoOn
    <2>5. QED
      BY <2>3, <2>4
  <1>8. QED
    BY <1>4, <1>6, <1>7

LEMMA FlawAtPart ==
    ASSUME NEW part, NEW at, PartFlaw(part, at) # Fine
    PROVE  PartFlaw(part, at).past = at /\ PartFlaw(part, at).what # "missing"
  <1>1. PartFlaw(part, at) \in
            {Flaw("not-string-null", at), Flaw("not-string", at), Flaw("unknown", at)}
    BY DEF PartFlaw
  <1>2. \A what : Flaw(what, at).past = at /\ Flaw(what, at).what = what
    BY FlawsDiffer
  <1>3. QED
    BY <1>1, <1>2

LEMMA FlawIsWhere ==
    ASSUME message \in Seq(Element), HasCommand, Description[name] \in {"feed", "run"},
           NEW V, NEW at, Walk(V, at), at <= Len(args), SubFlaw(at) # Fine
    PROVE  LET flaw == SubFlaw(at) IN
           /\ flaw.past \in 1 .. Len(args)
           /\ IF flaw.what = "missing"
              THEN flaw.past = Len(args)
              ELSE CanGoOn(flaw.past) /\ ~CanGoOn(flaw.past + 1)
  <1>1. ~Passed(at)
    BY DEF Passed
  <1>2. /\ at \in 1 .. Len(args) /\ CanGoOn(at)
        /\ \A j \in at + 1 .. Len(args) + 1 :
                CanGoOn(j) <=> \E k \in DOMAIN Subs : Begins(Subs[k], at, j)
    BY <1>1, GoesNoFurther
  <1>3. Len(args) \in Nat
    BY Arguments
  <1>4. at + 1 \in at + 1 .. Len(args) + 1
    BY <1>2, <1>3
  <1>5. \A k \in DOMAIN Subs : Begins(Subs[k], at, at + 1) => args[at] = Str(Subs[k].name)
    <2>1. at < at + 1
      BY <1>2
    <2>2. QED
      BY <2>1 DEF Begins
  <1>6. CASE \A k \in DOMAIN Subs : args[at] # Str(Subs[k].name)
    <2>1. ~CanGoOn(at + 1)
      BY <1>2, <1>4, <1>5, <1>6
    <2>2. SubFlaw(at) \in {Flaw("not-string", at), Flaw("unknown", at)}
      <3>1. Named(at) = {}
        BY <1>6 DEF Named
      <3>2. QED
        BY <3>1 DEF SubFlaw
    <2>3. SubFlaw(at).past = at /\ SubFlaw(at).what # "missing"
      <3>1. \A what : Flaw(what, at).past = at /\ Flaw(what, at).what = what
        BY FlawsDiffer
      <3>2. QED
        BY <2>2, <3>1
    <2>4. QED
      BY <1>2, <2>1, <2>3
  <1>7. ASSUME NEW k \in DOMAIN Subs, args[at] = Str(Subs[k].name)
        PROVE  LET flaw == SubFlaw(at) IN
               /\ flaw.past \in 1 .. Len(args)
               /\ IF flaw.what = "missing"
                  THEN flaw.past = Len(args)
                  ELSE CanGoOn(flaw.past) /\ ~CanGoOn(flaw.past + 1)
    <2> DEFINE parts == Subs[k].parts
               f == FirstOf(Flawed(parts, at))
    <2>1. SubFlaw(at) = IF TooFew(parts, at) THEN Flaw("missing", Len(args))
                        ELSE IF Flawed(parts, at) = {} THEN Fine
                        ELSE PartFlaw(parts[f], at + f)
      BY <1>2, <1>7, SubFlawOf
    <2>2. CASE TooFew(parts, at)
      <3>1. SubFlaw(at).what = "missing" /\ SubFlaw(at).past = Len(args)
        BY <2>1, <2>2, FlawsDiffer
      <3>2. Len(args) \in 1 .. Len(args)
        BY <1>2, <1>3
      <3>3. QED
        BY <3>1, <3>2
    <2>3. CASE ~TooFew(parts, at)
      <3>1. Flawed(parts, at) # {} /\ SubFlaw(at) = PartFlaw(parts[f], at + f)
        BY <2>1, <2>3
      <3>2. Flawed(parts, at) \in SUBSET (1 .. 2) /\ f \in Flawed(parts, at)
                 /\ \A p \in Flawed(parts, at) : f <= p
        BY <3>1, FlawedAreFew
      <3>3. /\ f \in DOMAIN parts /\ at + f <= Len(args)
            /\ PartFlaw(parts[f], at + f) # Fine
        BY <3>2 DEF Flawed
      <3>4. f \in 1 .. 2 /\ Len(parts) \in 0 .. 2 /\ f <= Len(parts)
            /\ DOMAIN parts = 1 .. Len(parts)
        BY <3>2, <3>3, PartsAreFew
      <3>5. PICK g \in 1 .. 2 : g = f
        BY <3>4
      <3> HIDE DEF f
      <3>6. SubFlaw(at).past = at + g /\ SubFlaw(at).what # "missing"
        <4>1. PartFlaw(parts[g], at + g).past = at + g
              /\ PartFlaw(parts[g], at + g).what # "missing"
          BY <3>3, <3>5, FlawAtPart
        <4>2. QED
          BY <3>1, <3>5, <4>1
      <3>7. at + g \in at + 1 .. Len(args) + 1 /\ at + g + 1 \in at + 1 .. Len(args) + 1
            /\ at + g \in 1 .. Len(args)
        BY <1>2, <1>3, <3>3, <3>5
      <3>8. Begins(Subs[k], at, at + g)
        <4>1. at + g <= at + 1 + Len(parts)
          <5>1. PICK m \in Nat : m = Len(parts)
            BY <3>4
          <5>2. g <= m /\ at \in Nat /\ g \in Nat
            BY <1>2, <3>4, <3>5, <5>1
          <5>3. at + g <= at + 1 + m
            BY <5>2
          <5>4. QED
            BY <5>1, <5>3
        <4>2. ASSUME NEW p \in DOMAIN parts, at + p < at + g
              PROVE  PartFlaw(parts[p], at + p) = Fine
          <5>1. p \in Nat /\ p < g /\ at + p <= Len(args)
            <6>1. p \in Nat
              BY <3>4
            <6>2. QED
              BY <1>2, <3>7, <4>2, <6>1
          <5>2. p \notin Flawed(parts, at)
            BY <3>2, <3>5, <5>1
          <5>3. QED
            BY <5>1, <5>2 DEF Flawed
        <4>3. QED
          BY <1>7, <4>1, <4>2 DEF Begins
      <3>9. ASSUME NEW m \in DOMAIN Subs, Begins(Subs[m], at, at + g + 1)
            PROVE  FALSE
        <4>1. at < at + g + 1
          BY <1>2
        <4>2. args[at] = Str(Subs[m].name)
          BY <3>9, <4>1 DEF Begins
        <4>3. m = k
          BY <1>7, <4>2, NamesDiffer DEF Str
        <4>4. at + g < at + g + 1
          BY <1>2
        <4>5. PartFlaw(parts[g], at + g) = Fine
          BY <3>3, <3>5, <3>9, <4>3, <4>4 DEF Begins
        <4>6. QED
          BY <3>3, <3>5, <4>5
      <3>10. QED
        BY <1>2, <3>6, <3>7, <3>8, <3>9
    <2>4. QED
      BY <2>2, <2>3
  <1>8. QED
    BY <1>6, <1>7

(***************************************************************************)
(* What is over has been rejected for its syntax or has an answer of       *)
(* another class.                                                          *)
(***************************************************************************)
LEMMA NotErrors ==
    ASSUME HasCommand
    PROVE  Done.class # "error" /\ \A type, rest : Reply(name, type, rest).class # "error"
  <1>1. name # "error"
    BY DEF HasCommand, Description, Parameterless
  <1>2. QED
    BY <1>1 DEF Done, Reply, Message

LEMMA Answered ==
    ASSUME Silent, place # "over", NEW S, \A m \in S : m.class # "error", NEW list \in Seq(S),
           Send(list)
    PROVE  ~Rejected'
  <1>1. replies' = << >> \/ replies' = list
    BY ConcatEmptySeq DEF Send, Silent
  <1>2. list # << >> => list[1] \in S
    BY EmptySeq
  <1>3. QED
    BY <1>1, <1>2 DEF Rejected

LEMMA OneElement == ASSUME NEW S, NEW x \in S PROVE <<x>> \in Seq(S)
  OBVIOUS

LEMMA AnsweredTwice ==
    ASSUME Silent, HasCommand, place # "over", NEW type, NEW rest,
           Send(<<Reply(name, type, rest), Done>>)
    PROVE  ~Rejected'
  <1> DEFINE S == {Reply(name, type, rest), Done}
  <1>1. \A m \in S : m.class # "error"
    BY NotErrors
  <1>2. <<Reply(name, type, rest), Done>> \in Seq(S)
    OBVIOUS
  <1> HIDE DEF S
  <1>3. QED
    BY <1>1, <1>2, Answered

LEMMA BehindTwo ==
    ASSUME NEW S, NEW a \in S, NEW b \in S, NEW t \in Seq(S)
    PROVE  SubSeq(<<a, b>> \o t, 3, Len(<<a, b>> \o t)) = t
  <1> DEFINE s == <<a, b>> \o t
             u == SubSeq(s, 3, Len(s))
  <1>1. <<a, b>> \in Seq(S) /\ Len(<<a, b>>) = 2
    OBVIOUS
  <1>2. PICK n \in Nat : n = Len(t)
    OBVIOUS
  <1>3. s \in Seq(S) /\ Len(s) = 2 + n /\ \A k \in 1 .. n : s[2 + k] = t[k]
    <2>1. s \in Seq(S) /\ Len(s) = 2 + Len(t)
      BY <1>1, ConcatProperties
    <2>2. \A k \in 2 + 1 .. 2 + Len(t) : s[k] = t[k - 2]
      BY <1>1, ConcatProperties
    <2>3. \A k \in 1 .. n : 2 + k \in 2 + 1 .. 2 + n /\ (2 + k) - 2 = k
      OBVIOUS
    <2>4. QED
      BY <1>2, <2>1, <2>2, <2>3
  <1> HIDE DEF s
  <1>4. u \in Seq(S) /\ Len(u) = n /\ \A k \in 1 .. n : u[k] = s[2 + k]
    BY <1>2, <1>3
  <1>5. QED
    BY <1>2, <1>3, <1>4 DEF s

(* The reply of Reject says what is wrong, and repeats the arguments up to *)
(* where it is.                                                            *)
LEMMA RejectSays ==
    ASSUME Silent, Typed, HasCommand, place # "over",
           NEW flaw, flaw.past \in 0 .. Len(args), Reject(flaw), replies' # << >>
    PROVE  /\ replies'[1].type = flaw.what
           /\ Reported' = SubSeq(args, 1, flaw.past) /\ Len(Reported') = flaw.past
  <1>1. PICK n \in Nat : n = flaw.past /\ n <= Len(args)
    BY Arguments DEF Typed
  <1>2. /\ SubSeq(args, 1, n) \in Seq(Element) /\ Len(SubSeq(args, 1, n)) = n
    <2>1. \A k \in 1 .. n : args[k] \in Element
      BY <1>1, Arguments DEF Typed
    <2>2. QED
      BY <2>1, SubSeqProperties
  <1>3. id \in Element /\ message[2] \in Element
    BY DEF Typed, HasCommand, HasIdentifier, id
  <1> DEFINE rest == <<id, message[2]>> \o SubSeq(args, 1, n)
  <1>4. SubSeq(rest, 3, Len(rest)) = SubSeq(args, 1, n)
    BY <1>2, <1>3, BehindTwo
  <1> DEFINE all == <<Reply("error", flaw.what, rest), Done>>
  <1>5. Send(all)
    BY <1>1 DEF Reject
  <1> HIDE DEF rest
  <1>6. replies' = all
    BY <1>5 DEF Send, Silent
  <1>7. replies'[1].type = flaw.what /\ replies'[1].rest = rest
    BY <1>6 DEF Reply, Message
  <1>8. Reported' = SubSeq(rest, 3, Len(rest))
    BY <1>7 DEF Reported
  <1>9. QED
    BY <1>1, <1>2, <1>4, <1>7, <1>8

LEMMA SameSyntax ==
    ASSUME UNCHANGED message
    PROVE  /\ HasCommand' = HasCommand /\ BadArguments' = BadArguments
           /\ args' = args /\ Description[name]' = Description[name]
           /\ InSyntax' = InSyntax /\ \A j : CanGoOn(j)' = CanGoOn(j)
  <1>1. HasCommand' = HasCommand /\ BadArguments' = BadArguments
    BY SameMessage DEF BadArguments
  <1>2. args' = args /\ Description[name]' = Description[name] /\ First' = First /\ Subs' = Subs
    BY SameArguments DEF Subs
  <1>3. SubSet' = SubSet
    BY <1>2 DEF SubSet
  <1>4. ASSUME NEW s, NEW i, NEW j PROVE Begins(s, i, j)' = Begins(s, i, j)
    BY DEF Begins, PartFlaw, args
  <1>5. ASSUME NEW s, NEW i, NEW j PROVE IsSub(s, i, j)' = IsSub(s, i, j)
    BY DEF IsSub, Begins, PartFlaw, args
  <1>6. Boundaries' = Boundaries
    BY DEF Boundaries, CutBefore, SubSet, IsSub, Begins, PartFlaw, Subs, First, args, name
  <1>7. InSyntax' = InSyntax
    BY DEF InSyntax, Boundaries, CutBefore, SubSet, IsSub, Begins, PartFlaw, Subs, First, args, name
  <1>8. ASSUME NEW j PROVE CanGoOn(j)' = CanGoOn(j)
    BY DEF CanGoOn, Boundaries, CutBefore, SubSet, IsSub, Begins, PartFlaw, Subs, First, args, name
  <1>9. QED
    BY <1>1, <1>2, <1>7, <1>8

(***************************************************************************)
(* The invariant: what has been rejected was, rightly.                     *)
(***************************************************************************)
Shows ==
    (Description[name] \in {"feed", "run"} /\ args # << >>) =>
        /\ Reported = SubSeq(args, 1, Len(Reported))
        /\ IF replies[1].type = "missing"
           THEN Reported = args
           ELSE CanGoOn(Len(Reported)) /\ ~CanGoOn(Len(Reported) + 1)

Rightly == Rejected => ~InSyntax /\ Shows

LEMMA RejectIsRight ==
    ASSUME Agreed, HasCommand, place # "over", NEW flaw, flaw.past \in 0 .. Len(args),
           Reject(flaw), ~InSyntax,
           (Description[name] \in {"feed", "run"} /\ args # << >>) =>
                IF flaw.what = "missing" THEN flaw.past = Len(args)
                ELSE CanGoOn(flaw.past) /\ ~CanGoOn(flaw.past + 1)
    PROVE  Rightly'
  <1>1. SUFFICES ASSUME Rejected' PROVE ~InSyntax' /\ Shows'
    BY DEF Rightly
  <1>2. UNCHANGED message
    BY DEF Reject, Finish
  <1>3. /\ replies'[1].type = flaw.what
        /\ Reported' = SubSeq(args, 1, flaw.past) /\ Len(Reported') = flaw.past
    BY <1>1, RejectSays DEF Rejected, Agreed, IInv, Agreement
  <1>4. PICK p : p = flaw.past
    OBVIOUS
  <1>5. PICK r : r = Len(Reported')
    OBVIOUS
  <1>6. \A j : CanGoOn(j)' = CanGoOn(j)
    BY <1>2, SameSyntax
  <1>7. SubSeq(args, 1, Len(args)) = args
    BY Arguments, SubSeqFull DEF Agreed, Agreement, Typed
  <1>8. QED
    BY <1>2, <1>3, <1>4, <1>6, <1>7, SameSyntax DEF Shows

LEMMA EndIsRight ==
    ASSUME Agreed, BadFormat \/ BadIdentifier \/ BadCommand \/ BadArgument \/ Execute
    PROVE  Rightly'
  <1>1. UNCHANGED message
    BY DEF BadFormat, BadIdentifier, BadCommand, BadArgument, Execute, Finish
  <1>2. CASE BadFormat \/ BadIdentifier \/ BadCommand
    <2>1. ~HasCommand
      BY <1>2 DEF BadFormat, BadIdentifier, BadCommand, HasCommand, HasIdentifier
    <2>2. QED
      BY <1>1, <2>1, SameSyntax DEF Rightly, Rejected
  <1>3. CASE BadArgument
    BY <1>1, <1>3, SameSyntax DEF BadArgument, Rightly, Rejected
  <1>4. CASE Execute
    BY <1>4 DEF Execute, Rightly, Rejected
  <1>5. QED
    BY <1>2, <1>3, <1>4

LEMMA ValidateIsRight ==
    ASSUME Agreed, ValidateList \/ ValidateFirst \/ ValidateSub
    PROVE  Rightly'
  <1>1. HasCommand /\ message \in Seq(Element) /\ place # "over" /\ Len(args) \in Nat
    BY Arguments DEF Agreed, Agreement, Typed, Known, ValidateList, ValidateFirst, ValidateSub
  <1>2. ASSUME place' # "over" PROVE Rightly'
    BY <1>2 DEF Rightly, Rejected
  <1>3. CASE ValidateList
    <2>1. CASE Accept
      BY <1>2, <2>1, Descriptions, <1>1 DEF Accept
    <2>2. CASE ListFlaw # Fine /\ Reject(ListFlaw)
      <3>1. ~InSyntax /\ Description[name] \notin {"feed", "run"}
        BY <1>1, <1>3, <2>2, ListInSyntax DEF ValidateList
      <3>2. ListFlaw.past \in 0 .. Len(args)
        <4>1. PICK S : S = NotStrings
          OBVIOUS
        <4>2. S # {} => (CHOOSE k \in S : \A j \in S : k <= j) \in 0 .. Len(args)
          <5>1. S \subseteq Nat /\ S \subseteq 0 .. Len(args)
            BY <1>1, <4>1, Arguments DEF NotStrings
          <5>2. S # {} => \E k \in S : \A j \in S : k <= j
            BY <5>1, Least
          <5>3. QED
            BY <5>1, <5>2
        <4>3. 0 \in 0 .. Len(args) /\ Len(args) \in 0 .. Len(args)
          BY <1>1
        <4>4. QED
          <5>1. PICK first : first = CHOOSE k \in S : \A j \in S : k <= j
            OBVIOUS
          <5>2. \/ ListFlaw \in {Flaw("unexpected", Len(args)), Flaw("missing", 0),
                                 Flaw("pairless", Len(args))}
                \/ S # {} /\ ListFlaw = Flaw("not-string", first)
            BY <2>2, <4>1, <5>1 DEF ListFlaw
          <5>3. \A what, past : Flaw(what, past).past = past
            BY FlawsDiffer
          <5>4. ListFlaw.past \in {0, Len(args)} \/ (S # {} /\ ListFlaw.past = first)
            BY <5>2, <5>3
          <5>5. QED
            BY <4>2, <4>3, <5>1, <5>4
      <3>3. QED
        BY <1>1, <2>2, <3>1, <3>2, RejectIsRight
    <2>3. QED
      BY <1>3, <2>1, <2>2 DEF ValidateList
  <1>4. CASE ValidateFirst
    <2>1. CASE args # << >>
      BY <1>2, <1>4, <2>1 DEF ValidateFirst
    <2>2. CASE args = << >>
      <3>1. ~InSyntax
        BY <1>4, <2>2 DEF ValidateFirst, InSyntax
      <3>2. PICK flaw : flaw = Flaw("missing", 0)
        OBVIOUS
      <3>3. flaw.past \in 0 .. Len(args) /\ Reject(flaw)
        <4>1. Reject(flaw)
          BY <1>4, <2>2, <3>2 DEF ValidateFirst
        <4>2. flaw.past = 0
          BY <3>2, FlawsDiffer
        <4>3. QED
          BY <1>1, <4>1, <4>2
      <3>4. QED
        BY <1>1, <2>2, <3>1, <3>3, RejectIsRight
    <2>3. QED
      BY <2>1, <2>2
  <1>5. CASE ValidateSub
    <2>1. Description[name] \in {"feed", "run"} /\ args # << >> /\ \E V : Walk(V, loc)
      BY <1>5 DEF Agreed, Agreement, Walking, ValidateSub
    <2>2. CASE Accept
      BY <1>1, <1>2, <2>2, Descriptions DEF Accept
    <2>3. CASE loc <= Len(args) /\ SubFlaw(loc) # Fine /\ Reject(SubFlaw(loc))
      <3>1. PICK V : Walk(V, loc)
        BY <2>1
      <3>2. PICK flaw : flaw = SubFlaw(loc)
        OBVIOUS
      <3>3. /\ flaw.past \in 1 .. Len(args)
            /\ IF flaw.what = "missing" THEN flaw.past = Len(args)
               ELSE CanGoOn(flaw.past) /\ ~CanGoOn(flaw.past + 1)
        BY <1>1, <2>1, <2>3, <3>1, <3>2, FlawIsWhere
      <3>4. ~Passed(loc) /\ ~Ends(loc)
        <4>1. loc # Len(args) + 1
          <5>1. loc \in Nat
            <6>1. loc \in First .. loc
              BY <3>1 DEF Walk
            <6>2. QED
              BY <6>1, FirstIs
          <5>2. QED
            BY <1>1, <2>3, <5>1
        <4>2. QED
          BY <2>3, <4>1 DEF Passed, Ends
      <3>5. ~InSyntax
        BY <1>1, <2>1, <3>1, <3>4, EndsInSyntax
      <3>6. flaw.past \in 0 .. Len(args) /\ Reject(flaw)
        BY <1>1, <2>3, <3>2, <3>3
      <3>7. QED
        BY <1>1, <3>3, <3>5, <3>6, RejectIsRight
    <2>4. CASE loc > Len(args) \/ SubFlaw(loc) = Fine
      BY <1>1, <1>2, <1>5, <2>2, <2>4, FlawsDiffer DEF ValidateSub
    <2>5. loc \in Nat
      <3>1. loc \in First .. loc
        BY <2>1 DEF Walk
      <3>2. QED
        BY <3>1, FirstIs
    <2>6. QED
      BY <1>1, <1>5, <2>2, <2>3, <2>4, <2>5 DEF ValidateSub
  <1>6. QED
    BY <1>3, <1>4, <1>5

LEMMA PerformIsRight ==
    ASSUME Agreed, NoOperation \/ Version \/ StorageInfo \/ Get \/ ForEach \/ EndFeed
    PROVE  Rightly'
  <1>1. Silent /\ HasCommand /\ place = "perform"
    BY DEF Agreed, IInv, Known, NoOperation, Version, StorageInfo, Get, ForEach, EndFeed, Performs
  <1>2. ASSUME Fault PROVE Rightly'
    BY <1>2 DEF Fault, Rightly, Rejected
  <1>3. CASE NoOperation
    BY <1>1, <1>3, AnsweredTwice DEF NoOperation, Rightly
  <1>4. CASE Version
    BY <1>1, <1>4, AnsweredTwice DEF Version, Rightly
  <1>5. CASE StorageInfo
    <2>1. PICK stored \in {<< >>, <<Str("a")>>, <<Str("a"), Str("b")>>} :
            Send(<<Reply(name, "", Mapping(stored, [k \in DOMAIN stored |-> Info])), Done>>)
      BY <1>5 DEF StorageInfo
    <2>2. QED
      BY <1>1, <2>1, AnsweredTwice DEF Rightly
  <1>6. CASE Get
    <2>1. CASE NotStrings # {}
      BY <1>2, <1>6, <2>1 DEF Get
    <2>2. CASE NotStrings = {}
      <3>1. PICK missing, rest, failed :
              Send(IfAny(missing, "missing") \o <<Reply(name, "", rest)>>
                   \o IfAny(failed, "failed") \o <<Done>>)
        BY <1>6, <2>2 DEF Get
      <3> DEFINE S == {Reply(name, "missing", missing), Reply(name, "", rest),
                       Reply(name, "failed", failed), Done}
                 list == IfAny(missing, "missing") \o <<Reply(name, "", rest)>>
                         \o IfAny(failed, "failed") \o <<Done>>
      <3>2. \A m \in S : m.class # "error"
        BY <1>1, NotErrors
      <3>3. /\ IfAny(missing, "missing") \in Seq(S) /\ IfAny(failed, "failed") \in Seq(S)
            /\ <<Reply(name, "", rest)>> \in Seq(S) /\ <<Done>> \in Seq(S)
        <4>1. IfAny(missing, "missing") \in Seq(S) /\ IfAny(failed, "failed") \in Seq(S)
          BY OneOrNone
        <4>2. Reply(name, "", rest) \in S /\ Done \in S
          OBVIOUS
        <4> HIDE DEF S
        <4>3. QED
          BY <4>1, <4>2, OneElement
      <3> HIDE DEF S
      <3>4. IfAny(missing, "missing") \o <<Reply(name, "", rest)>> \in Seq(S)
        BY <3>3, ConcatProperties
      <3>5. IfAny(missing, "missing") \o <<Reply(name, "", rest)>> \o IfAny(failed, "failed")
                \in Seq(S)
        BY <3>3, <3>4, ConcatProperties
      <3>6. list \in Seq(S)
        BY <3>3, <3>5, ConcatProperties
      <3>7. QED
        BY <1>1, <3>1, <3>2, <3>6, Answered DEF Rightly
    <2>3. QED
      BY <2>1, <2>2
  <1>7. CASE ForEach
    <2>1. CASE Fault
      BY <1>2, <2>1
    <2>2. CASE ~Fault
      <3>1. PICK missing : Send(IfAny(missing, "missing") \o <<Done>>)
        BY <1>7, <2>2 DEF ForEach
      <3> DEFINE S == {Reply(name, "missing", missing), Done}
      <3>2. IfAny(missing, "missing") \in Seq(S) /\ <<Done>> \in Seq(S)
        <4>1. IfAny(missing, "missing") \in Seq(S)
          BY OneOrNone
        <4>2. QED
          BY <4>1
      <3>3. \A m \in S : m.class # "error"
        BY <1>1, NotErrors
      <3> HIDE DEF S
      <3>4. IfAny(missing, "missing") \o <<Done>> \in Seq(S)
        BY <3>2, ConcatProperties
      <3>5. QED
        BY <1>1, <3>1, <3>3, <3>4, Answered DEF Rightly
    <2>3. QED
      BY <2>1, <2>2
  <1>8. CASE EndFeed
    <2>1. PICK missing, closed :
            Send(IfAny(missing, "missing") \o IfAny(closed, "not-open") \o <<Done>>)
      BY <1>8 DEF EndFeed
    <2> DEFINE S == {Reply(name, "missing", missing), Reply(name, "not-open", closed), Done}
    <2>2. /\ IfAny(missing, "missing") \in Seq(S) /\ IfAny(closed, "not-open") \in Seq(S)
          /\ <<Done>> \in Seq(S)
      <3>1. IfAny(missing, "missing") \in Seq(S) /\ IfAny(closed, "not-open") \in Seq(S)
        BY OneOrNone
      <3>2. QED
        BY <3>1
    <2>3. \A m \in S : m.class # "error"
      BY <1>1, NotErrors
    <2> HIDE DEF S
    <2>4. IfAny(missing, "missing") \o IfAny(closed, "not-open") \in Seq(S)
      BY <2>2, ConcatProperties
    <2>5. IfAny(missing, "missing") \o IfAny(closed, "not-open") \o <<Done>> \in Seq(S)
      BY <2>2, <2>4, ConcatProperties
    <2>6. QED
      BY <1>1, <2>1, <2>3, <2>5, Answered DEF Rightly
  <1>9. QED
    BY <1>3, <1>4, <1>5, <1>6, <1>7, <1>8

LEMMA FeedIsRight ==
    ASSUME Agreed, FeedRefused \/ FeedInput \/ FeedDone
    PROVE  Rightly'
  <1>1. Silent /\ HasCommand /\ place = "feed"
    BY DEF Agreed, IInv, Known, FeedRefused, FeedInput, FeedDone
  <1>2. ASSUME place' # "over" PROVE Rightly'
    BY <1>2 DEF Rightly, Rejected
  <1>3. CASE FeedRefused
    BY <1>1, <1>3, AnsweredTwice DEF FeedRefused, Rightly
  <1>4. CASE FeedInput
    <2>1. CASE Send(<<Reply(name, "error", <<args[loc], Str("duplicate"), args[loc + 2]>>), Done>>)
      BY <1>1, <2>1, AnsweredTwice DEF Rightly
    <2>2. CASE place' # "over"
      BY <1>2, <2>2
    <2>3. QED
      BY <1>1, <1>4, <2>1, <2>2 DEF FeedInput, Fault
  <1>5. CASE FeedDone
    <2>1. PICK missing \in SUBSET InputLabels :
            Send((IF missing = {} THEN << >>
                  ELSE <<Reply(name, "error", <<Str("missing")>> \o Pick(missing))>>) \o <<Done>>)
      BY <1>5 DEF FeedDone
    <2> DEFINE reply == Reply(name, "error", <<Str("missing")>> \o Pick(missing))
               list == IF missing = {} THEN << >> ELSE <<reply>>
    <2>2. Done.class # "error" /\ reply.class # "error"
      BY <1>1, NotErrors
    <2> HIDE DEF reply
    <2>3. list \in Seq({reply, Done}) /\ <<Done>> \in Seq({reply, Done})
      <3>1. PICK S : S = {reply, Done}
        OBVIOUS
      <3>2. << >> \in Seq(S) /\ <<reply>> \in Seq(S) /\ <<Done>> \in Seq(S)
        <4>1. reply \in S /\ Done \in S
          BY <3>1
        <4>2. << >> \in Seq(S)
          OBVIOUS
        <4>3. QED
          BY <4>1, <4>2, OneElement
      <3>3. QED
        BY <3>1, <3>2
    <2> HIDE DEF list
    <2>4. list \o <<Done>> \in Seq({reply, Done})
      BY <2>3, ConcatProperties
    <2>5. ~Rejected'
      <3>1. Send(list \o <<Done>>)
        BY <2>1 DEF list, reply
      <3>2. \A m \in {reply, Done} : m.class # "error"
        BY <2>2
      <3>3. QED
        BY <1>1, <2>4, <3>1, <3>2, Answered
    <2>6. QED
      BY <2>5 DEF Rightly
  <1>6. QED
    BY <1>3, <1>4, <1>5

LEMMA RunIsRight ==
    ASSUME Agreed,
           \/ RunEnv \/ RunEnvClear \/ RunOutput \/ RunPrefix \/ RunPostfix
           \/ RunIn \/ RunOut \/ RunNotify \/ RunDirectory \/ RunProgram
           \/ InUse \/ RunInconsistent \/ RunNoDirectory \/ RunNoProgram
           \/ RunFound \/ RunStart
    PROVE  Rightly'
  <1>1. place \in {"run", "start"}
    BY DEF RunEnv, RunEnvClear, RunOutput, RunPrefix, RunPostfix, RunIn, RunOut, RunNotify,
           RunDirectory, RunProgram, Branch, InUse, RunInconsistent, RunNoDirectory,
           RunNoProgram, RunFound, RunStart, Collected
  <1>2. Silent /\ HasCommand /\ place # "over"
    BY <1>1 DEF Agreed, IInv, Known
  <1>3. ASSUME NEW what, RunError(what) PROVE Rightly'
    BY <1>2, <1>3, AnsweredTwice DEF RunError, Rightly
  <1>4. ASSUME Fault \/ \E n, what : Found(n, what) PROVE Rightly'
    BY <1>2, <1>4 DEF Fault, Found, Rightly, Rejected
  <1>5. CASE RunEnv
    BY <1>3, <1>4, <1>5 DEF RunEnv, Branch
  <1>6. CASE RunEnvClear \/ RunOutput \/ RunPrefix \/ RunPostfix \/ RunDirectory
    BY <1>4, <1>6 DEF RunEnvClear, RunOutput, RunPrefix, RunPostfix, RunDirectory, Branch
  <1>7. CASE RunIn
    BY <1>3, <1>4, <1>7 DEF RunIn, Branch
  <1>8. CASE RunOut
    BY <1>3, <1>4, <1>8 DEF RunOut, Branch
  <1>9. CASE RunNotify
    BY <1>4, <1>9 DEF RunNotify, Branch
  <1>10. CASE RunProgram
    BY <1>4, <1>10 DEF RunProgram
  <1>11. CASE InUse \/ RunInconsistent \/ RunNoDirectory \/ RunNoProgram
    <2>1. PICK what : RunError(what)
      BY <1>11 DEF InUse, RunInconsistent, RunNoDirectory, RunNoProgram
    <2>2. QED
      BY <1>3, <2>1
  <1>12. CASE RunFound
    BY <1>12 DEF RunFound, Rightly, Rejected
  <1>13. CASE RunStart
    BY <1>2, <1>13 DEF RunStart, Silent, Rightly, Rejected
  <1>14. QED
    BY <1>5, <1>6, <1>7, <1>8, <1>9, <1>10, <1>11, <1>12, <1>13

LEMMA SameIsRight ==
    ASSUME Rightly, UNCHANGED vars
    PROVE  Rightly'
  <1>1. UNCHANGED <<message, place, replies>>
    BY DEF vars
  <1>2. Rejected' = Rejected /\ Reported' = Reported
    BY <1>1, SameSyntax DEF Rejected, Reported
  <1>3. PICK n : n = Len(Reported)
    OBVIOUS
  <1>4. \A j : CanGoOn(j)' = CanGoOn(j)
    BY <1>1, SameSyntax
  <1>5. Shows' = Shows
    BY <1>1, <1>2, <1>3, <1>4, SameSyntax DEF Shows
  <1>6. QED
    BY <1>1, <1>2, <1>5, SameSyntax DEF Rightly

LEMMA RightlyAlways == Spec => [](Agreed /\ Rightly)
  <1>1. Init => Agreed /\ Rightly
    BY Initially, AgreesInitially DEF Agreed, Init, Rightly, Rejected
  <1>2. Agreed /\ [Next]_vars => Agreed'
    BY Inductive, AgreesAlways DEF Agreed
  <1>3. Agreed /\ Rightly /\ [Next]_vars => Rightly'
    BY EndIsRight, ValidateIsRight, PerformIsRight, FeedIsRight, RunIsRight, SameIsRight
    DEF Next, Over
  <1>4. QED
    BY <1>1, <1>2, <1>3, PTL DEF Spec

(* What Validate lets through has the syntax.                              *)
LEMMA PerformedInSyntax ==
    ASSUME Agreed, place \in {"perform", "feed", "run"}
    PROVE  InSyntax
  <1>1. HasCommand /\ message \in Seq(Element)
    BY DEF Agreed, Agreement, Typed, Known
  <1>2. CASE place = "perform"
    BY <1>1, <1>2, ListInSyntax DEF Agreed, Agreement, Listed
  <1>3. CASE place \in {"feed", "run"}
    <2>1. Description[name] \in {"feed", "run"} /\ args # << >> /\ \E V : Valid(V)
      BY <1>3 DEF Agreed, Agreement, Walked
    <2>2. PICK V, e : Walk(V, e) /\ Ends(e)
      BY <2>1 DEF Valid
    <2>3. ~Passed(e)
      <3>1. Len(args) \in Nat /\ ~(Len(args) + 1 <= Len(args))
        BY <1>1, Arguments
      <3>2. QED
        BY <2>2, <3>1 DEF Ends, Passed
    <2>4. QED
      BY <1>1, <2>1, <2>2, <2>3, EndsInSyntax
  <1>4. QED
    BY <1>2, <1>3

(* A command is performed if its arguments have the syntax that version    *)
(* reports, and rejected if they have not: Validate, which goes through    *)
(* them once, decides what the reference, which tries every way to cut     *)
(* them into subcommands, does.                                            *)
THEOREM SyntaxDecides == Spec => []SyntaxIsEnforced
  <1>1. Agreed /\ Rightly => SyntaxIsEnforced
    BY PerformedInSyntax DEF SyntaxIsEnforced, Rightly
  <1>2. QED
    BY <1>1, RightlyAlways, PTL

(* A rejection of feed or run repeats the arguments up to the first that   *)
(* cannot follow those before it in any command, or all of them when more  *)
(* have to come.                                                           *)
THEOREM RejectionIsExact == Spec => []RejectionShowsWhere
  <1>1. Rightly => RejectionShowsWhere
    BY DEF RejectionShowsWhere, Rightly, Shows
  <1>2. QED
    BY <1>1, RightlyAlways, PTL

(***************************************************************************)
(* What Run has found.  It goes through the boundaries in their order and  *)
(* misses none: Ran(at) are those before at.                               *)
(***************************************************************************)
Ran(at) == {i \in Boundaries : i < at}

Called(i, c) == args[i] = Str(c)

LEMMA WalkIsOrdered ==
    ASSUME message \in Seq(Element), HasCommand, NEW V, NEW at, Walk(V, at)
    PROVE  \A i, j \in V : i < j => After(i) <= j
  <1>1. First \in 1 .. 2 /\ Len(args) \in Nat
    BY FirstIs, Arguments
  <1>2. /\ V \subseteq Nat /\ \A i \in V : First <= i /\ i >= 1
        /\ \A j \in V \ {First} : \E i \in V : Passed(i) /\ j = After(i)
    <2>1. First .. at \subseteq Nat /\ \A i \in First .. at : First <= i /\ i >= 1
      BY <1>1
    <2>2. QED
      BY <2>1 DEF Walk
  <1>3. ASSUME NEW i \in V, Passed(i) PROVE After(i) \in Nat /\ i < After(i)
    <2>1. i \in 1 .. Len(args) /\ SubFlaw(i) = Fine
      BY <1>1, <1>2, <1>3 DEF Passed
    <2>2. QED
      BY <1>1, <2>1, AfterFine
  <1> DEFINE Bad == {j \in V : \E i \in V : i < j /\ ~(After(i) <= j)}
  <1>4. SUFFICES ASSUME Bad # {} PROVE FALSE
    OBVIOUS
  <1>5. PICK j \in Bad : \A h \in Bad : j <= h
    <2>1. Bad \subseteq Nat
      BY <1>2
    <2> HIDE DEF Bad
    <2>2. QED
      BY <1>4, <2>1, Least
  <1>6. PICK i \in V : i < j /\ ~(After(i) <= j)
    OBVIOUS
  <1>7. j \in V /\ j # First /\ i \in Nat /\ j \in Nat
    BY <1>1, <1>2, <1>6
  <1>8. PICK h \in V : Passed(h) /\ j = After(h)
    BY <1>2, <1>7
  <1>9. h < j /\ h \in Nat
    BY <1>2, <1>3, <1>8
  <1>10. h # i
    BY <1>6, <1>7, <1>8
  <1>11. After(i) \in Nat
    <2>1. j <= at /\ at \in Nat
      <3>1. j \in First .. at /\ at \in First .. at
        BY <1>7 DEF Walk
      <3>2. QED
        BY <1>1, <3>1
    <2>2. i # at
      BY <1>6, <1>7, <2>1
    <2>3. Passed(i)
      BY <2>2 DEF Walk
    <2>4. QED
      BY <1>3, <2>3
  <1>12. CASE h < i
    <2>1. i \in Bad
      BY <1>6, <1>7, <1>8, <1>12
    <2>2. j <= i
      BY <1>5, <2>1
    <2>3. QED
      BY <1>6, <1>7, <2>2
  <1>13. CASE i < h
    <2>1. ~(After(i) <= h)
      BY <1>6, <1>7, <1>9, <1>11
    <2>2. h \in Bad
      BY <1>13, <2>1
    <2>3. j <= h
      BY <1>5, <2>2
    <2>4. QED
      BY <1>7, <1>9, <2>3
  <1>14. QED
    BY <1>7, <1>9, <1>10, <1>12, <1>13

(* While Run is at an argument, the boundaries before it are those it has  *)
(* been at; the next one is behind the subcommand.                         *)
NextPlace == IF args[loc].text = "program" THEN Len(args) + 1 ELSE After(loc)

LEMMA RanGrows ==
    ASSUME Agreed, place = "run", loc <= Len(args)
    PROVE  /\ Ran(NextPlace) = Ran(loc) \cup {loc} /\ loc \notin Ran(loc)
           /\ loc \in 1 .. Len(args) /\ SubFlaw(loc) = Fine
           /\ \A c : Called(loc, c) <=> args[loc].text = c
  <1>1. /\ HasCommand /\ message \in Seq(Element) /\ name = "run" /\ Len(args) \in Nat
        /\ loc \in 1 .. Len(args) /\ SubFlaw(loc) = Fine
    BY AtValid
  <1>2. Description[name] \in {"feed", "run"}
    BY <1>1, Descriptions
  <1>3. PICK V, e : Walk(V, e) /\ Ends(e) /\ loc \in V
    <2>1. PICK V : Valid(V) /\ loc \in V \cup {Len(args) + 1}
      BY DEF Agreed, Agreement, Walked
    <2>2. loc \in V
      BY <1>1, <2>1
    <2>3. QED
      BY <2>1, <2>2 DEF Valid
  <1>4. V = Boundaries
    <2>1. ~Passed(e)
      <3>1. ~(Len(args) + 1 <= Len(args))
        BY <1>1
      <3>2. QED
        BY <1>3, <3>1 DEF Ends, Passed
    <2>2. QED
      BY <1>1, <1>2, <1>3, <2>1, WalkedAreBoundaries
  <1>5. \A i \in V : i \in Nat /\ i <= e /\ e \in Nat
    <2>1. \A i \in First .. e : i \in Nat /\ i <= e /\ (e \in First .. e => e \in Nat)
      BY FirstIs
    <2>2. QED
      BY <1>3, <2>1 DEF Walk
  <1>6. \A c : Called(loc, c) <=> args[loc].text = c
    <2>1. args[loc] = Str(args[loc].text)
      BY RunAt
    <2>2. QED
      BY <2>1 DEF Called, Str
  <1>7. CASE args[loc].text = "program"
    <2>1. loc = e
      <3>1. ~Passed(loc)
        BY <1>1, <1>6, <1>7 DEF Passed, LastSub, Called
      <3>2. QED
        BY <1>3, <3>1 DEF Walk
    <2>2. \A i \in V : i < Len(args) + 1 <=> (i < loc \/ i = loc)
      BY <1>1, <1>5, <2>1
    <2>3. NextPlace = Len(args) + 1
      BY <1>7 DEF NextPlace
    <2>4. Ran(Len(args) + 1) = Ran(loc) \cup {loc}
      BY <1>3, <1>4, <2>2 DEF Ran
    <2>5. QED
      BY <1>1, <1>6, <2>3, <2>4 DEF Ran
  <1>8. CASE args[loc].text # "program"
    <2>1. After(loc) \in Nat /\ loc < After(loc)
      BY <1>1, AfterFine
    <2>2. \A i \in V : loc < i => After(loc) <= i
      BY <1>1, <1>3, WalkIsOrdered
    <2>3. \A i \in V : i < After(loc) <=> (i < loc \/ i = loc)
      BY <1>1, <1>5, <2>1, <2>2
    <2>4. NextPlace = After(loc)
      BY <1>8 DEF NextPlace
    <2>5. PICK a : a = After(loc)
      OBVIOUS
    <2>6. Ran(a) = Ran(loc) \cup {loc}
      BY <1>3, <1>4, <2>3, <2>5 DEF Ran
    <2>7. QED
      BY <1>1, <1>6, <2>4, <2>5, <2>6 DEF Ran
  <1>9. QED
    BY <1>7, <1>8

(* What run says of the boundaries P that Run has been at.                 *)
InFound(P, input) ==
    /\ input <=> \E i \in P : Called(i, "in")
    /\ \A i, j \in P : Called(i, "in") /\ Called(j, "in") => i = j

OutFound(P, outputs) ==
    /\ outputs = {args[i + 2].text : i \in {h \in P : Called(h, "out")}}
    /\ \A i, j \in P : Called(i, "out") /\ Called(j, "out") /\ args[i + 2].text = args[j + 2].text
                            => i = j

EnvFound(P, env) ==
    /\ \A i \in P : Called(i, "env") => args[i + 1].text \in env
    /\ \A i, j \in P : Called(i, "env") /\ Called(j, "env") /\ args[i + 1].text = args[j + 1].text
                            => i = j

NamesFound(P, names) ==
    /\ \A i \in P : Called(i, "output") => \E p \in DOMAIN names : names[p] = args[i + 1].text
    /\ \A i, j \in P : (/\ Called(i, "output") /\ Called(j, "output") /\ i # j
                        /\ args[i + 1].text = args[j + 1].text)
                            => \E p, q \in DOMAIN names : p < q /\ names[p] = names[q]

NotifyFound(P, notify) == \A i \in P : Called(i, "notify") => notify

RunTyped ==
    /\ DOMAIN run = {"env", "input", "outputs", "names", "prefix", "postfix", "notify",
                     "directory", "program"}
    /\ run.input \in BOOLEAN /\ run.notify \in BOOLEAN /\ run.names \in Seq(STRING)

GatheredFrom(P) ==
    /\ P \subseteq 1 .. Len(args) /\ \A i \in P : SubFlaw(i) = Fine
    /\ InFound(P, run.input) /\ OutFound(P, run.outputs) /\ EnvFound(P, run.env)
    /\ NamesFound(P, run.names) /\ NotifyFound(P, run.notify)

Gathered ==
    /\ place \in {"end", "validate", "subs"} => run = NothingFound
    /\ place \in {"run", "start"} => RunTyped /\ GatheredFrom(Ran(loc))
    /\ place = "start" => name = "run" /\ loc = Len(args) + 1 /\ Consistent

LEMMA NothingIsFound ==
    run = NothingFound => RunTyped /\ GatheredFrom({})
  <1>1. << >> \in Seq(STRING)
    OBVIOUS
  <1>2. run = NothingFound => RunTyped
    <2>1. DOMAIN NothingFound = {"env", "input", "outputs", "names", "prefix", "postfix",
                                 "notify", "directory", "program"}
      BY DEF NothingFound
    <2>2. NothingFound.input = FALSE /\ NothingFound.notify = FALSE
      BY DEF NothingFound
    <2>3. NothingFound.names = << >>
      BY DEF NothingFound
    <2>4. QED
      BY <1>1, <2>1, <2>2, <2>3 DEF RunTyped
  <1>3. /\ NothingFound.input = FALSE /\ NothingFound.outputs = {}
    BY DEF NothingFound
  <1>4. InFound({}, FALSE) /\ OutFound({}, {})
    BY DEF InFound, OutFound
  <1>5. \A x : EnvFound({}, x) /\ NamesFound({}, x) /\ NotifyFound({}, x)
    BY DEF EnvFound, NamesFound, NotifyFound
  <1>6. QED
    BY <1>2, <1>3, <1>4, <1>5 DEF GatheredFrom

(* Of each subcommand Run records what is in it, and what it has recorded  *)
(* of the others stays true.                                               *)
LEMMA InGrows ==
    ASSUME NEW P, NEW at, NEW input \in BOOLEAN, InFound(P, input), at \notin P
    PROVE  /\ ~Called(at, "in") => InFound(P \cup {at}, input)
           /\ Called(at, "in") /\ ~input => InFound(P \cup {at}, TRUE)
  BY DEF InFound

LEMMA OutGrows ==
    ASSUME NEW P, NEW at, NEW outputs, OutFound(P, outputs), at \notin P
    PROVE  /\ ~Called(at, "out") => OutFound(P \cup {at}, outputs)
           /\ Called(at, "out") /\ args[at + 2].text \notin outputs =>
                OutFound(P \cup {at}, outputs \cup {args[at + 2].text})
  BY DEF OutFound

LEMMA EnvGrows ==
    ASSUME NEW P, NEW at, NEW env, EnvFound(P, env), at \notin P
    PROVE  /\ ~Called(at, "env") => EnvFound(P \cup {at}, env)
           /\ Called(at, "env") /\ args[at + 1].text \notin env =>
                EnvFound(P \cup {at}, env \cup {args[at + 1].text})
  BY DEF EnvFound

LEMMA NamesStay ==
    ASSUME NEW P, NEW at, NEW names, NamesFound(P, names), ~Called(at, "output")
    PROVE  NamesFound(P \cup {at}, names)
  BY DEF NamesFound

LEMMA NamesGrow ==
    ASSUME NEW P, NEW at, NEW names \in Seq(STRING), NEW text \in STRING,
           NamesFound(P, names), at \notin P, Called(at, "output"), args[at + 1].text = text
    PROVE  NamesFound(P \cup {at}, Append(names, text))
  <1> DEFINE more == Append(names, text)
  <1>1. PICK n \in Nat : n = Len(names) /\ DOMAIN names = 1 .. n
    OBVIOUS
  <1>2. /\ DOMAIN more = 1 .. n + 1 /\ more[n + 1] = text
        /\ \A p \in 1 .. n : more[p] = names[p]
    <2>1. /\ more \in Seq(STRING) /\ Len(more) = n + 1
          /\ \A p \in 1 .. n : more[p] = names[p]
          /\ more[n + 1] = text
      <3>1. /\ more \in Seq(STRING) /\ Len(more) = Len(names) + 1
            /\ \A p \in 1 .. Len(names) : more[p] = names[p]
            /\ more[Len(names) + 1] = text
        <4>1. Append(names, text) \in Seq(STRING) /\ Len(Append(names, text)) = Len(names) + 1
          BY AppendProperties
        <4>2. \A p \in 1 .. Len(names) : Append(names, text)[p] = names[p]
          BY AppendProperties
        <4>3. Append(names, text)[Len(names) + 1] = text
          BY AppendProperties
        <4>4. QED
          BY <4>1, <4>2, <4>3, Zenon
      <3>2. QED
        BY <1>1, <3>1
    <2> HIDE DEF more
    <2>2. DOMAIN more = 1 .. n + 1
      BY <2>1
    <2>3. QED
      BY <2>1, <2>2
  <1>3. \A p \in 1 .. n : p \in 1 .. n + 1 /\ p < n + 1
    OBVIOUS
  <1>4. n + 1 \in 1 .. n + 1
    OBVIOUS
  <1> HIDE DEF more
  <1>5. ASSUME NEW i \in P, Called(i, "output")
        PROVE  \E p \in 1 .. n : more[p] = args[i + 1].text
    BY <1>1, <1>2, <1>5 DEF NamesFound
  <1>6. \A i \in P \cup {at} : Called(i, "output") =>
              \E p \in DOMAIN more : more[p] = args[i + 1].text
    BY <1>2, <1>3, <1>4, <1>5
  <1>7. ASSUME NEW i \in P \cup {at}, NEW j \in P \cup {at},
               Called(i, "output"), Called(j, "output"), i # j,
               args[i + 1].text = args[j + 1].text
        PROVE  \E p, q \in DOMAIN more : p < q /\ more[p] = more[q]
    <2>1. CASE i \in P /\ j \in P
      <3>1. PICK p, q \in 1 .. n : p < q /\ names[p] = names[q]
        BY <1>1, <1>7, <2>1 DEF NamesFound
      <3>2. QED
        BY <1>2, <1>3, <3>1
    <2>2. CASE i = at \/ j = at
      <3>1. \E p \in 1 .. n : more[p] = text
        BY <1>5, <1>7, <2>2
      <3>2. QED
        BY <1>2, <1>3, <1>4, <3>1
    <2>3. QED
      BY <2>1, <2>2
  <1>8. QED
    BY <1>6, <1>7 DEF NamesFound, more

LEMMA NotifyGrows ==
    ASSUME NEW P, NEW at, NEW notify \in BOOLEAN, NotifyFound(P, notify)
    PROVE  /\ ~Called(at, "notify") => NotifyFound(P \cup {at}, notify)
           /\ NotifyFound(P \cup {at}, TRUE)
  BY DEF NotifyFound

(* A step from a boundary to the next, of which only run makes a           *)
(* difference.                                                             *)
LEMMA SameRan ==
    ASSUME UNCHANGED message
    PROVE  /\ \A at : Ran(at)' = Ran(at)
           /\ args' = args /\ name' = name
           /\ \A at : SubFlaw(at)' = SubFlaw(at)
           /\ \A P, x : /\ InFound(P, x)' <=> InFound(P, x)
                        /\ OutFound(P, x)' <=> OutFound(P, x)
                        /\ EnvFound(P, x)' <=> EnvFound(P, x)
                        /\ NamesFound(P, x)' <=> NamesFound(P, x)
                        /\ NotifyFound(P, x)' <=> NotifyFound(P, x)
  <1>1. args' = args /\ name' = name /\ \A at : SubFlaw(at)' = SubFlaw(at)
    BY SameArguments
  <1>2. ASSUME NEW at PROVE Ran(at)' = Ran(at)
    BY DEF Ran, Boundaries, CutBefore, SubSet, IsSub, Begins, PartFlaw, Subs, First, args, name
  <1>3. ASSUME NEW P, NEW x
        PROVE  /\ InFound(P, x)' <=> InFound(P, x)
               /\ OutFound(P, x)' <=> OutFound(P, x)
               /\ EnvFound(P, x)' <=> EnvFound(P, x)
               /\ NamesFound(P, x)' <=> NamesFound(P, x)
               /\ NotifyFound(P, x)' <=> NotifyFound(P, x)
    BY <1>1 DEF InFound, OutFound, EnvFound, NamesFound, NotifyFound, Called
  <1>4. QED
    BY <1>1, <1>2, <1>3

LEMMA StepGathers ==
    ASSUME Agreed, Gathered, place = "run", loc <= Len(args), UNCHANGED <<message, place>>,
           loc' = NextPlace, RunTyped', NEW r, run' = r,
           InFound(Ran(loc) \cup {loc}, r.input), OutFound(Ran(loc) \cup {loc}, r.outputs),
           EnvFound(Ran(loc) \cup {loc}, r.env), NamesFound(Ran(loc) \cup {loc}, r.names),
           NotifyFound(Ran(loc) \cup {loc}, r.notify)
    PROVE  Gathered'
  <1>1. PICK at, P : at = loc' /\ P = Ran(at)
    OBVIOUS
  <1>2. P = Ran(loc) \cup {loc} /\ loc \in 1 .. Len(args) /\ SubFlaw(loc) = Fine
    BY <1>1, RanGrows
  <1>3. P \subseteq 1 .. Len(args) /\ \A i \in P : SubFlaw(i) = Fine
    BY <1>2 DEF Gathered, GatheredFrom
  <1>4. Ran(at)' = P
    BY <1>1, SameRan
  <1>5. /\ InFound(P, r.input)' /\ OutFound(P, r.outputs)' /\ EnvFound(P, r.env)'
        /\ NamesFound(P, r.names)' /\ NotifyFound(P, r.notify)'
    <2>1. /\ InFound(P, r.input) /\ OutFound(P, r.outputs) /\ EnvFound(P, r.env)
          /\ NamesFound(P, r.names) /\ NotifyFound(P, r.notify)
      BY <1>2
    <2>2. PICK a, b, c, d, e : a = r.input /\ b = r.outputs /\ c = r.env /\ d = r.names /\ e = r.notify
      OBVIOUS
    <2>3. /\ InFound(P, a)' /\ OutFound(P, b)' /\ EnvFound(P, c)' /\ NamesFound(P, d)'
          /\ NotifyFound(P, e)'
      BY <2>1, <2>2, SameRan
    <2>4. QED
      BY <2>2, <2>3
  <1>6. GatheredFrom(P)'
    BY <1>3, <1>5, SameRan DEF GatheredFrom
  <1>7. (Ran(loc))' = P
    BY <1>1, <1>4
  <1>8. (GatheredFrom(Ran(loc)))'
    BY <1>6, <1>7
  <1>9. QED
    BY <1>8 DEF Gathered

(* What a subcommand leaves alone.                                         *)
LEMMA Others ==
    ASSUME Agreed, Gathered, place = "run", loc <= Len(args)
    PROVE  LET P == Ran(loc) \cup {loc}
               c == args[loc].text IN
           /\ RunTyped /\ loc \notin Ran(loc)
           /\ \A x : Called(loc, x) <=> c = x
           /\ InFound(Ran(loc), run.input) /\ OutFound(Ran(loc), run.outputs)
           /\ EnvFound(Ran(loc), run.env) /\ NamesFound(Ran(loc), run.names)
           /\ NotifyFound(Ran(loc), run.notify)
           /\ c # "in" => InFound(P, run.input)
           /\ c # "out" => OutFound(P, run.outputs)
           /\ c # "env" => EnvFound(P, run.env)
           /\ c # "output" => NamesFound(P, run.names)
           /\ c # "notify" => NotifyFound(P, run.notify)
           /\ c \in DOMAIN Elements => NextPlace = loc + Elements[c]
  <1> DEFINE R == Ran(loc)
             c == args[loc].text
  <1>1. /\ InFound(R, run.input) /\ OutFound(R, run.outputs) /\ EnvFound(R, run.env)
        /\ NamesFound(R, run.names) /\ NotifyFound(R, run.notify)
        /\ run.input \in BOOLEAN /\ run.notify \in BOOLEAN /\ run.names \in Seq(STRING)
        /\ RunTyped
    BY DEF Gathered, GatheredFrom, RunTyped
  <1>2. loc \notin R /\ \A x : Called(loc, x) <=> c = x
    BY RanGrows
  <1> HIDE DEF R
  <1>3. c # "in" => InFound(R \cup {loc}, run.input)
    BY <1>1, <1>2, InGrows
  <1>4. c # "out" => OutFound(R \cup {loc}, run.outputs)
    BY <1>1, <1>2, OutGrows
  <1>5. c # "env" => EnvFound(R \cup {loc}, run.env)
    BY <1>1, <1>2, EnvGrows
  <1>6. c # "output" => NamesFound(R \cup {loc}, run.names)
    BY <1>1, <1>2, NamesStay
  <1>7. c # "notify" => NotifyFound(R \cup {loc}, run.notify)
    BY <1>1, <1>2, NotifyGrows
  <1>8. c \in DOMAIN Elements => NextPlace = loc + Elements[c]
    <2>1. c \in DOMAIN Elements => c # "program"
      BY DEF Elements
    <2>2. QED
      BY <2>1, AtBranch DEF NextPlace
  <1>9. QED
    BY <1>1, <1>2, <1>3, <1>4, <1>5, <1>6, <1>7, <1>8 DEF R

(* The subcommands of Run: each adds to what has been found.               *)
LEMMA RunGathers ==
    ASSUME Agreed, Gathered,
           \/ RunEnv \/ RunEnvClear \/ RunOutput \/ RunPrefix \/ RunPostfix
           \/ RunIn \/ RunOut \/ RunNotify \/ RunDirectory \/ RunProgram
    PROVE  Gathered'
  <1>1. place = "run" /\ loc <= Len(args)
    BY DEF RunEnv, RunEnvClear, RunOutput, RunPrefix, RunPostfix, RunIn, RunOut, RunNotify,
           RunDirectory, RunProgram, Branch
  <1> DEFINE P == Ran(loc) \cup {loc}
             c == args[loc].text
  <1>2. /\ RunTyped /\ loc \notin Ran(loc) /\ \A x : Called(loc, x) <=> c = x
        /\ InFound(Ran(loc), run.input) /\ OutFound(Ran(loc), run.outputs)
        /\ EnvFound(Ran(loc), run.env) /\ NamesFound(Ran(loc), run.names)
        /\ c # "in" => InFound(P, run.input)
        /\ c # "out" => OutFound(P, run.outputs)
        /\ c # "env" => EnvFound(P, run.env)
        /\ c # "output" => NamesFound(P, run.names)
        /\ c # "notify" => NotifyFound(P, run.notify)
        /\ c \in DOMAIN Elements => NextPlace = loc + Elements[c]
    BY <1>1, Others
  <1>3. NotifyFound(P, TRUE)
    BY <1>1, <1>2, Others, NotifyGrows DEF RunTyped
  <1>4. /\ Elements["env"] = 3 /\ Elements["env-clear"] = 1 /\ Elements["output"] = 3
        /\ Elements["output-prefix"] = 2 /\ Elements["output-postfix"] = 2
        /\ Elements["in"] = 3 /\ Elements["out"] = 3 /\ Elements["notify"] = 2
        /\ Elements["change-directory"] = 2
    BY DEF Elements
  <1>5. DOMAIN Elements = {"env", "env-clear", "output", "output-prefix", "output-postfix",
                           "in", "out", "notify", "change-directory"}
    BY DEF Elements
  <1>6. ASSUME place' \in {"over", "fault"} PROVE Gathered'
    BY <1>6 DEF Gathered
  <1> HIDE DEF P, c
  <1>7. ASSUME NEW r, run' = r, UNCHANGED <<message, place>>, loc' = NextPlace,
               DOMAIN r = DOMAIN run, r.input \in BOOLEAN, r.notify \in BOOLEAN,
               r.names \in Seq(STRING),
               InFound(P, r.input), OutFound(P, r.outputs), EnvFound(P, r.env),
               NamesFound(P, r.names), NotifyFound(P, r.notify)
        PROVE  Gathered'
    <2>1. RunTyped'
      BY <1>2, <1>7 DEF RunTyped
    <2>2. QED
      BY <1>1, <1>7, <2>1, StepGathers DEF P
  <1>8. CASE RunEnv
    <2>1. c = "env"
      BY <1>8 DEF RunEnv, Branch, c
    <2>2. CASE place' = "run"
      <3>1. /\ Text(1) \notin run.env /\ loc' = loc + 3 /\ UNCHANGED <<message, place>>
            /\ run' = [run EXCEPT !.env = @ \cup {Text(1)}]
        BY <1>8, <2>2 DEF RunEnv, Branch, Fault, RunError, Finish, Found
      <3>2. PICK r : r = run'
        OBVIOUS
      <3>3. /\ DOMAIN r = DOMAIN run /\ r.input = run.input /\ r.outputs = run.outputs
            /\ r.names = run.names /\ r.notify = run.notify /\ r.env = run.env \cup {Text(1)}
        BY <1>2, <3>1, <3>2 DEF RunTyped
      <3>4. EnvFound(P, r.env)
        <4>1. Called(loc, "env") /\ args[loc + 1].text \notin run.env
          BY <1>2, <2>1, <3>1 DEF Text
        <4>2. EnvFound(Ran(loc) \cup {loc}, run.env \cup {args[loc + 1].text})
          BY <1>2, <4>1, EnvGrows
        <4>3. QED
          BY <3>3, <4>2 DEF P, Text
      <3>5. QED
        BY <1>2, <1>4, <1>5, <1>7, <2>1, <3>1, <3>2, <3>3, <3>4 DEF RunTyped
    <2>3. QED
      BY <1>1, <1>6, <1>8, <2>2 DEF RunEnv, Branch, Fault, RunError, Finish, Found
  <1>9. CASE RunEnvClear
    <2>1. c = "env-clear"
      BY <1>9 DEF RunEnvClear, Branch, c
    <2>2. CASE place' = "run"
      <3>1. loc' = loc + 1 /\ UNCHANGED <<message, place>> /\ run' = run
        BY <1>9, <2>2 DEF RunEnvClear, Branch, Fault, Found
      <3>2. PICK r : r = run'
        OBVIOUS
      <3>3. QED
        BY <1>2, <1>4, <1>5, <1>7, <2>1, <3>1, <3>2 DEF RunTyped
    <2>3. QED
      BY <1>1, <1>6, <1>9, <2>2 DEF RunEnvClear, Branch, Fault, Found
  <1>10. CASE RunOutput
    <2>1. c = "output"
      BY <1>10 DEF RunOutput, Branch, c
    <2>2. CASE place' = "run"
      <3>1. /\ loc + 3 - 1 <= Len(args) /\ loc' = loc + 3 /\ UNCHANGED <<message, place>>
            /\ run' = [run EXCEPT !.names = Append(@, Text(1))]
        <4>1. loc + Elements[c] - 1 <= Len(args)
          BY <1>1, <1>5, <2>1, AtBranch DEF c
        <4>2. QED
          BY <1>4, <1>10, <2>1, <2>2, <4>1 DEF RunOutput, Branch, Fault, Found
      <3>2. PICK r : r = run'
        OBVIOUS
      <3>3. /\ DOMAIN r = DOMAIN run /\ r.input = run.input /\ r.outputs = run.outputs
            /\ r.notify = run.notify /\ r.env = run.env
        BY <1>2, <3>1, <3>2 DEF RunTyped
      <3>4. r.names = Append(run.names, Text(1))
        BY <1>2, <3>1, <3>2, Zenon DEF RunTyped
      <3>5. Text(1) \in STRING
        <4>1. loc + 1 \in DOMAIN args
          <5>1. loc \in 1 .. Len(args) /\ Len(args) \in Nat
            BY <1>1, AtValid
          <5>2. DOMAIN args = 1 .. Len(args)
            BY Arguments, <1>1, AtValid
          <5>3. QED
            BY <3>1, <5>1, <5>2
        <4>2. args[loc + 1] \in Element
          BY <1>1, <4>1, Arguments, AtValid
        <4>3. QED
          BY <4>2 DEF Element, Text
      <3>6. Append(run.names, Text(1)) \in Seq(STRING)
        BY <1>2, <3>5, AppendProperties DEF RunTyped
      <3>7. NamesFound(P, Append(run.names, Text(1)))
        <4>1. PICK t \in STRING : t = Text(1)
          BY <3>5
        <4>2. NamesFound(P, Append(run.names, t))
          BY <1>2, <2>1, <4>1, NamesGrow DEF Text, P, RunTyped
        <4>3. QED
          BY <4>1, <4>2
      <3>8. QED
        BY <1>2, <1>4, <1>5, <1>7, <2>1, <3>1, <3>2, <3>3, <3>4, <3>6, <3>7 DEF RunTyped
    <2>3. QED
      BY <1>1, <1>6, <1>10, <2>2 DEF RunOutput, Branch, Fault, Found
  <1>11. CASE RunPrefix \/ RunPostfix \/ RunDirectory
    <2>1. c \in {"output-prefix", "output-postfix", "change-directory"}
      BY <1>11 DEF RunPrefix, RunPostfix, RunDirectory, Branch, c
    <2>2. CASE place' = "run"
      <3>1. /\ loc' = loc + 2 /\ UNCHANGED <<message, place>>
            /\ \/ run' = [run EXCEPT !.prefix = Text(1)]
               \/ run' = [run EXCEPT !.postfix = Text(1)]
               \/ run' = [run EXCEPT !.directory = Text(1)]
        BY <1>11, <2>2 DEF RunPrefix, RunPostfix, RunDirectory, Branch, Fault, Found
      <3>2. PICK r : r = run'
        OBVIOUS
      <3>3. /\ DOMAIN r = DOMAIN run /\ r.input = run.input /\ r.outputs = run.outputs
            /\ r.names = run.names /\ r.notify = run.notify /\ r.env = run.env
        BY <1>2, <3>1, <3>2 DEF RunTyped
      <3>4. QED
        BY <1>2, <1>4, <1>5, <1>7, <2>1, <3>1, <3>2, <3>3 DEF RunTyped
    <2>3. QED
      BY <1>1, <1>6, <1>11, <2>2
      DEF RunPrefix, RunPostfix, RunDirectory, Branch, Fault, Found
  <1>12. CASE RunIn
    <2>1. c = "in"
      BY <1>12 DEF RunIn, Branch, c
    <2>2. CASE place' = "run"
      <3>1. /\ ~run.input /\ loc' = loc + 3 /\ UNCHANGED <<message, place>>
            /\ run' = [run EXCEPT !.input = TRUE]
        BY <1>12, <2>2 DEF RunIn, Branch, Fault, RunError, Finish, Found
      <3>2. PICK r : r = run'
        OBVIOUS
      <3>3. /\ DOMAIN r = DOMAIN run /\ r.outputs = run.outputs /\ r.names = run.names
            /\ r.notify = run.notify /\ r.env = run.env
        BY <1>2, <3>1, <3>2 DEF RunTyped
      <3>4. r.input = TRUE
        BY <1>2, <3>1, <3>2 DEF RunTyped
      <3>5. InFound(P, r.input)
        <4>1. Called(loc, "in") /\ ~run.input /\ run.input \in BOOLEAN
          BY <1>2, <2>1, <3>1 DEF RunTyped
        <4>2. InFound(Ran(loc) \cup {loc}, TRUE)
          BY <1>2, <4>1, InGrows
        <4>3. QED
          BY <3>4, <4>2 DEF P
      <3>6. QED
        BY <1>2, <1>4, <1>5, <1>7, <2>1, <3>1, <3>2, <3>3, <3>4, <3>5 DEF RunTyped
    <2>3. QED
      BY <1>1, <1>6, <1>12, <2>2 DEF RunIn, Branch, Fault, RunError, Finish, Found
  <1>13. CASE RunOut
    <2>1. c = "out"
      BY <1>13 DEF RunOut, Branch, c
    <2>2. CASE place' = "run"
      <3>1. /\ Channel \notin run.outputs /\ loc' = loc + 3 /\ UNCHANGED <<message, place>>
            /\ run' = [run EXCEPT !.outputs = @ \cup {Channel}]
        BY <1>13, <2>2 DEF RunOut, Branch, Fault, RunError, Finish, Found
      <3>2. PICK r : r = run'
        OBVIOUS
      <3>3. /\ DOMAIN r = DOMAIN run /\ r.input = run.input /\ r.names = run.names
            /\ r.notify = run.notify /\ r.env = run.env /\ r.outputs = run.outputs \cup {Channel}
        BY <1>2, <3>1, <3>2 DEF RunTyped
      <3>4. OutFound(P, r.outputs)
        <4>1. Called(loc, "out") /\ args[loc + 2].text \notin run.outputs
          BY <1>2, <2>1, <3>1 DEF Channel, Text
        <4>2. OutFound(Ran(loc) \cup {loc}, run.outputs \cup {args[loc + 2].text})
          BY <1>2, <4>1, OutGrows
        <4>3. QED
          BY <3>3, <4>2 DEF P, Channel, Text
      <3>5. QED
        BY <1>2, <1>4, <1>5, <1>7, <2>1, <3>1, <3>2, <3>3, <3>4 DEF RunTyped
    <2>3. QED
      BY <1>1, <1>6, <1>13, <2>2 DEF RunOut, Branch, Fault, RunError, Finish, Found
  <1>14. CASE RunNotify
    <2>1. c = "notify"
      BY <1>14 DEF RunNotify, Branch, c
    <2>2. CASE place' = "run"
      <3>1. /\ loc' = loc + 2 /\ UNCHANGED <<message, place>>
            /\ run' = [run EXCEPT !.notify = TRUE]
        BY <1>14, <2>2 DEF RunNotify, Branch, Fault, Found
      <3>2. PICK r : r = run'
        OBVIOUS
      <3>3. /\ DOMAIN r = DOMAIN run /\ r.input = run.input /\ r.outputs = run.outputs
            /\ r.names = run.names /\ r.env = run.env
        BY <1>2, <3>1, <3>2 DEF RunTyped
      <3>4. r.notify = TRUE
        BY <1>2, <3>1, <3>2 DEF RunTyped
      <3>5. QED
        BY <1>2, <1>3, <1>4, <1>5, <1>7, <2>1, <3>1, <3>2, <3>3, <3>4 DEF RunTyped
    <2>3. QED
      BY <1>1, <1>6, <1>14, <2>2 DEF RunNotify, Branch, Fault, Found
  <1>15. CASE RunProgram
    <2>1. CASE place' = "run"
      <3>1. /\ c = "program" /\ loc' = loc + (Len(args) + 1 - loc) /\ UNCHANGED <<message, place>>
            /\ run' = [run EXCEPT !.program = Text(1)]
        BY <1>15, <2>1 DEF RunProgram, Fault, Found, c
      <3>2. loc' = NextPlace
        <4>1. loc \in 1 .. Len(args) /\ Len(args) \in Nat
          BY <1>1, AtValid
        <4>2. NextPlace = Len(args) + 1
          BY <3>1 DEF NextPlace, c
        <4>3. QED
          BY <3>1, <4>1, <4>2
      <3>3. PICK r : r = run'
        OBVIOUS
      <3>4. /\ DOMAIN r = DOMAIN run /\ r.input = run.input /\ r.outputs = run.outputs
            /\ r.names = run.names /\ r.notify = run.notify /\ r.env = run.env
        BY <1>2, <3>1, <3>3 DEF RunTyped
      <3>5. QED
        BY <1>2, <1>7, <3>1, <3>2, <3>3, <3>4 DEF RunTyped
    <2>2. QED
      BY <1>1, <1>6, <1>15, <2>1 DEF RunProgram, Fault, Found
  <1>16. QED
    BY <1>8, <1>9, <1>10, <1>11, <1>12, <1>13, <1>14, <1>15

(* The steps to the arguments of run, and from the last of them.           *)
LEMMA RestGathers ==
    ASSUME Agreed, Gathered, [Next]_vars,
           ~(\/ RunEnv \/ RunEnvClear \/ RunOutput \/ RunPrefix \/ RunPostfix
             \/ RunIn \/ RunOut \/ RunNotify \/ RunDirectory \/ RunProgram)
    PROVE  Gathered'
  <1>1. ASSUME place' \notin {"end", "validate", "subs", "run", "start"} PROVE Gathered'
    BY <1>1 DEF Gathered
  <1>2. ASSUME place \in {"end", "validate", "subs"}, place' \in {"end", "validate", "subs"},
               UNCHANGED run
        PROVE  Gathered'
    BY <1>2 DEF Gathered
  <1>3. CASE BadFormat \/ BadIdentifier \/ BadCommand \/ BadArgument \/ NoOperation \/ Version
             \/ StorageInfo \/ EndFeed \/ FeedRefused \/ FeedDone \/ InUse \/ RunInconsistent
             \/ RunNoDirectory \/ RunNoProgram \/ RunStart
    BY <1>1, <1>3 DEF BadFormat, BadIdentifier, BadCommand, BadArgument, NoOperation, Version,
        StorageInfo, EndFeed, FeedRefused, FeedDone, InUse, RunInconsistent, RunNoDirectory,
        RunNoProgram, RunStart, RunError, Finish
  <1>4. CASE Get \/ ForEach
    BY <1>1, <1>4 DEF Get, ForEach, Fault, Finish
  <1>5. CASE FeedInput
    <2>1. place' \in {"fault", "over", "feed"}
      BY <1>5 DEF FeedInput, Fault, Finish
    <2>2. QED
      BY <1>1, <2>1
  <1>6. ASSUME HasCommand, message \in Seq(Element), place \in {"validate", "subs"}, Accept
        PROVE  Gathered'
    <2>1. UNCHANGED <<message, run>> /\ run = NothingFound
      BY <1>6 DEF Accept, Gathered
    <2>2. CASE Description[name] = "run"
      <3>1. place' = "run" /\ loc' = 1 /\ name = "run"
        BY <1>6, <2>2, Descriptions DEF Accept
      <3>2. Ran(1) = {}
        <4>1. First = 1
          BY <3>1 DEF First
        <4>2. \A i \in Boundaries : ~(i < 1)
          <5>1. Boundaries \subseteq 1 .. Len(args) + 1 /\ Len(args) \in Nat
            BY <1>6, <4>1, BoundariesAre, Arguments
          <5>2. QED
            BY <5>1
        <4>3. QED
          BY <4>2 DEF Ran
      <3>3. Ran(1)' = {}
        BY <2>1, <3>2, SameRan
      <3>4. RunTyped /\ GatheredFrom({})
        BY <2>1, NothingIsFound
      <3>5. RunTyped' /\ GatheredFrom({})'
        BY <2>1, <3>4, SameRan DEF RunTyped, GatheredFrom, InFound, OutFound, EnvFound,
                                   NamesFound, NotifyFound, Called
      <3>6. (GatheredFrom(Ran(loc)))'
        BY <3>1, <3>3, <3>5
      <3>7. QED
        BY <3>1, <3>5, <3>6 DEF Gathered
    <2>3. CASE Description[name] # "run"
      <3>1. place' \in {"feed", "perform"}
        BY <1>6, <2>3 DEF Accept
      <3>2. QED
        BY <1>1, <3>1
    <2>4. QED
      BY <2>2, <2>3
  <1>7. CASE Execute \/ ValidateList \/ ValidateFirst \/ ValidateSub
    <2>1. \/ Execute
          \/ HasCommand /\ message \in Seq(Element) /\ place \in {"validate", "subs"}
      BY <1>7 DEF ValidateList, ValidateFirst, ValidateSub, Agreed, Agreement, Typed, Known
    <2>2. CASE Accept
      BY <1>2, <1>6, <2>1, <2>2 DEF Execute
    <2>3. CASE ~Accept
      <3>1. \/ place' = "over"
            \/ place \in {"end", "validate", "subs"} /\ place' \in {"validate", "subs"}
               /\ UNCHANGED run
        BY <1>7, <2>3 DEF Execute, ValidateList, ValidateFirst, ValidateSub, Reject, Finish
      <3>2. QED
        BY <1>1, <1>2, <3>1
    <2>4. QED
      BY <2>2, <2>3
  <1>8. CASE RunFound
    <2>1. /\ place = "run" /\ loc > Len(args) /\ Consistent
          /\ place' = "start" /\ UNCHANGED <<message, loc, run>>
      BY <1>8 DEF RunFound, Collected
    <2>2. name = "run" /\ loc = Len(args) + 1
      <3>1. HasCommand /\ Description[name] = "run" /\ Len(args) \in Nat
        BY <2>1, Arguments DEF Agreed, Agreement, Typed, Known, Walked
      <3>2. PICK V, e : Walk(V, e) /\ loc \in V \cup {Len(args) + 1}
        BY <2>1 DEF Agreed, Agreement, Walked, Valid
      <3>3. loc \in V => loc <= Len(args) + 1 /\ loc \in Nat
        <4>1. e \in First .. e /\ e <= Len(args) + 1 /\ V \subseteq First .. e
          BY <3>2 DEF Walk
        <4>2. QED
          BY <3>1, <4>1, FirstIs
      <3>4. loc = Len(args) + 1
        BY <2>1, <3>1, <3>2, <3>3
      <3>5. QED
        BY <3>1, <3>4, Descriptions
    <2>3. RunTyped' /\ Consistent'
      BY <2>1 DEF Gathered, RunTyped, Consistent, Duplicates, Renames
    <2>4. PICK at, P, r : at = loc /\ P = Ran(at) /\ r = run
      OBVIOUS
    <2>5. P = Ran(at)' /\ GatheredFrom(P)
      BY <2>1, <2>4, SameRan DEF Gathered
    <2>6. GatheredFrom(P)'
      BY <2>1, <2>5, SameRan DEF GatheredFrom, InFound, OutFound, EnvFound, NamesFound,
                                 NotifyFound, Called
    <2>7. (GatheredFrom(Ran(loc)))'
      BY <2>1, <2>4, <2>5, <2>6
    <2>8. QED
      BY <2>1, <2>2, <2>3, <2>7, SameArguments DEF Gathered
  <1>9. CASE UNCHANGED vars \/ Over
    <2>1. UNCHANGED <<message, place, loc, run>>
      BY <1>9 DEF vars, Over
    <2>2. PICK at, P, r : at = loc /\ P = Ran(at) /\ r = run
      OBVIOUS
    <2>3. P = Ran(at)'
      BY <2>1, <2>2, SameRan
    <2>4. GatheredFrom(P) => GatheredFrom(P)'
      BY <2>1, SameRan DEF GatheredFrom, InFound, OutFound, EnvFound, NamesFound, NotifyFound,
                           Called
    <2>5. GatheredFrom(Ran(loc)) => (GatheredFrom(Ran(loc)))'
      BY <2>1, <2>2, <2>3, <2>4
    <2>6. (RunTyped => RunTyped') /\ (Consistent => Consistent')
      BY <2>1 DEF RunTyped, Consistent, Duplicates, Renames
    <2>7. QED
      BY <2>1, <2>5, <2>6, SameArguments DEF Gathered
  <1>10. QED
    BY <1>3, <1>4, <1>5, <1>7, <1>8, <1>9 DEF Next

(***************************************************************************)
(* What has been found is what a started process has been given.           *)
(***************************************************************************)
LEMMA AtMostOne ==
    ASSUME NEW S, \A i, j \in S : i = j
    PROVE  Cardinality(S) = IF S = {} THEN 0 ELSE 1
  <1>1. CASE S = {}
    BY <1>1, FS_EmptySet
  <1>2. CASE S # {}
    <2>1. PICK x : x \in S
      BY <1>2
    <2>2. S = {x}
      BY <2>1
    <2>3. QED
      BY <1>2, <2>2, FS_Singleton
  <1>3. QED
    BY <1>1, <1>2

TimesSet(command, k, text) ==
    {i \in Boundaries : i + k <= Len(args) /\ args[i] = Str(command) /\ args[i + k].text = text}

SoundArguments ==
    /\ Times("in", 1, "JSON") <= 1
    /\ \A c \in {"stdout", "stderr"} : Times("out", 2, c) <= 1
    /\ \A n \in {args[k].text : k \in DOMAIN args} :
            Times("env", 1, n) <= 1 /\ Times("output", 1, n) <= 1
    /\ (Times("notify", 1, "data") > 0) => Times("in", 1, "JSON") = 1
    /\ (Times("output", 0, "output") > 0) =>
            Times("out", 2, "stdout") + Times("out", 2, "stderr") > 0

(* The texts of a subcommand that is fine.                                 *)
LEMMA FineTexts ==
    ASSUME message \in Seq(Element), HasCommand, name = "run",
           NEW i \in 1 .. Len(args), SubFlaw(i) = Fine
    PROVE  /\ Called(i, "in") => i + 1 <= Len(args) /\ args[i + 1].text = "JSON"
           /\ Called(i, "out") => i + 2 <= Len(args) /\ args[i + 2].text \in {"stdout", "stderr"}
  <1>1. Subs = RunSubs
    BY DEF Subs
  <1>2. ASSUME Called(i, "in")
        PROVE  i + 1 <= Len(args) /\ args[i + 1].text = "JSON"
    <2>1. 6 \in DOMAIN Subs /\ args[i] = Str(Subs[6].name) /\ 1 \in DOMAIN Subs[6].parts
          /\ Subs[6].parts[1] = SubStringChoice({"JSON"})
      BY <1>1, <1>2, RunSubsAre DEF Called
    <2>2. i + Len(Subs[6].parts) <= Len(args)
          /\ PartFlaw(SubStringChoice({"JSON"}), i + 1) = Fine
      BY <2>1, FineSub
    <2>3. PICK m \in 1 .. 2 : m = Len(Subs[6].parts)
      BY <2>1, PartsAreFew
    <2>4. i + 1 <= Len(args)
      <3>1. i + m <= Len(args) /\ i \in Nat /\ Len(args) \in Nat
        BY <2>2, <2>3, Arguments
      <3>2. QED
        BY <3>1
    <2>5. args[i + 1].text \in {"JSON"}
      <3>1. PICK part : part = SubStringChoice({"JSON"})
        OBVIOUS
      <3>2. part.texts = {"JSON"} /\ "JSON" \in part.texts
        BY <3>1 DEF SubStringChoice
      <3>3. PartFlaw(part, i + 1) = Fine /\ part.texts # {}
        BY <2>2, <3>1, <3>2
      <3>4. args[i + 1].text \in part.texts
        BY <3>3, FinePart
      <3>5. QED
        BY <3>2, <3>4
    <2>6. QED
      BY <2>4, <2>5
  <1>3. ASSUME Called(i, "out")
        PROVE  i + 2 <= Len(args) /\ args[i + 2].text \in {"stdout", "stderr"}
    <2>1. 7 \in DOMAIN Subs /\ args[i] = Str(Subs[7].name) /\ 2 \in DOMAIN Subs[7].parts
          /\ Subs[7].parts[2] = SubStringChoice({"stdout", "stderr"})
      BY <1>1, <1>3, RunSubsAre DEF Called
    <2>2. i + Len(Subs[7].parts) <= Len(args)
          /\ PartFlaw(SubStringChoice({"stdout", "stderr"}), i + 2) = Fine
      BY <2>1, FineSub
    <2>3. PICK m \in 0 .. 2 : m = Len(Subs[7].parts) /\ 2 \in 1 .. m
      BY <2>1, PartsAreFew
    <2>4. i + 2 <= Len(args)
      <3>1. i + m <= Len(args) /\ i \in Nat /\ Len(args) \in Nat
        BY <2>2, <2>3, Arguments
      <3>2. m = 2
        <4>1. m \in {0, 1, 2} /\ 2 <= m
          BY <2>3
        <4>2. QED
          BY <4>1
      <3>3. QED
        BY <3>1, <3>2
    <2>5. args[i + 2].text \in {"stdout", "stderr"}
      <3>1. PartFlaw(SubStringChoice({"stdout", "stderr"}), i + 2) = Fine
        BY <2>2
      <3>2. QED
        BY <3>1, FinePart DEF SubStringChoice
    <2>6. QED
      BY <2>4, <2>5
  <1>4. QED
    BY <1>2, <1>3

LEMMA GatheredIsSound ==
    ASSUME Agreed, Gathered, place = "start"
    PROVE  SoundArguments
  <1>1. HasCommand /\ message \in Seq(Element) /\ name = "run" /\ Len(args) \in Nat
        /\ loc = Len(args) + 1 /\ Consistent
    BY Arguments DEF Agreed, Agreement, Typed, Known, Gathered
  <1> DEFINE P == Ran(loc)
  <1>2. /\ \A i \in P : i \in 1 .. Len(args) /\ SubFlaw(i) = Fine
        /\ InFound(P, run.input) /\ OutFound(P, run.outputs) /\ EnvFound(P, run.env)
        /\ NamesFound(P, run.names) /\ NotifyFound(P, run.notify)
        /\ run.input \in BOOLEAN /\ run.notify \in BOOLEAN /\ run.names \in Seq(STRING)
    BY DEF Gathered, GatheredFrom, RunTyped
  <1>3. \A i \in Boundaries : \A k \in Nat : i + k <= Len(args) => i \in P
    <2>1. Boundaries \subseteq First .. Len(args) + 1
      BY <1>1, BoundariesAre
    <2>2. \A i \in First .. Len(args) + 1 : \A k \in Nat : i + k <= Len(args) => i < Len(args) + 1
      BY <1>1, FirstIs
    <2>3. QED
      BY <1>1, <2>1, <2>2 DEF Ran
  <1>4. \A c, text : \A k \in Nat : \A i : i \in TimesSet(c, k, text) <=>
            i \in P /\ i + k <= Len(args) /\ Called(i, c) /\ args[i + k].text = text
    <2>1. P \subseteq Boundaries
      BY DEF Ran
    <2>2. QED
      BY <1>3, <2>1 DEF TimesSet, Called
  <1>5. \A c, k, text : Times(c, k, text) = Cardinality(TimesSet(c, k, text))
    BY DEF Times, TimesSet
  <1>6. \A i \in P :
            /\ Called(i, "in") => i + 1 <= Len(args) /\ args[i + 1].text = "JSON"
            /\ Called(i, "out") => i + 2 <= Len(args) /\ args[i + 2].text \in {"stdout", "stderr"}
    BY <1>1, <1>2, FineTexts
  <1> HIDE DEF P
  <1>7. Duplicates = {} => \A p, q \in DOMAIN run.names : ~(p < q /\ run.names[p] = run.names[q])
    <2>1. SUFFICES ASSUME Duplicates = {}, NEW p \in DOMAIN run.names, NEW q \in DOMAIN run.names,
                          p < q, run.names[p] = run.names[q]
                   PROVE  FALSE
      OBVIOUS
    <2>2. PICK n \in Nat : n = Len(run.names) /\ DOMAIN run.names = 1 .. n
      BY <1>2
    <2>3. p \in 1 .. q - 1
      BY <2>1, <2>2
    <2>4. q \in Duplicates
      BY <2>1, <2>3 DEF Duplicates
    <2>5. QED
      BY <2>1, <2>4
  <1>8. 0 \in Nat /\ 1 \in Nat /\ 2 \in Nat
    OBVIOUS
  <1>9. Times("in", 1, "JSON") = IF run.input THEN 1 ELSE 0
    <2> DEFINE S == TimesSet("in", 1, "JSON")
    <2>1. \A i, j \in S : i = j
      BY <1>2, <1>4, <1>8 DEF InFound
    <2>2. S = {} <=> ~run.input
      BY <1>2, <1>4, <1>6, <1>8 DEF InFound
    <2> HIDE DEF S
    <2>3. Cardinality(S) = IF run.input THEN 1 ELSE 0
      BY <1>2, <2>1, <2>2, AtMostOne
    <2>4. QED
      BY <1>5, <2>3 DEF S
  <1>10. ASSUME NEW c \in {"stdout", "stderr"}
         PROVE  Times("out", 2, c) = IF c \in run.outputs THEN 1 ELSE 0
    <2> DEFINE S == TimesSet("out", 2, c)
    <2>1. \A i, j \in S : i = j
      BY <1>2, <1>4, <1>8 DEF OutFound
    <2>2. S = {} <=> c \notin run.outputs
      <3>1. \A i : i \in S <=> i \in P /\ Called(i, "out") /\ args[i + 2].text = c
        BY <1>4, <1>6, <1>8
      <3>2. c \in run.outputs <=> \E i \in P : Called(i, "out") /\ args[i + 2].text = c
        BY <1>2 DEF OutFound
      <3> HIDE DEF S
      <3>3. QED
        BY <3>1, <3>2
    <2> HIDE DEF S
    <2>3. Cardinality(S) = IF c \in run.outputs THEN 1 ELSE 0
      BY <2>1, <2>2, AtMostOne
    <2>4. QED
      BY <1>5, <2>3 DEF S
  <1>11. ASSUME NEW n
         PROVE  Times("env", 1, n) <= 1 /\ Times("output", 1, n) <= 1
    <2>1. \A i, j \in TimesSet("env", 1, n) : i = j
      BY <1>2, <1>4, <1>8 DEF EnvFound
    <2>2. \A i, j \in TimesSet("output", 1, n) : i = j
      BY <1>1, <1>2, <1>4, <1>7, <1>8 DEF NamesFound, Consistent
    <2>3. Cardinality(TimesSet("env", 1, n)) \in {0, 1}
      BY <2>1, AtMostOne
    <2>4. Cardinality(TimesSet("output", 1, n)) \in {0, 1}
      BY <2>2, AtMostOne
    <2>5. QED
      BY <1>5, <2>3, <2>4
  <1>12. ASSUME NEW c, NEW k \in Nat, NEW text, Times(c, k, text) > 0
         PROVE  \E i \in P : Called(i, c)
    <2>1. TimesSet(c, k, text) # {}
      BY <1>5, <1>12, FS_EmptySet
    <2>2. QED
      BY <1>4, <2>1
  <1>13. (Times("notify", 1, "data") > 0) => Times("in", 1, "JSON") = 1
    BY <1>1, <1>2, <1>8, <1>9, <1>12 DEF NotifyFound, Consistent
  <1>14. (Times("output", 0, "output") > 0) =>
            Times("out", 2, "stdout") + Times("out", 2, "stderr") > 0
    <2>1. SUFFICES ASSUME Times("output", 0, "output") > 0
                   PROVE  Times("out", 2, "stdout") + Times("out", 2, "stderr") > 0
      OBVIOUS
    <2>2. run.names # << >>
      <3>1. PICK i \in P : Called(i, "output")
        BY <1>8, <1>12, <2>1
      <3>2. PICK p \in DOMAIN run.names : TRUE
        BY <1>2, <3>1 DEF NamesFound
      <3>3. DOMAIN << >> = {}
        OBVIOUS
      <3>4. QED
        BY <3>2, <3>3
    <2>3. run.outputs # {}
      BY <1>1, <2>2 DEF Consistent, Renames
    <2>4. "stdout" \in run.outputs \/ "stderr" \in run.outputs
      BY <1>2, <1>6, <2>3 DEF OutFound
    <2>5. PICK a \in {0, 1}, b \in {0, 1} :
            a = Times("out", 2, "stdout") /\ b = Times("out", 2, "stderr") /\ (a = 1 \/ b = 1)
      BY <1>10, <2>4
    <2>6. QED
      BY <2>5
  <1>15. Times("in", 1, "JSON") <= 1 /\ \A c \in {"stdout", "stderr"} : Times("out", 2, c) <= 1
    BY <1>2, <1>9, <1>10
  <1>16. QED
    BY <1>11, <1>13, <1>14, <1>15 DEF SoundArguments

LEMMA OnlyRunStarts ==
    ASSUME [Next]_vars
    PROVE  UNCHANGED <<message, started>> \/ RunStart
  <1>1. ASSUME Finish PROVE UNCHANGED <<message, started>>
    BY <1>1 DEF Finish
  <1>2. ASSUME Fault \/ Accept \/ \E n, what : Found(n, what) PROVE UNCHANGED <<message, started>>
    BY <1>2 DEF Fault, Accept, Found
  <1>3. CASE BadFormat \/ BadIdentifier \/ BadCommand \/ BadArgument \/ Execute \/ NoOperation
             \/ Version \/ StorageInfo \/ EndFeed \/ FeedRefused \/ FeedDone
    BY <1>1, <1>3 DEF BadFormat, BadIdentifier, BadCommand, BadArgument, Execute, NoOperation,
                      Version, StorageInfo, EndFeed, FeedRefused, FeedDone
  <1>4. CASE ValidateList \/ ValidateFirst \/ ValidateSub
    BY <1>1, <1>2, <1>4 DEF ValidateList, ValidateFirst, ValidateSub, Reject
  <1>5. CASE Get \/ ForEach \/ FeedInput
    BY <1>1, <1>2, <1>5 DEF Get, ForEach, FeedInput
  <1>6. CASE RunEnv \/ RunEnvClear \/ RunOutput \/ RunPrefix \/ RunPostfix
    BY <1>1, <1>2, <1>6
    DEF RunEnv, RunEnvClear, RunOutput, RunPrefix, RunPostfix, Branch, RunError
  <1>7. CASE RunIn \/ RunOut \/ RunNotify \/ RunDirectory \/ RunProgram
    BY <1>1, <1>2, <1>7
    DEF RunIn, RunOut, RunNotify, RunDirectory, RunProgram, Branch, RunError
  <1>8. CASE InUse \/ RunInconsistent \/ RunNoDirectory \/ RunNoProgram \/ RunFound
    BY <1>1, <1>8 DEF InUse, RunInconsistent, RunNoDirectory, RunNoProgram, RunFound, RunError
  <1>9. CASE Over \/ UNCHANGED vars
    BY <1>9 DEF Over, vars
  <1>10. QED
    BY <1>3, <1>4, <1>5, <1>6, <1>7, <1>8, <1>9 DEF Next

LEMMA StartIsSound ==
    ASSUME Agreed, Gathered, StartedRunIsSound, [Next]_vars
    PROVE  StartedRunIsSound'
  <1>1. StartedRunIsSound <=> (started => SoundArguments)
    BY DEF StartedRunIsSound, SoundArguments
  <1>2. StartedRunIsSound' <=> (started' => SoundArguments')
    BY DEF StartedRunIsSound, SoundArguments
  <1>3. ASSUME UNCHANGED message PROVE SoundArguments' <=> SoundArguments
    BY <1>3 DEF SoundArguments, Times, Boundaries, CutBefore, SubSet, IsSub, Begins, PartFlaw,
                Subs, First, args, name
  <1>4. UNCHANGED message
    BY OnlyRunStarts DEF RunStart
  <1>5. CASE RunStart
    BY <1>2, <1>3, <1>4, <1>5, GatheredIsSound DEF RunStart
  <1>6. CASE ~RunStart
    <2>1. UNCHANGED started
      BY <1>6, OnlyRunStarts
    <2>2. QED
      BY <1>1, <1>2, <1>3, <1>4, <2>1
  <1>7. QED
    BY <1>5, <1>6

(* A process is started with one input at most, and none of its outputs,   *)
(* variables and output names given twice; notifications have an input to  *)
(* go to, and renamed results an output to come from: what Run has noted   *)
(* of the arguments is what is in them.                                    *)
THEOREM StartedIsSound == Spec => []StartedRunIsSound
  <1>1. Init => Agreed /\ Gathered /\ StartedRunIsSound
    BY Initially, AgreesInitially DEF Agreed, Init, Gathered, StartedRunIsSound
  <1>2. Agreed /\ [Next]_vars => Agreed'
    BY Inductive, AgreesAlways DEF Agreed
  <1>3. Agreed /\ Gathered /\ [Next]_vars => Gathered'
    BY RunGathers, RestGathers
  <1>4. Agreed /\ Gathered /\ StartedRunIsSound /\ [Next]_vars => StartedRunIsSound'
    BY StartIsSound
  <1>5. QED
    BY <1>1, <1>2, <1>3, <1>4, PTL DEF Spec
=============================================================================
