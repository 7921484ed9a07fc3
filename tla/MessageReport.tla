---------------------------- MODULE MessageReport ----------------------------
(***************************************************************************)
(* The report of all messages that can be sent, `datalackey --report       *)
(* messages`, and what it tells a reader of the replies of Commands.  Each *)
(* Message registers itself when it is made and reports by calling its own *)
(* Send with place-holders: an operator here is the Send of a class, with  *)
(* the strings that the constructor was given first.                       *)
(***************************************************************************)
EXTENDS Commands

ReportId == Str("id")
Item == Str("?")

(* Mutant of Dots: the lists are reported without any element.             *)
NoDots == << >>

Dots == <<Str("...")>>

Words(list) == [k \in DOMAIN list |-> Str(list[k])]

(* Messages.hpp                                                            *)
ArgErrorArgumentSth(sth, i, arg) ==
    Message(i, arg.text, "error", <<Str("argument"), Str(sth)>>)
NullErrorSthOpt(sth, opt) == Message(Null, "error", sth, Words(opt))
ErrorCommandSthArg(sth, i, arg) == Message(i, "error", "command", <<Str(sth), arg>>)
Sth2Opt2List(sth, sth2, opt, i, list) == Message(i, sth, sth2, Words(opt) \o list)
NullNtfSthArgLL(ntf, sth, arg, big) == Message(Null, ntf, sth, <<arg, big>>)
Sth2Opt3(sth, sth2, opt, i) == Message(i, sth, sth2, Words(opt))

(* ProcessMessages.hpp                                                     *)
NullNtfSthIdInt(ntf, sth, i, int) == Message(Null, ntf, sth, <<i, int>>)
CmdSthInt(cmd, sth, i, int) == Message(i, cmd, sth, <<int>>)
CmdErrorArgArgumentSth(cmd, sth, i, arg) ==
    Message(i, cmd, "error", <<arg, Str("argument"), Str(sth)>>)
CmdErrorArgDuplicateArg(cmd, i, arg, arg2) ==
    Message(i, cmd, "error", <<arg, Str("duplicate"), arg2>>)
RunErrorSth2OptArg(sth, i, arg) == Message(i, "run", "error", Words(sth) \o <<arg>>)
RunErrorSthArg2(sth, i, list) == Message(i, "run", "error", <<Str(sth)>> \o list)

(***************************************************************************)
(* The messages there are when main stops the registrations, by where they *)
(* are defined, as they are reported.                                      *)
(***************************************************************************)
HandlerReports ==
    {NullErrorSthOpt("format", << >>)} \cup
    {NullErrorSthOpt("identifier", <<w>>) : w \in {"missing", "invalid"}} \cup
    {ErrorCommandSthArg(w, ReportId, Item) : w \in {"missing", "not-string", "unknown"}} \cup
    {ArgErrorArgumentSth(w, ReportId, Item) : w \in {"not-integer", "invalid"}} \cup
    {NullNtfSthArgLL("data", w, Str("string"), Number) : w \in {"deleted", "stored", "error"}} \cup
    {Sth2Opt3("channel", "reset", << >>, ReportId), Sth2Opt3("run", "error", <<"format">>, ReportId),
     Sth2Opt3("done", "", << >>, ReportId)} \cup
    {Sth2Opt3("error", "format", << >>, i) : i \in {ReportId, Null}}

DescriptionReports ==
    {Sth2Opt2List("error", w, << >>, ReportId, Dots) :
        w \in {"missing", "unexpected", "not-string", "not-string-null", "unknown", "pairless"}}

(* What get, storage-info and version answer they write themselves: they   *)
(* have a message that is never sent to stand for it in the report.        *)
Mappings == {"mapping label-to-value", "mapping label-to-mapping-format-to-size", "mapping"}

GetReports ==
    {Sth2Opt2List("get", what, << >>, ReportId, Dots) : what \in {"missing", "failed"}} \cup
    {Sth2Opt3("get", "", <<"mapping label-to-value">>, ReportId)}

DeleteReports == {Sth2Opt2List("delete", "missing", << >>, ReportId, Dots)}

RenameReports == {Sth2Opt2List("rename", "missing", << >>, ReportId, Dots)}

TerminateReports == {Sth2Opt2List("terminate", "missing", << >>, ReportId, Dots)}

StorageInfoReports ==
    {Sth2Opt3("storage-info", "", <<"mapping label-to-mapping-format-to-size">>, ReportId)}

VersionReports == {Sth2Opt3("version", "", <<"mapping">>, ReportId)}

NoOperationReports == {Message(ReportId, "no-op", "", << >>)}

CommandReports ==
    GetReports \cup DeleteReports \cup RenameReports \cup TerminateReports \cup
    StorageInfoReports \cup VersionReports \cup NoOperationReports

RunErrors ==
    {<<"pipe">>, <<"no-processes">>, <<"no-memory">>, <<"input", "failed">>, <<"no-thread">>,
     <<"exception">>, <<"identifier", "in-use">>, <<"in", "multiple">>, <<"notify", "no-input">>,
     <<"out", "missing">>}

RunReports ==
    {CmdSthInt("run", w, ReportId, Number) : w \in {"exit", "signal", "stopped", "running"}} \cup
    {Sth2Opt3("run", w, << >>, ReportId) : w \in {"continued", "terminated", "finished"}} \cup
    {Sth2Opt3("run", "input", <<"closed">>, ReportId)} \cup
    {Sth2Opt3("run", "error", what, ReportId) : what \in RunErrors} \cup
    {RunErrorSth2OptArg(sth, ReportId, Item) :
        sth \in {<<"env", "argument", "invalid">>, <<"env", "argument", "duplicate">>,
                 <<"out", "duplicate">>, <<"output", "duplicate">>}} \cup
    {RunErrorSthArg2("change-directory", ReportId, <<Item, Item>>),
     RunErrorSthArg2("program", ReportId, <<Item, Item>>),
     RunErrorSthArg2("program", ReportId, <<Item>>)}

ProcessReports ==
    RunReports \cup
    {Sth2Opt2List("end-feed", w, << >>, ReportId, Dots) : w \in {"missing", "not-open"}} \cup
    {Sth2Opt2List("feed", "error", <<"missing">>, ReportId, Dots),
     CmdErrorArgDuplicateArg("feed", ReportId, Item, Item)} \cup
    {Sth2Opt3("feed", "error", <<w>>, ReportId) : w \in {"not-found", "closed"}} \cup
    {CmdErrorArgArgumentSth(c, "unknown", ReportId, Item) : c \in {"run", "feed"}} \cup
    {NullNtfSthIdInt("process", w, ReportId, Number) : w \in {"started", "ended"}}

MessageReports == HandlerReports \cup DescriptionReports \cup CommandReports \cup ProcessReports

(***************************************************************************)
(* How a reply is found in the report: "?" is any string, "..." any number *)
(* of values, and the mappings are dictionaries.                           *)
(***************************************************************************)
Stands(form, text) == form \in {"?", text}

FitsOne(form, value) ==
    \/ form = value
    \/ form = Item /\ value.kind = "string"
    \/ form.text \in Mappings /\ value = Dictionary

FitsRest(form, rest) ==
    IF form # << >> /\ Last(form) \in {Str("...")} \cup {Str(w) : w \in Mappings}
    THEN /\ Len(rest) >= Len(form) - 1
         /\ \A k \in 1 .. Len(form) - 1 : FitsOne(form[k], rest[k])
         /\ Last(form) # Str("...") => rest # << >> /\ FitsOne(Last(form), rest[Len(form)])
    ELSE Len(rest) = Len(form) /\ \A k \in DOMAIN form : FitsOne(form[k], rest[k])

Fits(form, reply) ==
    /\ form.id = Null <=> reply.id = Null
    /\ Stands(form.class, reply.class) /\ Stands(form.type, reply.type)
    /\ FitsRest(form.rest, reply.rest)

(* "Used for asking a report of all messages that can be sent": every      *)
(* reply to a command has one of the forms in the report.                  *)
ReportIsExact ==
    place = "over" =>
        \A k \in DOMAIN replies : \E form \in MessageReports : Fits(form, replies[k])

(* It is not quite so: a command that is missing or not a string is        *)
(* reported with an argument that is not sent.  The class has one Report   *)
(* for its three messages.  All the others have the form they report.      *)
LeavesOutArgument(reply) ==
    reply.class = "error" /\ reply.type = "command" /\ Len(reply.rest) = 1

RepliesAreReported ==
    place = "over" =>
        \A k \in DOMAIN replies : \E form \in MessageReports :
            IF LeavesOutArgument(replies[k])
            THEN Fits(form, [replies[k] EXCEPT !.rest = Append(@, Item)])
            ELSE Fits(form, replies[k])
=============================================================================
