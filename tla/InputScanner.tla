---------------------------- MODULE InputScanner ----------------------------
(***************************************************************************)
(* InputScanner::Scan with InputScannerJSON::scan_input: what a peer sends *)
(* is cut into ranges, ranges are passed to the data sink or the command   *)
(* handler, and a zero byte resets a stream that went bad.                 *)
(*                                                                         *)
(* A step consumes one character, or finds that the read ended.  A range   *)
(* is passed on when it ends, not when its characters are seen, so what    *)
(* the characters of the range will do to the data sink is kept apart, in  *)
(* pending, until the range is passed on or thrown away.                   *)
(***************************************************************************)
EXTENDS JsonText, DataSink, FiniteSets

CONSTANTS MaxDepth,   \* bound: brackets open at a time
          MaxMembers  \* bound: members of an object

ASSUME BoundsAssumption == MaxDepth \in Nat \ {0} /\ MaxMembers \in Nat

VARIABLES
    previous,   \* Scan's recipient of the previous range
    kind,       \* scan_input's Previous, which changes when an item starts
    begun,      \* whether the current range has characters
    depth, inString, escaping,  \* open_something, in_string, escaping
    pending,    \* the data sink, once it has been given the current range
    sink,       \* the data sink
    message,    \* whose characters CommandHandlerJSON::buffer holds
    notice      \* the latest notification: "none", "error" or "reset"

VARIABLES       \* history
    item,       \* the text of the current item
    start,      \* how it started: the sink's part, after white-space or not
    ended       \* "object" or "message" when the latest step ended one

scan == <<previous, kind, begun, depth, inString, escaping>>
vars == <<scan, pending, sink, message, notice, item, start, ended>>

Init ==
    /\ previous = "Discard" /\ kind = "Discard" /\ begun = FALSE
    /\ depth = 0 /\ inString = FALSE /\ escaping = FALSE
    /\ pending = Fresh /\ sink = Fresh
    /\ message = {} /\ notice = "none"
    /\ item = Wrong
    /\ start = [part |-> "InHead", spaced |-> FALSE]
    /\ ended = "none"

Reading == previous # "DiscardRetroactively"

(* Scan, after a range was handled: what it was is the next one's Previous. *)
NewRange(recipient) == previous' = recipient /\ kind' = recipient /\ begun' = FALSE

(* The range was Data: Input returned pending.ok.                          *)
PassData(recipient) ==
    /\ NewRange(IF pending.ok THEN recipient ELSE "DiscardRetroactively")
    /\ notice' = IF pending.told THEN "error" ELSE "none"
    /\ UNCHANGED message

PassMessage ==
    /\ NewRange("Message")
    /\ message' = message \cup {"this"}
    /\ notice' = "none"

(* Mutant of DiscardMessage: CommandHandlerJSON::Discard keeps its buffer.  *)
KeepMessage == UNCHANGED message

(* CommandHandlerJSON::Discard, when the broken item was a message.        *)
DiscardMessage == message' = IF previous = "Message" THEN {} ELSE message

(* The current range is thrown away, and what was passed before it when    *)
(* that was the start of an item.                                          *)
ThrowAway(recipient) ==
    /\ NewRange(recipient)
    /\ sink' = IF previous = "Data" THEN Discard(sink) ELSE sink
    /\ pending' = sink'
    /\ DiscardMessage

ClearState == depth' = 0 /\ inString' = FALSE /\ escaping' = FALSE

(* A zero byte, in a stream gone bad or not.                               *)
Zero ==
    /\ ThrowAway("Reset")
    /\ ClearState
    /\ notice' = IF kind # "Reset" THEN "reset" ELSE "none"
    /\ item' = Wrong /\ ended' = "none"
    /\ UNCHANGED start

(* Everything else in a stream gone bad.                                   *)
Ignore(c) ==
    /\ ~Reading /\ c # "zero"
    /\ notice' = "none" /\ ended' = "none"
    /\ UNCHANGED <<scan, pending, sink, message, item, start>>

(* The character becomes part of the range.                                *)
Take(c) ==
    /\ begun' = TRUE
    /\ pending' = IF kind = "Data"
                  THEN InputChar(IF begun THEN pending ELSE Input(sink), c)
                  ELSE pending
    /\ item' = IF depth > 0 THEN Read(item, c) ELSE item
    /\ notice' = "none" /\ ended' = "none"
    /\ UNCHANGED <<previous, kind, sink, message, start>>

StringChar(c) ==
    /\ Reading /\ inString /\ c # "zero"
    /\ Take(c)
    /\ inString' = (escaping \/ c # "quote")
    /\ escaping' = (~escaping /\ c = "backslash")
    /\ UNCHANGED depth

(* An opening bracket inside an item.                                      *)
OpenInner(c) ==
    /\ Reading /\ ~inString /\ depth > 0 /\ depth < MaxDepth
    /\ c \in {"[", "{"}
    /\ Take(c)
    /\ depth' = depth + 1
    /\ UNCHANGED <<inString, escaping>>

(* An opening bracket that starts an item.  White-space before it is a     *)
(* range of its own only when the previous range was Discard.              *)
StartOf(c) ==
    /\ Reading /\ depth = 0 /\ c \in {"[", "{"}
    /\ sink' = [sink EXCEPT !.adds = << >>]
    /\ LET spaced == begun /\ kind # "Discard"
           ready == IF spaced THEN InputChar(Input(sink'), "space") ELSE Input(sink')
       IN  /\ pending' = IF c = "{" THEN InputChar(ready, c) ELSE sink
           /\ start' = [part |-> sink.part, spaced |-> spaced]
    /\ kind' = IF c = "[" THEN "Message" ELSE "Data"
    /\ begun' = TRUE
    /\ depth' = 1
    /\ message' = IF message = {} THEN {} ELSE {"earlier"}
    /\ item' = Start(c)
    /\ notice' = "none" /\ ended' = "none"
    /\ UNCHANGED <<previous, inString, escaping>>

CloseInner(c) ==
    /\ Reading /\ ~inString /\ depth > 1 /\ c \in {"]", "}"}
    /\ Take(c)
    /\ depth' = depth - 1
    /\ UNCHANGED <<inString, escaping>>

(* DataEnd: Input and then End, which always returns true.                 *)
EndOfObject(c) ==
    /\ Reading /\ ~inString /\ depth = 1 /\ c \in {"]", "}"}
    /\ kind = "Data"
    /\ LET last == InputChar(IF begun THEN pending ELSE Input(sink), c) IN
        /\ sink' = End(last)
        /\ NewRange(IF last.ok THEN "Discard" ELSE "DiscardRetroactively")
        /\ notice' = IF last.told THEN "error" ELSE "none"
    /\ pending' = sink'
    /\ depth' = 0
    /\ item' = Read(item, c)
    /\ ended' = "object"
    /\ UNCHANGED <<inString, escaping, message, start>>

(* MessageEnd: the handler parses its buffer and empties it; it returns    *)
(* false when it cannot parse.                                             *)
EndOfMessage(c) ==
    /\ Reading /\ ~inString /\ depth = 1 /\ c \in {"]", "}"}
    /\ kind = "Message"
    /\ item' = Read(item, c)
    /\ IF Complete(item') THEN NewRange("Discard") /\ notice' = "none"
                          ELSE NewRange("DiscardRetroactively") /\ notice' = "error"
    /\ message' = {}
    /\ depth' = 0
    /\ ended' = "message"
    /\ UNCHANGED <<inString, escaping, sink, pending, start>>

Bounded == /\ item.expect = "key" => item.members < MaxMembers
           /\ pending.part = "InKey" => pending.group < MaxMembers

(* Any other character inside an item: a string starts, or more of a value. *)
Inner(c) ==
    /\ Reading /\ ~inString /\ depth > 0
    /\ c \in {"quote", "backslash", "colon", "comma", "digit"}
    /\ c = "quote" => Bounded
    /\ Take(c)
    /\ inString' = (c = "quote")
    /\ UNCHANGED <<depth, escaping>>

(* White-space inside an item ends the range before it, when there is one, *)
(* and is dropped.                                                         *)
PassRange ==
    /\ begun
    /\ CASE kind = "Data" -> PassData("Data") /\ sink' = pending
         [] kind = "Message" -> PassMessage /\ UNCHANGED sink
         [] kind \in {"Discard", "Reset"} ->
                NewRange(kind) /\ notice' = "none" /\ UNCHANGED <<message, sink>>
    /\ ended' = "none"
    /\ UNCHANGED <<depth, inString, escaping, pending, item, start>>

DropSpace ==
    /\ Reading /\ ~inString /\ depth > 0
    /\ IF begun THEN PassRange
       ELSE /\ notice' = "none" /\ ended' = "none"
            /\ UNCHANGED <<scan, pending, sink, message, item, start>>

SpaceBetween ==
    /\ Reading /\ depth = 0
    /\ Take("space")
    /\ UNCHANGED <<depth, inString, escaping>>

(* Anything else between items makes the stream bad.                       *)
Stray(c) ==
    /\ Reading /\ depth = 0
    /\ c \in {"]", "}", "quote", "backslash", "colon", "comma", "digit"}
    /\ ThrowAway("DiscardRetroactively")
    /\ depth' = IF c \in {"]", "}"} THEN -1 ELSE 0
    /\ notice' = "error" /\ ended' = "none"
    /\ UNCHANGED <<inString, escaping, item, start>>

(* All that could be read has been scanned.                                *)
ReadEnds == Reading /\ PassRange

Next ==
    \/ \E c \in Chars :
        \/ StringChar(c) \/ OpenInner(c) \/ StartOf(c)
        \/ CloseInner(c) \/ EndOfObject(c) \/ EndOfMessage(c)
        \/ Inner(c) \/ Stray(c) \/ Ignore(c)
    \/ Zero \/ DropSpace \/ SpaceBetween \/ ReadEnds

Spec == Init /\ [][Next]_vars

----------------------------------------------------------------------------
(* Scanner and sink keep separate counts of brackets and separate string   *)
(* states over the same characters; as long as the sink has not refused    *)
(* any the two agree, mismatched brackets included.                        *)
SinkFollowsScanner ==
    (Reading /\ kind = "Data" /\ begun /\ pending.ok) =>
        /\ depth = pending.dicts + pending.arrays
        /\ inString = pending.inString /\ escaping = pending.escaping

(* The sink looks at the first bracket of the object: it is as new, and    *)
(* was given no white-space before the bracket.                            *)
Ready == start.part = "InHead" /\ ~start.spaced

(* A well-formed object is stored whole or not at all, however deep it is, *)
(* wherever reads and white-space cut it, and whatever was sent before it: *)
(* once with all its members when the sink was ready for it.  Otherwise it *)
(* is refused with all its members and the stream goes bad, although it is *)
(* well-formed: after white-space that follows a zero byte, and after a    *)
(* zero byte that follows an object that was refused.  Those two are what  *)
(* the documentation promises to work (WhitespaceIsIgnored, ResetRecovers  *)
(* below, which the program does not satisfy).                             *)
WellFormedIsStored ==
    (ended = "object" /\ Complete(item)) =>
        IF Ready THEN sink.adds = <<item.members>> /\ Reading
                 ELSE sink.adds = << >> /\ ~Reading

(* A command is parsed from its own characters: nothing of an array that   *)
(* was broken off by a zero byte is left in front of it.                   *)
CommandsAreWhole == "earlier" \notin message

(* An object stays within the items the stream accepted: when the stream   *)
(* goes bad inside an object nothing of the object is stored.              *)
NoPartialUpdate == ~Reading => sink.adds = << >>

(* "White-space outside strings is ignored".                               *)
WhitespaceIsIgnored ==
    (ended = "object" /\ Complete(item) /\ start.spaced /\ start.part = "InHead") =>
        sink.adds # << >>

(* "proper JSON can be set after the zero byte".                           *)
ResetRecovers ==
    (ended = "object" /\ Complete(item) /\ ~start.spaced) => sink.adds # << >>
=============================================================================
