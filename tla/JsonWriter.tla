----------------------------- MODULE JsonWriter -----------------------------
(***************************************************************************)
(* How messages become text: JSONEncoder turns the structures and values a *)
(* writer is given into JSON, Message and CommandDescription decide which  *)
(* they are.  Strings and numbers are written as one character of JsonText *)
(* each, and null as if it were a number.                                  *)
(***************************************************************************)
EXTENDS Integers, Sequences, SequencesExt

Json == INSTANCE JsonText

(* What a SimpleValue, or an element of a JSON array, can be.              *)
Str(s) == [kind |-> "string", text |-> s]
Number == [kind |-> "number", text |-> "1"]
Null == [kind |-> "null", text |-> ""]

Structure(s) == [kind |-> "structure", text |-> s]
Array == Structure("Array")
Dictionary == Structure("Dictionary")
End == Structure("End")

(* RawItem and the blocks that follow it: a stored value, or the part that *)
(* could be read.  The sink that stored it kept account of brackets and    *)
(* strings and never parsed it, so it may be no JSON at all, and a string  *)
(* in it may hold a newline.                                               *)
Readings == {"json", "broken", "newline", "part"}

Raw(reading) == [kind |-> "raw", text |-> reading]

(***************************************************************************)
(* JSONEncoder: open structures and counters, the innermost first, and the *)
(* text so far.                                                            *)
(***************************************************************************)
NothingOpen == [open |-> << >>, counter |-> << >>, text |-> << >>]

(* What End leaves when nothing is open: it uses the top of empty stacks.  *)
NoEncoder == [NothingOpen EXCEPT !.text = <<"undefined">>]

Counted(e, n, separator) == [e EXCEPT !.counter[1] = n, !.text = @ \o separator]

(* Mutant of AddSeparator: the value of a key is not counted.              *)
AddSeparatorKeys(e) ==
    CASE e.open = << >> -> e
      [] e.open # << >> /\ Head(e.open) = "Array" ->
            Counted(e, 1, IF Head(e.counter) = 1 THEN <<"comma">> ELSE << >>)
      [] e.open # << >> /\ Head(e.open) = "Dictionary" ->
            Counted(e, 1, IF Head(e.counter) = 1 THEN <<"colon">> ELSE << >>)

(* In a dictionary 1 says that a key, 2 that its value was written last.   *)
AddSeparator(e) ==
    CASE e.open = << >> -> e
      [] e.open # << >> /\ Head(e.open) = "Array" ->
            Counted(e, 1, IF Head(e.counter) = 1 THEN <<"comma">> ELSE << >>)
      [] e.open # << >> /\ Head(e.open) = "Dictionary" ->
            CASE Head(e.counter) = 0 -> Counted(e, 1, << >>)
              [] Head(e.counter) = 1 -> Counted(e, 2, <<"colon">>)
              [] Head(e.counter) = 2 -> Counted(e, 1, <<"comma">>)

Opened(e, s, bracket) ==
    LET separated == AddSeparator(e) IN
    [open |-> <<s>> \o e.open, counter |-> <<0>> \o separated.counter,
     text |-> Append(separated.text, bracket)]

Closed(e) ==
    [open |-> Tail(e.open), counter |-> Tail(e.counter),
     text |-> e.text \o <<IF Head(e.open) = "Array" THEN "]" ELSE "}">>
                     \o (IF Len(e.open) = 1 THEN <<"newline">> ELSE << >>)]

RawText == [json |-> <<"[", "digit", "]">>, broken |-> <<"[", "colon", "]">>,
            newline |-> <<"quote", "newline", "quote">>, part |-> <<"[">>]

ValueText(v) ==
    CASE v.kind = "string" -> IF v.text = "" THEN <<"quote", "quote">>
                                             ELSE <<"quote", "digit", "quote">>
      [] v.kind = "raw" -> RawText[v.text]
      [] OTHER -> <<"digit">>

Encode(e, t) ==
    CASE t = Array -> Opened(e, "Array", "[")
      [] t = Dictionary -> Opened(e, "Dictionary", "{")
      [] t = End -> IF e.open = << >> THEN NoEncoder ELSE Closed(e)
      [] OTHER -> LET separated == AddSeparator(e) IN
                  [separated EXCEPT !.text = @ \o ValueText(t)]

(***************************************************************************)
(* Message::msg and listmsg, and what the commands write by themselves.    *)
(***************************************************************************)
Message(id, class, type, rest) == [id |-> id, class |-> class, type |-> type, rest |-> rest]

Tokens(m) == <<Array, m.id, Str(m.class), Str(m.type)>> \o m.rest \o <<End>>

(* GetCommand: labels and raw values.  Info: of each label its serial and  *)
(* the size in the one format there is.                                    *)
Mapping(labels, values) ==
    <<Dictionary>> \o FlattenSeq([k \in DOMAIN labels |-> <<labels[k]>> \o values[k]])
                   \o <<End>>

Info == <<Dictionary, Str("serial"), Number, Str("JSON"), Number, End>>

(***************************************************************************)
(* The Report of each CommandDescription, as in the reply to "version".    *)
(***************************************************************************)
List(parts) == <<Array>> \o parts \o <<End>>

Syntax(name) == List(<<Str("id"), Str(name)>>)
SyntaxOf(name, arguments) == List(<<Str("id"), Str(name), Str(arguments)>>)

(* report_subcommands: a list of them, one at least, and each in turn.     *)
SubSyntax(name, before, subs) ==
    <<Dictionary, Str(name)>> \o List(<<Str("id"), Str(name)>> \o before \o <<Str("subs")>>)
        \o <<Str("subs")>> \o List(List(<<Str("sub"), Str("subs")>>) \o List(<<Str("sub")>>))
        \o <<Str("sub")>> \o List([k \in DOMAIN subs |-> Str(subs[k].name)])
        \o FlattenSeq([k \in DOMAIN subs |->
                <<Str(subs[k].name)>> \o
                List(<<Str(subs[k].name)>> \o [n \in DOMAIN subs[k].parts |-> Str("part")])])
        \o <<End>>
=============================================================================
