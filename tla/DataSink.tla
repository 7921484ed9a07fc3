------------------------------ MODULE DataSink ------------------------------
(***************************************************************************)
(* StorageDataSinkJSON: cuts the text of a JSON object into the items of a *)
(* DataGroup and gives the group to the Storage.  Its state is a record,   *)
(* what Input, End and Discard do to it are operators.                     *)
(*                                                                         *)
(* Of the key the record keeps whether it is empty and whether it parses,  *)
(* of the group how many items it has (labels are taken to differ), of     *)
(* values nothing.  ok is the result of Input, told whether error/format   *)
(* was sent, adds the sizes of the groups given to Storage::Add since the  *)
(* object began.                                                           *)
(***************************************************************************)
EXTENDS Integers, Sequences

NoGroup == -1

Fresh == [part |-> "InHead", dicts |-> 0, arrays |-> 0, inString |-> FALSE,
          escaping |-> FALSE, key |-> "empty", group |-> NoGroup,
          ok |-> TRUE, told |-> FALSE, adds |-> << >>]

(* error_format, after part was set to BadInput.                           *)
BadFormat(s) == [s EXCEPT !.part = "BadInput", !.ok = FALSE, !.told = TRUE]

(* start_item: the key has to parse; the item of an empty label is ignored. *)
StartItem(s) ==
    IF s.key = "bad" THEN BadFormat(s)
    ELSE [s EXCEPT !.part = "InColon", !.key = "empty",
                   !.group = IF s.key = "text" THEN @ + 1 ELSE @]

EndGroup(s) ==
    [s EXCEPT !.adds = IF s.dicts = 0 /\ s.group # NoGroup /\ s.part # "BadInput"
                       THEN Append(@, s.group) ELSE @,
              !.group = NoGroup]

InHead(s, c) ==
    IF c = "{" THEN [s EXCEPT !.dicts = @ + 1, !.group = 0, !.part = "InKey"]
               ELSE BadFormat(s)

KeyChar(s, c) ==
    CASE s.escaping -> [s EXCEPT !.escaping = FALSE,
                            !.key = IF c \in {"quote", "backslash"} THEN @ ELSE "bad"]
      [] ~s.escaping /\ c = "quote" -> StartItem([s EXCEPT !.inString = FALSE])
      [] OTHER -> [s EXCEPT !.escaping = (c = "backslash"),
                            !.key = IF @ = "empty" THEN "text" ELSE @]

InKey(s, c) ==
    CASE s.inString -> KeyChar(s, c)
      [] ~s.inString /\ c = "space" -> s
      [] ~s.inString /\ c = "quote" -> [s EXCEPT !.inString = TRUE]
      [] OTHER -> BadFormat(s)

InColon(s, c) ==
    CASE c = "space" -> s
      [] c = "colon" -> [s EXCEPT !.part = "InValue"]
      [] OTHER -> BadFormat(s)

(* Mutant of ValueString: an escaped quote ends the string.                *)
EscapeForgotten(s, c) == [s EXCEPT !.inString = (c # "quote"), !.escaping = (c = "backslash")]

ValueString(s, c) ==
    IF s.escaping THEN [s EXCEPT !.escaping = FALSE]
    ELSE [s EXCEPT !.inString = (c # "quote"), !.escaping = (c = "backslash")]

(* Mutant of SeparatesItems: the comma of an array separates items.         *)
AnyComma(s) == s.dicts = 1

(* A comma separates items outside arrays and inner objects.               *)
SeparatesItems(s) == s.dicts = 1 /\ s.arrays = 0

(* The closing bracket of the object ends the group, whatever arrays are   *)
(* open.                                                                   *)
InValue(s, c) ==
    CASE s.inString -> ValueString(s, c)
      [] ~s.inString /\ c = "[" -> [s EXCEPT !.arrays = @ + 1]
      [] ~s.inString /\ c = "]" ->
            IF s.arrays = 0 THEN BadFormat([s EXCEPT !.arrays = -1])
                            ELSE [s EXCEPT !.arrays = @ - 1]
      [] ~s.inString /\ c = "{" -> [s EXCEPT !.dicts = @ + 1]
      [] ~s.inString /\ c = "}" ->
            IF s.dicts = 1
            THEN [EndGroup([s EXCEPT !.dicts = 0]) EXCEPT !.part = "InEnd"]
            ELSE [s EXCEPT !.dicts = @ - 1]
      [] ~s.inString /\ c = "quote" -> [s EXCEPT !.inString = TRUE]
      [] ~s.inString /\ c = "comma" /\ SeparatesItems(s) ->
            [s EXCEPT !.part = "InKey"]
      [] OTHER -> s

(* One character.  After the first that is refused Input returns.          *)
InputChar(s, c) ==
    CASE ~s.ok -> s
      [] s.ok /\ s.part = "InHead" -> InHead(s, c)
      [] s.ok /\ s.part = "InKey" -> InKey(s, c)
      [] s.ok /\ s.part = "InColon" -> InColon(s, c)
      [] s.ok /\ s.part = "InValue" -> InValue(s, c)
      [] s.ok /\ s.part \in {"InEnd", "BadInput"} -> [s EXCEPT !.ok = FALSE]

(* Input starts on a range: nothing of it was refused.                     *)
Input(s) == [s EXCEPT !.ok = TRUE, !.told = FALSE]

End(s) == [Fresh EXCEPT !.ok = s.ok, !.told = s.told, !.adds = EndGroup(s).adds]

Discard(s) == End(s)
=============================================================================
