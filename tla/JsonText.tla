------------------------------ MODULE JsonText ------------------------------
(***************************************************************************)
(* A reference for what a JSON text is, read one character at a time: what *)
(* nlohmann::json::parse accepts, and what the README calls proper JSON.   *)
(* White-space outside strings is ignored, as the README promises.  The    *)
(* characters are reduced to those the program tells apart.                *)
(***************************************************************************)
EXTENDS Integers, Sequences

Chars == {"{", "}", "[", "]", "quote", "backslash", "colon", "comma",
          "space", "zero", "digit"}

(* open: the open brackets, the innermost first.  expect: what may come.   *)
(* string: the kind of string being read.  members: the members with a     *)
(* name that is not empty of the outermost object.                         *)
Text(open, expect) == [open |-> open, expect |-> expect, string |-> "none",
                       escaped |-> FALSE, members |-> 0]
Wrong == Text(<< >>, "wrong")

(* An object to store has a member, an array may be empty.                 *)
Start(c) == Text(<<c>>, IF c = "{" THEN "key" ELSE "value or end")

Complete(j) == j.expect = "end"

AfterValue(j, open) ==
    [j EXCEPT !.open = open, !.expect = IF open = << >> THEN "end" ELSE "comma"]

InString(j, c) ==
    IF j.escaped
    THEN IF c \in {"quote", "backslash"} THEN [j EXCEPT !.escaped = FALSE] ELSE Wrong
    ELSE CASE c = "quote" /\ j.string = "value" ->
                  [AfterValue(j, j.open) EXCEPT !.string = "none"]
           [] c = "quote" /\ j.string # "value" ->
                  [j EXCEPT !.string = "none", !.expect = "colon",
                            !.members = IF j.string = "key" /\ Len(j.open) = 1
                                        THEN @ + 1 ELSE @]
           [] OTHER -> [j EXCEPT !.escaped = (c = "backslash"),
                                 !.string = IF @ = "empty key" THEN "key" ELSE @]

ValueStarts(j, c) ==
    CASE c = "quote" -> [j EXCEPT !.string = "value"]
      [] c = "digit" -> [j EXCEPT !.expect = "number"]
      [] c = "{" -> [j EXCEPT !.open = <<c>> \o @, !.expect = "key or end"]
      [] c = "[" -> [j EXCEPT !.open = <<c>> \o @, !.expect = "value or end"]
      [] OTHER -> Wrong

Closes(j, c) ==
    /\ j.open # << >>
    /\ \/ Head(j.open) = "{" /\ c = "}" /\ j.expect \in {"key or end", "comma", "number"}
       \/ Head(j.open) = "[" /\ c = "]" /\ j.expect \in {"value or end", "comma", "number"}

(* The text j, followed by the character c.                                *)
Read(j, c) ==
    IF j.string # "none" THEN InString(j, c)
    ELSE CASE c = "space" -> j
           [] Closes(j, c) -> AfterValue(j, Tail(j.open))
           [] j.expect \in {"key", "key or end"} /\ c = "quote" ->
                [j EXCEPT !.string = "empty key"]
           [] j.expect = "colon" /\ c = "colon" -> [j EXCEPT !.expect = "value"]
           [] j.expect \in {"comma", "number"} /\ c = "comma" ->
                [j EXCEPT !.expect = IF Head(j.open) = "{" THEN "key" ELSE "value"]
           [] j.expect = "number" /\ c = "digit" -> j
           [] j.expect \in {"value", "value or end"} /\ c \in {"quote", "digit", "{", "["} ->
                ValueStarts(j, c)
           [] OTHER -> Wrong
=============================================================================
