---------------------------- MODULE InputsProofs ----------------------------
(***************************************************************************)
(* That scanner, data sink and command buffer agree about the text, and    *)
(* that bytes without structure are reported once and in order, for texts  *)
(* of any depth and length, and blocks of any size: the theorems and their *)
(* proofs.                                                                 *)
(***************************************************************************)
EXTENDS Inputs, FiniteSetTheorems, SequenceTheorems, WellFoundedInduction, TLAPS

(***************************************************************************)
(* The records of the sink and of the reference.                           *)
(***************************************************************************)
Parts == {"InHead", "InKey", "InColon", "InValue", "InEnd", "BadInput"}

Keys == {"empty", "text", "bad"}

Sizes == Seq(Int)

Sinks == [part : Parts, dicts : Int, arrays : Int, inString : BOOLEAN, escaping : BOOLEAN,
          key : Keys, group : Int, ok : BOOLEAN, told : BOOLEAN, adds : Sizes]

Brackets == {"{", "["}

Expected == {"key", "key or end", "colon", "value", "value or end", "number", "comma"}

Opens == Seq(Brackets)

Expects == Expected \cup {"end", "wrong"}

Strings == {"none", "value", "empty key", "key"}

Texts == [open : Opens, expect : Expects, string : Strings, escaped : BOOLEAN, members : Nat]

Recipients == {"Discard", "Data", "Message", "Reset", "DiscardRetroactively"}

ScannerOK ==
    /\ previous \in Recipients /\ kind \in Recipients
    /\ begun \in BOOLEAN /\ inString \in BOOLEAN /\ escaping \in BOOLEAN
    /\ depth \in Int
    /\ message \subseteq {"this", "earlier"}
    /\ notice \in {"none", "error", "reset"}
    /\ ended \in {"none", "object", "message"}

TextsOK ==
    /\ sink \in Sinks /\ pending \in Sinks
    /\ item \in Texts /\ (item.expect = "wrong" => item.string = "none")
    /\ start \in [part : Parts, spaced : BOOLEAN]

(***************************************************************************)
(* The scanner.  Whose range it reads is decided by the first character of *)
(* the item, and stays so until its last.                                  *)
(***************************************************************************)
Ranges ==
    /\ ~Reading <=> kind = "DiscardRetroactively"
    /\ Reading => /\ depth >= 0
                  /\ depth > 0 <=> kind \in {"Data", "Message"}
                  /\ inString => depth > 0
                  /\ escaping => inString
    /\ previous \in {"Data", "Message"} => kind = previous

(* What the command handler has is of the message that is being read.      *)
Buffered == message # {} => previous = "Message"

(***************************************************************************)
(* The sink between two objects: as new, or refusing everything.  Past the *)
(* end of an object it has no group.                                       *)
(***************************************************************************)
Emptied(s) == s.part = "InEnd" => s.group = NoGroup

AtRest(s) ==
    /\ s.part \in {"InHead", "InEnd", "BadInput"} /\ Emptied(s)
    /\ s.part = "InHead" => /\ s.dicts = 0 /\ s.arrays = 0
                            /\ ~s.inString /\ ~s.escaping /\ s.key = "empty"

Resting == previous # "Data" => AtRest(sink)

(* Inside an object: what the sink counts is what the scanner counts.      *)
Counted(s) ==
    /\ s.escaping => s.inString
    /\ s.part \in {"InKey", "InColon"} => s.dicts = 1 /\ s.arrays = 0
    /\ s.part = "InColon" => ~s.inString
    /\ s.part = "InValue" => s.dicts >= 1 /\ s.arrays >= 0
    /\ s.part = "InEnd" => ~s.inString
    /\ Emptied(s)
    /\ s.part \notin {"InHead", "BadInput"}

Follows(s, d, string, escape) ==
    IF s.ok THEN /\ Counted(s)
                 /\ d = s.dicts + s.arrays
                 /\ (string <=> s.inString) /\ (escape <=> s.escaping)
            ELSE s.part \in {"InEnd", "BadInput"} /\ Emptied(s)

(* The sink with what it was given and is going to be given.               *)
Current == IF begun THEN pending ELSE Input(sink)

Following ==
    (Reading /\ kind = "Data") =>
        /\ ~begun => previous = "Data"
        /\ Follows(Current, depth, inString, escaping)

(***************************************************************************)
(* The reference and the sink inside a well-formed object.                 *)
(***************************************************************************)
Count(b, q) == Cardinality({i \in DOMAIN q : q[i] = b})

Outermost(j) == Len(j.open) = 1

KeyExpected == {"key", "key or end"}
ValueExpected == {"value", "value or end"}

WellFormed(j) ==
    /\ j.expect \in Expected
    /\ j.open # << >> /\ j.open[Len(j.open)] = "{"
    /\ j.string \in {"empty key", "key"} => j.expect \in KeyExpected
    /\ j.string = "value" => j.expect \in ValueExpected
    /\ j.expect \in KeyExpected \cup {"colon"} => Head(j.open) = "{"
    /\ j.expect = "value or end" => Head(j.open) = "["
    /\ Outermost(j) => j.expect # "key or end"
    /\ j.escaped => j.string # "none"

PartOf(j) ==
    IF ~Outermost(j) \/ j.string = "value" THEN "InValue"
    ELSE IF j.expect = "key" THEN "InKey"
    ELSE IF j.expect = "colon" THEN "InColon" ELSE "InValue"

KeyOf(j) == IF Outermost(j) /\ j.string = "key" THEN "text" ELSE "empty"

Matches(j, s) ==
    /\ s.ok /\ s.adds = << >>
    /\ s.dicts = Count("{", j.open) /\ s.arrays = Count("[", j.open)
    /\ s.group = j.members
    /\ (s.inString <=> j.string # "none") /\ (s.escaping <=> j.escaped)
    /\ s.part = PartOf(j) /\ s.key = KeyOf(j)

Matching ==
    (Reading /\ kind = "Data" /\ item.expect # "wrong" /\ Ready) =>
        WellFormed(item) /\ Matches(item, Current)

(* A sink that was not ready has refused the first character it was given. *)
Refusing ==
    (Reading /\ kind = "Data" /\ ~Ready) => begun /\ ~pending.ok /\ pending.adds = << >>

Agreement ==
    /\ ScannerOK /\ TextsOK /\ Ranges /\ Buffered /\ CommandsAreWhole
    /\ Resting /\ Following /\ Matching /\ Refusing /\ WellFormedIsStored

(***************************************************************************)
(* Raw inputs.                                                             *)
(***************************************************************************)
RawOK ==
    /\ format \in {"JSON", "bytes", "null"}
    /\ written \in Nat /\ pipe \in Seq(Nat) /\ writing \in BOOLEAN
    /\ closed \in BOOLEAN /\ buffer \in Seq(Nat) /\ got \in Nat
    /\ reader \in {"idle", "reading", "scanning"}
    /\ reports \in Seq(Seq(Nat))

Blocks ==
    /\ reader = "scanning" => buffer # << >>
    /\ reader = "reading" /\ got > 0 => buffer # << >>

Reported == format = "bytes" =>
        /\ FlattenSeq(reports) \o buffer \o pipe = [i \in 1 .. written |-> i]
        /\ \A i \in DOMAIN reports : reports[i] # << >>

(***************************************************************************)
(* What one character does to the sink.                                    *)
(***************************************************************************)
LEMMA BadFormatIs ==
    ASSUME NEW s \in Sinks
    PROVE  BadFormat(s) \in Sinks /\ ~BadFormat(s).ok /\ BadFormat(s).part = "BadInput"
  BY DEF BadFormat, Sinks, Parts

LEMMA EndGroupIs ==
    ASSUME NEW s \in Sinks
    PROVE  /\ EndGroup(s) \in Sinks
           /\ EndGroup(s).dicts = s.dicts /\ EndGroup(s).arrays = s.arrays
           /\ (EndGroup(s).inString <=> s.inString) /\ (EndGroup(s).escaping <=> s.escaping)
           /\ (EndGroup(s).ok <=> s.ok) /\ EndGroup(s).key = s.key
           /\ EndGroup(s).group = NoGroup
           /\ EndGroup(s).adds = IF s.dicts = 0 /\ s.group # NoGroup /\ s.part # "BadInput"
                                 THEN Append(s.adds, s.group) ELSE s.adds
  <1> DEFINE given == IF s.dicts = 0 /\ s.group # NoGroup /\ s.part # "BadInput"
                      THEN Append(s.adds, s.group) ELSE s.adds
  <1>1. s.adds \in Sizes /\ s.group \in Int
    BY DEF Sinks
  <1>2. given \in Sizes
    BY <1>1, AppendProperties DEF Sizes
  <1>3. NoGroup \in Int
    BY DEF NoGroup
  <1>4. EndGroup(s) = [s EXCEPT !.adds = given, !.group = NoGroup]
    BY DEF EndGroup
  <1> HIDE DEF given
  <1>5. QED
    <2>1. given = IF s.dicts = 0 /\ s.group # NoGroup /\ s.part # "BadInput"
                  THEN Append(s.adds, s.group) ELSE s.adds
      BY DEF given
    <2>2. EndGroup(s) \in Sinks
      BY <1>2, <1>3, <1>4 DEF Sinks
    <2>3. /\ EndGroup(s).dicts = s.dicts /\ EndGroup(s).arrays = s.arrays
          /\ (EndGroup(s).inString <=> s.inString) /\ (EndGroup(s).escaping <=> s.escaping)
          /\ (EndGroup(s).ok <=> s.ok) /\ EndGroup(s).key = s.key
          /\ EndGroup(s).group = NoGroup /\ EndGroup(s).adds = given
      BY <1>4 DEF Sinks
    <2>4. QED
      BY <2>1, <2>2, <2>3

LEMMA Names ==
    /\ "InHead" \in Parts /\ "InKey" \in Parts /\ "InColon" \in Parts
    /\ "InValue" \in Parts /\ "InEnd" \in Parts /\ "BadInput" \in Parts
    /\ "empty" \in Keys /\ "text" \in Keys /\ "bad" \in Keys
  BY DEF Parts, Keys

LEMMA StartItemIs ==
    ASSUME NEW s \in Sinks
    PROVE  StartItem(s) \in Sinks
  <1> DEFINE size == IF s.key = "text" THEN s.group + 1 ELSE s.group
  <1>1. size \in Int
    BY DEF Sinks
  <1>2. StartItem(s) = IF s.key = "bad" THEN BadFormat(s)
                       ELSE [s EXCEPT !.part = "InColon", !.key = "empty", !.group = size]
    BY DEF StartItem
  <1> HIDE DEF size
  <1>3. [s EXCEPT !.part = "InColon", !.key = "empty", !.group = size] \in Sinks
    BY <1>1, Names DEF Sinks
  <1>4. QED
    BY <1>2, <1>3, BadFormatIs

LEMMA KeyCharIs ==
    ASSUME NEW s \in Sinks, NEW c \in Chars
    PROVE  KeyChar(s, c) \in Sinks
  <1>1. \A k \in Keys, e \in BOOLEAN : [s EXCEPT !.escaping = e, !.key = k] \in Sinks
    BY DEF Sinks
  <1>2. [s EXCEPT !.inString = FALSE] \in Sinks
    BY DEF Sinks
  <1>3. StartItem([s EXCEPT !.inString = FALSE]) \in Sinks
    BY <1>2, StartItemIs
  <1>4. s.key \in Keys
    BY DEF Sinks
  <1>5. CASE s.escaping
    <2>1. PICK k \in Keys : k = IF c \in {"quote", "backslash"} THEN s.key ELSE "bad"
      BY <1>4, Names
    <2>2. KeyChar(s, c) = [s EXCEPT !.escaping = FALSE, !.key = k]
      BY <1>5, <2>1 DEF KeyChar
    <2>3. QED
      BY <1>1, <2>2
  <1>6. CASE ~s.escaping /\ c = "quote"
    BY <1>3, <1>6 DEF KeyChar
  <1>7. CASE ~s.escaping /\ c # "quote"
    <2>1. PICK k \in Keys : k = IF s.key = "empty" THEN "text" ELSE s.key
      BY <1>4, Names
    <2>2. PICK e \in BOOLEAN : e = (c = "backslash")
      OBVIOUS
    <2>3. KeyChar(s, c) = [s EXCEPT !.escaping = e, !.key = k]
      BY <1>7, <2>1, <2>2 DEF KeyChar
    <2>4. QED
      BY <1>1, <2>3
  <1>8. QED
    BY <1>5, <1>6, <1>7

LEMMA ValueCharIs ==
    ASSUME NEW s \in Sinks, NEW c \in Chars
    PROVE  InValue(s, c) \in Sinks
  <1>1. \A n \in Int : [s EXCEPT !.dicts = n] \in Sinks /\ [s EXCEPT !.arrays = n] \in Sinks
    BY DEF Sinks
  <1>2. /\ s.dicts + 1 \in Int /\ s.dicts - 1 \in Int /\ s.arrays + 1 \in Int
        /\ s.arrays - 1 \in Int /\ -1 \in Int /\ 0 \in Int
    BY DEF Sinks
  <1>3. \A b, e \in BOOLEAN : [s EXCEPT !.inString = b, !.escaping = e] \in Sinks
    BY DEF Sinks
  <1>4. [s EXCEPT !.escaping = FALSE] \in Sinks /\ [s EXCEPT !.inString = TRUE] \in Sinks
        /\ [s EXCEPT !.part = "InKey"] \in Sinks
    BY Names DEF Sinks
  <1>5. ValueString(s, c) \in Sinks
    BY <1>3, <1>4 DEF ValueString
  <1>6. [EndGroup([s EXCEPT !.dicts = 0]) EXCEPT !.part = "InEnd"] \in Sinks
    <2>1. PICK e : e = EndGroup([s EXCEPT !.dicts = 0])
      OBVIOUS
    <2>2. e \in Sinks
      BY <1>1, <1>2, <2>1, EndGroupIs
    <2>3. [e EXCEPT !.part = "InEnd"] \in Sinks
      BY <2>2, Names DEF Sinks
    <2>4. QED
      BY <2>1, <2>3
  <1>7. BadFormat([s EXCEPT !.arrays = -1]) \in Sinks
    BY <1>1, <1>2, BadFormatIs
  <1>8. /\ [s EXCEPT !.arrays = @ + 1] \in Sinks /\ [s EXCEPT !.arrays = @ - 1] \in Sinks
        /\ [s EXCEPT !.dicts = @ + 1] \in Sinks /\ [s EXCEPT !.dicts = @ - 1] \in Sinks
    BY <1>1, <1>2
  <1>9. QED
    BY <1>4, <1>5, <1>6, <1>7, <1>8 DEF InValue

LEMMA SinkTypes ==
    ASSUME NEW s \in Sinks, NEW c \in Chars
    PROVE  InputChar(s, c) \in Sinks
  <1>1. InHead(s, c) \in Sinks
    <2>1. [s EXCEPT !.dicts = @ + 1, !.group = 0, !.part = "InKey"] \in Sinks
      <3>1. PICK n \in Int : n = s.dicts + 1
        BY DEF Sinks
      <3>2. \A g \in Int : [s EXCEPT !.dicts = n, !.group = g, !.part = "InKey"] \in Sinks
        BY Names DEF Sinks
      <3>3. 0 \in Int
        OBVIOUS
      <3>4. [s EXCEPT !.dicts = n, !.group = 0, !.part = "InKey"] \in Sinks
        BY <3>2, <3>3, Zenon
      <3>5. QED
        BY <3>1, <3>4
    <2>2. QED
      BY <2>1, BadFormatIs DEF InHead
  <1>2. InKey(s, c) \in Sinks
    <2>1. [s EXCEPT !.inString = TRUE] \in Sinks
      BY DEF Sinks
    <2>2. QED
      BY <2>1, KeyCharIs, BadFormatIs DEF InKey
  <1>3. InColon(s, c) \in Sinks
    <2>1. [s EXCEPT !.part = "InValue"] \in Sinks
      BY Names DEF Sinks
    <2>2. QED
      BY <2>1, BadFormatIs DEF InColon
  <1>4. InValue(s, c) \in Sinks
    BY ValueCharIs
  <1>5. [s EXCEPT !.ok = FALSE] \in Sinks
    BY DEF Sinks
  <1>6. s.part \in {"InHead", "InKey", "InColon", "InValue", "InEnd", "BadInput"} /\ s.ok \in BOOLEAN
    BY DEF Sinks, Parts
  <1>7. QED
    BY <1>1, <1>2, <1>3, <1>4, <1>5, <1>6 DEF InputChar

(***************************************************************************)
(* The sink follows the scanner, character by character.                   *)
(***************************************************************************)
DepthAfter(d, string, c) ==
    IF string THEN d
    ELSE IF c \in {"{", "["} THEN d + 1
    ELSE IF c \in {"}", "]"} THEN d - 1 ELSE d

StringAfter(string, escape, c) == IF string THEN escape \/ c # "quote" ELSE c = "quote"

EscapeAfter(string, escape, c) == string /\ ~escape /\ c = "backslash"

LEMMA Refused ==
    ASSUME NEW s \in Sinks, NEW d, NEW string, NEW escape
    PROVE  Follows(BadFormat(s), d, string, escape)
  BY BadFormatIs DEF Follows, Emptied

LEMMA Followed ==
    ASSUME NEW s \in Sinks, NEW d, NEW string, NEW escape, s.ok, Counted(s),
           d = s.dicts + s.arrays, string <=> s.inString, escape <=> s.escaping
    PROVE  Follows(s, d, string, escape)
  BY DEF Follows

LEMMA CharFollows ==
    ASSUME NEW s \in Sinks, NEW d \in Int, NEW string \in BOOLEAN, NEW escape \in BOOLEAN,
           NEW c \in Chars \ {"zero"}, ~string => c # "space",
           Follows(s, d, string, escape)
    PROVE  Follows(InputChar(s, c), DepthAfter(d, string, c),
                   StringAfter(string, escape, c), EscapeAfter(string, escape, c))
  <1> DEFINE t == InputChar(s, c)
             D == DepthAfter(d, string, c)
             I == StringAfter(string, escape, c)
             E == EscapeAfter(string, escape, c)
  <1> SUFFICES Follows(t, D, I, E)
    OBVIOUS
  <1>1. CASE ~s.ok
    <2>1. t = s
      BY <1>1 DEF InputChar
    <2>2. QED
      BY <1>1, <2>1 DEF Follows
  <1>2. ASSUME s.ok
        PROVE  Counted(s) /\ d = s.dicts + s.arrays /\ (string <=> s.inString) /\ (escape <=> s.escaping)
    BY <1>2 DEF Follows
  <1>3. CASE s.ok /\ s.part = "InKey" /\ string
    <2>1. t = KeyChar(s, c) /\ D = d
      BY <1>3, <1>2 DEF InputChar, InKey, DepthAfter
    <2>2. s.dicts = 1 /\ s.arrays = 0
      BY <1>3, <1>2 DEF Counted
    <2>3. CASE escape
      <3>1. PICK k \in Keys : t = [s EXCEPT !.escaping = FALSE, !.key = k]
        <4>1. s.key \in Keys
          BY DEF Sinks
        <4>2. PICK k \in Keys : k = IF c \in {"quote", "backslash"} THEN s.key ELSE "bad"
          BY <4>1, Names
        <4>3. QED
          BY <1>3, <1>2, <2>1, <2>3, <4>2 DEF KeyChar
      <3>2. I /\ ~E
        BY <1>3, <2>3 DEF StringAfter, EscapeAfter
      <3> HIDE DEF t, D, I, E
      <3>3. t.ok /\ t.part = "InKey" /\ t.dicts = 1 /\ t.arrays = 0 /\ t.inString /\ ~t.escaping
        BY <1>3, <1>2, <2>2, <3>1 DEF Sinks
      <3>4. QED
        BY <1>3, <1>2, <2>1, <2>2, <3>2, <3>3 DEF Follows, Counted, Emptied
    <2>4. CASE ~escape /\ c = "quote"
      <3>1. PICK u : u = [s EXCEPT !.inString = FALSE]
        OBVIOUS
      <3>2. t = StartItem(u)
        BY <1>3, <1>2, <2>1, <2>4, <3>1 DEF KeyChar
      <3>3. /\ u \in Sinks /\ ~u.inString /\ ~u.escaping /\ u.ok /\ u.dicts = 1 /\ u.arrays = 0
        BY <1>3, <1>2, <2>2, <2>4, <3>1 DEF Sinks
      <3>4. ~I /\ ~E
        BY <1>3, <2>4 DEF StringAfter, EscapeAfter
      <3>5. CASE u.key = "bad"
        <4>1. t = BadFormat(u)
          BY <3>2, <3>5 DEF StartItem
        <4>2. QED
          BY <3>3, <4>1, Refused
      <3>6. CASE u.key # "bad"
        <4>1. PICK g \in Int : g = IF u.key = "text" THEN u.group + 1 ELSE u.group
          BY <3>3 DEF Sinks
        <4>2. t = [u EXCEPT !.part = "InColon", !.key = "empty", !.group = g]
          BY <3>2, <3>6, <4>1 DEF StartItem
        <4> HIDE DEF t, D, I, E
        <4>3. t.ok /\ t.part = "InColon" /\ t.dicts = 1 /\ t.arrays = 0 /\ ~t.inString /\ ~t.escaping
          BY <3>3, <4>2 DEF Sinks
        <4>4. QED
          BY <1>2, <1>3, <2>1, <2>2, <3>4, <4>3 DEF Follows, Counted, Emptied
      <3>7. QED
        BY <3>5, <3>6
    <2>5. CASE ~escape /\ c # "quote"
      <3>1. PICK k \in Keys : k = IF s.key = "empty" THEN "text" ELSE s.key
        BY Names DEF Sinks
      <3>2. t = [s EXCEPT !.escaping = (c = "backslash"), !.key = k]
        BY <1>3, <1>2, <2>1, <2>5, <3>1 DEF KeyChar
      <3>3. I /\ (E <=> c = "backslash")
        BY <1>3, <2>5 DEF StringAfter, EscapeAfter
      <3> HIDE DEF t, D, I, E
      <3>4. /\ t.ok /\ t.part = "InKey" /\ t.dicts = 1 /\ t.arrays = 0 /\ t.inString
            /\ t.escaping <=> c = "backslash"
        BY <1>3, <1>2, <2>2, <3>2 DEF Sinks
      <3>5. QED
        BY <1>3, <1>2, <2>1, <2>2, <3>3, <3>4 DEF Follows, Counted, Emptied
    <2>6. QED
      BY <2>3, <2>4, <2>5
  <1>4. CASE s.ok /\ s.part = "InKey" /\ ~string
    <2>1. t = InKey(s, c)
      BY <1>4 DEF InputChar
    <2>2. CASE c = "quote"
      <3>1. t = [s EXCEPT !.inString = TRUE]
        BY <1>4, <1>2, <2>1, <2>2 DEF InKey
      <3>2. D = d /\ I /\ ~E
        BY <1>4, <2>2 DEF DepthAfter, StringAfter, EscapeAfter
      <3> HIDE DEF t, D, I, E
      <3>3. /\ t.ok /\ t.part = "InKey" /\ t.dicts = s.dicts /\ t.arrays = s.arrays /\ t.inString
            /\ t.escaping <=> s.escaping
        BY <1>4, <3>1 DEF Sinks
      <3>4. QED
        BY <1>4, <1>2, <3>2, <3>3 DEF Follows, Counted, Emptied
    <2>3. CASE c # "quote"
      <3>1. t = BadFormat(s)
        BY <1>4, <1>2, <2>1, <2>3 DEF InKey
      <3>2. QED
        BY <3>1, Refused
    <2>4. QED
      BY <2>2, <2>3
  <1>5. CASE s.ok /\ s.part = "InColon"
    <2>1. t = InColon(s, c) /\ ~string
      BY <1>5, <1>2 DEF InputChar, Counted
    <2>2. CASE c = "colon"
      <3>1. t = [s EXCEPT !.part = "InValue"]
        BY <2>1, <2>2 DEF InColon
      <3>2. D = d /\ ~I /\ ~E
        BY <2>1, <2>2 DEF DepthAfter, StringAfter, EscapeAfter
      <3> HIDE DEF t, D, I, E
      <3>3. /\ t.ok /\ t.part = "InValue" /\ t.dicts = s.dicts /\ t.arrays = s.arrays
            /\ (t.inString <=> s.inString) /\ (t.escaping <=> s.escaping)
        BY <1>5, <3>1 DEF Sinks
      <3>4. QED
        BY <1>5, <1>2, <2>1, <3>2, <3>3 DEF Follows, Counted, Emptied
    <2>3. CASE c # "colon"
      <3>1. t = BadFormat(s)
        BY <2>1, <2>3 DEF InColon
      <3>2. QED
        BY <3>1, Refused
    <2>4. QED
      BY <2>2, <2>3
  <1>6. CASE s.ok /\ s.part = "InValue" /\ string
    <2>1. t = ValueString(s, c) /\ D = d
      BY <1>6, <1>2 DEF InputChar, InValue, DepthAfter
    <2>2. t = [s EXCEPT !.inString = I, !.escaping = E]
      <3>1. CASE escape
        <4>1. t = [s EXCEPT !.escaping = FALSE]
          BY <1>6, <1>2, <2>1, <3>1 DEF ValueString
        <4>2. I = TRUE /\ E = FALSE /\ s.inString = TRUE
          BY <1>6, <1>2, <3>1 DEF StringAfter, EscapeAfter, Sinks
        <4> HIDE DEF t, D, I, E
        <4>3. QED
          BY <4>1, <4>2 DEF Sinks
      <3>2. CASE ~escape
        <4>1. t = [s EXCEPT !.inString = (c # "quote"), !.escaping = (c = "backslash")]
          BY <1>6, <1>2, <2>1, <3>2 DEF ValueString
        <4>2. I = (c # "quote") /\ E = (c = "backslash")
          BY <1>6, <3>2 DEF StringAfter, EscapeAfter
        <4> HIDE DEF t, D, I, E
        <4>3. QED
          BY <4>1, <4>2
      <3>3. QED
        BY <3>1, <3>2
    <2>3. I \in BOOLEAN /\ E \in BOOLEAN /\ (E => I)
      BY <1>6 DEF StringAfter, EscapeAfter
    <2> HIDE DEF t, D, I, E
    <2>4. /\ t.ok /\ t.part = "InValue" /\ t.dicts = s.dicts /\ t.arrays = s.arrays
          /\ (t.inString <=> I) /\ (t.escaping <=> E)
      BY <1>6, <2>2, <2>3 DEF Sinks
    <2>5. QED
      BY <1>6, <1>2, <2>1, <2>3, <2>4 DEF Follows, Counted, Emptied
  <1>7. CASE s.ok /\ s.part = "InValue" /\ ~string
    <2>1. t = InValue(s, c) /\ s.dicts >= 1 /\ s.arrays >= 0 /\ ~s.escaping /\ ~s.inString
      BY <1>7, <1>2 DEF InputChar, Counted
    <2>2. /\ s.dicts \in Int /\ s.arrays \in Int
          /\ I <=> c = "quote"
          /\ ~E
      BY <1>7 DEF StringAfter, EscapeAfter, Sinks
    <2>3. PICK x \in Int, y \in Int : x = s.dicts /\ y = s.arrays
      BY <2>2
    <2>4. d = x + y /\ x >= 1 /\ y >= 0
      BY <1>7, <1>2, <2>1, <2>3
    <2>5. CASE c = "}" /\ s.dicts = 1
      <3>1. PICK u : u = [s EXCEPT !.dicts = 0]
        OBVIOUS
      <3>2. u \in Sinks /\ u.dicts = 0 /\ u.arrays = s.arrays /\ u.ok /\ ~u.inString /\ ~u.escaping
        BY <1>7, <2>1, <3>1 DEF Sinks
      <3>3. PICK e : e = EndGroup(u)
        OBVIOUS
      <3>4. /\ e \in Sinks /\ e.dicts = 0 /\ e.arrays = s.arrays /\ e.ok
            /\ e.group = NoGroup /\ ~e.inString /\ ~e.escaping
        BY <3>2, <3>3, EndGroupIs
      <3>5. t = [e EXCEPT !.part = "InEnd"]
        BY <2>1, <2>5, <3>1, <3>3 DEF InValue
      <3>6. D = d - 1
        BY <1>7, <2>5 DEF DepthAfter
      <3> HIDE DEF t, D, I, E
      <3>7. /\ t.ok /\ t.part = "InEnd" /\ t.group = NoGroup /\ t.dicts = 0 /\ t.arrays = s.arrays
            /\ ~t.inString /\ ~t.escaping
        BY <3>4, <3>5 DEF Sinks
      <3>8. x = 1
        BY <2>5, <2>3
      <3>9. D = y
        BY <2>4, <3>6, <3>8
      <3>10. D = t.dicts + t.arrays
        BY <2>3, <3>7, <3>9
      <3>11. QED
        BY <2>2, <2>5, <3>7, <3>10 DEF Follows, Counted, Emptied
    <2>6. ASSUME NEW n \in Int, n >= 1, t = [s EXCEPT !.dicts = n], D = n + s.arrays, c # "quote"
          PROVE  Follows(t, D, I, E)
      <3> HIDE DEF t, D, I, E
      <3>1. /\ t.ok /\ t.part = "InValue" /\ t.dicts = n /\ t.arrays = s.arrays
            /\ ~t.inString /\ ~t.escaping
        BY <1>7, <2>1, <2>6 DEF Sinks
      <3>2. QED
        BY <2>1, <2>2, <2>6, <3>1 DEF Follows, Counted, Emptied
    <2>7. ASSUME NEW n \in Int, n >= 0, t = [s EXCEPT !.arrays = n], D = s.dicts + n, c # "quote"
          PROVE  Follows(t, D, I, E)
      <3> HIDE DEF t, D, I, E
      <3>1. /\ t.ok /\ t.part = "InValue" /\ t.dicts = s.dicts /\ t.arrays = n
            /\ ~t.inString /\ ~t.escaping
        BY <1>7, <2>1, <2>7 DEF Sinks
      <3>2. QED
        BY <2>1, <2>2, <2>7, <3>1 DEF Follows, Counted, Emptied
    <2>8. CASE c = "{"
      <3>1. PICK n \in Int : n = x + 1 /\ n >= 1
        BY <2>4
      <3>2. t = [s EXCEPT !.dicts = n]
        BY <2>1, <2>8, <2>3, <3>1 DEF InValue
      <3>3. D = d + 1
        BY <1>7, <2>8 DEF DepthAfter
      <3>4. D = n + s.arrays
        BY <2>3, <2>4, <3>1, <3>3
      <3>5. QED
        BY <2>6, <2>8, <3>1, <3>2, <3>4
    <2>9. CASE c = "}" /\ s.dicts # 1
      <3>1. x # 1
        BY <2>9, <2>3
      <3>2. PICK n \in Int : n = x - 1 /\ n >= 1
        <4> HIDE DEF t, D, I, E
        <4>1. x - 1 \in Int /\ x - 1 >= 1
          BY <2>4, <3>1
        <4>2. QED
          BY <4>1
      <3>3. t = [s EXCEPT !.dicts = n]
        BY <2>1, <2>9, <2>3, <3>2 DEF InValue
      <3>4. D = d - 1
        BY <1>7, <2>9 DEF DepthAfter
      <3>5. D = n + s.arrays
        BY <2>3, <2>4, <3>2, <3>4
      <3>6. QED
        BY <2>6, <2>9, <3>2, <3>3, <3>5
    <2>10. CASE c = "["
      <3>1. PICK n \in Int : n = s.arrays + 1 /\ n >= 0
        BY <2>1, <2>2
      <3>2. t = [s EXCEPT !.arrays = n]
        BY <2>1, <2>10, <3>1 DEF InValue
      <3>3. D = s.dicts + n
        BY <1>7, <1>2, <2>2, <2>10, <3>1 DEF DepthAfter
      <3>4. QED
        BY <2>7, <2>10, <3>1, <3>2, <3>3
    <2>11. CASE c = "]" /\ s.arrays = 0
      <3>1. t = BadFormat([s EXCEPT !.arrays = -1])
        BY <2>1, <2>11 DEF InValue
      <3>2. [s EXCEPT !.arrays = -1] \in Sinks
        BY DEF Sinks
      <3>3. QED
        BY <3>1, <3>2, Refused
    <2>12. CASE c = "]" /\ s.arrays # 0
      <3>1. PICK n \in Int : n = s.arrays - 1 /\ n >= 0
        BY <2>1, <2>2, <2>12
      <3>2. t = [s EXCEPT !.arrays = n]
        BY <2>1, <2>12, <3>1 DEF InValue
      <3>3. D = s.dicts + n
        BY <1>7, <1>2, <2>2, <2>12, <3>1 DEF DepthAfter
      <3>4. QED
        BY <2>7, <2>12, <3>1, <3>2, <3>3
    <2>13. CASE c = "quote"
      <3>1. t = [s EXCEPT !.inString = TRUE] /\ D = d
        BY <1>7, <2>1, <2>13 DEF InValue, DepthAfter
      <3> HIDE DEF t, D, I, E
      <3>2. /\ t.ok /\ t.part = "InValue" /\ t.dicts = s.dicts /\ t.arrays = s.arrays
            /\ t.inString /\ ~t.escaping
        BY <1>7, <2>1, <3>1 DEF Sinks
      <3>3. QED
        BY <1>7, <1>2, <2>1, <2>2, <2>13, <3>1, <3>2 DEF Follows, Counted, Emptied
    <2>14. CASE c = "comma" /\ SeparatesItems(s)
      <3>1. t = [s EXCEPT !.part = "InKey"] /\ D = d
        BY <1>7, <2>1, <2>14 DEF InValue, DepthAfter
      <3>2. s.dicts = 1 /\ s.arrays = 0
        BY <2>14 DEF SeparatesItems
      <3> HIDE DEF t, D, I, E
      <3>3. /\ t.ok /\ t.part = "InKey" /\ t.dicts = 1 /\ t.arrays = 0
            /\ ~t.inString /\ ~t.escaping
        BY <1>7, <2>1, <3>1, <3>2 DEF Sinks
      <3>4. QED
        BY <1>7, <1>2, <2>1, <2>2, <2>14, <3>1, <3>2, <3>3 DEF Follows, Counted, Emptied
    <2>15. CASE c \notin {"{", "}", "[", "]", "quote"} /\ ~(c = "comma" /\ SeparatesItems(s))
      <3>1. t = s /\ D = d
        BY <1>7, <2>1, <2>15 DEF InValue, DepthAfter
      <3> HIDE DEF t, D, I, E
      <3>2. QED
        BY <1>7, <1>2, <2>1, <2>2, <2>15, <3>1, Followed
    <2>16. QED
      BY <2>5, <2>8, <2>9, <2>10, <2>11, <2>12, <2>13, <2>14, <2>15
  <1>8. CASE s.ok /\ s.part = "InEnd"
    <2>1. t = [s EXCEPT !.ok = FALSE]
      BY <1>8 DEF InputChar
    <2>2. QED
      BY <1>8, <1>2, <2>1 DEF Follows, Counted, Emptied, Sinks
  <1>9. s.ok => s.part \in {"InKey", "InColon", "InValue", "InEnd"}
    BY <1>2 DEF Counted, Sinks, Parts
  <1>10. QED
    BY <1>1, <1>3, <1>4, <1>5, <1>6, <1>7, <1>8, <1>9

(***************************************************************************)
(* Open brackets are counted: how many there are of a kind when one is put *)
(* in front or taken away.                                                 *)
(***************************************************************************)
Those(b, q) == {i \in DOMAIN q : q[i] = b}

LEMMA CountIs ==
    ASSUME NEW q \in Seq(Brackets), NEW b
    PROVE  /\ IsFiniteSet(Those(b, q)) /\ Count(b, q) = Cardinality(Those(b, q))
           /\ Count(b, q) \in Nat
           /\ \A i \in DOMAIN q : q[i] = b => Count(b, q) > 0
  <1>1. IsFiniteSet(1 .. Len(q)) /\ Those(b, q) \subseteq 1 .. Len(q)
    <2>1. PICK n \in Nat : n = Len(q) /\ DOMAIN q = 1 .. n
      BY LenProperties
    <2>2. 0 \in Int /\ 1 \in Int /\ n \in Int
      OBVIOUS
    <2>3. IsFiniteSet(1 .. n)
      BY <2>2, FS_Interval
    <2>4. QED
      BY <2>1, <2>3 DEF Those
  <1>2. IsFiniteSet(Those(b, q))
    BY <1>1, FS_Subset
  <1>3. Count(b, q) = Cardinality(Those(b, q)) /\ Count(b, q) \in Nat
    BY <1>2, FS_CardinalityType DEF Count, Those
  <1>4. ASSUME NEW i \in DOMAIN q, q[i] = b PROVE Count(b, q) > 0
    <2>1. Those(b, q) # {}
      BY <1>4 DEF Those
    <2>2. Cardinality(Those(b, q)) # 0
      BY <1>2, <2>1, FS_EmptySet
    <2>3. QED
      BY <1>3, <2>2
  <1>5. QED
    BY <1>2, <1>3, <1>4

LEMMA CountShifted ==
    ASSUME NEW p \in Seq(Brackets), NEW q \in Seq(Brackets), Len(p) = Len(q) + 1,
           \A i \in 1 .. Len(q) : p[i + 1] = q[i], NEW b
    PROVE  Count(b, p) = IF p[1] = b THEN Count(b, q) + 1 ELSE Count(b, q)
  <1>1. PICK n \in Nat : n = Len(q) /\ DOMAIN q = 1 .. n /\ DOMAIN p = 1 .. n + 1
    BY LenProperties
  <1> DEFINE S == Those(b, q)
             T == Those(b, p) \ {1}
             f == [i \in S |-> i + 1]
  <1>2. /\ \A i : i \in S <=> i \in 1 .. n /\ q[i] = b
        /\ \A i : i \in T <=> i \in 2 .. n + 1 /\ p[i] = b
    <2>1. \A i : i \in 2 .. n + 1 <=> i \in 1 .. n + 1 /\ i # 1
      BY <1>1
    <2>2. QED
      BY <1>1, <2>1 DEF Those
  <1>3. \A i \in S : i \in Nat /\ i + 1 \in T
    BY <1>1, <1>2
  <1>4. \A j \in T : j - 1 \in S /\ j \in Nat /\ (j - 1) + 1 = j
    <2>1. SUFFICES ASSUME NEW j \in T PROVE j - 1 \in S /\ j \in Nat /\ (j - 1) + 1 = j
      OBVIOUS
    <2>2. j \in 2 .. n + 1 /\ p[j] = b
      BY <1>2
    <2>3. j - 1 \in 1 .. n /\ j \in Nat /\ (j - 1) + 1 = j
      BY <2>2
    <2>4. p[(j - 1) + 1] = q[j - 1]
      BY <1>1, <2>3
    <2>5. q[j - 1] = b
      BY <2>2, <2>3, <2>4
    <2>6. QED
      BY <1>2, <2>3, <2>5
  <1> HIDE DEF S, T
  <1>5. f \in Bijection(S, T)
    <2>1. f \in [S -> T]
      BY <1>3
    <2>2. \A i, j \in S : f[i] = f[j] => i = j
      BY <1>3
    <2>3. \A j \in T : \E i \in S : f[i] = j
      BY <1>4
    <2> HIDE DEF f
    <2>4. QED
      BY <2>1, <2>2, <2>3, Zenon DEF Bijection, Injection, Surjection, IsInjective
  <1>6. IsFiniteSet(S) /\ Count(b, q) = Cardinality(S) /\ Count(b, q) \in Nat
    BY CountIs DEF S
  <1>7. IsFiniteSet(T) /\ Cardinality(T) = Cardinality(S)
    <2>1. ExistsBijection(S, T)
      BY <1>5 DEF ExistsBijection
    <2>2. QED
      BY <1>6, <2>1, FS_Bijection
  <1>8. IsFiniteSet(Those(b, p)) /\ Count(b, p) = Cardinality(Those(b, p)) /\ Count(b, p) \in Nat
    BY CountIs
  <1>9. 1 \in Those(b, p) <=> p[1] = b
    BY <1>1 DEF Those
  <1>10. Cardinality(T) = IF p[1] = b THEN Count(b, p) - 1 ELSE Count(b, p)
    BY <1>8, <1>9, FS_RemoveElement DEF T
  <1>11. QED
    BY <1>6, <1>7, <1>8, <1>10

(* p is q with the bracket c in front.                                     *)
Pushed(c, q, p) ==
    /\ p \in Seq(Brackets) /\ p # << >> /\ Head(p) = c /\ Tail(p) = q
    /\ Len(p) \in Nat /\ Len(q) \in Nat /\ Len(p) = Len(q) + 1
    /\ (q = << >>) <=> Len(p) = 1
    /\ p[Len(p)] = IF q = << >> THEN c ELSE q[Len(q)]
    /\ \A b : /\ Count(b, q) \in Nat
              /\ Count(b, p) = IF c = b THEN Count(b, q) + 1 ELSE Count(b, q)

LEMMA PushedCounts ==
    ASSUME NEW c \in Brackets, NEW q \in Seq(Brackets), NEW p \in Seq(Brackets),
           p # << >>, Head(p) = c, Tail(p) = q
    PROVE  Pushed(c, q, p)
  <1>1. /\ Len(p) \in Nat /\ Len(q) \in Nat /\ Len(p) = Len(q) + 1
        /\ \A i \in 1 .. Len(q) : q[i] = p[i + 1]
        /\ p[1] = c
    BY HeadTailProperties, LenProperties, EmptySeq
  <1>2. q = << >> <=> Len(q) = 0
    BY EmptySeq
  <1>3. p[Len(p)] = IF q = << >> THEN c ELSE q[Len(q)]
    <2>1. CASE q = << >>
      BY <1>1, <1>2, <2>1
    <2>2. CASE q # << >>
      <3>1. Len(q) \in 1 .. Len(q)
        BY <1>1, <1>2, <2>2
      <3>2. QED
        BY <1>1, <2>2, <3>1
    <2>3. QED
      BY <2>1, <2>2
  <1>4. \A b : /\ Count(b, q) \in Nat
               /\ Count(b, p) = IF c = b THEN Count(b, q) + 1 ELSE Count(b, q)
    BY <1>1, CountIs, CountShifted
  <1>5. QED
    BY <1>1, <1>2, <1>3, <1>4 DEF Pushed

LEMMA PushedIs ==
    ASSUME NEW c \in Brackets, NEW q \in Seq(Brackets)
    PROVE  Pushed(c, q, <<c>> \o q)
  <1>1. <<c>> \in Seq(Brackets) /\ Len(<<c>>) = 1 /\ <<c>>[1] = c
    OBVIOUS
  <1>2. PICK p : p = <<c>> \o q
    OBVIOUS
  <1>3. /\ p \in Seq(Brackets) /\ Len(p) = 1 + Len(q) /\ Len(q) \in Nat
        /\ \A i \in 1 .. 1 + Len(q) : p[i] = IF i <= 1 THEN c ELSE q[i - 1]
    BY <1>1, <1>2, ConcatProperties, LenProperties
  <1>4. p # << >> /\ Head(p) = c
    BY <1>3
  <1>5. Tail(p) \in Seq(Brackets) /\ Len(Tail(p)) = Len(q)
        /\ \A i \in 1 .. Len(q) : Tail(p)[i] = p[i + 1]
    BY <1>3, <1>4, HeadTailProperties
  <1>6. \A i \in 1 .. Len(q) : Tail(p)[i] = q[i]
    BY <1>3, <1>5
  <1>7. Tail(p) = q
    BY <1>5, <1>6, SeqEqual
  <1>8. QED
    BY <1>2, <1>3, <1>4, <1>7, PushedCounts

LEMMA PoppedIs ==
    ASSUME NEW p \in Seq(Brackets), p # << >>
    PROVE  Head(p) \in Brackets /\ Tail(p) \in Seq(Brackets) /\ Pushed(Head(p), Tail(p), p)
  BY HeadTailProperties, PushedCounts

(***************************************************************************)
(* The sink and the reference, character by character.                     *)
(***************************************************************************)
LEMMA TextNames ==
    /\ "key" \in Expects /\ "key or end" \in Expects /\ "colon" \in Expects /\ "value" \in Expects
    /\ "value or end" \in Expects /\ "number" \in Expects /\ "comma" \in Expects
    /\ "end" \in Expects /\ "wrong" \in Expects
    /\ "none" \in Strings /\ "value" \in Strings /\ "empty key" \in Strings /\ "key" \in Strings
  BY DEF Expects, Expected, Strings

LEMMA WrongIs == Wrong \in Texts /\ Wrong.expect = "wrong"
  <1>1. << >> \in Opens
    BY EmptySeq DEF Opens
  <1>2. QED
    BY <1>1, TextNames DEF Wrong, Text, Texts

LEMMA StartIs ==
    ASSUME NEW c \in Brackets
    PROVE  Start(c) \in Texts
  <1>1. <<c>> \in Opens
    BY DEF Opens
  <1>2. QED
    BY <1>1, TextNames DEF Start, Text, Texts

LEMMA AfterValueIs ==
    ASSUME NEW j \in Texts, NEW q \in Opens
    PROVE  /\ AfterValue(j, q) \in Texts
           /\ AfterValue(j, q).open = q
           /\ AfterValue(j, q).expect = IF q = << >> THEN "end" ELSE "comma"
           /\ AfterValue(j, q).string = j.string /\ (AfterValue(j, q).escaped <=> j.escaped)
           /\ AfterValue(j, q).members = j.members
  <1>1. PICK e \in Expects : e = IF q = << >> THEN "end" ELSE "comma"
    BY TextNames
  <1>2. AfterValue(j, q) = [j EXCEPT !.open = q, !.expect = e]
    BY <1>1 DEF AfterValue
  <1>3. QED
    BY <1>1, <1>2 DEF Texts

LEMMA InStringIs ==
    ASSUME NEW j \in Texts, NEW c \in Chars
    PROVE  InString(j, c) \in Texts
  <1>1. CASE j.escaped
    <2>1. [j EXCEPT !.escaped = FALSE] \in Texts
      BY DEF Texts
    <2>2. QED
      BY <1>1, <2>1, WrongIs DEF InString
  <1>2. CASE ~j.escaped /\ c = "quote" /\ j.string = "value"
    <2>1. PICK a : a = AfterValue(j, j.open)
      OBVIOUS
    <2>2. a \in Texts
      BY <2>1, AfterValueIs DEF Texts
    <2>3. [a EXCEPT !.string = "none"] \in Texts
      BY <2>2, TextNames DEF Texts
    <2>4. InString(j, c) = [a EXCEPT !.string = "none"]
      BY <1>2, <2>1 DEF InString
    <2>5. QED
      BY <2>3, <2>4
  <1>3. CASE ~j.escaped /\ c = "quote" /\ j.string # "value"
    <2>1. PICK m \in Nat : m = IF j.string = "key" /\ Len(j.open) = 1 THEN j.members + 1
                               ELSE j.members
      BY DEF Texts
    <2>2. InString(j, c) = [j EXCEPT !.string = "none", !.expect = "colon", !.members = m]
      BY <1>3, <2>1 DEF InString
    <2>3. QED
      BY <2>2, TextNames DEF Texts
  <1>4. CASE ~j.escaped /\ c # "quote"
    <2>1. PICK k \in Strings : k = IF j.string = "empty key" THEN "key" ELSE j.string
      BY TextNames DEF Texts
    <2>2. PICK e \in BOOLEAN : e = (c = "backslash")
      OBVIOUS
    <2>3. InString(j, c) = [j EXCEPT !.escaped = e, !.string = k]
      BY <1>4, <2>1, <2>2 DEF InString
    <2>4. QED
      BY <2>3 DEF Texts
  <1>5. QED
    BY <1>1, <1>2, <1>3, <1>4

LEMMA ValueStartsIs ==
    ASSUME NEW j \in Texts, NEW c \in Chars
    PROVE  ValueStarts(j, c) \in Texts
  <1>1. ASSUME NEW b \in Brackets PROVE <<b>> \o j.open \in Opens
    BY PushedIs DEF Texts, Opens, Pushed
  <1>2. "{" \in Brackets /\ "[" \in Brackets
    BY DEF Brackets
  <1>3. [j EXCEPT !.string = "value"] \in Texts /\ [j EXCEPT !.expect = "number"] \in Texts
    BY TextNames DEF Texts
  <1>4. ASSUME NEW q \in Opens, NEW e \in Expects
        PROVE  [j EXCEPT !.open = q, !.expect = e] \in Texts
    BY DEF Texts
  <1>5. CASE c \in Brackets
    <2>1. PICK q \in Opens : q = <<c>> \o j.open
      BY <1>1, <1>5
    <2>2. \/ ValueStarts(j, c) = [j EXCEPT !.open = q, !.expect = "key or end"]
          \/ ValueStarts(j, c) = [j EXCEPT !.open = q, !.expect = "value or end"]
      BY <1>5, <2>1 DEF ValueStarts, Brackets
    <2>3. QED
      BY <1>4, <2>2, TextNames
  <1>6. CASE c \notin Brackets
    BY <1>3, <1>6, WrongIs DEF ValueStarts, Brackets
  <1>7. QED
    BY <1>5, <1>6

LEMMA TextTypes ==
    ASSUME NEW j \in Texts, NEW c \in Chars
    PROVE  Read(j, c) \in Texts
  <1>1. ASSUME Closes(j, c) PROVE AfterValue(j, Tail(j.open)) \in Texts
    <2>1. Tail(j.open) \in Opens
      BY <1>1, PoppedIs DEF Closes, Texts, Opens
    <2>2. QED
      BY <2>1, AfterValueIs
  <1>2. [j EXCEPT !.string = "empty key"] \in Texts /\ [j EXCEPT !.expect = "value"] \in Texts
    BY TextNames DEF Texts
  <1>3. [j EXCEPT !.expect = IF Head(j.open) = "{" THEN "key" ELSE "value"] \in Texts
    <2>1. PICK e \in Expects : e = IF Head(j.open) = "{" THEN "key" ELSE "value"
      BY TextNames
    <2>2. [j EXCEPT !.expect = e] \in Texts
      BY DEF Texts
    <2>3. QED
      BY <2>1, <2>2
  <1>4. InString(j, c) \in Texts /\ ValueStarts(j, c) \in Texts /\ Wrong \in Texts
    BY InStringIs, ValueStartsIs, WrongIs
  <1>5. QED
    BY <1>1, <1>2, <1>3, <1>4 DEF Read

(* The object is over, and its group was given to the Storage.             *)
Stored(j, s) == /\ j.expect = "end" /\ s.ok /\ s.group = NoGroup
                /\ s.dicts = 0 /\ s.arrays = 0 /\ s.adds = <<j.members>>

Corresponds(j, s) == WellFormed(j) /\ Matches(j, s)

(* While the brackets stay as they are a few fields decide.                *)
LEMMA SameBrackets ==
    ASSUME NEW j \in Texts, NEW s \in Sinks, Corresponds(j, s),
           NEW k \in Texts, NEW t \in Sinks,
           k.open = j.open, t.dicts = s.dicts, t.arrays = s.arrays, t.ok, t.adds = s.adds,
           k.expect \in Expected,
           k.string \in {"empty key", "key"} => k.expect \in KeyExpected,
           k.string = "value" => k.expect \in ValueExpected,
           k.expect \in KeyExpected \cup {"colon"} => Head(j.open) = "{",
           k.expect = "value or end" => Head(j.open) = "[",
           Outermost(j) => k.expect # "key or end",
           k.escaped => k.string # "none",
           t.group = k.members, t.inString <=> k.string # "none", t.escaping <=> k.escaped,
           t.part = PartOf(k), t.key = KeyOf(k)
    PROVE  Corresponds(k, t)
  BY DEF Corresponds, WellFormed, Matches, Outermost

LEMMA TextFields ==
    ASSUME NEW j \in Texts
    PROVE  /\ j.open \in Opens /\ j.expect \in Expects /\ j.string \in Strings
           /\ j.escaped \in BOOLEAN /\ j.members \in Nat /\ j.members + 1 \in Nat
  <1>1. PICK m \in Nat : m = j.members
    BY DEF Texts
  <1>2. m + 1 \in Nat
    OBVIOUS
  <1>3. QED
    BY <1>1, <1>2 DEF Texts

(* Characters of strings.                                                  *)
LEMMA KeysMatch ==
    ASSUME NEW j \in Texts, NEW s \in Sinks, Corresponds(j, s), NEW c \in Chars,
           Outermost(j), j.string \in {"empty key", "key"}
    PROVE  LET k == Read(j, c)
               t == InputChar(s, c)
           IN  k.expect = "wrong" \/ Corresponds(k, t)
  <1> DEFINE k == Read(j, c)
             t == InputChar(s, c)
  <1> SUFFICES k.expect = "wrong" \/ Corresponds(k, t)
    OBVIOUS
  <1>1. /\ s.ok /\ s.inString /\ s.part = "InKey" /\ s.group = j.members
        /\ (s.escaping <=> j.escaped) /\ j.expect = "key" /\ s.key = KeyOf(j)
        /\ Head(j.open) = "{"
    BY DEF Corresponds, WellFormed, Matches, PartOf, Outermost, KeyExpected
  <1>2. k = InString(j, c) /\ t = KeyChar(s, c) /\ k \in Texts /\ t \in Sinks
    BY <1>1, TextTypes, SinkTypes DEF Read, InputChar, InKey
  <1>3. CASE j.escaped /\ c \notin {"quote", "backslash"}
    BY <1>2, <1>3, WrongIs DEF InString
  <1>4. CASE j.escaped /\ c \in {"quote", "backslash"}
    <2>1. k = [j EXCEPT !.escaped = FALSE] /\ t = [s EXCEPT !.escaping = FALSE]
      BY <1>1, <1>2, <1>4 DEF InString, KeyChar, Sinks
    <2> HIDE DEF k, t
    <2>2. /\ k.open = j.open /\ k.expect = j.expect /\ k.string = j.string /\ ~k.escaped
          /\ k.members = j.members
      BY <1>4, <2>1 DEF Texts
    <2>3. /\ t.ok /\ t.inString /\ ~t.escaping /\ t.part = "InKey" /\ t.group = s.group
          /\ t.key = s.key /\ t.dicts = s.dicts /\ t.arrays = s.arrays /\ t.adds = s.adds
      BY <1>1, <2>1 DEF Sinks
    <2>4. t.part = PartOf(k) /\ t.key = KeyOf(k)
      BY <1>1, <2>2, <2>3 DEF PartOf, KeyOf, Outermost
    <2>5. QED
      BY <1>1, <1>2, <2>2, <2>3, <2>4, SameBrackets DEF Expected, KeyExpected, ValueExpected
  <1>5. CASE ~j.escaped /\ c = "quote"
    <2>1. j.members \in Nat /\ j.members + 1 \in Nat
      BY TextFields
    <2>2. PICK m \in Nat : m = IF j.string = "key" THEN j.members + 1 ELSE j.members
      BY <2>1
    <2>3. k = [j EXCEPT !.string = "none", !.expect = "colon", !.members = m]
      BY <1>2, <1>5, <2>2 DEF InString, Outermost
    <2>4. PICK u : u = [s EXCEPT !.inString = FALSE]
      OBVIOUS
    <2>5. t = StartItem(u)
      BY <1>1, <1>2, <1>5, <2>4 DEF KeyChar
    <2>6. /\ u \in Sinks /\ ~u.inString /\ ~u.escaping /\ u.ok /\ u.dicts = s.dicts
          /\ u.arrays = s.arrays /\ u.key = s.key /\ u.group = s.group /\ u.adds = s.adds
      BY <1>1, <1>5, <2>4 DEF Sinks
    <2>7. /\ u.key = IF j.string = "key" THEN "text" ELSE "empty"
          /\ m = IF u.key = "text" THEN u.group + 1 ELSE u.group
      BY <1>1, <2>2, <2>6 DEF KeyOf
    <2>8. t = [u EXCEPT !.part = "InColon", !.key = "empty", !.group = m]
      BY <2>5, <2>7 DEF StartItem
    <2> HIDE DEF k, t
    <2>9. /\ k.open = j.open /\ k.expect = "colon" /\ k.string = "none" /\ ~k.escaped
          /\ k.members = m
      BY <1>5, <2>3, TextNames DEF Texts
    <2>10. /\ t.ok /\ ~t.inString /\ ~t.escaping /\ t.part = "InColon" /\ t.group = m
          /\ t.key = "empty" /\ t.dicts = s.dicts /\ t.arrays = s.arrays /\ t.adds = s.adds
      BY <2>6, <2>8 DEF Sinks
    <2>11. t.part = PartOf(k) /\ t.key = KeyOf(k)
      BY <2>9, <2>10 DEF PartOf, KeyOf, Outermost
    <2>12. QED
      BY <1>1, <1>2, <2>9, <2>10, <2>11, SameBrackets DEF Expected, KeyExpected, ValueExpected
  <1>6. CASE ~j.escaped /\ c # "quote"
    <2>1. PICK e \in BOOLEAN : e = (c = "backslash")
      OBVIOUS
    <2>2. k = [j EXCEPT !.escaped = e, !.string = "key"]
      BY <1>2, <1>6, <2>1 DEF InString
    <2>3. t = [s EXCEPT !.escaping = e, !.key = "text"]
      BY <1>1, <1>2, <1>6, <2>1 DEF KeyChar, KeyOf
    <2> HIDE DEF k, t
    <2>4. /\ k.open = j.open /\ k.expect = j.expect /\ k.string = "key" /\ (k.escaped <=> e)
          /\ k.members = j.members
      BY <2>2, TextNames DEF Texts
    <2>5. /\ t.ok /\ t.inString /\ (t.escaping <=> e) /\ t.part = "InKey" /\ t.group = s.group
          /\ t.key = "text" /\ t.dicts = s.dicts /\ t.arrays = s.arrays /\ t.adds = s.adds
      BY <1>1, <2>3 DEF Sinks
    <2>6. t.part = PartOf(k) /\ t.key = KeyOf(k)
      BY <1>1, <2>4, <2>5 DEF PartOf, KeyOf, Outermost
    <2>7. QED
      BY <1>1, <1>2, <2>4, <2>5, <2>6, SameBrackets, ZenonT(60) DEF Expected, KeyExpected, ValueExpected
  <1>7. QED
    BY <1>3, <1>4, <1>5, <1>6

LEMMA StringsMatch ==
    ASSUME NEW j \in Texts, NEW s \in Sinks, Corresponds(j, s), NEW c \in Chars,
           j.string = "value" \/ (j.string # "none" /\ ~Outermost(j))
    PROVE  LET k == Read(j, c)
               t == InputChar(s, c)
           IN  k.expect = "wrong" \/ Corresponds(k, t)
  <1> DEFINE k == Read(j, c)
             t == InputChar(s, c)
  <1> SUFFICES k.expect = "wrong" \/ Corresponds(k, t)
    OBVIOUS
  <1>1. /\ s.ok /\ s.inString /\ s.part = "InValue" /\ s.group = j.members
        /\ (s.escaping <=> j.escaped) /\ s.key = "empty"
        /\ j.string # "none" /\ j.open # << >>
        /\ Outermost(j) => j.string = "value"
        /\ j.string = "value" => j.expect \in ValueExpected
        /\ j.string # "value" => j.expect \in KeyExpected /\ Head(j.open) = "{"
        /\ j.expect = "value or end" => Head(j.open) = "["
        /\ j.expect \in Expected
    BY TextFields DEF Corresponds, WellFormed, Matches, PartOf, KeyOf, Strings
  <1>2. k = InString(j, c) /\ t = ValueString(s, c) /\ k \in Texts /\ t \in Sinks
    BY <1>1, TextTypes, SinkTypes DEF Read, InputChar, InValue
  <1>3. CASE j.escaped /\ c \notin {"quote", "backslash"}
    BY <1>2, <1>3, WrongIs DEF InString
  <1>4. CASE ~j.escaped /\ c = "quote"
    <2>1. t = [s EXCEPT !.inString = FALSE, !.escaping = FALSE]
      BY <1>1, <1>2, <1>4 DEF ValueString
    <2>2. /\ t.ok /\ ~t.inString /\ ~t.escaping /\ t.part = "InValue" /\ t.group = s.group
          /\ t.key = "empty" /\ t.dicts = s.dicts /\ t.arrays = s.arrays /\ t.adds = s.adds
      BY <1>1, <2>1 DEF Sinks
    <2>3. PICK x \in {"comma", "colon"} : x = IF j.string = "value" THEN "comma" ELSE "colon"
      OBVIOUS
    <2>4. /\ k.open = j.open /\ k.expect = x /\ k.string = "none" /\ ~k.escaped
          /\ k.members = j.members
      <3>1. CASE j.string = "value"
        <4>1. PICK a, q : a = AfterValue(j, q) /\ q = j.open
          OBVIOUS
        <4>2. q \in Opens /\ q # << >>
          BY <1>1, <4>1, TextFields
        <4>3. /\ AfterValue(j, q) \in Texts /\ AfterValue(j, q).open = q
              /\ AfterValue(j, q).expect = IF q = << >> THEN "end" ELSE "comma"
              /\ (AfterValue(j, q).escaped <=> j.escaped)
              /\ AfterValue(j, q).members = j.members
          BY <4>2, AfterValueIs
        <4>4. /\ a \in Texts /\ a.open = j.open /\ a.expect = "comma" /\ a.members = j.members
              /\ ~a.escaped
          BY <1>4, <4>1, <4>2, <4>3
        <4>5. k = [a EXCEPT !.string = "none"]
          BY <1>2, <1>4, <3>1, <4>1 DEF InString
        <4> HIDE DEF k, t
        <4>6. QED
          BY <2>3, <3>1, <4>4, <4>5, TextNames DEF Texts
      <3>2. CASE j.string # "value"
        <4>1. k = [j EXCEPT !.string = "none", !.expect = "colon", !.members = j.members]
          BY <1>1, <1>2, <1>4, <3>2 DEF InString, Outermost
        <4> HIDE DEF k, t
        <4>2. QED
          BY <1>4, <2>3, <3>2, <4>1, TextNames DEF Texts
      <3>3. QED
        BY <3>1, <3>2
    <2> HIDE DEF k, t
    <2>5. t.part = PartOf(k) /\ t.key = KeyOf(k)
      BY <1>1, <2>2, <2>3, <2>4 DEF PartOf, KeyOf, Outermost
    <2>6. x = "colon" => Head(j.open) = "{"
      BY <1>1, <2>3
    <2>7. QED
      BY <1>1, <1>2, <2>2, <2>3, <2>4, <2>5, <2>6, SameBrackets, ZenonT(60) DEF Expected, KeyExpected, ValueExpected
  <1>5. ASSUME NEW e \in BOOLEAN, NEW g \in Strings, g # "none", g = "value" <=> j.string = "value",
               k = [j EXCEPT !.escaped = e, !.string = g], t = [s EXCEPT !.escaping = e]
        PROVE  Corresponds(k, t)
    <2> HIDE DEF k, t
    <2>1. /\ k.open = j.open /\ k.expect = j.expect /\ k.string = g /\ (k.escaped <=> e)
          /\ k.members = j.members
      BY <1>5 DEF Texts
    <2>2. /\ t.ok /\ t.inString /\ (t.escaping <=> e) /\ t.part = "InValue" /\ t.group = s.group
          /\ t.key = "empty" /\ t.dicts = s.dicts /\ t.arrays = s.arrays /\ t.adds = s.adds
      BY <1>1, <1>5 DEF Sinks
    <2>3. t.part = PartOf(k) /\ t.key = KeyOf(k)
      BY <1>1, <1>5, <2>1, <2>2 DEF PartOf, KeyOf, Outermost
    <2>4. /\ k.string \in {"empty key", "key"} => k.expect \in KeyExpected
          /\ k.string = "value" => k.expect \in ValueExpected
          /\ k.expect \in KeyExpected \cup {"colon"} => Head(j.open) = "{"
          /\ k.expect = "value or end" => Head(j.open) = "["
          /\ Outermost(j) => k.expect # "key or end"
          /\ k.expect \in Expected /\ t.group = k.members
      BY <1>1, <1>5, <2>1, <2>2 DEF Corresponds, WellFormed
    <2>5. /\ k.escaped => k.string # "none"
          /\ (t.inString <=> k.string # "none") /\ (t.escaping <=> k.escaped)
      BY <1>5, <2>1, <2>2
    <2>6. /\ k \in Texts /\ t \in Sinks /\ k.open = j.open /\ t.dicts = s.dicts
          /\ t.arrays = s.arrays /\ t.ok /\ t.adds = s.adds
      BY <1>2, <2>1, <2>2
    <2>7. QED
      BY <2>3, <2>4, <2>5, <2>6, SameBrackets, Zenon
  <1>6. CASE j.escaped /\ c \in {"quote", "backslash"}
    <2>1. k = [j EXCEPT !.escaped = FALSE] /\ t = [s EXCEPT !.escaping = FALSE]
      BY <1>1, <1>2, <1>6 DEF InString, ValueString
    <2>2. [j EXCEPT !.escaped = FALSE] = [j EXCEPT !.escaped = FALSE, !.string = j.string]
      BY DEF Texts
    <2>3. j.string \in Strings
      BY TextFields
    <2> HIDE DEF k, t
    <2>4. QED
      BY <1>1, <1>5, <2>1, <2>2, <2>3
  <1>7. CASE ~j.escaped /\ c # "quote"
    <2>1. PICK e \in BOOLEAN : e = (c = "backslash")
      OBVIOUS
    <2>2. PICK g \in Strings : g = IF j.string = "empty key" THEN "key" ELSE j.string
      BY TextFields, TextNames
    <2>3. k = [j EXCEPT !.escaped = e, !.string = g]
      BY <1>2, <1>7, <2>1, <2>2 DEF InString
    <2>4. t = [s EXCEPT !.inString = TRUE, !.escaping = e]
      BY <1>1, <1>2, <1>7, <2>1 DEF ValueString
    <2>5. [s EXCEPT !.inString = TRUE, !.escaping = e] = [s EXCEPT !.escaping = e]
      BY <1>1 DEF Sinks
    <2> HIDE DEF k, t
    <2>6. g # "none" /\ (g = "value" <=> j.string = "value")
      BY <1>1, <2>2
    <2>7. QED
      BY <1>5, <2>3, <2>4, <2>5, <2>6
  <1>8. QED
    BY <1>3, <1>4, <1>6, <1>7

(* The bracket in front, and the brackets behind it.                       *)
LEMMA BracketsAre ==
    ASSUME NEW j \in Texts, WellFormed(j), NEW q, q = Tail(j.open)
    PROVE  /\ q \in Opens /\ Pushed(Head(j.open), q, j.open)
           /\ Head(j.open) \in {"{", "["}
           /\ \A b : Count(b, q) \in Nat /\ Count(b, j.open) \in Nat
           /\ Outermost(j) <=> q = << >>
           /\ q = << >> => /\ Head(j.open) = "{"
                           /\ Count("{", q) = 0 /\ Count("[", q) = 0
           /\ q # << >> => q[Len(q)] = "{" /\ Count("{", q) >= 1
  <1>1. /\ j.open \in Seq(Brackets) /\ j.open # << >> /\ j.open[Len(j.open)] = "{"
    BY DEF WellFormed, Texts, Opens
  <1>2. /\ q \in Seq(Brackets) /\ Head(j.open) \in Brackets /\ Pushed(Head(j.open), q, j.open)
    BY <1>1, PoppedIs
  <1>3. /\ q = << >> <=> Len(j.open) = 1
        /\ j.open[Len(j.open)] = IF q = << >> THEN Head(j.open) ELSE q[Len(q)]
    BY <1>2 DEF Pushed
  <1>4. \A b : Count(b, q) \in Nat /\ Count(b, j.open) \in Nat
    BY <1>1, <1>2, CountIs
  <1>5. q = << >> => \A b : Count(b, q) = 0
    <2>1. SUFFICES ASSUME q = << >>, NEW b PROVE Count(b, q) = 0
      OBVIOUS
    <2>2. Those(b, q) = {}
      BY <2>1 DEF Those
    <2>3. QED
      BY <1>2, <2>2, CountIs, FS_EmptySet
  <1>6. ASSUME q # << >> PROVE Count("{", q) >= 1
    <2>1. PICK n \in Nat : n = Len(q) /\ DOMAIN q = 1 .. n /\ n # 0
      BY <1>2, <1>6, LenProperties, EmptySeq
    <2>2. n \in DOMAIN q
      <3>1. \A m \in Nat : m # 0 => m \in 1 .. m
        OBVIOUS
      <3>2. QED
        BY <2>1, <3>1, Zenon
    <2>3. q[n] = "{"
      BY <1>1, <1>3, <1>6, <2>1
    <2>4. PICK x \in Nat : x = Count("{", q)
      BY <1>4
    <2>5. x > 0
      BY <1>2, <2>2, <2>3, <2>4, CountIs
    <2>6. x >= 1
      BY <2>5
    <2>7. QED
      BY <2>4, <2>6
  <1>7. QED
    BY <1>1, <1>2, <1>3, <1>4, <1>5, <1>6 DEF Outermost, Opens, Brackets

(* Inside another object or an array.                                      *)
LEMMA InnerBrackets ==
    ASSUME NEW k \in Texts, NEW t \in Sinks,
           k.open # << >>, k.open[Len(k.open)] = "{", k.string = "none", ~k.escaped,
           k.expect \in {"comma", "key or end", "value or end"},
           k.expect = "key or end" => Head(k.open) = "{" /\ ~Outermost(k),
           k.expect = "value or end" => Head(k.open) = "[",
           t.ok, t.adds = << >>, t.group = k.members, ~t.inString, ~t.escaping,
           t.dicts = Count("{", k.open), t.arrays = Count("[", k.open),
           t.part = "InValue", t.key = "empty"
    PROVE  Corresponds(k, t)
  <1>1. WellFormed(k)
    BY DEF WellFormed, Expected, KeyExpected, ValueExpected
  <1>2. t.part = PartOf(k) /\ t.key = KeyOf(k)
    BY DEF PartOf, KeyOf
  <1>3. QED
    BY <1>1, <1>2 DEF Corresponds, Matches

LEMMA ClosesMatch ==
    ASSUME NEW j \in Texts, NEW s \in Sinks, Corresponds(j, s), NEW c \in Chars,
           j.string = "none", Closes(j, c)
    PROVE  LET k == Read(j, c)
               t == InputChar(s, c)
           IN  Stored(k, t) \/ Corresponds(k, t)
  <1> DEFINE k == Read(j, c)
             t == InputChar(s, c)
  <1> SUFFICES Stored(k, t) \/ Corresponds(k, t)
    OBVIOUS
  <1>1. /\ s.ok /\ ~s.inString /\ ~s.escaping /\ s.group = j.members /\ s.adds = << >>
        /\ ~j.escaped /\ s.key = "empty" /\ j.open # << >>
        /\ s.dicts = Count("{", j.open) /\ s.arrays = Count("[", j.open)
        /\ Outermost(j) => j.expect # "key or end"
    BY DEF Corresponds, WellFormed, Matches, KeyOf
  <1>2. /\ j.expect \in {"key or end", "value or end", "comma", "number"} /\ c \in {"}", "]"}
        /\ c = "}" <=> Head(j.open) = "{"
        /\ c = "]" <=> Head(j.open) = "["
    BY DEF Closes
  <1>3. PICK q : q = Tail(j.open)
    OBVIOUS
  <1>4. /\ q \in Opens /\ Pushed(Head(j.open), q, j.open)
        /\ \A b : Count(b, q) \in Nat
        /\ Outermost(j) <=> q = << >>
        /\ q = << >> => Head(j.open) = "{" /\ Count("{", q) = 0 /\ Count("[", q) = 0
        /\ q # << >> => q[Len(q)] = "{" /\ Count("{", q) >= 1
    BY <1>3, BracketsAre DEF Corresponds
  <1>5. \A b : Count(b, j.open) = IF Head(j.open) = b THEN Count(b, q) + 1 ELSE Count(b, q)
    BY <1>4 DEF Pushed
  <1>6. s.part = "InValue"
    BY <1>1, <1>2, <1>4 DEF Corresponds, Matches, PartOf
  <1>7. k = AfterValue(j, q) /\ t = InValue(s, c) /\ k \in Texts /\ t \in Sinks
    BY <1>1, <1>2, <1>3, <1>6, TextTypes, SinkTypes DEF Read, InputChar
  <1>8. /\ k.open = q /\ k.expect = IF q = << >> THEN "end" ELSE "comma"
        /\ k.string = "none" /\ ~k.escaped /\ k.members = j.members
    <2>1. /\ AfterValue(j, q).open = q
          /\ AfterValue(j, q).expect = IF q = << >> THEN "end" ELSE "comma"
          /\ AfterValue(j, q).string = j.string /\ (AfterValue(j, q).escaped <=> j.escaped)
          /\ AfterValue(j, q).members = j.members
      BY <1>4, AfterValueIs
    <2>2. QED
      BY <1>1, <1>7, <2>1
  <1>9. PICK x \in Nat, y \in Nat : x = Count("{", q) /\ y = Count("[", q)
    BY <1>4
  <1>10. CASE q = << >>
    <2>1. c = "}" /\ s.dicts = 1 /\ s.arrays = 0
      <3>1. Head(j.open) = "{" /\ Count("{", q) = 0 /\ Count("[", q) = 0
        BY <1>4, <1>10
      <3>2. Count("{", j.open) = 0 + 1 /\ Count("[", j.open) = 0
        BY <1>5, <3>1
      <3>3. 0 + 1 = 1
        OBVIOUS
      <3>4. QED
        BY <1>1, <1>2, <3>1, <3>2, <3>3
    <2>2. PICK u : u = [s EXCEPT !.dicts = 0]
      OBVIOUS
    <2>3. /\ u \in Sinks /\ u.dicts = 0 /\ u.arrays = 0 /\ u.ok /\ u.part = "InValue"
          /\ u.group = j.members /\ u.adds = << >>
      BY <1>1, <1>6, <2>1, <2>2 DEF Sinks
    <2>4. PICK e : e = EndGroup(u)
      OBVIOUS
    <2>5. u.group # NoGroup /\ Append(<< >>, u.group) = <<j.members>>
      BY <2>3, TextFields DEF NoGroup
    <2>6. /\ e \in Sinks /\ e.dicts = 0 /\ e.arrays = 0 /\ e.ok /\ e.group = NoGroup
          /\ e.adds = <<j.members>>
      BY <2>3, <2>4, <2>5, EndGroupIs
    <2>7. t = [e EXCEPT !.part = "InEnd"]
      BY <1>1, <1>7, <2>1, <2>2, <2>4 DEF InValue
    <2> HIDE DEF k, t
    <2>8. t.ok /\ t.group = NoGroup /\ t.dicts = 0 /\ t.arrays = 0 /\ t.adds = <<j.members>>
      BY <2>6, <2>7 DEF Sinks
    <2>9. QED
      BY <1>8, <1>10, <2>8 DEF Stored
  <1>11. CASE q # << >> /\ c = "}"
    <2>1. s.dicts = x + 1 /\ s.arrays = y /\ x >= 1
      BY <1>1, <1>2, <1>4, <1>5, <1>9, <1>11
    <2>2. s.dicts # 1 /\ s.dicts - 1 = x
      BY <2>1
    <2>3. t = [s EXCEPT !.dicts = x]
      BY <1>1, <1>7, <1>11, <2>2 DEF InValue
    <2> HIDE DEF k, t
    <2>4. /\ t.ok /\ t.adds = << >> /\ t.group = k.members /\ ~t.inString /\ ~t.escaping
          /\ t.dicts = x /\ t.arrays = y /\ t.part = "InValue" /\ t.key = "empty"
      BY <1>1, <1>6, <1>8, <2>1, <2>3 DEF Sinks
    <2>5. QED
      BY <1>4, <1>7, <1>8, <1>9, <1>11, <2>4, InnerBrackets
  <1>12. CASE q # << >> /\ c = "]"
    <2>1. s.dicts = x /\ s.arrays = y + 1
      BY <1>1, <1>2, <1>4, <1>5, <1>9, <1>12
    <2>2. s.arrays # 0 /\ s.arrays - 1 = y
      BY <2>1
    <2>3. t = [s EXCEPT !.arrays = y]
      BY <1>1, <1>7, <1>12, <2>2 DEF InValue
    <2> HIDE DEF k, t
    <2>4. /\ t.ok /\ t.adds = << >> /\ t.group = k.members /\ ~t.inString /\ ~t.escaping
          /\ t.dicts = x /\ t.arrays = y /\ t.part = "InValue" /\ t.key = "empty"
      BY <1>1, <1>6, <1>8, <2>1, <2>3 DEF Sinks
    <2>5. QED
      BY <1>4, <1>7, <1>8, <1>9, <1>12, <2>4, InnerBrackets
  <1>13. QED
    BY <1>2, <1>10, <1>11, <1>12

LEMMA OpensMatch ==
    ASSUME NEW j \in Texts, NEW s \in Sinks, Corresponds(j, s), NEW c \in Brackets,
           j.string = "none", j.expect \in ValueExpected
    PROVE  Corresponds(Read(j, c), InputChar(s, c))
  <1> DEFINE k == Read(j, c)
             t == InputChar(s, c)
  <1> SUFFICES Corresponds(k, t)
    OBVIOUS
  <1>1. /\ s.ok /\ ~s.inString /\ ~s.escaping /\ s.group = j.members /\ s.adds = << >>
        /\ ~j.escaped /\ s.key = "empty" /\ j.open # << >> /\ s.part = "InValue"
        /\ s.dicts = Count("{", j.open) /\ s.arrays = Count("[", j.open)
        /\ j.open \in Opens /\ j.open[Len(j.open)] = "{"
    BY TextFields DEF Corresponds, WellFormed, Matches, KeyOf, PartOf, ValueExpected
  <1>2. c \in Chars /\ c \in {"{", "["} /\ ~Closes(j, c)
    BY DEF Brackets, Chars, Closes
  <1>3. k = ValueStarts(j, c) /\ t = InValue(s, c) /\ k \in Texts /\ t \in Sinks
    BY <1>1, <1>2, TextTypes, SinkTypes DEF Read, InputChar, ValueExpected
  <1>4. PICK p : p = <<c>> \o j.open
    OBVIOUS
  <1>5. Pushed(c, j.open, p)
    BY <1>1, <1>4, PushedIs DEF Opens
  <1>6. /\ p \in Opens /\ p # << >> /\ Head(p) = c /\ Len(p) # 1 /\ p[Len(p)] = "{"
        /\ \A b : Count(b, p) = IF c = b THEN Count(b, j.open) + 1 ELSE Count(b, j.open)
        /\ \A b : Count(b, j.open) \in Nat
    BY <1>1, <1>5 DEF Pushed, Opens
  <1>7. PICK x \in Int, y \in Int : x = Count("{", p) /\ y = Count("[", p)
    <2>1. Count("{", p) \in Nat /\ Count("[", p) \in Nat
      BY <1>6, CountIs DEF Opens
    <2>2. \A n \in Nat : n \in Int
      OBVIOUS
    <2>3. QED
      BY <2>1, <2>2
  <1>8. k = [j EXCEPT !.open = p, !.expect = IF c = "{" THEN "key or end" ELSE "value or end"]
    BY <1>2, <1>3, <1>4 DEF ValueStarts
  <1>9. t = [s EXCEPT !.dicts = x, !.arrays = y]
    <2>1. CASE c = "{"
      <3>1. s.dicts + 1 = x /\ s.arrays = y
        BY <1>1, <1>6, <1>7, <2>1
      <3>2. t = [s EXCEPT !.dicts = x]
        BY <1>1, <1>3, <2>1, <3>1 DEF InValue
      <3>3. [s EXCEPT !.dicts = x] = [s EXCEPT !.dicts = x, !.arrays = y]
        BY <3>1 DEF Sinks
      <3>4. QED
        BY <3>2, <3>3
    <2>2. CASE c = "["
      <3>1. s.dicts = x /\ s.arrays + 1 = y
        BY <1>1, <1>6, <1>7, <2>2
      <3>2. t = [s EXCEPT !.arrays = y]
        BY <1>1, <1>3, <2>2, <3>1 DEF InValue
      <3>3. [s EXCEPT !.arrays = y] = [s EXCEPT !.dicts = x, !.arrays = y]
        BY <3>1 DEF Sinks
      <3>4. QED
        BY <3>2, <3>3
    <2>3. QED
      BY <1>2, <2>1, <2>2
  <1> HIDE DEF k, t
  <1>10. /\ k.open = p /\ k.expect = IF c = "{" THEN "key or end" ELSE "value or end"
         /\ k.string = "none" /\ ~k.escaped /\ k.members = j.members
    BY <1>1, <1>8 DEF Texts
  <1>11. /\ t.ok /\ t.adds = << >> /\ t.group = j.members /\ ~t.inString /\ ~t.escaping
         /\ t.dicts = x /\ t.arrays = y /\ t.part = "InValue" /\ t.key = "empty"
    BY <1>1, <1>9 DEF Sinks
  <1>12. QED
    BY <1>2, <1>3, <1>6, <1>7, <1>10, <1>11, InnerBrackets DEF Outermost

(* The first quotation mark of a string, a colon, a comma, a digit.        *)
LEMMA OthersMatch ==
    ASSUME NEW j \in Texts, NEW s \in Sinks, Corresponds(j, s),
           NEW c \in {"quote", "colon", "comma", "digit"},
           j.string = "none"
    PROVE  LET k == Read(j, c)
               t == InputChar(s, c)
           IN  k.expect = "wrong" \/ Corresponds(k, t)
  <1> DEFINE k == Read(j, c)
             t == InputChar(s, c)
  <1> SUFFICES k.expect = "wrong" \/ Corresponds(k, t)
    OBVIOUS
  <1>1. /\ s.ok /\ ~s.inString /\ ~s.escaping /\ s.group = j.members /\ s.adds = << >>
        /\ ~j.escaped /\ s.key = "empty" /\ s.part = PartOf(j) /\ j.expect \in Expected
        /\ s.dicts = Count("{", j.open) /\ s.arrays = Count("[", j.open)
        /\ j.expect \in KeyExpected \cup {"colon"} => Head(j.open) = "{"
        /\ j.expect = "value or end" => Head(j.open) = "["
        /\ Outermost(j) => j.expect # "key or end"
    BY DEF Corresponds, WellFormed, Matches, KeyOf
  <1>2. c \in Chars /\ ~Closes(j, c) /\ k \in Texts /\ t \in Sinks
    BY TextTypes, SinkTypes DEF Chars, Closes
  <1>3. Head(j.open) \in {"{", "["} /\ (SeparatesItems(s) <=> Outermost(j))
        /\ (Outermost(j) => Head(j.open) = "{")
    <2>1. PICK q : q = Tail(j.open)
      OBVIOUS
    <2>2. /\ Pushed(Head(j.open), q, j.open) /\ Head(j.open) \in {"{", "["}
          /\ Outermost(j) <=> q = << >>
          /\ q = << >> => Head(j.open) = "{" /\ Count("{", q) = 0 /\ Count("[", q) = 0
          /\ q # << >> => Count("{", q) >= 1
          /\ \A b : Count(b, q) \in Nat
      BY <2>1, BracketsAre DEF Corresponds
    <2>3. \A b : Count(b, j.open) = IF Head(j.open) = b THEN Count(b, q) + 1 ELSE Count(b, q)
      BY <2>2 DEF Pushed
    <2>4. PICK x \in Nat, y \in Nat : x = Count("{", q) /\ y = Count("[", q)
      BY <2>2
    <2>5. /\ s.dicts = IF Head(j.open) = "{" THEN x + 1 ELSE x
          /\ s.arrays = IF Head(j.open) = "[" THEN y + 1 ELSE y
      BY <1>1, <2>3, <2>4
    <2>6. (s.dicts = 1 /\ s.arrays = 0) <=> q = << >>
      <3>1. CASE q = << >>
        <4>1. Head(j.open) = "{" /\ x = 0 /\ y = 0
          BY <2>2, <2>4, <3>1
        <4>2. 0 + 1 = 1
          OBVIOUS
        <4>3. QED
          BY <2>5, <3>1, <4>1, <4>2
      <3>2. CASE q # << >>
        <4>1. x >= 1
          BY <2>2, <2>4, <3>2
        <4>2. x + 1 # 1 /\ y + 1 # 0
          BY <4>1
        <4>3. QED
          BY <2>2, <2>5, <3>2, <4>2
      <3>3. QED
        BY <3>1, <3>2
    <2>7. QED
      BY <2>2, <2>6 DEF SeparatesItems
  <1>4. ASSUME NEW e \in Expected, NEW g \in {"none", "value", "empty key"}, NEW b \in BOOLEAN,
               NEW p \in Parts,
               k = [j EXCEPT !.expect = e, !.string = g],
               t = [s EXCEPT !.part = p, !.inString = b],
               b <=> g # "none",
               g = "value" => e \in ValueExpected, g = "empty key" => e \in KeyExpected,
               e \in KeyExpected \cup {"colon"} => Head(j.open) = "{",
               e = "value or end" => Head(j.open) = "[",
               Outermost(j) => e # "key or end",
               p = IF ~Outermost(j) \/ g = "value" THEN "InValue"
                   ELSE IF e = "key" THEN "InKey" ELSE IF e = "colon" THEN "InColon" ELSE "InValue"
        PROVE  Corresponds(k, t)
    <2> HIDE DEF k, t
    <2>1. /\ k.open = j.open /\ k.expect = e /\ k.string = g /\ ~k.escaped
          /\ k.members = j.members
      BY <1>1, <1>4, TextNames DEF Texts, Expects
    <2>2. /\ t.ok /\ (t.inString <=> b) /\ ~t.escaping /\ t.part = p /\ t.group = s.group
          /\ t.key = "empty" /\ t.dicts = s.dicts /\ t.arrays = s.arrays /\ t.adds = s.adds
      BY <1>1, <1>4 DEF Sinks
    <2>3. t.part = PartOf(k) /\ t.key = KeyOf(k)
      BY <1>4, <2>1, <2>2 DEF PartOf, KeyOf, Outermost
    <2>4. /\ k.string \in {"empty key", "key"} => k.expect \in KeyExpected
          /\ k.string = "value" => k.expect \in ValueExpected
          /\ k.expect \in KeyExpected \cup {"colon"} => Head(j.open) = "{"
          /\ k.expect = "value or end" => Head(j.open) = "["
          /\ Outermost(j) => k.expect # "key or end"
          /\ k.expect \in Expected /\ t.group = k.members
          /\ (t.inString <=> k.string # "none") /\ (t.escaping <=> k.escaped)
      BY <1>1, <1>4, <2>1, <2>2
    <2>5. k.escaped => k.string # "none"
      BY <2>1
    <2>6. /\ k \in Texts /\ t \in Sinks /\ k.open = j.open /\ t.dicts = s.dicts
          /\ t.arrays = s.arrays /\ t.ok /\ t.adds = s.adds
      BY <1>2, <2>1, <2>2
    <2>7. QED
      BY <2>3, <2>4, <2>5, <2>6, SameBrackets, Zenon
  <1>5. j = [j EXCEPT !.expect = j.expect, !.string = "none"]
        /\ s = [s EXCEPT !.part = s.part, !.inString = FALSE]
    BY <1>1 DEF Texts, Sinks
  <1>6. CASE c = "quote" /\ j.expect \in KeyExpected
    <2>1. k = [j EXCEPT !.expect = j.expect, !.string = "empty key"]
      BY <1>2, <1>6 DEF Read, KeyExpected, Texts
    <2>2. t = [s EXCEPT !.part = s.part, !.inString = TRUE]
      BY <1>1, <1>6 DEF InputChar, InKey, InValue, PartOf, KeyExpected, Sinks
    <2> HIDE DEF k, t
    <2>3. QED
      BY <1>1, <1>4, <1>6, <2>1, <2>2, Names DEF PartOf, KeyExpected
  <1>7. CASE c = "quote" /\ j.expect \in ValueExpected
    <2>1. k = [j EXCEPT !.expect = j.expect, !.string = "value"]
      BY <1>2, <1>7 DEF Read, ValueStarts, ValueExpected, Texts
    <2>2. t = [s EXCEPT !.part = s.part, !.inString = TRUE] /\ s.part = "InValue"
      BY <1>1, <1>7 DEF InputChar, InValue, PartOf, ValueExpected, Sinks
    <2> HIDE DEF k, t
    <2>3. QED
      BY <1>1, <1>4, <1>7, <2>1, <2>2, Names DEF ValueExpected, KeyExpected
  <1>8. CASE c = "colon" /\ j.expect = "colon"
    <2>1. k = [j EXCEPT !.expect = "value", !.string = "none"]
      BY <1>2, <1>8 DEF Read, Texts
    <2>2. t = [s EXCEPT !.part = "InValue", !.inString = FALSE]
      BY <1>1, <1>8 DEF InputChar, InColon, InValue, PartOf, Sinks
    <2> HIDE DEF k, t
    <2>3. QED
      BY <1>4, <2>1, <2>2, Names DEF Expected, ValueExpected, KeyExpected
  <1>9. CASE c = "comma" /\ j.expect \in {"comma", "number"}
    <2>1. PICK e \in {"key", "value"} : e = IF Head(j.open) = "{" THEN "key" ELSE "value"
      OBVIOUS
    <2>2. k = [j EXCEPT !.expect = e, !.string = "none"]
      BY <1>2, <1>9, <2>1 DEF Read, Texts
    <2>3. PICK p \in Parts : p = IF Outermost(j) THEN "InKey" ELSE "InValue"
      BY Names
    <2>4. t = [s EXCEPT !.part = p, !.inString = FALSE]
      BY <1>1, <1>3, <1>9, <2>3 DEF InputChar, InValue, PartOf, Sinks
    <2> HIDE DEF k, t
    <2>5. QED
      BY <1>3, <1>4, <2>1, <2>2, <2>3, <2>4 DEF Expected, ValueExpected, KeyExpected
  <1>10. CASE c = "digit" /\ j.expect \in ValueExpected \cup {"number"}
    <2>1. k = [j EXCEPT !.expect = "number", !.string = "none"]
      BY <1>2, <1>10 DEF Read, ValueStarts, ValueExpected, Texts
    <2>2. t = [s EXCEPT !.part = s.part, !.inString = FALSE] /\ s.part = "InValue"
      BY <1>1, <1>10 DEF InputChar, InValue, PartOf, ValueExpected, Sinks
    <2> HIDE DEF k, t
    <2>3. QED
      BY <1>4, <2>1, <2>2, Names DEF Expected, ValueExpected, KeyExpected
  <1>11. \/ c = "quote" /\ j.expect \notin KeyExpected \cup ValueExpected
         \/ c = "colon" /\ j.expect # "colon"
         \/ c = "comma" /\ j.expect \notin {"comma", "number"}
         \/ c = "digit" /\ j.expect \notin ValueExpected \cup {"number"}
         => k = Wrong
    BY <1>2 DEF Read, KeyExpected, ValueExpected
  <1>12. QED
    BY <1>6, <1>7, <1>8, <1>9, <1>10, <1>11, WrongIs

(* The sink and the reference agree about a character.                     *)
LEMMA CharMatches ==
    ASSUME NEW j \in Texts, NEW s \in Sinks, Corresponds(j, s),
           NEW c \in Chars \ {"zero"}, j.string = "none" => c # "space"
    PROVE  LET k == Read(j, c)
               t == InputChar(s, c)
           IN  k.expect = "wrong" \/ Stored(k, t) \/ Corresponds(k, t)
  <1> DEFINE k == Read(j, c)
             t == InputChar(s, c)
  <1> SUFFICES k.expect = "wrong" \/ Stored(k, t) \/ Corresponds(k, t)
    OBVIOUS
  <1>1. CASE j.string # "none"
    <2>1. Outermost(j) /\ j.string # "value" => j.string \in {"empty key", "key"}
      BY <1>1, TextFields DEF Strings
    <2>2. QED
      BY <1>1, <2>1, KeysMatch, StringsMatch
  <1>2. CASE j.string = "none" /\ Closes(j, c)
    BY <1>2, ClosesMatch
  <1>3. CASE j.string = "none" /\ c \in Brackets /\ j.expect \in ValueExpected
    BY <1>3, OpensMatch
  <1>4. CASE j.string = "none" /\ c \in {"quote", "colon", "comma", "digit"}
    BY <1>4, OthersMatch
  <1>5. CASE /\ j.string = "none" /\ ~Closes(j, c)
             /\ c \notin {"quote", "colon", "comma", "digit"}
             /\ ~(c \in Brackets /\ j.expect \in ValueExpected)
    <2>1. k = Wrong
      BY <1>5 DEF Read, Brackets, ValueExpected
    <2>2. QED
      BY <2>1, WrongIs
  <1>6. QED
    BY <1>1, <1>2, <1>3, <1>4, <1>5

(***************************************************************************)
(* What starts and what ends the sink's part of an object.                 *)
(***************************************************************************)
LEMMA InputIs ==
    ASSUME NEW s \in Sinks
    PROVE  /\ Input(s) \in Sinks /\ Input(s).ok /\ ~Input(s).told
           /\ Input(s).part = s.part /\ Input(s).dicts = s.dicts /\ Input(s).arrays = s.arrays
           /\ (Input(s).inString <=> s.inString) /\ (Input(s).escaping <=> s.escaping)
           /\ Input(s).key = s.key /\ Input(s).group = s.group /\ Input(s).adds = s.adds
  BY DEF Input, Sinks

LEMMA InputKeeps ==
    ASSUME NEW s \in Sinks, s.ok
    PROVE  /\ \A d, string, escape : Follows(s, d, string, escape) => Follows(Input(s), d, string, escape)
           /\ \A j : Matches(j, s) => Matches(j, Input(s))
  <1>1. PICK t : t = Input(s)
    OBVIOUS
  <1>2. /\ t.ok /\ t.part = s.part /\ t.dicts = s.dicts /\ t.arrays = s.arrays
        /\ (t.inString <=> s.inString) /\ (t.escaping <=> s.escaping)
        /\ t.key = s.key /\ t.group = s.group /\ t.adds = s.adds
    BY <1>1, InputIs
  <1>3. \A d, string, escape : Follows(s, d, string, escape) => Follows(t, d, string, escape)
    BY <1>2 DEF Follows, Counted, Emptied
  <1>4. \A j : Matches(j, s) => Matches(j, t)
    BY <1>2 DEF Matches
  <1>5. QED
    BY <1>1, <1>3, <1>4

LEMMA FreshIs ==
    /\ Fresh \in Sinks /\ AtRest(Fresh) /\ Fresh.ok
  <1>1. << >> \in Sizes /\ NoGroup \in Int
    BY EmptySeq DEF Sizes, NoGroup
  <1>2. QED
    BY <1>1, Names DEF Fresh, Sinks, AtRest, Emptied

LEMMA EndIs ==
    ASSUME NEW s \in Sinks
    PROVE  /\ End(s) \in Sinks /\ AtRest(End(s)) /\ (End(s).ok <=> s.ok)
           /\ s.group = NoGroup \/ s.part = "BadInput" => End(s).adds = s.adds
  <1>1. PICK a \in Sizes : a = EndGroup(s).adds /\ (s.group = NoGroup \/ s.part = "BadInput" => a = s.adds)
    BY EndGroupIs DEF Sinks
  <1>2. PICK t : t = End(s)
    OBVIOUS
  <1>3. s.ok \in BOOLEAN /\ s.told \in BOOLEAN
    BY DEF Sinks
  <1>4. t = [Fresh EXCEPT !.ok = s.ok, !.told = s.told, !.adds = a]
    BY <1>1, <1>2 DEF End
  <1>5. t \in Sinks /\ (t.ok <=> s.ok) /\ t.adds = a
    BY <1>3, <1>4, FreshIs DEF Sinks
  <1>6. t.part = "InHead" /\ t.dicts = 0 /\ t.arrays = 0 /\ ~t.inString /\ ~t.escaping /\ t.key = "empty"
    BY <1>4 DEF Fresh
  <1>7. QED
    BY <1>1, <1>2, <1>5, <1>6 DEF AtRest, Emptied

(* A text that went wrong stays wrong.                                     *)
LEMMA ReadWrong ==
    ASSUME NEW j \in Texts, NEW c \in Chars, j.expect = "wrong" => j.string = "none"
    PROVE  /\ Read(j, c).expect = "wrong" => Read(j, c).string = "none"
           /\ j.expect = "wrong" => Read(j, c).expect = "wrong"
  <1>1. Wrong.expect = "wrong" /\ Wrong.string = "none"
    BY DEF Wrong, Text
  <1>2. CASE j.expect = "wrong"
    <2>1. Read(j, c) = j \/ Read(j, c) = Wrong
      BY <1>2 DEF Read, Closes
    <2>2. QED
      BY <1>1, <1>2, <2>1
  <1>3. CASE j.expect # "wrong"
    <2>1. ASSUME NEW q \in Opens PROVE AfterValue(j, q).expect # "wrong"
      BY <2>1, AfterValueIs
    <2>2. ASSUME j.string # "none" PROVE Read(j, c) = Wrong \/ Read(j, c).expect # "wrong"
      <3>1. PICK a : a = AfterValue(j, j.open)
        OBVIOUS
      <3>2. a \in Texts /\ a.expect # "wrong"
        BY <2>1, <3>1, AfterValueIs, TextFields
      <3>3. [a EXCEPT !.string = "none"].expect # "wrong"
        BY <3>2 DEF Texts
      <3>4. \A e, g : [j EXCEPT !.escaped = e, !.string = g].expect # "wrong"
        BY <1>3 DEF Texts
      <3>5. [j EXCEPT !.escaped = FALSE].expect # "wrong"
        BY <1>3 DEF Texts
      <3>6. \A m : [j EXCEPT !.string = "none", !.expect = "colon", !.members = m].expect # "wrong"
        BY DEF Texts
      <3>7. Read(j, c) = InString(j, c)
        BY <2>2 DEF Read
      <3>8. QED
        BY <3>1, <3>3, <3>4, <3>5, <3>6, <3>7 DEF InString
    <2>3. ASSUME Closes(j, c) PROVE AfterValue(j, Tail(j.open)).expect # "wrong"
      <3>1. Tail(j.open) \in Opens
        BY <2>3, PoppedIs DEF Closes, Texts, Opens
      <3>2. QED
        BY <2>1, <3>1
    <2>4. \A e : [j EXCEPT !.expect = e].expect = e
      BY DEF Texts
    <2>5. \A q, e : [j EXCEPT !.open = q, !.expect = e].expect = e
      BY DEF Texts
    <2>6. \A g : [j EXCEPT !.string = g].expect # "wrong"
      BY <1>3 DEF Texts
    <2>7. ValueStarts(j, c) = Wrong \/ ValueStarts(j, c).expect # "wrong"
      BY <2>4, <2>5, <2>6, ZenonT(60) DEF ValueStarts
    <2>8. ASSUME j.string = "none" PROVE Read(j, c) = Wrong \/ Read(j, c).expect # "wrong"
      <3>1. CASE Closes(j, c)
        <4>1. c \in {"}", "]"}
          BY <3>1 DEF Closes
        <4>2. Read(j, c) = AfterValue(j, Tail(j.open))
          BY <2>8, <3>1, <4>1 DEF Read
        <4>3. QED
          BY <2>3, <3>1, <4>2
      <3>2. PICK e : e = IF Head(j.open) = "{" THEN "key" ELSE "value"
        OBVIOUS
      <3>3. e # "wrong" /\ [j EXCEPT !.expect = e].expect # "wrong"
        BY <2>4, <3>2
      <3>4. [j EXCEPT !.expect = "value"].expect # "wrong"
            /\ [j EXCEPT !.string = "empty key"].expect # "wrong"
        BY <2>4, <2>6
      <3>5. CASE ~Closes(j, c)
        BY <1>3, <2>7, <2>8, <3>2, <3>3, <3>4, <3>5, Zenon DEF Read
      <3>6. QED
        BY <3>1, <3>5
    <2>9. QED
      BY <1>1, <1>3, <2>2, <2>8
  <1>4. QED
    BY <1>2, <1>3

LEMMA StartMatches ==
    ASSUME NEW s \in Sinks, AtRest(s), s.ok, s.part = "InHead", s.adds = << >>
    PROVE  Corresponds(Start("{"), InputChar(s, "{"))
  <1> DEFINE k == Start("{")
             t == InputChar(s, "{")
  <1> SUFFICES Corresponds(k, t)
    OBVIOUS
  <1>1. s.dicts = 0 /\ s.arrays = 0 /\ ~s.inString /\ ~s.escaping /\ s.key = "empty"
    BY DEF AtRest
  <1>2. t = [s EXCEPT !.dicts = 1, !.group = 0, !.part = "InKey"]
    <2>1. 0 + 1 = 1
      OBVIOUS
    <2>2. QED
      BY <1>1, <2>1 DEF InputChar, InHead
  <1> HIDE DEF k, t
  <1>3. /\ t.ok /\ t.adds = << >> /\ t.dicts = 1 /\ t.arrays = 0 /\ t.group = 0
        /\ ~t.inString /\ ~t.escaping /\ t.key = "empty" /\ t.part = "InKey"
    BY <1>1, <1>2 DEF Sinks
  <1>4. k.open = <<"{">> /\ k.expect = "key" /\ k.string = "none" /\ ~k.escaped /\ k.members = 0
    BY DEF Start, Text, k
  <1>5. \A b : Len(<<b>>) = 1 /\ Head(<<b>>) = b /\ <<b>> # << >> /\ <<b>>[1] = b
               /\ DOMAIN <<b>> = {1}
    OBVIOUS
  <1>6. Len(k.open) = 1 /\ Head(k.open) = "{" /\ k.open # << >> /\ k.open[Len(k.open)] = "{"
    BY <1>4, <1>5
  <1>7. Count("{", k.open) = 1 /\ Count("[", k.open) = 0
    <2>1. \A b, c : Those(c, <<b>>) = IF b = c THEN {1} ELSE {}
      BY <1>5 DEF Those
    <2>2. Those("{", k.open) = {1} /\ Those("[", k.open) = {}
      BY <1>4, <2>1
    <2>3. Cardinality({1}) = 1 /\ Cardinality({}) = 0
      BY FS_Singleton, FS_EmptySet
    <2>4. QED
      BY <2>2, <2>3 DEF Count, Those
  <1>8. WellFormed(k)
    BY <1>4, <1>6 DEF WellFormed, Expected, KeyExpected, ValueExpected
  <1>9. PartOf(k) = "InKey" /\ KeyOf(k) = "empty"
    BY <1>4, <1>6 DEF PartOf, KeyOf, Outermost
  <1>10. QED
    BY <1>3, <1>4, <1>7, <1>8, <1>9 DEF Corresponds, Matches

(***************************************************************************)
(* The steps of the scanner.                                               *)
(***************************************************************************)
LEMMA CurrentIs == TextsOK => Current \in Sinks
  BY InputIs DEF TextsOK, Current

(* A character inside an item that does not end it.                        *)
LEMMA TakeKeeps ==
    ASSUME Agreement, Reading, depth > 0, NEW c \in Chars \ {"zero"}, Take(c),
           ~inString => c # "space",
           depth' = DepthAfter(depth, inString, c), depth' > 0,
           inString' = StringAfter(inString, escaping, c),
           escaping' = EscapeAfter(inString, escaping, c)
    PROVE  Agreement'
  <1>1. /\ ScannerOK /\ TextsOK /\ Ranges /\ Buffered /\ CommandsAreWhole
        /\ Resting /\ Following /\ Matching /\ Refusing
    BY DEF Agreement
  <1>2. /\ begun' = TRUE /\ item' = Read(item, c) /\ notice' = "none" /\ ended' = "none"
        /\ previous' = previous /\ kind' = kind /\ sink' = sink /\ message' = message
        /\ start' = start
        /\ pending' = IF kind = "Data"
                      THEN InputChar(IF begun THEN pending ELSE Input(sink), c) ELSE pending
    BY DEF Take
  <1>3. Current \in Sinks /\ (kind = "Data" => pending' = InputChar(Current, c))
    BY <1>1, <1>2, CurrentIs DEF Current
  <1>4. depth \in Int /\ inString \in BOOLEAN /\ escaping \in BOOLEAN
    BY <1>1 DEF ScannerOK
  <1>5. ScannerOK'
    <2>1. inString' \in BOOLEAN /\ escaping' \in BOOLEAN
      BY <1>4 DEF StringAfter, EscapeAfter
    <2>2. depth' = depth \/ depth' = depth + 1 \/ depth' = depth - 1
      BY DEF DepthAfter
    <2>3. depth' \in Int
      BY <1>4, <2>2
    <2>4. QED
      BY <1>1, <1>2, <2>1, <2>3 DEF ScannerOK
  <1>6. TextsOK'
    <2>1. item' \in Texts /\ (item'.expect = "wrong" => item'.string = "none")
      BY <1>1, <1>2, TextTypes, ReadWrong DEF TextsOK
    <2>2. pending' \in Sinks
      BY <1>1, <1>2, <1>3, SinkTypes DEF TextsOK
    <2>3. QED
      BY <1>1, <1>2, <2>1, <2>2 DEF TextsOK
  <1>7. Ranges'
    <2>1. escaping' => inString'
      BY <1>4 DEF StringAfter, EscapeAfter
    <2>2. depth' >= 0
      BY <1>5 DEF ScannerOK
    <2>3. QED
      BY <1>1, <1>2, <2>1, <2>2 DEF Ranges, Reading
  <1>8. Buffered' /\ CommandsAreWhole' /\ Resting'
    BY <1>1, <1>2 DEF Buffered, CommandsAreWhole, Resting, AtRest, Emptied
  <1>9. ASSUME kind = "Data"
        PROVE  Follows(pending', depth', inString', escaping')
    <2>1. Follows(Current, depth, inString, escaping)
      BY <1>1, <1>9 DEF Following
    <2>2. QED
      BY <1>3, <1>4, <1>9, <2>1, CharFollows
  <1>10. Following'
    BY <1>2, <1>9 DEF Following, Current
  <1>11. Matching'
    <2>1. SUFFICES ASSUME kind = "Data", item'.expect # "wrong", Ready
                   PROVE  Corresponds(item', pending')
      BY <1>2 DEF Matching, Corresponds, Current, Ready
    <2>2. item \in Texts /\ item.expect # "wrong"
      BY <1>1, <1>2, <2>1, ReadWrong DEF TextsOK
    <2>3. Corresponds(item, Current)
      BY <1>1, <2>1, <2>2 DEF Matching, Corresponds
    <2>4. Follows(Current, depth, inString, escaping)
      BY <1>1, <2>1 DEF Following
    <2>5. item.string = "none" => c # "space"
      BY <2>3, <2>4 DEF Corresponds, Matches, Follows
    <2>6. Stored(item', pending') \/ Corresponds(item', pending')
      BY <1>2, <1>3, <2>1, <2>2, <2>3, <2>5, CharMatches
    <2>7. ~Stored(item', pending')
      BY <1>9, <2>1 DEF Stored, Follows
    <2>8. QED
      BY <2>6, <2>7
  <1>12. WellFormedIsStored'
    BY <1>2 DEF WellFormedIsStored
  <1>13. Refusing'
    <2>1. SUFFICES ASSUME kind = "Data", ~Ready
                   PROVE  ~pending'.ok /\ pending'.adds = << >>
      BY <1>2 DEF Refusing, Ready
    <2>2. begun /\ ~pending.ok /\ pending.adds = << >>
      BY <1>1, <2>1 DEF Refusing
    <2>3. QED
      BY <1>3, <2>1, <2>2 DEF Current, InputChar
  <1>14. QED
    BY <1>5, <1>6, <1>7, <1>8, <1>10, <1>11, <1>12, <1>13 DEF Agreement

LEMMA CharactersKeep ==
    ASSUME Agreement, NEW c \in Chars,
           StringChar(c) \/ OpenInner(c) \/ CloseInner(c) \/ Inner(c)
    PROVE  Agreement'
  <1>1. Ranges /\ ScannerOK
    BY DEF Agreement
  <1>2. /\ depth \in Int /\ inString \in BOOLEAN /\ escaping \in BOOLEAN
        /\ Reading => (inString => depth > 0) /\ (escaping => inString)
    BY <1>1 DEF Ranges, ScannerOK
  <1>3. CASE StringChar(c)
    <2>1. /\ Reading /\ inString /\ c # "zero" /\ Take(c) /\ depth' = depth
          /\ inString' = (escaping \/ c # "quote") /\ escaping' = (~escaping /\ c = "backslash")
      BY <1>3 DEF StringChar
    <2>2. /\ depth' = DepthAfter(depth, inString, c)
          /\ inString' = StringAfter(inString, escaping, c)
          /\ escaping' = EscapeAfter(inString, escaping, c)
      BY <1>2, <2>1 DEF DepthAfter, StringAfter, EscapeAfter
    <2>3. QED
      BY <1>2, <2>1, <2>2, TakeKeeps
  <1>4. ASSUME Reading, ~inString, c \in Chars \ {"zero", "space"}, Take(c), depth > 0,
               inString' = (c = "quote"), escaping' = escaping,
               depth' = DepthAfter(depth, inString, c), depth' > 0
        PROVE  Agreement'
    <2>1. /\ inString' = StringAfter(inString, escaping, c)
          /\ escaping' = EscapeAfter(inString, escaping, c)
      BY <1>2, <1>4 DEF StringAfter, EscapeAfter
    <2>2. QED
      BY <1>4, <2>1, TakeKeeps
  <1>5. /\ depth > 0 => depth + 1 > 0
        /\ depth > 1 => depth > 0 /\ depth - 1 > 0
    BY <1>2
  <1>6. CASE OpenInner(c)
    <2>1. /\ Reading /\ ~inString /\ depth > 0 /\ c \in {"[", "{"} /\ Take(c)
          /\ depth' = depth + 1 /\ inString' = inString /\ escaping' = escaping
      BY <1>6 DEF OpenInner
    <2>2. inString' = (c = "quote") /\ depth' = DepthAfter(depth, inString, c)
      BY <1>2, <2>1 DEF DepthAfter
    <2>3. QED
      BY <1>4, <1>5, <2>1, <2>2
  <1>7. CASE CloseInner(c)
    <2>1. /\ Reading /\ ~inString /\ depth > 1 /\ c \in {"]", "}"} /\ Take(c)
          /\ depth' = depth - 1 /\ inString' = inString /\ escaping' = escaping
      BY <1>7 DEF CloseInner
    <2>2. inString' = (c = "quote") /\ depth' = DepthAfter(depth, inString, c)
      BY <1>2, <2>1 DEF DepthAfter
    <2>3. QED
      BY <1>4, <1>5, <2>1, <2>2
  <1>8. CASE Inner(c)
    <2>1. /\ Reading /\ ~inString /\ depth > 0 /\ Take(c)
          /\ c \in {"quote", "backslash", "colon", "comma", "digit"}
          /\ depth' = depth /\ inString' = (c = "quote") /\ escaping' = escaping
      BY <1>8 DEF Inner
    <2>2. depth' = DepthAfter(depth, inString, c)
      BY <2>1 DEF DepthAfter
    <2>3. QED
      BY <1>4, <2>1, <2>2
  <1>9. QED
    BY <1>3, <1>6, <1>7, <1>8

LEMMA AtRestKeepsAdds ==
    ASSUME NEW s \in Sinks
    PROVE  /\ [s EXCEPT !.adds = << >>] \in Sinks /\ [s EXCEPT !.adds = << >>].adds = << >>
           /\ [s EXCEPT !.adds = << >>].part = s.part
           /\ AtRest(s) => AtRest([s EXCEPT !.adds = << >>])
  <1>1. PICK a \in Sizes : a = << >>
    BY EmptySeq DEF Sizes
  <1>2. PICK t : t = [s EXCEPT !.adds = a]
    OBVIOUS
  <1>3. t \in Sinks /\ t.adds = a
    BY <1>2 DEF Sinks
  <1>4. /\ t.part = s.part /\ t.dicts = s.dicts /\ t.arrays = s.arrays
        /\ (t.inString <=> s.inString) /\ (t.escaping <=> s.escaping) /\ t.key = s.key
        /\ t.group = s.group
    BY <1>2 DEF Sinks
  <1>5. AtRest(s) => AtRest(t)
    BY <1>4 DEF AtRest, Emptied
  <1>6. QED
    BY <1>1, <1>2, <1>3, <1>4, <1>5

(* The first bracket of an object.                                         *)
LEMMA ObjectStarts ==
    ASSUME NEW s \in Sinks, AtRest(s), s.ok, s.adds = << >>, NEW spaced \in BOOLEAN
    PROVE  LET t == InputChar(IF spaced THEN InputChar(s, "space") ELSE s, "{")
           IN  /\ t \in Sinks
               /\ Follows(t, 1, FALSE, FALSE)
               /\ IF s.part = "InHead" /\ ~spaced
                  THEN Corresponds(Start("{"), t) ELSE ~t.ok /\ t.adds = << >>
  <1>1. "{" \in Chars /\ "space" \in Chars
    BY DEF Chars
  <1>2. CASE s.part = "InHead" /\ ~spaced
    <2>1. PICK t : t = InputChar(s, "{")
      OBVIOUS
    <2>2. t \in Sinks /\ Corresponds(Start("{"), t)
      BY <1>1, <1>2, <2>1, SinkTypes, StartMatches
    <2>3. s.dicts = 0 /\ s.arrays = 0 /\ ~s.inString /\ ~s.escaping /\ 0 + 1 = 1
      BY <1>2 DEF AtRest
    <2>4. t = [s EXCEPT !.dicts = 1, !.group = 0, !.part = "InKey"]
      BY <1>2, <2>1, <2>3 DEF InputChar, InHead
    <2>5. t.part = "InKey" /\ t.ok /\ t.dicts = 1 /\ t.arrays = 0 /\ ~t.inString /\ ~t.escaping
      BY <2>3, <2>4 DEF Sinks
    <2>6. Follows(t, 1, FALSE, FALSE)
      BY <2>5 DEF Follows, Counted, Emptied
    <2>7. QED
      BY <1>2, <2>1, <2>2, <2>6
  <1>3. CASE s.part = "InHead" /\ spaced
    <2>1. PICK u : u = BadFormat(s)
      OBVIOUS
    <2>2. u \in Sinks /\ ~u.ok /\ u.part = "BadInput" /\ u.adds = << >>
      BY <2>1, BadFormatIs DEF BadFormat, Sinks
    <2>3. InputChar(s, "space") = u
      BY <1>3, <2>1 DEF InputChar, InHead
    <2>4. InputChar(u, "{") = u
      BY <2>2 DEF InputChar
    <2>5. QED
      BY <1>3, <2>2, <2>3, <2>4 DEF Follows, Emptied
  <1>4. CASE s.part # "InHead"
    <2>1. s.part \in {"InEnd", "BadInput"}
      BY <1>4 DEF AtRest
    <2>2. PICK u : u = [s EXCEPT !.ok = FALSE]
      OBVIOUS
    <2>3. u \in Sinks /\ ~u.ok /\ u.part = s.part /\ u.group = s.group /\ u.adds = << >>
      BY <2>2 DEF Sinks
    <2>4. InputChar(s, "space") = u /\ InputChar(s, "{") = u
      BY <2>1, <2>2 DEF InputChar
    <2>5. InputChar(u, "{") = u
      BY <2>3 DEF InputChar
    <2>6. QED
      BY <1>4, <2>1, <2>3, <2>4, <2>5 DEF Follows, AtRest, Emptied
  <1>5. QED
    BY <1>2, <1>3, <1>4

LEMMA StartKeeps ==
    ASSUME Agreement, NEW c \in Chars, StartOf(c)
    PROVE  Agreement'
  <1>1. /\ ScannerOK /\ TextsOK /\ Ranges /\ Buffered /\ CommandsAreWhole /\ Resting
    BY DEF Agreement
  <1>2. PICK s : s = [sink EXCEPT !.adds = << >>]
    OBVIOUS
  <1>3. PICK spaced \in BOOLEAN : spaced = (begun /\ kind # "Discard")
    OBVIOUS
  <1>4. /\ Reading /\ depth = 0 /\ c \in {"[", "{"}
        /\ sink' = s /\ start' = [part |-> sink.part, spaced |-> spaced]
        /\ kind' = IF c = "[" THEN "Message" ELSE "Data"
        /\ begun' = TRUE /\ depth' = 1
        /\ message' = IF message = {} THEN {} ELSE {"earlier"}
        /\ item' = Start(c)
        /\ notice' = "none" /\ ended' = "none"
        /\ previous' = previous /\ inString' = inString /\ escaping' = escaping
    BY <1>2, <1>3, Zenon DEF StartOf
  <1>5. pending' = IF c = "{" THEN InputChar(IF spaced THEN InputChar(Input(s), "space") ELSE Input(s), c)
                   ELSE sink
    BY <1>2, <1>3, <1>4 DEF StartOf
  <1>6. /\ Reading /\ depth = 0 /\ previous' = previous /\ kind' \in {"Message", "Data"}
        /\ begun' = TRUE /\ depth' = 1 /\ notice' = "none" /\ ended' = "none"
        /\ message' = IF message = {} THEN {} ELSE {"earlier"}
        /\ inString' = inString /\ escaping' = escaping
    BY <1>4
  <1>7. /\ previous \notin {"Data", "Message"}
        /\ inString = FALSE /\ escaping = FALSE /\ message = {}
    BY <1>1, <1>6 DEF Ranges, Buffered, ScannerOK
  <1>8. AtRest(sink) /\ sink \in Sinks
    BY <1>1, <1>7 DEF Resting, TextsOK
  <1>9. s \in Sinks /\ s.adds = << >> /\ s.part = sink.part /\ AtRest(s)
    BY <1>2, <1>8, AtRestKeepsAdds
  <1>10. PICK i : i = Input(s)
    OBVIOUS
  <1>11. /\ i \in Sinks /\ i.ok /\ i.adds = << >> /\ i.part = sink.part /\ AtRest(i)
    BY <1>9, <1>10, InputIs DEF AtRest, Emptied
  <1>12. ASSUME c = "{"
         PROVE  /\ pending' \in Sinks /\ Follows(pending', 1, FALSE, FALSE)
                /\ IF sink.part = "InHead" /\ ~spaced
                   THEN Corresponds(item', pending') ELSE ~pending'.ok /\ pending'.adds = << >>
    BY <1>3, <1>4, <1>5, <1>10, <1>11, <1>12, ObjectStarts
  <1>13. ScannerOK'
    BY <1>1, <1>6, <1>7 DEF ScannerOK, Recipients
  <1>14. TextsOK'
    <2>1. item' \in Texts /\ item'.expect # "wrong"
      BY <1>4, StartIs DEF Brackets, Start, Text
    <2>2. pending' \in Sinks
      BY <1>4, <1>5, <1>8, <1>12
    <2>3. start' \in [part : Parts, spaced : BOOLEAN]
      BY <1>4, <1>8 DEF Sinks
    <2>4. QED
      BY <1>4, <1>9, <2>1, <2>2, <2>3 DEF TextsOK
  <1>15. Ranges'
    BY <1>1, <1>6, <1>7 DEF Ranges, Reading
  <1>16. Buffered' /\ CommandsAreWhole'
    BY <1>4, <1>7 DEF Buffered, CommandsAreWhole
  <1>17. Resting'
    BY <1>4, <1>9 DEF Resting, AtRest, Emptied
  <1>18. Following'
    BY <1>4, <1>7, <1>12 DEF Following, Current
  <1>19. Matching'
    <2>1. SUFFICES ASSUME c = "{", Ready'
                   PROVE  WellFormed(item') /\ Matches(item', pending')
      BY <1>4 DEF Matching, Current
    <2>2. sink.part = "InHead" /\ ~spaced
      BY <1>4, <2>1 DEF Ready
    <2>3. QED
      BY <1>12, <2>1, <2>2 DEF Corresponds
  <1>20. WellFormedIsStored'
    BY <1>4 DEF WellFormedIsStored
  <1>21. Refusing'
    <2>1. SUFFICES ASSUME c = "{", ~Ready'
                   PROVE  ~pending'.ok /\ pending'.adds = << >>
      BY <1>4 DEF Refusing
    <2>2. ~(sink.part = "InHead" /\ ~spaced)
      BY <1>4, <2>1 DEF Ready
    <2>3. QED
      BY <1>12, <2>1, <2>2
  <1>22. QED
    BY <1>13, <1>14, <1>15, <1>16, <1>17, <1>18, <1>19, <1>20, <1>21 DEF Agreement

(* The last bracket of an object.                                          *)
LEMMA ObjectEnds ==
    ASSUME Agreement, NEW c \in Chars, EndOfObject(c)
    PROVE  Agreement'
  <1>1. /\ ScannerOK /\ TextsOK /\ Ranges /\ Buffered /\ CommandsAreWhole
        /\ Resting /\ Following /\ Matching /\ Refusing
    BY DEF Agreement
  <1>2. PICK last : last = InputChar(Current, c)
    OBVIOUS
  <1>3. PICK r \in {"Discard", "DiscardRetroactively"} :
            r = IF last.ok THEN "Discard" ELSE "DiscardRetroactively"
    OBVIOUS
  <1>4. c \in {"]", "}"}
    BY DEF EndOfObject
  <1>5. /\ Reading /\ ~inString /\ depth = 1 /\ kind = "Data"
        /\ sink' = End(last) /\ pending' = sink'
        /\ previous' = r /\ kind' = r /\ begun' = FALSE
        /\ notice' = IF last.told THEN "error" ELSE "none"
        /\ depth' = 0 /\ item' = Read(item, c) /\ ended' = "object"
        /\ inString' = inString /\ escaping' = escaping /\ message' = message /\ start' = start
    BY <1>2, <1>3 DEF EndOfObject, NewRange, Current
  <1>6. Current \in Sinks /\ last \in Sinks
    BY <1>1, <1>2, CurrentIs, SinkTypes
  <1>7. sink' \in Sinks /\ AtRest(sink')
    BY <1>5, <1>6, EndIs
  <1>8. message = {} /\ escaping = FALSE /\ inString = FALSE
    BY <1>1, <1>5 DEF Buffered, Ranges, ScannerOK
  <1>9. ScannerOK'
    <2>1. r \in Recipients
      BY <1>3 DEF Recipients
    <2>2. notice' \in {"none", "error", "reset"} /\ 0 \in Int /\ FALSE \in BOOLEAN
      BY <1>5
    <2>3. message' \subseteq {"this", "earlier"} /\ ended' \in {"none", "object", "message"}
      BY <1>5, <1>8
    <2>4. QED
      BY <1>5, <1>8, <2>1, <2>2, <2>3 DEF ScannerOK
  <1>10. TextsOK'
    <2>1. item' \in Texts /\ (item'.expect = "wrong" => item'.string = "none")
      BY <1>1, <1>5, TextTypes, ReadWrong DEF TextsOK
    <2>2. QED
      BY <1>1, <1>5, <1>7, <2>1 DEF TextsOK
  <1>11. Ranges'
    BY <1>3, <1>5, <1>8 DEF Ranges, Reading
  <1>12. Buffered' /\ CommandsAreWhole'
    BY <1>5, <1>8 DEF Buffered, CommandsAreWhole
  <1>13. Resting' /\ Following' /\ Matching' /\ Refusing'
    BY <1>3, <1>5, <1>7 DEF Resting, Following, Matching, Refusing, AtRest, Emptied
  <1>14. ASSUME item'.expect = "end", Ready
         PROVE  sink'.adds = <<item'.members>> /\ Reading'
    <2>1. item'.expect = "end" /\ Ready
      BY <1>14
    <2>2. item \in Texts /\ item.expect # "wrong"
      BY <1>1, <1>5, <2>1, ReadWrong DEF TextsOK
    <2>3. Corresponds(item, Current)
      BY <1>1, <1>5, <2>1, <2>2 DEF Matching, Corresponds
    <2>4. c \in Chars \ {"zero"} /\ c # "space"
      BY <1>4
    <2>5. Stored(item', last) \/ Corresponds(item', last)
      BY <1>2, <1>5, <1>6, <2>1, <2>2, <2>3, <2>4, CharMatches
    <2>6. ~Corresponds(item', last)
      BY <2>1 DEF Corresponds, WellFormed, Expected
    <2>7. last.ok /\ last.group = NoGroup /\ last.adds = <<item'.members>>
      BY <2>5, <2>6 DEF Stored
    <2>8. QED
      BY <1>3, <1>5, <1>6, <2>7, EndIs DEF Reading
  <1>15. ASSUME ~Ready
         PROVE  sink'.adds = << >> /\ ~Reading'
    <2>1. begun /\ ~pending.ok /\ pending.adds = << >>
      BY <1>1, <1>5, <1>15 DEF Refusing
    <2>2. Current = pending /\ last = pending
      BY <1>2, <2>1 DEF Current, InputChar
    <2>3. pending.part \in {"InEnd", "BadInput"} /\ Emptied(pending)
      BY <1>1, <1>5, <2>1, <2>2 DEF Following, Follows
    <2>4. last.group = NoGroup \/ last.part = "BadInput"
      BY <2>2, <2>3 DEF Emptied
    <2>5. End(last).adds = << >>
      BY <1>6, <2>1, <2>2, <2>4, EndIs
    <2>6. QED
      BY <1>3, <1>5, <2>1, <2>2, <2>5 DEF Reading
  <1>16. WellFormedIsStored'
    BY <1>5, <1>14, <1>15 DEF WellFormedIsStored, Complete, Ready
  <1>17. QED
    BY <1>9, <1>10, <1>11, <1>12, <1>13, <1>16 DEF Agreement

LEMMA MessageEnds ==
    ASSUME Agreement, NEW c \in Chars, EndOfMessage(c)
    PROVE  Agreement'
  <1>1. ScannerOK /\ TextsOK /\ Ranges /\ Resting
    BY DEF Agreement
  <1>2. PICK r \in {"Discard", "DiscardRetroactively"} :
            r = IF Complete(item') THEN "Discard" ELSE "DiscardRetroactively"
    OBVIOUS
  <1>3. /\ Reading /\ ~inString /\ depth = 1 /\ kind = "Message"
        /\ sink' = sink /\ pending' = pending
        /\ previous' = r /\ kind' = r /\ begun' = FALSE
        /\ notice' \in {"none", "error"}
        /\ depth' = 0 /\ item' = Read(item, c) /\ ended' = "message" /\ message' = {}
        /\ inString' = inString /\ escaping' = escaping /\ start' = start
    BY <1>2 DEF EndOfMessage, NewRange
  <1>4. AtRest(sink) /\ escaping = FALSE /\ inString = FALSE
    BY <1>1, <1>3 DEF Resting, Ranges, ScannerOK
  <1>5. ScannerOK'
    <2>1. r \in Recipients
      BY <1>2 DEF Recipients
    <2>2. notice' \in {"none", "error", "reset"} /\ 0 \in Int /\ FALSE \in BOOLEAN
      BY <1>3
    <2>3. message' \subseteq {"this", "earlier"} /\ ended' \in {"none", "object", "message"}
      BY <1>3
    <2>4. QED
      BY <1>3, <1>4, <2>1, <2>2, <2>3 DEF ScannerOK
  <1>6. TextsOK'
    <2>1. item' \in Texts /\ (item'.expect = "wrong" => item'.string = "none")
      BY <1>1, <1>3, TextTypes, ReadWrong DEF TextsOK
    <2>2. QED
      BY <1>1, <1>3, <2>1 DEF TextsOK
  <1>7. Ranges'
    BY <1>2, <1>3, <1>4 DEF Ranges, Reading
  <1>8. /\ Buffered' /\ CommandsAreWhole' /\ Resting' /\ Following' /\ Matching'
        /\ Refusing' /\ WellFormedIsStored'
    BY <1>2, <1>3, <1>4
       DEF Buffered, CommandsAreWhole, Resting, Following, Matching, Refusing,
           WellFormedIsStored, AtRest, Emptied
  <1>9. QED
    BY <1>5, <1>6, <1>7, <1>8 DEF Agreement

(* A stream that goes bad, or is reset.                                    *)
LEMMA ThrownAway ==
    ASSUME Agreement, NEW r \in {"Reset", "DiscardRetroactively"}, ThrowAway(r),
           depth' \in Int, r = "Reset" => depth' = 0 /\ inString' = FALSE /\ escaping' = FALSE,
           inString' \in BOOLEAN, escaping' \in BOOLEAN,
           notice' \in {"none", "error", "reset"}, ended' = "none",
           item' \in {item, Wrong}, start' = start
    PROVE  Agreement'
  <1>1. /\ ScannerOK /\ TextsOK /\ Ranges /\ Buffered /\ CommandsAreWhole /\ Resting
    BY DEF Agreement
  <1>2. /\ previous' = r /\ kind' = r /\ begun' = FALSE
        /\ sink' = IF previous = "Data" THEN End(sink) ELSE sink
        /\ pending' = sink'
        /\ message' = IF previous = "Message" THEN {} ELSE message
    BY DEF ThrowAway, NewRange, DiscardMessage, Discard
  <1>3. sink' \in Sinks /\ AtRest(sink')
    BY <1>1, <1>2, EndIs DEF TextsOK, Resting
  <1>4. message' = {}
    BY <1>1, <1>2 DEF Buffered
  <1>5. ScannerOK'
    BY <1>2, <1>4 DEF ScannerOK, Recipients
  <1>6. TextsOK'
    <2>1. Wrong.string = "none"
      BY DEF Wrong, Text
    <2>2. item' = item \/ item' = Wrong
      OBVIOUS
    <2>3. item' \in Texts /\ (item'.expect = "wrong" => item'.string = "none")
      BY <1>1, <2>1, <2>2, WrongIs DEF TextsOK
    <2>4. QED
      BY <1>1, <1>2, <1>3, <2>3 DEF TextsOK
  <1>7. Ranges'
    BY <1>2 DEF Ranges, Reading
  <1>8. /\ Buffered' /\ CommandsAreWhole' /\ Resting' /\ Following' /\ Matching'
        /\ Refusing' /\ WellFormedIsStored'
    BY <1>2, <1>3, <1>4
       DEF Buffered, CommandsAreWhole, Resting, Following, Matching, Refusing,
           WellFormedIsStored, AtRest, Emptied
  <1>9. QED
    BY <1>5, <1>6, <1>7, <1>8 DEF Agreement

LEMMA BreaksKeep ==
    ASSUME Agreement, Zero \/ \E c \in Chars : Stray(c)
    PROVE  Agreement'
  <1>1. ScannerOK /\ Ranges
    BY DEF Agreement
  <1>2. CASE Zero
    <2>1. /\ ThrowAway("Reset") /\ depth' = 0 /\ inString' = FALSE /\ escaping' = FALSE
          /\ item' \in {item, Wrong} /\ ended' = "none" /\ start' = start
      BY <1>2 DEF Zero, ClearState
    <2>2. notice' \in {"none", "error", "reset"} /\ 0 \in Int /\ FALSE \in BOOLEAN
      BY <1>2 DEF Zero
    <2>3. QED
      BY <2>1, <2>2, ThrownAway
  <1>3. CASE \E c \in Chars : Stray(c)
    <2>1. PICK c \in Chars : Stray(c)
      BY <1>3
    <2>2. /\ ThrowAway("DiscardRetroactively") /\ depth' \in {-1, 0}
          /\ inString' = inString /\ escaping' = escaping /\ notice' = "error"
          /\ item' \in {item, Wrong} /\ ended' = "none" /\ start' = start
      BY <2>1, Zenon DEF Stray
    <2>3. depth' \in Int /\ inString' \in BOOLEAN /\ escaping' \in BOOLEAN
          /\ notice' \in {"none", "error", "reset"}
      BY <1>1, <2>2 DEF ScannerOK
    <2>4. QED
      BY <2>2, <2>3, ThrownAway
  <1>4. QED
    BY <1>2, <1>3

LEMMA PassKeeps ==
    ASSUME Agreement, Reading, PassRange
    PROVE  Agreement'
  <1>1. /\ ScannerOK /\ TextsOK /\ Ranges /\ Buffered /\ CommandsAreWhole
        /\ Resting /\ Following /\ Matching /\ Refusing
    BY DEF Agreement
  <1>2. /\ begun /\ ended' = "none" /\ depth' = depth /\ inString' = inString
        /\ escaping' = escaping /\ pending' = pending /\ item' = item /\ start' = start
    BY DEF PassRange
  <1>3. kind \in {"Data", "Message", "Discard", "Reset"}
    BY <1>1 DEF ScannerOK, Recipients, Ranges
  <1>4. CASE kind = "Data"
    <2>1. PICK r \in {"Data", "DiscardRetroactively"} :
              r = IF pending.ok THEN "Data" ELSE "DiscardRetroactively"
      OBVIOUS
    <2>2. /\ previous' = r /\ kind' = r /\ begun' = FALSE /\ sink' = pending
          /\ notice' \in {"none", "error"} /\ message' = message
      BY <1>4, <2>1 DEF PassRange, PassData, NewRange
    <2>3. Follows(pending, depth, inString, escaping) /\ pending \in Sinks
      BY <1>1, <1>2, <1>4 DEF Following, Current, TextsOK
    <2>4. message = {}
      BY <1>1, <1>4 DEF Ranges, Buffered
    <2>5. ScannerOK' /\ TextsOK'
      BY <1>1, <1>2, <2>2, <2>3 DEF ScannerOK, TextsOK, Recipients
    <2>6. Ranges'
      BY <1>1, <1>2, <1>4, <2>2 DEF Ranges, Reading
    <2>7. Buffered' /\ CommandsAreWhole' /\ WellFormedIsStored'
      BY <1>2, <2>2, <2>4 DEF Buffered, CommandsAreWhole, WellFormedIsStored
    <2>8. Resting'
      BY <2>1, <2>2, <2>3 DEF Resting, AtRest, Follows, Emptied
    <2>9. Following'
      <3>1. ASSUME r = "Data" PROVE Follows(Input(pending), depth, inString, escaping)
        BY <2>1, <2>3, <3>1, InputKeeps
      <3>2. QED
        BY <1>2, <2>1, <2>2, <3>1 DEF Following, Current
    <2>10. Matching'
      <3>1. SUFFICES ASSUME r = "Data", item.expect # "wrong", Ready
                     PROVE  WellFormed(item) /\ Matches(item, Input(pending))
        BY <1>2, <2>1, <2>2 DEF Matching, Current, Ready
      <3>2. WellFormed(item) /\ Matches(item, pending)
        BY <1>1, <1>2, <1>4, <3>1 DEF Matching, Current
      <3>3. QED
        BY <2>1, <2>3, <3>1, <3>2, InputKeeps
    <2>11. Refusing'
      <3>1. ~Ready => r = "DiscardRetroactively"
        BY <1>1, <1>2, <1>4, <2>1 DEF Refusing
      <3>2. QED
        BY <1>2, <2>2, <3>1 DEF Refusing, Reading, Ready
    <2>12. QED
      BY <2>5, <2>6, <2>7, <2>8, <2>9, <2>10, <2>11 DEF Agreement
  <1>5. CASE kind # "Data"
    <2>1. /\ previous' = kind /\ kind' = kind /\ begun' = FALSE /\ sink' = sink
          /\ notice' = "none"
          /\ message' = IF kind = "Message" THEN message \cup {"this"} ELSE message
      BY <1>3, <1>5 DEF PassRange, PassMessage, NewRange
    <2>2. previous # "Data" /\ AtRest(sink)
      BY <1>1, <1>5 DEF Ranges, Resting
    <2>3. kind # "Message" => message = {}
      BY <1>1 DEF Ranges, Buffered
    <2>4. ScannerOK' /\ TextsOK'
      BY <1>1, <1>2, <2>1 DEF ScannerOK, TextsOK
    <2>5. Ranges'
      BY <1>1, <1>2, <2>1 DEF Ranges, Reading
    <2>6. Buffered' /\ CommandsAreWhole' /\ WellFormedIsStored'
      BY <1>1, <1>2, <2>1, <2>3 DEF Buffered, CommandsAreWhole, WellFormedIsStored
    <2>7. Resting' /\ Following' /\ Matching' /\ Refusing'
      BY <1>5, <2>1, <2>2 DEF Resting, Following, Matching, Refusing, AtRest, Emptied
    <2>8. QED
      BY <2>4, <2>5, <2>6, <2>7 DEF Agreement
  <1>6. QED
    BY <1>4, <1>5

(* Nothing changes but what is said of the latest step.                    *)
LEMMA QuietKeeps ==
    ASSUME Agreement, notice' \in {"none", "error", "reset"}, ended' \in {"none", ended},
           UNCHANGED <<scan, pending, sink, message, item, start>>
    PROVE  Agreement'
  <1>1. /\ previous' = previous /\ kind' = kind /\ begun' = begun /\ depth' = depth
        /\ inString' = inString /\ escaping' = escaping
        /\ pending' = pending /\ sink' = sink /\ message' = message /\ item' = item /\ start' = start
    BY DEF scan
  <1>2. ScannerOK' /\ TextsOK' /\ Ranges' /\ Buffered' /\ CommandsAreWhole'
    BY <1>1 DEF Agreement, ScannerOK, TextsOK, Ranges, Buffered, CommandsAreWhole, Reading
  <1>3. Resting' /\ Following' /\ Matching' /\ Refusing'
    BY <1>1 DEF Agreement, Resting, Following, Matching, Refusing, AtRest, Emptied, Reading,
                Current, Ready
  <1>4. WellFormedIsStored'
    BY <1>1 DEF Agreement, WellFormedIsStored, Reading, Ready
  <1>5. QED
    BY <1>2, <1>3, <1>4 DEF Agreement

LEMMA SpaceKeeps ==
    ASSUME Agreement, SpaceBetween
    PROVE  Agreement'
  <1>1. /\ ScannerOK /\ TextsOK /\ Ranges /\ Buffered /\ CommandsAreWhole /\ Resting
    BY DEF Agreement
  <1>2. Reading /\ depth = 0 /\ depth' = depth /\ inString' = inString /\ escaping' = escaping
    BY DEF SpaceBetween
  <1>3. kind \notin {"Data", "Message"}
    BY <1>1, <1>2 DEF Ranges
  <1>4. /\ begun' = TRUE /\ pending' = pending /\ item' = item /\ notice' = "none"
        /\ ended' = "none" /\ previous' = previous /\ kind' = kind /\ sink' = sink
        /\ message' = message /\ start' = start
    BY <1>2, <1>3 DEF SpaceBetween, Take
  <1>5. ScannerOK' /\ TextsOK' /\ Ranges' /\ Buffered' /\ CommandsAreWhole'
    BY <1>1, <1>2, <1>4 DEF ScannerOK, TextsOK, Ranges, Buffered, CommandsAreWhole, Reading
  <1>6. Resting' /\ Following' /\ Matching' /\ Refusing' /\ WellFormedIsStored'
    BY <1>1, <1>3, <1>4
       DEF Resting, Following, Matching, Refusing, WellFormedIsStored, AtRest, Emptied
  <1>7. QED
    BY <1>5, <1>6 DEF Agreement

LEMMA InitAgrees == Init => Agreement
  <1> SUFFICES ASSUME Init PROVE Agreement
    OBVIOUS
  <1>1. /\ previous = "Discard" /\ kind = "Discard" /\ begun = FALSE
        /\ depth = 0 /\ inString = FALSE /\ escaping = FALSE
        /\ pending = Fresh /\ sink = Fresh /\ message = {} /\ notice = "none"
        /\ item = Wrong /\ start = [part |-> "InHead", spaced |-> FALSE] /\ ended = "none"
    BY DEF Init
  <1>2. ScannerOK
    <2>1. "Discard" \in Recipients
      BY DEF Recipients
    <2>2. 0 \in Int /\ FALSE \in BOOLEAN /\ {} \subseteq {"this", "earlier"}
      OBVIOUS
    <2>3. QED
      BY <1>1, <2>1, <2>2 DEF ScannerOK
  <1>3. TextsOK
    BY <1>1, FreshIs, WrongIs, Names DEF TextsOK, Wrong, Text
  <1>4. Ranges /\ Buffered /\ CommandsAreWhole
    BY <1>1 DEF Ranges, Buffered, CommandsAreWhole, Reading
  <1>5. Resting /\ Following /\ Matching /\ Refusing /\ WellFormedIsStored
    BY <1>1, FreshIs DEF Resting, Following, Matching, Refusing, WellFormedIsStored
  <1>6. QED
    BY <1>2, <1>3, <1>4, <1>5 DEF Agreement

LEMMA StepsAgree == Agreement /\ (Next \/ UNCHANGED vars) => Agreement'
  <1> SUFFICES ASSUME Agreement, Next \/ UNCHANGED vars PROVE Agreement'
    OBVIOUS
  <1>1. notice \in {"none", "error", "reset"}
    BY DEF Agreement, ScannerOK
  <1>2. ASSUME NEW c \in Chars,
               StringChar(c) \/ OpenInner(c) \/ CloseInner(c) \/ Inner(c) \/ StartOf(c)
                 \/ EndOfObject(c) \/ EndOfMessage(c) \/ Stray(c)
        PROVE  Agreement'
    BY <1>2, CharactersKeep, StartKeeps, ObjectEnds, MessageEnds, BreaksKeep
  <1>3. ASSUME NEW c \in Chars, Ignore(c) PROVE Agreement'
    BY <1>3, QuietKeeps DEF Ignore
  <1>4. CASE Zero
    BY <1>4, BreaksKeep
  <1>5. CASE DropSpace
    BY <1>5, PassKeeps, QuietKeeps DEF DropSpace
  <1>6. CASE SpaceBetween
    BY <1>6, SpaceKeeps
  <1>7. CASE ReadEnds
    BY <1>7, PassKeeps DEF ReadEnds
  <1>8. CASE UNCHANGED vars
    BY <1>1, <1>8, QuietKeeps DEF vars
  <1>9. QED
    BY <1>2, <1>3, <1>4, <1>5, <1>6, <1>7, <1>8 DEF Next

LEMMA AgreementHolds == InputsSpec => []Agreement
  <1>1. InputsInit => Agreement
    BY InitAgrees DEF InputsInit
  <1>2. Agreement /\ [InputsNext]_<<vars, rawVars>> => Agreement'
    BY StepsAgree DEF InputsNext
  <1>3. QED
    BY <1>1, <1>2, PTL DEF InputsSpec

(***************************************************************************)
(* The scanner and the sink count the same brackets and see the same       *)
(* strings in everything a peer sends, whatever it is and however it is    *)
(* cut into reads.                                                         *)
(***************************************************************************)
THEOREM ScannerAndSinkAgree == InputsSpec => []SinkFollowsScanner
  <1>1. Agreement => SinkFollowsScanner
    <2>1. SUFFICES ASSUME Agreement, Reading, kind = "Data", begun, pending.ok
                   PROVE  /\ depth = pending.dicts + pending.arrays
                          /\ inString = pending.inString /\ escaping = pending.escaping
      BY DEF SinkFollowsScanner
    <2>2. Follows(pending, depth, inString, escaping)
      BY <2>1 DEF Agreement, Following, Current
    <2>3. /\ inString \in BOOLEAN /\ escaping \in BOOLEAN
          /\ pending.inString \in BOOLEAN /\ pending.escaping \in BOOLEAN
      BY <2>1 DEF Agreement, ScannerOK, TextsOK, Sinks
    <2>4. QED
      BY <2>1, <2>2, <2>3 DEF Follows
  <1>2. QED
    BY <1>1, AgreementHolds, PTL

(***************************************************************************)
(* A command is never parsed behind what was left of an earlier one.       *)
(***************************************************************************)
THEOREM CommandsStayWhole == InputsSpec => []CommandsAreWhole
  <1>1. Agreement => CommandsAreWhole
    BY DEF Agreement
  <1>2. QED
    BY <1>1, AgreementHolds, PTL

(***************************************************************************)
(* A well-formed object, however deep it is nested and whatever was sent   *)
(* before it, is stored once and with every member when it finds the sink  *)
(* ready, and is otherwise refused whole.                                  *)
(***************************************************************************)
THEOREM ObjectsAreStored == InputsSpec => []WellFormedIsStored
  <1>1. Agreement => WellFormedIsStored
    BY DEF Agreement
  <1>2. QED
    BY <1>1, AgreementHolds, PTL

(***************************************************************************)
(* Messages put end to end: the recursive definition of FlattenSeq has a   *)
(* solution, and what it is does not depend on messages that come later.   *)
(***************************************************************************)
LEMMA LeastNumber ==
    ASSUME NEW S, S \subseteq Nat, S # {}
    PROVE  \E m \in S : \A k \in S : m <= k
  <1>1. PICK m \in S : \A k \in S : ~(<<k, m>> \in OpToRel(<, Nat))
    BY WFMin, NatLessThanWellFounded, Zenon
  <1>2. \A k \in S : k < m => <<k, m>> \in OpToRel(<, Nat)
    BY DEF OpToRel
  <1>3. \A k \in S : ~(k < m) /\ k \in Nat /\ m \in Nat
    BY <1>1, <1>2
  <1>4. QED
    BY <1>3

Flat(f, s, n) == f = [i \in 1 .. n |-> IF i = 1 THEN s[i] ELSE f[i - 1] \o s[i]]

LEMMA FlatExists ==
    ASSUME NEW s, NEW n \in Nat
    PROVE  \E f : Flat(f, s, n)
  <1> DEFINE Bad == {m \in Nat : ~\E f : Flat(f, s, m)}
  <1>1. SUFFICES ASSUME Bad # {} PROVE FALSE
    OBVIOUS
  <1>2. PICK m \in Bad : \A k \in Bad : m <= k
    <2>1. Bad \subseteq Nat
      OBVIOUS
    <2> HIDE DEF Bad
    <2>2. QED
      BY <1>1, <2>1, LeastNumber
  <1>3. m \in Nat /\ ~\E f : Flat(f, s, m)
    OBVIOUS
  <1>4. CASE m = 0
    <2> DEFINE f == [i \in 1 .. m |-> << >>]
    <2>1. \A i : i \notin 1 .. m
      BY <1>4
    <2>2. f = [i \in 1 .. m |-> IF i = 1 THEN s[i] ELSE f[i - 1] \o s[i]]
      BY <2>1, Zenon
    <2>3. QED
      BY <1>3, <2>2 DEF Flat
  <1>5. CASE m # 0
    <2>1. m - 1 \in Nat /\ ~(m <= m - 1)
      BY <1>3, <1>5
    <2>2. PICK f : Flat(f, s, m - 1)
      BY <1>2, <2>1
    <2> DEFINE piece(h, i) == IF i = 1 THEN s[i] ELSE h[i - 1] \o s[i]
               g == [i \in 1 .. m |-> IF i = m THEN piece(f, m) ELSE f[i]]
    <2>3. \A i \in 1 .. m : i # 1 => i - 1 \in 1 .. m /\ i - 1 # m
      BY <1>3
    <2>4. \A i \in 1 .. m : i # 1 => g[i - 1] = f[i - 1]
      BY <2>3, Zenon
    <2>5. \A i \in 1 .. m : piece(g, i) = piece(f, i)
      <3> HIDE DEF g
      <3>1. QED
        BY <2>4, Zenon
    <2>6. \A i \in 1 .. m : i # m => i \in 1 .. m - 1
      BY <1>3
    <2>7. \A i \in 1 .. m : i # m => f[i] = piece(f, i)
      BY <2>2, <2>6, Zenon DEF Flat
    <2>8. \A i \in 1 .. m : g[i] = piece(g, i)
      <3>1. \A i \in 1 .. m : g[i] = IF i = m THEN piece(f, m) ELSE f[i]
        BY Zenon
      <3> HIDE DEF g, piece
      <3>2. QED
        BY <2>5, <2>7, <3>1, Zenon
    <2>9. g = [i \in 1 .. m |-> piece(g, i)]
      <3>1. g = [i \in 1 .. m |-> g[i]]
        OBVIOUS
      <3> HIDE DEF g, piece
      <3>2. QED
        BY <2>8, <3>1, Zenon
    <2>10. QED
      BY <1>3, <2>9 DEF Flat
  <1>6. QED
    BY <1>4, <1>5

LEMMA FlatIs ==
    ASSUME NEW s \in Seq(Seq(Nat)), NEW n \in Nat, n <= Len(s), NEW f, Flat(f, s, n)
    PROVE  /\ \A i \in 1 .. n : f[i] = IF i = 1 THEN s[i] ELSE f[i - 1] \o s[i]
           /\ \A i \in 1 .. n : f[i] \in Seq(Nat)
  <1>1. \A i \in 1 .. n : f[i] = IF i = 1 THEN s[i] ELSE f[i - 1] \o s[i]
    BY Zenon DEF Flat
  <1>2. \A i \in 1 .. n : s[i] \in Seq(Nat)
    BY LenProperties
  <1> DEFINE Bad == {i \in 1 .. n : f[i] \notin Seq(Nat)}
  <1>3. ASSUME Bad # {} PROVE FALSE
    <2>1. PICK m \in Bad : \A k \in Bad : m <= k
      <3>1. Bad \subseteq Nat
        OBVIOUS
      <3> HIDE DEF Bad
      <3>2. QED
        BY <1>3, <3>1, LeastNumber
    <2>2. m \in 1 .. n /\ f[m] \notin Seq(Nat)
      OBVIOUS
    <2>3. m # 1
      BY <1>1, <1>2, <2>2
    <2>4. m - 1 \in 1 .. n /\ ~(m <= m - 1)
      BY <2>2, <2>3
    <2>5. f[m - 1] \in Seq(Nat)
      BY <2>1, <2>4
    <2>6. f[m] = f[m - 1] \o s[m]
      BY <1>1, <2>2, <2>3
    <2>7. f[m - 1] \o s[m] \in Seq(Nat)
      BY <1>2, <2>2, <2>5, ConcatProperties
    <2>8. QED
      BY <2>2, <2>6, <2>7
  <1>4. QED
    BY <1>1, <1>3

SameUpTo(n, s, t) == \A i \in 1 .. n : s[i] = t[i]

LEMMA FlatAgrees ==
    ASSUME NEW s, NEW t, NEW n \in Nat, NEW m \in Nat, n <= m, SameUpTo(n, s, t),
           NEW f, Flat(f, s, n), NEW g, Flat(g, t, m)
    PROVE  SameUpTo(n, f, g)
  <1>1. \A i \in 1 .. n : i \in 1 .. m
    OBVIOUS
  <1>2. \A i \in 1 .. n : /\ f[i] = IF i = 1 THEN s[i] ELSE f[i - 1] \o s[i]
                          /\ g[i] = IF i = 1 THEN s[i] ELSE g[i - 1] \o s[i]
    BY <1>1, Zenon DEF Flat, SameUpTo
  <1> DEFINE Bad == {i \in 1 .. n : f[i] # g[i]}
  <1>3. ASSUME Bad # {} PROVE FALSE
    <2>1. PICK j \in Bad : \A k \in Bad : j <= k
      <3>1. Bad \subseteq Nat
        OBVIOUS
      <3> HIDE DEF Bad
      <3>2. QED
        BY <1>3, <3>1, LeastNumber
    <2>2. j \in 1 .. n /\ f[j] # g[j]
      OBVIOUS
    <2>3. j # 1
      BY <1>2, <2>2
    <2>4. j - 1 \in 1 .. n /\ ~(j <= j - 1)
      BY <2>2, <2>3
    <2>5. f[j - 1] = g[j - 1]
      BY <2>1, <2>4
    <2>6. QED
      BY <1>2, <2>2, <2>3, <2>5
  <1>4. QED
    BY <1>3 DEF SameUpTo

LEMMA FlattenIs ==
    ASSUME NEW s \in Seq(Seq(Nat))
    PROVE  \/ s = << >> /\ FlattenSeq(s) = << >>
           \/ Len(s) # 0 /\ \E f : Flat(f, s, Len(s)) /\ FlattenSeq(s) = f[Len(s)]
  <1>1. CASE s = << >>
    <2>1. Len(s) = 0
      BY <1>1
    <2>2. QED
      BY <1>1, <2>1 DEF FlattenSeq
  <1>2. CASE s # << >>
    <2>1. PICK n \in Nat : n = Len(s) /\ n # 0
      BY <1>2, LenProperties, EmptySeq
    <2>2. \E f : f = [i \in 1 .. n |-> IF i = 1 THEN s[i] ELSE f[i - 1] \o s[i]]
      BY FlatExists DEF Flat
    <2> DEFINE g == CHOOSE f : f = [i \in 1 .. n |-> IF i = 1 THEN s[i] ELSE f[i - 1] \o s[i]]
    <2>3. g = [i \in 1 .. n |-> IF i = 1 THEN s[i] ELSE g[i - 1] \o s[i]]
      BY <2>2, Zenon
    <2>4. FlattenSeq(s) = g[n]
      BY <2>1, Zenon DEF FlattenSeq
    <2> HIDE DEF g
    <2>5. QED
      BY <2>1, <2>3, <2>4 DEF Flat
  <1>3. QED
    BY <1>1, <1>2

LEMMA Flattened ==
    ASSUME NEW s \in Seq(Seq(Nat)), NEW b \in Seq(Nat)
    PROVE  /\ FlattenSeq(s) \in Seq(Nat)
           /\ FlattenSeq(Append(s, b)) = FlattenSeq(s) \o b
  <1>1. PICK t : t = Append(s, b)
    OBVIOUS
  <1>2. PICK n \in Nat : n = Len(s)
    BY LenProperties
  <1>3. /\ t \in Seq(Seq(Nat)) /\ Len(t) = n + 1
        /\ \A i \in 1 .. n : s[i] = t[i]
        /\ t[n + 1] = b
    BY <1>1, <1>2, AppendProperties
  <1>4. n + 1 # 0 /\ n + 1 \in Nat /\ n + 1 \in 1 .. n + 1 /\ n <= n /\ (n + 1) - 1 = n
        /\ (n + 1 = 1 <=> n = 0) /\ (n # 0 => n \in 1 .. n)
    OBVIOUS
  <1>5. PICK g : Flat(g, t, n + 1) /\ FlattenSeq(t) = g[n + 1]
    BY <1>3, <1>4, FlattenIs
  <1>6. g[n + 1] = IF n = 0 THEN b ELSE g[n] \o b
    <2>1. g[n + 1] = IF n + 1 = 1 THEN t[n + 1] ELSE g[(n + 1) - 1] \o t[n + 1]
      BY <1>4, <1>5, Zenon DEF Flat
    <2>2. QED
      BY <1>3, <1>4, <2>1
  <1>7. CASE s = << >>
    <2>1. FlattenSeq(s) = << >> /\ n = 0
      BY <1>2, <1>7, FlattenIs
    <2>2. << >> \in Seq(Nat) /\ << >> \o b = b
      BY ConcatEmptySeq
    <2>3. QED
      BY <1>1, <1>5, <1>6, <2>1, <2>2
  <1>8. CASE s # << >>
    <2>1. n # 0
      BY <1>2, <1>8, EmptySeq
    <2>2. PICK f : Flat(f, s, n) /\ FlattenSeq(s) = f[n]
      BY <1>2, <1>8, FlattenIs
    <2>3. f[n] \in Seq(Nat)
      BY <1>2, <1>4, <2>1, <2>2, FlatIs
    <2>4. f[n] = g[n]
      <3>1. SameUpTo(n, s, t) /\ n + 1 \in Nat /\ n <= n + 1
        BY <1>3 DEF SameUpTo
      <3>2. SameUpTo(n, f, g)
        BY <1>5, <2>2, <3>1, FlatAgrees
      <3>3. QED
        BY <1>4, <2>1, <3>2 DEF SameUpTo
    <2>5. QED
      BY <1>1, <1>5, <1>6, <2>1, <2>2, <2>3, <2>4
  <1>9. QED
    BY <1>7, <1>8

(***************************************************************************)
(* The steps of a raw input.                                               *)
(***************************************************************************)
LEMMA Joined ==
    ASSUME NEW s \in Seq(Nat), NEW t \in Seq(Nat), NEW u \in Seq(Nat)
    PROVE  (s \o t) \o u = s \o (t \o u)
  BY ConcatAssociative, SMTT(30)

RawAgreement == RawOK /\ Blocks /\ Reported

LEMMA RawInitAgrees == RawInit => RawAgreement
  <1> SUFFICES ASSUME RawInit PROVE RawAgreement
    OBVIOUS
  <1>1. /\ format \in {"JSON", "bytes", "null"} /\ written = 0 /\ pipe = << >> /\ writing = TRUE
        /\ closed = FALSE /\ buffer = << >> /\ got = 0 /\ reader = "idle" /\ reports = << >>
    BY DEF RawInit
  <1>2. RawOK
    BY <1>1, EmptySeq DEF RawOK
  <1>3. Blocks
    BY <1>1 DEF Blocks
  <1>4. Reported
    <2>1. FlattenSeq(<< >>) = << >> /\ << >> \in Seq(Seq(Nat))
      BY EmptySeq, FlattenIs
    <2>2. << >> \o << >> \o << >> = << >>
      BY EmptySeq, ConcatEmptySeq
    <2>3. [i \in 1 .. 0 |-> i] = << >> /\ DOMAIN << >> = {}
      OBVIOUS
    <2>4. QED
      BY <1>1, <2>1, <2>2, <2>3 DEF Reported
  <1>5. QED
    BY <1>2, <1>3, <1>4 DEF RawAgreement

LEMMA WriteAgrees == RawAgreement /\ ChildWrites => RawAgreement'
  <1> SUFFICES ASSUME RawAgreement, ChildWrites PROVE RawAgreement'
    OBVIOUS
  <1>1. RawOK /\ Blocks /\ Reported
    BY DEF RawAgreement
  <1>2. /\ written' = written + 1 /\ pipe' = Append(pipe, written')
        /\ format' = format /\ writing' = writing /\ closed' = closed /\ buffer' = buffer
        /\ got' = got /\ reader' = reader /\ reports' = reports
    BY DEF ChildWrites
  <1>3. PICK n \in Nat : n = written
    BY <1>1 DEF RawOK
  <1>4. n + 1 \in Nat /\ pipe' \in Seq(Nat) /\ pipe' = Append(pipe, n + 1)
    BY <1>1, <1>2, <1>3, AppendProperties DEF RawOK
  <1>5. RawOK'
    BY <1>1, <1>2, <1>3, <1>4 DEF RawOK
  <1>6. Blocks'
    BY <1>1, <1>2 DEF Blocks
  <1>7. Reported'
    <2>1. SUFFICES ASSUME format = "bytes"
                   PROVE  FlattenSeq(reports) \o buffer \o pipe' = [i \in 1 .. n + 1 |-> i]
      BY <1>1, <1>2, <1>3 DEF Reported
    <2>2. PICK s \in Seq(Nat) : s = FlattenSeq(reports) \o buffer
      BY <1>1, Flattened, ConcatProperties DEF RawOK
    <2>3. s \o pipe = [i \in 1 .. n |-> i]
      BY <1>1, <1>3, <2>1, <2>2 DEF Reported
    <2>4. s \o pipe' = Append(s \o pipe, n + 1)
      <3>1. /\ pipe \in Seq(Nat) /\ <<n + 1>> \in Seq(Nat) /\ s \o pipe \in Seq(Nat)
            /\ pipe' = pipe \o <<n + 1>>
        BY <1>1, <1>4, AppendIsConcat, ConcatProperties DEF RawOK
      <3>2. (s \o pipe) \o <<n + 1>> = s \o (pipe \o <<n + 1>>)
        BY <3>1, ConcatAssociative
      <3>3. (s \o pipe) \o <<n + 1>> = Append(s \o pipe, n + 1)
        BY <1>4, <3>1, AppendIsConcat
      <3>4. QED
        BY <3>1, <3>2, <3>3
    <2>5. Append([i \in 1 .. n |-> i], n + 1) = [i \in 1 .. n + 1 |-> i]
      <3> DEFINE u == [i \in 1 .. n |-> i]
                 v == [i \in 1 .. n + 1 |-> i]
      <3>1. u \in Seq(Nat) /\ v \in Seq(Nat) /\ Len(u) = n /\ Len(v) = n + 1
        BY <1>4
      <3>2. PICK w : w = Append(u, n + 1)
        OBVIOUS
      <3>3. /\ w \in Seq(Nat) /\ Len(w) = n + 1
            /\ \A i \in 1 .. n : w[i] = u[i]
            /\ w[n + 1] = n + 1
        BY <1>4, <3>1, <3>2, AppendProperties
      <3>4. \A i \in 1 .. n + 1 : i = n + 1 \/ i \in 1 .. n
        OBVIOUS
      <3>5. \A i \in 1 .. n + 1 : w[i] = v[i]
        BY <3>3, <3>4
      <3> HIDE DEF u, v
      <3>6. w = v
        BY <3>1, <3>3, <3>5, SeqEqual
      <3>7. QED
        BY <3>2, <3>6 DEF u, v
    <2>6. QED
      BY <2>2, <2>3, <2>4, <2>5
  <1>8. QED
    BY <1>5, <1>6, <1>7 DEF RawAgreement

LEMMA BlockAgrees == RawAgreement /\ ReadBlock => RawAgreement'
  <1> SUFFICES ASSUME RawAgreement, ReadBlock PROVE RawAgreement'
    OBVIOUS
  <1>1. RawOK /\ Blocks /\ Reported
    BY DEF RawAgreement
  <1>2. PICK m \in Nat : m = Len(pipe) /\ m # 0
    BY <1>1, LenProperties, EmptySeq DEF RawOK, ReadBlock
  <1>3. PICK n \in Nat : n = IF m < Block THEN m ELSE Block
    BY BlockAssumption
  <1>4. n >= 1 /\ n <= m /\ n \in 0 .. m /\ (n < Block \/ n = Block)
    BY <1>2, <1>3, BlockAssumption
  <1>5. PICK head, rest : head = SubSeq(pipe, 1, n) /\ rest = SubSeq(pipe, n + 1, m)
    OBVIOUS
  <1>6. /\ reader = "reading" /\ buffer' = buffer \o head /\ pipe' = rest /\ got' = got + n
        /\ reader' = IF n < Block THEN "scanning" ELSE "reading"
        /\ format' = format /\ written' = written /\ writing' = writing /\ closed' = closed
        /\ reports' = reports
    BY <1>2, <1>3, <1>5 DEF ReadBlock
  <1>7. /\ head \in Seq(Nat) /\ rest \in Seq(Nat) /\ Len(head) = n /\ head \o rest = pipe
    <2>1. \A i \in 1 .. m : pipe[i] \in Nat
      BY <1>1, <1>2, LenProperties DEF RawOK
    <2>2. head \in Seq(Nat) /\ Len(head) = n
      <3>1. \A i \in 1 .. n : pipe[i] \in Nat
        BY <1>4, <2>1
      <3>2. QED
        BY <1>4, <1>5, <3>1, SubSeqProperties
    <2>3. rest \in Seq(Nat)
      <3>1. \A i \in n + 1 .. m : pipe[i] \in Nat
        BY <1>4, <2>1
      <3>2. QED
        BY <1>5, <3>1, SubSeqProperties
    <2>4. SubSeq(pipe, 1, n) \o SubSeq(pipe, n + 1, m) = SubSeq(pipe, 1, m)
      <3>1. 1 \in 1 .. m + 1 /\ n \in 1 - 1 .. m /\ m \in n .. m
        BY <1>4
      <3>2. QED
        BY <1>1, <1>2, <3>1, ConcatAdjacentSubSeq DEF RawOK
    <2>5. SubSeq(pipe, 1, m) = pipe
      BY <1>1, <1>2, SubSeqFull DEF RawOK
    <2>6. QED
      BY <1>5, <2>2, <2>3, <2>4, <2>5
  <1>8. PICK b \in Nat : b = Len(buffer)
    BY <1>1, LenProperties DEF RawOK
  <1>9. buffer' \in Seq(Nat) /\ Len(buffer') = b + n
    BY <1>1, <1>6, <1>7, <1>8, ConcatProperties DEF RawOK
  <1>10. RawOK'
    BY <1>1, <1>6, <1>7, <1>9 DEF RawOK
  <1>11. Blocks'
    <2>1. buffer' # << >>
      <3>1. b + n # 0
        BY <1>4
      <3>2. QED
        BY <1>9, <3>1, EmptySeq
    <2>2. QED
      BY <1>6, <2>1 DEF Blocks
  <1>12. Reported'
    <2>1. PICK s \in Seq(Nat) : s = FlattenSeq(reports)
      BY <1>1, Flattened DEF RawOK
    <2>2. (s \o buffer') \o pipe' = (s \o buffer) \o pipe
      <3>1. /\ buffer \in Seq(Nat) /\ s \o buffer \in Seq(Nat)
            /\ head \in Seq(Nat) /\ rest \in Seq(Nat)
        BY <1>1, <1>7, ConcatProperties DEF RawOK
      <3>2. (s \o buffer) \o head = s \o (buffer \o head)
        BY <3>1, Joined
      <3>3. ((s \o buffer) \o head) \o rest = (s \o buffer) \o (head \o rest)
        BY <3>1, Joined, SMTT(30)
      <3>4. QED
        BY <1>6, <1>7, <3>2, <3>3
    <2>3. QED
      BY <1>1, <1>6, <2>1, <2>2 DEF Reported
  <1>13. QED
    BY <1>10, <1>11, <1>12 DEF RawAgreement

LEMMA ScanAgrees == RawAgreement /\ ScanBuffer => RawAgreement'
  <1> SUFFICES ASSUME RawAgreement, ScanBuffer PROVE RawAgreement'
    OBVIOUS
  <1>1. RawOK /\ Blocks /\ Reported
    BY DEF RawAgreement
  <1>2. /\ reader = "scanning" /\ buffer' = << >> /\ got' = 0 /\ reader' \in {"idle", "reading"}
        /\ format' = format /\ written' = written /\ pipe' = pipe /\ writing' = writing
        /\ closed' = closed
        /\ reports' = IF format = "bytes" THEN Append(reports, buffer) ELSE reports
    BY DEF ScanBuffer, HandleBuffer, AskForMore, child
  <1>3. buffer # << >> /\ buffer \in Seq(Nat) /\ reports \in Seq(Seq(Nat)) /\ pipe \in Seq(Nat)
    BY <1>1, <1>2 DEF Blocks, RawOK
  <1>4. PICK n \in Nat : n = Len(reports) /\ DOMAIN reports = 1 .. n
    BY <1>3, LenProperties
  <1>5. PICK all : all = Append(reports, buffer)
    OBVIOUS
  <1>6. /\ all \in Seq(Seq(Nat)) /\ Len(all) = n + 1 /\ all[n + 1] = buffer
        /\ \A i \in 1 .. n : all[i] = reports[i]
    BY <1>3, <1>4, <1>5, AppendProperties
  <1>7. RawOK'
    <2>1. << >> \in Seq(Nat) /\ 0 \in Nat /\ reports' \in Seq(Seq(Nat))
      BY <1>2, <1>3, <1>5, <1>6, EmptySeq
    <2>2. reader' \in {"idle", "reading", "scanning"}
      BY <1>2
    <2>3. QED
      BY <1>1, <1>2, <2>1, <2>2 DEF RawOK
  <1>8. Blocks'
    <2>1. ~(0 > 0)
      OBVIOUS
    <2>2. QED
      BY <1>2, <2>1 DEF Blocks
  <1>9. Reported'
    <2>1. SUFFICES ASSUME format = "bytes"
                   PROVE  /\ FlattenSeq(all) \o << >> \o pipe = FlattenSeq(reports) \o buffer \o pipe
                          /\ \A i \in DOMAIN all : all[i] # << >>
      BY <1>1, <1>2, <1>5 DEF Reported
    <2>2. FlattenSeq(all) = FlattenSeq(reports) \o buffer /\ FlattenSeq(reports) \in Seq(Nat)
      BY <1>3, <1>5, Flattened
    <2>3. FlattenSeq(all) \o << >> = FlattenSeq(all)
      BY <1>3, <2>2, ConcatProperties, ConcatEmptySeq
    <2>4. \A i \in DOMAIN all : all[i] # << >>
      <3>1. \A i \in 1 .. n : reports[i] # << >>
        BY <1>1, <1>4, <2>1 DEF Reported
      <3>2. DOMAIN all = 1 .. n + 1
        BY <1>6, LenProperties
      <3>3. \A i \in 1 .. n + 1 : i = n + 1 \/ i \in 1 .. n
        OBVIOUS
      <3>4. QED
        BY <1>3, <1>6, <3>1, <3>2, <3>3
    <2>5. QED
      BY <2>2, <2>3, <2>4
  <1>10. QED
    BY <1>7, <1>8, <1>9 DEF RawAgreement

(* Steps that move no byte.                                                *)
LEMMA RestAgrees ==
    ASSUME RawAgreement,
           ChildCloses \/ StartScan \/ NothingThere \/ ReadEnd \/ UNCHANGED rawVars
    PROVE  RawAgreement'
  <1>1. RawOK /\ Blocks /\ Reported
    BY DEF RawAgreement
  <1>2. /\ format' = format /\ written' = written /\ pipe' = pipe /\ buffer' = buffer
        /\ reports' = reports
    BY DEF ChildCloses, StartScan, NothingThere, ReadEnd, AskForMore, child, rawVars
  <1>3. Reported'
    BY <1>1, <1>2 DEF Reported
  <1>4. CASE ChildCloses \/ UNCHANGED rawVars
    <2>1. /\ closed' = closed /\ got' = got /\ reader' = reader
          /\ writing' = FALSE \/ writing' = writing
      BY <1>4 DEF ChildCloses, rawVars, child
    <2>2. RawOK' /\ Blocks'
      BY <1>1, <1>2, <2>1 DEF RawOK, Blocks
    <2>3. QED
      BY <1>3, <2>2 DEF RawAgreement
  <1>5. CASE StartScan
    <2>1. /\ reader = "idle" /\ closed' = closed /\ got' = 0 /\ reader' \in {"idle", "reading"}
          /\ writing' = writing
      BY <1>5 DEF StartScan, AskForMore, child
    <2>2. RawOK' /\ Blocks'
      BY <1>1, <1>2, <2>1 DEF RawOK, Blocks
    <2>3. QED
      BY <1>3, <2>2 DEF RawAgreement
  <1>6. CASE NothingThere
    <2>1. reader = "reading" /\ reader' = "idle" /\ closed' = closed /\ got' = got /\ writing' = writing
      BY <1>6 DEF NothingThere, child
    <2>2. RawOK' /\ Blocks'
      BY <1>1, <1>2, <2>1 DEF RawOK, Blocks
    <2>3. QED
      BY <1>3, <2>2 DEF RawAgreement
  <1>7. CASE ReadEnd
    <2>1. /\ reader = "reading" /\ closed' = TRUE /\ got' = got /\ writing' = writing
          /\ reader' = IF got > 0 THEN "scanning" ELSE "idle"
      BY <1>7 DEF ReadEnd, child
    <2>2. RawOK' /\ Blocks'
      BY <1>1, <1>2, <2>1 DEF RawOK, Blocks
    <2>3. QED
      BY <1>3, <2>2 DEF RawAgreement
  <1>8. QED
    BY <1>4, <1>5, <1>6, <1>7

LEMMA RawAgrees == RawAgreement /\ [InputsNext]_<<vars, rawVars>> => RawAgreement'
  <1> SUFFICES ASSUME RawAgreement, [InputsNext]_<<vars, rawVars>> PROVE RawAgreement'
    OBVIOUS
  <1>1. CASE UNCHANGED rawVars
    BY <1>1, RestAgrees
  <1>2. CASE RawNext
    BY <1>2, WriteAgrees, BlockAgrees, ScanAgrees, RestAgrees DEF RawNext, ScannerDone
  <1>3. QED
    BY <1>1, <1>2 DEF InputsNext

(***************************************************************************)
(* The reports, what is read and what is not read are the bytes that were  *)
(* written, each once and in order, for blocks of any size and however the *)
(* bytes and the reads interleave.                                         *)
(***************************************************************************)
THEOREM AllBytesAreReported == InputsSpec => []BytesAreReported
  <1>1. InputsInit => RawAgreement
    BY RawInitAgrees DEF InputsInit
  <1>2. RawAgreement => BytesAreReported
    BY DEF RawAgreement, Blocks, Reported, BytesAreReported
  <1>3. QED
    BY <1>1, <1>2, RawAgrees, PTL DEF InputsSpec
=============================================================================
