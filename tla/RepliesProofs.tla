---------------------------- MODULE RepliesProofs ----------------------------
(***************************************************************************)
(* What holds of the replies of Commands for any messages: that each has   *)
(* the form that is reported.                                              *)
(***************************************************************************)
EXTENDS CommandsProofs, MessageReport

(***************************************************************************)
(* Short lists put together.                                               *)
(***************************************************************************)
LEMMA Joined ==
    ASSUME NEW T, NEW a \in Seq(T), NEW b \in Seq(T), NEW c \in Seq(T),
           Len(c) = Len(a) + Len(b), \A k \in 1 .. Len(a) : c[k] = a[k],
           \A k \in 1 .. Len(b) : c[Len(a) + k] = b[k]
    PROVE  a \o b = c
  <1>1. /\ a \o b \in Seq(T) /\ Len(a \o b) = Len(c)
        /\ \A k \in 1 .. Len(c) : (a \o b)[k] = IF k <= Len(a) THEN a[k] ELSE b[k - Len(a)]
    BY ConcatProperties
  <1>2. PICK ab : ab = a \o b
    OBVIOUS
  <1>3. ASSUME NEW k \in 1 .. Len(c) PROVE ab[k] = c[k]
    <2>1. Len(a) \in Nat /\ Len(b) \in Nat
      OBVIOUS
    <2>2. CASE k <= Len(a)
      BY <1>1, <1>2, <2>1, <2>2
    <2>3. CASE ~(k <= Len(a))
      <3>1. PICK n : n = k - Len(a)
        OBVIOUS
      <3>2. n \in 1 .. Len(b) /\ k = Len(a) + n
        BY <2>1, <2>3, <3>1
      <3>3. QED
        BY <1>1, <1>2, <2>3, <3>1, <3>2
    <2>4. QED
      BY <2>2, <2>3
  <1>4. QED
    BY <1>1, <1>2, <1>3, SeqEqual

LEMMA OneAndOne == ASSUME NEW x, NEW y PROVE <<x>> \o <<y>> = <<x, y>>
  <1>1. PICK T, a, b, c : T = {x, y} /\ a = <<x>> /\ b = <<y>> /\ c = <<x, y>>
    OBVIOUS
  <1>2. /\ a \in Seq(T) /\ b \in Seq(T) /\ c \in Seq(T)
        /\ Len(a) = 1 /\ Len(b) = 1 /\ Len(c) = 2 /\ a[1] = x /\ b[1] = y /\ c[1] = x /\ c[2] = y
    BY <1>1
  <1>3. /\ Len(c) = Len(a) + Len(b) /\ \A k \in 1 .. Len(a) : c[k] = a[k]
        /\ \A k \in 1 .. Len(b) : c[Len(a) + k] = b[k]
    BY <1>2
  <1>4. a \o b = c
    BY <1>2, <1>3, Joined
  <1>5. QED
    BY <1>1, <1>4

LEMMA OneAndTwo == ASSUME NEW x, NEW y, NEW z PROVE <<x>> \o <<y, z>> = <<x, y, z>>
  <1>1. PICK T, a, b, c : T = {x, y, z} /\ a = <<x>> /\ b = <<y, z>> /\ c = <<x, y, z>>
    OBVIOUS
  <1>2. /\ a \in Seq(T) /\ b \in Seq(T) /\ c \in Seq(T)
        /\ Len(a) = 1 /\ Len(b) = 2 /\ Len(c) = 3 /\ a[1] = x /\ b[1] = y /\ b[2] = z
        /\ c[1] = x /\ c[2] = y /\ c[3] = z
    BY <1>1
  <1>3. /\ Len(c) = Len(a) + Len(b) /\ \A k \in 1 .. Len(a) : c[k] = a[k]
        /\ \A k \in 1 .. Len(b) : c[Len(a) + k] = b[k]
    BY <1>2
  <1>4. a \o b = c
    BY <1>2, <1>3, Joined
  <1>5. QED
    BY <1>1, <1>4

LEMMA TwoAndOne == ASSUME NEW x, NEW y, NEW z PROVE <<x, y>> \o <<z>> = <<x, y, z>>
  <1>1. PICK T, a, b, c : T = {x, y, z} /\ a = <<x, y>> /\ b = <<z>> /\ c = <<x, y, z>>
    OBVIOUS
  <1>2. /\ a \in Seq(T) /\ b \in Seq(T) /\ c \in Seq(T)
        /\ Len(a) = 2 /\ Len(b) = 1 /\ Len(c) = 3 /\ a[1] = x /\ a[2] = y /\ b[1] = z
        /\ c[1] = x /\ c[2] = y /\ c[3] = z
    BY <1>1
  <1>3. /\ Len(c) = Len(a) + Len(b) /\ \A k \in 1 .. Len(a) : c[k] = a[k]
        /\ \A k \in 1 .. Len(b) : c[Len(a) + k] = b[k]
    BY <1>2
  <1>4. a \o b = c
    BY <1>2, <1>3, Joined
  <1>5. QED
    BY <1>1, <1>4

LEMMA ThreeAndOne == ASSUME NEW x, NEW y, NEW z, NEW u PROVE <<x, y, z>> \o <<u>> = <<x, y, z, u>>
  <1>1. PICK T, a, b, c : T = {x, y, z, u} /\ a = <<x, y, z>> /\ b = <<u>> /\ c = <<x, y, z, u>>
    OBVIOUS
  <1>2. /\ a \in Seq(T) /\ b \in Seq(T) /\ c \in Seq(T)
        /\ Len(a) = 3 /\ Len(b) = 1 /\ Len(c) = 4 /\ a[1] = x /\ a[2] = y /\ a[3] = z
        /\ b[1] = u /\ c[1] = x /\ c[2] = y /\ c[3] = z /\ c[4] = u
    BY <1>1
  <1>3. /\ Len(c) = Len(a) + Len(b) /\ \A k \in 1 .. Len(a) : c[k] = a[k]
        /\ \A k \in 1 .. Len(b) : c[Len(a) + k] = b[k]
    BY <1>2
  <1>4. a \o b = c
    BY <1>2, <1>3, Joined
  <1>5. QED
    BY <1>1, <1>4

(***************************************************************************)
(* How a reply fits a form.                                                *)
(***************************************************************************)
LEMMA WordsAre ==
    /\ Words(<< >>) = << >>
    /\ \A a : Words(<<a>>) = <<Str(a)>>
    /\ \A a, b : Words(<<a, b>>) = <<Str(a), Str(b)>>
    /\ \A a, b, c : Words(<<a, b, c>>) = <<Str(a), Str(b), Str(c)>>
  BY DEF Words

Reportable(m) ==
    \E form \in MessageReports :
        IF LeavesOutArgument(m) THEN Fits(form, [m EXCEPT !.rest = Append(@, Item)])
                                ELSE Fits(form, m)

LEMMA HasForm ==
    ASSUME NEW f \in MessageReports, NEW i, NEW c, NEW t, NEW r,
           f.id = Null <=> i = Null, Stands(f.class, c), Stands(f.type, t), FitsRest(f.rest, r),
           c # "error" \/ t # "command" \/ Len(r) # 1
    PROVE  Reportable(Message(i, c, t, r))
  BY DEF Reportable, Fits, Message, LeavesOutArgument

LEMMA Forms ==
    ASSUME NEW i, NEW c, NEW t, NEW r
    PROVE  /\ Message(i, c, t, r).id = i /\ Message(i, c, t, r).class = c
           /\ Message(i, c, t, r).type = t /\ Message(i, c, t, r).rest = r
  BY DEF Message

LEMMA StandsFor == \A text : Stands(text, text) /\ Stands("?", text)
  BY DEF Stands

LEMMA NamedIds == ReportId # Null /\ Item # Null /\ Null = Null
  BY DEF ReportId, Item, Null, Str

Whatever == {Str("...")} \cup {Str(w) : w \in Mappings}

LEMMA Exactly ==
    /\ FitsRest(<< >>, << >>)
    /\ \A a, x : a \notin Whatever /\ FitsOne(a, x) => FitsRest(<<a>>, <<x>>)
    /\ \A a, b, x, y : b \notin Whatever /\ FitsOne(a, x) /\ FitsOne(b, y) =>
            FitsRest(<<a, b>>, <<x, y>>)
    /\ \A a, b, c, x, y, z :
            c \notin Whatever /\ FitsOne(a, x) /\ FitsOne(b, y) /\ FitsOne(c, z) =>
            FitsRest(<<a, b, c>>, <<x, y, z>>)
    /\ \A a, b, c, d, x, y, z, u :
            d \notin Whatever /\ FitsOne(a, x) /\ FitsOne(b, y) /\ FitsOne(c, z) /\ FitsOne(d, u) =>
            FitsRest(<<a, b, c, d>>, <<x, y, z, u>>)
  BY DEF FitsRest, Whatever, Last

LEMMA AnyList == ASSUME NEW r, Len(r) \in Nat PROVE FitsRest(Dots, r)
  BY DEF FitsRest, Dots, Last

LEMMA AnyListAfter ==
    ASSUME NEW a, NEW r, Len(r) \in Nat \ {0}, r[1] = a
    PROVE  FitsRest(<<a>> \o Dots, r)
  BY DEF FitsRest, Dots, Last, FitsOne

LEMMA AnyMapping ==
    ASSUME NEW w \in Mappings, NEW r, Len(r) \in Nat \ {0}, r[1] = Dictionary
    PROVE  FitsRest(<<Str(w)>>, r)
  <1>1. FitsOne(Str(w), r[1])
    BY DEF FitsOne, Str
  <1>2. Str(w) \in {Str(v) : v \in Mappings}
    OBVIOUS
  <1> DEFINE f == <<Str(w)>>
  <1>3. f # << >> /\ Len(f) = 1 /\ f[1] = Str(w) /\ Last(f) = Str(w)
    BY DEF Last
  <1> HIDE DEF f
  <1>4. r # << >>
    OBVIOUS
  <1>5. QED
    BY <1>1, <1>2, <1>3, <1>4 DEF FitsRest, f

LEMMA Ones ==
    /\ \A s : FitsOne(s, s)
    /\ \A v : v.kind = "string" => FitsOne(Item, v)
    /\ \A s : FitsOne(Item, Str(s))
    /\ Item \notin Whatever
    /\ \A s : s \notin {"..."} \cup Mappings => Str(s) \notin Whatever
  BY DEF FitsOne, Str, Item, Whatever, Mappings
(***************************************************************************)
(* The messages in turn, with any identifier i but null.                   *)
(***************************************************************************)
LEMMA FormatReported == Reportable(Message(Null, "error", "format", << >>))
  <1> DEFINE f == NullErrorSthOpt("format", << >>)
  <1>1. f \in MessageReports
    BY DEF MessageReports, HandlerReports
  <1>2. f = Message(Null, "error", "format", << >>)
    BY WordsAre DEF NullErrorSthOpt
  <1> HIDE DEF f
  <1>3. QED
    BY <1>1, <1>2, HasForm, Forms, StandsFor, Exactly

LEMMA IdentifierReported ==
    ASSUME NEW w \in {"missing", "invalid"}
    PROVE  Reportable(Message(Null, "error", "identifier", <<Str(w)>>))
  <1> DEFINE f == NullErrorSthOpt("identifier", <<w>>)
  <1>1. f \in MessageReports
    BY DEF MessageReports, HandlerReports
  <1>2. f = Message(Null, "error", "identifier", <<Str(w)>>)
    BY WordsAre DEF NullErrorSthOpt
  <1> HIDE DEF f
  <1>3. FitsRest(<<Str(w)>>, <<Str(w)>>)
    <2>1. w \notin {"..."} \cup Mappings
      BY DEF Mappings
    <2>2. QED
      BY <2>1, Exactly, Ones
  <1>4. QED
    BY <1>1, <1>2, <1>3, HasForm, Forms, StandsFor

LEMMA UnknownReported ==
    ASSUME NEW i, i # Null, NEW v, v.kind = "string"
    PROVE  Reportable(Message(i, "error", "command", <<Str("unknown"), v>>))
  <1> DEFINE f == ErrorCommandSthArg("unknown", ReportId, Item)
  <1>1. f \in MessageReports
    BY DEF MessageReports, HandlerReports
  <1>2. f = Message(ReportId, "error", "command", <<Str("unknown"), Item>>)
    BY DEF ErrorCommandSthArg
  <1> HIDE DEF f
  <1>3. FitsRest(<<Str("unknown"), Item>>, <<Str("unknown"), v>>)
    BY Exactly, Ones
  <1>4. Len(<<Str("unknown"), v>>) # 1
    OBVIOUS
  <1>5. QED
    BY <1>1, <1>2, <1>3, <1>4, HasForm, Forms, StandsFor, NamedIds

(* The reply without the argument that is reported.                        *)
LEMMA MissingReported ==
    ASSUME NEW i, i # Null, NEW w \in {"missing", "not-string"}
    PROVE  Reportable(Message(i, "error", "command", <<Str(w)>>))
  <1> DEFINE f == ErrorCommandSthArg(w, ReportId, Item)
             m == Message(i, "error", "command", <<Str(w)>>)
  <1>1. f \in MessageReports
    BY DEF MessageReports, HandlerReports
  <1>2. f = Message(ReportId, "error", "command", <<Str(w), Item>>)
    BY DEF ErrorCommandSthArg
  <1>3. [m EXCEPT !.rest = Append(@, Item)] = Message(i, "error", "command", <<Str(w), Item>>)
    BY DEF Message
  <1>4. LeavesOutArgument(m)
    BY DEF LeavesOutArgument, Message
  <1> HIDE DEF f, m
  <1>5. FitsRest(<<Str(w), Item>>, <<Str(w), Item>>)
    BY Exactly, Ones
  <1>6. Fits(f, Message(i, "error", "command", <<Str(w), Item>>))
    BY <1>2, <1>5, Forms, StandsFor, NamedIds DEF Fits
  <1>7. QED
    BY <1>1, <1>3, <1>4, <1>6 DEF Reportable, m

LEMMA ArgumentReported ==
    ASSUME NEW i, i # Null, NEW c, NEW w \in {"not-integer", "invalid"}
    PROVE  Reportable(Message(i, c, "error", <<Str("argument"), Str(w)>>))
  <1> DEFINE f == ArgErrorArgumentSth(w, ReportId, Item)
  <1>1. f \in MessageReports
    BY DEF MessageReports, HandlerReports
  <1>2. f = Message(ReportId, "?", "error", <<Str("argument"), Str(w)>>)
    BY DEF ArgErrorArgumentSth, Item, Str
  <1> HIDE DEF f
  <1>3. FitsRest(<<Str("argument"), Str(w)>>, <<Str("argument"), Str(w)>>)
    <2>1. w \notin {"..."} \cup Mappings
      BY DEF Mappings
    <2>2. QED
      BY <2>1, Exactly, Ones
  <1>4. QED
    BY <1>1, <1>2, <1>3, HasForm, Forms, StandsFor, NamedIds

(* A form that has an identifier and no place-holder for class and type.   *)
LEMMA SameForm ==
    ASSUME NEW c, NEW t, NEW q, Message(ReportId, c, t, q) \in MessageReports,
           NEW i, i # Null, NEW r, FitsRest(q, r), c # "error"
    PROVE  Reportable(Message(i, c, t, r))
  <1>1. PICK f : f = Message(ReportId, c, t, q)
    OBVIOUS
  <1>2. f.id = ReportId /\ f.class = c /\ f.type = t /\ f.rest = q
    BY <1>1, Forms
  <1>3. QED
    BY <1>1, <1>2, HasForm, StandsFor, NamedIds

LEMMA DoneReported ==
    ASSUME NEW i, i # Null
    PROVE  Reportable(Message(i, "done", "", << >>))
  <1> DEFINE f == Sth2Opt3("done", "", << >>, ReportId)
  <1>1. f \in MessageReports
    BY DEF MessageReports, HandlerReports
  <1>2. f = Message(ReportId, "done", "", << >>)
    BY WordsAre DEF Sth2Opt3
  <1> HIDE DEF f
  <1>3. FitsRest(<< >>, << >>)
    BY Exactly
  <1>4. QED
    BY <1>1, <1>2, <1>3, SameForm, Zenon

(* Lists after a class and a type.                                         *)
LEMMA ListReported ==
    ASSUME NEW i, i # Null, NEW c, NEW t, NEW r, Len(r) \in Nat,
           \/ c = "error" /\ t \in {"missing", "unexpected", "not-string", "not-string-null",
                                    "unknown", "pairless"}
           \/ c \in {"get", "delete", "rename", "terminate", "end-feed"} /\ t = "missing"
           \/ c = "get" /\ t = "failed"
           \/ c = "end-feed" /\ t = "not-open"
    PROVE  Reportable(Message(i, c, t, r))
  <1> DEFINE f == Sth2Opt2List(c, t, << >>, ReportId, Dots)
  <1>1. f \in MessageReports
    BY DEF MessageReports, DescriptionReports, CommandReports, ProcessReports, GetReports,
       DeleteReports, RenameReports, TerminateReports
  <1>2. f = Message(ReportId, c, t, Dots)
    <2>1. << >> \o Dots = Dots
      BY DEF Dots
    <2>2. QED
      BY <2>1, WordsAre DEF Sth2Opt2List
  <1> HIDE DEF f
  <1>3. FitsRest(Dots, r)
    BY AnyList
  <1>4. c # "error" \/ t # "command"
    OBVIOUS
  <1>5. QED
    BY <1>1, <1>2, <1>3, <1>4, HasForm, Forms, StandsFor, NamedIds

LEMMA NoOpReported ==
    ASSUME NEW i, i # Null
    PROVE  Reportable(Message(i, "no-op", "", << >>))
  <1> DEFINE f == Message(ReportId, "no-op", "", << >>)
  <1>1. f \in MessageReports
    BY DEF MessageReports, CommandReports, NoOperationReports
  <1> HIDE DEF f
  <1>2. f = Message(ReportId, "no-op", "", << >>)
    BY DEF f
  <1>3. FitsRest(<< >>, << >>)
    BY Exactly
  <1>4. QED
    BY <1>1, <1>2, <1>3, SameForm, Zenon

LEMMA MappingReported ==
    ASSUME NEW i, i # Null, NEW c \in {"get", "storage-info", "version"},
           NEW r, Len(r) \in Nat \ {0}, r[1] = Dictionary
    PROVE  Reportable(Message(i, c, "", r))
  <1>1. PICK w \in Mappings : Sth2Opt3(c, "", <<w>>, ReportId) \in MessageReports
    BY DEF MessageReports, CommandReports, Mappings, GetReports, StorageInfoReports, VersionReports
  <1> DEFINE f == Sth2Opt3(c, "", <<w>>, ReportId)
  <1>2. f = Message(ReportId, c, "", <<Str(w)>>)
    BY WordsAre DEF Sth2Opt3
  <1> HIDE DEF f
  <1>3. FitsRest(<<Str(w)>>, r)
    BY AnyMapping
  <1>4. f \in MessageReports
    BY <1>1 DEF f
  <1>5. c # "error"
    OBVIOUS
  <1>6. QED
    BY <1>2, <1>3, <1>4, <1>5, SameForm, Zenon

(* feed                                                                    *)
LEMMA RefusedReported ==
    ASSUME NEW i, i # Null, NEW w \in {"not-found", "closed"}
    PROVE  Reportable(Message(i, "feed", "error", <<Str(w)>>))
  <1> DEFINE f == Sth2Opt3("feed", "error", <<w>>, ReportId)
  <1>1. f \in MessageReports
    BY DEF MessageReports, ProcessReports
  <1>2. f = Message(ReportId, "feed", "error", <<Str(w)>>)
    BY WordsAre DEF Sth2Opt3
  <1> HIDE DEF f
  <1>3. FitsRest(<<Str(w)>>, <<Str(w)>>)
    <2>1. w \notin {"..."} \cup Mappings
      BY DEF Mappings
    <2>2. QED
      BY <2>1, Exactly, Ones
  <1>4. QED
    BY <1>1, <1>2, <1>3, HasForm, Forms, StandsFor, NamedIds

LEMMA DuplicateReported ==
    ASSUME NEW i, i # Null, NEW a, a.kind = "string", NEW b, b.kind = "string"
    PROVE  Reportable(Message(i, "feed", "error", <<a, Str("duplicate"), b>>))
  <1> DEFINE f == CmdErrorArgDuplicateArg("feed", ReportId, Item, Item)
  <1>1. f \in MessageReports
    BY DEF MessageReports, ProcessReports
  <1>2. f = Message(ReportId, "feed", "error", <<Item, Str("duplicate"), Item>>)
    BY DEF CmdErrorArgDuplicateArg
  <1> HIDE DEF f
  <1>3. FitsRest(<<Item, Str("duplicate"), Item>>, <<a, Str("duplicate"), b>>)
    BY Exactly, Ones
  <1>4. QED
    BY <1>1, <1>2, <1>3, HasForm, Forms, StandsFor, NamedIds

LEMMA NotPreparedReported ==
    ASSUME NEW i, i # Null, NEW r, Len(r) \in Nat \ {0}, r[1] = Str("missing")
    PROVE  Reportable(Message(i, "feed", "error", r))
  <1> DEFINE f == Sth2Opt2List("feed", "error", <<"missing">>, ReportId, Dots)
  <1>1. f \in MessageReports
    BY DEF MessageReports, ProcessReports
  <1>2. f = Message(ReportId, "feed", "error", <<Str("missing")>> \o Dots)
    BY WordsAre DEF Sth2Opt2List
  <1> HIDE DEF f
  <1>3. FitsRest(<<Str("missing")>> \o Dots, r)
    BY AnyListAfter
  <1>4. QED
    BY <1>1, <1>2, <1>3, HasForm, Forms, StandsFor, NamedIds

(* run                                                                     *)
LEMMA RunFlawReported ==
    ASSUME NEW i, i # Null, NEW a, NEW b,
           <<a, b>> \in {<<"identifier", "in-use">>, <<"in", "multiple">>,
                         <<"notify", "no-input">>, <<"out", "missing">>}
    PROVE  Reportable(Message(i, "run", "error", <<Str(a), Str(b)>>))
  <1> DEFINE f == Sth2Opt3("run", "error", <<a, b>>, ReportId)
  <1>1. f \in MessageReports
    <2>1. <<a, b>> \in RunErrors
      BY DEF RunErrors
    <2>2. QED
      BY <2>1 DEF MessageReports, ProcessReports, RunReports
  <1>2. f = Message(ReportId, "run", "error", <<Str(a), Str(b)>>)
    BY WordsAre DEF Sth2Opt3
  <1> HIDE DEF f
  <1>3. FitsRest(<<Str(a), Str(b)>>, <<Str(a), Str(b)>>)
    <2>1. b \notin {"..."} \cup Mappings
      BY DEF Mappings
    <2>2. QED
      BY <2>1, Exactly, Ones
  <1>4. QED
    BY <1>1, <1>2, <1>3, HasForm, Forms, StandsFor, NamedIds

LEMMA EnvReported ==
    ASSUME NEW i, i # Null, NEW w \in {"invalid", "duplicate"}, NEW v, v.kind = "string"
    PROVE  Reportable(Message(i, "run", "error", <<Str("env"), Str("argument"), Str(w), v>>))
  <1> DEFINE f == RunErrorSth2OptArg(<<"env", "argument", w>>, ReportId, Item)
  <1>1. f \in MessageReports
    <2>1. <<"env", "argument", w>> \in
            {<<"env", "argument", "invalid">>, <<"env", "argument", "duplicate">>,
             <<"out", "duplicate">>, <<"output", "duplicate">>}
      OBVIOUS
    <2>2. QED
      BY <2>1 DEF MessageReports, ProcessReports, RunReports
  <1>2. f = Message(ReportId, "run", "error", <<Str("env"), Str("argument"), Str(w), Item>>)
    <2>1. Words(<<"env", "argument", w>>) = <<Str("env"), Str("argument"), Str(w)>>
      BY WordsAre
    <2>2. QED
      BY <2>1, ThreeAndOne, TwoAndOne, Zenon DEF RunErrorSth2OptArg
  <1> HIDE DEF f
  <1>3. FitsRest(<<Str("env"), Str("argument"), Str(w), Item>>,
                 <<Str("env"), Str("argument"), Str(w), v>>)
    BY Exactly, Ones
  <1>4. QED
    BY <1>1, <1>2, <1>3, HasForm, Forms, StandsFor, NamedIds

LEMMA TwiceReported ==
    ASSUME NEW i, i # Null, NEW w \in {"out", "output"}, NEW s
    PROVE  Reportable(Message(i, "run", "error", <<Str(w), Str("duplicate"), Str(s)>>))
  <1> DEFINE f == RunErrorSth2OptArg(<<w, "duplicate">>, ReportId, Item)
  <1>1. f \in MessageReports
    <2>1. <<w, "duplicate">> \in
            {<<"env", "argument", "invalid">>, <<"env", "argument", "duplicate">>,
             <<"out", "duplicate">>, <<"output", "duplicate">>}
      OBVIOUS
    <2>2. QED
      BY <2>1 DEF MessageReports, ProcessReports, RunReports
  <1>2. f = Message(ReportId, "run", "error", <<Str(w), Str("duplicate"), Item>>)
    <2>1. Words(<<w, "duplicate">>) = <<Str(w), Str("duplicate")>>
      BY WordsAre
    <2>2. QED
      BY <2>1, ThreeAndOne, TwoAndOne, Zenon DEF RunErrorSth2OptArg
  <1> HIDE DEF f
  <1>3. FitsRest(<<Str(w), Str("duplicate"), Item>>, <<Str(w), Str("duplicate"), Str(s)>>)
    BY Exactly, Ones
  <1>4. QED
    BY <1>1, <1>2, <1>3, HasForm, Forms, StandsFor, NamedIds

LEMMA NotThereReported ==
    ASSUME NEW i, i # Null, NEW s, NEW t
    PROVE  /\ Reportable(Message(i, "run", "error", <<Str("change-directory"), Str(s), Str(t)>>))
           /\ Reportable(Message(i, "run", "error", <<Str("program"), Str(s), Str(t)>>))
           /\ Reportable(Message(i, "run", "error", <<Str("program"), Str(s)>>))
  <1> DEFINE f(w) == RunErrorSthArg2(w, ReportId, <<Item, Item>>)
             g == RunErrorSthArg2("program", ReportId, <<Item>>)
  <1>1. f("change-directory") \in MessageReports /\ f("program") \in MessageReports /\ g \in MessageReports
    BY DEF MessageReports, ProcessReports, RunReports
  <1>2. /\ \A w : f(w) = Message(ReportId, "run", "error", <<Str(w), Item, Item>>)
        /\ g = Message(ReportId, "run", "error", <<Str("program"), Item>>)
    BY OneAndOne, OneAndTwo, Zenon DEF RunErrorSthArg2
  <1> HIDE DEF f, g
  <1>3. /\ \A w : FitsRest(<<Str(w), Item, Item>>, <<Str(w), Str(s), Str(t)>>)
        /\ FitsRest(<<Str("program"), Item>>, <<Str("program"), Str(s)>>)
    BY Exactly, Ones
  <1>4. ASSUME NEW w, f(w) \in MessageReports
        PROVE  Reportable(Message(i, "run", "error", <<Str(w), Str(s), Str(t)>>))
    BY <1>2, <1>3, <1>4, SameForm, Zenon
  <1>5. Reportable(Message(i, "run", "error", <<Str("program"), Str(s)>>))
    BY <1>1, <1>2, <1>3, HasForm, Forms, StandsFor, NamedIds
  <1>6. QED
    BY <1>1, <1>4, <1>5

(***************************************************************************)
(* Lists of replies.                                                       *)
(***************************************************************************)
ReportedList(list) == \E S : list \in Seq(S) /\ \A m \in S : Reportable(m)

LEMMA ReportedNone == ReportedList(<< >>)
  <1>1. PICK S : S = {}
    OBVIOUS
  <1>2. << >> \in Seq(S) /\ \A m \in S : Reportable(m)
    BY <1>1
  <1>3. QED
    BY <1>2 DEF ReportedList

LEMMA ReportedOne == ASSUME NEW m, Reportable(m) PROVE ReportedList(<<m>>)
  <1>1. PICK S : S = {m}
    OBVIOUS
  <1>2. <<m>> \in Seq(S) /\ \A n \in S : Reportable(n)
    BY <1>1
  <1>3. QED
    BY <1>2 DEF ReportedList

LEMMA ReportedTwo ==
    ASSUME NEW a, NEW b, Reportable(a), Reportable(b)
    PROVE  ReportedList(<<a, b>>)
  <1>1. PICK S : S = {a, b}
    OBVIOUS
  <1>2. <<a, b>> \in Seq(S) /\ \A n \in S : Reportable(n)
    BY <1>1
  <1>3. QED
    BY <1>2 DEF ReportedList

LEMMA ReportedBoth ==
    ASSUME NEW a, NEW b, ReportedList(a), ReportedList(b)
    PROVE  ReportedList(a \o b)
  <1>1. PICK S : a \in Seq(S) /\ \A m \in S : Reportable(m)
    BY DEF ReportedList
  <1>2. PICK T : b \in Seq(T) /\ \A m \in T : Reportable(m)
    BY DEF ReportedList
  <1>3. a \in Seq(S \cup T) /\ b \in Seq(S \cup T)
    BY <1>1, <1>2
  <1>4. a \o b \in Seq(S \cup T)
    BY <1>3
  <1>5. \A m \in S \cup T : Reportable(m)
    BY <1>1, <1>2
  <1>6. QED
    BY <1>4, <1>5 DEF ReportedList

LEMMA ReportedEach ==
    ASSUME NEW list, ReportedList(list)
    PROVE  << >> \o list = list /\ \A k \in DOMAIN list : Reportable(list[k])
  <1>1. PICK S : list \in Seq(S) /\ \A m \in S : Reportable(m)
    BY DEF ReportedList
  <1>2. << >> \o list = list
    BY <1>1, ConcatEmptySeq
  <1>3. \A k \in DOMAIN list : list[k] \in S
    BY <1>1
  <1>4. QED
    BY <1>1, <1>2, <1>3

(***************************************************************************)
(* The invariant.  Only the last step writes, so that what it writes are   *)
(* all the replies.                                                        *)
(***************************************************************************)
AllReported == \A k \in DOMAIN replies : Reportable(replies[k])

LEMMA SentReported ==
    ASSUME Silent, place # "over", NEW list, id # Null => ReportedList(list), Send(list)
    PROVE  AllReported'
  <1>1. CASE id = Null
    <2>1. replies' = << >>
      BY <1>1 DEF Send, Silent
    <2>2. QED
      BY <2>1 DEF AllReported
  <1>2. CASE id # Null
    <2>1. replies' = list
      BY <1>2, ReportedEach DEF Send, Silent
    <2>2. QED
      BY <1>2, <2>1, ReportedEach DEF AllReported
  <1>3. QED
    BY <1>1, <1>2

LEMMA AnnouncedReported ==
    ASSUME Silent, place # "over", NEW type, NEW rest, Announce(type, rest),
           Reportable(Message(Null, "error", type, rest))
    PROVE  AllReported'
  <1>1. replies' = <<Message(Null, "error", type, rest)>>
    BY DEF Announce, Silent
  <1>2. QED
    BY <1>1 DEF AllReported

LEMMA NothingReported ==
    ASSUME AllReported, UNCHANGED replies
    PROVE  AllReported'
  BY DEF AllReported

(* A reply and "done" after it.                                            *)
LEMMA AnswerReported ==
    ASSUME Silent, place # "over", NEW class, NEW type, NEW rest,
           Send(<<Reply(class, type, rest), Done>>),
           id # Null => Reportable(Message(id, class, type, rest))
    PROVE  AllReported'
  <1>1. id # Null => ReportedList(<<Reply(class, type, rest), Done>>)
    BY ReportedTwo, DoneReported, Zenon DEF Reply, Done
  <1>2. QED
    BY <1>1, SentReported

(***************************************************************************)
(* CommandHandlerJSON::End and validation.                                 *)
(***************************************************************************)
LEMMA EndReported ==
    ASSUME Silent, Typed, AllReported, BadFormat \/ BadIdentifier \/ BadCommand \/ BadArgument \/ Execute
    PROVE  AllReported'
  <1>1. CASE BadFormat
    BY <1>1, AnnouncedReported, FormatReported DEF BadFormat
  <1>2. CASE BadIdentifier
    <2>1. PICK w : w = IF message = << >> THEN "missing" ELSE "invalid"
      OBVIOUS
    <2>2. w \in {"missing", "invalid"}
      BY <2>1
    <2>3. Announce("identifier", <<Str(w)>>)
      BY <1>2, <2>1 DEF BadIdentifier
    <2>4. Reportable(Message(Null, "error", "identifier", <<Str(w)>>))
      BY <2>2, IdentifierReported
    <2>5. QED
      BY <1>2, <2>3, <2>4, AnnouncedReported DEF BadIdentifier
  <1>3. CASE BadCommand
    <2>1. PICK what : /\ what = CASE Len(message) = 1 -> <<Str("missing")>>
                                  [] Len(message) > 1 /\ message[2].kind # "string" -> <<Str("not-string")>>
                                  [] OTHER -> <<Str("unknown"), message[2]>>
                      /\ Send(<<Reply("error", "command", what), Done>>)
      BY <1>3 DEF BadCommand
    <2>2. \/ what \in {<<Str("missing")>>, <<Str("not-string")>>}
          \/ what = <<Str("unknown"), message[2]>> /\ message[2].kind = "string"
      <3>1. Len(message) \in Nat /\ Len(message) # 0
        BY <1>3, EmptySeq DEF BadCommand, HasIdentifier, Typed
      <3>2. PICK n \in Nat : n = Len(message)
        BY <3>1
      <3>3. PICK v : v = message[2]
        OBVIOUS
      <3>4. \/ n = 1 /\ what = <<Str("missing")>>
            \/ n > 1 /\ v.kind # "string" /\ what = <<Str("not-string")>>
            \/ n # 1 /\ ~(n > 1 /\ v.kind # "string") /\ what = <<Str("unknown"), v>>
        BY <2>1, <3>2, <3>3
      <3>5. n # 1 => n > 1
        BY <3>1, <3>2
      <3>6. QED
        BY <3>3, <3>4, <3>5
    <2>3. ASSUME id # Null PROVE Reportable(Message(id, "error", "command", what))
      <3>1. PICK i : i = id
        OBVIOUS
      <3>2. PICK v : v = message[2]
        OBVIOUS
      <3>3. \A w \in {"missing", "not-string"} : Reportable(Message(i, "error", "command", <<Str(w)>>))
        BY <2>3, <3>1, MissingReported
      <3>4. v.kind = "string" => Reportable(Message(i, "error", "command", <<Str("unknown"), v>>))
        BY <2>3, <3>1, UnknownReported
      <3>5. QED
        BY <2>2, <3>1, <3>2, <3>3, <3>4
    <2>4. QED
      BY <1>3, <2>1, <2>3, AnswerReported DEF BadCommand
  <1>4. CASE BadArgument
    <2>1. PICK k \in BadArguments :
            Send(<<Reply(name, "error", <<Str("argument"),
                        Str(IF message[k] = Fraction THEN "not-integer" ELSE "invalid")>>),
                   Done>>)
      BY <1>4 DEF BadArgument
    <2>2. PICK w \in {"not-integer", "invalid"} :
            w = IF message[k] = Fraction THEN "not-integer" ELSE "invalid"
      OBVIOUS
    <2>3. id # Null => Reportable(Message(id, name, "error", <<Str("argument"), Str(w)>>))
      BY ArgumentReported
    <2>4. Send(<<Reply(name, "error", <<Str("argument"), Str(w)>>), Done>>)
      BY <2>1, <2>2
    <2>5. QED
      BY <1>4, <2>3, <2>4, AnswerReported DEF BadArgument
  <1>5. CASE Execute
    BY <1>5, NothingReported DEF Execute
  <1>6. QED
    BY <1>1, <1>2, <1>3, <1>4, <1>5

Flaws == {"missing", "unexpected", "not-string", "not-string-null", "unknown", "pairless"}

LEMMA RejectReported ==
    ASSUME Silent, Typed, HasCommand, place # "over",
           NEW flaw, flaw.past \in 0 .. Len(args), flaw.what \in Flaws, Reject(flaw)
    PROVE  AllReported'
  <1>1. PICK n \in Nat : n = flaw.past /\ n <= Len(args)
    BY Arguments DEF Typed
  <1>2. SubSeq(args, 1, n) \in Seq(Element)
    <2>1. \A k \in 1 .. n : args[k] \in Element
      BY <1>1, Arguments DEF Typed
    <2>2. QED
      BY <2>1, SubSeqProperties
  <1>3. id \in Element /\ message[2] \in Element
    BY DEF Typed, HasCommand, HasIdentifier, id
  <1>4. <<id, message[2]>> \in Seq(Element)
    BY <1>3
  <1>5. PICK rest : rest = <<id, message[2]>> \o SubSeq(args, 1, n)
    OBVIOUS
  <1>6. rest \in Seq(Element)
    BY <1>2, <1>4, <1>5, ConcatProperties
  <1>7. Len(rest) \in Nat
    BY <1>6
  <1>8. PICK what : what = flaw.what
    OBVIOUS
  <1>9. PICK i : i = id
    OBVIOUS
  <1>10. i # Null => Reportable(Message(i, "error", what, rest))
    BY <1>7, <1>8, ListReported DEF Flaws
  <1>11. Send(<<Reply("error", what, rest), Done>>)
    BY <1>1, <1>5, <1>8 DEF Reject
  <1>12. QED
    BY <1>9, <1>10, <1>11, AnswerReported

LEMMA ListFlawIs ==
    ASSUME Typed, HasCommand, ListFlaw # Fine
    PROVE  ListFlaw.past \in 0 .. Len(args) /\ ListFlaw.what \in Flaws
  <1>1. Len(args) \in Nat /\ DOMAIN args = 1 .. Len(args)
    BY Arguments DEF Typed
  <1>2. PICK S : S = NotStrings
    OBVIOUS
  <1>3. PICK first : first = CHOOSE k \in S : \A j \in S : k <= j
    OBVIOUS
  <1>4. S # {} => first \in 0 .. Len(args)
    <2>1. S \subseteq Nat /\ S \subseteq 0 .. Len(args)
      BY <1>1, <1>2 DEF NotStrings
    <2>2. S # {} => \E k \in S : \A j \in S : k <= j
      BY <2>1, Least
    <2>3. QED
      BY <1>3, <2>1, <2>2
  <1>5. \/ ListFlaw \in {Flaw("unexpected", Len(args)), Flaw("missing", 0),
                         Flaw("pairless", Len(args))}
        \/ S # {} /\ ListFlaw = Flaw("not-string", first)
    BY <1>2, <1>3 DEF ListFlaw
  <1>6. /\ \A what, past : Flaw(what, past).past = past
        /\ \A what, past : Flaw(what, past).what = what
    BY FlawsDiffer
  <1>7. \/ ListFlaw.past \in {0, Len(args)} /\ ListFlaw.what \in {"unexpected", "missing", "pairless"}
        \/ S # {} /\ ListFlaw.past = first /\ ListFlaw.what = "not-string"
    BY <1>5, <1>6
  <1>8. QED
    BY <1>1, <1>4, <1>7 DEF Flaws

LEMMA SubFlawIs ==
    ASSUME NEW at, SubFlaw(at) # Fine
    PROVE  SubFlaw(at).what \in Flaws
  <1>1. \A what, past : Flaw(what, past).what = what
    BY FlawsDiffer
  <1>2. \A part, k : PartFlaw(part, k) # Fine => PartFlaw(part, k).what \in Flaws
    <2>1. ASSUME NEW part, NEW k, PartFlaw(part, k) # Fine PROVE PartFlaw(part, k).what \in Flaws
      <3>1. PartFlaw(part, k) \in
                {Flaw("not-string-null", k), Flaw("not-string", k), Flaw("unknown", k)}
        BY <2>1 DEF PartFlaw
      <3>2. QED
        BY <1>1, <3>1 DEF Flaws
    <2>2. QED
      BY <2>1
  <1>3. \/ SubFlaw(at) \in {Flaw("not-string", at), Flaw("unknown", at), Flaw("missing", Len(args))}
        \/ \E part, k : SubFlaw(at) = PartFlaw(part, k)
    <2>1. CASE args[at].kind # "string"
      BY <2>1 DEF SubFlaw
    <2>2. CASE args[at].kind = "string" /\ Named(at) = {}
      BY <2>2 DEF SubFlaw
    <2>3. CASE args[at].kind = "string" /\ Named(at) # {}
      <3>1. CASE TooFew(PartsAt(at), at)
        BY <2>3, <3>1 DEF SubFlaw
      <3>2. CASE ~TooFew(PartsAt(at), at)
        BY <2>3, <3>2 DEF SubFlaw
      <3>3. QED
        BY <3>1, <3>2
    <2>4. QED
      BY <2>1, <2>2, <2>3
  <1>4. QED
    BY <1>1, <1>2, <1>3 DEF Flaws

LEMMA ValidateReported ==
    ASSUME Agreed, AllReported, ValidateList \/ ValidateFirst \/ ValidateSub
    PROVE  AllReported'
  <1>1. /\ HasCommand /\ Typed /\ Silent /\ place # "over"
        /\ message \in Seq(Element) /\ Len(args) \in Nat
    BY Arguments DEF Agreed, IInv, Agreement, Typed, Known, ValidateList, ValidateFirst, ValidateSub
  <1>2. ASSUME UNCHANGED replies PROVE AllReported'
    BY <1>2, NothingReported
  <1>3. CASE ValidateList
    <2>1. CASE Accept
      BY <1>2, <2>1 DEF Accept
    <2>2. CASE ListFlaw # Fine /\ Reject(ListFlaw)
      BY <1>1, <2>2, ListFlawIs, RejectReported
    <2>3. QED
      BY <1>3, <2>1, <2>2 DEF ValidateList
  <1>4. CASE ValidateFirst
    <2>1. CASE args # << >>
      BY <1>2, <1>4, <2>1 DEF ValidateFirst
    <2>2. CASE args = << >>
      <3>1. PICK flaw : flaw = Flaw("missing", 0)
        OBVIOUS
      <3>2. Reject(flaw) /\ flaw.past = 0 /\ flaw.what \in Flaws
        BY <1>4, <2>2, <3>1, FlawsDiffer DEF ValidateFirst, Flaws
      <3>3. QED
        BY <1>1, <3>2, RejectReported
    <2>3. QED
      BY <2>1, <2>2
  <1>5. CASE ValidateSub
    <2>1. Description[name] \in {"feed", "run"} /\ args # << >> /\ \E V : Walk(V, loc)
      BY <1>5 DEF Agreed, Agreement, Walking, ValidateSub
    <2>2. CASE Accept
      BY <1>2, <2>2 DEF Accept
    <2>3. CASE loc <= Len(args) /\ SubFlaw(loc) # Fine /\ Reject(SubFlaw(loc))
      <3>1. PICK V : Walk(V, loc)
        BY <2>1
      <3>2. PICK flaw : flaw = SubFlaw(loc)
        OBVIOUS
      <3>3. flaw.past \in 1 .. Len(args)
        BY <1>1, <2>1, <2>3, <3>1, <3>2, FlawIsWhere
      <3>4. flaw.past \in 0 .. Len(args) /\ flaw.what \in Flaws /\ Reject(flaw)
        BY <1>1, <2>3, <3>2, <3>3, SubFlawIs
      <3>5. QED
        BY <1>1, <3>4, RejectReported
    <2>4. CASE Accept \/ UNCHANGED replies
      BY <1>2, <2>4 DEF Accept
    <2>5. loc \in Nat
      <3>1. loc \in First .. loc
        BY <2>1 DEF Walk
      <3>2. QED
        BY <3>1, FirstIs
    <2>6. QED
      BY <1>1, <1>5, <2>2, <2>3, <2>4, <2>5 DEF ValidateSub
  <1>6. QED
    BY <1>3, <1>4, <1>5

(***************************************************************************)
(* The lists that commands answer with: FlattenSeq is a recursive          *)
(* function, which has a solution.                                         *)
(***************************************************************************)
Flat(f, s, n) == f = [i \in 1 .. n |-> IF i = 1 THEN s[i] ELSE f[i - 1] \o s[i]]

LEMMA FlatExists ==
    ASSUME NEW s, NEW n \in Nat
    PROVE  \E f : Flat(f, s, n)
  <1> DEFINE Bad == {m \in Nat : ~\E f : Flat(f, s, m)}
  <1>1. SUFFICES ASSUME Bad # {} PROVE FALSE
    OBVIOUS
  <1>2. PICK m \in Bad : \A k \in Bad : m <= k
    <2>1. Bad \subseteq Nat
      OBVIOUS
    <2> HIDE DEF Bad
    <2>2. QED
      BY <1>1, <2>1, Least
  <1>3. m \in Nat /\ ~\E f : Flat(f, s, m)
    OBVIOUS
  <1>4. CASE m = 0
    <2> DEFINE f == [i \in 1 .. m |-> << >>]
    <2>1. \A i : i \notin 1 .. m
      BY <1>4
    <2>2. f = [i \in 1 .. m |-> IF i = 1 THEN s[i] ELSE f[i - 1] \o s[i]]
      BY <2>1, Zenon
    <2>3. QED
      BY <1>3, <2>2 DEF Flat
  <1>5. CASE m # 0
    <2>1. m - 1 \in Nat /\ ~(m <= m - 1)
      BY <1>3, <1>5
    <2>2. PICK f : Flat(f, s, m - 1)
      BY <1>2, <2>1
    <2> DEFINE piece(h, i) == IF i = 1 THEN s[i] ELSE h[i - 1] \o s[i]
               g == [i \in 1 .. m |-> IF i = m THEN piece(f, m) ELSE f[i]]
    <2>3. \A i \in 1 .. m : i # 1 => i - 1 \in 1 .. m /\ i - 1 # m
      BY <1>3
    <2>4. \A i \in 1 .. m : i # 1 => g[i - 1] = f[i - 1]
      BY <2>3, Zenon
    <2>5. \A i \in 1 .. m : piece(g, i) = piece(f, i)
      <3> HIDE DEF g
      <3>1. QED
        BY <2>4, Zenon
    <2>6. \A i \in 1 .. m : i # m => i \in 1 .. m - 1
      BY <1>3
    <2>7. \A i \in 1 .. m : i # m => f[i] = piece(f, i)
      BY <2>2, <2>6, Zenon DEF Flat
    <2>8. \A i \in 1 .. m : g[i] = piece(g, i)
      <3>1. \A i \in 1 .. m : g[i] = IF i = m THEN piece(f, m) ELSE f[i]
        BY Zenon
      <3> HIDE DEF g, piece
      <3>2. QED
        BY <2>5, <2>7, <3>1, Zenon
    <2>9. g = [i \in 1 .. m |-> piece(g, i)]
      <3>1. g = [i \in 1 .. m |-> g[i]]
        OBVIOUS
      <3> HIDE DEF g, piece
      <3>2. QED
        BY <2>8, <3>1, Zenon
    <2>10. QED
      BY <1>3, <2>9 DEF Flat
  <1>6. QED
    BY <1>4, <1>5

LEMMA FlatIs ==
    ASSUME NEW T, NEW s, NEW n \in Nat, \A i \in 1 .. n : s[i] \in Seq(T), NEW f, Flat(f, s, n)
    PROVE  \A i \in 1 .. n : f[i] \in Seq(T)
  <1>1. \A i \in 1 .. n : f[i] = IF i = 1 THEN s[i] ELSE f[i - 1] \o s[i]
    BY Zenon DEF Flat
  <1> DEFINE Bad == {i \in 1 .. n : f[i] \notin Seq(T)}
  <1>2. ASSUME Bad # {} PROVE FALSE
    <2>1. PICK m \in Bad : \A k \in Bad : m <= k
      <3>1. Bad \subseteq Nat
        OBVIOUS
      <3> HIDE DEF Bad
      <3>2. QED
        BY <1>2, <3>1, Least
    <2>2. m \in 1 .. n /\ f[m] \notin Seq(T)
      OBVIOUS
    <2>3. m # 1
      BY <1>1, <2>2
    <2>4. m - 1 \in 1 .. n /\ ~(m <= m - 1)
      BY <2>2, <2>3
    <2>5. f[m - 1] \in Seq(T)
      BY <2>1, <2>4
    <2>6. f[m] = f[m - 1] \o s[m]
      BY <1>1, <2>2, <2>3
    <2>7. f[m - 1] \o s[m] \in Seq(T)
      BY <2>2, <2>5, ConcatProperties
    <2>8. QED
      BY <2>2, <2>6, <2>7
  <1>3. QED
    BY <1>2

LEMMA Flattened ==
    ASSUME NEW T, NEW n \in Nat, NEW s, s = [i \in 1 .. n |-> s[i]],
           \A i \in 1 .. n : s[i] \in Seq(T)
    PROVE  FlattenSeq(s) \in Seq(T)
  <1>1. s \in Seq(Seq(T)) /\ Len(s) = n
    <2>1. \A i \in 1 .. n : [j \in 1 .. n |-> s[j]][i] \in Seq(T)
      OBVIOUS
    <2>2. PICK t : t = [j \in 1 .. n |-> s[j]]
      OBVIOUS
    <2>3. t \in Seq(Seq(T)) /\ Len(t) = n
      <3>1. t \in [1 .. n -> Seq(T)]
        BY <2>2
      <3>2. QED
        BY <3>1
    <2>4. QED
      BY <2>2, <2>3
  <1>2. CASE n = 0
    <2>1. s = << >>
      BY <1>1, <1>2, EmptySeq
    <2>2. FlattenSeq(s) = s
      BY <1>1, <1>2 DEF FlattenSeq
    <2>3. << >> \in Seq(T)
      OBVIOUS
    <2>4. QED
      BY <2>1, <2>2, <2>3
  <1>3. CASE n # 0
    <2>1. \E f : f = [i \in 1 .. n |-> IF i = 1 THEN s[i] ELSE f[i - 1] \o s[i]]
      BY FlatExists DEF Flat
    <2> DEFINE g == CHOOSE f : f = [i \in 1 .. n |-> IF i = 1 THEN s[i] ELSE f[i - 1] \o s[i]]
    <2>2. g = [i \in 1 .. n |-> IF i = 1 THEN s[i] ELSE g[i - 1] \o s[i]]
      BY <2>1, Zenon
    <2>3. FlattenSeq(s) = g[n]
      BY <1>1, <1>3, Zenon DEF FlattenSeq
    <2> HIDE DEF g
    <2>4. Flat(g, s, n)
      BY <2>2 DEF Flat
    <2>5. n \in 1 .. n
      BY <1>3
    <2>6. QED
      BY <2>3, <2>4, <2>5, FlatIs
  <1>4. QED
    BY <1>2, <1>3

LEMMA FirstOfBoth ==
    ASSUME NEW T, NEW a \in Seq(T), Len(a) # 0, NEW b \in Seq(T)
    PROVE  /\ a \o b \in Seq(T) /\ Len(a \o b) = Len(a) + Len(b)
           /\ Len(a \o b) \in Nat \ {0} /\ (a \o b)[1] = a[1]
  <1>1. PICK n \in Nat : n = Len(a)
    BY LenProperties
  <1>2. PICK k \in Nat : k = Len(b)
    BY LenProperties
  <1>3. 1 <= n /\ 1 \in 1 .. n + k /\ n + k \in Nat \ {0}
    BY <1>1, <1>2
  <1>4. a \o b \in Seq(T) /\ Len(a \o b) = Len(a) + Len(b)
    BY ConcatProperties
  <1>5. (a \o b)[1] = IF 1 <= Len(a) THEN a[1] ELSE b[1 - Len(a)]
    BY <1>1, <1>2, <1>3, ConcatProperties
  <1>6. QED
    BY <1>1, <1>2, <1>3, <1>4, <1>5

LEMMA MappingIs ==
    ASSUME NEW T, NEW n \in Nat, NEW labels, labels = [k \in 1 .. n |-> labels[k]],
           \A k \in 1 .. n : labels[k] \in T,
           NEW values, \A k \in 1 .. n : values[k] \in Seq(T)
    PROVE  /\ Mapping(labels, values) \in Seq(T \cup {Dictionary, End})
           /\ Len(Mapping(labels, values)) \in Nat \ {0}
           /\ Mapping(labels, values)[1] = Dictionary
  <1>1. PICK U : U = T \cup {Dictionary, End}
    OBVIOUS
  <1>2. PICK s : s = [k \in 1 .. n |-> <<labels[k]>> \o values[k]]
    OBVIOUS
  <1>3. ASSUME NEW k \in 1 .. n PROVE s[k] \in Seq(U)
    <2>1. labels[k] \in U /\ values[k] \in Seq(U)
      BY <1>1
    <2>2. <<labels[k]>> \in Seq(U)
      BY <2>1, OneElement
    <2>3. <<labels[k]>> \o values[k] \in Seq(U)
      BY <2>1, <2>2, ConcatProperties
    <2>4. QED
      BY <1>2, <2>3
  <1>4. s = [k \in 1 .. n |-> s[k]]
    BY <1>2
  <1>5. FlattenSeq(s) \in Seq(U)
    BY <1>3, <1>4, Flattened
  <1>6. DOMAIN labels = 1 .. n
    <2>1. DOMAIN [k \in 1 .. n |-> labels[k]] = 1 .. n
      OBVIOUS
    <2>2. QED
      BY <2>1
  <1>7. PICK d, e, f : d = Dictionary /\ e = End /\ f = FlattenSeq(s)
    OBVIOUS
  <1>8. Mapping(labels, values) = <<d>> \o f \o <<e>>
    BY <1>2, <1>6, <1>7 DEF Mapping
  <1>9. <<d>> \in Seq(U) /\ <<e>> \in Seq(U) /\ f \in Seq(U)
    BY <1>1, <1>5, <1>7
  <1>10. PICK l : l = <<d>> \o f
    OBVIOUS
  <1>11. l \in Seq(U) /\ Len(l) = 1 + Len(f) /\ l[1] = d
    <2>1. 1 \in 1 .. Len(<<d>>)
      OBVIOUS
    <2>2. QED
      BY <1>9, <1>10, <2>1, ConcatProperties
  <1>12. l \o <<e>> \in Seq(U) /\ Len(l \o <<e>>) = Len(l) + 1 /\ (l \o <<e>>)[1] = d
    <2>1. 1 \in 1 .. Len(l)
      BY <1>9, <1>11
    <2>2. QED
      BY <1>9, <1>11, <2>1, ConcatProperties
  <1>13. Len(l \o <<e>>) \in Nat \ {0}
    BY <1>9, <1>11, <1>12
  <1>14. QED
    BY <1>1, <1>7, <1>8, <1>10, <1>12, <1>13

(* What the syntax of a command is made of.                                *)
HasWords(T, words) == {Array, Dictionary, End} \subseteq T /\ \A w \in words : Str(w) \in T

LEMMA ListIs ==
    ASSUME NEW T, HasWords(T, {}), NEW parts \in Seq(T)
    PROVE  List(parts) \in Seq(T)
  <1>1. PICK a, e : a = Array /\ e = End
    OBVIOUS
  <1>2. <<a>> \in Seq(T) /\ <<e>> \in Seq(T)
    BY <1>1, OneElement DEF HasWords
  <1>3. <<a>> \o parts \in Seq(T)
    BY <1>2, ConcatProperties
  <1>4. (<<a>> \o parts) \o <<e>> \in Seq(T)
    BY <1>2, <1>3, ConcatProperties
  <1>5. QED
    BY <1>1, <1>4 DEF List

LEMMA SyntaxIs ==
    ASSUME NEW T, NEW c, NEW arguments, HasWords(T, {"id", c, arguments})
    PROVE  Syntax(c) \in Seq(T) /\ SyntaxOf(c, arguments) \in Seq(T)
  <1>1. PICK a, b, d : a = Str("id") /\ b = Str(c) /\ d = Str(arguments)
    OBVIOUS
  <1>2. a \in T /\ b \in T /\ d \in T /\ HasWords(T, {})
    BY <1>1 DEF HasWords
  <1>3. <<a, b>> \in Seq(T) /\ <<a, b, d>> \in Seq(T)
    BY <1>2
  <1>4. QED
    BY <1>1, <1>2, <1>3, ListIs DEF Syntax, SyntaxOf

LEMMA SubSyntaxIs ==
    ASSUME NEW T, NEW c, HasWords(T, {"id", "sub", "subs", "part", c}),
           NEW before \in Seq(T), NEW n \in Nat, NEW subs,
           DOMAIN subs = 1 .. n, HasWords(T, {subs[k].name : k \in 1 .. n}),
           \A k \in 1 .. n : \E m \in Nat : DOMAIN subs[k].parts = 1 .. m
    PROVE  SubSyntax(c, before, subs) \in Seq(T)
  <1>1. PICK d, e, i, s, t : d = Dictionary /\ e = End /\ i = Str("id") /\ s = Str("sub") /\ t = Str("subs")
    OBVIOUS
  <1>2. PICK v : v = Str(c)
    OBVIOUS
  <1>3. /\ d \in T /\ e \in T /\ i \in T /\ s \in T /\ t \in T
        /\ v \in T /\ Str("part") \in T /\ HasWords(T, {})
        /\ \A k \in 1 .. n : Str(subs[k].name) \in T
    BY <1>1, <1>2 DEF HasWords
  <1>4. /\ <<d, v>> \in Seq(T) /\ <<e>> \in Seq(T) /\ <<i, v>> \in Seq(T)
        /\ <<s>> \in Seq(T) /\ <<t>> \in Seq(T) /\ <<s, t>> \in Seq(T)
    BY <1>3
  <1>5. PICK a : a = List(<<i, v>> \o before \o <<t>>)
    OBVIOUS
  <1>6. a \in Seq(T)
    <2>1. <<i, v>> \o before \in Seq(T)
      BY <1>4, ConcatProperties
    <2>2. <<i, v>> \o before \o <<t>> \in Seq(T)
      BY <1>4, <2>1, ConcatProperties
    <2>3. QED
      BY <1>3, <1>5, <2>2, ListIs
  <1>7. PICK b : b = List(List(<<s, t>>) \o List(<<s>>))
    OBVIOUS
  <1>8. b \in Seq(T)
    <2>1. List(<<s, t>>) \in Seq(T) /\ List(<<s>>) \in Seq(T)
      BY <1>3, <1>4, ListIs
    <2>2. List(<<s, t>>) \o List(<<s>>) \in Seq(T)
      BY <2>1, ConcatProperties
    <2>3. QED
      BY <1>3, <1>7, <2>2, ListIs
  <1>9. PICK f : f = List([k \in DOMAIN subs |-> Str(subs[k].name)])
    OBVIOUS
  <1>10. f \in Seq(T)
    <2>1. PICK q : q = [k \in 1 .. n |-> Str(subs[k].name)]
      OBVIOUS
    <2>2. q \in [1 .. n -> T]
      BY <1>3, <2>1
    <2>3. q \in Seq(T)
      BY <2>2
    <2>4. QED
      BY <1>3, <1>9, <2>1, <2>3, ListIs
  <1>11. PICK g : g = [k \in DOMAIN subs |->
                <<Str(subs[k].name)>> \o
                List(<<Str(subs[k].name)>> \o [x \in DOMAIN subs[k].parts |-> Str("part")])]
    OBVIOUS
  <1>12. FlattenSeq(g) \in Seq(T)
    <2>1. ASSUME NEW k \in 1 .. n PROVE g[k] \in Seq(T)
      <3>1. PICK w : w = Str(subs[k].name)
        OBVIOUS
      <3>2. PICK m \in Nat : DOMAIN subs[k].parts = 1 .. m
        OBVIOUS
      <3>3. PICK q : q = [x \in 1 .. m |-> Str("part")]
        OBVIOUS
      <3>4. q \in Seq(T)
        <4>1. q \in [1 .. m -> T]
          BY <1>3, <3>3
        <4>2. QED
          BY <4>1
      <3>5. <<w>> \in Seq(T)
        BY <1>3, <3>1, OneElement
      <3>6. <<w>> \o q \in Seq(T)
        BY <3>4, <3>5, ConcatProperties
      <3>7. List(<<w>> \o q) \in Seq(T)
        BY <1>3, <3>6, ListIs
      <3>8. g[k] = <<w>> \o List(<<w>> \o q)
        BY <1>11, <3>1, <3>2, <3>3
      <3>9. QED
        BY <3>5, <3>7, <3>8, ConcatProperties
    <2>2. g = [k \in 1 .. n |-> g[k]]
      BY <1>11
    <2>3. QED
      BY <2>1, <2>2, Flattened
  <1>13. SubSyntax(c, before, subs) =
            <<d, v>> \o a \o <<t>> \o b \o <<s>> \o f \o FlattenSeq(g) \o <<e>>
    BY <1>1, <1>2, <1>5, <1>7, <1>9, <1>11, Zenon DEF SubSyntax
  <1>14. PICK h : h = FlattenSeq(g)
    OBVIOUS
  <1>15. <<d, v>> \o a \in Seq(T)
    BY <1>4, <1>6, ConcatProperties
  <1>16. <<d, v>> \o a \o <<t>> \in Seq(T)
    BY <1>4, <1>15, ConcatProperties
  <1>17. <<d, v>> \o a \o <<t>> \o b \in Seq(T)
    BY <1>8, <1>16, ConcatProperties
  <1>18. <<d, v>> \o a \o <<t>> \o b \o <<s>> \in Seq(T)
    BY <1>4, <1>17, ConcatProperties
  <1>19. <<d, v>> \o a \o <<t>> \o b \o <<s>> \o f \in Seq(T)
    BY <1>10, <1>18, ConcatProperties
  <1>20. <<d, v>> \o a \o <<t>> \o b \o <<s>> \o f \o h \in Seq(T)
    BY <1>12, <1>14, <1>19, ConcatProperties
  <1>21. QED
    BY <1>4, <1>13, <1>14, <1>20, ConcatProperties

Vocabulary == {"id", "sub", "subs", "part", "string-id", "string,..."} \cup
              {Commands[k] : k \in 1 .. 10} \cup {FeedSubs[k].name : k \in 1 .. 2} \cup
              {RunSubs[k].name : k \in 1 .. 10}

LEMMA CommandsAre ==
    /\ DOMAIN Commands = 1 .. 10 /\ Len(Commands) = 10
    /\ \A k \in 1 .. 10 : Commands[k] \in DOMAIN Description
  BY DEF Commands, Description, Parameterless

LEMMA ReportIs ==
    ASSUME NEW T, HasWords(T, Vocabulary), NEW c, c \in Vocabulary
    PROVE  Report(c) \in Seq(T)
  <1>1. /\ "id" \in Vocabulary /\ "sub" \in Vocabulary /\ "subs" \in Vocabulary /\ "part" \in Vocabulary
        /\ "string-id" \in Vocabulary /\ "string,..." \in Vocabulary
        /\ \A k \in 1 .. 2 : FeedSubs[k].name \in Vocabulary
        /\ \A k \in 1 .. 10 : RunSubs[k].name \in Vocabulary
    BY DEF Vocabulary
  <1>2. \A W : W \subseteq Vocabulary => HasWords(T, W)
    BY DEF HasWords
  <1>3. HasWords(T, {"id", "sub", "subs", "part", c}) /\ HasWords(T, {"id", c, "string,..."})
    <2>1. PICK W, V : W = {"id", "sub", "subs", "part", c} /\ V = {"id", c, "string,..."}
      OBVIOUS
    <2>2. W \subseteq Vocabulary /\ V \subseteq Vocabulary
      BY <1>1, <2>1
    <2>3. QED
      BY <1>2, <2>1, <2>2
  <1>4. CASE Description[c] = "parameterless"
    BY <1>3, <1>4, SyntaxIs DEF Report
  <1>5. CASE Description[c] = "feed"
    <2>1. PICK s : s = Str("string-id")
      OBVIOUS
    <2>2. s \in T
      BY <1>1, <2>1 DEF HasWords
    <2>3. <<s>> \in Seq(T)
      BY <2>2
    <2>4. HasWords(T, {FeedSubs[k].name : k \in 1 .. 2})
      <3>1. PICK W : W = {FeedSubs[k].name : k \in 1 .. 2}
        OBVIOUS
      <3>2. W \subseteq Vocabulary
        BY <1>1, <3>1
      <3>3. QED
        BY <1>2, <3>1, <3>2
    <2>5. \A k \in 1 .. 2 : \E m \in Nat : DOMAIN FeedSubs[k].parts = 1 .. m
      <3>1. \A a, b : DOMAIN <<a, b>> = 1 .. 2
        OBVIOUS
      <3>2. \A k \in 1 .. 2 : DOMAIN FeedSubs[k].parts = 1 .. 2
        BY <3>1, FeedSubsAre
      <3>3. QED
        BY <3>2
    <2>6. SubSyntax(c, <<s>>, FeedSubs) \in Seq(T)
      BY <1>3, <2>3, <2>4, <2>5, FeedSubsAre, SubSyntaxIs
    <2>7. QED
      BY <1>5, <2>1, <2>6 DEF Report
  <1>6. CASE Description[c] = "run"
    <2>1. HasWords(T, {RunSubs[k].name : k \in 1 .. 10})
      <3>1. PICK W : W = {RunSubs[k].name : k \in 1 .. 10}
        OBVIOUS
      <3>2. W \subseteq Vocabulary
        BY <1>1, <3>1
      <3>3. QED
        BY <1>2, <3>1, <3>2
    <2>2. \A k \in 1 .. 10 : \E m \in Nat : DOMAIN RunSubs[k].parts = 1 .. m
      <3> DEFINE Few(p) == \E m \in Nat : DOMAIN p = 1 .. m
      <3>1. Few(<< >>) /\ \A a, b : Few(<<a>>) /\ Few(<<a, b>>)
        <4>1. \A a, b : DOMAIN <<a, b>> = 1 .. 2 /\ DOMAIN <<a>> = 1 .. 1 /\ DOMAIN << >> = 1 .. 0
          OBVIOUS
        <4>2. QED
          BY <4>1
      <3> HIDE DEF Few
      <3>2. /\ Few(RunSubs[1].parts) /\ Few(RunSubs[2].parts) /\ Few(RunSubs[3].parts)
            /\ Few(RunSubs[4].parts) /\ Few(RunSubs[5].parts) /\ Few(RunSubs[6].parts)
            /\ Few(RunSubs[7].parts) /\ Few(RunSubs[8].parts) /\ Few(RunSubs[9].parts)
            /\ Few(RunSubs[10].parts)
        BY <3>1, RunSubsAre, Zenon
      <3>3. \A k \in 1 .. 10 : Few(RunSubs[k].parts)
        BY <3>2
      <3>4. QED
        BY <3>3 DEF Few
    <2>3. << >> \in Seq(T)
      OBVIOUS
    <2>4. SubSyntax(c, << >>, RunSubs) \in Seq(T)
      BY <1>3, <2>1, <2>2, <2>3, RunSubsAre, SubSyntaxIs
    <2>5. QED
      BY <1>6, <2>4 DEF Report
  <1>7. CASE Description[c] \notin {"parameterless", "feed", "run"}
    BY <1>3, <1>7, SyntaxIs DEF Report
  <1>8. QED
    BY <1>4, <1>5, <1>6, <1>7

LEMMA PickIs ==
    ASSUME Typed, HasCommand, NEW places, places \subseteq DOMAIN args
    PROVE  /\ Cardinality(places) \in Nat /\ Len(Pick(places)) = Cardinality(places)
           /\ Pick(places) = [k \in 1 .. Cardinality(places) |-> Pick(places)[k]]
  <1>1. IsFiniteSet(DOMAIN args)
    BY Arguments, FS_Interval DEF Typed
  <1>2. Cardinality(places) \in Nat
    BY <1>1, FS_Subset, FS_CardinalityType
  <1>3. QED
    BY <1>2 DEF Pick

LEMMA ListsAreReported ==
    ASSUME id # Null, NEW list, Len(list) \in Nat, NEW type,
           \/ name \in {"get", "delete", "rename", "terminate", "end-feed"} /\ type = "missing"
           \/ name = "get" /\ type = "failed"
           \/ name = "end-feed" /\ type = "not-open"
    PROVE  ReportedList(IfAny(list, type))
  <1>1. PICK i, n : i = id /\ n = name
    OBVIOUS
  <1>2. Reportable(Message(i, n, type, list))
    BY <1>1, ListReported
  <1>3. Reportable(Reply(name, type, list))
    BY <1>1, <1>2 DEF Reply
  <1>4. QED
    BY <1>3, ReportedOne, ReportedNone DEF IfAny

LEMMA MappingAnswers ==
    ASSUME id # Null, name \in {"get", "storage-info", "version"},
           NEW rest, Len(rest) \in Nat \ {0}, rest[1] = Dictionary
    PROVE  Reportable(Reply(name, "", rest))
  <1>1. PICK i, n : i = id /\ n = name
    OBVIOUS
  <1>2. Reportable(Message(i, n, "", rest))
    BY <1>1, MappingReported
  <1>3. QED
    BY <1>1, <1>2, Zenon DEF Reply

LEMMA DoneAnswers == ASSUME id # Null PROVE Reportable(Done) /\ ReportedList(<<Done>>)
  <1>1. Reportable(Done)
    BY DoneReported, Zenon DEF Done, Reply
  <1>2. QED
    BY <1>1, ReportedOne

(***************************************************************************)
(* Perform.                                                                *)
(***************************************************************************)
LEMMA VersionReported ==
    ASSUME Silent, HasCommand, Version
    PROVE  AllReported'
  <1>1. place # "over" /\ name = "version"
    BY DEF Version, Performs
  <1>2. PICK head : head = <<Dictionary, Str("datalackey"), Number, Str("interface"), Number,
                             Str("commands")>>
    OBVIOUS
  <1>3. PICK labels : labels = [k \in DOMAIN Commands |-> Str(Commands[k])]
    OBVIOUS
  <1>4. PICK values : values = [k \in DOMAIN Commands |-> Report(Commands[k])]
    OBVIOUS
  <1>5. PICK T : T = {Array, Dictionary, End, Number} \cup {Str(w) : w \in Vocabulary}
                        \cup {Str("datalackey"), Str("interface"), Str("commands")}
    OBVIOUS
  <1>6. HasWords(T, Vocabulary)
    BY <1>5 DEF HasWords
  <1>7. labels = [k \in 1 .. 10 |-> labels[k]] /\ \A k \in 1 .. 10 : labels[k] \in T
    <2>1. \A k \in 1 .. 10 : Commands[k] \in Vocabulary
      BY DEF Vocabulary
    <2>2. QED
      BY <1>3, <1>6, <2>1, CommandsAre DEF HasWords
  <1>8. \A k \in 1 .. 10 : values[k] \in Seq(T)
    <2>1. ASSUME NEW k \in 1 .. 10 PROVE values[k] \in Seq(T)
      <3>1. PICK c : c = Commands[k]
        OBVIOUS
      <3>2. c \in Vocabulary
        BY <3>1 DEF Vocabulary
      <3>3. Report(c) \in Seq(T)
        BY <1>6, <3>2, ReportIs
      <3>4. QED
        BY <1>4, <3>1, <3>3, CommandsAre
    <2>2. QED
      BY <2>1
  <1>9. PICK m : m = Mapping(labels, values)
    OBVIOUS
  <1>10. m \in Seq(T)
    <2>1. T = T \cup {Dictionary, End}
      BY <1>5
    <2>2. QED
      BY <1>7, <1>8, <1>9, <2>1, MappingIs
  <1>11. head \in Seq(T) /\ Len(head) = 6 /\ head[1] = Dictionary
    <2>1. PICK a, b, c, d, e : a = Dictionary /\ b = Str("datalackey") /\ c = Number /\ d = Str("interface")
                               /\ e = Str("commands")
      OBVIOUS
    <2>2. a \in T /\ b \in T /\ c \in T /\ d \in T /\ e \in T
      BY <1>5, <2>1
    <2>3. <<a, b, c, d, c, e>> \in Seq(T)
      BY <2>2
    <2>4. QED
      BY <1>2, <2>1, <2>3
  <1>12. PICK e : e = End
    OBVIOUS
  <1>13. <<e>> \in Seq(T)
    BY <1>5, <1>12, OneElement
  <1>14. PICK l : l = head \o m
    OBVIOUS
  <1>15. l \in Seq(T) /\ Len(l) = 6 + Len(m) /\ l[1] = Dictionary
    <2>1. head \in Seq(T) /\ Len(head) # 0
      BY <1>11
    <2>2. head \o m \in Seq(T) /\ Len(head \o m) = Len(head) + Len(m) /\ (head \o m)[1] = head[1]
      BY <1>10, <2>1, FirstOfBoth
    <2>3. QED
      BY <1>11, <1>14, <2>2
  <1>16. PICK rest : rest = l \o <<e>>
    OBVIOUS
  <1>17. Len(rest) \in Nat \ {0} /\ rest[1] = Dictionary
    BY <1>10, <1>13, <1>15, <1>16, LenProperties, FirstOfBoth
  <1>18. Send(<<Reply(name, "", rest), Done>>)
    BY <1>2, <1>3, <1>4, <1>9, <1>12, <1>14, <1>16, Zenon DEF Version
  <1>19. id # Null => ReportedList(<<Reply(name, "", rest), Done>>)
    BY <1>1, <1>17, MappingAnswers, DoneAnswers, ReportedTwo
  <1>20. QED
    BY <1>1, <1>18, <1>19, SentReported

LEMMA StorageInfoReported ==
    ASSUME Silent, HasCommand, StorageInfo
    PROVE  AllReported'
  <1>1. place # "over" /\ name = "storage-info"
    BY DEF StorageInfo, Performs
  <1>2. PICK stored \in {<< >>, <<Str("a")>>, <<Str("a"), Str("b")>>} :
            Send(<<Reply(name, "", Mapping(stored, [k \in DOMAIN stored |-> Info])), Done>>)
    BY DEF StorageInfo
  <1>3. PICK T : T = {Dictionary, Str("serial"), Number, Str("JSON"), End, Str("a"), Str("b")}
    OBVIOUS
  <1>4. PICK a, b : a = Str("a") /\ b = Str("b")
    OBVIOUS
  <1>5. stored \in Seq(T)
    <2>1. a \in T /\ b \in T
      BY <1>3, <1>4
    <2>2. << >> \in Seq(T) /\ <<a>> \in Seq(T) /\ <<a, b>> \in Seq(T)
      BY <2>1
    <2>3. QED
      BY <1>2, <1>4, <2>2
  <1>6. Info \in Seq(T)
    <2>1. PICK d, s, n, j, e : d = Dictionary /\ s = Str("serial") /\ n = Number /\ j = Str("JSON")
                               /\ e = End
      OBVIOUS
    <2>2. d \in T /\ s \in T /\ n \in T /\ j \in T /\ e \in T
      BY <1>3, <2>1
    <2>3. <<d, s, n, j, n, e>> \in Seq(T)
      BY <2>2
    <2>4. QED
      BY <2>1, <2>3 DEF Info
  <1>7. PICK n \in Nat : n = Len(stored) /\ DOMAIN stored = 1 .. n
    BY <1>5, LenProperties
  <1>8. stored = [k \in 1 .. n |-> stored[k]] /\ \A k \in 1 .. n : stored[k] \in T
    BY <1>5, <1>7
  <1>9. PICK values : values = [k \in DOMAIN stored |-> Info]
    OBVIOUS
  <1>10. \A k \in 1 .. n : values[k] \in Seq(T)
    BY <1>6, <1>7, <1>9
  <1>11. PICK rest : rest = Mapping(stored, values)
    OBVIOUS
  <1>12. Len(rest) \in Nat \ {0} /\ rest[1] = Dictionary
    <2>1. Len(Mapping(stored, values)) \in Nat \ {0} /\ Mapping(stored, values)[1] = Dictionary
      BY <1>8, <1>10, MappingIs
    <2>2. QED
      BY <1>11, <2>1
  <1>13. id # Null => ReportedList(<<Reply(name, "", rest), Done>>)
    BY <1>1, <1>12, MappingAnswers, DoneAnswers, ReportedTwo
  <1>14. QED
    BY <1>1, <1>2, <1>9, <1>11, <1>13, SentReported

LEMMA GetReported ==
    ASSUME Silent, Typed, HasCommand, AllReported, Get
    PROVE  AllReported'
  <1>1. place # "over" /\ name = "get"
    BY DEF Get, Performs
  <1>2. CASE NotStrings # {}
    BY <1>2, NothingReported DEF Get, Fault
  <1>3. CASE NotStrings = {}
    <2>1. PICK stored \in SUBSET DOMAIN args : \E read \in [stored -> Readings] :
            LET found == SetToSortSeq(stored, <)
                failing == {k \in stored : read[k] = "part"}
            IN Send(IfAny(Pick(DOMAIN args \ stored), "missing")
                    \o <<Reply(name, "", Mapping(Pick(stored),
                           [k \in 1 .. Cardinality(stored) |-> <<Raw(read[found[k]])>>]))>>
                    \o IfAny(Pick(failing), "failed") \o <<Done>>)
      BY <1>3 DEF Get
    <2>2. PICK failing, read, found :
         /\ failing \in SUBSET stored
         /\ Send(IfAny(Pick(DOMAIN args \ stored), "missing")
                 \o <<Reply(name, "", Mapping(Pick(stored),
                        [k \in 1 .. Cardinality(stored) |-> <<Raw(read[found[k]])>>]))>>
                 \o IfAny(Pick(failing), "failed") \o <<Done>>)
      BY <2>1
    <2>3. PICK n \in Nat : n = Cardinality(stored)
      BY PickIs
    <2>4. PICK labels : labels = Pick(stored)
      OBVIOUS
    <2>5. PICK values : values = [k \in 1 .. n |-> <<Raw(read[found[k]])>>]
      OBVIOUS
    <2>6. PICK T : T = {labels[k] : k \in 1 .. n} \cup {Raw(read[found[k]]) : k \in 1 .. n}
      OBVIOUS
    <2>7. labels = [k \in 1 .. n |-> labels[k]] /\ \A k \in 1 .. n : labels[k] \in T
      BY <2>3, <2>4, <2>6, PickIs
    <2>8. ASSUME NEW k \in 1 .. n PROVE values[k] \in Seq(T)
      <3>1. PICK r : r = Raw(read[found[k]])
        OBVIOUS
      <3>2. values[k] = <<r>> /\ r \in T
        BY <2>5, <2>6, <3>1
      <3>3. QED
        BY <3>2, OneElement
    <2>9. PICK rest : rest = Mapping(labels, values)
      OBVIOUS
    <2>10. Len(rest) \in Nat \ {0} /\ rest[1] = Dictionary
      <3>1. Len(Mapping(labels, values)) \in Nat \ {0} /\ Mapping(labels, values)[1] = Dictionary
        BY <2>7, <2>8, MappingIs
      <3>2. QED
        BY <2>9, <3>1
    <2>11. ASSUME id # Null
           PROVE  ReportedList(IfAny(Pick(DOMAIN args \ stored), "missing") \o <<Reply(name, "", rest)>>
                               \o IfAny(Pick(failing), "failed") \o <<Done>>)
      <3>1. PICK missing, failed : missing = Pick(DOMAIN args \ stored) /\ failed = Pick(failing)
        OBVIOUS
      <3>2. Len(missing) \in Nat /\ Len(failed) \in Nat
        <4>1. DOMAIN args \ stored \subseteq DOMAIN args /\ failing \subseteq DOMAIN args
          BY <2>2
        <4>2. QED
          BY <3>1, <4>1, PickIs
      <3>3. ReportedList(IfAny(missing, "missing")) /\ ReportedList(IfAny(failed, "failed"))
        BY <1>1, <2>11, <3>2, ListsAreReported
      <3>4. ReportedList(<<Reply(name, "", rest)>>) /\ ReportedList(<<Done>>)
        BY <1>1, <2>10, <2>11, MappingAnswers, DoneAnswers, ReportedOne
      <3>5. ReportedList(IfAny(missing, "missing") \o <<Reply(name, "", rest)>>)
        BY <3>3, <3>4, ReportedBoth
      <3>6. ReportedList(IfAny(missing, "missing") \o <<Reply(name, "", rest)>> \o IfAny(failed, "failed"))
        BY <3>3, <3>5, ReportedBoth
      <3>7. QED
        BY <3>1, <3>4, <3>6, ReportedBoth
    <2>12. QED
      BY <1>1, <2>2, <2>3, <2>4, <2>5, <2>9, <2>11, SentReported
  <1>4. QED
    BY <1>2, <1>3

LEMMA ForEachReported ==
    ASSUME Silent, Typed, HasCommand, AllReported, ForEach
    PROVE  AllReported'
  <1>1. place # "over" /\ name \in {"delete", "rename", "terminate"}
    BY DEF ForEach, Performs
  <1>2. CASE Fault
    BY <1>2, NothingReported DEF Fault
  <1>3. CASE ~Fault
    <2>1. PICK places : /\ places \in SUBSET {k \in DOMAIN args : name # "rename" \/ k % 2 = 1}
                        /\ Send(IfAny(Pick(places), "missing") \o <<Done>>)
      BY <1>3 DEF ForEach
    <2>2. PICK missing : missing = Pick(places)
      OBVIOUS
    <2>3. Len(missing) \in Nat
      <3>1. places \subseteq DOMAIN args
        BY <2>1
      <3>2. QED
        BY <2>2, <3>1, PickIs
    <2>4. id # Null => ReportedList(IfAny(missing, "missing") \o <<Done>>)
      BY <1>1, <2>3, ListsAreReported, DoneAnswers, ReportedBoth
    <2>5. QED
      BY <1>1, <2>1, <2>2, <2>4, SentReported
  <1>4. QED
    BY <1>2, <1>3

LEMMA EndFeedReported ==
    ASSUME Silent, Typed, HasCommand, EndFeed
    PROVE  AllReported'
  <1>1. place # "over" /\ name = "end-feed"
    BY DEF EndFeed, Performs
  <1>2. PICK state :
            Send(IfAny(Pick({k \in DOMAIN args : state[k] = "none"}), "missing")
                 \o IfAny(Pick({k \in DOMAIN args : state[k] = "closed"}), "not-open") \o <<Done>>)
    BY DEF EndFeed
  <1>3. PICK missing, closed : /\ missing = Pick({k \in DOMAIN args : state[k] = "none"})
                               /\ closed = Pick({k \in DOMAIN args : state[k] = "closed"})
    OBVIOUS
  <1>4. Len(missing) \in Nat /\ Len(closed) \in Nat
    <2>1. /\ {k \in DOMAIN args : state[k] = "none"} \subseteq DOMAIN args
          /\ {k \in DOMAIN args : state[k] = "closed"} \subseteq DOMAIN args
      OBVIOUS
    <2>2. QED
      BY <1>3, <2>1, PickIs
  <1>5. ASSUME id # Null
        PROVE  ReportedList(IfAny(missing, "missing") \o IfAny(closed, "not-open") \o <<Done>>)
    <2>1. ReportedList(IfAny(missing, "missing")) /\ ReportedList(IfAny(closed, "not-open"))
      BY <1>1, <1>4, <1>5, ListsAreReported
    <2>2. ReportedList(IfAny(missing, "missing") \o IfAny(closed, "not-open"))
      BY <2>1, ReportedBoth
    <2>3. QED
      BY <1>5, <2>2, DoneAnswers, ReportedBoth
  <1>6. QED
    BY <1>1, <1>2, <1>3, <1>5, SentReported

LEMMA NoOperationReported ==
    ASSUME Silent, NoOperation
    PROVE  AllReported'
  <1>1. place # "over" /\ name = "no-op" /\ Send(<<Reply("no-op", "", << >>), Done>>)
    BY DEF NoOperation, Performs
  <1>2. id # Null => Reportable(Message(id, "no-op", "", << >>))
    BY NoOpReported, Zenon
  <1>3. id # Null => ReportedList(<<Reply("no-op", "", << >>), Done>>)
    BY <1>2, DoneAnswers, ReportedTwo, Zenon DEF Reply
  <1>4. QED
    BY <1>1, <1>3, SentReported

(***************************************************************************)
(* Feed.                                                                   *)
(***************************************************************************)
LEMMA FeedReported ==
    ASSUME Agreed, AllReported, FeedRefused \/ FeedInput \/ FeedDone
    PROVE  AllReported'
  <1>1. place = "feed"
    BY DEF FeedRefused, FeedInput, FeedDone
  <1>2. Silent /\ Typed /\ HasCommand /\ name = "feed" /\ place # "over"
    BY <1>1, Descriptions DEF Agreed, IInv, Agreement, Known, Walked
  <1>3. PICK i : i = id
    OBVIOUS
  <1>4. CASE FeedRefused
    <2>1. PICK why \in {"not-found", "closed"} : Send(<<Reply("feed", "error", <<Str(why)>>), Done>>)
      BY <1>2, <1>4 DEF FeedRefused
    <2>2. i # Null => Reportable(Message(i, "feed", "error", <<Str(why)>>))
      BY RefusedReported
    <2>3. QED
      BY <1>2, <1>3, <2>1, <2>2, AnswerReported
  <1>5. CASE FeedInput
    <2>1. CASE UNCHANGED replies
      BY <2>1, NothingReported
    <2>2. CASE ~UNCHANGED replies
      <3>1. /\ loc <= Len(args) /\ args[loc + 2].kind = "string"
            /\ Send(<<Reply("feed", "error", <<args[loc], Str("duplicate"), args[loc + 2]>>), Done>>)
        BY <1>2, <1>5, <2>2 DEF FeedInput, Fault
      <3>2. PICK a, b : a = args[loc] /\ b = args[loc + 2]
        OBVIOUS
      <3>3. a.kind = "string"
        <4>1. loc \in 1 .. Len(args) /\ SubFlaw(loc) = Fine /\ message \in Seq(Element)
          BY <1>1, <3>1, AtValid
        <4>2. \E k \in DOMAIN Subs : args[loc] = Str(Subs[k].name)
          BY <1>2, <4>1, FineIsNamed
        <4>3. QED
          BY <3>2, <4>2 DEF Str
      <3>4. i # Null => Reportable(Message(i, "feed", "error", <<a, Str("duplicate"), b>>))
        BY <3>1, <3>2, <3>3, DuplicateReported
      <3>5. Send(<<Reply("feed", "error", <<a, Str("duplicate"), b>>), Done>>)
        BY <3>1, <3>2
      <3>6. QED
        BY <1>2, <1>3, <3>4, <3>5, AnswerReported
    <2>3. QED
      BY <2>1, <2>2
  <1>6. CASE FeedDone
    <2>1. PICK missing \in SUBSET InputLabels :
            Send((IF missing = {} THEN << >>
                  ELSE <<Reply("feed", "error", <<Str("missing")>> \o Pick(missing))>>) \o <<Done>>)
      BY <1>2, <1>6 DEF FeedDone
    <2>2. PICK n \in Nat : n = Cardinality(missing) /\ Pick(missing) = [k \in 1 .. n |-> Pick(missing)[k]]
      <3>1. missing \subseteq DOMAIN args
        BY DEF InputLabels
      <3>2. QED
        BY <1>2, <3>1, PickIs
    <2>3. PICK p : p = Pick(missing)
      OBVIOUS
    <2>4. PICK w : w = Str("missing")
      OBVIOUS
    <2>5. PICK T : T = {w} \cup {p[k] : k \in 1 .. n}
      OBVIOUS
    <2>6. p \in Seq(T) /\ <<w>> \in Seq(T)
      <3>1. p \in [1 .. n -> T]
        <4>1. p = [k \in 1 .. n |-> p[k]]
          BY <2>2, <2>3
        <4>2. \A k \in 1 .. n : p[k] \in T
          BY <2>5
        <4>3. QED
          BY <4>1, <4>2
      <3>2. w \in T
        BY <2>5
      <3>3. QED
        BY <3>1, <3>2, OneElement
    <2>7. PICK rest : rest = <<w>> \o p
      OBVIOUS
    <2>8. Len(rest) \in Nat \ {0} /\ rest[1] = w
      BY <2>6, <2>7, FirstOfBoth
    <2>9. i # Null => Reportable(Message(i, "feed", "error", rest))
      BY <2>4, <2>8, NotPreparedReported
    <2>10. PICK first : first = IF missing = {} THEN << >> ELSE <<Reply("feed", "error", rest)>>
      OBVIOUS
    <2>11. id # Null => ReportedList(first)
      BY <1>3, <2>9, <2>10, ReportedNone, ReportedOne DEF Reply
    <2>12. id # Null => ReportedList(first \o <<Done>>)
      BY <2>11, DoneAnswers, ReportedBoth
    <2>13. Send(first \o <<Done>>)
      BY <2>1, <2>3, <2>4, <2>7, <2>10
    <2>14. QED
      BY <1>2, <2>12, <2>13, SentReported
  <1>7. QED
    BY <1>4, <1>5, <1>6

(***************************************************************************)
(* Run.                                                                    *)
(***************************************************************************)
LEMMA RunErrorReported ==
    ASSUME Silent, place # "over", name = "run", NEW what, RunError(what),
           id # Null => Reportable(Message(id, "run", "error", what))
    PROVE  AllReported'
  <1>1. Send(<<Reply("run", "error", what), Done>>)
    BY DEF RunError
  <1>2. QED
    BY <1>1, AnswerReported

LEMMA RunFlawsReported ==
    ASSUME Silent, place # "over", name = "run", NEW a, NEW b, RunError(<<Str(a), Str(b)>>),
           <<a, b>> \in {<<"identifier", "in-use">>, <<"in", "multiple">>,
                         <<"notify", "no-input">>, <<"out", "missing">>}
    PROVE  AllReported'
  <1>1. PICK i : i = id
    OBVIOUS
  <1>2. i # Null => Reportable(Message(i, "run", "error", <<Str(a), Str(b)>>))
    BY RunFlawReported
  <1>3. QED
    BY <1>1, <1>2, RunErrorReported

LEMMA EnvNameIsString ==
    ASSUME Agreed, place = "run", loc <= Len(args), args[loc].text = "env"
    PROVE  args[loc + 1].kind = "string"
  <1>1. PICK k \in DOMAIN RunSubs :
            /\ args[loc].text = RunSubs[k].name
            /\ \A p \in DOMAIN RunSubs[k].parts : PartFlaw(RunSubs[k].parts[p], loc + p) = Fine
    BY RunAt
  <1>2. k = 1
    <2>1. k \in 1 .. 10 /\ RunSubs[k].name = "env"
      BY <1>1, RunSubsAre
    <2>2. k \in {1, 2, 3, 4, 5, 6, 7, 8, 9, 10}
      BY <2>1
    <2>3. QED
      BY <2>1, <2>2, RunSubsAre
  <1>3. RunSubs[1].parts = <<SubString, SubAny>>
    BY RunSubsAre
  <1>4. PICK p : p = RunSubs[1].parts
    OBVIOUS
  <1>5. 1 \in DOMAIN p /\ p[1] = SubString
    BY <1>3, <1>4
  <1>6. PartFlaw(SubString, loc + 1) = Fine
    BY <1>1, <1>2, <1>4, <1>5
  <1>7. args[loc + 1].kind \in SubString.kinds
    BY <1>6, FinePart
  <1>8. QED
    BY <1>7 DEF SubString

LEMMA RunLoopReported ==
    ASSUME Agreed, AllReported,
           \/ RunEnv \/ RunEnvClear \/ RunOutput \/ RunPrefix \/ RunPostfix
           \/ RunIn \/ RunOut \/ RunNotify \/ RunDirectory \/ RunProgram
    PROVE  AllReported'
  <1>1. place = "run" /\ loc <= Len(args)
    BY DEF RunEnv, RunEnvClear, RunOutput, RunPrefix, RunPostfix, RunIn, RunOut, RunNotify,
           RunDirectory, RunProgram, Branch
  <1>2. Silent /\ HasCommand /\ name = "run" /\ place # "over"
    BY <1>1, Descriptions DEF Agreed, IInv, Agreement, Known, Walked
  <1>3. ASSUME Fault \/ \E n, what : Found(n, what) PROVE AllReported'
    BY <1>3, NothingReported DEF Fault, Found
  <1>4. PICK i : i = id
    OBVIOUS
  <1>5. CASE RunEnv
    <2>1. args[loc].text = "env"
      BY <1>5 DEF RunEnv, Branch
    <2>2. PICK v : v = args[loc + 1]
      OBVIOUS
    <2>3. v.kind = "string"
      BY <1>1, <2>1, <2>2, EnvNameIsString
    <2>4. ASSUME NEW w \in {"invalid", "duplicate"},
                 RunError(<<Str("env"), Str("argument"), Str(w), v>>)
          PROVE  AllReported'
      <3>1. i # Null => Reportable(Message(i, "run", "error", <<Str("env"), Str("argument"), Str(w), v>>))
        BY <2>3, EnvReported
      <3>2. QED
        BY <1>2, <1>4, <2>4, <3>1, RunErrorReported
    <2>5. \/ RunError(<<Str("env"), Str("argument"), Str("invalid"), v>>)
          \/ RunError(<<Str("env"), Str("argument"), Str("duplicate"), v>>)
          \/ Fault \/ \E n, what : Found(n, what)
      BY <1>5, <2>2 DEF RunEnv, Branch
    <2>6. QED
      BY <1>3, <2>4, <2>5
  <1>6. CASE RunEnvClear \/ RunOutput \/ RunPrefix \/ RunPostfix \/ RunDirectory
    BY <1>3, <1>6 DEF RunEnvClear, RunOutput, RunPrefix, RunPostfix, RunDirectory, Branch
  <1>7. CASE RunIn
    <2>1. ASSUME RunError(<<Str("in"), Str("multiple")>>) PROVE AllReported'
      BY <1>2, <2>1, RunFlawsReported
    <2>2. QED
      BY <1>3, <1>7, <2>1 DEF RunIn, Branch
  <1>8. CASE RunOut
    <2>1. PICK c : c = Channel
      OBVIOUS
    <2>2. ASSUME RunError(<<Str("out"), Str("duplicate"), Str(c)>>) PROVE AllReported'
      <3>1. i # Null => Reportable(Message(i, "run", "error", <<Str("out"), Str("duplicate"), Str(c)>>))
        BY TwiceReported
      <3>2. QED
        BY <1>2, <1>4, <2>2, <3>1, RunErrorReported
    <2>3. QED
      BY <1>3, <1>8, <2>1, <2>2 DEF RunOut, Branch
  <1>9. CASE RunNotify
    BY <1>3, <1>9 DEF RunNotify, Branch
  <1>10. CASE RunProgram
    BY <1>3, <1>10 DEF RunProgram
  <1>11. QED
    BY <1>5, <1>6, <1>7, <1>8, <1>9, <1>10

LEMMA RunReported ==
    ASSUME Agreed, Gathered, AllReported,
           InUse \/ RunInconsistent \/ RunNoDirectory \/ RunNoProgram \/ RunFound \/ RunStart
    PROVE  AllReported'
  <1>1. place \in {"run", "start"}
    BY DEF InUse, RunInconsistent, RunNoDirectory, RunNoProgram, RunFound, RunStart, Collected
  <1>2. Silent /\ HasCommand /\ name = "run" /\ place # "over"
    BY <1>1, Descriptions DEF Agreed, IInv, Agreement, Known, Walked, Gathered
  <1>3. PICK i : i = id
    OBVIOUS
  <1>4. CASE InUse
    <2>1. RunError(<<Str("identifier"), Str("in-use")>>)
      BY <1>4 DEF InUse
    <2>2. QED
      BY <1>2, <2>1, RunFlawsReported
  <1>5. CASE RunInconsistent
    <2>1. CASE RunError(<<Str("notify"), Str("no-input")>>)
      BY <1>2, <2>1, RunFlawsReported
    <2>2. CASE RunError(<<Str("out"), Str("missing")>>)
      BY <1>2, <2>2, RunFlawsReported
    <2>3. CASE \E s : RunError(<<Str("output"), Str("duplicate"), Str(s)>>)
      <3>1. PICK s : RunError(<<Str("output"), Str("duplicate"), Str(s)>>)
        BY <2>3
      <3>2. i # Null => Reportable(Message(i, "run", "error", <<Str("output"), Str("duplicate"), Str(s)>>))
        BY TwiceReported
      <3>3. QED
        BY <1>2, <1>3, <3>1, <3>2, RunErrorReported
    <2>4. PICK s : s = run.names[CHOOSE k \in Duplicates : \A j \in Duplicates : k <= j]
      OBVIOUS
    <2>5. \/ RunError(<<Str("notify"), Str("no-input")>>)
          \/ RunError(<<Str("output"), Str("duplicate"), Str(s)>>)
          \/ RunError(<<Str("out"), Str("missing")>>)
      <3>1. CASE run.notify /\ ~run.input
        BY <1>5, <3>1 DEF RunInconsistent
      <3>2. CASE ~(run.notify /\ ~run.input) /\ Duplicates # {}
        BY <1>5, <2>4, <3>2 DEF RunInconsistent
      <3>3. CASE ~(run.notify /\ ~run.input) /\ ~(Duplicates # {})
        BY <1>5, <3>3 DEF RunInconsistent
      <3>4. QED
        BY <3>1, <3>2, <3>3
    <2>6. QED
      BY <2>1, <2>2, <2>3, <2>5
  <1>6. CASE RunNoDirectory
    <2>1. PICK s : s = run.directory
      OBVIOUS
    <2>2. RunError(<<Str("change-directory"), Str(s), Str("message")>>)
      BY <1>6, <2>1 DEF RunNoDirectory
    <2>3. i # Null => Reportable(Message(i, "run", "error", <<Str("change-directory"), Str(s), Str("message")>>))
      BY NotThereReported
    <2>4. QED
      BY <1>2, <1>3, <2>2, <2>3, RunErrorReported
  <1>7. CASE RunNoProgram
    <2>1. PICK s : s = run.program
      OBVIOUS
    <2>2. PICK reason \in {<< >>, <<Str("message")>>} : RunError(<<Str("program"), Str(s)>> \o reason)
      BY <1>7, <2>1 DEF RunNoProgram
    <2>3. /\ i # Null => Reportable(Message(i, "run", "error", <<Str("program"), Str(s), Str("message")>>))
          /\ i # Null => Reportable(Message(i, "run", "error", <<Str("program"), Str(s)>>))
      BY NotThereReported
    <2>4. PICK p, t : p = Str("program") /\ t = Str(s)
      OBVIOUS
    <2>5. <<p, t>> \o << >> = <<p, t>>
      OBVIOUS
    <2>6. PICK u : u = Str("message")
      OBVIOUS
    <2>7. <<p, t>> \o <<u>> = <<p, t, u>>
      BY TwoAndOne
    <2>8. RunError(<<p, t>>) \/ RunError(<<p, t, u>>)
      BY <2>2, <2>4, <2>5, <2>6, <2>7
    <2>9. QED
      BY <1>2, <1>3, <2>3, <2>4, <2>6, <2>8, RunErrorReported
  <1>8. CASE RunFound \/ RunStart
    BY <1>8, NothingReported DEF RunFound, RunStart
  <1>9. QED
    BY <1>4, <1>5, <1>6, <1>7, <1>8

(***************************************************************************)
(* Every reply to a command, whatever the message, has a form that is      *)
(* reported by "datalackey --report messages", but for the argument that   *)
(* is left out of the reply when a command is missing or not a string.     *)
(***************************************************************************)
THEOREM RepliesFitReport == Spec => []RepliesAreReported
  <1>1. Init => Agreed /\ Gathered /\ AllReported
    BY Initially, AgreesInitially DEF Agreed, Init, Gathered, AllReported
  <1>2. Agreed /\ [Next]_vars => Agreed'
    BY Inductive, AgreesAlways DEF Agreed
  <1>3. Agreed /\ Gathered /\ [Next]_vars => Gathered'
    BY RunGathers, RestGathers
  <1>4. ASSUME Agreed, Gathered, AllReported, [Next]_vars PROVE AllReported'
    <2>1. CASE BadFormat \/ BadIdentifier \/ BadCommand \/ BadArgument \/ Execute
      BY <1>4, <2>1, EndReported DEF Agreed, IInv, Agreement
    <2>2. CASE ValidateList \/ ValidateFirst \/ ValidateSub
      BY <1>4, <2>2, ValidateReported
    <2>3. CASE NoOperation \/ Version \/ StorageInfo \/ Get \/ ForEach \/ EndFeed
      <3>1. Silent /\ Typed /\ HasCommand
        BY <1>4, <2>3 DEF Agreed, IInv, Agreement, Known, NoOperation, Version, StorageInfo, Get,
                          ForEach, EndFeed, Performs
      <3>2. QED
        BY <1>4, <2>3, <3>1, NoOperationReported, VersionReported, StorageInfoReported, GetReported,
           ForEachReported, EndFeedReported
    <2>4. CASE FeedRefused \/ FeedInput \/ FeedDone
      BY <1>4, <2>4, FeedReported
    <2>5. CASE \/ RunEnv \/ RunEnvClear \/ RunOutput \/ RunPrefix \/ RunPostfix
               \/ RunIn \/ RunOut \/ RunNotify \/ RunDirectory \/ RunProgram
      BY <1>4, <2>5, RunLoopReported
    <2>6. CASE InUse \/ RunInconsistent \/ RunNoDirectory \/ RunNoProgram \/ RunFound \/ RunStart
      BY <1>4, <2>6, RunReported
    <2>7. CASE Over \/ UNCHANGED vars
      BY <1>4, <2>7, NothingReported DEF Over, vars
    <2>8. QED
      BY <1>4, <2>1, <2>2, <2>3, <2>4, <2>5, <2>6, <2>7 DEF Next
  <1>5. AllReported => RepliesAreReported
    BY DEF AllReported, RepliesAreReported, Reportable
  <1>6. Agreed /\ Gathered /\ AllReported /\ [Next]_vars => AllReported'
    BY <1>4
  <1>7. QED
    BY <1>1, <1>2, <1>3, <1>5, <1>6, PTL DEF Spec
=============================================================================
