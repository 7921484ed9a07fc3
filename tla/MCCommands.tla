----------------------------- MODULE MCCommands -----------------------------
(* Every command with up to two arguments of any kind; runs and feeds of   *)
(* subcommands, whole, cut short, and with an argument replaced.           *)
EXTENDS ReplyText, MessageReport

Odd == {Fraction, Other, Broken}

RunForms ==
    {<<Str("env"), Str("a"), Number>>, <<Str("env"), Str("="), Null>>, <<Str("env-clear")>>,
     <<Str("output"), Str("a"), Null>>, <<Str("output-prefix"), Str("a")>>,
     <<Str("output-postfix"), Str("")>>, <<Str("in"), Str("JSON"), Str("stdin")>>,
     <<Str("out"), Str("JSON"), Str("stdout")>>, <<Str("out"), Str("bytes"), Str("stdout")>>,
     <<Str("out"), Str("JSON"), Str("stderr")>>, <<Str("notify"), Str("data")>>,
     <<Str("change-directory"), Str("a")>>}
Program == {<< >>, <<Str("program"), Str("a"), Number>>}
Feeds == {<<Str("input"), Str("a"), Str("a")>>, <<Str("input"), Str("a"), Str("b")>>,
          <<Str("direct"), Null, Str("a")>>}
Replacements == {Str("a"), Str("program"), Str("input"), Str("in"), Number, Null}

Upto2(forms) == {<< >>} \cup forms \cup {f \o g : f \in forms, g \in forms}
Cut(s) == {SubSeq(s, 1, n) : n \in 0 .. Len(s)}
Changed(s) == {[s EXCEPT ![k] = w] : k \in DOMAIN s, w \in Replacements}
Near(forms) == UNION {Cut(s) \cup Changed(s) : s \in forms}

RunArgs == Near({f \o p : f \in Upto2(RunForms), p \in Program}) \cup
           {f \o g \o h : f \in RunForms, g \in RunForms,
                          h \in {i \o <<Str("program"), Str("a")>> : i \in RunForms}}
FeedArgs == {<<Number>> \o f : f \in Near(Upto2(Feeds))}
Others == UNION {[1 .. n -> {Str("a"), Str("b"), Number, Null, Fraction, Other, Broken}] : n \in 0 .. 2}

Called(n, arguments) == {<<Str("i"), Str(n)>> \o a : a \in arguments}
MCMessages ==
    Called("run", RunArgs) \cup Called("feed", FeedArgs) \cup
    UNION {Called(Commands[k], Others) : k \in DOMAIN Commands} \cup
    Called("unknown", {<< >>}) \cup
    {<< >>, <<Str("i"), Number>>} \cup
    {<<i>> : i \in {Str("i"), Number, Null} \cup Odd} \cup
    {<<Null, Str(Commands[k])>> : k \in DOMAIN Commands}
=============================================================================
