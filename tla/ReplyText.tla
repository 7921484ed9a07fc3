----------------------------- MODULE ReplyText -----------------------------
(***************************************************************************)
(* The replies of Commands as the characters that JSONEncoder makes of     *)
(* them, read again by JsonText.  Both go on with the second half of a     *)
(* reply when they know that the first was good: the reply to "version"    *)
(* has hundreds of characters, and this keeps the evaluation shallow.      *)
(***************************************************************************)
EXTENDS Commands

Half(s) == Len(s) \div 2
Left(s) == SubSeq(s, 1, Half(s))
Right(s) == SubSeq(s, Half(s) + 1, Len(s))

(* The encoder after the tokens that an OutputItemWriter was given.        *)
RECURSIVE Encoded(_, _)
Encoded(e, tokens) ==
    CASE e = NoEncoder -> NoEncoder
      [] e # NoEncoder /\ Len(tokens) = 0 -> e
      [] e # NoEncoder /\ Len(tokens) = 1 -> Encode(e, tokens[1])
      [] OTHER -> Encoded(Encoded(e, Left(tokens)), Right(tokens))

Written(tokens) == Encoded(NothingOpen, tokens).text

RECURSIVE ReadOn(_, _)
ReadOn(j, text) ==
    CASE j = Json!Wrong -> Json!Wrong
      [] j # Json!Wrong /\ Len(text) = 0 -> j
      [] j # Json!Wrong /\ Len(text) = 1 -> Json!Read(j, text[1])
      [] OTHER -> ReadOn(ReadOn(j, Left(text)), Right(text))

IsLine(text) ==
    LET json == SubSeq(text, 1, Len(text) - 1) IN
    /\ Len(text) > 1 /\ text[Len(text)] = "newline"
    /\ "newline" \notin {json[k] : k \in DOMAIN json}
    /\ Json!Complete(ReadOn(Json!Start(json[1]), Tail(json)))

(* "Datalackey outputs each reply to command (an array) or requested data  *)
(* (JSON object) in a single line", so that "programs that communicate     *)
(* with datalackey can expect each line to contain something fully         *)
(* recognizable as JSON".  The program does not satisfy it: "get" passes   *)
(* on stored values that nobody has parsed.                                *)
EveryReplyIsLine ==
    place = "over" => \A k \in DOMAIN replies : IsLine(Written(Tokens(replies[k])))

Values(reply) == {reply.rest[n] : n \in DOMAIN reply.rest} \cap {Raw(r) : r \in Readings}

(* What the program itself adds is right: a reply is a line of JSON when   *)
(* every stored value in it, if it has any, is JSON that needs one line.   *)
(* A value that could not be read to its end is followed by "failed".      *)
RepliesAreLines ==
    place = "over" =>
        \A k \in DOMAIN replies :
            /\ Values(replies[k]) \subseteq {Raw("json")} => IsLine(Written(Tokens(replies[k])))
            /\ Raw("part") \in Values(replies[k]) =>
                    k < Len(replies) /\ replies[k + 1].type = "failed"
=============================================================================
