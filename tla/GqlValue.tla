------------------------------- MODULE GqlValue -------------------------------
(***************************************************************************)
(* GraphQL values (gqlvalue.c), their JSON (gqljson.c) and the values of   *)
(* documents (doc.c).  A value is the name t of its type with the text v   *)
(* that prints it, or a list of items, or an object with its members.  The *)
(* texts come from small sets that tell apart what the code does with      *)
(* them: the sizes of a number, what a Float loses when it is printed, what *)
(* a time or a UUID accepts, what a string escapes.                        *)
(***************************************************************************)
EXTENDS Naturals, Sequences, SequencesExt

CONSTANTS
    SmallInts,   \* numbers of 32 bits
    LongInts,    \* numbers of 64 bits that do not fit 32 bits
    HugeInts,    \* whole numbers that do not fit 64 bits
    Floats,      \* numbers with a fraction
    Rounded,     \* the Floats that "%g" shortens, with what it prints
    TimeText,    \* the texts time_parse accepts, with the time as it is printed
    Nanos,       \* the nanoseconds of some times, all the LongInts among them
    Seconds,     \* the seconds of these times
    Uuids,       \* the texts parse_uuid accepts
    SpecialTexts \* contents of strings that are escaped when printed

Scalar(t, v) == [t |-> t, v |-> v]
Null == Scalar("Null", "")
List(items) == [t |-> "List", items |-> items]
Object(mem) == [t |-> "Object", mem |-> mem]
Member(k, v) == [k |-> k, v |-> v]

IsList(x) == x.t = "List"
IsObject(x) == x.t = "Object"
Texts == {"String", "Token", "ID", "Var"}

\* gql_object_set appends whether or not the key is there.
ObjectSet(o, k, v) == Object(Append(o.mem, Member(k, v)))
ListAppend(l, v) == List(Append(l.items, v))

\* gql_object_get returns the first.
Keyed(o, k) == SelectSeq(o.mem, LAMBDA m : m.k = k)
ObjectGet(o, k) ==
    IF IsObject(o) /\ Keyed(o, k) # <<>> THEN Keyed(o, k)[1].v
    ELSE Scalar("none", "")

----------------------------------------------------------------------------
(* Printing.  Tokens in the place of characters.                           *)

Quote(c) == "\"" \o c \o "\""

\* Defect: nothing is.
AsItIs(c) == c

\* agoo_text_append_json puts a backslash in front of what it escapes.
Escaped(c) == IF c \in SpecialTexts THEN "\\" \o c ELSE c

FloatText(v) == IF v \in DOMAIN Rounded THEN Rounded[v] ELSE v

\* The text of a scalar, the same in SDL and in JSON but for tokens and the
\* values of enums.
ScalarText(x, json) ==
    CASE x.t = "Null" -> "null"
      [] x.t = "Float" -> FloatText(x.v)
      [] x.t \in {"Int", "I64", "Boolean"} -> x.v
      [] x.t \in {"String", "ID", "Time", "Uuid"} -> Quote(Escaped(x.v))
      [] x.t = "Var" -> "%" \o x.v
      [] OTHER -> IF json THEN Quote(Escaped(x.v)) ELSE x.v

Punctuated(seqs, sep) ==
    FoldLeft(LAMBDA acc, q : IF acc = <<>> THEN q ELSE acc \o sep \o q,
             <<>>, seqs)

RECURSIVE Json(_)
Json(x) ==
    CASE IsList(x) ->
           <<"[">> \o Punctuated([k \in DOMAIN x.items |-> Json(x.items[k])],
                                 <<",">>) \o <<"]">>
      [] IsObject(x) ->
           <<"{">> \o Punctuated([k \in DOMAIN x.mem |->
                                     <<Quote(x.mem[k].k), ":">>
                                        \o Json(x.mem[k].v)], <<",">>)
             \o <<"}">>
      [] OTHER -> <<ScalarText(x, TRUE)>>

\* The core scalars and the value types that carry their own printer.  What a
\* member of another type does is not defined: the pointer that is called is a
\* field of that type that means something else.
Printers == {"Null", "Int", "I64", "Boolean", "Float", "Time", "Uuid", "ID",
             "String", "Token", "Var", "List", "Object"}
WildCall == "wild call"

\* In SDL a comma is white space, so none is kept.
RECURSIVE Sdl(_)
Sdl(x) ==
    LET member(m) == IF m.t \in Printers THEN Sdl(m) ELSE <<WildCall>>
    IN  CASE IsList(x) ->
               <<"[">> \o FlattenSeq([k \in DOMAIN x.items |->
                                         member(x.items[k])]) \o <<"]">>
          [] IsObject(x) ->
               <<"{">> \o FlattenSeq([k \in DOMAIN x.mem |->
                              <<x.mem[k].k, ":">> \o member(x.mem[k].v)])
                 \o <<"}">>
          [] OTHER -> <<ScalarText(x, FALSE)>>

----------------------------------------------------------------------------
(* Conversion.  A conversion that fails returns NoConversion.              *)

NoConversion == Scalar("error", "")

\* strtol and strtoll look at an errno that nobody resets when they return 0.
Parsed(x, t, accepted, errno) ==
    IF x.v \in accepted /\ ~(x.v = "0" /\ errno) THEN Scalar(t, x.v)
    ELSE NoConversion

ToBool(x) ==
    CASE x.t \in {"Int", "I64", "Float"} ->
           Scalar("Boolean", IF x.v = "0" THEN "false" ELSE "true")
      [] x.t \in {"String", "Token"} /\ x.v \in {"true", "false"} ->
           Scalar("Boolean", x.v)
      [] OTHER -> NoConversion

ToInt(x, errno) ==
    CASE x.t \in {"I64", "Float"} -> Parsed(x, "Int", SmallInts, FALSE)
      [] x.t = "String" -> Parsed(x, "Int", SmallInts, errno)
      [] OTHER -> NoConversion

ToI64(x, errno) ==
    CASE x.t \in {"Int", "Float"} ->
           Parsed(x, "I64", SmallInts \cup LongInts, FALSE)
      [] x.t = "String" -> Parsed(x, "I64", SmallInts \cup LongInts, errno)
      [] x.t = "Time" -> Scalar("I64", Nanos[x.v])
      [] OTHER -> NoConversion

ToFloat(x) ==
    CASE x.t \in {"Int", "I64"} -> Scalar("Float", x.v)
      [] x.t = "String" ->
           Parsed(x, "Float", SmallInts \cup LongInts \cup HugeInts \cup Floats,
                  FALSE)
      [] x.t = "Time" -> Scalar("Float", Seconds[x.v])
      [] OTHER -> NoConversion

ToText(x) ==
    CASE x.t \in {"Boolean", "Int", "I64", "Token", "ID", "Time", "Uuid"} ->
           Scalar("String", x.v)
      [] x.t = "Float" -> Scalar("String", FloatText(x.v))
      [] OTHER -> NoConversion

ToId(x) == IF x.t \in {"String", "Token"} THEN Scalar("ID", x.v)
           ELSE NoConversion

\* time_parse: a date, a time with or without a fraction, and a zone.
TimeParse(x) ==
    IF x.v \in DOMAIN TimeText THEN Scalar("Time", TimeText[x.v])
    ELSE NoConversion

Instant(nanos) == CHOOSE at \in DOMAIN Nanos : Nanos[at] = nanos

ToTime(x) ==
    CASE x.t = "String" -> TimeParse(x)
      [] x.t = "I64" -> Scalar("Time", Instant(x.v))
      [] OTHER -> NoConversion

ParseUuid(x) == Parsed(x, "Uuid", Uuids, FALSE)

ToUuid(x) == IF x.t = "String" THEN ParseUuid(x) ELSE NoConversion

\* gql_value_convert to a type of name t without its "!".  A scalar of the
\* schema is a String by another name; the other kinds convert nothing.
Convert(x, t, scalar, errno) ==
    CASE x.t = t -> x
      [] t = "Boolean" -> ToBool(x)
      [] t = "Int" -> ToInt(x, errno)
      [] t = "I64" -> ToI64(x, errno)
      [] t = "Float" -> ToFloat(x)
      [] t = "ID" -> ToId(x)
      [] t = "Time" -> ToTime(x)
      [] t = "Uuid" -> ToUuid(x)
      [] t = "String" \/ (scalar /\ t \notin {"Boolean", "Int", "I64", "Float",
                                              "ID", "Time", "Uuid"}) ->
           ToText(x)
      [] OTHER -> x

\* What a conversion reads and overwrites in the same memory: a text of 8 to
\* 14 characters lies where the pointer of a longer one would, and the number
\* is stored before the test whether there is a pointer to free.
Inline(x) == Len(x.v) < 15
FreesGarbage(x, t) ==
    /\ x.t = "String" /\ t \in {"Int", "I64", "Float"}
    /\ Inline(x) /\ Len(x.v) >= 8

----------------------------------------------------------------------------
(* Parsing.  A parse is a record with the tokens d, the next one at i and  *)
(* ok; a parser returns the state s after it and the value v.              *)

Tok(s) == IF s.i \in DOMAIN s.d THEN s.d[s.i] ELSE ""
Advance(s) == [s EXCEPT !.i = @ + 1]
Stop(s) == [s EXCEPT !.ok = FALSE]
Done(s, v) == [s |-> s, v |-> v]
Error(s) == [s |-> Stop(s), v |-> Null]
Expect(s, t) == IF s.ok /\ Tok(s) = t THEN Advance(s) ELSE Stop(s)

\* What goes on after a parser unless it failed: with another parser, with an
\* operation that gives a state, or after a state.
Then(r, Go(_, _)) == IF r.s.ok THEN Go(r.s, r.v) ELSE r
After(r, Go(_, _)) == IF r.s.ok THEN Go(r.s, r.v) ELSE r.s
On(s, Go(_)) == IF s.ok THEN Go(s) ELSE s

First(t) == SubSeq(t, 1, 1)
Unquote(t) == SubSeq(t, 2, Len(t) - 1)
Numbers == SmallInts \cup LongInts \cup HugeInts \cup Floats
Punct == {"", "{", "}", "(", ")", "[", "]", ":", "=", "!", "|", "@", "$",
          "&", "...", "+", "-"}
IsText(t) == t # "" /\ First(t) = "\""
IsName(t) == t \notin Punct \cup Numbers /\ ~IsText(t)

\* read_number: a number of more than 64 bits is an error.
ReadNumber(s) ==
    LET t == Tok(s)
    IN  CASE t \in SmallInts -> Done(Advance(s), Scalar("Int", t))
          [] t \in LongInts -> Done(Advance(s), Scalar("I64", t))
          [] t \in Floats -> Done(Advance(s), Scalar("Float", t))
          [] OTHER -> Error(s)

\* parse_num: a number of more than 64 bits becomes a String.
ParseNum(s) ==
    IF Tok(s) \in HugeInts THEN Done(Advance(s), Scalar("String", Tok(s)))
    ELSE ReadNumber(s)

\* parse_escaped undoes the escapes; a text that is not escaped ends early.
Unescaped(c) == IF First(c) = "\\" THEN SubSeq(c, 2, Len(c)) ELSE c

RECURSIVE ParseValue(_), ParseArray(_, _), ParseObject(_, _)

ParseValue(s) ==
    LET t == Tok(s)
    IN  CASE ~s.ok -> Error(s)
          [] t = "{" -> IF Tok(Advance(s)) = "}"
                        THEN Done(Advance(Advance(s)), Object(<<>>))
                        ELSE ParseObject(Advance(s), Object(<<>>))
          [] t = "[" -> IF Tok(Advance(s)) = "]"
                        THEN Done(Advance(Advance(s)), List(<<>>))
                        ELSE ParseArray(Advance(s), List(<<>>))
          [] IsText(t) /\ Unquote(t) \notin SpecialTexts ->
               Done(Advance(s), Scalar("String", Unescaped(Unquote(t))))
          [] t \in Numbers -> ParseNum(s)
          [] t \in {"true", "false"} -> Done(Advance(s), Scalar("Boolean", t))
          [] t = "null" -> Done(Advance(s), Null)
          [] OTHER -> Error(s)

ParseArray(s, acc) ==
    Then(ParseValue(s), LAMBDA t, v :
        CASE Tok(t) = "]" -> Done(Advance(t), ListAppend(acc, v))
          [] Tok(t) = "," -> ParseArray(Advance(t), ListAppend(acc, v))
          [] OTHER -> Error(t))

ParseObject(s, acc) ==
    LET key == Unquote(Tok(s))
    IN  IF ~IsText(Tok(s)) THEN Error(s)
        ELSE Then(ParseValue(Expect(Advance(s), ":")), LAMBDA t, v :
                 CASE Tok(t) = "}" -> Done(Advance(t), ObjectSet(acc, key, v))
                   [] Tok(t) = "," ->
                        ParseObject(Advance(t), ObjectSet(acc, key, v))
                   [] OTHER -> Error(t))

\* gql_json_parse looks at no more than the first value.
JsonParse(tokens) == ParseValue([d |-> tokens, i |-> 1, ok |-> TRUE])

ValidText(tokens) == JsonParse(tokens).s.ok
=============================================================================
