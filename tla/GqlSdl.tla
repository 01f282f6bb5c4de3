-------------------------------- MODULE GqlSdl --------------------------------
(***************************************************************************)
(* The schema definition language of agoo: sdl_parse (sdl.c) with the      *)
(* values of doc.c, and gql_schema_sdl (graphql.c), which prints a schema. *)
(*                                                                         *)
(* A text is a sequence of tokens.  The state of a parse is the schema it  *)
(* changes as it goes, with the text d and the position i: what a          *)
(* definition did before its error stays done.                             *)
(***************************************************************************)
EXTENDS GqlSchema, GqlValue, FiniteSetsExt

AtEnd(s) == s.i > Len(s.d)

\* A text of no characters is taken to be as long as the rest of the document.
RestOfText == "(rest of the text)"

\* extract_desc and agoo_doc_read_string: a string may not end the document.
ExtractDesc(s) ==
    CASE ~s.ok -> Error(s)
      [] ~IsText(Tok(s)) -> Done(s, NoDesc)
      [] s.i < Len(s.d) -> Done(Advance(s), Unquote(Tok(s)))
      [] OTHER -> Error(s)

ReadName(s) ==
    IF s.ok /\ IsName(Tok(s)) THEN Done(Advance(s), Tok(s)) ELSE Error(s)

\* The types that a type mentions exist once it is read.
RECURSIVE ReadType(_)
ReadType(s) ==
    LET base == CASE ~s.ok -> Error(s)
                  [] Tok(s) = "[" ->
                       Then(ReadType(Advance(s)), LAMBDA t, inner :
                           Done(AssureList(Expect(t, "]"), inner), ListOf(inner)))
                  [] OTHER ->
                       Then(ReadName(s), LAMBDA t, name :
                           Done(AssureType(t, name), name))
    IN  Then(base, LAMBDA t, type :
            IF Tok(t) = "!"
            THEN Done(Advance(AssureNonNull(t, type)), NonNullOf(type))
            ELSE Done(t, type))

----------------------------------------------------------------------------
(* Values of a document; type is the declared one, NoType when there is    *)
(* none.                                                                   *)

NoType == ""

\* gql_token_create.
TokenValue(s, text, type) ==
    Scalar(IF type # NoType /\ s.types[type].kind = "ENUM" THEN type ELSE "Token",
           text)

RECURSIVE ReadValue(_, _), ReadItems(_, _, _), ReadMembers(_, _, _)

ReadValue(s, type) ==
    LET t == Tok(s)
        list == type # NoType /\ s.types[type].kind = "LIST"
        elem == IF list THEN s.types[type].base ELSE NoType
    IN  CASE ~s.ok -> Error(s)
          [] t = "$" -> Done(Advance(Advance(s)), Scalar("Var", Tok(Advance(s))))
          [] IsText(t) /\ s.i = Len(s.d) -> Error(s)
          [] IsText(t) -> Done(Advance(s), Scalar("String", Unquote(t)))
          [] t \in Numbers -> ReadNumber(s)
          [] t = "null" -> Done(Advance(s), Null)
          [] t \in {"true", "false"} -> Done(Advance(s), Scalar("Boolean", t))
          [] t = "[" /\ type # NoType /\ ~list -> Error(s)
          [] t = "[" -> ReadItems(Advance(s), elem, List(<<>>))
          [] t = "{" -> ReadMembers(Advance(s), type, Object(<<>>))
          [] IsName(t) -> Done(Advance(s), TokenValue(s, t, type))
          [] OTHER -> Done(s, TokenValue(s, RestOfText, type))

ReadItems(s, type, acc) ==
    CASE AtEnd(s) -> Done(s, acc)
      [] Tok(s) = "]" -> Done(Advance(s), acc)
      [] OTHER -> Then(ReadValue(s, type), LAMBDA t, v :
                      ReadItems(t, type, ListAppend(acc, v)))

ReadMembers(s, type, acc) ==
    CASE AtEnd(s) -> Done(s, acc)
      [] Tok(s) = "}" -> Done(Advance(s), acc)
      [] OTHER -> Then(ReadName(s), LAMBDA t, key :
                  Then(ReadValue(Expect(t, ":"), type), LAMBDA u, v :
                      ReadMembers(u, type, ObjectSet(acc, key, v))))

\* The value after "=", if there is one.
Default(s, type) ==
    IF s.ok /\ Tok(s) = "=" THEN ReadValue(Advance(s), type) ELSE Done(s, NoValue)

\* Where the "=" is not skipped, the value is a token of the rest of the text
\* and the "=" is left for what comes next, which fails on it.
UnreadDefault(s, type) ==
    IF s.ok /\ Tok(s) = "=" THEN ReadValue(s, type) ELSE Done(s, NoValue)

----------------------------------------------------------------------------
(* The uses of directives.  One "@" is read; the directive exists once it  *)
(* is used.                                                                *)

MakeUseArg(s, use) ==
    Then(ReadName(s), LAMBDA t, key :
    Then(ReadValue(Expect(t, ":"), NoType), LAMBDA u, v :
        Done(u, DirUseArg(use, key, v))))

\* Two tokens have a blank between them; this one is ")" and "{" without.
Joined == "){"

RECURSIVE UseArgs(_, _)
UseArgs(s, use) ==
    IF AtEnd(s) THEN Done(s, use)
    ELSE Then(MakeUseArg(s, use), LAMBDA t, a :
             CASE Tok(t) = ")" -> Done(Advance(t), a)
               [] Tok(t) = Joined -> Done([t EXCEPT !.d[t.i] = "{"], a)
               [] OTHER -> UseArgs(t, a))

ExtractDirUse(s, uses) ==
    IF ~s.ok \/ Tok(s) # "@" THEN Done(s, uses)
    ELSE Then(ReadName(Advance(s)), LAMBDA t, name :
         Then(IF Tok(t) = "("
              THEN UseArgs(Advance(AssureDirective(t, name)), DirUse(name))
              ELSE Done(AssureDirective(t, name), DirUse(name)), LAMBDA u, use :
             Done(u, Append(uses, use))))

\* The uses on a type that is being defined, and on its part added last.
TypeUses(s, type) ==
    After(ExtractDirUse(s, s.types[type].dir), LAMBDA t, uses :
        [t EXCEPT !.types[type].dir = uses])

LastUses(s, type, uses) ==
    LET last == Len(s.types[type].parts)
    IN  IF s.ok THEN [s EXCEPT !.types[type].parts[last].dir = uses] ELSE s

----------------------------------------------------------------------------
(* Fields and arguments.                                                   *)

\* make_field_arg, for the field added last.
MakeFieldArg(s, type) ==
    After(ExtractDesc(s), LAMBDA s1, desc :
    After(ReadName(s1), LAMBDA s2, name :
    After(ReadType(Expect(s2, ":")), LAMBDA s3, of :
    After(UnreadDefault(s3, of), LAMBDA s4, dflt :
        FieldArg(s4, type, name, of, dflt, desc)))))

RECURSIVE FieldArgs(_, _)
FieldArgs(s, type) ==
    On(MakeFieldArg(s, type), LAMBDA t :
        IF Tok(t) = ")" THEN t ELSE FieldArgs(t, type))

\* agoo_doc_skip_to.
SkipTo(s, t) ==
    LET at == {k \in DOMAIN s.d : k >= s.i /\ s.d[k] = t}
    IN  IF at = {} THEN Stop(s)
        ELSE [s EXCEPT !.i = CHOOSE k \in at : \A j \in at : k <= j]

\* The default of a field or an input argument is not looked for past the
\* blank that follows a "!".
Strict(s) == s.d[s.i - 1] = "!"
DefaultAfter(s, type) ==
    IF s.ok /\ Strict(s) THEN Done(s, NoValue) ELSE Default(s, type)

\* make_field: the arguments, at "at", are skipped first and read once the field
\* exists.
SkipArgs(s) == IF Tok(s) = "(" THEN Expect(SkipTo(s, ")"), ")") ELSE s

ReadArgs(s, type, at) ==
    IF Tok(at) # "(" THEN s
    ELSE On(FieldArgs([s EXCEPT !.i = at.i + 1], type), LAMBDA t :
             [t EXCEPT !.i = s.i])

MakeField(s, type) ==
    After(ExtractDesc(s), LAMBDA s1, desc :
    After(ReadName(s1), LAMBDA s2, name :
    After(ReadType(Expect(SkipArgs(s2), ":")), LAMBDA s3, of :
    After(DefaultAfter(s3, of), LAMBDA s4, dflt :
    After(ExtractDirUse(s4, <<>>), LAMBDA s5, uses :
        ReadArgs(LastUses(TypeField(s5, type, name, of, dflt, desc), type, uses),
                 type, s2))))))

MakeInputArg(s, type) ==
    After(ExtractDesc(s), LAMBDA s1, desc :
    After(ReadName(s1), LAMBDA s2, name :
    After(ReadType(Expect(s2, ":")), LAMBDA s3, of :
    After(DefaultAfter(s3, of), LAMBDA s4, dflt :
    After(ExtractDirUse(s4, <<>>), LAMBDA s5, uses :
        LastUses(InputArg(s5, type, name, of, dflt, desc), type, uses))))))

\* The body of a definition.  It may end where the text ends.
RECURSIVE Body(_, _, _)
Body(s, type, input) ==
    CASE ~s.ok \/ AtEnd(s) -> s
      [] Tok(s) = "}" -> Advance(s)
      [] input -> Body(MakeInputArg(s, type), type, input)
      [] OTHER -> Body(MakeField(s, type), type, input)

----------------------------------------------------------------------------
(* Definitions.  x says that "extend" has been read; it holds for all the  *)
(* definitions after it.                                                   *)

\* The type that is defined or extended.
Created(s, kind, name, desc, x) ==
    CASE ~s.ok -> s
      [] ~x -> TypeCreate(s, kind, name, desc)
      [] x /\ TypeGet(s, name) -> s
      [] OTHER -> Failed(s)

Opened(s, kind, desc, x) ==
    Then(ReadName(Advance(s)), LAMBDA t, name :
        Done(Created(t, kind, name, desc, x), name))

\* Defect: the error is lost.
ClosedQuietly(s, type, x) ==
    IF s.ok \/ x THEN s ELSE [TypeDestroy(s, type) EXCEPT !.ok = TRUE]

\* What is left of a definition: one that fails after it was opened is taken
\* out of the schema again, an extension stays as far as it came.
Closed(s, type, x) == IF s.ok \/ x THEN s ELSE TypeDestroy(s, type)

MakeScalar(s, desc, x) == After(Opened(s, "SCALAR", desc, x), TypeUses)

\* make_type, make_interface and make_input.
RECURSIVE Interfaces(_, _, _)
Interfaces(s, type, first) ==
    CASE AtEnd(s) \/ Tok(s) \in {"{", "@"} -> s
      [] Tok(s) # "&" /\ ~first -> Failed(s)
      [] OTHER ->
           After(ReadType(IF Tok(s) = "&" THEN Advance(s) ELSE s), LAMBDA t, of :
               Interfaces([t EXCEPT !.types[type].interfaces = Append(@, of)],
                          type, FALSE))

ExtractInterfaces(s, type) ==
    IF Tok(s) = "implements" THEN Interfaces(Advance(s), type, TRUE) ELSE s

MakeType(s, desc, x) ==
    After(Opened(s, "OBJECT", desc, x), LAMBDA t, type :
        Closed(Body(Expect(TypeUses(ExtractInterfaces(t, type), type), "{"),
                    type, FALSE),
               type, x))

\* Without its "{" the interface is destroyed and no error is set.
InterfaceBody(s, type, x) ==
    CASE s.ok /\ Tok(s) # "{" -> IF x THEN s ELSE TypeDestroy(s, type)
      [] OTHER -> Closed(Body(Expect(s, "{"), type, FALSE), type, x)

MakeInterface(s, desc, x) ==
    After(Opened(s, "INTERFACE", desc, x), LAMBDA t, type :
        InterfaceBody(TypeUses(t, type), type, x))

MakeInput(s, desc, x) ==
    After(Opened(s, "INPUT_OBJECT", desc, x), LAMBDA t, type :
        Closed(Body(Expect(TypeUses(t, type), "{"), type, TRUE), type, x))

\* A schema that fails after its "{" stays.
MakeSchema(s, desc, x) ==
    On(Created(Advance(s), "SCHEMA", "schema", desc, x), LAMBDA t :
    On(TypeUses(t, "schema"), LAMBDA u :
        IF Tok(u) = "{" THEN Body(Advance(u), "schema", FALSE)
        ELSE Closed(Failed(u), "schema", x)))

RECURSIVE Members(_, _)
Members(s, type) ==
    IF AtEnd(s) THEN s
    ELSE After(ReadType(s), LAMBDA t, of :
             IF Tok(t) = "|" THEN Members(Advance(UnionAdd(t, type, of)), type)
             ELSE UnionAdd(t, type, of))

MakeUnion(s, desc, x) ==
    After(Opened(s, "UNION", desc, x), LAMBDA t, type :
        Closed(On(Expect(TypeUses(t, type), "="), LAMBDA u : Members(u, type)),
               type, x))

\* The name of a value that follows a description is not found: the blank
\* between them is not skipped.
EnumValue(s, type, desc) ==
    LET named == desc = NoDesc /\ IsName(Tok(s))
        after == IF named THEN Advance(s) ELSE s
    IN  After(ExtractDirUse(after, <<>>), LAMBDA t, uses :
            LastUses(EnumAppend(t, type, IF named THEN Tok(s) ELSE RestOfText,
                                desc, AtEnd(after)),
                     type, uses))

RECURSIVE EnumValues(_, _)
EnumValues(s, type) ==
    LET t == Tok(s)
    IN  CASE ~s.ok \/ AtEnd(s) -> s
          [] t = "}" -> Advance(s)
          [] IsText(t) \/ IsName(t) \/ t = "@" ->
               EnumValues(After(ExtractDesc(s), LAMBDA u, desc :
                              EnumValue(u, type, desc)),
                          type)
          [] OTHER -> Failed(s)

\* make_enum: the "{" comes before the type is looked up, and the uses of an
\* extension take the place of those of the type.
MakeEnum(s, desc, x) ==
    After(ReadName(Advance(s)), LAMBDA t, name :
    After(ExtractDirUse(t, <<>>), LAMBDA u, uses :
    On(Created(Expect(u, "{"), "ENUM", name, desc, x), LAMBDA v :
        Closed(EnumValues([v EXCEPT !.types[name].dir = uses], name), name, x))))

\* make_dir_arg: the type is a name with or without a "!".
DirArgType(s) ==
    Then(ReadName(s), LAMBDA t, of :
        IF Tok(t) = "!"
        THEN Done(Advance(AssureNonNull(AssureType(t, of), of)), NonNullOf(of))
        ELSE Done(AssureType(t, of), of))

MakeDirArg(s, dir) ==
    After(ExtractDesc(s), LAMBDA s1, desc :
    After(ReadName(s1), LAMBDA s2, name :
    After(DirArgType(Expect(s2, ":")), LAMBDA s3, of :
    After(IF Strict(s3) THEN Done(s3, NoValue) ELSE UnreadDefault(s3, of),
          LAMBDA s4, dflt :
        DirArg(s4, dir, name, of, dflt, desc)))))

RECURSIVE DirArgs(_, _)
DirArgs(s, dir) ==
    IF AtEnd(s) THEN s
    ELSE On(MakeDirArg(s, dir), LAMBDA t :
             IF Tok(t) = ")" THEN Advance(t) ELSE DirArgs(t, dir))

RECURSIVE Locations(_, _)
Locations(s, dir) ==
    LET named == IsName(Tok(s))
    IN  IF AtEnd(s) THEN s
        ELSE On(DirectiveOn(IF named THEN Advance(s) ELSE s, dir,
                            IF named THEN Tok(s) ELSE RestOfText), LAMBDA t :
                 IF Tok(t) = "|" THEN Locations(Advance(t), dir) ELSE t)

\* A directive that fails stays as far as it came.
MakeDirective(s, desc) ==
    After(ReadName(Expect(Advance(s), "@")), LAMBDA t, name :
    On(DirectiveCreate(t, name, desc), LAMBDA u :
    On(Expect(IF Tok(u) = "(" THEN DirArgs(Advance(u), name) ELSE u, "on"), LAMBDA v :
        Locations(v, name))))

Definition(s, desc, x) ==
    LET t == Tok(s)
    IN  CASE t = "scalar" -> MakeScalar(s, desc, x)
          [] t = "schema" -> MakeSchema(s, desc, x)
          [] t = "enum" -> MakeEnum(s, desc, x)
          [] t = "union" -> MakeUnion(s, desc, x)
          [] t = "directive" -> MakeDirective(s, desc)
          [] t = "type" -> MakeType(s, desc, x)
          [] t = "input" -> MakeInput(s, desc, x)
          [] t = "interface" -> MakeInterface(s, desc, x)
          [] OTHER -> Failed(s)

RECURSIVE Definitions(_, _, _)
Definitions(s, desc, x) ==
    CASE ~s.ok \/ AtEnd(s) -> s
      [] IsText(Tok(s)) -> After(ExtractDesc(s), LAMBDA t, read :
                               Definitions(t, read, x))
      [] Tok(s) = "extend" -> Definitions(Advance(s), NoDesc, TRUE)
      [] OTHER -> Definitions(Definition(s, desc, x), NoDesc, x)

\* The schema alone, as it is kept between two parses.
SchemaOf(s) == [types |-> s.types, dirs |-> s.dirs, ok |-> s.ok]

Reading(schema, text) ==
    [types |-> schema.types, dirs |-> schema.dirs, ok |-> TRUE,
     d |-> text, i |-> 1]

\* sdl_parse of a text.
SdlParse(schema, text) ==
    SchemaOf(Definitions(Reading(schema, text), NoDesc, FALSE))

----------------------------------------------------------------------------
(* Printing a schema.                                                      *)

\* A text that is not simple goes between lines of its own, which then belong
\* to it when it is read again.
OwnLines(desc) == "\n" \o desc \o "\n"

DescSdl(desc, with_desc) ==
    CASE ~with_desc \/ desc = NoDesc -> <<>>
      [] desc \in SpecialTexts -> <<Quote(OwnLines(desc))>>
      [] OTHER -> <<Quote(desc)>>

\* No blank is printed between the arguments of a use.
Glued(a, b) ==
    IF a # <<>> /\ IsName(Last(a))
    THEN Front(a) \o <<Last(a) \o Head(b)>> \o Tail(b) ELSE a \o b

\* Defect: without the arguments.
AppendDirName(uses) == FlattenSeq([k \in DOMAIN uses |-> <<"@", uses[k].dir>>])

AppendDirUse(uses) ==
    LET arg(a) == <<a.k, ":">> \o Sdl(a.v)
        args(u) == FoldLeft(LAMBDA acc, a : Glued(acc, arg(a)), <<>>, u.args)
        use(u) == <<"@", u.dir>>
                    \o (IF u.args = <<>> THEN <<>>
                        ELSE <<"(">> \o args(u) \o <<")">>)
    IN  FlattenSeq([k \in DOMAIN uses |-> use(uses[k])])

\* The tokens of the name of a type.
RECURSIVE TypeTokens(_)
TypeTokens(name) ==
    CASE SubSeq(name, Len(name), Len(name)) = "!" ->
           TypeTokens(SubSeq(name, 1, Len(name) - 1)) \o <<"!">>
      [] First(name) = "[" ->
           <<"[">> \o TypeTokens(Unquote(name)) \o <<"]">>
      [] OTHER -> <<name>>

DefaultSdl(dflt) == IF dflt = NoValue THEN <<>> ELSE <<"=">> \o Sdl(dflt)

\* The uses on the arguments of a field or a directive are not printed.
ArgSdl(a, with_desc, same_line) ==
    DescSdl(a.desc, with_desc) \o <<a.name, ":">> \o TypeTokens(a.type)
      \o DefaultSdl(a.dflt)
      \o (IF same_line THEN <<>> ELSE AppendDirUse(a.dir))

ArgsSdl(args, with_desc) ==
    IF args = <<>> THEN <<>>
    ELSE <<"(">> \o FlattenSeq([k \in DOMAIN args |->
                                   ArgSdl(args[k], with_desc, TRUE)]) \o <<")">>

FieldSdl(f, with_desc) ==
    DescSdl(f.desc, with_desc) \o <<f.name>> \o ArgsSdl(f.args, with_desc)
      \o <<":">> \o TypeTokens(f.type) \o DefaultSdl(f.dflt)
      \o AppendDirUse(f.dir)

Separated(names, sep) ==
    Punctuated([k \in DOMAIN names |-> <<names[k]>>], <<sep>>)

Braced(seqs) == <<"{">> \o FlattenSeq(seqs) \o <<"}">>

GqlTypeSdl(name, type, with_desc) ==
    LET desc == DescSdl(type.desc, with_desc)
        uses == AppendDirUse(type.dir)
        parts == type.parts
        fields == Braced([k \in DOMAIN parts |-> FieldSdl(parts[k], with_desc)])
        implements == IF type.interfaces = <<>> THEN <<>>
                      ELSE <<"implements">> \o Separated(type.interfaces, "&")
    IN  CASE type.kind = "SCHEMA" -> desc \o <<"schema">> \o uses \o fields
          [] type.kind = "OBJECT" ->
               desc \o <<"type", name>> \o implements \o uses \o fields
          [] type.kind = "INTERFACE" ->
               desc \o <<"interface", name>> \o uses \o fields
          [] type.kind = "INPUT_OBJECT" ->
               desc \o <<"input", name>> \o uses
                 \o Braced([k \in DOMAIN parts |->
                               ArgSdl(parts[k], with_desc, FALSE)])
          [] type.kind = "UNION" ->
               desc \o <<"union", name>> \o uses \o <<"=">>
                 \o Separated([k \in DOMAIN parts |-> parts[k].name], "|")
          [] type.kind = "ENUM" ->
               desc \o <<"enum", name>> \o uses
                 \o Braced([k \in DOMAIN parts |->
                               DescSdl(parts[k].desc, with_desc)
                                 \o <<parts[k].name>>
                                 \o AppendDirUse(parts[k].dir)])
          [] type.kind = "SCALAR" -> desc \o <<"scalar", name>> \o uses
          [] OTHER -> desc

GqlDirectiveSdl(d, with_desc) ==
    DescSdl(d.desc, with_desc) \o <<"directive", "@", d.name>>
      \o ArgsSdl(d.args, with_desc) \o <<"on">> \o Separated(d.locs, "|")

\* type_cmp orders by kind; which comes first of two types of a kind makes no
\* difference here.
KindOrder == <<"UNDEF", "SCHEMA", "OBJECT", "INPUT_OBJECT", "UNION",
               "INTERFACE", "ENUM", "SCALAR">>

Printed(s, all) ==
    LET names(kind) == {n \in DOMAIN s.types :
                           s.types[n].kind = kind /\ (all \/ ~s.types[n].core)}
        listed(S) == FoldSet(LAMBDA n, acc : Append(acc, n), <<>>, S)
    IN  FlattenSeq([k \in DOMAIN KindOrder |-> listed(names(KindOrder[k]))])

GqlSchemaSdl(s, with_desc, all) ==
    LET types == Printed(s, all)
        dirs == SelectSeq(s.dirs, LAMBDA d : all \/ ~d.core)
    IN  FlattenSeq([k \in DOMAIN types |->
                       GqlTypeSdl(types[k], s.types[types[k]], with_desc)])
          \o FlattenSeq([k \in DOMAIN dirs |->
                            GqlDirectiveSdl(dirs[k], with_desc)])
=============================================================================
