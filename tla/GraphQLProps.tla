------------------------------ MODULE GraphQLProps ------------------------------
(***************************************************************************)
(* What the GraphQL side of agoo promises: definitions stay, a schema and  *)
(* a document survive being printed and read again, answers and events say *)
(* what the schema and the Ruby objects say.                               *)
(***************************************************************************)
EXTENDS GraphQL

\* The kinds of the types, the pointers among them, and the subscriptions.
\* This is the type invariant of graphql.c's registry and of the globals of
\* gqleval.c and server.c.
TypeOK ==
    /\ phase \in {"block", "serve", "exited"}
    /\ schema.ok
    /\ \A n \in DOMAIN schema.types :
           schema.types[n].kind \in {"LIST", "NON_NULL"}
             <=> schema.types[n].base # NoType
    /\ \A c \in DOMAIN classes : classes[c] \in DOMAIN schema.types
    /\ \A j, k \in DOMAIN subs : j # k => subs[j].con # subs[k].con
    /\ \A k \in DOMAIN subs : subs[k].con \in SubCons \ closed

----------------------------------------------------------------------------
(* The schema.                                                             *)

\* No load, request or event takes away or changes a definition: a type keeps
\* its kind, its description and its members in their order, and more can only
\* come after them.  This is about gql_type_create, which lets a name be
\* defined once, and about the error paths of sdl.c that remove types.
DefinitionsStay == [][Keeps(schema, schema')]_vars

\* The interfaces that a text gives no body.
Bodiless ==
    LET bare(text) == {k \in 2 .. Len(text) :
                          /\ text[k - 1] = "interface"
                          /\ k < Len(text) => text[k + 1] \notin {"{", "@"}}
    IN  UNION {{text[k] : k \in bare(text)} : text \in Sdls}

\* A schema whose loads were all accepted refers to no type that was freed, but
\* to an interface without a body, for which make_interface sets no error.
\* This is about make_type, make_union, make_enum, make_input and
\* make_interface, which destroy what they cannot finish.
AcceptedIsWhole == Torn => refused \/ Dangling(schema) \subseteq Bodiless

\* What a dump cannot say: see "Printing a schema" in GqlSdl.
Uses(type) == {type.dir} \cup {type.parts[k].dir : k \in
                 {j \in DOMAIN type.parts : type.kind # "UNION"}}
SimpleUses(uses) == Len(uses) <= 1 /\ \A k \in DOMAIN uses : Len(uses[k].args) <= 1
Descs(type) == {type.desc} \cup {type.parts[k].desc : k \in
                  {j \in DOMAIN type.parts : type.kind # "UNION"}}
Faithful(x) == /\ WildCall \notin ToSet(Sdl(x))
               /\ x.t # "Float" \/ x.v \notin DOMAIN Rounded

DumpableType(type) ==
    /\ \A uses \in Uses(type) : SimpleUses(uses)
    /\ Descs(type) \cap SpecialTexts = {}
    /\ type.kind = "UNION" => type.parts # <<>>
    /\ type.kind = "UNDEF" => type.parts = <<>> /\ type.dir = <<>>
    /\ type.kind = "ENUM" => \A k \in DOMAIN type.parts :
           type.parts[k].name # RestOfText /\ type.parts[k].desc = NoDesc
    /\ HasFields(type) \/ type.kind = "INPUT_OBJECT" =>
           \A k \in DOMAIN type.parts :
               type.parts[k].dflt = NoValue \/ Faithful(type.parts[k].dflt)

Dumpable(s) ==
    /\ \A n \in DOMAIN s.types : ~s.types[n].core => DumpableType(s.types[n])
    /\ \A k \in DOMAIN s.dirs : s.dirs[k].defined /\ s.dirs[k].locs # <<>>
    /\ \A n \in DOMAIN GqlInit.types : s.types[n] = GqlInit.types[n]

\* The definitions: the types but those made as they are read.  A default is
\* what is written: the value of an enum is a token until the enum is defined.
Written(p) == IF "dflt" \in DOMAIN p THEN [p EXCEPT !.dflt = DefaultSdl(@)] ELSE p
Definitely(s) ==
    [n \in {n \in DOMAIN s.types :
              s.types[n].kind \notin {"LIST", "NON_NULL"}} |->
        [s.types[n] EXCEPT !.parts = [k \in DOMAIN @ |-> Written(@[k])]]]

\* The SDL that sdl_dump returns loads, and gives the same schema.  This is
\* about gql_schema_sdl and the printers of graphql.c and gqlvalue.c against
\* the parsers of sdl.c and doc.c.
DumpLoads ==
    (phase = "block" /\ ~refused /\ ~Torn /\ Dumpable(schema)) =>
        LET back == SdlParse(RubyDirective(GqlInit),
                             GqlSchemaSdl(schema, TRUE, FALSE))
        IN  /\ back.ok
            /\ Definitely(back) = Definitely(schema)
            /\ ToSet(back.dirs) = ToSet(schema.dirs)

----------------------------------------------------------------------------
(* What GraphQL says an answer is, from the schema, the document and the   *)
(* Ruby objects alone.                                                     *)

\* What a variable stands for: its default or what came with the request.
Variables(given, name) ==
    SelectSeq(given.op, LAMBDA v : v.name = name /\ v.value # NoValue)
      \o SelectSeq(given.doc, LAMBDA v : v.name = name)

Meant(given, x) == IF x.t = "Var" THEN Variables(given, x.v)[1].value ELSE x

\* A selection is left out by @skip or @include.
LeftOut(given, uses) ==
    \E k \in DOMAIN uses : \E j \in DOMAIN uses[k].args :
        LET said == Meant(given, uses[k].args[j].v).v
        IN  \/ uses[k].dir = "skip" /\ said = "true"
            \/ uses[k].dir = "include" /\ said = "false"

\* The fields that a set of selections selects of an object of a type.
RECURSIVE Collected(_, _, _, _)
Collected(doc, given, type, sels) ==
    LET frags(sel) == IF sel.frag = NoName THEN sel.inline
                      ELSE SelectSeq(doc.frags, LAMBDA f : f.name = sel.frag)
        applies(f) == f.on \in {NoType, type} /\ ~LeftOut(given, f.dir)
        in(sel) == SelectSeq(frags(sel), applies)
    IN  FlattenSeq([k \in DOMAIN sels |->
            CASE LeftOut(given, sels[k].dir) -> <<>>
              [] sels[k].name # NoName -> <<sels[k]>>
              [] OTHER -> FlattenSeq([j \in DOMAIN in(sels[k]) |->
                     Collected(doc, given, type, in(sels[k])[j].sels)])])

\* An argument as Ruby sees it.
RubyClass == [Int |-> "Integer", I64 |-> "Integer", Float |-> "Float",
              Time |-> "Time"]
AsRuby(type, x) ==
    CASE type = "Boolean" ->
           Rb(IF x.v = "true" THEN "TrueClass" ELSE "FalseClass", x.v)
      [] type = "Time" -> Rb("Time", IF x.t = "I64" THEN Instant(x.v)
                                     ELSE TimeText[x.v])
      [] type \in DOMAIN RubyClass \ {"Time"} -> Rb(RubyClass[type], x.v)
      [] OTHER -> Rb("String", x.v)

ArgsMeant(given, field, sel) ==
    LET declared(a) == field.args[PartNamed(field.args, a.name)].type
        value(a) == IF a.var = NoVar THEN a.value
                    ELSE Variables(given, a.var.name)[1].value
        arg(n) == CHOOSE a \in ToSet(sel.args) : a.name = n
    IN  [n \in {a.name : a \in ToSet(sel.args)} |->
            AsRuby(Bare(schema, declared(arg(n))), value(arg(n)))]

\* The value of a leaf as JSON knows it.
Leafs == [Boolean |-> "boolean", Int |-> "number", I64 |-> "number",
          Float |-> "number"]
Shown(type, v) ==
    [leaf |-> IF type \in DOMAIN Leafs THEN Leafs[type] ELSE "text", v |-> v]
ShownNull == [leaf |-> "null", v |-> ""]

RECURSIVE Expected(_, _, _, _), Completed(_, _, _, _, _)
Expected(doc, given, ref, sels) ==
    LET type == classes[ref.rb]
        fields == Collected(doc, given, type, sels)
        parts == schema.types[type].parts
        field(sel) == parts[PartNamed(parts, sel.name)]
        answer(sel) ==
            Answer(ref, sel.name,
                   IF Arity(ref, sel.name) = 0 THEN <<>>
                   ELSE ArgsMeant(given, field(sel), sel)).v
    IN  [k \in DOMAIN fields |->
            [k |-> KeyOf(fields[k]),
             v |-> IF fields[k].name = "__typename" THEN Shown("String", type)
                   ELSE Completed(doc, given, field(fields[k]).type,
                                  answer(fields[k]), fields[k].sels)]]

Completed(doc, given, type, x, sels) ==
    LET of == Bare(schema, type)
    IN  CASE x = Nil -> ShownNull
          [] x # Nil /\ KindOf(schema, of) = "LIST" ->
               [k \in DOMAIN x.v |->
                   Completed(doc, given, schema.types[of].base, x.v[k], sels)]
          [] x # Nil /\ KindOf(schema, of) \in {"SCALAR", "ENUM"} ->
               Shown(of, IF of = "Int" /\ x.rb = "Float" THEN Truncated[x.v]
                         ELSE x.v)
          [] OTHER -> Expected(doc, given, x, sels)

\* The content of an answer.
RECURSIVE Content(_)
Content(x) ==
    CASE IsList(x) -> [k \in DOMAIN x.items |-> Content(x.items[k])]
      [] IsObject(x) -> [k \in DOMAIN x.mem |->
                            Member(x.mem[k].k, Content(x.mem[k].v))]
      [] x = Null -> ShownNull
      [] OTHER -> Shown(x.t, x.v)

\* The type of the objects that a selection of a type selects from.
RECURSIVE Element(_)
Element(type) ==
    IF KindOf(schema, type) = "LIST" THEN Element(schema.types[type].base)
    ELSE type

\* Whether arguments are given in a set of selections, as far as it shows.
RECURSIVE GivesArgs(_)
GivesArgs(sels) ==
    \E k \in DOMAIN sels :
        \/ sels[k].args # <<>> \/ sels[k].frag # NoName
        \/ GivesArgs(sels[k].sels)
        \/ \E j \in DOMAIN sels[k].inline : GivesArgs(sels[k].inline[j].sels)

\* The arguments that agoo looks up: gql_type_get_field finds no field of a
\* non-null type or a union, and of an interface only its own; and a variable
\* that a fragment uses is never looked for.
RECURSIVE LooksUp(_)
LooksUp(sels) ==
    \A k \in DOMAIN sels :
        LET sel == sels[k]
        IN  /\ KindOf(schema, Element(sel.type)) = "OBJECT" \/ ~GivesArgs(sel.sels)
            /\ \A a \in ToSet(sel.args) : a.value.t # "Var"
            /\ LooksUp(sel.sels)
            /\ \A j \in DOMAIN sel.inline : LooksUp(sel.inline[j].sels)

LooksUpDoc(doc) ==
    /\ \A k \in DOMAIN doc.ops : LooksUp(doc.ops[k].sels)
    /\ \A k \in DOMAIN doc.frags : LooksUp(doc.frags[k].sels)

\* What agoo leaves to the caller or does in its own way: a directive that leaves
\* out a field, a spread or an inline fragment of a type is not looked at, the
\* keys of an object are not merged, __typename has no alias, some arguments
\* are not looked up, and a default hides what came with the request.
RECURSIVE Plain(_, _)
Plain(given, sels) ==
    /\ \A k \in DOMAIN sels :
           LET sel == sels[k]
           IN  /\ sel.name \in {NoName, "__typename"}
                  \/ First(sel.name) # "_"
               /\ sel.name = "__typename" => sel.alias = NoName
               /\ ~LeftOut(given, sel.dir)
               /\ \A j \in DOMAIN sel.args :
                      sel.args[j].value.t \notin {"List", "Object"}
               /\ \A j \in DOMAIN sel.inline : Plain(given, sel.inline[j].sels)
               /\ Plain(given, sel.sels)
    /\ \A j, k \in DOMAIN sels :
           j # k /\ sels[j].name # NoName => KeyOf(sels[j]) # KeyOf(sels[k])

PlainDoc(doc, given) ==
    /\ LooksUpDoc(doc)
    /\ \A k \in DOMAIN doc.ops : Plain(given, doc.ops[k].sels)
    /\ \A k \in DOMAIN doc.frags : Plain(given, doc.frags[k].sels)
    /\ \A k \in DOMAIN given.op : ~HasVar(given.doc, given.op[k].name)

RootObject(kind) == Answer(Root, RootField[kind], <<>>).v

Said(r) == [op |-> r.op.vars, doc |-> r.doc.vars]

\* An answer has the fields the document selects, under the names and in the
\* order it gives them, with what the Ruby objects return for the arguments
\* it gives, as the schema declares them.  This is about gql_eval_sels and
\* resolve: aliases, fragments, variables, conversions and lists.
AnswersAsSpecified ==
    (/\ reply.kind = "data" /\ reply.op.kind # "subscription"
     /\ PlainDoc(reply.doc, Said(reply))) =>
        Content(reply.v) =
            Expected(reply.doc, Said(reply), RootObject(reply.op.kind),
                     reply.op.sels)

\* No method is called with an argument that is not of the scalar type that
\* the type of its object declares for it, in a document whose arguments are all
\* looked up.  This is about the loop of resolve over the arguments, which
\* converts the literals and the variables of a document where they are, and
\* about gql_eval_sels, which takes the field of a selection from the type of
\* the field around it.
ArgsTyped ==
    LooksUpDoc(reply.doc) =>
        \A k \in DOMAIN reply.calls :
            LET call == reply.calls[k]
                parts == schema.types[classes[call.on.rb]].parts
                args == parts[PartNamed(parts, call.method)].args
                declared(n) == Bare(schema, args[PartNamed(args, n)].type)
            IN  \A n \in DOMAIN call.args :
                    (PartNamed(args, n) # 0
                       /\ KindOf(schema, declared(n)) = "SCALAR")
                        => call.args[n].t = declared(n)

RECURSIVE AsPrinted(_)
AsPrinted(x) ==
    CASE IsList(x) -> List([k \in DOMAIN x.items |-> AsPrinted(x.items[k])])
      [] IsObject(x) -> Object([k \in DOMAIN x.mem |->
                                   Member(x.mem[k].k, AsPrinted(x.mem[k].v))])
      [] x.t = "Float" -> Scalar("Float", FloatText(x.v))
      [] OTHER -> x

\* The JSON of an answer reads back to the answer, with its floats as they are
\* printed.  This is about gqljson.c against the printers of gqlvalue.c.
ResponseReads ==
    reply.kind = "data" =>
        LET read == JsonParse(Json(reply.v))
        IN  read.s.ok /\ Content(read.v) = Content(AsPrinted(reply.v))

----------------------------------------------------------------------------
(* Introspection and events.                                               *)

\* The type that an answer describes, as a client puts it together.
RECURSIVE Rebuilt(_)
Rebuilt(x) ==
    CASE ObjectGet(x, "kind").v = "NON_NULL" ->
           NonNullOf(Rebuilt(ObjectGet(x, "ofType")))
      [] ObjectGet(x, "kind").v = "LIST" -> ListOf(Rebuilt(ObjectGet(x, "ofType")))
      [] OTHER -> ObjectGet(x, "name").v

\* Whether a selection asks for deprecated fields or values.
AsksAll(sel) ==
    \E a \in ToSet(sel.args) : a.name = "includeDeprecated"
                                 /\ a.value = Scalar("Boolean", "true")

Wanted(type, sel) ==
    SelectSeq(schema.types[type].parts,
              LAMBDA p : AsksAll(sel) \/ ~HasUse(p.dir, "deprecated"))

Asks(sel, name) == \E k \in DOMAIN sel.sels : sel.sels[k].name = name

\* What __type(name:) lists are the fields or the values of that type, all of
\* them or those that are not deprecated, and a client that follows the types
\* of the fields and of their arguments finds what the schema declares.  This
\* is about the resolver of gqlintro.c, the kinds and the wraps of types.
Introspected ==
    \A k \in DOMAIN reply.op.sels : \A j \in DOMAIN reply.op.sels[k].sels :
        LET top == reply.op.sels[k]
            sel == top.sels[j]
            name == top.args[1].value.v
            items == ObjectGet(ObjectGet(reply.v, KeyOf(top)), KeyOf(sel)).items
            parts == Wanted(name, sel)
            args(i) == ObjectGet(items[i], "args").items
        IN  (reply.kind = "data" /\ top.name = "__type"
               /\ sel.name \in {"fields", "enumValues"}) =>
               /\ Len(items) = Len(parts)
               /\ \A i \in DOMAIN items :
                    /\ ObjectGet(items[i], "name").v = parts[i].name
                    /\ Asks(sel, "type") =>
                         Rebuilt(ObjectGet(items[i], "type")) = parts[i].type
                    /\ Asks(sel, "args") =>
                         [a \in DOMAIN args(i) |->
                             Rebuilt(ObjectGet(args(i)[a], "type"))]
                           = [a \in DOMAIN parts[i].args |-> parts[i].args[a].type]

\* An event that raised nothing went once to each connection whose pattern
\* matches its subject, and to no other, with what its subscription selects of
\* the object.  This is about agoo_server_gpublish, gpub_eval and the document
\* that gql_eval_get_hook keeps for it.
EventsReach ==
    (event # NoEvent /\ ~event.raised) =>
        LET reached == SelectSeq(subs, LAMBDA sub :
                           Matches(PartsOf(sub.subject), event.subject))
            first(sub) == sub.doc.ops[1]
            given(sub) == [op |-> first(sub).vars, doc |-> sub.doc.vars]
            said(sub) == Expected(sub.doc, given(sub), event.ref,
                                  first(sub).sels[1].sels)
        IN  /\ Len(event.sent) = Len(reached)
            /\ \A k \in DOMAIN reached : \E j \in DOMAIN event.sent :
                   /\ event.sent[j].con = reached[k].con
                   /\ Content(event.sent[j].v) = said(reached[k])

\* No set of selections, but that of an inline fragment, comes after the
\* arguments of a directive.
Closes(uses) == uses # <<>> /\ Last(uses).args # <<>>
RECURSIVE NoneAfter(_)
NoneAfter(sels) ==
    \A k \in DOMAIN sels :
        /\ sels[k].sels # <<>> => ~Closes(sels[k].dir) /\ NoneAfter(sels[k].sels)
        /\ \A j \in DOMAIN sels[k].inline : NoneAfter(sels[k].inline[j].sels)

NoneAfterDoc(doc) ==
    \A x \in ToSet(doc.ops) \cup ToSet(doc.frags) :
        ~Closes(x.dir) /\ NoneAfter(x.sels)

\* A document that was evaluated prints as one that reads back to it, unless a
\* value of it is a variable, which is printed with a "%", or a set of
\* selections comes after the arguments of a directive: it is printed with a
\* blank before it that the parser does not skip.  This is about gql_doc_sdl
\* against sdl_parse_doc.
DocDumpLoads ==
    LET text == GqlDocSdl(reply.doc)
        back == SdlParseDoc(schema, text, reply.doc.vars, "query")
    IN  (/\ reply.doc # NoDoc /\ phase = "serve" /\ NoneAfterDoc(reply.doc)
         /\ \A k \in DOMAIN text : First(text[k]) # "%") =>
            back.s.ok /\ back.v = reply.doc
=============================================================================
