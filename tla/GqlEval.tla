-------------------------------- MODULE GqlEval --------------------------------
(***************************************************************************)
(* The evaluation of GraphQL documents: gql_eval_sels and gql_doc_eval     *)
(* (gqleval.c), the resolver that calls Ruby (rgraphql.c) and the          *)
(* introspection resolver (gqlintro.c, gqlcobj.c).                         *)
(*                                                                         *)
(* The state e of an evaluation is the schema with                         *)
(*   frags    the fragments of the document,                               *)
(*   vars     the values of its variables by scope: conversions replace    *)
(*            them where they are,                                         *)
(*   kind     the kind of the operation,                                   *)
(*   classes  the types of the Ruby classes,                               *)
(*   funcs    the resolver in use, "ruby" or "cobj",                       *)
(*   errno    what errno was when the evaluation began: set or not,        *)
(*   req      "live", or "gone" when the request has been destroyed,       *)
(*   calls    the calls of Ruby so far,                                    *)
(*   code     the code of the Ruby exception that ended it, and            *)
(*   wild     set when the code reads or calls what is not there.          *)
(***************************************************************************)
EXTENDS GqlDoc, Integers

CONSTANTS
    Arity(_, _),     \* of a method of an object of a class, or NoMethod
    Answer(_, _, _), \* what a method of an object returns for its arguments
    Truncated,       \* what is left of each of the Floats as an Integer
    MAX_DEPTH        \* how deep selections may go

NoMethod == -100 \* no arity

\* Ruby values: the class, and the text of a scalar, the items of an Array or
\* what tells two objects of a class apart.
Rb(class, v) == [rb |-> class, v |-> v]
Nil == Rb("NilClass", "")
Root == Rb("Root", "")

\* What a method returns, or the exception it raises with its code method.
Returns(v) == [v |-> v, raised |-> FALSE, code |-> 0]
Raises(code) == [v |-> Nil, raised |-> TRUE, code |-> code]

\* The code of an exception that has none, and of the errors of agoo.
NoCode == -1

Raised(e, code) == [s |-> [e EXCEPT !.ok = FALSE, !.code = code], v |-> Null]
Wild(e) == [s |-> [e EXCEPT !.wild = TRUE], v |-> Null]

\* What goes on after a step, unless it failed.
Unless(r, Go(_, _)) == IF r.s.ok /\ ~r.s.wild THEN Go(r.s, r.v) ELSE r

\* What a step gives becomes one more item, or a member of the result.
Appended(r, list) == Unless(r, LAMBDA e, v : Done(e, ListAppend(list, v)))

KeyOf(sel) == IF sel.alias # NoName THEN sel.alias ELSE sel.name
Put(r, sel, result) ==
    Unless(r, LAMBDA e, v : Done(e, ObjectSet(result, KeyOf(sel), v)))

KindOf(e, type) == IF type = NoType THEN "none" ELSE e.types[type].kind

Bare(e, type) ==
    IF KindOf(e, type) = "NON_NULL" THEN e.types[type].base ELSE type

NoField == Field(NoName, NoType, NoValue, NoDesc)

\* The base of a type without its lists; a non-null type has no fields.
RECURSIVE FieldHolder(_, _)
FieldHolder(s, type) ==
    IF s.types[type].kind = "LIST" THEN FieldHolder(s, s.types[type].base)
    ELSE type

TypeGetField(s, type, name) ==
    LET t == s.types[FieldHolder(s, type)]
    IN  IF HasFields(t) THEN PartNamed(t.parts, name) ELSE 0

FieldNamed(e, type, name) ==
    LET k == IF type = NoType THEN 0 ELSE TypeGetField(e, type, name)
    IN  IF k = 0 THEN NoField ELSE e.types[FieldHolder(e, type)].parts[k]

----------------------------------------------------------------------------
(* Variables and arguments.                                                *)

VarValue(e, ref) ==
    LET vars == e.vars[ref.scope]
    IN  vars[PartNamed(vars, ref.name)].value

\* A variable of the operation hides the one that came with the request, also
\* when it has no value of its own.
DocVarValue(e, name) ==
    CASE HasVar(e.vars.op, name) -> VarValue(e, VarRef("op", name))
      [] ~HasVar(e.vars.op, name) /\ HasVar(e.vars.doc, name) ->
           VarValue(e, VarRef("doc", name))
      [] OTHER -> NoValue

\* Defect: variables are not converted.
GivenAsIs(e, field, a) ==
    LET k == PartNamed(field.args, a.name)
        made == Convert(a.value, field.args[k].type, TRUE, e.errno)
    IN  CASE a.var # NoVar -> Done(e, VarValue(e, a.var))
          [] a.var = NoVar /\ k = 0 -> Done(e, a.value)
          [] OTHER -> IF made = NoConversion THEN Error(e) ELSE Done(e, made)

ArgValue(e, a) ==
    CASE a.var # NoVar -> VarValue(e, a.var)
      [] a.var = NoVar /\ a.value = NoValue -> Null
      [] OTHER -> a.value

\* What is in a document is converted each time it is used; a variable once.
Converted(e, a, value, type, made) ==
    LET at == PartNamed(e.vars[a.var.scope], a.var.name)
    IN  CASE made = NoConversion -> Error(e)
          [] FreesGarbage(value, type) -> Wild(e)
          [] a.var = NoVar -> Done(e, made)
          [] OTHER -> Done([e EXCEPT !.vars[a.var.scope][at].value = made], made)

\* The value of an argument, converted to the type the field declares for it.
Given(e, field, a) ==
    LET k == PartNamed(field.args, a.name)
        type == field.args[k].type
        as(value, bare) ==
            Converted(e, a, value, bare,
                      Convert(value, bare, KindOf(e, bare) = "SCALAR", e.errno))
    IN  IF k = 0 \/ ArgValue(e, a).t \in {type, "Var"}
        THEN Done(e, ArgValue(e, a))
        ELSE as(ArgValue(e, a), Bare(e, type))

----------------------------------------------------------------------------
(* Fragments.                                                              *)

\* The class of an Array is that of its first item.
RefType(e, ref) ==
    LET class == IF ref.rb = "Array" /\ ref.v # <<>> THEN ref.v[1].rb
                 ELSE ref.rb
    IN  IF class \in DOMAIN e.classes THEN e.classes[class] ELSE NoType

\* Defect: a variable decides nothing.
FragIncludeLiteral(e, frag, type) ==
    LET leaves(use, a) ==
            \/ use.dir = "skip" /\ a.v = Scalar("Boolean", "true")
            \/ use.dir = "include" /\ a.v = Scalar("Boolean", "false")
    IN  /\ frag.on = NoType \/ frag.on = type
        /\ \A k \in DOMAIN frag.dir : \A j \in DOMAIN frag.dir[k].args :
               ~leaves(frag.dir[k], frag.dir[k].args[j])

FragInclude(e, frag, type) ==
    LET decides(v, b) ==
            (IF v.t = "Var" THEN DocVarValue(e, v.v) ELSE v)
              = Scalar("Boolean", b)
        leaves(use, a) == a.k = "if" /\
            \/ use.dir = "skip" /\ decides(a.v, "true")
            \/ use.dir = "include" /\ decides(a.v, "false")
    IN  /\ frag.on = NoType \/ frag.on = type
        /\ \A k \in DOMAIN frag.dir : \A j \in DOMAIN frag.dir[k].args :
               ~leaves(frag.dir[k], frag.dir[k].args[j])

----------------------------------------------------------------------------
(* From Ruby to GraphQL and back.                                          *)

RECURSIVE GvalToRuby(_, _)
GvalToRuby(e, x) ==
    CASE x.t = "Boolean" -> Rb(IF x.v = "true" THEN "TrueClass"
                               ELSE "FalseClass", x.v)
      [] x.t \in {"Int", "I64"} -> Rb("Integer", x.v)
      [] x.t \in {"Float", "Time"} -> Rb(x.t, x.v)
      [] x.t \in {"String", "Token", "ID", "Uuid"} -> Rb("String", x.v)
      [] IsList(x) -> Rb("Array", [k \in DOMAIN x.items |->
                                      GvalToRuby(e, x.items[k])])
      [] IsObject(x) -> Rb("Hash", [k \in DOMAIN x.mem |->
                            Member(x.mem[k].k, GvalToRuby(e, x.mem[k].v))])
      [] x.t \in DOMAIN e.types /\ e.types[x.t].kind = "ENUM" ->
           Rb("String", x.v)
      [] OTHER -> Nil

\* A value of a type that is not a scalar, an enum or null cannot be coerced.
Coerce(e, x, declared) ==
    LET type == Bare(e, declared)
        number == IF x.rb = "Float" THEN Truncated[x.v] ELSE x.v
        numeric == x.rb \in {"Integer", "Float"}
        text == IF x.rb \in {"Array", "Hash"} THEN x.rb ELSE x.v
        made(t, good, v) == IF good THEN Done(e, Scalar(t, v)) ELSE Error(e)
        kind == KindOf(e, type)
    IN  CASE x = Nil -> Done(e, Null)
          [] x # Nil /\ kind \notin {"SCALAR", "ENUM"} -> Error(e)
          [] type = "Boolean" ->
               made(type, x.rb \in {"TrueClass", "FalseClass"}, x.v)
          [] type = "Int" -> made(type, numeric /\ number \in SmallInts, number)
          [] type = "I64" ->
               made(type, numeric /\ number \in SmallInts \cup LongInts, number)
          [] type = "Float" -> made(type, numeric, x.v)
          [] type = "Time" -> made(type, x.rb = "Time", x.v)
          [] type = "Uuid" -> made(type, text \in Uuids, text)
          [] OTHER -> made("String", TRUE, text)

----------------------------------------------------------------------------
(* Calls of Ruby.                                                          *)

RubyArgs(e, field, sel) ==
    FoldLeft(LAMBDA acc, a : Unless(acc, LAMBDA s, args :
                 Unless(Given(s, field, a), LAMBDA t, v :
                     Done(t, (a.name :> v) @@ args))),
             Done(e, <<>>), sel.args)

Called(e, ref, field, sel, args) ==
    [e EXCEPT !.calls = Append(@, [on |-> ref, method |-> sel.name,
                                   field |-> field, args |-> args])]

Answers(e, answer) ==
    IF answer.raised THEN Raised(e, answer.code) ELSE Done(e, answer.v)

\* A method of no arguments is called without any; one of two or three is
\* given the request too, wrapped once for the document.
RubyCall(e, ref, field, sel) ==
    LET arity == Arity(ref, sel.name)
        given(s, args) == [n \in DOMAIN args |-> GvalToRuby(s, args[n])]
    IN  IF arity = NoMethod THEN Raised(e, NoCode)
        ELSE Unless(IF arity = 0 THEN Done(e, <<>>) ELSE RubyArgs(e, field, sel),
                    LAMBDA s, args :
                        IF arity \notin {-1, 0, 1} /\ s.req = "gone" THEN Wild(s)
                        ELSE Answers(Called(s, ref, field, sel, args),
                                     Answer(ref, sel.name, given(s, args))))

----------------------------------------------------------------------------
(* Introspection.                                                          *)

IntroMethods == [
    __Query |-> {"__type", "__schema"},
    __Schema |-> {"types", "queryType", "mutationType", "subscriptionType",
                  "directives"},
    __Type |-> {"kind", "name", "description", "fields", "interfaces",
                "possibleTypes", "enumValues", "inputFields", "ofType"},
    __Field |-> {"name", "description", "args", "type", "isDeprecated",
                 "deprecationReason"},
    __InputValue |-> {"name", "description", "type", "defaultValue"},
    __EnumValue |-> {"name", "description", "isDeprecated",
                     "deprecationReason"},
    __Directive |-> {"name", "description", "locations", "args"}]

\* What a method finds: a value, one object or a list of them.
Leaf(v) == [found |-> "leaf", v |-> v]
One(class, x) == [found |-> "one", v |-> Rb(class, x)]
Many(class, xs) ==
    [found |-> "many", v |-> [k \in DOMAIN xs |-> Rb(class, xs[k])]]
Nothing == Leaf(Null)
Refused == [found |-> "error", v |-> Null]

TextOrNull(text) == Leaf(IF text = NoDesc THEN Null ELSE Scalar("String", text))

IsDeprecated(uses) == HasUse(uses, "deprecated")

\* The first reason of the last use that has one.
DeprecationReason(uses) ==
    LET reason(u) == SelectSeq(u.args, LAMBDA a : a.k = "reason")
        given == SelectSeq(uses, LAMBDA u : u.dir = "deprecated"
                                              /\ reason(u) # <<>>)
    IN  IF given = <<>> THEN NoDesc ELSE reason(Last(given))[1].v.v

\* Defect: without a look at includeDeprecated.
AllParts(parts, all) == parts

NotDeprecated(parts, all) ==
    SelectSeq(parts, LAMBDA p : all \/ ~IsDeprecated(p.dir))

AllOf(names) == FoldSet(LAMBDA n, acc : Append(acc, n), <<>>, names)

\* An interface is looked for among the interfaces of the object that are the
\* object itself.
HasInterface(e, type) ==
    \E k \in DOMAIN e.types[type].interfaces :
        e.types[type].interfaces[k] = type

TypeFields(type, all) ==
    IF HasFields(type) THEN Many("__Field", NotDeprecated(type.parts, all))
    ELSE Nothing

TypeInterfaces(type) ==
    IF type.kind = "OBJECT" THEN Many("__Type", type.interfaces) ELSE Nothing

PossibleTypes(e, type) ==
    CASE type.kind = "INTERFACE" ->
           Many("__Type", AllOf({n \in DOMAIN e.types :
                     e.types[n].kind = "OBJECT" /\ HasInterface(e, n)}))
      [] type.kind = "UNION" ->
           Many("__Type", [k \in DOMAIN type.parts |-> type.parts[k].name])
      [] OTHER -> Nothing

TypeEnumValues(type, all) ==
    IF type.kind = "ENUM"
    THEN Many("__EnumValue", NotDeprecated(type.parts, all)) ELSE Nothing

InputFields(type) ==
    IF type.kind = "INPUT_OBJECT" THEN Many("__InputValue", type.parts)
    ELSE Nothing

OfType(type) ==
    IF type.kind \in {"LIST", "NON_NULL"} THEN One("__Type", type.base)
    ELSE Nothing

TypeMethod(e, name, method, all) ==
    LET type == e.types[name]
    IN  CASE method = "kind" ->
               IF type.kind = "UNDEF" THEN Refused
               ELSE Leaf(Scalar("__TypeKind", type.kind))
          [] method = "name" -> Leaf(Scalar("String", name))
          [] method = "description" -> TextOrNull(type.desc)
          [] method = "fields" -> TypeFields(type, all)
          [] method = "interfaces" -> TypeInterfaces(type)
          [] method = "possibleTypes" -> PossibleTypes(e, type)
          [] method = "enumValues" -> TypeEnumValues(type, all)
          [] method = "inputFields" -> InputFields(type)
          [] method = "ofType" -> OfType(type)

\* defaultValue: a copy of the default becomes a String.
DefaultValue(dflt) ==
    LET text == IF dflt.t = "String" THEN dflt ELSE ToText(dflt)
    IN  CASE dflt = NoValue -> Nothing
          [] text = NoConversion -> Refused
          [] OTHER -> Leaf(text)

DirectiveLocations(d) ==
    Leaf(List([k \in DOMAIN d.locs |-> Scalar("String", d.locs[k])]))

\* Fields, arguments, enum values and directives.
PartMethod(p, method) ==
    CASE method = "name" -> Leaf(Scalar("String", p.name))
      [] method = "description" -> TextOrNull(p.desc)
      [] method = "args" -> Many("__InputValue", p.args)
      [] method = "type" -> One("__Type", p.type)
      [] method = "isDeprecated" ->
           Leaf(Scalar("Boolean", IF IsDeprecated(p.dir) THEN "true" ELSE "false"))
      [] method = "deprecationReason" -> TextOrNull(DeprecationReason(p.dir))
      [] method = "defaultValue" -> DefaultValue(p.dflt)
      [] method = "locations" -> DirectiveLocations(p)

OpOf == [queryType |-> "query", mutationType |-> "mutation",
         subscriptionType |-> "subscription"]

\* The type of an operation is that of what its root method returns.
SchemaOpType(e, op) ==
    LET answer == Answer(Root, op, <<>>)
    IN  CASE Arity(Root, op) \notin {-1, 0} \/ answer.raised -> Refused
          [] RefType(e, answer.v) = NoType -> Nothing
          [] OTHER -> One("__Type", RefType(e, answer.v))

SchemaMethod(e, method) ==
    CASE method = "types" ->
           Many("__Type", AllOf({n \in DOMAIN e.types :
                    e.types[n].kind \notin {"LIST", "NON_NULL", "SCHEMA"}}))
      [] method = "directives" -> Many("__Directive", e.dirs)
      [] OTHER -> SchemaOpType(e, OpOf[method])

\* __schema and __type(name:).  named is the argument or NoValue.
RootMethod(e, method, named) ==
    CASE method = "__schema" -> One("__Schema", "")
      [] named.t \in Texts /\ TypeGet(e, named.v) -> One("__Type", named.v)
      [] OTHER -> Refused

\* gql_extract_arg: the last argument of that name, and none once a conversion
\* has failed.
ExtractArg(e, field, sel, name) ==
    LET orNone(r) ==
            IF r.s.ok THEN r ELSE Done([r.s EXCEPT !.ok = TRUE], NoValue)
    IN  orNone(FoldLeft(LAMBDA acc, a : Unless(acc, LAMBDA s, v : Given(s, field, a)),
                        Done(e, NoValue),
                        SelectSeq(sel.args, LAMBDA a : a.name = name)))

\* What a method of gqlintro.c finds.
IntroFound(e, ref, sel, arg) ==
    CASE ref.rb = "__Query" -> RootMethod(e, sel.name, arg)
      [] ref.rb = "__Schema" -> SchemaMethod(e, sel.name)
      [] ref.rb = "__Type" -> TypeMethod(e, ref.v, sel.name,
                                         arg = Scalar("Boolean", "true"))
      [] OTHER -> PartMethod(ref.v, sel.name)

----------------------------------------------------------------------------
(* Selections.                                                             *)

RECURSIVE EvalSels(_, _, _, _, _, _), Resolve(_, _, _, _, _, _)

\* A fragment that is spread may have several definitions.
EvalSel(e, ref, field, sel, result, depth) ==
    LET type(s) == IF s.funcs = "ruby" THEN RefType(s, ref) ELSE ref.rb
        frags == IF sel.frag = NoName THEN sel.inline
                 ELSE SelectSeq(e.frags, LAMBDA f : f.name = sel.frag)
        within(sub) ==
            FoldLeft(LAMBDA acc, f : Unless(acc, LAMBDA s, v :
                         IF FragInclude(s, f, type(s))
                         THEN EvalSels(s, ref, sub, f.sels, v, depth) ELSE acc),
                     Done(e, result), frags)
        of(sub) == IF sel.frag = NoName /\ sel.inline = <<>>
                   THEN Resolve(e, ref, sub, sel, result, depth) ELSE within(sub)
    IN  of(IF field = NoField \/ sel.name = NoName THEN field
           ELSE FieldNamed(e, field.type, sel.name))

EvalSels(e, ref, field, sels, result, depth) ==
    IF depth > MAX_DEPTH THEN Error(e)
    ELSE FoldLeft(LAMBDA acc, sel : Unless(acc, LAMBDA s, v :
                      EvalSel(s, ref, field, sel, v, depth + 1)),
                  Done(e, result), sels)

\* An object of its own for each of a list of objects.
EachOf(e, refs, type, sel, depth) ==
    LET field == Field(NoName, type, NoValue, NoDesc)
    IN  FoldLeft(LAMBDA acc, ref : Unless(acc, LAMBDA s, v :
                     Appended(EvalSels(s, ref, field, sel.sels, Object(<<>>),
                                       depth), v)),
                 Done(e, List(<<>>)), refs)

\* gql_cobj_resolve with the methods of gqlintro.c.  A Ruby object is taken
\* for one of its own.
CobjResolve(e, ref, field, sel, result, depth) ==
    LET objects(s, got) ==
            IF got.found = "many"
            THEN EachOf(s, got.v, e.types[sel.type].base, sel, depth + 1)
            ELSE EvalSels(s, got.v, field, sel.sels, Object(<<>>), depth + 1)
        put(s, got) ==
            CASE got.found = "error" -> Error(s)
              [] got.found = "leaf" -> Put(Done(s, got.v), sel, result)
              [] OTHER -> Put(objects(s, got), sel, result)
        named == IF ref.rb = "__Query" THEN "name" ELSE "includeDeprecated"
    IN  CASE ref.rb \notin DOMAIN IntroMethods -> Wild(e)
          [] sel.name \notin IntroMethods[ref.rb] -> Error(e)
          [] OTHER -> Unless(ExtractArg(e, field, sel, named), LAMBDA s, arg :
                          put(s, IntroFound(s, ref, sel, arg)))

\* gql_intro_eval: from here on the document is resolved by gqlintro.c.
IntroEval(e, sel, result, depth) ==
    IF sel.name \notin IntroMethods["__Query"] \/ depth > 2 THEN Error(e)
    ELSE CobjResolve([e EXCEPT !.funcs = "cobj"], Rb("__Query", ""),
                     Field(sel.name, sel.type, NoValue, NoDesc), sel, result, depth)

\* The list of what an Array holds: a scalar is coerced, all else is taken for
\* an object.
RubyList(e, x, sel, depth) ==
    LET base == e.types[sel.type].base
    IN  CASE x.rb # "Array" -> Raised(e, NoCode)
          [] KindOf(e, base) # "SCALAR" -> EachOf(e, x.v, base, sel, depth + 1)
          [] OTHER -> FoldLeft(LAMBDA acc, i : Unless(acc, LAMBDA s, v :
                                   Appended(Coerce(s, i, base), v)),
                               Done(e, List(<<>>)), x.v)

\* What a method returned, in the result.  The fields of the root are put in
\* the result itself.
RubyResult(e, x, field, sel, result, depth) ==
    LET within == EvalSels(e, x, field, sel.sels,
                           IF depth = 0 THEN result ELSE Object(<<>>), depth + 1)
    IN  CASE e.kind = "subscription" /\ x.rb = "String" ->
               Done(e, ObjectSet(result, "subject", Scalar("String", x.v)))
          [] KindOf(e, sel.type) = "LIST" ->
               Put(RubyList(e, x, sel, depth), sel, result)
          [] sel.sels = <<>> -> Put(Coerce(e, x, sel.type), sel, result)
          [] OTHER -> LET put(r) == IF depth = 0 THEN r ELSE Put(r, sel, result)
                       IN  put(within)

RubyResolve(e, ref, field, sel, result, depth) ==
    LET meta == Len(sel.name) > 1 /\ SubSeq(sel.name, 1, 2) = "__"
        type == RefType(e, ref)
    IN  CASE sel.name = "__typename" ->
               IF type = NoType THEN Error(e)
               ELSE Done(e, ObjectSet(result, sel.name, Scalar("String", type)))
          [] meta /\ sel.name # "__typename" ->
               IF e.kind = "query" THEN IntroEval(e, sel, result, depth)
               ELSE Error(e)
          [] OTHER -> Unless(RubyCall(e, ref, field, sel), LAMBDA s, x :
                          RubyResult(s, x, field, sel, result, depth))

Resolve(e, ref, field, sel, result, depth) ==
    IF e.funcs = "ruby" THEN RubyResolve(e, ref, field, sel, result, depth)
    ELSE CobjResolve(e, ref, field, sel, result, depth)

----------------------------------------------------------------------------
(* Documents.                                                              *)

\* The state in which the operation op of a document is evaluated.
Evaluation(s, doc, op, classes, errno) ==
    [types |-> s.types, dirs |-> s.dirs, ok |-> TRUE, wild |-> FALSE,
     frags |-> doc.frags, vars |-> [op |-> op.vars, doc |-> doc.vars],
     kind |-> op.kind, classes |-> classes, funcs |-> "ruby",
     errno |-> errno, req |-> "live", calls |-> <<>>, code |-> NoCode]

\* gql_doc_eval, in a state that Evaluation gives.
GqlDocEval(e, op) ==
    LET type == RefType(e, Root)
        field == FieldNamed(e, type, op.kind)
        sel == [SelOf(NoName, op.kind, NoName, <<>>) EXCEPT
                   !.type = type, !.dir = op.dir, !.sels = op.sels]
    IN  IF field = NoField THEN Error(e)
        ELSE RubyResolve(e, Root, field, sel, Object(<<>>), 0)
=============================================================================
