------------------------------ MODULE GqlSchema ------------------------------
(***************************************************************************)
(* The GraphQL type registry of agoo (graphql.c) and the types that the    *)
(* introspection module puts in it (gqlvalue.c, gqlintro.c).               *)
(*                                                                         *)
(* A schema is a record with at least the fields                           *)
(*   types  the registered types by name, "[T]" and "T!" included,         *)
(*   dirs   the list of directives, latest first,                          *)
(*   ok     FALSE once an operation has set the error.                     *)
(* A pointer to a type is the name of the type: Dangling says when that    *)
(* name no longer stands for the record the pointer was taken from.        *)
(***************************************************************************)
EXTENDS Naturals, Sequences, SequencesExt, TLC

\* A description that is not there, NULL in the code.
NoDesc == ""

\* A default value that is not there.
NoValue == [t |-> "none", v |-> ""]

Failed(s) == [s EXCEPT !.ok = FALSE]

\* A new type of a kind. parts is the union of the C record: the fields of an
\* object, an interface or the schema, the arguments of an input object, the
\* members of a union or the choices of an enum.
NewType(kind, desc) ==
    [kind |-> kind, desc |-> desc, dir |-> <<>>, core |-> FALSE,
     parts |-> <<>>, interfaces |-> <<>>, base |-> ""]

Field(name, type, dflt, desc) ==
    [name |-> name, type |-> type, desc |-> desc, args |-> <<>>,
     dir |-> <<>>, dflt |-> dflt]

Arg(name, type, dflt, desc) ==
    [name |-> name, type |-> type, desc |-> desc, dir |-> <<>>, dflt |-> dflt]

----------------------------------------------------------------------------
(* Types.                                                                  *)

TypeGet(s, name) == name \in DOMAIN s.types

TypeSet(s, name, type) ==
    [s EXCEPT !.types = [n \in DOMAIN @ \cup {name} |->
                            IF n = name THEN type ELSE @[n]]]

\* Defect: the last definition of a name is the one.
TypeCreateAgain(s, kind, name, desc) == TypeSet(s, name, NewType(kind, desc))

\* Only a type that is unknown or only referred to can be created.  type_create
\* with what each caller does then: the parts and interfaces start empty, the
\* uses of a type that was referred to stay.
TypeCreate(s, kind, name, desc) ==
    CASE ~TypeGet(s, name) -> TypeSet(s, name, NewType(kind, desc))
      [] TypeGet(s, name) /\ s.types[name].kind = "UNDEF" ->
           TypeSet(s, name, [NewType(kind, desc) EXCEPT !.dir = s.types[name].dir])
      [] OTHER -> Failed(s)

AssureType(s, name) ==
    IF TypeGet(s, name) THEN s ELSE TypeCreate(s, "UNDEF", name, NoDesc)

ListOf(name) == "[" \o name \o "]"
NonNullOf(name) == name \o "!"

\* Defect: the base is not set.
AssureWrapBare(s, kind, name, base) ==
    IF TypeGet(s, name) THEN s ELSE TypeCreate(s, kind, name, NoDesc)

AssureWrap(s, kind, name, base) ==
    IF TypeGet(s, name) THEN s
    ELSE [TypeCreate(s, kind, name, NoDesc) EXCEPT !.types[name].base = base]

AssureList(s, base) == AssureWrap(s, "LIST", ListOf(base), base)
AssureNonNull(s, base) == AssureWrap(s, "NON_NULL", NonNullOf(base), base)

\* What becomes of a type whose definition fails.
TypeDestroy(s, name) ==
    [s EXCEPT !.types = [n \in DOMAIN @ \ {name} |-> @[n]]]

AddPart(s, name, part) ==
    [s EXCEPT !.types[name].parts = Append(@, part)]

TypeField(s, type, name, return, dflt, desc) ==
    AddPart(s, type, Field(name, return, dflt, desc))

InputArg(s, type, name, return, dflt, desc) ==
    AddPart(s, type, Arg(name, return, dflt, desc))

UnionAdd(s, type, member) == AddPart(s, type, [name |-> member])

\* exact says whether the new value ends where the text ends: the test for a
\* duplicate compares the rest of the text.
EnumAppend(s, type, value, desc, exact) ==
    IF exact /\ \E k \in DOMAIN s.types[type].parts :
                   s.types[type].parts[k].name = value
    THEN Failed(s)
    ELSE AddPart(s, type, [name |-> value, desc |-> desc, dir |-> <<>>])

FieldArg(s, type, name, return, dflt, desc) ==
    LET last == Len(s.types[type].parts)
    IN  [s EXCEPT !.types[type].parts[last].args =
                     Append(@, Arg(name, return, dflt, desc))]

----------------------------------------------------------------------------
(* Directives.                                                             *)

DirIndex(s, name) == {k \in DOMAIN s.dirs : s.dirs[k].name = name}

NewDir(name, desc, defined) ==
    [name |-> name, desc |-> desc, args |-> <<>>, locs |-> <<>>,
     defined |-> defined, core |-> FALSE]

AssureDirective(s, name) ==
    IF DirIndex(s, name) # {} THEN s
    ELSE [s EXCEPT !.dirs = <<NewDir(name, NoDesc, FALSE)>> \o @]

\* A defined directive is redefined in place and stays core when it was core.
DirectiveCreate(s, name, desc) ==
    IF DirIndex(s, name) = {}
    THEN [s EXCEPT !.dirs = <<NewDir(name, desc, TRUE)>> \o @]
    ELSE LET k == CHOOSE k \in DirIndex(s, name) : TRUE
         IN  [s EXCEPT !.dirs[k] = [NewDir(name, desc, TRUE)
                                       EXCEPT !.core = s.dirs[k].core]]

ThisDir(s, name) == CHOOSE k \in DirIndex(s, name) : TRUE

DirArg(s, dir, name, type, dflt, desc) ==
    [s EXCEPT !.dirs[ThisDir(s, dir)].args =
                 Append(@, Arg(name, type, dflt, desc))]

DirectiveOn(s, dir, on) ==
    [s EXCEPT !.dirs[ThisDir(s, dir)].locs = Append(@, on)]

\* The use of a directive; its arguments end up in the reverse order.
DirUse(name) == [dir |-> name, args |-> <<>>]
DirUseArg(use, key, value) ==
    [use EXCEPT !.args = <<[k |-> key, v |-> value]>> \o @]

\* Duplicates are looked for everywhere but in the last use of several.
TypeDirectiveUse(s, type, use) ==
    LET uses == s.types[type].dir
        seen == {1} \cup 1 .. (Len(uses) - 1)
    IN  IF \E k \in seen \cap DOMAIN uses : uses[k].dir = use.dir
        THEN Failed(s)
        ELSE [s EXCEPT !.types[type].dir = Append(@, use)]

HasUse(uses, dir) == \E k \in DOMAIN uses : uses[k].dir = dir

----------------------------------------------------------------------------
(* Lookups.                                                                *)

PartNamed(parts, name) ==
    LET at == {k \in DOMAIN parts : parts[k].name = name}
    IN  IF at = {} THEN 0 ELSE CHOOSE k \in at : \A j \in at : k <= j

HasFields(type) == type.kind \in {"SCHEMA", "OBJECT", "INTERFACE"}

\* The types a type refers to.
Refers(type) ==
    LET parts == {type.parts[k] : k \in DOMAIN type.parts}
        args == UNION {{p.args[k] : k \in DOMAIN p.args} : p \in parts}
    IN  CASE HasFields(type) ->
               {p.type : p \in parts} \cup {a.type : a \in args}
                 \cup {type.interfaces[k] : k \in DOMAIN type.interfaces}
          [] type.kind = "INPUT_OBJECT" -> {p.type : p \in parts}
          [] type.kind = "UNION" -> {p.name : p \in parts}
          [] type.kind \in {"LIST", "NON_NULL"} -> {type.base}
          [] OTHER -> {}

\* A name that stands for a definition, not only for a reference to one.
IsDefined(s, n) == TypeGet(s, n) /\ s.types[n].kind # "UNDEF"

\* The types only referred to that an extension has given parts: it took what
\* malloc had left in the record for the list to add them to.
Filled(s) ==
    {n \in DOMAIN s.types : s.types[n].kind = "UNDEF"
        /\ (s.types[n].parts # <<>> \/ s.types[n].interfaces # <<>>)}

\* What t keeps of s: each definition with its kind, its description and its
\* parts in their order, which more can only come after.
Keeps(s, t) ==
    \A n \in DOMAIN s.types :
        IsDefined(s, n) =>
            /\ IsDefined(t, n)
            /\ t.types[n].kind = s.types[n].kind
            /\ t.types[n].desc = s.types[n].desc
            /\ IsPrefix(s.types[n].parts, t.types[n].parts)

\* References to records that were freed.
Dangling(s) ==
    ((UNION {Refers(s.types[n]) : n \in DOMAIN s.types})
       \cup (UNION {{s.dirs[k].args[j].type : j \in DOMAIN s.dirs[k].args} :
                       k \in DOMAIN s.dirs})) \ DOMAIN s.types

----------------------------------------------------------------------------
(* The types every schema starts with.                                     *)

Scalars == {"Int", "I64", "Boolean", "Float", "Time", "Uuid", "ID", "String"}

\* gql_value_init.
ValueInit ==
    [types |-> [n \in Scalars |-> [NewType("SCALAR", n \o "_scalar")
                                      EXCEPT !.core = TRUE]],
     dirs |-> <<>>, ok |-> TRUE]

\* A type given as its name followed by its wraps, "[]" and "!".
Wrapped(w) ==
    FoldLeft(LAMBDA n, x : IF x = "!" THEN NonNullOf(n) ELSE ListOf(n),
             w[1], Tail(w))

AssureWrapped(s, w) ==
    FoldLeft(LAMBDA acc, x :
                 IF x = "!"
                 THEN [s |-> AssureNonNull(acc.s, acc.n), n |-> NonNullOf(acc.n)]
                 ELSE [s |-> AssureList(acc.s, acc.n), n |-> ListOf(acc.n)],
             [s |-> AssureType(s, w[1]), n |-> w[1]], Tail(w)).s

\* gql_intro_init ends at the first of these that fails.

\* A core object type: fields is a list of names and wrapped types.
CoreObject(s, name, fields) ==
    IF ~s.ok THEN s ELSE
    [FoldLeft(LAMBDA acc, f :
                  TypeField(AssureWrapped(acc, f[2]), name, f[1],
                            Wrapped(f[2]), NoValue, NoDesc),
              TypeCreate(s, "OBJECT", name, NoDesc), fields)
        EXCEPT !.types[name].core = TRUE]

CoreEnum(s, name, choices) ==
    IF ~s.ok THEN s ELSE
    [FoldLeft(LAMBDA acc, c : EnumAppend(acc, name, c, NoDesc, TRUE),
              TypeCreate(s, "ENUM", name, NoDesc), choices)
        EXCEPT !.types[name].core = TRUE]

CreateTypeKindType(s) ==
    CoreEnum(s, "__TypeKind", <<"SCALAR", "OBJECT", "INTERFACE", "UNION",
                               "ENUM", "INPUT_OBJECT", "LIST", "NON_NULL">>)

CreateInputType(s) ==
    CoreObject(s, "__InputValue",
        <<<<"name", <<"String", "!">>>>, <<"description", <<"String">>>>,
          <<"type", <<"__Type", "!">>>>, <<"defaultValue", <<"String">>>>>>)

\* includeDeprecated of the fields and enumValues of a type.
DeprecatedArg ==
    Arg("includeDeprecated", "Boolean", [t |-> "Boolean", v |-> "false"], NoDesc)

CreateTypeType(s) ==
    LET made == CoreObject(s, "__Type",
                  <<<<"kind", <<"__TypeKind", "!">>>>, <<"name", <<"String">>>>,
                    <<"description", <<"String">>>>,
                    <<"fields", <<"__Field", "!", "[]">>>>,
                    <<"interfaces", <<"__Type", "!", "[]">>>>,
                    <<"possibleTypes", <<"__Type", "!", "[]">>>>,
                    <<"enumValues", <<"__EnumValue", "!", "[]">>>>,
                    <<"inputFields", <<"__InputValue", "!", "[]">>>>,
                    <<"ofType", <<"__Type">>>>>>)
    IN  [made EXCEPT !.types["__Type"].parts[4].args = <<DeprecatedArg>>,
                     !.types["__Type"].parts[7].args = <<DeprecatedArg>>]

CreateEnumType(s) ==
    CoreObject(s, "__EnumValue",
        <<<<"name", <<"String", "!">>>>, <<"description", <<"String">>>>,
          <<"isDeprecated", <<"Boolean", "!">>>>,
          <<"deprecationReason", <<"String">>>>>>)

CreateFieldType(s) ==
    CoreObject(s, "__Field",
        <<<<"name", <<"String", "!">>>>, <<"description", <<"String">>>>,
          <<"args", <<"__InputValue", "!", "[]", "!">>>>,
          <<"type", <<"__Type", "!">>>>, <<"isDeprecated", <<"Boolean", "!">>>>,
          <<"deprecationReason", <<"String">>>>>>)

CreateDirectiveLocationType(s) ==
    CoreEnum(s, "__DirectiveLocation",
        <<"QUERY", "MUTATION", "SUBSCRIPTION", "FIELD", "FRAGMENT_DEFINITION",
          "FRAGMENT_SPREAD", "INLINE_FRAGMENT", "SCHEMA", "SCALAR", "OBJECT",
          "FIELD_DEFINITION", "ARGUMENT_DEFINITION", "INTERFACE", "UNION",
          "ENUM", "ENUM_VALUE", "INPUT_OBJECT", "INPUT_FIELD_DEFINITION">>)

CreateDirectiveType(s) ==
    CoreObject(s, "__Directive",
        <<<<"name", <<"String", "!">>>>, <<"description", <<"String">>>>,
          <<"locations", <<"__DirectiveLocation", "!", "[]", "!">>>>,
          <<"args", <<"__InputValue", "!", "[]", "!">>>>>>)

CreateSchemaType(s) ==
    CoreObject(s, "__Schema",
        <<<<"types", <<"__Type", "!", "[]", "!">>>>,
          <<"queryType", <<"__Type", "!">>>>, <<"mutationType", <<"__Type">>>>,
          <<"subscriptionType", <<"__Type">>>>,
          <<"directives", <<"__Directive", "!", "[]", "!">>>>>>)

CoreDir(s, name, locs, arg) ==
    LET made == FoldLeft(LAMBDA acc, l : DirectiveOn(acc, name, l),
                         DirectiveCreate(s, name, NoDesc), locs)
    IN  IF ~s.ok THEN s ELSE
        [DirArg(made, name, arg.name, arg.type, arg.dflt, arg.desc)
            EXCEPT !.dirs[ThisDir(made, name)].core = TRUE]

Selections == <<"FIELD", "FRAGMENT_SPREAD", "INLINE_FRAGMENT">>
IfArg == Arg("if", "Boolean!", NoValue, NoDesc)

CreateDirSkip(s) == CoreDir(s, "skip", Selections, IfArg)
CreateDirInclude(s) == CoreDir(s, "include", Selections, IfArg)
CreateDirDeprecated(s) ==
    CoreDir(s, "deprecated", <<"FIELD_DEFINITION", "ENUM_VALUE">>,
            Arg("reason", "String", [t |-> "String", v |-> "No_longer_supported"],
                NoDesc))

\* gql_intro_init, after gql_value_init: what gql_init leaves.
GqlInit ==
    CreateDirDeprecated(CreateDirInclude(CreateDirSkip(
      CreateSchemaType(CreateDirectiveType(CreateDirectiveLocationType(
        CreateFieldType(CreateEnumType(CreateTypeType(CreateInputType(
          CreateTypeKindType(ValueInit)))))))))))
=============================================================================
