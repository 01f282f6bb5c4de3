-------------------------------- MODULE GqlDoc --------------------------------
(***************************************************************************)
(* The executable documents of agoo: sdl_parse_doc (the second half of     *)
(* sdl.c), which parses and checks a document against the schema, and      *)
(* gql_doc_sdl (graphql.c), which prints one.                              *)
(*                                                                         *)
(* Reading a document changes the schema too: a type that is only named is *)
(* put in it.  wild says that the parser has followed a NULL pointer.      *)
(***************************************************************************)
EXTENDS GqlSdl

NoName == ""

\* Fragments that are spread are names, inline ones are kept in a sequence of
\* at most one.
SelOf(alias, name, frag, inline) ==
    [alias |-> alias, name |-> name, frag |-> frag, inline |-> inline,
     type |-> NoType, dir |-> <<>>, args |-> <<>>, sels |-> <<>>]

Frag(name, on) == [name |-> name, on |-> on, dir |-> <<>>, sels |-> <<>>]

Op(name, kind) ==
    [name |-> name, kind |-> kind, vars |-> <<>>, dir |-> <<>>, sels |-> <<>>]

\* gql_op_var_create.
Var(name, type, value) == [name |-> name, type |-> type, value |-> value]

\* A pointer to a variable of the operation or of the document.
VarRef(scope, name) == [scope |-> scope, name |-> name]
NoVar == VarRef("none", NoName)
SelArg(name, var, value) == [name |-> name, var |-> var, value |-> value]

\* What the selections of a document can refer to.
Env(op, opVars, docVars) == [op |-> op, opVars |-> opVars, docVars |-> docVars]

HasVar(vars, name) == PartNamed(vars, name) # 0

----------------------------------------------------------------------------
(* Selections.                                                             *)

\* A variable without a default has to come with the request.  In a fragment a
\* variable stays a value of its own.
VarNamed(env, name) ==
    LET k == PartNamed(env.opVars, name)
    IN  CASE k # 0 /\ env.opVars[k].value # NoValue -> VarRef("op", name)
          [] HasVar(env.docVars, name) -> VarRef("doc", name)
          [] OTHER -> NoVar

SelArgValue(s, env, name) ==
    IF s.ok /\ Tok(s) = "$" /\ env.op
    THEN Then(ReadName(Advance(s)), LAMBDA t, var :
             IF VarNamed(env, var) = NoVar THEN Error(t)
             ELSE Done(t, SelArg(name, VarNamed(env, var), NoValue)))
    ELSE Then(ReadValue(s, NoType), LAMBDA t, value :
             Done(t, SelArg(name, NoVar, value)))

MakeSelArg(s, env) ==
    Then(ReadName(s), LAMBDA t, name : SelArgValue(Expect(t, ":"), env, name))

RECURSIVE SelArgs(_, _, _)
SelArgs(s, env, acc) ==
    CASE AtEnd(s) -> Done(s, acc)
      [] Tok(s) = ")" -> Done(Advance(s), acc)
      [] OTHER -> Then(MakeSelArg(s, env), LAMBDA t, a :
                      SelArgs(t, env, Append(acc, a)))

\* A set of selections may end with the document if a "}" is the last of it.
RECURSIVE MakeSel(_, _), Sels(_, _, _)
Sels(s, env, acc) ==
    CASE ~s.ok -> Error(s)
      [] AtEnd(s) -> IF Last(s.d) = "}" THEN Done(s, acc) ELSE Error(s)
      [] Tok(s) = "}" -> Done(Advance(s), acc)
      [] OTHER -> Then(MakeSel(s, env), LAMBDA t, sel :
                      Sels(t, env, Append(acc, sel)))

SelsIn(s, env) ==
    IF s.ok /\ Tok(s) = "{" THEN Sels(Advance(s), env, <<>>) ELSE Done(s, <<>>)

\* Whether t, after the uses at s, is seen to be at a "{": extract_dir_use leaves
\* the blank that follows the arguments of a use.
SeesBrace(s, t) == t.ok /\ Tok(t) = "{" /\ (t.i > s.i => t.d[t.i - 1] # ")")

\* make_sel_inline.  The directives of "... on T" go to the selection, where
\* nobody looks at them, those of "... @d" to the fragment.
InlineSel(frag) == SelOf(NoName, NoName, NoName, <<frag>>)

MakeSelInline(s, env) ==
    CASE Tok(s) = "on" ->
           Then(ReadName(Advance(s)), LAMBDA s1, on :
           Then(ExtractDirUse(AssureType(s1, on), <<>>), LAMBDA s2, uses :
           Then(SelsIn(s2, env), LAMBDA s3, sels :
               Done(s3, [InlineSel([Frag(NoName, on) EXCEPT !.sels = sels])
                             EXCEPT !.dir = uses]))))
      [] Tok(s) = "@" ->
           Then(ExtractDirUse(s, <<>>), LAMBDA s1, uses :
           Then(SelsIn(s1, env), LAMBDA s2, sels :
               Done(s2, InlineSel([Frag(NoName, NoType) EXCEPT
                                       !.dir = uses, !.sels = sels]))))
      [] OTHER ->
           Then(ReadName(s), LAMBDA t, name :
               Done(t, SelOf(NoName, NoName, name, <<>>)))

\* A name, with an alias in front of it or not.
SelNamed(s) ==
    Then(ReadName(s), LAMBDA t, first :
        IF Tok(t) # ":" THEN Done(t, SelOf(NoName, first, NoName, <<>>))
        ELSE Then(ReadName(Advance(t)), LAMBDA u, second :
                 Done(u, SelOf(first, second, NoName, <<>>))))

MakeSel(s, env) ==
    Then(IF Tok(s) = "..." THEN MakeSelInline(Advance(s), env) ELSE SelNamed(s),
         LAMBDA s1, sel :
    Then(IF sel.frag = NoName /\ Tok(s1) = "("
         THEN SelArgs(Advance(s1), env, <<>>) ELSE Done(s1, <<>>),
         LAMBDA s2, args :
    Then(ExtractDirUse(s2, sel.dir), LAMBDA s3, uses :
    Then(IF sel.frag = NoName /\ SeesBrace(s2, s3)
         THEN SelsIn(s3, env) ELSE Done(s3, <<>>),
         LAMBDA s4, sels :
        Done(s4, [sel EXCEPT !.args = args, !.dir = uses, !.sels = sels])))))

----------------------------------------------------------------------------
(* The types of selections.                                                *)

\* NoType where the code returns NULL.
RECURSIVE LookupFieldType(_, _, _, _)
LookupFieldType(s, type, field, qroot) ==
    LET t == s.types[type]
        k == PartNamed(t.parts, field)
    IN  CASE t.kind \in {"LIST", "NON_NULL"} ->
               LookupFieldType(s, t.base, field, FALSE)
          [] ~HasFields(t) /\ t.kind # "INPUT_OBJECT" -> NoType
          [] k # 0 -> t.parts[k].type
          [] field = "__typename" -> "String"
          [] qroot /\ field = "__type" -> "__Type"
          [] qroot /\ field = "__schema" -> "__Schema"
          [] OTHER -> NoType

\* A fragment has no name to look up.
HasAllFields(s, type, sels) ==
    \A k \in DOMAIN sels :
        LookupFieldType(s, type, sels[k].name, FALSE) # NoType

RECURSIVE SelSetType(_, _, _, _)
SelSetType(s, type, sels, qroot) ==
    LET typeOf(sel) == IF sel.name = NoName THEN type
                       ELSE LookupFieldType(s, type, sel.name, qroot)
        within(f) == IF f.on = NoType THEN type ELSE f.on
        inner(sel) == SelSetType(s, typeOf(sel), sel.sels, FALSE)
        inline(sel) == [k \in DOMAIN sel.inline |->
                           SelSetType(s, within(sel.inline[k]),
                                      sel.inline[k].sels, FALSE)]
        typed(sel) ==
            [sel EXCEPT !.type = typeOf(sel), !.sels = inner(sel).v,
                        !.inline = [k \in DOMAIN @ |->
                                       [@[k] EXCEPT !.sels = inline(sel)[k].v]]]
        good(sel) == /\ typeOf(sel) # NoType
                     /\ \A k \in DOMAIN sel.inline : inline(sel)[k].s.ok
                     /\ inner(sel).s.ok
    IN  IF \A k \in DOMAIN sels : good(sels[k])
        THEN Done(s, [k \in DOMAIN sels |-> typed(sels[k])])
        ELSE Error(s)

----------------------------------------------------------------------------
(* Operations and fragments.                                               *)

\* gql_root_type: the type that the class of the root object is used for.
RootType == "schema"

RootField == [query |-> "query", mutation |-> "mutation",
              subscription |-> "subscription"]

\* NoType when the schema has no such operation.
RootOf(s, kind) == LookupFieldType(s, RootType, RootField[kind], FALSE)

MakeOpVar(s) ==
    Then(ReadName(Expect(s, "$")), LAMBDA s1, name :
    Then(ReadType(Expect(s1, ":")), LAMBDA s2, of :
    Then(Default(s2, of), LAMBDA s3, value : Done(s3, Var(name, of, value)))))

RECURSIVE OpVars(_, _)
OpVars(s, acc) ==
    CASE AtEnd(s) -> Done(s, acc)
      [] Tok(s) = ")" -> Done(Advance(s), acc)
      [] OTHER -> Then(MakeOpVar(s), LAMBDA t, v : OpVars(t, Append(acc, v)))

\* An operation with the name of a field of its root is put in a selection of
\* that field, unless the root has all the fields it selects.  The root of an
\* operation that the schema does not have, and the name of a fragment, are
\* NULL pointers.
WrappedOp(s, op) ==
    LET root == RootOf(s, op.kind)
        named == op.name # NoName
        field == IF root = NoType THEN NoType
                 ELSE LookupFieldType(s, root, op.name, FALSE)
        frags == \E k \in DOMAIN op.sels : op.sels[k].name = NoName
        sel == [SelOf(NoName, op.name, NoName, <<>>) EXCEPT !.sels = op.sels]
    IN  CASE ~named -> Done(s, op)
          [] root = NoType -> Done([s EXCEPT !.wild = TRUE], op)
          [] field = NoType -> Done(s, op)
          [] frags -> Done([s EXCEPT !.wild = TRUE], op)
          [] HasAllFields(s, root, op.sels) -> Done(s, op)
          [] OTHER -> Done(s, [op EXCEPT !.sels = <<sel>>])

\* The kind and the name may be left out.
NameOr(s, default) ==
    IF IsName(Tok(s)) THEN Done(Advance(s), Tok(s)) ELSE Done(s, default)

MakeOp(s, docVars, default) ==
    Then(NameOr(s, default), LAMBDA s1, kind :
    IF kind \notin DOMAIN RootField THEN Error(s1) ELSE
    Then(NameOr(s1, NoName), LAMBDA s2, name :
    Then(IF Tok(s2) = "(" THEN OpVars(Advance(s2), <<>>) ELSE Done(s2, <<>>),
         LAMBDA s3, vars :
    Then(ExtractDirUse(s3, <<>>), LAMBDA s4, uses :
    Then(IF SeesBrace(s3, s4)
         THEN SelsIn(s4, Env(TRUE, vars, docVars)) ELSE Error(s4),
         LAMBDA s5, sels :
        WrappedOp(s5, [Op(name, kind) EXCEPT !.vars = vars, !.dir = uses,
                                             !.sels = sels]))))))

\* The words "fragment" and "on" are taken to be there.
MakeFragment(s) ==
    Then(ReadName(Advance(s)), LAMBDA s1, name :
    Then(ReadName(Advance(s1)), LAMBDA s2, on :
    Then(ExtractDirUse(AssureType(s2, on), <<>>), LAMBDA s3, uses :
    Then(IF SeesBrace(s2, s3)
         THEN SelsIn(s3, Env(FALSE, <<>>, <<>>)) ELSE Error(s3),
         LAMBDA s4, sels :
        Done(s4, [Frag(name, on) EXCEPT !.dir = uses, !.sels = sels])))))

----------------------------------------------------------------------------
(* Documents.                                                              *)

GqlDocCreate(vars) == [ops |-> <<>>, frags |-> <<>>, vars |-> vars]

\* The names of the operations, and the types of everything selected.
ValidateDoc(s, doc) ==
    LET frag(f) == SelSetType(s, f.on, f.sels, FALSE)
        root(op) == RootOf(s, op.kind)
        op(o) == SelSetType(s, root(o), o.sels, o.kind = "query")
        unnamed == {k \in DOMAIN doc.ops : doc.ops[k].name = NoName}
        twice == \E j, k \in DOMAIN doc.ops \ unnamed :
                     j < k /\ doc.ops[j].name = doc.ops[k].name
        good == /\ TypeGet(s, RootType)
                /\ \A k \in DOMAIN doc.frags : frag(doc.frags[k]).s.ok
                /\ \A j, k \in unnamed : j = k
                /\ ~twice
                /\ \A k \in DOMAIN doc.ops :
                       root(doc.ops[k]) # NoType /\ op(doc.ops[k]).s.ok
    IN  IF good
        THEN Done(s, [doc EXCEPT
                        !.frags = [k \in DOMAIN @ |->
                                      [@[k] EXCEPT !.sels = frag(doc.frags[k]).v]],
                        !.ops = [k \in DOMAIN @ |->
                                    [@[k] EXCEPT !.sels = op(doc.ops[k]).v]]])
        ELSE Error(s)

RECURSIVE DocItems(_, _, _)
DocItems(s, doc, default) ==
    CASE AtEnd(s) \/ s.wild -> Done(s, doc)
      [] Tok(s) = "fragment" ->
           Then(MakeFragment(s), LAMBDA t, frag :
               DocItems(t, [doc EXCEPT !.frags = Append(@, frag)], default))
      [] Tok(s) = "{" \/ Tok(s) \in DOMAIN RootField ->
           Then(MakeOp(s, doc.vars, default), LAMBDA t, op :
               DocItems(t, [doc EXCEPT !.ops = Append(@, op)], default))
      [] OTHER -> Error(s)

\* sdl_parse_doc.
SdlParseDoc(schema, text, vars, default) ==
    Then(DocItems(Reading(schema, text) @@ [wild |-> FALSE], GqlDocCreate(vars),
                  default), LAMBDA s, doc :
        IF s.wild THEN Done(s, doc) ELSE ValidateDoc(s, doc))

----------------------------------------------------------------------------
(* Printing a document.  The uses on an inline fragment of a type are not  *)
(* printed.                                                                *)

SelArgSdl(a) ==
    <<a.name, ":">> \o (CASE a.var # NoVar -> <<"$", a.var.name>>
                          [] a.value # NoValue -> Sdl(a.value)
                          [] OTHER -> <<"null">>)

RECURSIVE SelSdl(_)
SelSdl(sel) ==
    LET body(sels) == IF sels = <<>> THEN <<>>
                      ELSE Braced([k \in DOMAIN sels |-> SelSdl(sels[k])])
        alias == IF sel.alias = NoName THEN <<>> ELSE <<sel.alias, ":">>
        args == IF sel.args = <<>> THEN <<>>
                ELSE <<"(">> \o FlattenSeq([k \in DOMAIN sel.args |->
                                               SelArgSdl(sel.args[k])]) \o <<")">>
        frag == sel.inline[1]
        on == IF frag.on = NoType THEN <<>> ELSE <<"on", frag.on>>
    IN  CASE sel.frag # NoName -> <<"...", sel.frag>> \o AppendDirUse(sel.dir)
          [] sel.inline # <<>> ->
               <<"...">> \o on \o AppendDirUse(frag.dir) \o body(frag.sels)
          [] OTHER -> alias \o <<sel.name>> \o args \o AppendDirUse(sel.dir)
                        \o body(sel.sels)

\* Defect: without the default.
VarSdlBare(v) == <<"$", v.name, ":">> \o TypeTokens(v.type)

VarSdl(v) ==
    <<"$", v.name, ":">> \o TypeTokens(v.type) \o DefaultSdl(v.value)

OpSdl(op) ==
    LET name == IF op.name = NoName THEN <<>> ELSE <<op.name>>
        vars == IF op.vars = <<>> THEN <<>>
                ELSE <<"(">> \o FlattenSeq([k \in DOMAIN op.vars |->
                                               VarSdl(op.vars[k])]) \o <<")">>
    IN  <<op.kind>> \o name \o vars \o AppendDirUse(op.dir)
          \o Braced([k \in DOMAIN op.sels |-> SelSdl(op.sels[k])])

FragSdl(frag) ==
    <<"fragment", frag.name, "on", frag.on>> \o AppendDirUse(frag.dir)
      \o Braced([k \in DOMAIN frag.sels |-> SelSdl(frag.sels[k])])

GqlDocSdl(doc) ==
    FlattenSeq([k \in DOMAIN doc.ops |-> OpSdl(doc.ops[k])])
      \o FlattenSeq([k \in DOMAIN doc.frags |-> FragSdl(doc.frags[k])])
=============================================================================
