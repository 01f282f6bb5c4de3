---------------------------- MODULE GqlSchemaProofs ----------------------------
(***************************************************************************)
(* Proofs about the operations of GqlSchema on the table of types and the  *)
(* list of directives, whatever names, kinds and parts there are: none of  *)
(* them takes away or changes a definition, none of those that make makes  *)
(* a reference to a type that is not there, and the one that frees a type  *)
(* tears exactly the references to it.                                     *)
(***************************************************************************)
EXTENDS GqlSchema, SequenceTheorems, TLAPS

\* The records of types, and the schemas with a type for each of some names; the
\* state of a parser is a schema with the text and the place in it.
TypeRecords(Part, Use) ==
    [kind : STRING, desc : STRING, dir : Seq(Use), core : BOOLEAN,
     parts : Seq(Part), interfaces : Seq(STRING), base : STRING]

IsSchema(s, Names, Part, Use, Dir) ==
    /\ {"types", "dirs", "ok"} \subseteq DOMAIN s
    /\ s.types \in [Names -> TypeRecords(Part, Use)]
    /\ s.dirs \in Seq(Dir)

\* A sequence is a prefix of itself and of itself with one more item.
LEMMA PrefixLemma ==
    ASSUME NEW S, NEW q \in Seq(S), NEW x \in S
    PROVE  IsPrefix(q, q) /\ IsPrefix(q, Append(q, x))
<1>1. SubSeq(q, 1, Len(q)) = q
  OBVIOUS
<1>2. SubSeq(Append(q, x), 1, Len(q)) = q
  <2>1. /\ Append(q, x) \in Seq(S)
        /\ Len(Append(q, x)) = Len(q) + 1
        /\ \A k \in 1 .. Len(q) : Append(q, x)[k] = q[k]
    OBVIOUS
  <2> QED
    BY <2>1
<1> QED
  BY <1>1, <1>2, Len(Append(q, x)) = Len(q) + 1 DEF IsPrefix

\* gql_type_create makes a type of a name that has none or is only referred
\* to, and refuses a name that is defined; gql_assure_type, assure_list and
\* gql_assure_nonnull create what is not there.
THEOREM CreationKeeps ==
    ASSUME NEW Names, NEW Part, NEW Use, NEW Dir,
           NEW s, IsSchema(s, Names, Part, Use, Dir),
           NEW name, NEW kind, NEW desc, NEW base
    PROVE  /\ Keeps(s, TypeCreate(s, kind, name, desc))
           /\ IsDefined(s, name) => ~TypeCreate(s, kind, name, desc).ok
           /\ Keeps(s, AssureType(s, name))
           /\ Keeps(s, AssureWrap(s, kind, name, base))
<1> USE DEF IsSchema, TypeRecords
<1>1. \A n \in Names : IsPrefix(s.types[n].parts, s.types[n].parts)
  BY DEF IsPrefix
<1>2. Keeps(s, s)
  BY <1>1 DEF Keeps, IsDefined, TypeGet
<1>3. ASSUME NEW k, NEW d
      PROVE  Keeps(s, TypeCreate(s, k, name, d))
  <2>1. CASE ~TypeGet(s, name)
    BY <1>1, <2>1 DEF Keeps, IsDefined, TypeGet, TypeCreate, TypeSet, NewType
  <2>2. CASE TypeGet(s, name) /\ s.types[name].kind = "UNDEF"
    BY <1>1, <2>2 DEF Keeps, IsDefined, TypeGet, TypeCreate, TypeSet, NewType
  <2>3. CASE IsDefined(s, name)
    BY <1>1, <2>3 DEF Keeps, IsDefined, TypeGet, TypeCreate, Failed
  <2> QED
    BY <2>1, <2>2, <2>3 DEF IsDefined, TypeGet
<1>4. IsDefined(s, name) => ~TypeCreate(s, kind, name, desc).ok
  BY DEF IsDefined, TypeGet, TypeCreate, Failed
<1>5. Keeps(s, AssureType(s, name))
  BY <1>2, <1>3 DEF AssureType, NoDesc
<1>6. Keeps(s, AssureWrap(s, kind, name, base))
  <2>1. CASE TypeGet(s, name)
    BY <1>2, <2>1 DEF AssureWrap
  <2>2. CASE ~TypeGet(s, name)
    BY <1>1, <2>2 DEF Keeps, IsDefined, TypeGet, AssureWrap, TypeCreate,
                      TypeSet, NewType, NoDesc
  <2> QED
    BY <2>1, <2>2
<1> QED
  BY <1>3, <1>4, <1>5, <1>6

\* gql_type_field, gql_input_arg, gql_union_add and gql_enum_append put what
\* they add after what is there, gql_type_directive_use is about the uses
\* only.
THEOREM AdditionKeeps ==
    ASSUME NEW Names, NEW Part, NEW Use, NEW Dir,
           NEW s, IsSchema(s, Names, Part, Use, Dir),
           NEW name \in Names, NEW part \in Part, NEW use \in Use
    PROVE  /\ Keeps(s, AddPart(s, name, part))
           /\ Keeps(s, TypeDirectiveUse(s, name, use))
<1> USE DEF IsSchema, TypeRecords
<1>1. \A n \in Names : IsPrefix(s.types[n].parts, s.types[n].parts)
  BY DEF IsPrefix
<1>2. IsPrefix(s.types[name].parts, Append(s.types[name].parts, part))
  BY PrefixLemma
<1>3. Keeps(s, AddPart(s, name, part))
  BY <1>1, <1>2 DEF Keeps, IsDefined, TypeGet, AddPart
<1>4. Keeps(s, TypeDirectiveUse(s, name, use))
  BY <1>1 DEF Keeps, IsDefined, TypeGet, TypeDirectiveUse, Failed
<1> QED
  BY <1>3, <1>4

----------------------------------------------------------------------------
(* References.                                                             *)

\* The types that a part of a type of a kind refers to.
PartRefers(kind, part) ==
    CASE kind \in {"SCHEMA", "OBJECT", "INTERFACE"} ->
           {part.type} \cup {part.args[i].type : i \in DOMAIN part.args}
      [] kind = "INPUT_OBJECT" -> {part.type}
      [] kind = "UNION" -> {part.name}
      [] OTHER -> {}

\* Refers, part by part.
LEMMA RefersIs ==
    ASSUME NEW type, NEW x
    PROVE  x \in Refers(type) <=>
             \/ \E k \in DOMAIN type.parts :
                    x \in PartRefers(type.kind, type.parts[k])
             \/ /\ HasFields(type)
                /\ \E k \in DOMAIN type.interfaces : x = type.interfaces[k]
             \/ type.kind \in {"LIST", "NON_NULL"} /\ x = type.base
<1>1. CASE HasFields(type)
  BY <1>1 DEF HasFields, Refers, PartRefers
<1>2. CASE type.kind = "INPUT_OBJECT"
  BY <1>2 DEF HasFields, Refers, PartRefers
<1>3. CASE type.kind = "UNION"
  BY <1>3 DEF HasFields, Refers, PartRefers
<1>4. CASE type.kind \in {"LIST", "NON_NULL"}
  BY <1>4 DEF HasFields, Refers, PartRefers
<1>5. CASE ~HasFields(type)
           /\ type.kind \notin {"INPUT_OBJECT", "UNION", "LIST", "NON_NULL"}
  BY <1>5 DEF HasFields, Refers, PartRefers
<1> QED
  BY <1>1, <1>2, <1>3, <1>4, <1>5

\* The types that an argument of a directive refers to.
DirRefers(s) ==
    UNION {{s.dirs[k].args[j].type : j \in DOMAIN s.dirs[k].args} :
               k \in DOMAIN s.dirs}

LEMMA DanglingIs ==
    ASSUME NEW s, NEW x
    PROVE  x \in Dangling(s) <=>
             /\ x \notin DOMAIN s.types
             /\ (\E n \in DOMAIN s.types : x \in Refers(s.types[n]))
                  \/ x \in DirRefers(s)
BY DEF Dangling, DirRefers

\* Nothing dangles that did not before, if what a type or a directive refers to
\* is a type or was referred to before.
LEMMA NothingTorn ==
    ASSUME NEW s, NEW t, DOMAIN s.types \subseteq DOMAIN t.types,
           ASSUME NEW n \in DOMAIN t.types, NEW x \in Refers(t.types[n])
           PROVE  \/ x \in DOMAIN t.types
                  \/ \E m \in DOMAIN s.types : x \in Refers(s.types[m]),
           \A x \in DirRefers(t) : x \in DOMAIN t.types \/ x \in DirRefers(s)
    PROVE  Dangling(t) \subseteq Dangling(s)
<1> SUFFICES ASSUME NEW x \in Dangling(t)
             PROVE  x \in Dangling(s)
  OBVIOUS
<1>1. x \notin DOMAIN t.types /\ x \notin DOMAIN s.types
  BY DanglingIs
<1>2. CASE x \in DirRefers(t)
  BY <1>1, <1>2, DanglingIs
<1>3. CASE \E n \in DOMAIN t.types : x \in Refers(t.types[n])
  BY <1>1, <1>3, DanglingIs
<1> QED
  BY <1>2, <1>3, DanglingIs

\* A type that changes in what is not a reference, or that is new and blank.
LEMMA BlankRefers ==
    ASSUME NEW type, type.parts = <<>>, type.interfaces = <<>>
    PROVE  Refers(type) \subseteq
             IF type.kind \in {"LIST", "NON_NULL"} THEN {type.base} ELSE {}
<1>1. DOMAIN type.parts = {} /\ DOMAIN type.interfaces = {}
  OBVIOUS
<1> QED
  BY <1>1, RefersIs

\* gql_type_create, gql_assure_type and the wraps of a type that is there make
\* no reference to a type that is not.
THEOREM CreationWhole ==
    ASSUME NEW Names, NEW Part, NEW Use, NEW Dir,
           NEW s, IsSchema(s, Names, Part, Use, Dir),
           NEW name, NEW desc,
           NEW kind, kind \notin {"LIST", "NON_NULL"},
           NEW wrap \in {"LIST", "NON_NULL"}, NEW base, TypeGet(s, base)
    PROVE  /\ Dangling(TypeCreate(s, kind, name, desc)) \subseteq Dangling(s)
           /\ Dangling(AssureType(s, name)) \subseteq Dangling(s)
           /\ Dangling(AssureWrap(s, wrap, name, base)) \subseteq Dangling(s)
<1> USE DEF IsSchema, TypeRecords
<1>1. ASSUME NEW new, new.parts = <<>>, new.interfaces = <<>>,
             new.kind \in {"LIST", "NON_NULL"} => TypeGet(s, new.base),
             NEW t, t.dirs = s.dirs,
             t.types = [n \in DOMAIN s.types \cup {name} |->
                           IF n = name THEN new ELSE s.types[n]]
      PROVE  Dangling(t) \subseteq Dangling(s)
  <2>1. Refers(new) \subseteq DOMAIN s.types
    BY <1>1, BlankRefers DEF TypeGet
  <2>2. DirRefers(t) = DirRefers(s)
    BY <1>1 DEF DirRefers
  <2>3. ASSUME NEW n \in DOMAIN t.types, NEW x \in Refers(t.types[n])
        PROVE  \/ x \in DOMAIN t.types
               \/ \E m \in DOMAIN s.types : x \in Refers(s.types[m])
    BY <1>1, <2>1, <2>3
  <2>4. DOMAIN s.types \subseteq DOMAIN t.types
    BY <1>1
  <2> QED
    BY <2>2, <2>3, <2>4, NothingTorn
<1>2. ASSUME NEW k, NEW d, k \notin {"LIST", "NON_NULL"}
      PROVE  Dangling(TypeCreate(s, k, name, d)) \subseteq Dangling(s)
  <2> DEFINE t == TypeCreate(s, k, name, d)
  <2>1. CASE ~TypeGet(s, name)
    <3>1. t.dirs = s.dirs
          /\ t.types = [n \in DOMAIN s.types \cup {name} |->
                           IF n = name THEN NewType(k, d) ELSE s.types[n]]
      BY <2>1 DEF TypeCreate, TypeSet
    <3>2. /\ NewType(k, d).parts = <<>> /\ NewType(k, d).interfaces = <<>>
          /\ NewType(k, d).kind = k
      BY DEF NewType
    <3> QED
      BY <1>1, <1>2, <3>1, <3>2
  <2>2. CASE TypeGet(s, name) /\ s.types[name].kind = "UNDEF"
    <3>1. PICK new : new = [NewType(k, d) EXCEPT !.dir = s.types[name].dir]
      OBVIOUS
    <3>2. t.dirs = s.dirs
          /\ t.types = [n \in DOMAIN s.types \cup {name} |->
                           IF n = name THEN new ELSE s.types[n]]
      BY <2>2, <3>1 DEF TypeCreate, TypeSet
    <3>3. new.parts = <<>> /\ new.interfaces = <<>> /\ new.kind = k
      BY <3>1 DEF NewType
    <3> QED
      BY <1>1, <1>2, <3>2, <3>3
  <2>3. CASE IsDefined(s, name)
    <3>1. t.types = s.types /\ t.dirs = s.dirs
      BY <2>3 DEF TypeCreate, IsDefined, Failed
    <3> QED
      BY <3>1 DEF Dangling
  <2> QED
    BY <2>1, <2>2, <2>3 DEF IsDefined, TypeGet
<1>3. Dangling(TypeCreate(s, kind, name, desc)) \subseteq Dangling(s)
  BY <1>2
<1>4. Dangling(AssureType(s, name)) \subseteq Dangling(s)
  BY <1>2 DEF AssureType
<1>5. Dangling(AssureWrap(s, wrap, name, base)) \subseteq Dangling(s)
  <2>1. CASE TypeGet(s, name)
    BY <2>1 DEF AssureWrap
  <2>2. CASE ~TypeGet(s, name)
    <3>1. PICK t : t = TypeCreate(s, wrap, name, NoDesc)
      OBVIOUS
    <3>2. PICK u : u = AssureWrap(s, wrap, name, base)
      OBVIOUS
    <3>3. u = [t EXCEPT !.types[name].base = base]
      BY <2>2, <3>1, <3>2 DEF AssureWrap
    <3>4. t = [s EXCEPT !.types = [n \in DOMAIN @ \cup {name} |->
                 IF n = name THEN NewType(wrap, NoDesc) ELSE @[n]]]
      BY <2>2, <3>1 DEF TypeCreate, TypeSet
    <3>5. PICK new : new = [NewType(wrap, NoDesc) EXCEPT !.base = base]
      OBVIOUS
    <3>6. /\ new.parts = <<>> /\ new.interfaces = <<>>
          /\ new.kind = wrap /\ new.base = base
      BY <3>5 DEF NewType
    <3>7. u.types = [n \in DOMAIN s.types \cup {name} |->
                       IF n = name THEN new ELSE s.types[n]]
      BY <3>3, <3>4, <3>5
    <3>8. u.dirs = s.dirs
      BY <3>3, <3>4
    <3> QED
      BY <1>1, <3>2, <3>6, <3>7, <3>8
  <2> QED
    BY <2>1, <2>2
<1> QED
  BY <1>3, <1>4, <1>5

\* One type changes, and refers to nothing that it did not or that is not there.
LEMMA OneTypeTorn ==
    ASSUME NEW s, NEW t, NEW name \in DOMAIN s.types,
           DOMAIN t.types = DOMAIN s.types, t.dirs = s.dirs,
           \A n \in DOMAIN s.types : n # name => t.types[n] = s.types[n],
           Refers(t.types[name]) \subseteq
               Refers(s.types[name]) \cup DOMAIN s.types
    PROVE  Dangling(t) \subseteq Dangling(s)
<1>1. DirRefers(t) = DirRefers(s)
  BY DEF DirRefers
<1>2. ASSUME NEW n \in DOMAIN t.types, NEW x \in Refers(t.types[n])
      PROVE  \/ x \in DOMAIN t.types
             \/ \E m \in DOMAIN s.types : x \in Refers(s.types[m])
  <2>1. CASE n = name
    BY <1>2, <2>1
  <2>2. CASE n # name
    BY <1>2, <2>2
  <2> QED
    BY <2>1, <2>2
<1> QED
  BY <1>1, <1>2, NothingTorn

\* gql_type_field, gql_input_arg and gql_union_add of types that are there,
\* gql_enum_append and gql_type_directive_use make no reference to a type that
\* is not.
THEOREM AdditionWhole ==
    ASSUME NEW Names, NEW Part, NEW Use, NEW Dir,
           NEW s, IsSchema(s, Names, Part, Use, Dir),
           NEW name \in Names, NEW part \in Part, NEW use \in Use,
           PartRefers(s.types[name].kind, part) \subseteq Names
    PROVE  /\ Dangling(AddPart(s, name, part)) \subseteq Dangling(s)
           /\ Dangling(TypeDirectiveUse(s, name, use)) \subseteq Dangling(s)
<1> USE DEF IsSchema, TypeRecords
<1>1. Dangling(AddPart(s, name, part)) \subseteq Dangling(s)
  <2>1. PICK t : t = AddPart(s, name, part)
    OBVIOUS
  <2>2. /\ DOMAIN t.types = DOMAIN s.types /\ DOMAIN s.types = Names
        /\ t.dirs = s.dirs
        /\ \A n \in DOMAIN s.types : n # name => t.types[n] = s.types[n]
        /\ t.types[name] = [s.types[name] EXCEPT
                               !.parts = Append(s.types[name].parts, part)]
    BY <2>1 DEF AddPart
  <2>3. PICK old : old = s.types[name]
    OBVIOUS
  <2>4. PICK new : new = t.types[name]
    OBVIOUS
  <2>5. /\ old.parts \in Seq(Part) /\ new.parts = Append(old.parts, part)
        /\ new.kind = old.kind /\ new.interfaces = old.interfaces
        /\ new.base = old.base
    BY <2>2, <2>3, <2>4
  <2>6. ASSUME NEW k \in DOMAIN new.parts
        PROVE  \/ new.parts[k] = part
               \/ k \in DOMAIN old.parts /\ new.parts[k] = old.parts[k]
    BY <2>5, <2>6
  <2>7. ASSUME NEW x \in Refers(new)
        PROVE  x \in Refers(old) \/ x \in Names
    <3>1. CASE \E k \in DOMAIN new.parts :
                 x \in PartRefers(new.kind, new.parts[k])
      BY <2>3, <2>5, <2>6, <3>1, RefersIs
    <3>2. CASE ~\E k \in DOMAIN new.parts :
                  x \in PartRefers(new.kind, new.parts[k])
      BY <2>5, <2>7, <3>2, RefersIs DEF HasFields
    <3> QED
      BY <3>1, <3>2
  <2> QED
    BY <2>1, <2>2, <2>3, <2>4, <2>7, OneTypeTorn
<1>2. Dangling(TypeDirectiveUse(s, name, use)) \subseteq Dangling(s)
  <2>1. PICK t : t = TypeDirectiveUse(s, name, use)
    OBVIOUS
  <2>2. CASE t.types = s.types /\ t.dirs = s.dirs
    BY <2>1, <2>2 DEF Dangling
  <2>3. CASE t = [s EXCEPT !.types[name].dir = Append(@, use)]
    <3>1. /\ DOMAIN t.types = DOMAIN s.types /\ t.dirs = s.dirs
          /\ name \in DOMAIN s.types
          /\ \A n \in DOMAIN s.types : n # name => t.types[n] = s.types[n]
          /\ t.types[name].kind = s.types[name].kind
          /\ t.types[name].parts = s.types[name].parts
          /\ t.types[name].interfaces = s.types[name].interfaces
          /\ t.types[name].base = s.types[name].base
      BY <2>3
    <3>2. Refers(t.types[name]) \subseteq Refers(s.types[name])
      BY <3>1 DEF HasFields, Refers
    <3> QED
      BY <2>1, <3>1, <3>2, OneTypeTorn
  <2> QED
    BY <2>1, <2>2, <2>3 DEF TypeDirectiveUse, Failed
<1> QED
  BY <1>1, <1>2

\* A definition that fails and frees its type leaves dangling what dangled
\* before and its own name, and its own name exactly when another type or an
\* argument of a directive refers to it.
THEOREM DestroyTears ==
    ASSUME NEW Names, NEW Part, NEW Use, NEW Dir,
           NEW s, IsSchema(s, Names, Part, Use, Dir), NEW name \in Names
    PROVE  /\ Dangling(TypeDestroy(s, name)) \subseteq Dangling(s) \cup {name}
           /\ name \in Dangling(TypeDestroy(s, name)) <=>
                \/ \E n \in Names \ {name} : name \in Refers(s.types[n])
                \/ name \in DirRefers(s)
<1> USE DEF IsSchema, TypeRecords
<1>1. PICK t : t = TypeDestroy(s, name)
  OBVIOUS
<1>2. /\ DOMAIN s.types = Names
      /\ t.types = [n \in Names \ {name} |-> s.types[n]]
      /\ t.dirs = s.dirs
  BY <1>1 DEF TypeDestroy
<1>3. DirRefers(t) = DirRefers(s)
  BY <1>2 DEF DirRefers
<1>4. ASSUME NEW x \in Dangling(t)
      PROVE  x = name \/ x \in Dangling(s)
  BY <1>2, <1>3, <1>4, DanglingIs
<1>5. name \in Dangling(t) <=>
        \/ \E n \in Names \ {name} : name \in Refers(s.types[n])
        \/ name \in DirRefers(s)
  BY <1>2, <1>3, DanglingIs
<1> QED
  BY <1>1, <1>4, <1>5

\* An item of a sequence is one of the set the sequence is over.
LEMMA ItemLemma ==
    ASSUME NEW S, NEW q \in Seq(S), NEW k \in DOMAIN q
    PROVE  q[k] \in S
OBVIOUS

\* The records of directives.
DirRecords(Argument) ==
    [name : STRING, desc : STRING, args : Seq(Argument), locs : Seq(STRING),
     defined : BOOLEAN, core : BOOLEAN]

\* DirRefers, argument by argument.
LEMMA DirRefersIs ==
    ASSUME NEW s, NEW x
    PROVE  x \in DirRefers(s) <=>
             \E k \in DOMAIN s.dirs : \E j \in DOMAIN s.dirs[k].args :
                 x = s.dirs[k].args[j].type
BY DEF DirRefers

\* The types stay, the directives refer to types and to what they did.
LEMMA OnlyDirs ==
    ASSUME NEW s, NEW t, t.types = s.types,
           ASSUME NEW k \in DOMAIN t.dirs, NEW j \in DOMAIN t.dirs[k].args
           PROVE  \/ t.dirs[k].args[j].type \in DOMAIN s.types
                  \/ t.dirs[k].args[j].type \in DirRefers(s)
    PROVE  Dangling(t) \subseteq Dangling(s)
<1>1. \A x \in DirRefers(t) : x \in DOMAIN s.types \/ x \in DirRefers(s)
  BY DirRefersIs
<1> QED
  BY <1>1, NothingTorn

\* gql_assure_directive, gql_directive_create, gql_directive_on and
\* gql_dir_arg of a type that is there make no reference to a type that is not;
\* a directive that is defined again gives up the references it had.
THEOREM DirectivesWhole ==
    ASSUME NEW Names, NEW Part, NEW Use, NEW Argument,
           NEW s, IsSchema(s, Names, Part, Use, DirRecords(Argument)),
           NEW dir, NEW desc, NEW on, NEW name, NEW type \in Names, NEW dflt
    PROVE  /\ Dangling(AssureDirective(s, dir)) \subseteq Dangling(s)
           /\ Dangling(DirectiveCreate(s, dir, desc)) \subseteq Dangling(s)
           /\ DirIndex(s, dir) # {} =>
                /\ Dangling(DirectiveOn(s, dir, on)) \subseteq Dangling(s)
                /\ Dangling(DirArg(s, dir, name, type, dflt, desc))
                     \subseteq Dangling(s)
<1> USE DEF IsSchema, DirRecords
<1>1. s.dirs \in Seq(DirRecords(Argument)) /\ DOMAIN s.types = Names
  OBVIOUS
<1>2. \A k \in DOMAIN s.dirs : \A j \in DOMAIN s.dirs[k].args :
        s.dirs[k].args[j].type \in DirRefers(s)
  BY DirRefersIs
<1>3. ASSUME NEW d, NEW t, t.types = s.types, t.dirs = <<d>> \o s.dirs,
             d.args = <<>>
      PROVE  Dangling(t) \subseteq Dangling(s)
  <2>1. ASSUME NEW k \in DOMAIN t.dirs, NEW j \in DOMAIN t.dirs[k].args
        PROVE  t.dirs[k].args[j].type \in DirRefers(s)
    <3>1. k # 1
      <4>1. SUFFICES ASSUME k = 1 PROVE FALSE
        OBVIOUS
      <4>2. t.dirs[1] = d
        BY <1>1, <1>3
      <4> QED
        BY <1>3, <2>1, <4>1, <4>2
    <3>2. k - 1 \in DOMAIN s.dirs /\ t.dirs[k] = s.dirs[k - 1]
      BY <1>1, <1>3, <2>1, <3>1
    <3> QED
      BY <1>2, <2>1, <3>2
  <2> QED
    BY <1>3, <2>1, OnlyDirs
<1>4. ASSUME NEW at \in DOMAIN s.dirs, NEW d, NEW t, t.types = s.types,
             t.dirs = [s.dirs EXCEPT ![at] = d],
             \A j \in DOMAIN d.args :
                 \/ d.args[j].type \in Names
                 \/ \E i \in DOMAIN s.dirs[at].args :
                        d.args[j].type = s.dirs[at].args[i].type
      PROVE  Dangling(t) \subseteq Dangling(s)
  <2>1. ASSUME NEW k \in DOMAIN t.dirs, NEW j \in DOMAIN t.dirs[k].args
        PROVE  \/ t.dirs[k].args[j].type \in DOMAIN s.types
               \/ t.dirs[k].args[j].type \in DirRefers(s)
    <3>1. CASE k = at
      <4>1. t.dirs[k] = d
        BY <1>4, <3>1
      <4> QED
        BY <1>1, <1>2, <1>4, <2>1, <4>1
    <3>2. CASE k # at
      <4>1. k \in DOMAIN s.dirs /\ t.dirs[k] = s.dirs[k]
        BY <1>4, <2>1, <3>2
      <4> QED
        BY <1>2, <2>1, <4>1
    <3> QED
      BY <3>1, <3>2
  <2> QED
    BY <1>4, <2>1, OnlyDirs
<1>5. ASSUME NEW defined
      PROVE  /\ NewDir(dir, desc, defined).args = <<>>
             /\ NewDir(dir, NoDesc, defined).args = <<>>
  BY DEF NewDir
<1>6. Dangling(AssureDirective(s, dir)) \subseteq Dangling(s)
  <2>1. CASE DirIndex(s, dir) # {}
    BY <2>1 DEF AssureDirective
  <2>2. CASE DirIndex(s, dir) = {}
    <3>1. PICK t : t = AssureDirective(s, dir)
      OBVIOUS
    <3>2. t.types = s.types /\ t.dirs = <<NewDir(dir, NoDesc, FALSE)>> \o s.dirs
      BY <2>2, <3>1 DEF AssureDirective
    <3> QED
      BY <1>3, <1>5, <3>1, <3>2
  <2> QED
    BY <2>1, <2>2
<1>7. Dangling(DirectiveCreate(s, dir, desc)) \subseteq Dangling(s)
  <2>1. PICK t : t = DirectiveCreate(s, dir, desc)
    OBVIOUS
  <2>2. CASE DirIndex(s, dir) = {}
    <3>1. t.types = s.types /\ t.dirs = <<NewDir(dir, desc, TRUE)>> \o s.dirs
      BY <2>1, <2>2 DEF DirectiveCreate
    <3> QED
      BY <1>3, <1>5, <2>1, <3>1
  <2>3. CASE DirIndex(s, dir) # {}
    <3>1. PICK at : at = CHOOSE k \in DirIndex(s, dir) : TRUE
      OBVIOUS
    <3>2. at \in DOMAIN s.dirs
      BY <2>3, <3>1 DEF DirIndex
    <3>3. PICK d : d = [NewDir(dir, desc, TRUE) EXCEPT !.core = s.dirs[at].core]
      OBVIOUS
    <3>4. t = [s EXCEPT !.dirs[at] = d]
      BY <2>1, <2>3, <3>1, <3>3 DEF DirectiveCreate
    <3>5. t.types = s.types /\ t.dirs = [s.dirs EXCEPT ![at] = d]
      BY <3>4
    <3>6. d.args = <<>>
      BY <3>3 DEF NewDir
    <3>7. DOMAIN d.args = {}
      BY <3>6
    <3> QED
      BY <1>4, <2>1, <3>2, <3>5, <3>7
  <2> QED
    BY <2>2, <2>3
<1>8. ASSUME DirIndex(s, dir) # {}
      PROVE  ThisDir(s, dir) \in DOMAIN s.dirs
  BY <1>8 DEF DirIndex, ThisDir
<1>9. ASSUME DirIndex(s, dir) # {}
      PROVE  Dangling(DirectiveOn(s, dir, on)) \subseteq Dangling(s)
  <2>1. PICK at : at = ThisDir(s, dir)
    OBVIOUS
  <2>2. at \in DOMAIN s.dirs
    BY <1>8, <1>9, <2>1
  <2>3. PICK t : t = DirectiveOn(s, dir, on)
    OBVIOUS
  <2>4. PICK d : d = [s.dirs[at] EXCEPT !.locs = Append(@, on)]
    OBVIOUS
  <2>5. t.types = s.types /\ t.dirs = [s.dirs EXCEPT ![at] = d]
    BY <2>1, <2>3, <2>4 DEF DirectiveOn
  <2>6. d.args = s.dirs[at].args
    BY <1>1, <2>2, <2>4
  <2> QED
    BY <1>4, <2>2, <2>3, <2>5, <2>6
<1>10. ASSUME DirIndex(s, dir) # {}
       PROVE  Dangling(DirArg(s, dir, name, type, dflt, desc))
                \subseteq Dangling(s)
  <2>1. PICK at : at = ThisDir(s, dir)
    OBVIOUS
  <2>2. at \in DOMAIN s.dirs
    BY <1>8, <1>10, <2>1
  <2>3. PICK t : t = DirArg(s, dir, name, type, dflt, desc)
    OBVIOUS
  <2>4. PICK a : a = Arg(name, type, dflt, desc)
    OBVIOUS
  <2>5. PICK d : d = [s.dirs[at] EXCEPT !.args = Append(@, a)]
    OBVIOUS
  <2>6. t.types = s.types /\ t.dirs = [s.dirs EXCEPT ![at] = d]
    BY <2>1, <2>3, <2>4, <2>5 DEF DirArg
  <2>7. PICK args : args = s.dirs[at].args
    OBVIOUS
  <2>8. args \in Seq(Argument) /\ d.args = Append(args, a)
    <3>1. PICK old : old = s.dirs[at]
      OBVIOUS
    <3>2. old \in DirRecords(Argument)
      BY <1>1, <2>2, <3>1, ItemLemma
    <3>3. d = [old EXCEPT !.args = Append(old.args, a)]
      BY <2>5, <3>1
    <3> QED
      BY <2>7, <3>1, <3>2, <3>3
  <2>9. a.type = type
    BY <2>4 DEF Arg
  <2>10. ASSUME NEW j \in DOMAIN d.args
         PROVE  \/ d.args[j].type \in Names
                \/ \E i \in DOMAIN s.dirs[at].args :
                       d.args[j].type = s.dirs[at].args[i].type
    <3>1. d.args[j] = a \/ (j \in DOMAIN args /\ d.args[j] = args[j])
      BY <2>8, <2>10
    <3> QED
      BY <2>7, <2>9, <3>1
  <2> QED
    BY <1>4, <2>2, <2>3, <2>6, <2>10
<1> QED
  BY <1>6, <1>7, <1>9, <1>10
=============================================================================
