------------------------------- MODULE MCGraphQL -------------------------------
(***************************************************************************)
(* Texts, documents, requests and a small Ruby program for GraphQL.        *)
(***************************************************************************)
EXTENDS GraphQLProps

\* The tokens of a text in which blanks separate them.
Words(text) ==
    LET blank(i) == SubSeq(text, i, i) = " "
        ends == {i \in 1 .. Len(text) : ~blank(i) /\ (i = Len(text) \/ blank(i + 1))}
        starts == {i \in 1 .. Len(text) : ~blank(i) /\ (i = 1 \/ blank(i - 1))}
        nth(S, k) == CHOOSE i \in S : Cardinality({j \in S : j <= i}) = k
    IN  [k \in 1 .. Cardinality(ends) |->
            SubSeq(text, nth(starts, k), nth(ends, k))]

----------------------------------------------------------------------------
(* Values.                                                                 *)

SmallIntsDef == {"0", "1", "2", "7"}
LongIntsDef == {"5000000000", "1577934245000000000"}
HugeIntsDef == {"99999999999999999999"}
FloatsDef == {"1.5", "1.23456789", "1.23457"}
RoundedDef == "1.23456789" :> "1.23457" @@ "1577934245" :> "1.57793e+09"
TruncatedDef == [v \in FloatsDef |-> "1"]
NanosDef == "2020-01-02T03:04:05.000000000Z" :> "1577934245000000000"
              @@ "1970-01-01T00:00:05.000000000Z" :> "5000000000"
SecondsDef == "2020-01-02T03:04:05.000000000Z" :> "1577934245"
                @@ "1970-01-01T00:00:05.000000000Z" :> "5"
TimeTextDef == [v \in {"2020-01-02T03:04:05Z"} |-> "2020-01-02T03:04:05.000000000Z"]
UuidsDef == {"123e4567-e89b-12d3-a456-426655440000"}
SpecialTextsDef == {"quo\"te"}

----------------------------------------------------------------------------
(* Texts for the schema.                                                   *)

SdlsDef == {
    Words("type A { b ( n : Int ) : B ! c : [ A ] @ deprecated ( reason : \"x\" ) }"),
    Words("\"about\" interface B { a : A s : S }"),
    Words("enum E { X Y @ deprecated } extend type A { e : E = X }"),
    Words("union U = A | C scalar S directive @ d ( k : Int ) on FIELD | ENUM"),
    Words("input I { n : Int = 1 l : [ String ] = [ \"a\" \"b\" ] o : I = { n : 2 } }"),
    Words("type A @ d ( k : 1 ) { x : Int }"),
    Words("type C implements B & A { a : A } type D { a : A b : } "),
    Words("type P { q : Q } type Q { p : P ! b :"),
    Words("type C { e : E } union U = C interface A { n : Int ! = 1 }"),
    Words("extend enum E { Z } extend type Boolean @ d"),
    Words("schema @ ruby ( class : \"Root\" ) { query : A }"),
    Words("input J { f : Float = 1.23456789 e : E = X m : [ E ] = [ X ] }"),
    Words("type D { n : N } interface N scalar S"),
    Words("\"quo\"te\" scalar S \"one\" enum E { \"two\" X }")}

----------------------------------------------------------------------------
(* The Ruby program and its schema.                                        *)

AppSdlsDef == {
    Words("type Query { artist ( name : String ! ) : Artist artists : [ Artist ! ]") \o
    Words("all : [ Artist ] pick ( n : Int at : Time f : Float on : Boolean ) : Artist") \o
    Words("find ( genre : Genre id : ID ) : [ Song ] genres : [ Genre ]") \o
    Words("named : Named }") \o
    Words("type Mutation { like ( artist : String ! n : Int ) : Artist }") \o
    Words("type Subscription { listen ( to : String ! ) : Artist }") \o
    Words("interface Named { name : String ! } union Found = Artist | Song") \o
    Words("input Filter { n : [ Int ! ] = [ 1 ] by : Genre = POP }") \o
    Words("type Artist implements Named @ ruby ( class : \"Artist\" ) { name : String ! songs : [ Song ]") \o
    Words("origin : [ String ] likes : Int old ( n : Int ) : Float @ deprecated }") \o
    Words("type Song @ ruby ( class : \"Song\" ) { name : String ! artist : Artist") \o
    Words("duration : Int release : Time genre : Genre log ( n : Int ) : String }") \o
    Words("enum Genre { POP ROCK @ deprecated ( reason : \"dull\" ) INDIE }")}

Band(n) == Rb("Artist", n)
Tune(n) == Rb("Song", n)
Txt(v) == Rb("String", v)
Whole(v) == Rb("Integer", v)
AppList(items) == Rb("Array", items)
Given1(args, name, other) == IF name \in DOMAIN args THEN args[name] ELSE other

ArityDef(ref, method) ==
    CASE ref.rb = "Root" /\ method \in {"query", "mutation", "subscription"} -> 0
      [] ref.rb = "Query" /\ method = "pick" -> 2
      [] ref.rb = "Query" /\ method \in {"all", "genres", "named"} -> 0
      [] ref.rb = "Query" /\ method = "find" -> -1
      [] ref.rb = "Query" /\ method \in {"artist", "artists"} -> 1
      [] ref.rb = "Mutation" /\ method = "like" -> 1
      [] ref.rb = "Subscription" /\ method = "listen" -> 1
      [] ref.rb = "Artist" /\ method \in {"name", "songs", "origin", "likes"} -> 0
      [] ref.rb = "Artist" /\ method = "old" -> 1
      [] ref.rb = "Song" /\ method \in {"name", "artist", "duration", "release",
                                        "genre"} -> 0
      [] ref.rb = "Song" /\ method = "log" -> 2
      [] OTHER -> NoMethod

\* Two artists, one of them with two songs.
AnswerDef(ref, method, args) ==
    CASE method = "query" -> Returns(Rb("Query", ""))
      [] method = "mutation" -> Returns(Rb("Mutation", ""))
      [] method = "subscription" -> Returns(Rb("Subscription", ""))
      [] ref.rb = "Song" /\ method = "artist" -> Returns(Band("f"))
      [] method \in {"artist", "like"} ->
           LET name == Given1(args, IF method = "artist" THEN "name" ELSE "artist",
                              Txt("x")).v
           IN  IF name = "gone" THEN Raises(404)
               ELSE IF name = "bad" THEN Raises(0)
               ELSE Returns(IF name \in {"f", "g"} THEN Band(name) ELSE Nil)
      [] method \in {"artists", "all"} -> Returns(AppList(<<Band("f"), Band("g")>>))
      [] method = "pick" -> Returns(Band(IF "n" \in DOMAIN args /\ args["n"].v = "1"
                                         THEN "f" ELSE "g"))
      [] method = "find" ->
           Returns(IF Given1(args, "genre", Txt("INDIE")).v = "INDIE"
                   THEN AppList(<<Tune("s1"), Tune("s2")>>) ELSE AppList(<<>>))
      [] method = "genres" -> Returns(Txt("POP"))
      [] method = "listen" -> Returns(Given1(args, "to", Nil))
      [] method = "name" -> Returns(Txt(IF ref.v = "g" THEN "quo\"te" ELSE ref.v))
      [] method = "songs" ->
           Returns(AppList(IF ref.v = "f" THEN <<Tune("s1"), Tune("s2")>> ELSE <<>>))
      [] method = "origin" ->
           Returns(AppList(IF ref.v = "f" THEN <<Txt("M"), Txt("A")>> ELSE <<>>))
      [] method = "likes" -> Returns(Whole(IF ref.v = "f" THEN "2" ELSE "5000000000"))
      [] method = "old" -> Returns(Rb("Float", "1.23456789"))
      [] method = "duration" ->
           Returns(IF ref.v = "s1" THEN Rb("Float", "1.5") ELSE Nil)
      [] method = "release" ->
           Returns(Rb("Time", "2020-01-02T03:04:05.000000000Z"))
      [] method = "genre" -> Returns(Txt("INDIE"))
      [] method = "log" -> Returns(Txt("logged"))
      [] OTHER -> Returns(Band("f"))

PartsOfDef(subject) ==
    CASE subject = "song.f" -> <<"song", "f">>
      [] subject = "song.*" -> <<"song", "*">>
      [] subject = "song.>" -> <<"song", ">">>
      [] OTHER -> <<subject>>

----------------------------------------------------------------------------
(* Documents and requests.                                                 *)

NoDocs == [d \in {} |-> <<>>]

DocTexts == [
    plain   |-> "{ artist ( name : \"f\" ) { name songs { name duration release artist { likes } } } }",
    alias   |-> "{ a : artist ( name : \"f\" ) { n : name } all { name old } b : artist ( name : \"g\" ) { name } c : artist ( name : \"x\" ) { name } }",
    vars    |-> "query one ( $ n : Int = 1 $ f : Float = 2 ) { pick ( n : $ n f : $ f ) { name } again : pick ( n : $ n ) { likes __typename } }",
    given   |-> "query ( $ who : String ) { artist ( name : $ who ) { name } }",
    named   |-> "query one { artist ( name : \"f\" ) { name } } query two { artist ( name : \"g\" ) { name } }",
    lists   |-> "{ artists { name origin songs { artist { name } } } find ( genre : INDIE ) { name genre duration } }",
    notlist |-> "{ genres }",
    scalars |-> "{ pick ( n : \"1\" at : \"2020-01-02T03:04:05Z\" f : 1 on : true ) { name } b : pick ( at : 5000000000 ) { name } }",
    moved   |-> "query ( $ at : String = \"2020-01-02T03:04:05Z\" ) { pick ( at : $ at ) { name } b : pick ( f : $ at ) { name } }",
    zero    |-> "{ pick ( n : \"0\" ) { name } }",
    big     |-> "{ pick { name likes } }",
    frags   |-> "query ( $ no : Boolean = true ) { artist ( name : \"f\" ) { ... who ... on Song { duration } ... @ skip ( if : $ no ) { likes } } } fragment who on Artist { name old ( n : 1 ) }",
    kept    |-> "{ artist ( name : \"f\" ) { ... @ include ( if : true ) { likes } ... who @ skip ( if : false ) name @ include ( if : true ) } } fragment who on Artist { origin }",
    spread  |-> "{ artist ( name : \"f\" ) { name ... who @ skip ( if : true ) } } fragment who on Artist { likes }",
    spaced  |-> "{ artist ( name : \"f\" ) @ include ( if : true ) { name } }",
    joined  |-> "{ artist ( name : \"f\" ) @ include ( if : true ){ name } }",
    opspace |-> "query @ include ( if : true ) { all { name } }",
    opjoin  |-> "query @ include ( if : true ){ all { name } }",
    frspace |-> "{ all { ... who } } fragment who on Artist @ skip ( if : true ) { name }",
    frjoin  |-> "{ all { name ... who } } fragment who on Artist @ skip ( if : true ){ likes }",
    below   |-> "{ artists { old ( n : \"1\" ) } }",
    face    |-> "{ named { name ... on Artist { old ( n : \"1\" ) } } }",
    fragvar |-> "query ( $ n : Int = 1 ) { artist ( name : \"f\" ) { ... who } } fragment who on Artist { old ( n : $ n ) }",
    missing |-> "{ artist ( name : \"gone\" ) { name } }",
    raises  |-> "{ artist ( name : \"bad\" ) { name } }",
    nofield |-> "{ artist ( name : \"f\" ) { name size } }",
    cut     |-> "{ artist ( name : \"f\" ) { name",
    empty   |-> "fragment f on Artist { name }",
    typo    |-> "{ artist ( name : \"f\" ) { ... on Artst { name } } }",
    logged  |-> "{ find ( id : \"7\" genre : INDIE ) { name log ( n : 1 ) } }",
    badid   |-> "{ find ( id : 7 ) { name } }",
    kinds   |-> "{ __schema { types { kind } queryType { name } mutationType { name } } }",
    type    |-> "{ __type ( name : \"Artist\" ) { name kind fields { name isDeprecated deprecationReason args { name type { name kind } } type { name kind ofType { name kind ofType { name kind } } } } } }",
    every   |-> "{ __type ( name : \"Artist\" ) { name fields ( includeDeprecated : true ) { name deprecationReason } } }",
    query   |-> "{ q : __type ( name : \"Query\" ) { fields { name args { name type { name kind ofType { name kind } } } } } }",
    union   |-> "{ __type ( name : \"Found\" ) { kind possibleTypes { name interfaces { name possibleTypes { name } } } } }",
    input   |-> "{ __type ( name : \"Filter\" ) { kind name inputFields { name defaultValue type { kind } } } }",
    notype  |-> "{ __type ( name : \"Fond\" ) { kind } }",
    enums   |-> "{ __type ( name : \"Genre\" ) { name enumValues ( includeDeprecated : true ) { name isDeprecated deprecationReason } inputFields { name } possibleTypes { name } } }",
    dirs    |-> "{ __schema { directives { name locations args { name defaultValue } } } }",
    after   |-> "{ __type ( name : \"Song\" ) { name } artist ( name : \"f\" ) { name } }",
    like    |-> "mutation { like ( artist : \"f\" n : 1 ) { name likes } }",
    twice   |-> "mutation m ( $ a : String = \"f\" ) { like ( artist : $ a ) { likes } b : like ( artist : $ a ) { name } }",
    listen  |-> "subscription { listen ( to : \"song.f\" ) { name likes } }",
    any     |-> "subscription ( $ to : String ) { listen ( to : $ to ) { name songs { name log } } }",
    deep    |-> "subscription s { listen ( to : \"song.>\" ) { n : name old ( n : \"1\" ) origin } }",
    nosub   |-> "subscription { __typename }",
    badsub  |-> "subscription { listen ( to : null ) { name } }"]

AppDocsDef == [d \in DOMAIN DocTexts |-> Words(DocTexts[d])]

OneVar(name, value) == <<"{", Quote(name), ":", value, "}">>

Subscriptions == {"listen", "any", "deep", "nosub", "badsub"}
Queries == DOMAIN DocTexts \ (Subscriptions \cup {"named", "given", "like", "raises"})

AppRequestsDef ==
    {Get("HTTP", d, None, None, NoVars) : d \in Queries}
      \cup {Get(con, None, d, None, NoVars) :
               con \in {"WS", "SSE"}, d \in {"listen", "deep"}}
      \cup {Get("HTTP", None, "listen", None, NoVars)}
      \cup {Get("WS", None, d, None, NoVars) : d \in {"nosub", "badsub"}}
      \cup {Get("WS", None, "any", None, OneVar("to", Quote(to))) :
               to \in {"song.*", "song.f"}}
      \cup {Get("HTTP", "named", None, op, NoVars) : op \in {None, "two", "three"}}
      \cup {Get("HTTP", "given", None, None, sent) :
               sent \in {NoVars, OneVar("who", Quote("g")), OneVar("who", "7"),
                         <<"[", "]">>, <<"{", Quote("who")>>}}
      \cup {Get("HTTP", None, None, None, NoVars)}
      \cup {Post("graphql", d, <<>>, None, NoVars) :
               d \in {"like", "twice", "raises", "missing", "listen", "cut"}}
      \cup {Post("text", "like", <<>>, None, NoVars)}
      \cup {Post("json", None, body, None, NoVars) : body \in {
               <<"{", Quote("query"), ":", Quote("like"), "}">>,
               <<"{", Quote("variables"), ":">> \o OneVar("who", Quote("f"))
                  \o <<",", Quote("query"), ":", Quote("given"), "}">>,
               <<"{", Quote("operationName"), ":", Quote("two"), ",",
                 Quote("query"), ":", Quote("named"), "}">>,
               <<"{", Quote("variables"), ":", "null", "}">>,
               <<"{", Quote("query"), ":", "7", "}">>,
               <<"[", "]">>}}

AppEventsDef ==
    [subject : {<<"song", "f">>, <<"song", "g">>, <<"song">>},
     ref : {Band("f"), Band("g")}]
      \cup {[subject |-> <<"song", "f">>, ref |-> Rb("Unknown", "")]}

SubConsSymmetry == Permutations(SubCons)
=============================================================================
