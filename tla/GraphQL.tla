-------------------------------- MODULE GraphQL --------------------------------
(***************************************************************************)
(* The GraphQL side of agoo as its callers see it: Agoo::GraphQL.schema    *)
(* and load (rgraphql.c), the GET and POST hooks (gqleval.c), and the      *)
(* subscriptions with the events published to them (server.c, gqlsub.c).   *)
(*                                                                         *)
(* Each action is one call or one request from its beginning to its end.   *)
(* The eval threads that run requests share the schema without a lock; how *)
(* their steps interleave is not part of this module.                      *)
(***************************************************************************)
EXTENDS GqlEval, Subject

CONSTANTS
    Sdls,        \* the texts that are loaded
    Docs,        \* the documents by name
    Requests,    \* the requests, as Get and Post make them
    Events,      \* the events that are published: a subject and an object
    SubCons,        \* the connections of subscriptions
    Errnos,      \* what errno may be when an evaluation begins
    MaxLoads, MaxRequests, MaxEvents \* bounds

VARIABLES
    phase,    \* "block" inside the block of schema, "serve", or "exited"
    schema,   \* the types and directives
    classes,  \* type_class_map
    subs,     \* the GraphQL subscriptions, latest first
    closed,   \* the connections that were closed
    reply,    \* the answer, when the last step was a request
    event,    \* the event and where it went, when the last step published one
    refused,  \* whether a load has failed
    loads, requests, events

vars == <<phase, schema, classes, subs, closed, reply, event, refused, loads,
          requests, events>>

None == "none"

\* Requests.  query and subscription are documents, op is the operationName
\* and variables the tokens of the JSON.
NoVars == <<>>
Get(con, query, subscription, op, variables) ==
    [verb |-> "GET", con |-> con, query |-> query,
     subscription |-> subscription, op |-> op, variables |-> variables]

\* The body is a document, or the tokens of the JSON.
Post(type, query, body, op, variables) ==
    [verb |-> "POST", con |-> "HTTP", type |-> type, query |-> query,
     body |-> body, op |-> op, variables |-> variables]

\* Answers.  made is the evaluation behind one, doc its document.
NoDoc == GqlDocCreate(<<>>)
NoOp == Op(NoName, None)
NoReply == [status |-> 0, kind |-> None, v |-> Null, doc |-> NoDoc, op |-> NoOp,
            calls |-> <<>>, to |-> [verb |-> None], upgrade |-> FALSE]
NoEvent == [subject |-> <<>>, ref |-> Nil, sent |-> <<>>, raised |-> FALSE]

----------------------------------------------------------------------------
(* The schema.                                                             *)

\* The beginning of graphql_schema.
RubyDirective(s) ==
    LET made == DirectiveCreate(s, "ruby", "ruby_directive")
        arg == DirArg(AssureNonNull(made, "String"), "ruby", "class",
                      "String!", NoValue, NoDesc)
    IN  DirectiveOn(DirectiveOn(arg, "ruby", "SCHEMA"), "ruby", "OBJECT")

RubyUse(class) == DirUseArg(DirUse("ruby"), "class", Scalar("String", class))

\* make_ruby_use.
MakeRubyUse(s, method, type, fresh) ==
    LET answer == Answer(Root, method, <<>>)
        there == Arity(Root, method) \in {0, 1, 2} /\ answer.v # Nil
        field == IF fresh THEN TypeField(s, RootType, method, type, NoValue,
                                         "root_level_" \o method)
                 ELSE s
    IN  CASE ~s.ok \/ ~there -> s
          [] ~TypeGet(s, type) -> Failed(s)
          [] HasUse(s.types[type].dir, "ruby") -> field
          [] OTHER -> TypeDirectiveUse(field, type, RubyUse(answer.v.rb))

\* The end of graphql_schema.
FinishSchema(s) ==
    LET fresh == ~TypeGet(s, RootType)
        made == IF fresh THEN TypeCreate(s, "SCHEMA", RootType, "root_object") ELSE s
        used == TypeDirectiveUse(made, RootType, RubyUse(Root.rb))
    IN  MakeRubyUse(MakeRubyUse(MakeRubyUse(used, "query", "Query", fresh),
                                "mutation", "Mutation", fresh),
                    "subscription", "Subscription", fresh)

\* build_type_class_map: the last class argument of a use.
UseClass(use) == Last(SelectSeq(use.args, LAMBDA a : a.k = "class")).v.v

BuildTypeClassMap(s) ==
    LET uses(n) == SelectSeq(s.types[n].dir, LAMBDA u : u.dir = "ruby")
        named(n) == {UseClass(uses(n)[k]) : k \in DOMAIN uses(n)}
        ruby == {n \in DOMAIN s.types : uses(n) # <<>>}
    IN  [c \in UNION {named(n) : n \in ruby} |->
            CHOOSE n \in ruby : c \in named(n)]

\* Types that were freed while others refer to them.
Torn == Dangling(schema) # {}

Init ==
    /\ phase = "block"
    /\ schema = RubyDirective(GqlInit)
    /\ classes = <<>>
    /\ subs = <<>>
    /\ closed = {}
    /\ reply = NoReply
    /\ event = NoEvent
    /\ refused = FALSE
    /\ loads = 0 /\ requests = 0 /\ events = 0

\* GraphQL.load.  What it raises ends the program unless the block rescues it.
\* Adding to a list that was never set may end it too.
Load(text, rescued) ==
    /\ phase = "block" /\ ~Torn
    /\ loads < MaxLoads
    /\ \E made \in {SdlParse(schema, text)} :
          /\ schema' = [made EXCEPT !.ok = TRUE]
          /\ \/ phase' = IF made.ok \/ rescued THEN phase ELSE "exited"
             \/ ~(Filled(made) \subseteq Filled(schema)) /\ phase' = "exited"
          /\ refused' = (refused \/ ~made.ok)
    /\ loads' = loads + 1
    /\ UNCHANGED <<classes, subs, closed, reply, event, requests, events>>

\* The block of GraphQL.schema has ended.
Finish ==
    LET made == FinishSchema(schema)
    IN  /\ phase = "block" /\ ~Torn
        /\ schema' = [made EXCEPT !.ok = TRUE]
        /\ phase' = IF made.ok THEN "serve" ELSE "exited"
        /\ classes' = IF made.ok THEN BuildTypeClassMap(made) ELSE classes
        /\ UNCHANGED <<subs, closed, reply, event, refused, loads, requests,
                       events>>

----------------------------------------------------------------------------
(* Requests.                                                               *)

\* The variables of a JSON object, the last one first.
VarsOf(object) ==
    Reverse([k \in DOMAIN object.mem |->
                Var(object.mem[k].k, object.mem[k].v.t, object.mem[k].v)])

\* parse_query_vars.
ParseQueryVars(variables) ==
    LET read == JsonParse(variables)
    IN  CASE variables = NoVars -> [ok |-> TRUE, v |-> <<>>]
          [] variables # NoVars /\ read.s.ok /\ IsObject(read.v) ->
               [ok |-> TRUE, v |-> VarsOf(read.v)]
          [] OTHER -> [ok |-> FALSE, v |-> <<>>]

\* set_doc_op: the first operation when none is named.  The document keeps what
\* malloc left in its op when the name is not found.
Unset == Op(NoName, "unset")
DocOp(doc, name) ==
    LET k == PartNamed(doc.ops, name)
    IN  CASE name = None -> IF doc.ops = <<>> THEN NoOp ELSE doc.ops[1]
          [] name # None /\ k # 0 -> doc.ops[k]
          [] OTHER -> Unset

\* What the hooks come to: the schema after it, the status, "data", "errors",
\* "upgrade" or "wild", the value and the evaluation.
Outcome(s, status, kind, v) ==
    [s |-> s, status |-> status, kind |-> kind, v |-> v, doc |-> NoDoc,
     op |-> NoOp, e |-> Evaluation(s, NoDoc, NoOp, classes, FALSE)]

Errors(s, status) == Outcome(s, status, "errors", Null)
Wilds(s) == Outcome(s, 0, "wild", Null)

\* What came of the operation op of a document.
OutcomeOf(read, op, made, failed) ==
    LET status == IF made.s.code > 0 THEN made.s.code ELSE failed
        o == CASE made.s.wild -> Wilds(read.s)
               [] ~made.s.wild /\ ~made.s.ok -> Errors(read.s, status)
               [] OTHER -> Outcome(read.s, 200, "data", made.v)
    IN  [o EXCEPT !.doc = read.v, !.op = op, !.e = made.s]

\* A document that was read is evaluated.  failed is the status of an error.
Evaluated(read, name, errno, failed) ==
    LET op == DocOp(read.v, name)
        start == Evaluation(read.s, read.v, op, classes, errno)
    IN  CASE read.s.wild -> Wilds(read.s)
          [] ~read.s.wild /\ ~read.s.ok -> Errors(read.s, failed)
          [] op = Unset -> Wilds(read.s)
          [] op = NoOp -> Errors(read.s, failed)
          [] OTHER -> OutcomeOf(read, op, GqlDocEval(start, op), failed)

\* The part of gql_eval_get_hook that is about subscriptions.
Subscribed(o, con) ==
    LET subject == ObjectGet(o.v, "subject")
    IN  CASE con = "HTTP" -> [o EXCEPT !.status = 426, !.kind = "errors"]
          [] con # "HTTP" /\ subject = Scalar("none", "") ->
               [o EXCEPT !.status = 400, !.kind = "errors"]
          [] OTHER -> [o EXCEPT !.kind = "upgrade",
                                !.status = IF con = "WS" THEN 101 ELSE 200]

\* gql_eval_get_hook.
AsGet(o, con) ==
    IF o.kind = "data" /\ o.op.kind = "subscription" THEN Subscribed(o, con) ELSE o

GetOutcome(r, errno) ==
    LET given == ParseQueryVars(r.variables)
        text == IF r.query # None THEN r.query ELSE r.subscription
        default == IF r.query # None THEN "query" ELSE "subscription"
    IN  CASE text = None -> Errors(schema, 500)
          [] text # None /\ ~given.ok -> Errors(schema, 400)
          [] OTHER -> AsGet(Evaluated(SdlParseDoc(schema, Docs[text], given.v,
                                                  default),
                                      r.op, errno, 500),
                            r.con)

\* The members of a JSON body, one after the other.
JsonBody(r, given) ==
    LET body == JsonParse(r.body)
        member(acc, m) ==
            CASE m.k \in {"query", "operationName"} /\ m.v.t # "String" ->
                   [acc EXCEPT !.ok = FALSE]
              [] m.k = "query" -> [acc EXCEPT !.query = m.v.v]
              [] m.k = "operationName" -> [acc EXCEPT !.op = m.v.v]
              [] m.k = "variables" /\ IsObject(m.v) ->
                   [acc EXCEPT !.vars = VarsOf(m.v) \o @]
              [] m.k = "variables" /\ ~IsObject(m.v) ->
                   [acc EXCEPT !.ok = m.v = Null]
              [] OTHER -> acc
        start == [ok |-> body.s.ok /\ IsObject(body.v), query |-> None,
                  op |-> r.op, vars |-> given]
    IN  IF ~start.ok THEN start
        ELSE FoldLeft(LAMBDA acc, m : IF acc.ok THEN member(acc, m) ELSE acc,
                      start, body.v.mem)

\* eval_post and gql_eval_post_hook.  What a subscription returns is dropped,
\* and no result without an error is answered like an upgrade.  A JSON without
\* a query is read at NULL.
AsPost(o) ==
    LET dropped == \/ o.kind = "data" /\ o.op.kind = "subscription"
                   \/ o.kind = "errors" /\ o.e.code = 0
    IN  IF dropped THEN [o EXCEPT !.kind = "upgrade", !.status = 200] ELSE o

PostBody(r, given) ==
    IF r.type = "graphql"
    THEN [ok |-> TRUE, query |-> r.query, op |-> r.op, vars |-> given]
    ELSE JsonBody(r, given)

PostOutcome(r, errno) ==
    LET given == ParseQueryVars(r.variables)
        of(body) ==
            CASE ~body.ok -> Errors(schema, 400)
              [] body.ok /\ body.query = None -> Wilds(schema)
              [] OTHER -> AsPost(Evaluated(SdlParseDoc(schema, Docs[body.query],
                                                       body.vars, "query"),
                                           body.op, errno, 400))
    IN  IF ~given.ok \/ r.type \notin {"graphql", "json"}
        THEN Errors(schema, 400) ELSE of(PostBody(r, given.v))

Kept(s) == [types |-> s.types, dirs |-> s.dirs, ok |-> TRUE]

\* value_resp or err_resp: one message.
Answered(r, o, upgrade) ==
    /\ schema' = Kept(o.s)
    /\ reply' = [status |-> o.status, kind |-> o.kind, v |-> o.v, doc |-> o.doc,
                 op |-> o.op, calls |-> o.e.calls, to |-> r, upgrade |-> upgrade]
    /\ phase' = IF o.kind = "wild" THEN "exited" ELSE phase
    /\ requests' = requests + 1
    /\ event' = NoEvent
    /\ UNCHANGED <<classes, closed, refused, loads, events>>

\* The requests that may come.
Coming ==
    IF phase = "serve" /\ ~Torn /\ requests < MaxRequests THEN Requests ELSE {}

\* gql_eval_get_hook for all but a subscription that is accepted.
GetRequest(r, errno) ==
    /\ r.verb = "GET"
    /\ \E o \in {GetOutcome(r, errno)} :
          /\ o.kind # "upgrade"
          /\ Answered(r, o, FALSE)
    /\ UNCHANGED subs

\* gql_sub_create and agoo_server_add_gsub: the document and the values of its
\* variables are kept, and will be evaluated as those of a query.
GetSubscription(r, errno, c) ==
    /\ r.verb = "GET" /\ r.con # "HTTP"
    /\ c \notin closed /\ \A k \in DOMAIN subs : subs[k].con # c
    /\ \E o \in {GetOutcome(r, errno)} :
          /\ o.kind = "upgrade"
          /\ subs' = <<[con |-> c, subject |-> ObjectGet(o.v, "subject").v,
                        doc |-> o.doc, vars |-> o.e.vars]>> \o subs
          /\ Answered(r, o, TRUE)

PostRequest(r, errno) ==
    /\ r.verb = "POST"
    /\ Answered(r, PostOutcome(r, errno), FALSE)
    /\ UNCHANGED subs

----------------------------------------------------------------------------
(* Events.                                                                 *)

CONSTANT PartsOf(_) \* the parts of a subject that a Ruby method returns

\* gpub_eval: what the first selection of the first operation selects, of the
\* event.  By now the request of the subscription is gone.
GpubEval(sub, ref, errno) ==
    LET e == [Evaluation(schema, sub.doc, NoOp, classes, errno) EXCEPT
                 !.vars = sub.vars, !.kind = "query", !.req = "gone"]
        sel == sub.doc.ops[1].sels[1]
    IN  IF sub.doc.ops = <<>> \/ sub.doc.ops[1].sels = <<>> THEN Error(e)
        ELSE EvalSels(e, ref, Field(NoName, sel.type, NoValue, NoDesc),
                      sel.sels, Object(<<>>), 0)

\* Defect: only the subscription made last is looked at.
GpublishLatest(subject, ref, errno) ==
    LET put(made) ==
            [subs |-> subs, failed |-> ~made.s.ok, wild |-> made.s.wild,
             sent |-> IF made.s.ok /\ ~made.s.wild
                      THEN <<[con |-> subs[1].con, v |-> made.v]>> ELSE <<>>]
    IN  IF subs # <<>> /\ SubjectCheck(PartsOf(subs[1].subject), subject)
        THEN put(GpubEval(subs[1], ref, errno))
        ELSE [subs |-> subs, failed |-> FALSE, wild |-> FALSE, sent |-> <<>>]

\* agoo_server_gpublish: the first that fails ends it.
Gpublish(subject, ref, errno) ==
    LET put(acc, k, made) ==
            CASE made.s.wild -> [acc EXCEPT !.failed = TRUE, !.wild = TRUE]
              [] ~made.s.wild /\ ~made.s.ok ->
                   [acc EXCEPT !.failed = TRUE, !.subs[k].vars = made.s.vars]
              [] OTHER ->
                   [acc EXCEPT !.sent = Append(@, [con |-> subs[k].con,
                                                   v |-> made.v]),
                               !.subs[k].vars = made.s.vars]
        one(acc, k) ==
            IF acc.failed \/ ~SubjectCheck(PartsOf(subs[k].subject), subject)
            THEN acc ELSE put(acc, k, GpubEval(acc.subs[k], ref, errno))
    IN  FoldLeft(one, [subs |-> subs, sent |-> <<>>, failed |-> FALSE,
                       wild |-> FALSE],
                 [k \in DOMAIN subs |-> k])

\* An event of a class without a type is refused.
Publish(subject, ref, errno) ==
    LET none == [subs |-> subs, sent |-> <<>>, failed |-> TRUE, wild |-> FALSE]
    IN  /\ phase = "serve" /\ ~Torn
        /\ events < MaxEvents
        /\ \E made \in {IF RefType([classes |-> classes], ref) = NoType THEN none
                        ELSE Gpublish(subject, ref, errno)} :
              /\ subs' = made.subs
              /\ event' = [subject |-> subject, ref |-> ref, sent |-> made.sent,
                           raised |-> made.failed]
              /\ phase' = IF made.wild THEN "exited" ELSE phase
        /\ events' = events + 1
        /\ reply' = NoReply
        /\ UNCHANGED <<schema, classes, closed, refused, loads, requests>>

\* agoo_con_destroy: agoo_server_del_gsub and gql_sub_destroy.
Close(c) ==
    /\ phase = "serve"
    /\ \E k \in DOMAIN subs : subs[k].con = c
    /\ subs' = SelectSeq(subs, LAMBDA sub : sub.con # c)
    /\ closed' = closed \cup {c}
    /\ reply' = NoReply
    /\ event' = NoEvent
    /\ UNCHANGED <<phase, schema, classes, refused, loads, requests, events>>

Next ==
    \/ \E text \in Sdls, rescued \in BOOLEAN : Load(text, rescued)
    \/ Finish
    \/ \E r \in Coming, errno \in Errnos : GetRequest(r, errno)
    \/ \E r \in Coming, errno \in Errnos, c \in SubCons :
           GetSubscription(r, errno, c)
    \/ \E r \in Coming, errno \in Errnos : PostRequest(r, errno)
    \/ \E ev \in Events, errno \in Errnos : Publish(ev.subject, ev.ref, errno)
    \/ \E c \in SubCons : Close(c)

Spec == Init /\ [][Next]_vars
=============================================================================
