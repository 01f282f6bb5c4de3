# A TLA+ development of agoo

agoo is a web server for Ruby written in C (`src/ext/agoo`).  It serves HTTP,
WebSocket, Server-Sent Events and GraphQL, and calls Ruby handlers from a pool
of threads.  This directory holds TLA+ models of its core, the TLC runs that
check them, and TLAPS proofs, for every value of the constants, of what the
queue between the threads, the HTTP connections, the shutdown of the server, the
logger and the table of GraphQL types promise.
`PROJECT.json` maps every definition to the lines it models and lists the runs,
the hazards and the theorems; this file says how the pieces fit.

## 1. The system

### Threads and queues

```
 listen thread --con_queue--> connection loops --eval_queue--> eval threads
 (server.c:108)               (con.c:1345)                     (rserver.c:785)
                              ^        ^  |                         |
                  pub_queue --+        |  +-- socket                |
                  (per loop)           +-- response record <--------+
                        ^                  (text pushed, wakeup)    |
                        +---------- agoo_server_publish <-----------+
                                    (Ruby: write, close, publish, ...)
 any thread --ring--> log thread --> files   (log.c)
```

* The **listen thread** accepts connections and pushes them on `con_queue`
  (1024 slots, one pusher, many poppers).
* Each **connection loop** pops connections, reads requests, writes responses,
  and processes the publications of its own `pub_queue` (256 slots, many
  pushers, one popper).  It waits in `epoll_wait` on its sockets and on the
  pipes of both queues.
* The **eval threads** pop requests from `eval_queue` (1024 slots, many
  pushers, many poppers), call the Ruby handler with the GVL, and push the text
  of the response onto the response record the loop has put in the list of the
  connection.
* **Ruby code** calls methods of a client object (`write`, `close`,
  `subscribe`, ...), which become publications pushed to every loop.
* The **log thread** writes the entries all other threads put on a ring.

### Inventory

| component | state | operations | what makes it correct |
|---|---|---|---|
| queue (`queue.c`) | ring, `head`, `tail`, spin flags, `wait_state`, pipe | push, pop, listen, release, wakeup | first-in first-out, nothing lost or duplicated, no lost wakeup for ever |
| HTTP connection (`con.c`) | list of response records, `wcnt`, `closing`, `dead` | read, write, check, destroy | responses in the order of the requests, whole, once; a record belongs to one request |
| responses (`res.c`) | texts, `final`, `close`, cache of the loop | create, push, next, destroy | as above |
| upgraded connection (`upgraded.c`, `rupgraded.c`, `pub.c`, `websocket.c`, `sse.c`) | `ref_cnt`, `pending`, subjects, `up_list` | calls of the client, publications, callbacks | not freed while held, freed in the end; messages in order; `on_close` once, and after the close |
| eval threads (`rserver.c`, `hook.c`, `rhook.c`) | the request in hand | base, rack, WAB and push handlers | each request is answered once, also when the handler raises |
| server (`server.c`, `agoo.c`) | `active`, `running`, loops, binds, hooks | start, shutdown, publish | threads stop before what they use is freed |
| log (`log.c`, `rlog.c`) | ring, `done`, file, size | log, rotate, flush, close | entries in order and complete, rotation keeps `max_files` |
| ready loop (`ready.c`) | links, epoll set | add, go | every connection is polled for what it waits for, checked each half second |
| pages (`page.c`) | hash of cached files, MIME types, header rules | get, refresh, remove | a page is current to a second, never used after it is freed |
| subjects and hooks (`subject.c`, `hook.c`) | patterns | match | a pattern matches what its documentation says |
| GraphQL schema (`graphql.c`, `sdl.c`, `doc.c`, `gqlvalue.c`) | the table of types, the list of directives, flags | load, extend, refer, dump | a definition stays, a failed load leaves nothing behind that is used, a dump loads again |
| GraphQL requests (`gqleval.c`, `sdl.c`, `rgraphql.c`, `gqlintro.c`, `gqljson.c`) | the document, its variables, the resolver, errno | parse, check, evaluate, introspect, answer | an answer has the fields selected with what Ruby returned for the arguments given, and is JSON |
| GraphQL subscriptions (`gqlsub.c`, `server.c`) | list of subscriptions, each with its document | subscribe, publish, close | an event goes once to each connection whose pattern matches |
| binds, domains, HTTP tables, request and response objects, logger adapters, utilities, `lib/`, `bin/` | configuration and strings | parse, look up, convert | mostly library calls |

### What is hard

1. Eval threads push to a response record while its loop looks at it, removes
   it, or recycles it (`con.c:724`, `con.c:1147`).
2. A publication meets the end of its connection in any of several threads
   (`con.c:1034-1101`), and the reference count decides who frees the record.
3. Callbacks (`on_close`, `on_error`, `on_drained`) are asked for from three
   places (`con.c:95`, `con.c:870-926`, `con.c:1042`).
4. The queues spin when full, in threads that also empty other queues.
5. Wakeups through a pipe whose flag is checked without a lock
   (`queue.c:99`, `log.c:539`).
6. Short sends, full sockets and timeouts on pipelined connections.
7. Flush, rotation and shutdown of the log while others write to it.
8. Shutdown of the server, which gives up waiting after a second.
9. GraphQL types that are referred to before they are defined, and texts that
   fail half way through a definition (`sdl.c:819`).
10. Values of a document that are converted in place and used again by the next
   object, event or request (`rgraphql.c:485`), and a resolver that is switched
   in the middle of a document (`gqlintro.c:1518`).

The full list, each at its line, is `hazards` in `PROJECT.json`.

## 2. The plan

Modules in the order they are built; 1 to 6 are done.

1. `BoundedFifo` (abstract), `AgooQueue` (refines it), `AgooQueueProofs`: all
   threads depend on the queue.
2. `HttpCon`: the HTTP connections of a loop with the eval threads.
3. `Upgraded`: WebSocket and SSE connections, clients, publications, callbacks.
4. `Log`: the logger.
5. `Server`: start, signals and shutdown, and the loops and eval threads over
   bounded queues (the deadlock of full queues).
6. `GqlSchema`, `GqlValue`, `GqlSdl`, `GqlDoc`, `GqlEval`, `Subject`, `GraphQL`
   and `GraphQLProps`: GraphQL from the table of types to the answers and the
   events, with the matching of subjects.

Left: the forked workers; partial sends of upgraded connections; the page cache
(lookup, refresh and removal by several loops); the header scan, chunked bodies,
percent decoding, hook paths and WebSocket framing as pure algorithms; GraphQL
requests parsed by several eval threads at once.

Theorems: the queue and its refinement; that a response record is in one place
and belongs to one request, and that responses go out in order (`HttpCon`); that
the shutdown of the server waits for the threads and frees nothing they use
(`Server`); that the log files hold what was logged without a gap (`Log`); that
an operation on the GraphQL table of types keeps its definitions.  These are
done, and so are the counts of references of an upgraded record, its pending
count, and that the messages of its connection go out as they were written
(`Upgraded`), see section 5.

## 3. The modules

### BoundedFifo, AgooQueue

`AgooQueue` models `queue.c` one atomic access at a time: each thread has a
place (`ppc`, `cpc`) and each action is the code between two shared accesses.
`MultiPush` and `MultiPop` are the flags `agoo_queue_multi_init` is given; when
they are false the code takes no lock and the model allows one thread there.
`Loops` are the consumers that, like the connection loops, listen once, pop
without waiting and wait in `epoll_wait`; the others wait in `poll` inside
`agoo_queue_pop`.  The pipe that wakes a loop is made in one step: the code
takes no lock around it (`queue.c:179-190`), so that two loops that start
together may each make one, and the loop whose pipe is lost wakes only by its
timeout, on which delivery relies anyway.  Items are pairs of a producer and a
number, so that no two are equal.

`BoundedFifo` is what the callers rely on: a sequence with a capacity, and a
hand for each consumer.  `AgooQueue!ImplementsFifo` states the refinement, with
`Buffered` as the sequence read off the ring and `Held` as what the consumers
have taken.  A pop takes effect when `head` moves, before the slot is read.

### HttpCon

One connection loop with its connections, the cache of response records, and the
eval threads as one job per request.  A handler of the loop is one action unless
an eval thread can act on what it does halfway: the read handler hands requests
over one by one (`ReadRequest`), and the write handler looks at `final` (`Sent`)
after it took the next text (`Send`).  A handler that raises sets `close`
(`Raise`) and pushes the error page (`RaisePush`): the loop holds no GVL and can
look at the record between the two (`rserver.c:381-382`).  A text is `TextLen`
units, and `Send` has `send()` take any number of them.  Records are numbered
and recycled through `cache` as in `res.c`.

### Upgraded

The record behind a WebSocket or SSE connection: its count of references, its
pending count, whether it is subscribed (to the one subject there is), the list
`up_list`, the queues of publications of the loops, the callbacks in the eval
queue, and the list of responses of each connection.  Ruby calls respect the
GVL: a call under way excludes others, except that `write()` may give the GVL up
while it converts its argument.  `Env` is the client method `env`, which takes a
reference and never gives it back (`rupgraded.c:286-294`), and `WriteRaises` a
`write()` whose argument has a `to_s` that raises, which leaves its reference
too (`rupgraded.c:71-86`).  A loop that looks at a record of another loop does
so in two steps (`PubForeign`, `PubSeen`), and the walk over `up_list`
(`PubWalk`, `PubVisit`) visits one record at a time, as neither takes a lock.
`fault` records that freed or null memory was used; the model stops there, as
the process may.

### Log

The ring (a sequence with room for `Size - 1`), the spin lock, the log thread
with the entry in its hand, the current file with what stdio buffers, the
archived files, and `flush` and `shutdown` step by step.  Sizes are counted in
entries.

### Server

The threads and what they share while the server starts, works and goes down.
Each thread is at one place of the function it runs (`at`); the flags and the
count of `agoo_server` are in `srv`, with the configuration (`pool`, the eval
threads; an empty pool makes the main thread evaluate) and with what a shutdown
has freed.  A use of what was freed sets `wild`.  The queues are counts with
their capacity; what the requests and publications are does not matter here,
what does is who waits for room or for the GVL while holding what.  The
shutdown is one sequence of places (`ShutdownSteps`) that any Ruby thread may
be in: the one whose code calls it, or the eval thread that sees `agoo_stop`.
A process that ends takes its threads with it (`Gone`).

Time is a condition: a wait of the shutdown ends when the count is zero or when
every thread is stuck (`TimeUp`, `Held`).  With `Slow = FALSE` this says that a
thread which nothing holds ends within the second the shutdown waits; the waits
in the code are at most 200 ms (`server.c:123`).  `Slow = TRUE` lets any thread
take longer.

### GraphQL

`GqlSchema` is the table of types and the list of directives of `graphql.c`:
each operator is one function of that file (`TypeCreate`, `AssureType`,
`TypeDestroy`, `UnionAdd`, `DirectiveOn`, ...) on a schema record, whose `ok`
goes FALSE where the code sets `err`.  A pointer to a type is its name, so
`Dangling` tells when a name is used that no longer has its record.  `GqlInit`
is what `gql_value_init` and `gql_intro_init` put in the table.

`GqlValue` holds the values: how each prints as JSON and as SDL, the
conversions of `gql_value_convert`, and the JSON parser.  `GqlSdl` has the
parser of schema texts and the printers of a dump; `GqlDoc` the parser and the
checks of executable documents (`validate_doc`) and their printer.  Texts are
sequences of tokens: what `agoo_doc_read_token` and its kin return is one
element, and white space, commas and comments are gone.  Between any two tokens
there is a blank; only the pair `){`, which the code reads otherwise without
one, has a token of its own (`Joined`).  A parser is a record with the tokens,
the place (`i`), `ok` and the schema it changes.  `Then`, `After` and `On` go on
from one unless it failed, the way the code tests each call; the operators have
the names of the functions of `sdl.c` in mixed case and do what those do in
their order, errors and what is freed on an error included.

`GqlEval` evaluates: `EvalSels` is `gql_eval_sels`, `RubyResolve` is `resolve`
of `rgraphql.c` with `Coerce` for what comes back and `Given` for the arguments,
and `IntroEval` with the `...Method` operators is `gqlintro.c`; `Unless` is the
test after each call.  Ruby is a
parameter: `Arity` and `Answer` say for an object and a method what it takes and
returns or raises.  Where the code follows a pointer that does not mean what it
should, the evaluation is `Wild` and nothing is said of the answer.

`Subject` is `agoo_subject_check`.  `GraphQL` has the state machine: the loads
in the block of `Agoo::GraphQL.schema` (`Load`, `Finish`), then GET and POST
requests (`GetRequest`, `PostRequest`), subscriptions (`GetSubscription`),
publications (`Publish`) and connections that close (`Close`).  One call or one
request is one action, as the eval thread runs it from beginning to end; what
two of them do to each other inside is outside these modules.  `GraphQLProps`
states what is promised: `Expected` says what an answer is from the schema, the
document and the Ruby objects alone, without the order of evaluation, the
conversions in place or the resolvers.

What the code does that a reader would not expect is in the model as it is in
the code, and the properties say where they stop because of it:

* *Types.*  Extending a type that was only referred to adds to a list that was
  never set (`graphql.c:361-380`, read at 540): the process may end there
  (`Filled`), or the list happens to be empty; what else the memory may hold is
  not modelled.  A dump leaves such fields out, and a later definition starts
  its parts anew (`graphql.c:403-411`, `503-511`).  An interface without a body
  is destroyed and its load accepted (`sdl.c:642-683`), even when another type
  refers to it: `AcceptedIsWhole` names it as its exception (`Bodiless`).  A
  name in a fragment of a request that is no type is added to the table for
  good, and then `{__schema{types{kind}}}` is an error.
* *Texts.*  A description before an enum value, and an empty string, take the
  rest of the text.  A default of a field argument never parses, and one after
  `!` is not read.  A dump prints directives with several arguments, unions
  without members and directives that were only used in ways that do not load
  again (`DumpableType`).  The name of a non-null type is `String!` in an
  introspection; the default of a list or an object makes it an error;
  `possibleTypes` of an interface is empty, as `has_interface` compares a type
  with itself (`gqlintro.c:1045-1055`).
* *Values.*  A variable prints as `%name` (`gqlvalue.c:149`).  A list of enum
  values or of non-null objects is not looked up, `[T]!` is not a list, null for
  a nullable Int is an error, and so is nil for an object with selections;
  a non-null field may be null.  `errno` is not cleared before `strtol`
  (`gqlvalue.c:1341`), so "0" converts or not by what failed before.  The
  arguments of a field are not converted below a field of a non-null type or of
  a union, nor where only the class of the object has the field and the
  interface of its place has not (`graphql.c:1677-1703`), and a variable in a
  fragment is not looked up: `ArgsTyped` holds for the other documents
  (`LooksUpDoc`).  A list with a character that starts no value is read for
  ever (`doc.c:331-474`): no text has one.
* *Documents.*  `@skip` and `@include` are ignored on fields, on spreads and on
  inline fragments with a type; `Expected` leaves such selections out, and
  `AnswersAsSpecified` holds for the documents in which none is to be left out
  (`Plain`).  After a directive with arguments the code does not skip the blank
  before `{` (`sdl.c:162-168`, 1328, 1455, 1535), which is what its own printer
  writes: the document is an error, and `DocDumpLoads` excepts what would be
  printed so (`NoneAfterDoc`).  A declared default hides what the request sends,
  and a declared variable without a value is a parse error.  An unknown `operationName` leaves the operation
  uninitialised (`gqleval.c:414`), a JSON body without a query is a null
  document, and the answers to both are `Wild`.  After an introspection the rest
  of the document is answered by its resolver (`gqlintro.c:1518`).
* *Events.*  A POST of a subscription, and an exception with code 0, are
  answered like an upgrade.  The subscription is evaluated before its
  connection is looked at (426).  The document of a subscription keeps `req` and
  `ctx` of a request that is gone.  A publication uses the first operation and
  its first selection, stops at the first subscription that fails, and calls
  Ruby with `up_lock` held (`server.c:474`).  `*` before the end of a pattern
  matches nothing (`subject.c:34`), against `rupgraded.c:98-101`.

## 4. The runs

| run | what it checks | bounds |
|---|---|---|
| `eval_queue` | ownership of slots, the inductive invariant (types included), refinement of `BoundedFifo` | 2 pushers of 2 items, 2 poppers, 4 slots (3 items fill it, 4 wrap it) |
| `con_queue` | return of pushes and delivery to loops in `epoll_wait` | 1 pusher of 4 items, 2 loops, 4 slots |
| `http_order` | records are owned and in one place; order and wholeness of responses; dead connections go | 2 connections, 2 requests each, 2 units a text |
| `http_close` | answers up to `Connection: Close`, then the close | 1 connection, 3 requests, 1 hint, pages and bad requests, all faults |
| `up_refs` | reference and pending counts, messages in the order of the calls | 1 WebSocket, 2 loops, 2 Ruby threads, 3 calls, `env` among them, all faults |
| `up_life` | the exact count, reclamation, `on_close`, `close`, `write` | 1 WebSocket, 1 loop, 2 Ruby threads, 2 eval threads |
| `log` | order and completeness of the files, shutdown flushes, logging returns, entries are written | 2 writers of 3 entries each, 2 entries a file, 1 archive |
| `server_end` | the count of running threads, no use of what the shutdown freed | 2 loops, 0 to 2 eval threads, 2 requests, 1 publication, queues of 1, five ways to end |
| `server_live` | every request is answered, every way to end it ends the process | 1 loop, 0 or 2 eval threads, 2 requests, 1 publication, queues of 1 |
| `gql_schema` | definitions stay, accepted schemas are whole, dumps load again | every sequence of up to 3 of 14 texts, right and wrong ones |
| `gql_serve` | answers, arguments, JSON, introspection, events, printed documents | 1 schema of 11 types with a Ruby program, 2 of about 70 requests, 2 of 7 events, 2 connections (symmetric), errno set or clear |

The bounds let the interesting cases happen: a ring of four slots, the smallest
`agoo_queue_multi_init` makes, fills with three items and wraps with the
fourth; two pushers and two poppers meet in every order, and a third is like
the second because the code never looks at who holds a flag; two connections
exchange a recycled record; two loops are one that has the connection and one
that has not; two entries a file and one archive rotate and remove files; an
eval queue of one slot is full with one of two requests.  The publication
queues of the passing `server_*` runs have room for the one publication there
is: what happens when they fill up is `MCServerFull`.  Three texts are a
reference, a definition and an extension of one type in any order, and a
failure before, between or after them; the texts hold each construct of the
schema language.  Two requests are one that leaves something behind, in the
table of types or in a kept document, and one that meets it; the documents have
aliases, fragments of both forms, directives, variables with and without
defaults, each conversion, lists, mutations, subscriptions and introspection.

Deadlock is checked for the queue.  The other runs have bounded requests,
calls or entries and may really stop after them, so `CHECK_DEADLOCK` is off.

**Faults.**  `Faults` names what a run lets go wrong: a peer that hangs up, a
`send()` that fails or has no room, a late timeout, input after a closing
request, a handler (or a `to_s` it has called) that raises.
`AnsweredThenClosed`, `AllAnswered` and `CloseIsHeeded` excuse a connection that
one of them hit (`hit`): nobody can be promised a response on it.

**Fairness.**  Weak fairness of each thread: the operating system schedules
it, and every wait in the code is bounded (`poll` 100 ms, `epoll_wait` 10 ms,
the checks of `ready.c` each half second).  Nothing is assumed of peers and
callers: no request, call, hangup or fault has to happen.  A handler of a
request is assumed to return or raise.  In `Server` the GVL is handed to each
thread that asks again and again (strong fairness of `TakeGvl` and `Respond`):
the scheduler of Ruby queues them.  The spin on a lock is not strongly
fair; the liveness properties hold because the competitors are bounded.

**The run that ends in a violation** checks a statement of a comment that the
code does not live up to; `findings` quotes it.

| run | what TLC finds |
|---|---|
| `log_flush` | `flush` returns before the last entry is written (`log.c:346`) |

The passing runs leave out the fault that a violating run shows (a `Faults`,
`Ops`, `Hooks` or `EndSets` constant), and say what holds otherwise.

**Further configurations.**  These show more disagreements, each with one
property that TLC finds violated in a second; they are kept for whoever repairs
the code and are not among the runs.

| configuration | what TLC finds |
|---|---|
| `MCHttpSlowClose` | a record marked close is recycled while its handler runs (`con.c:1147`): the error page of a handler that raised goes to another client (`rserver.c:381`).  With `Closes = {TRUE}` and `Faults = {"hangup"}` a request that asks for the close does it: `EvalOwnsRes` is violated |
| `MCUpgradedSubscribe` | a subscription processed after the end of the connection dereferences NULL (`con.c:1083`) |
| `MCHttpHintsLost` | a response pushed while its early hint is being sent is destroyed with its record (`con.c:724`) |
| `MCHttpBlocked` | after EAGAIN the response in hand is dropped and `wcnt` kept, so the next is cut (`con.c:712`) |
| `MCHttpLate` | a connection past its timeout drops an answered response and sends a later one (`con.c:1189`) |
| `MCUpgradedSseClose` | `close()` of an SSE connection is never acted on (`con.c:1134`), against `misc/SPEC:130` |
| `MCUpgradedPong` | a pong at the head of the list is never polled for (`con.c:1121`) |
| `MCUpgradedLeak` | `open?` drops the last reference without freeing the record (`rupgraded.c:189`); with `Ops = {"env"}` a reference stays for ever |
| `MCUpgradedNoOnClose` | `on_open` without `on_close` when the peer leaves early (`con.c:94`) |
| `MCUpgradedEarlyOnClose` | `on_close` before the connection is closed (`con.c:892`) |
| `MCUpgradedOpenAfter` | `open?` answers true after the end (`rupgraded.c:188`) |
| `MCLogShutdown` | entries are lost, or put on a freed ring, during `shutdown` (`log.c:506`) |
| `MCServerFull` | a handler that publishes keeps the GVL and spins on a full publication queue, whose loop spins on the full eval queue: nothing moves any more (`con.c:646`, `server.c:382`) |
| `MCServerBack` | `Agoo::Server.shutdown` returns while a popped request waits for the GVL; its handler, called then, has been freed (`rserver.c:790`) |
| `MCServerDeaf` | after `Agoo::Server.shutdown` no thread is left that looks at a signal (`agoo.c:92`) |
| `MCServerExitSignal` | a signal while the main thread ends: the shutdown finds `active` clear and frees without waiting (`server.c:254`); with `EndSets <- Socket` it does so after a socket failed (`server.c:181`) |
| `MCServerSlow` | a thread that takes longer than the shutdown waits uses what it freed (`server.c:263`) |
| `MCServerFlush` | requests are in the eval queue when it is freed, against `rserver.c:944` |

## 5. The proofs

### AgooQueueProofs

It proves, for any sets of threads, any size of the ring from 4
slots on and any number of items, all from the assumptions `AgooQueue` names
about its constants:

* `InductiveHolds`: `Inductive == TypeOK /\ Serialised /\ SlotsAgree /\ Room`
  is an invariant.  `SlotsAgree` alone is not inductive: a pusher at `write`
  relies on room it saw some steps ago (`Room`), which persists because only
  the one pusher (`Serialised`) moves `tail` and `head` moves away from it.
  The step is split by conjunct (`TypeStep`, `SerialStep`, `SlotsStep`,
  `RoomStep`) and in each by action.
* `TypeCorrect`, `SerialisedHolds`, `SlotsAgreeHolds`: three of its parts;
  `WriteSafe` and `TakeSafe`: the other invariants of `eval_queue`, from it.
* `QueueIsFifo`: `Spec => ImplementsFifo`.  `PushAdvance` maps to an abstract
  push (`AdvancePushes`), `PopReady` to an abstract pop (`ReadyPops`),
  `PopReturn` to the return of the item, and every other action leaves the
  abstract variables alone.  `SlotOfFacts` is the arithmetic of the ring.

### GqlSchemaProofs

For every table of types and list of directives (`IsSchema`: a schema, or a
parser that reads into one), whatever the sets of names, parts and uses:

* `CreationKeeps`: `TypeCreate`, `AssureType` and `AssureWrap` keep every
  definition (`Keeps`: kind, description, and the parts as a prefix), and
  `TypeCreate` refuses a name that is defined;
* `AdditionKeeps`: `AddPart` (fields, arguments, members, choices) and
  `TypeDirectiveUse` keep every definition;
* `CreationWhole`, `AdditionWhole`, `DirectivesWhole`: creating a type or a
  directive, wrapping a type that is there, adding a part or an argument whose
  types are there, and using or redefining a directive make nothing dangle
  that did not (`Dangling` grows by nothing);
* `DestroyTears`: `TypeDestroy` leaves dangling at most one name more, that of
  the type it frees, and that one exactly when another type or an argument of a
  directive refers to it.

`RefersIs` and `DanglingIs` say part by part what the two operators say with
unions, `NothingTorn` is what the four theorems about references share.
`CreationWhole` has no hypothesis about what `extend` may have put in a
placeholder, as a definition starts its parts anew.

`DefinitionsStay`, which `gql_schema` checks, says `Keeps` of a whole load, and
`AcceptedIsWhole` that a schema dangles only once it was refused, or by an
interface without a body.  The theorems are steps of both: of these operations
only `TypeDestroy`, after a definition that failed or that had no body, can tear
a reference.  The parsers that call these operations in turn are recursive, so
the whole load is left to the runs; so is `FieldArg`, which changes a field that
was just added.

### SeqFacts

What the other proofs need of sequences and of the community operators on them:
the elements (`Range`) of an appended, concatenated or cut sequence, and when it
still has each of them once (`IsInjective`); and that a nonempty set of natural
numbers has a least one.  `HttpConProofs`, `LogProofs` and `UpgradedProofs` use
it; `Cardinality` of what moves between sets is taken from the library.

### HttpConProofs

Each invariant is proved from the ones before it:

* `Shape` are the types, and that no more response records were made than
  requests were read, without which the bound on the records is not inductive:
  `TypeCorrect`.
* `Placed`: cache, lists and the hand of the write handler share no record and
  have each once: `RecordsPlacedOnce`, for all faults, hints and closing
  requests.
* `Owned`: a handler runs for a record that is blank and in the list of its
  connection: `EvalHasItsRes`.  It needs `Plain`: no early hints, no request
  with `Connection: Close` and no handler that raises.  With them
  `remove_dead_res` (`con.c:1147`) takes a record that has a text, or the close
  indicator, for one that is done with (`MCHttpSlowClose`), and a hint and a
  response meet in one record (`MCHttpHintsLost`).
* `Ordered`: on a connection that is open, was not hit by a fault and was sent
  no hints (`Quiet`), the requests that wait are those after the last unit on
  the wire, each at its place of the list, with a blank record while it is
  evaluated, and `wcnt` is what was sent of the first (`Fine`).  The order of
  the wire alone is not inductive: that the next unit is right depends on the
  place of every record behind it.  `Closed` says what such a connection sent
  before it went: `GoneIsAnswered`.
* Both need that no request of another connection gets at those records:
  `Apart`, which is `Plain`, where `Owned` says so of all connections, or
  `Alone`, one connection, where a record that was left too early only comes
  back after the connection has gone.  With `Alone` early hints, closing
  requests, handlers that raise and every other fault are in.  With two
  connections the properties are false of the code once a handler raises
  (`MCHttpSlowClose` shows it for the order), and with closing requests TLC
  finds `AnsweredThenClosed` violated even without faults: the record of a
  second closing request in one buffer goes to the cache while it is evaluated,
  and its answer into a request of the other connection.
* `InOrder` is the order for every connection, which a fault may have hit:
  `ResponsesInOrder`, without hints and with `Apart`.  It needs `Calm` as well,
  without `"eagain"` and `"late"` among the faults, after which the code goes on
  sending on a connection it should have given up (`MCHttpBlocked`,
  `MCHttpLate`).  Hangups, failed sends and input after the end are all in, and
  with `Alone` so are handlers that raise.

The constants of `http_order` satisfy `Plain` and `Calm`, those of `http_close`
satisfy `Alone`.

### ServerProofs

* `Counted`: `running` is the number of threads at the places between their two
  counts, and the connections and requests in the queues and hands add up:
  `TypeCorrect` (the capacities of the queues included) and `RunningIsCounted`,
  for slow threads and all ways to end the server.
* `Awaited`: while a start waits, the threads it created that have not counted
  themselves are `born`; if no thread is `Slow`, a start that went on has
  counted all: `CountIsTrue`.
* `Shut` and `Frozen`: one thread runs the shutdown, if any; from its last wait
  on every other thread is over or stuck for good, in the spin of a full queue
  or for a GVL that is never handed on.  Being stuck is kept by what the
  shutdown does after it, so nothing freed is used: `NothingFreedIsUsed`.  It
  needs `Slow = FALSE` (`MCServerSlow`) and `OneWay`: the ways to end the server
  either do not run the shutdown (`exit`, `socket`) or do it while it is active
  (`shutdown`, `handler`, `signal`); a mixture clears `active` first
  (`MCServerExitSignal`, with either of its `EndSets`).
* `Publishes` and `Drained`: no thread left behind has a publication to make,
  so that `NothingWild` holds as a whole: `NobodyLeftBehind`.  It needs `Room`,
  publication queues as long as there are publications: with `MaxPub = 2` and
  `PubSize = 1` a publisher that spins on a full queue is left behind, and TLC
  finds `NothingWild` violated.

The constants of `server_end` satisfy the three hypotheses.

### LogProofs

`IInv == Shape /\ Locked /\ Closing /\ Segments`, for any number of writers,
size of the ring, size and number of files:

* `Locked`: one writer at a time is past the spin lock, so that the room it saw
  is still there when it puts its entry; the ring therefore never reaches the
  slot of the entry being written: `TypeCorrect`.
* `Closing`: the order in which a shutdown ends the thread, closes the file and
  frees the ring.
* `Segments`: there are cuts of what was logged such that each file holds the
  entries between two of them, and the hand of the log thread and the ring the
  rest.  `FilesInOrder` alone says nothing of the ring, so a pop or a put could
  break it.  The cuts move with a put, a write, a rotation and a removal
  (`CutsLogged`, `CutsWritten`, `CutsStarted`, `CutsRemoved`): `FilesAreInOrder`
  and, as the thread ends only with an empty ring, `ShutdownHasFlushed`.

### UpgradedProofs

For any numbers of connections, loops, Ruby threads, calls and publications,
`Inv == Shape /\ Unopened /\ Covered /\ Honest` is an invariant, with all
operations, hooks, faults and owners, and up to the
wild access where the model stops:

* `Shape` are the types; that `up_list` has each record once, without which
  `Without` would leave a freed record on it; and the bound on calls.
* `Unopened`: until the upgrade is answered the connection has one response,
  which waits, and a pending count of zero, so that `Accept` finds what the
  handler of the request left.
* `Covered`: `Holders(u) <= up[u].ref`, and a record that is held is not freed.
  It gives `TypeCorrect` (no count goes below zero, not even in `open?`, which
  bypasses `agoo_upgraded_release`) and `RefsCovered`.  Every decrement leans on
  it: the one who lets go was itself counted.
* `Honest`: `pending` counts no more than what is queued for the loop that
  owns the connection: `PendingCorrect`.

The holders are counted in six places (`OfCon` to `OfCalls`), two of which are
sets of positions of queues.  The first part of the module says what a push, a
pop, a copy to every loop or a thread that takes or drops a record does to
these counts.  Each action is then a `Moves(u, c, p, l, r, j, k, e)`: the record
`u`, the change of each of the six, and of the count; `Settled` adds them up.
So the proof of an action says which holder hands its reference to which.

Exactness (`RefsExact`) needs more, as the code has four ways to leave a
reference behind: a callback that raises skips the release in
`handle_push_inner`, a message to a handler without `on_message` is dropped
with its reference, `env` never gives its own back, and neither does a `write()`
whose `to_s` raises.  `CountsExact` excludes them by `"raise" \notin Faults`,
`"on_message" \in Hooks` and `"env" \notin Ops`; up to the first wild access
(`NothingWild`), after which a count means nothing.  With a subscription the
loop dereferences the `con` it has cleared (`MCUpgradedSubscribe`); with a
publication it walks over a record that a Ruby thread frees (`PubVisit`); a
second loop looks at a connection while its own loop ends it (`PubSeen`).

The constants of `up_life` satisfy the three hypotheses, and with one loop and
no subscription `NothingWild` holds there; when any of them is dropped from its
configuration, TLC finds `RefsExact` violated within a hundred states.
`up_refs` has none of them and checks what is proved without.

### UpgradedWireProofs

`WireCorrect`: `WireAsCalled`, on top of `Inv` of `UpgradedProofs` and with no
hypotheses: any connections, loops, owners, callers, hooks and faults.  What a
connection should be sent, `Expected(u)`, is the set of the numbers of the calls
in `log` that are meant for it; the wire has to be its first elements, in order.
That says nothing about what is under way, so the invariant `WInv` follows a
call from the log to the wire:

* `Logged`, `Queues`: a queue of publications holds the last of the log in its
  order, with the closes of callbacks in between, so that a loop has popped
  (`Seen`) the first calls and no others.
* `Walking`: a walk over `up_list` is on behalf of the last publication that was
  popped, for which nothing later can have passed it.
* `Flow(u)`, for a connection that is open: `InOrder` and `Behind` (what was
  sent or waits was popped, and a walk that is still ahead of the record brings
  something later), `Agrees` (`subscribed` is what the calls that were popped
  say), `Ends` (a text in the list was asked for unless a close is before it)
  and `Complete` (what was asked for and popped is there, or the walk has yet to
  bring it).

The hard part is the walk, which has no lock: other threads put records in front
of it and take records out under it.  `AheadKept` says that a walk that goes on
is ahead of the same records as before, or is at a record that was freed
(`Lost`), where the next step of the loop ends the model.  A connection that is
open has its record on the list by `Covered` of `UpgradedProofs`, so the walk
cannot miss it: the two invariants need each other's view of `up_list`.
`Subscribed` is about the call, `up[u].subscribed` about the visit; `WalkJoined`
says that they agree, as the loop pops nothing during the walk.  `Complete`
makes `Write` leave no gap.  There is a lemma for each action, and common ones
for what an action leaves alone (`AsideKeeps`, `PopsKeep`, `AloneKeeps`).

### Only model-checked

* Liveness and fairness (`Delivered`, `PushReturns`, and the liveness of the
  other modules), which the proof system does not handle.
* `NothingWild` with one loop and no subscription, which `up_life` checks.
* `RefsExact` with callbacks that raise or handlers that call `env`, and
  `NothingWild` with subscriptions or several loops, are not left to check but
  false, as said above.
* `WireInOrder` with early hints is false: the response that `MCHttpHintsLost`
  shows lost leaves a gap.  So are `EvalOwnsRes`, `WireInOrder` and
  `AnsweredThenClosed` with several connections and closing requests or handlers
  that raise, as said above.
* GraphQL, whose parsers, printers and evaluation are recursive operators from
  `GqlValue` on.

## 6. What is not modelled

`components` in `PROJECT.json` lists every part.  Left out for now:
the forked workers, pages, hook paths, framing, the header scan, partial sends
of upgraded connections, and several eval threads inside GraphQL at once.  In
GraphQL the characters of tokens (numbers, times, escapes) are classes of texts
given as constants, block strings and comments are not texts of the runs, and
the freeing of what only one document holds is not modelled.  Left out for good:
tables of constants, copies of strings into Ruby objects, option parsing,
digests and encodings, which have no protocol to check; SSL, which is a library;
and the formats of log entries.
