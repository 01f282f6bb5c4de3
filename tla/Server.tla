------------------------------- MODULE Server -------------------------------
(***************************************************************************)
(* The life of the server: the start of its threads, the requests that go  *)
(* through the bounded queues between them, and the shutdown (server.c,    *)
(* rserver.c, agoo.c, and the loop of con.c).                              *)
(*                                                                         *)
(* A shutdown does not join the threads: it clears active, waits a while   *)
(* for the count of running threads to reach zero, and frees what they     *)
(* use.  A thread that runs the shutdown itself is one of those counted.   *)
(* Queues are counts here (their order is in AgooQueue), requests have no  *)
(* content (HttpCon has it), and a thread that pushes to a full queue      *)
(* spins, as agoo_queue_push does, with the GVL if it has it.              *)
(***************************************************************************)
EXTENDS Integers, FiniteSets

CONSTANTS
    Loops,      \* the connection loops there may be
    First,      \* the one that agoo_server_start always creates
    Evals,      \* the eval threads there may be
    Pools,      \* the sets of eval threads the server may be configured with
    Main,       \* the Ruby thread that starts the server
    Listener,   \* the listen thread
    NULL,       \* no thread
    MaxCons,    \* bound: connections that clients make
    MaxReq,     \* bound: requests that clients send
    MaxPub,     \* bound: publications of handlers
    EvalSize,   \* capacity of the eval queue
    PubSize,    \* capacity of the publication queue of a loop
    EndSets,    \* the ways to end the server that may come together, see below
    Slow        \* whether a thread may take longer than a shutdown waits

ASSUME LoopsAssumption == First \in Loops /\ Pools \subseteq SUBSET Evals
ASSUME ThreadsAssumption ==
    /\ IsFiniteSet(Loops) /\ IsFiniteSet(Evals) /\ Loops \cap Evals = {}
    /\ Main # Listener /\ {Main, Listener} \cap (Loops \cup Evals) = {}
    /\ NULL \notin Evals \cup {Main}
ASSUME BoundsAssumption == MaxCons \in Nat /\ MaxReq \in Nat /\ MaxPub \in Nat
ASSUME SizesAssumption == EvalSize \in Nat \ {0} /\ PubSize \in Nat \ {0}
ASSUME SlowAssumption == Slow \in BOOLEAN

\* Ruby code calls Agoo.shutdown or Agoo::Server.shutdown, a handler calls
\* Agoo.shutdown, a signal comes, the main thread ends, a socket fails.
Ways == {"shutdown", "server_shutdown", "handler", "signal", "exit", "socket"}
ASSUME EndsAssumption == EndSets \subseteq SUBSET Ways

\* What a shutdown frees, and its steps.
Parts == {"hooks", "binds", "con_queue", "loops", "eval_queue"}
ShutdownSteps == {"enter", "claim", "wait", "runners", "exit"} \cup Parts

VARIABLES
    srv,        \* the pool of eval threads (thread_cnt) and the ways this server
                \* may end; active, inited, running; agoo_stop; the thread that runs
                \* agoo_shutdown; what was freed, and whether it was used then;
                \* whether the process is gone
    at,         \* where each thread is
    gvl,        \* the thread that keeps the GVL
    todo,       \* the loops a publishing handler still has to push to
    q,          \* the number of items in the queues, and the open connections
                \* of each loop
    n           \* what came in and what was answered so far

vars == <<srv, at, gvl, todo, q, n>>

Rubies == Evals \cup {Main}
\* With more than one eval thread there is one loop (server.c:206-215).
Up == IF Cardinality(srv.pool) <= 1 THEN Loops ELSE {First}

Init ==
    /\ \E p \in Pools, e \in EndSets :
          srv = [pool |-> p, ends |-> e, active |-> FALSE, inited |-> TRUE,
                 running |-> 0, stop |-> FALSE, shutter |-> NULL, freed |-> {},
                 wild |-> FALSE, exited |-> FALSE]
    /\ at = [t \in Loops \cup Evals \cup {Main, Listener} |->
               IF t = Main THEN "config" ELSE "none"]
    /\ gvl = NULL /\ todo = [t \in Rubies |-> {}]
    /\ q = [con |-> 0, eval |-> 0, pub |-> [l \in Loops |-> 0],
            has |-> [l \in Loops |-> 0]]
    /\ n = [accepted |-> 0, asked |-> 0, published |-> 0, answered |-> 0]

\* The process ends, and its threads with it.
Gone ==
    /\ srv' = [srv EXCEPT !.exited = TRUE, !.running = 0]
    /\ at' = [t \in DOMAIN at |-> "over"]
    /\ UNCHANGED <<gvl, todo, q, n>>

Go(t, from, to) == at[t] = from /\ at' = [at EXCEPT ![t] = to]

\* A thread uses some of what a shutdown frees.
Using(parts) == srv' = [srv EXCEPT !.wild = @ \/ parts \cap srv.freed # {}]

\* A thread counts itself when it begins and when it ends.
Count(d) == srv' = [srv EXCEPT !.running = @ + d]

-----------------------------------------------------------------------------
(* Time *)

\* A thread that makes no step by itself: it is over, it spins on a full
\* queue, it waits for the GVL, or it runs the shutdown.
Held(t) ==
    \/ at[t] \in {"none", "over", "config", "ruby", "leaving"}
    \/ at[t] \in ShutdownSteps
    \/ at[t] = "push" /\ q.eval = EvalSize
    \/ at[t] \in {"popped", "ready"} /\ gvl \notin {NULL, t}
    \/ at[t] = "publish" /\ todo[t] # {} /\ \A l \in todo[t] : q.pub[l] = PubSize

\* A shutdown waits long enough for every thread that is not held to end, and a
\* start for those it created to be counted, unless threads are slow.
TimeUp == Slow \/ \A t \in DOMAIN at : Held(t)
Begun == Slow \/ \A t \in DOMAIN at : at[t] \notin {"born", "listening"}

-----------------------------------------------------------------------------
(* The main thread *)

\* Agoo::Server.start: the binds listen, then the threads are created.
Start ==
    /\ at[Main] = "config"
    /\ at' = [t \in DOMAIN at |->
                CASE t = Main -> "starting" [] t = Listener \/ t \in Up -> "born"
                  [] OTHER -> "none"]
    /\ srv' = [srv EXCEPT !.active = TRUE]
    /\ UNCHANGED <<gvl, todo, q, n>>

\* The main thread evaluates requests itself, or creates the pool.
Evaluate ==
    at' = IF srv.pool = {}
            THEN [at EXCEPT ![Main] = "top"]
            ELSE [t \in DOMAIN at |->
                    IF t \in srv.pool THEN "born" ELSE IF t = Main THEN "started" ELSE at[t]]

\* A defect for the runs: start does not wait for the loops.
EvaluateAtOnce ==
    /\ at[Main] = "starting" /\ Evaluate
    /\ UNCHANGED <<srv, gvl, todo, q, n>>

\* It waits for the threads it created to run, twice.
StartEvals ==
    /\ at[Main] = "starting"
    /\ srv.running >= 1 + Cardinality(Up) \/ Begun
    /\ Evaluate
    /\ UNCHANGED <<srv, gvl, todo, q, n>>

Started ==
    /\ srv.running >= 1 + Cardinality(Up) + Cardinality(srv.pool) \/ Begun
    /\ Go(Main, "started", "ruby")
    /\ UNCHANGED <<srv, gvl, todo, q, n>>

\* A defect for the runs: the end of the main thread does not stop the others.
EndProcKeeps ==
    /\ "exit" \in srv.ends /\ gvl = NULL
    /\ Go(Main, "ruby", "leaving")
    /\ UNCHANGED <<srv, gvl, todo, q, n>>

\* The main thread ends: Ruby calls stop_server and waits for its threads.
EndProc ==
    /\ "exit" \in srv.ends /\ gvl = NULL
    /\ Go(Main, "ruby", "leaving")
    /\ srv' = [srv EXCEPT !.active = FALSE]
    /\ UNCHANGED <<gvl, todo, q, n>>

Leave ==
    /\ at[Main] = "leaving"
    /\ \A e \in srv.pool : at[e] = "over"
    /\ Gone

Signal ==
    /\ "signal" \in srv.ends /\ ~srv.stop /\ ~srv.exited
    /\ srv' = [srv EXCEPT !.stop = TRUE]
    /\ UNCHANGED <<at, gvl, todo, q, n>>

-----------------------------------------------------------------------------
(* The listen thread *)

Accept ==
    /\ Go(Listener, "poll", "top")
    /\ n.accepted < MaxCons /\ n' = [n EXCEPT !.accepted = @ + 1]
    /\ q' = [q EXCEPT !.con = @ + 1]
    /\ Using({"binds", "con_queue"})
    /\ UNCHANGED <<gvl, todo>>

\* Nothing to accept; a signal that interrupts poll() ends the loop; a socket
\* that fails ends the server.
PollEnds ==
    /\ \/ Go(Listener, "poll", "top") /\ UNCHANGED srv
       \/ Go(Listener, "poll", "done") /\ srv.stop /\ UNCHANGED srv
       \/ /\ Go(Listener, "poll", "top")
          /\ "socket" \in srv.ends /\ srv' = [srv EXCEPT !.active = FALSE]
    /\ UNCHANGED <<gvl, todo, q, n>>

ListenStep ==
    \/ /\ \/ Go(Listener, "born", "top") /\ Count(1)
          \/ /\ Go(Listener, "top", IF srv.active THEN "poll" ELSE "done")
             /\ UNCHANGED srv
          \/ Go(Listener, "done", "over") /\ Count(-1)
       /\ UNCHANGED <<gvl, todo, q, n>>
    \/ Accept \/ PollEnds

-----------------------------------------------------------------------------
(* The connection loops *)

\* The loop listens on its queues before it is counted.
LoopBegin(l) ==
    /\ \/ Go(l, "born", "listening") /\ Using({"con_queue", "loops"})
       \/ Go(l, "listening", "top") /\ Count(1)
    /\ UNCHANGED <<gvl, todo, q, n>>

LoopTop(l) ==
    /\ \/ Go(l, "top", IF srv.active THEN "pop" ELSE "done") /\ UNCHANGED srv
       \/ Go(l, "done", "over") /\ Count(-1)
    /\ UNCHANGED <<gvl, todo, q, n>>

\* It takes all the connections, then all the publications,
LoopPop(l) ==
    /\ IF q.con > 0
         THEN Go(l, "pop", "pop")
              /\ q' = [q EXCEPT !.con = @ - 1, !.has[l] = @ + 1]
         ELSE Go(l, "pop", "pubs") /\ UNCHANGED q
    /\ Using({"con_queue", "loops"})
    /\ UNCHANGED <<gvl, todo, n>>

LoopPubs(l) ==
    /\ IF q.pub[l] > 0
         THEN Go(l, "pubs", "pubs") /\ q' = [q EXCEPT !.pub[l] = @ - 1]
         ELSE Go(l, "pubs", "go") /\ UNCHANGED q
    /\ Using({"loops"})
    /\ UNCHANGED <<gvl, todo, n>>

\* then reads some requests, each pushed to the eval queue.
LoopRead(l) ==
    /\ Go(l, "go", "push")
    /\ q.has[l] > 0 /\ n.asked < MaxReq
    /\ n' = [n EXCEPT !.asked = @ + 1]
    /\ Using({"binds", "hooks"})
    /\ UNCHANGED <<gvl, todo, q>>

LoopPush(l) ==
    /\ Go(l, "push", "go")
    /\ q.eval < EvalSize /\ q' = [q EXCEPT !.eval = @ + 1]
    /\ Using({"eval_queue"})
    /\ UNCHANGED <<gvl, todo, n>>

LoopIdle(l) ==
    /\ Go(l, "go", "top")
    /\ UNCHANGED <<srv, gvl, todo, q, n>>

LoopStep(l) ==
    \/ LoopBegin(l) \/ LoopTop(l) \/ LoopPop(l) \/ LoopPubs(l) \/ LoopRead(l)
    \/ LoopPush(l) \/ LoopIdle(l)

-----------------------------------------------------------------------------
(* The threads that evaluate requests *)

\* The main thread is not counted; it returns from start.
EvalTop(t) ==
    /\ \/ Go(t, "born", "top") /\ t \in Evals /\ Count(1)
       \/ Go(t, "top", IF srv.active THEN "evalpop" ELSE "done") /\ UNCHANGED srv
       \/ Go(t, "done", "over") /\ t \in Evals /\ Count(-1)
       \/ Go(t, "done", "ruby") /\ t = Main /\ UNCHANGED srv
    /\ UNCHANGED <<gvl, todo, q, n>>

\* A defect for the runs: a request that was popped is dropped.
EvalPopDrops(t) ==
    /\ Go(t, "evalpop", "check")
    /\ q' = [q EXCEPT !.eval = IF @ > 0 THEN @ - 1 ELSE 0]
    /\ Using({"eval_queue"})
    /\ UNCHANGED <<gvl, todo, n>>

EvalPop(t) ==
    /\ IF q.eval > 0
         THEN Go(t, "evalpop", "popped") /\ q' = [q EXCEPT !.eval = @ - 1]
         ELSE Go(t, "evalpop", "check") /\ UNCHANGED q
    /\ Using({"eval_queue"})
    /\ UNCHANGED <<gvl, todo, n>>

\* The handler of the hook is called with the GVL, which it may give up for a
\* while.
TakeGvl(t) ==
    /\ gvl = NULL /\ gvl' = t
    /\ \/ Go(t, "popped", "handler") /\ Using({"hooks"})
       \/ Go(t, "ready", "handler") /\ UNCHANGED srv
    /\ UNCHANGED <<todo, q, n>>

HandlerYield(t) ==
    /\ Go(t, "handler", "ready") /\ gvl' = NULL
    /\ UNCHANGED <<srv, todo, q, n>>

\* Agoo.publish in a handler pushes to every loop and keeps the GVL.
HandlerPublish(t) ==
    /\ Go(t, "handler", "publish")
    /\ n.published < MaxPub /\ n' = [n EXCEPT !.published = @ + 1]
    /\ todo' = [todo EXCEPT ![t] = IF "loops" \in srv.freed THEN {} ELSE Up]
    /\ UNCHANGED <<srv, gvl, q>>

PublishPush(t) ==
    \/ /\ todo[t] = {} /\ Go(t, "publish", "handler")
       /\ UNCHANGED <<srv, gvl, todo, q, n>>
    \/ /\ at[t] = "publish"
       /\ \E l \in todo[t] :
             /\ q.pub[l] < PubSize /\ q' = [q EXCEPT !.pub[l] = @ + 1]
             /\ todo' = [todo EXCEPT ![t] = @ \ {l}]
       /\ Using({"loops"})
       /\ UNCHANGED <<at, gvl, n>>

Respond(t) ==
    /\ Go(t, "handler", "check") /\ gvl' = NULL
    /\ n' = [n EXCEPT !.answered = @ + 1]
    /\ UNCHANGED <<srv, todo, q>>

\* The first thread to see a signal runs the shutdown, the others end.
EvalCheck(t) ==
    /\ IF srv.stop /\ srv.shutter = NULL
         THEN Go(t, "check", "enter") /\ srv' = [srv EXCEPT !.shutter = t]
         ELSE Go(t, "check", IF srv.stop THEN "done" ELSE "top") /\ UNCHANGED srv
    /\ UNCHANGED <<gvl, todo, q, n>>

-----------------------------------------------------------------------------
(* The shutdown *)

\* Agoo.shutdown, which only the first may do, and Agoo::Server.shutdown; the
\* caller keeps the GVL.
CallShutdown(t) ==
    /\ \/ "shutdown" \in srv.ends /\ Go(t, "ruby", "enter") /\ gvl = NULL
       \/ "handler" \in srv.ends /\ Go(t, "handler", "enter")
    /\ srv.shutter = NULL /\ srv' = [srv EXCEPT !.shutter = t]
    /\ gvl' = t
    /\ UNCHANGED <<todo, q, n>>

CallServerShutdown ==
    /\ "server_shutdown" \in srv.ends
    /\ Go(Main, "ruby", "enter") /\ gvl = NULL /\ gvl' = Main
    /\ UNCHANGED <<srv, todo, q, n>>

\* rserver_shutdown is over: agoo_shutdown exits, Ruby code goes on.
Over(t, from) ==
    IF srv.shutter = t THEN Go(t, from, "exit") /\ UNCHANGED gvl
                       ELSE Go(t, from, "ruby") /\ gvl' = NULL

Enter(t) ==
    /\ IF srv.inited THEN Go(t, "enter", "claim") /\ UNCHANGED gvl
                     ELSE Over(t, "enter")
    /\ UNCHANGED <<srv, todo, q, n>>

Claim(t) ==
    /\ Go(t, "claim", IF srv.active THEN "wait" ELSE "binds")
    /\ srv' = [srv EXCEPT !.inited = FALSE, !.active = FALSE]
    /\ UNCHANGED <<gvl, todo, q, n>>

\* A defect for the runs: the shutdown does not wait.
WaitNot(t) ==
    /\ Go(t, "wait", "hooks")
    /\ UNCHANGED <<srv, gvl, todo, q, n>>

\* agoo_server_shutdown waits, and stop_runners after it if there is a pool.
Wait(t) ==
    /\ srv.running = 0 \/ TimeUp \/ (at[t] = "runners" /\ srv.pool = {})
    /\ Go(t, "wait", "runners") \/ Go(t, "runners", "hooks")
    /\ UNCHANGED <<srv, gvl, todo, q, n>>

Free(t) ==
    /\ \/ Go(t, "hooks", "binds") /\ UNCHANGED gvl
       \/ Go(t, "binds", "con_queue") /\ UNCHANGED gvl
       \/ Go(t, "con_queue", "loops") /\ UNCHANGED gvl
       \/ Go(t, "loops", "eval_queue") /\ UNCHANGED gvl
       \/ Over(t, "eval_queue")
    /\ srv' = [srv EXCEPT !.freed = @ \cup {at[t]}]
    /\ UNCHANGED <<todo, q, n>>

\* The log is closed and the process exits.
Exit(t) ==
    /\ at[t] = "exit"
    /\ Gone

-----------------------------------------------------------------------------
MainStep == Start \/ StartEvals \/ Started \/ Leave
RubyStep(t) ==
    \/ EvalTop(t) \/ EvalPop(t) \/ PublishPush(t) \/ EvalCheck(t)
    \/ Enter(t) \/ Claim(t) \/ Wait(t) \/ Free(t) \/ Exit(t)

Next ==
    \/ MainStep \/ EndProc \/ Signal \/ CallServerShutdown \/ ListenStep
    \/ \E l \in Loops : LoopStep(l)
    \/ \E t \in Rubies :
          \/ RubyStep(t) \/ TakeGvl(t) \/ HandlerYield(t) \/ HandlerPublish(t)
          \/ Respond(t) \/ CallShutdown(t)

Spec == Init /\ [][Next]_vars

\* Each thread is scheduled; a handler returns, and the GVL is handed round.
FairSpec ==
    /\ Spec
    /\ WF_vars(MainStep) /\ WF_vars(ListenStep)
    /\ \A l \in Loops : WF_vars(LoopStep(l))
    /\ \A t \in Rubies :
          WF_vars(RubyStep(t)) /\ SF_vars(TakeGvl(t)) /\ SF_vars(Respond(t))

-----------------------------------------------------------------------------
(* What is expected of the server *)

Places == ShutdownSteps \cup
    {"none", "born", "top", "done", "over",
     "config", "starting", "started", "ruby", "leaving", "poll",
     "listening", "pop", "pubs", "go", "push",
     "evalpop", "popped", "ready", "handler", "publish", "check"}

\* The type invariant: the queues keep to their capacity.
TypeOK ==
    /\ srv \in [pool : Pools, ends : EndSets, active : BOOLEAN, inited : BOOLEAN,
                running : 0..(1 + Cardinality(Loops \cup Evals)),
                stop : BOOLEAN, shutter : Rubies \cup {NULL},
                freed : SUBSET Parts, wild : BOOLEAN, exited : BOOLEAN]
    /\ at \in [Loops \cup Evals \cup {Main, Listener} -> Places]
    /\ gvl \in Rubies \cup {NULL}
    /\ todo \in [Rubies -> SUBSET Loops]
    /\ q \in [con : 0..MaxCons, eval : 0..EvalSize, pub : [Loops -> 0..PubSize],
              has : [Loops -> 0..MaxCons]]
    /\ n \in [accepted : 0..MaxCons, asked : 0..MaxReq, published : 0..MaxPub,
              answered : 0..MaxReq]

\* The threads that agoo_server.running counts.
Running ==
    {t \in DOMAIN at \ {Main} : at[t] \notin {"none", "born", "listening", "over"}}

\* The count a shutdown waits for is the number of threads that run, and no loop
\* that was created is missing in it: a shutdown that sees zero has nobody left
\* to wait for (server.c:120, 189, 220-223, 263, con.c:1365, 1389,
\* rserver.c:789, 801, 904-913).
RunningCounts ==
    /\ srv.running = Cardinality(Running)
    /\ \A t \in Rubies : at[t] \in ShutdownSteps =>
          \A l \in Up : at[l] \notin {"born", "listening"}

\* What a shutdown frees is not used any more by any thread, although it gives
\* up waiting for those that are held (server.c:263-296, rserver.c:926-936).
NothingWild ==
    /\ ~srv.wild
    /\ "loops" \in srv.freed => \A t \in Rubies : todo[t] = {}

\* A signal ends the process whichever thread is asked to run the shutdown and
\* whatever the others do (agoo.c:32-41, rserver.c:795-798, 889-892), a call of
\* Agoo.shutdown does, and the threads exit when the main thread does, as
\* CHANGELOG.md:31 wants it (rserver.c:810-812, 915).
EndsWhenAsked ==
    srv.stop \/ srv.shutter # NULL \/ at[Main] = "leaving" ~> srv.exited

\* Every request that a loop reads is answered, if the server is not stopped:
\* the full queues let everyone go on in the end (queue.c:86, con.c:646,
\* server.c:376-387).
AllAnswered == n.asked > n.answered ~> (n.asked = n.answered \/ ~srv.active)

\* rserver.c:944: queues are flushed before the server is shut down.
QueuesFlushed == srv.freed # {} => q.eval = 0
=============================================================================
