----------------------------- MODULE ServerProofs -----------------------------
(***************************************************************************)
(* Proofs about Server, for any sets of threads, any queues and any number *)
(* of connections, requests and publications.                              *)
(*                                                                         *)
(* The steps of all threads are first reduced to what they move (lemmas    *)
(* ...Moves, ...Kept, NextCounts, NextHands, NextAside, NextQuiet); the    *)
(* proofs of the invariants then look at those moves only.                 *)
(***************************************************************************)
EXTENDS Server, FiniteSetTheorems, TLAPS

-----------------------------------------------------------------------------
(* The inductive invariants *)

Threads == Loops \cup Evals \cup {Main, Listener}

\* The variables in their types, the counts of the next invariant without their
\* bounds.
Servers ==
    [pool : Pools, ends : EndSets, active : BOOLEAN, inited : BOOLEAN,
     running : Int, stop : BOOLEAN, shutter : Rubies \cup {NULL},
     freed : SUBSET Parts, wild : BOOLEAN, exited : BOOLEAN]
Queues ==
    [con : Nat, eval : 0..EvalSize, pub : [Loops -> 0..PubSize],
     has : [Loops -> Nat]]
Counts ==
    [accepted : 0..MaxCons, asked : 0..MaxReq, published : 0..MaxPub,
     answered : Nat]

Shape ==
    /\ srv \in Servers /\ at \in [Threads -> Places]
    /\ gvl \in Rubies \cup {NULL} /\ todo \in [Rubies -> SUBSET Loops]
    /\ q \in Queues /\ n \in Counts

\* The threads that have a request in hand.
InHand == {t \in Threads : at[t] \in {"push", "popped", "ready", "handler", "publish"}}

\* What is counted: the threads that run, the connections, and the requests in
\* the queue, in hand and answered.
Counted ==
    /\ srv.running = Cardinality(Running)
    /\ \A l \in Loops : q.con + q.has[l] <= n.accepted
    /\ q.eval + Cardinality(InHand) + n.answered <= n.asked

\* How far the threads can be while the main thread starts the server.
LoopPlaces == {"none", "born", "listening", "top", "pop", "pubs", "go", "push",
               "done", "over"}
ListenPlaces == {"none", "born", "top", "poll", "done", "over"}
EvalPlaces == ShutdownSteps \cup
    {"none", "born", "top", "evalpop", "popped", "ready", "handler", "publish",
     "check", "done", "over", "ruby"}
MainPlaces == (EvalPlaces \ {"none", "born"}) \cup
    {"config", "starting", "started", "leaving"}

Staged ==
    /\ \A l \in Loops : at[l] \in LoopPlaces
    /\ at[Listener] \in ListenPlaces
    /\ \A e \in Evals : at[e] \in EvalPlaces
    /\ at[Main] \in MainPlaces
    /\ \A l \in Loops \ Up : at[l] \in {"none", "over"}
    /\ \A e \in Evals \ srv.pool : at[e] \in {"none", "over"}
    /\ at[Main] = "config" =>
          \A t \in Threads \ {Main} : at[t] = "none"
    /\ at[Main] \in {"config", "starting"} => \A e \in Evals : at[e] = "none"

\* The main thread goes on when the threads it created run.
Awaited ==
    /\ at[Main] # "config" => \A t \in Up \cup {Listener} : at[t] # "none"
    /\ at[Main] \notin {"config", "starting"} =>
          \A t \in Up \cup {Listener} : at[t] \notin {"born", "listening"}
    /\ at[Main] \notin {"config", "starting", "started"} =>
          \A e \in Evals : at[e] # "born"

\* The ways to end the server either do not run a shutdown at all, or do it
\* once and while the threads are active.
OneWay ==
    \A e \in EndSets : \/ e \subseteq {"exit", "socket"}
                       \/ e \subseteq {"shutdown", "handler", "signal"}

\* One thread runs the shutdown, if any.
Shut ==
    /\ \A t \in Rubies : at[t] \in ShutdownSteps => t = srv.shutter
    /\ srv.shutter # NULL => at[srv.shutter] \in ShutdownSteps \cup {"over"}
    /\ srv.shutter = NULL => srv.inited
    /\ srv.shutter # NULL /\ at[srv.shutter] \in {"enter", "claim"} => srv.inited
    /\ srv.ends \subseteq {"exit", "socket"} =>
          srv.shutter = NULL /\ ~srv.stop
    /\ ~(srv.ends \subseteq {"exit", "socket"}) =>
          /\ at[Main] # "leaving"
          /\ srv.inited /\ at[Main] # "config" => srv.active

\* A thread that makes no step any more, since nobody else does.
Stuck(t) ==
    \/ at[t] \in {"none", "over", "ruby"}
    \/ t = srv.shutter
    \/ at[t] = "push" /\ q.eval = EvalSize
    \/ at[t] \in {"popped", "ready"} /\ gvl \notin {NULL, t}
    \/ at[t] = "publish" /\ todo[t] # {} /\ \A l \in todo[t] : q.pub[l] = PubSize

\* Since the shutdown stopped waiting, there is only the thread that runs it.
Late == {"runners", "exit"} \cup Parts
Frozen ==
    /\ ~srv.wild
    /\ srv.freed # {} \/ (srv.shutter # NULL /\ at[srv.shutter] \in Late) =>
          srv.shutter # NULL /\ \A t \in Threads : Stuck(t)

\* A publication has room in the queues if they are as long as there are
\* publications.
Room == MaxPub <= PubSize
Publishes ==
    /\ srv.exited => \A t \in Threads : at[t] = "over"
    /\ \A t \in Rubies : at[t] \in {"handler", "publish"} => gvl = t
    /\ \A t \in Rubies : todo[t] # {} => at[t] = "publish" \/ srv.exited
    /\ \A l \in Loops : \A t \in Rubies :
          IF l \in todo[t] THEN q.pub[l] < n.published
          ELSE q.pub[l] <= n.published

\* Nobody has anything left to publish once something is freed.
Drained == srv.freed # {} => \A t \in Rubies : todo[t] = {}

-----------------------------------------------------------------------------
(* Counting threads *)

LEMMA ThreadsFinite ==
  /\ IsFiniteSet(Loops \cup Evals)
  /\ IsFiniteSet(Threads) /\ IsFiniteSet(Threads \ {Main})
  /\ Rubies \subseteq Threads /\ Rubies = Evals \cup {Main}
  /\ Cardinality(Loops \cup Evals) \in Nat
  /\ Cardinality((Loops \cup Evals) \cup {Listener})
        = Cardinality(Loops \cup Evals) + 1
<1>1. IsFiniteSet(Loops \cup Evals)
  BY ThreadsAssumption, FS_Union
<1>2. IsFiniteSet((Loops \cup Evals) \cup {Listener})
  BY <1>1, FS_AddElement
<1>3. IsFiniteSet(((Loops \cup Evals) \cup {Listener}) \cup {Main})
  BY <1>2, FS_AddElement
<1>4. /\ Threads = ((Loops \cup Evals) \cup {Listener}) \cup {Main}
      /\ Threads \ {Main} = (Loops \cup Evals) \cup {Listener}
      /\ Listener \notin Loops \cup Evals
  BY ThreadsAssumption DEF Threads
<1>5. /\ Cardinality(Loops \cup Evals) \in Nat
      /\ Cardinality((Loops \cup Evals) \cup {Listener})
            = Cardinality(Loops \cup Evals) + 1
  BY <1>1, <1>4, FS_AddElement, FS_CardinalityType
<1> QED
  BY <1>1, <1>2, <1>3, <1>4, <1>5 DEF Rubies, Threads

\* Two sets of threads that differ in one thread at most.
LEMMA OneMoves ==
  ASSUME NEW A \in SUBSET Threads, NEW B \in SUBSET Threads, NEW t,
         \A x \in Threads : x # t => (x \in A <=> x \in B)
  PROVE  /\ Cardinality(A) \in Nat /\ Cardinality(B) \in Nat
         /\ t \notin A /\ t \in B => Cardinality(B) = Cardinality(A) + 1
         /\ t \in A /\ t \notin B => Cardinality(B) = Cardinality(A) - 1
         /\ (t \in A <=> t \in B) => Cardinality(B) = Cardinality(A)
<1>1. IsFiniteSet(A) /\ IsFiniteSet(B)
  BY ThreadsFinite, FS_Subset
<1>2. Cardinality(A) \in Nat /\ Cardinality(B) \in Nat
  BY <1>1, FS_CardinalityType
<1>3. ASSUME t \notin A, t \in B PROVE Cardinality(B) = Cardinality(A) + 1
  <2>1. B = A \cup {t}
    BY <1>3
  <2> QED
    BY <1>1, <1>3, <2>1, FS_AddElement
<1>4. ASSUME t \in A, t \notin B PROVE Cardinality(B) = Cardinality(A) - 1
  <2>1. B = A \ {t}
    BY <1>4
  <2> QED
    BY <1>1, <1>4, <2>1, FS_RemoveElement
<1>5. ASSUME t \in A <=> t \in B PROVE B = A
  BY <1>5
<1> QED
  BY <1>2, <1>3, <1>4, <1>5

-----------------------------------------------------------------------------
(* Types *)

LEMMA ShapeInit == Init => Shape
<1> SUFFICES ASSUME Init PROVE Shape
  OBVIOUS
<1>1. NULL \in Rubies \cup {NULL} /\ 0 \in 0..EvalSize /\ 0 \in 0..PubSize
  BY SizesAssumption
<1>2. 0 \in 0..MaxCons /\ 0 \in 0..MaxReq /\ 0 \in 0..MaxPub
  BY BoundsAssumption
<1>3. srv \in Servers
  BY <1>1 DEF Init, Servers
<1>4. at \in [Threads -> Places]
  BY DEF Init, Threads, Places
<1>5. todo \in [Rubies -> SUBSET Loops] /\ gvl \in Rubies \cup {NULL}
  BY DEF Init
<1>6. q \in Queues
  BY <1>1 DEF Init, Queues
<1>7. n \in Counts
  BY <1>2 DEF Init, Counts
<1> QED
  BY <1>3, <1>4, <1>5, <1>6, <1>7 DEF Shape

\* The thread t may go from a place to another by itself.
Fits(t, from, to) ==
    \/ /\ t \in Loops
       /\ from \in LoopPlaces \ {"none", "over"}
       /\ to \in LoopPlaces \ {"none", "born"}
       /\ to = "listening" => from = "born"
    \/ /\ t = Listener
       /\ from \in ListenPlaces \ {"none", "over"}
       /\ to \in ListenPlaces \ {"none", "born"}
    \/ /\ t \in Rubies
       /\ from \in EvalPlaces \ {"none", "over"}
       /\ to \in EvalPlaces \ {"none", "born"}
       /\ t = Main => from # "born" /\ to # "over"
    \/ t = Main /\ from = "ruby" /\ to = "leaving"

Moves == \E t \in Threads, from, to \in Places : Go(t, from, to) /\ Fits(t, from, to)

LEMMA LoopMoves ==
  ASSUME NEW l \in Loops, LoopStep(l)
  PROVE  Moves
<1> USE DEF Go, Fits, LoopPlaces, Places
<1>1. l \in Threads
  BY DEF Threads
<1>2. CASE LoopBegin(l)
  BY <1>1, <1>2 DEF LoopBegin, Moves
<1>3. CASE LoopTop(l)
  BY <1>1, <1>3 DEF LoopTop, Moves
<1>4. CASE LoopPop(l)
  BY <1>1, <1>4 DEF LoopPop, Moves
<1>5. CASE LoopPubs(l)
  BY <1>1, <1>5 DEF LoopPubs, Moves
<1>6. CASE LoopRead(l) \/ LoopPush(l) \/ LoopIdle(l)
  BY <1>1, <1>6 DEF LoopRead, LoopPush, LoopIdle, Moves
<1> QED
  BY <1>2, <1>3, <1>4, <1>5, <1>6 DEF LoopStep

LEMMA ListenMoves ==
  ASSUME ListenStep
  PROVE  Moves
<1>1. ASSUME NEW from \in ListenPlaces \ {"none", "over"},
             NEW to \in ListenPlaces \ {"none", "born"}, Go(Listener, from, to)
      PROVE  Moves
  <2>1. Fits(Listener, from, to)
    BY DEF Fits
  <2>2. Listener \in Threads /\ from \in Places /\ to \in Places
    BY DEF Threads, Places, ListenPlaces
  <2> QED
    BY <1>1, <2>1, <2>2 DEF Moves
<1>2. CASE Accept
  <2>1. Go(Listener, "poll", "top")
    BY <1>2 DEF Accept
  <2> QED
    BY <1>1, <2>1 DEF ListenPlaces
<1>3. CASE PollEnds
  <2>1. Go(Listener, "poll", "top") \/ Go(Listener, "poll", "done")
    BY <1>3 DEF PollEnds
  <2> QED
    BY <1>1, <2>1 DEF ListenPlaces
<1>4. CASE ~(Accept \/ PollEnds)
  <2>1. \/ Go(Listener, "born", "top") \/ Go(Listener, "done", "over")
        \/ Go(Listener, "top", IF srv.active THEN "poll" ELSE "done")
    BY <1>4 DEF ListenStep
  <2>2. \/ Go(Listener, "born", "top") \/ Go(Listener, "done", "over")
        \/ Go(Listener, "top", "poll") \/ Go(Listener, "top", "done")
    BY <2>1
  <2> QED
    BY <1>1, <2>2 DEF ListenPlaces
<1> QED
  BY <1>2, <1>3, <1>4

LEMMA RubyMoves ==
  ASSUME NEW t \in Rubies,
         \/ RubyStep(t) \/ TakeGvl(t) \/ HandlerYield(t) \/ HandlerPublish(t)
         \/ Respond(t) \/ CallShutdown(t)
  PROVE  Moves \/ UNCHANGED at \/ Exit(t)
<1>1. ASSUME NEW from \in EvalPlaces \ {"none", "born", "over"},
             NEW to \in EvalPlaces \ {"none", "born", "over"}, Go(t, from, to)
      PROVE  Moves
  <2>1. Fits(t, from, to)
    BY DEF Fits
  <2>2. t \in Threads /\ from \in Places /\ to \in Places
    BY DEF Threads, Rubies, Places, EvalPlaces, ShutdownSteps, Parts
  <2> QED
    BY <1>1, <2>1, <2>2 DEF Moves
<1> USE DEF EvalPlaces, ShutdownSteps, Parts
<1>2. CASE EvalTop(t)
  <2>1. Main \notin Evals
    BY ThreadsAssumption
  <2>2. \/ t \in Evals /\ (Go(t, "born", "top") \/ Go(t, "done", "over"))
        \/ Go(t, "top", "evalpop") \/ Go(t, "top", "done") \/ Go(t, "done", "ruby")
    BY <1>2 DEF EvalTop
  <2>3. ASSUME NEW from \in {"born", "done"}, NEW to \in {"top", "over"},
               t \in Evals, Go(t, from, to)
        PROVE  Moves
    <3>1. Fits(t, from, to)
      BY <2>1, <2>3 DEF Fits
    <3>2. t \in Threads /\ from \in Places /\ to \in Places
      BY DEF Threads, Rubies, Places
    <3> QED
      BY <2>3, <3>1, <3>2 DEF Moves
  <2> QED
    BY <1>1, <2>2, <2>3
<1>3. CASE EvalPop(t)
  <2>1. Go(t, "evalpop", "popped") \/ Go(t, "evalpop", "check")
    BY <1>3 DEF EvalPop
  <2> QED
    BY <1>1, <2>1
<1>4. CASE PublishPush(t)
  <2>1. Go(t, "publish", "handler") \/ UNCHANGED at
    BY <1>4 DEF PublishPush
  <2> QED
    BY <1>1, <2>1
<1>5. CASE EvalCheck(t)
  <2>1. Go(t, "check", "enter") \/ Go(t, "check", "done") \/ Go(t, "check", "top")
    BY <1>5 DEF EvalCheck
  <2> QED
    BY <1>1, <2>1
<1>6. CASE Enter(t)
  <2>1. Go(t, "enter", "claim") \/ Go(t, "enter", "exit") \/ Go(t, "enter", "ruby")
    BY <1>6 DEF Enter, Over
  <2> QED
    BY <1>1, <2>1
<1>7. CASE Claim(t)
  <2>1. Go(t, "claim", "wait") \/ Go(t, "claim", "binds")
    BY <1>7 DEF Claim
  <2> QED
    BY <1>1, <2>1
<1>8. CASE Wait(t)
  <2>1. Go(t, "wait", "runners") \/ Go(t, "runners", "hooks")
    BY <1>8 DEF Wait
  <2> QED
    BY <1>1, <2>1
<1>9. CASE Free(t)
  <2>1. \/ Go(t, "hooks", "binds") \/ Go(t, "binds", "con_queue")
        \/ Go(t, "con_queue", "loops") \/ Go(t, "loops", "eval_queue")
        \/ Go(t, "eval_queue", "exit") \/ Go(t, "eval_queue", "ruby")
    BY <1>9 DEF Free, Over
  <2> QED
    BY <1>1, <2>1
<1>10. CASE TakeGvl(t)
  <2>1. Go(t, "popped", "handler") \/ Go(t, "ready", "handler")
    BY <1>10 DEF TakeGvl
  <2> QED
    BY <1>1, <2>1
<1>11. CASE HandlerYield(t) \/ HandlerPublish(t) \/ Respond(t)
  <2>1. \/ Go(t, "handler", "ready") \/ Go(t, "handler", "publish")
        \/ Go(t, "handler", "check")
    BY <1>11 DEF HandlerYield, HandlerPublish, Respond
  <2> QED
    BY <1>1, <2>1
<1>12. CASE CallShutdown(t)
  <2>1. Go(t, "ruby", "enter") \/ Go(t, "handler", "enter")
    BY <1>12 DEF CallShutdown
  <2> QED
    BY <1>1, <2>1
<1> QED
  BY <1>2, <1>3, <1>4, <1>5, <1>6, <1>7, <1>8, <1>9, <1>10, <1>11, <1>12 DEF RubyStep

\* Every step but those of a start and of the end takes one thread from a place
\* to another, or none.
LEMMA NextMoves ==
  ASSUME [Next]_vars
  PROVE  \/ Start \/ StartEvals \/ Started \/ Gone
         \/ Moves \/ UNCHANGED at
<1>1. ASSUME NEW l \in Loops, LoopStep(l) PROVE Moves
  BY <1>1, LoopMoves
<1>2. CASE ListenStep
  BY <1>2, ListenMoves
<1>3. ASSUME NEW t \in Rubies,
             \/ RubyStep(t) \/ TakeGvl(t) \/ HandlerYield(t) \/ HandlerPublish(t)
             \/ Respond(t) \/ CallShutdown(t)
      PROVE  Moves \/ UNCHANGED at \/ Gone
  BY <1>3, RubyMoves DEF Exit
<1>4. CASE EndProc \/ CallServerShutdown
  <2>1. Main \in Threads /\ Main \in Rubies
    BY DEF Threads, Rubies
  <2> QED
    BY <1>4, <2>1 DEF EndProc, CallServerShutdown, Moves, Go, Fits, EvalPlaces,
                      Places, ShutdownSteps, Parts
<1>5. CASE Signal
  BY <1>5 DEF Signal
<1>6. CASE MainStep
  BY <1>6 DEF MainStep, Leave
<1>7. CASE UNCHANGED vars
  BY <1>7 DEF vars
<1> QED
  BY <1>1, <1>2, <1>3, <1>4, <1>5, <1>6, <1>7 DEF Next

LEMMA PlacesKept ==
  ASSUME Shape, [Next]_vars
  PROVE  at' \in [Threads -> Places]
<1>1. at \in [Threads -> Places]
  BY DEF Shape
<1>2. CASE Start
  BY <1>1, <1>2 DEF Start, Places
<1>3. CASE StartEvals
  BY <1>1, <1>3 DEF StartEvals, Evaluate, Places
<1>4. CASE Started
  BY <1>1, <1>4 DEF Started, Go, Places
<1>5. CASE Gone
  BY <1>1, <1>5 DEF Gone, Places
<1>6. CASE Moves
  BY <1>1, <1>6 DEF Moves, Go
<1>7. CASE UNCHANGED at
  BY <1>1, <1>7
<1> QED
  BY <1>2, <1>3, <1>4, <1>5, <1>6, <1>7, NextMoves

\* What a step does to the server itself keeps to the types.
LEMMA ServerKept ==
  ASSUME Shape, [Next]_vars
  PROVE  /\ srv' \in Servers
         /\ srv'.pool = srv.pool /\ srv'.ends = srv.ends
<1> USE DEF Servers
<1>1. srv \in Servers
  BY DEF Shape
<1>2. ASSUME NEW parts, Using(parts)
      PROVE  srv' \in Servers /\ srv'.pool = srv.pool /\ srv'.ends = srv.ends
  BY <1>1, <1>2 DEF Using
<1>3. ASSUME NEW d \in {1, -1}, Count(d)
      PROVE  srv' \in Servers /\ srv'.pool = srv.pool /\ srv'.ends = srv.ends
  BY <1>1, <1>3 DEF Count
<1>4. CASE UNCHANGED srv
  BY <1>1, <1>4
<1>5. CASE Gone
  <2>1. srv' = [srv EXCEPT !.exited = TRUE, !.running = 0]
    BY <1>5 DEF Gone
  <2>2. PICK u : u = [srv EXCEPT !.exited = TRUE]
    OBVIOUS
  <2>3. u \in Servers /\ u.pool = srv.pool /\ u.ends = srv.ends
    BY <1>1, <2>2
  <2>4. srv' = [u EXCEPT !.running = 0]
    BY <1>1, <2>1, <2>2
  <2> QED
    BY <2>3, <2>4
<1>6. CASE Start \/ EndProc \/ Signal
  BY <1>1, <1>6 DEF Start, EndProc, Signal
<1>7. CASE ListenStep
  BY <1>1, <1>2, <1>3, <1>4, <1>7 DEF ListenStep, Accept, PollEnds
<1>8. ASSUME NEW l \in Loops, LoopStep(l)
      PROVE  srv' \in Servers /\ srv'.pool = srv.pool /\ srv'.ends = srv.ends
  BY <1>2, <1>3, <1>4, <1>8 DEF LoopStep, LoopBegin, LoopTop, LoopPop, LoopPubs,
                               LoopRead, LoopPush, LoopIdle
<1>9. ASSUME NEW t \in Rubies, EvalTop(t) \/ EvalPop(t) \/ PublishPush(t) \/ TakeGvl(t)
      PROVE  srv' \in Servers /\ srv'.pool = srv.pool /\ srv'.ends = srv.ends
  BY <1>2, <1>3, <1>4, <1>9 DEF EvalTop, EvalPop, PublishPush, TakeGvl
<1>10. ASSUME NEW t \in Rubies, EvalCheck(t) \/ CallShutdown(t) \/ Claim(t)
       PROVE  srv' \in Servers /\ srv'.pool = srv.pool /\ srv'.ends = srv.ends
  BY <1>1, <1>4, <1>10 DEF EvalCheck, CallShutdown, Claim
<1>11. ASSUME NEW t \in Rubies, Free(t)
       PROVE  srv' \in Servers /\ srv'.pool = srv.pool /\ srv'.ends = srv.ends
  <2>1. at[t] \in Parts
    BY <1>11 DEF Free, Go, Over, Parts
  <2> QED
    BY <1>1, <1>11, <2>1 DEF Free
<1>12. ASSUME NEW t \in Rubies,
              \/ Enter(t) \/ Wait(t) \/ HandlerYield(t) \/ HandlerPublish(t)
              \/ Respond(t)
       PROVE  UNCHANGED srv
  BY <1>12 DEF Enter, Wait, HandlerYield, HandlerPublish, Respond
<1>13. CASE StartEvals \/ Started \/ CallServerShutdown \/ UNCHANGED vars
  BY <1>4, <1>13 DEF StartEvals, Started, CallServerShutdown, vars
<1> QED
  BY <1>4, <1>5, <1>6, <1>7, <1>8, <1>9, <1>10, <1>11, <1>12, <1>13
     DEF Next, MainStep, Leave, RubyStep, Exit

\* So does what it does to the queues and to the counts.
LEMMA QueuesKept ==
  ASSUME Shape, [Next]_vars
  PROVE  q' \in Queues /\ n' \in Counts
<1>1. q \in Queues /\ n \in Counts /\ todo \in [Rubies -> SUBSET Loops]
  BY DEF Shape
<1>2. /\ MaxCons \in Nat /\ MaxReq \in Nat /\ MaxPub \in Nat
      /\ EvalSize \in Nat /\ PubSize \in Nat
  BY BoundsAssumption, SizesAssumption
<1> USE DEF Queues, Counts
<1>3. CASE UNCHANGED <<q, n>>
  BY <1>1, <1>3
<1>4. CASE Accept
  BY <1>1, <1>2, <1>4 DEF Accept
<1>5. ASSUME NEW l \in Loops, LoopPop(l) \/ LoopPubs(l) PROVE q' \in Queues /\ n' \in Counts
  <2>1. CASE LoopPop(l)
    <3>1. CASE q.con > 0
      <4>1. q' = [q EXCEPT !.con = @ - 1, !.has[l] = @ + 1] /\ n' = n
        BY <2>1, <3>1 DEF LoopPop
      <4>2. q.con - 1 \in Nat /\ [q.has EXCEPT ![l] = @ + 1] \in [Loops -> Nat]
        BY <1>1, <3>1
      <4> QED
        BY <1>1, <4>1, <4>2
    <3> QED
      BY <1>1, <2>1, <3>1 DEF LoopPop
  <2>2. CASE LoopPubs(l)
    <3>1. CASE q.pub[l] > 0
      <4>1. q' = [q EXCEPT !.pub[l] = @ - 1] /\ n' = n
        BY <2>2, <3>1 DEF LoopPubs
      <4>2. [q.pub EXCEPT ![l] = @ - 1] \in [Loops -> 0..PubSize]
        BY <1>1, <1>2, <3>1
      <4> QED
        BY <1>1, <4>1, <4>2
    <3> QED
      BY <1>1, <2>2, <3>1 DEF LoopPubs
  <2> QED
    BY <1>5, <2>1, <2>2
<1>6. ASSUME NEW l \in Loops, LoopRead(l) \/ LoopPush(l)
      PROVE  q' \in Queues /\ n' \in Counts
  BY <1>1, <1>2, <1>6 DEF LoopRead, LoopPush
<1>7. ASSUME NEW t \in Rubies, EvalPop(t) \/ HandlerPublish(t) \/ Respond(t)
      PROVE  q' \in Queues /\ n' \in Counts
  BY <1>1, <1>2, <1>7 DEF EvalPop, HandlerPublish, Respond
<1>8. ASSUME NEW t \in Rubies, PublishPush(t) PROVE q' \in Queues /\ n' \in Counts
  <2>1. CASE UNCHANGED <<q, n>>
    BY <1>1, <2>1
  <2>2. ASSUME NEW l \in todo[t], q.pub[l] < PubSize,
               q' = [q EXCEPT !.pub[l] = @ + 1], UNCHANGED n
        PROVE  q' \in Queues /\ n' \in Counts
    <3>1. l \in Loops
      BY <1>1
    <3>2. [q.pub EXCEPT ![l] = @ + 1] \in [Loops -> 0..PubSize]
      BY <1>1, <1>2, <2>2, <3>1
    <3> QED
      BY <1>1, <2>2, <3>2
  <2> QED
    BY <1>8, <2>1, <2>2 DEF PublishPush
<1>9. ASSUME NEW t \in Rubies,
             \/ EvalTop(t) \/ EvalCheck(t) \/ Enter(t) \/ Claim(t) \/ Wait(t)
             \/ Free(t) \/ Exit(t) \/ TakeGvl(t) \/ HandlerYield(t)
             \/ CallShutdown(t)
      PROVE  UNCHANGED <<q, n>>
  BY <1>9 DEF EvalTop, EvalCheck, Enter, Claim, Wait, Free, Exit, Gone, TakeGvl,
              HandlerYield, CallShutdown
<1>10. ASSUME NEW l \in Loops, LoopBegin(l) \/ LoopTop(l) \/ LoopIdle(l)
       PROVE  UNCHANGED <<q, n>>
  BY <1>10 DEF LoopBegin, LoopTop, LoopIdle
<1>11. CASE \/ MainStep \/ EndProc \/ Signal \/ CallServerShutdown
            \/ (ListenStep /\ ~Accept) \/ UNCHANGED vars
  BY <1>3, <1>11 DEF MainStep, Start, StartEvals, Started, Leave, Gone, EndProc, Signal,
                     CallServerShutdown, ListenStep, PollEnds, vars
<1> QED
  BY <1>3, <1>4, <1>5, <1>6, <1>7, <1>8, <1>9, <1>10, <1>11
     DEF Next, LoopStep, RubyStep

LEMMA ShapeStep == Shape /\ [Next]_vars => Shape'
<1> SUFFICES ASSUME Shape, [Next]_vars PROVE Shape'
  OBVIOUS
<1>1. gvl \in Rubies \cup {NULL} /\ todo \in [Rubies -> SUBSET Loops]
  BY DEF Shape
<1>2. Main \in Rubies /\ Up \subseteq Loops
  BY LoopsAssumption DEF Rubies, Up
<1>3. gvl' \in Rubies \cup {NULL}
  <2>1. UNCHANGED gvl \/ gvl' = NULL \/ \E t \in Rubies : gvl' = t
    BY <1>2 DEF Next, MainStep, Start, StartEvals, Started, Leave, Gone, EndProc, Signal,
           CallServerShutdown, ListenStep, Accept, PollEnds, LoopStep, LoopBegin,
           LoopTop, LoopPop, LoopPubs, LoopRead, LoopPush, LoopIdle, RubyStep,
           EvalTop, EvalPop, PublishPush, EvalCheck, Enter, Claim, Wait, Free,
           Over, Exit, TakeGvl, HandlerYield, HandlerPublish, Respond,
           CallShutdown, vars
  <2> QED
    BY <1>1, <2>1
<1>4. todo' \in [Rubies -> SUBSET Loops]
  <2>1. ASSUME NEW t \in Rubies, HandlerPublish(t) \/ PublishPush(t)
        PROVE  todo' \in [Rubies -> SUBSET Loops]
    BY <1>1, <1>2, <2>1 DEF HandlerPublish, PublishPush
  <2>2. UNCHANGED todo \/ \E t \in Rubies : HandlerPublish(t) \/ PublishPush(t)
    BY DEF Next, MainStep, Start, StartEvals, Started, Leave, Gone, EndProc, Signal,
           CallServerShutdown, ListenStep, Accept, PollEnds, LoopStep, LoopBegin,
           LoopTop, LoopPop, LoopPubs, LoopRead, LoopPush, LoopIdle, RubyStep,
           EvalTop, EvalPop, EvalCheck, Enter, Claim, Wait, Free,
           Exit, TakeGvl, HandlerYield, Respond, CallShutdown, vars
  <2> QED
    BY <1>1, <2>1, <2>2
<1> QED
  BY <1>3, <1>4, PlacesKept, ServerKept, QueuesKept DEF Shape

-----------------------------------------------------------------------------
(* The start *)

LEMMA StagedInit == Init => Staged /\ Awaited
<1> SUFFICES ASSUME Init PROVE Staged /\ Awaited
  OBVIOUS
<1>1. /\ at[Main] = "config" /\ Main \notin Loops \cup Evals \cup {Listener}
      /\ \A t \in Threads \ {Main} : at[t] = "none"
  BY ThreadsAssumption DEF Init, Threads
<1> QED
  BY <1>1 DEF Staged, Awaited, Threads, LoopPlaces, ListenPlaces, EvalPlaces,
              MainPlaces, Up

\* The thread that a step moves was where it may be, and is.
LEMMA MovesStaged ==
  ASSUME Shape, Staged, Moves, srv'.pool = srv.pool
  PROVE  Staged'
<1> USE DEF LoopPlaces, ListenPlaces, EvalPlaces, MainPlaces, ShutdownSteps, Parts
<1>1. PICK t \in Threads, from, to \in Places : Go(t, from, to) /\ Fits(t, from, to)
  BY DEF Moves
<1>2. at[t] = from /\ at' = [at EXCEPT ![t] = to] /\ at \in [Threads -> Places]
  BY <1>1 DEF Go, Shape
<1>3. at'[t] = to /\ \A u \in Threads : u # t => at'[u] = at[u]
  BY <1>2
<1>4. /\ Main \notin Loops \cup Evals \cup {Listener} /\ Listener \notin Loops \cup Evals
      /\ Loops \cap Evals = {} /\ Rubies = Evals \cup {Main}
      /\ Loops \subseteq Threads /\ Evals \subseteq Threads
      /\ Main \in Threads /\ Listener \in Threads
  BY ThreadsAssumption DEF Threads, Rubies
<1>5. Up' = Up
  BY DEF Up
<1>6. from \notin {"none", "over", "config", "starting"}
      /\ to \notin {"none", "config", "starting"}
  BY <1>1 DEF Fits
<1>7. /\ \A l \in Loops : at'[l] \in LoopPlaces
      /\ at'[Listener] \in ListenPlaces
      /\ \A e \in Evals : at'[e] \in EvalPlaces
      /\ at'[Main] \in MainPlaces
  BY <1>1, <1>2, <1>3, <1>4 DEF Fits, Staged
<1>8. /\ \A l \in Loops \ Up : at'[l] \in {"none", "over"}
      /\ \A e \in Evals \ srv.pool : at'[e] \in {"none", "over"}
  BY <1>2, <1>3, <1>4, <1>6 DEF Staged
<1>9. at'[Main] = "config" => \A u \in Threads \ {Main} : at'[u] = "none"
  BY <1>2, <1>3, <1>4, <1>6 DEF Staged
<1>10. at'[Main] \in {"config", "starting"} => \A e \in Evals : at'[e] = "none"
  BY <1>2, <1>3, <1>4, <1>6 DEF Staged
<1> QED
  BY <1>5, <1>7, <1>8, <1>9, <1>10 DEF Staged

LEMMA StagedStep ==
  ASSUME Shape, Staged, [Next]_vars
  PROVE  Staged'
<1> USE DEF LoopPlaces, ListenPlaces, EvalPlaces, MainPlaces, ShutdownSteps, Parts
<1>1. at \in [Threads -> Places] /\ srv'.pool = srv.pool /\ Up' = Up
      /\ srv.pool \subseteq Evals
  BY ServerKept, LoopsAssumption DEF Shape, Up, Servers
<1>2. /\ Main \notin Loops \cup Evals \cup {Listener} /\ Listener \notin Loops \cup Evals
      /\ Loops \cap Evals = {}
      /\ Loops \subseteq Threads /\ Evals \subseteq Threads
      /\ Main \in Threads /\ Listener \in Threads /\ Up \subseteq Loops
  BY ThreadsAssumption, LoopsAssumption DEF Threads, Up
<1>3. CASE Start
  <2>1. /\ at'[Main] = "starting" /\ at'[Listener] = "born"
        /\ \A l \in Loops : at'[l] = IF l \in Up THEN "born" ELSE "none"
        /\ \A e \in Evals : at'[e] = "none"
    BY <1>1, <1>2, <1>3 DEF Start
  <2> QED
    BY <1>1, <1>2, <2>1 DEF Staged
<1>4. CASE StartEvals
  <2>1. /\ at[Main] = "starting" /\ \A e \in Evals : at[e] = "none"
    BY <1>4 DEF StartEvals, Staged
  <2>2. /\ at'[Main] \in {"top", "started"}
        /\ at'[Listener] = at[Listener]
        /\ \A l \in Loops : at'[l] = at[l]
        /\ \A e \in Evals : at'[e] = IF e \in srv.pool THEN "born" ELSE "none"
    <3>1. CASE srv.pool = {}
      BY <1>1, <1>2, <1>4, <2>1, <3>1 DEF StartEvals, Evaluate
    <3>2. CASE srv.pool # {}
      <4>1. at' = [t \in DOMAIN at |->
                    IF t \in srv.pool THEN "born"
                    ELSE IF t = Main THEN "started" ELSE at[t]]
        BY <1>4, <3>2 DEF StartEvals, Evaluate
      <4> QED
        BY <1>1, <1>2, <2>1, <4>1
    <3> QED
      BY <3>1, <3>2
  <2> QED
    BY <1>1, <1>2, <2>2 DEF Staged
<1>5. CASE Started
  <2>1. /\ at'[Main] = "ruby" /\ \A t \in Threads \ {Main} : at'[t] = at[t]
    BY <1>1, <1>2, <1>5 DEF Started, Go
  <2> QED
    BY <1>1, <1>2, <2>1 DEF Staged
<1>6. CASE Gone
  <2>1. \A t \in Threads : at'[t] = "over"
    BY <1>1, <1>6 DEF Gone
  <2> QED
    BY <1>1, <1>2, <2>1 DEF Staged
<1>7. CASE Moves
  BY <1>1, <1>7, MovesStaged
<1>8. CASE UNCHANGED at
  BY <1>1, <1>8 DEF Staged, Threads
<1> QED
  BY <1>3, <1>4, <1>5, <1>6, <1>7, <1>8, NextMoves

-----------------------------------------------------------------------------
(* The counts *)

Uncounted == {"none", "born", "listening", "over"}
HandPlaces == {"push", "popped", "ready", "handler", "publish"}

LEMMA GoCounts ==
  ASSUME Shape, NEW t \in Threads, NEW from, NEW to \in Places, Go(t, from, to)
  PROVE  /\ Cardinality(Running) \in Nat /\ Cardinality(Running') \in Nat
         /\ Cardinality(InHand) \in Nat /\ Cardinality(InHand') \in Nat
         /\ t # Main /\ from \in Uncounted /\ to \notin Uncounted
               => Cardinality(Running') = Cardinality(Running) + 1
         /\ t # Main /\ from \notin Uncounted /\ to \in Uncounted
               => Cardinality(Running') = Cardinality(Running) - 1
         /\ t = Main \/ (from \in Uncounted <=> to \in Uncounted)
               => Cardinality(Running') = Cardinality(Running)
         /\ from \notin HandPlaces /\ to \in HandPlaces
               => Cardinality(InHand') = Cardinality(InHand) + 1
         /\ from \in HandPlaces /\ to \notin HandPlaces
               => Cardinality(InHand') = Cardinality(InHand) - 1
         /\ (from \in HandPlaces <=> to \in HandPlaces)
               => Cardinality(InHand') = Cardinality(InHand)
<1>1. /\ at \in [Threads -> Places] /\ at[t] = from
      /\ at' = [at EXCEPT ![t] = to] /\ at' \in [Threads -> Places]
  BY DEF Shape, Go
<1>2. at'[t] = to /\ \A x \in Threads : x # t => at'[x] = at[x]
  BY <1>1
<1>3. /\ Running \in SUBSET Threads /\ Running' \in SUBSET Threads
      /\ InHand \in SUBSET Threads /\ InHand' \in SUBSET Threads
      /\ \A x \in Threads :
            /\ x \in Running <=> x # Main /\ at[x] \notin Uncounted
            /\ x \in Running' <=> x # Main /\ at'[x] \notin Uncounted
            /\ x \in InHand <=> at[x] \in HandPlaces
            /\ x \in InHand' <=> at'[x] \in HandPlaces
  BY <1>1 DEF Running, InHand, Uncounted, HandPlaces
<1>4. \A x \in Threads : x # t => /\ (x \in Running <=> x \in Running')
                                 /\ (x \in InHand <=> x \in InHand')
  BY <1>2, <1>3
<1>5. /\ t \in Running <=> t # Main /\ from \notin Uncounted
      /\ t \in Running' <=> t # Main /\ to \notin Uncounted
      /\ t \in InHand <=> from \in HandPlaces
      /\ t \in InHand' <=> to \in HandPlaces
  BY <1>1, <1>2, <1>3
<1>6. /\ Cardinality(Running) \in Nat /\ Cardinality(Running') \in Nat
      /\ t \notin Running /\ t \in Running'
            => Cardinality(Running') = Cardinality(Running) + 1
      /\ t \in Running /\ t \notin Running'
            => Cardinality(Running') = Cardinality(Running) - 1
      /\ (t \in Running <=> t \in Running')
            => Cardinality(Running') = Cardinality(Running)
  BY <1>3, <1>4, OneMoves
<1>7. /\ Cardinality(InHand) \in Nat /\ Cardinality(InHand') \in Nat
      /\ t \notin InHand /\ t \in InHand'
            => Cardinality(InHand') = Cardinality(InHand) + 1
      /\ t \in InHand /\ t \notin InHand'
            => Cardinality(InHand') = Cardinality(InHand) - 1
      /\ (t \in InHand <=> t \in InHand')
            => Cardinality(InHand') = Cardinality(InHand)
  BY <1>3, <1>4, OneMoves
<1> QED
  BY <1>5, <1>6, <1>7

\* How a thread that moves is counted.
CountedMove(t, from, to) ==
    \/ /\ srv'.running = srv.running
       /\ t = Main \/ (from \in Uncounted <=> to \in Uncounted)
    \/ /\ srv'.running = srv.running + 1
       /\ t # Main /\ from \in Uncounted /\ to \notin Uncounted
    \/ /\ srv'.running = srv.running - 1
       /\ t # Main /\ from \notin Uncounted /\ to \in Uncounted

CountedMoves ==
    \E t \in Threads, from, to \in Places :
        Go(t, from, to) /\ CountedMove(t, from, to)

LEMMA MoveCounts ==
  ASSUME NEW t \in Threads, NEW from \in Places, NEW to \in Places,
         Go(t, from, to), CountedMove(t, from, to)
  PROVE  CountedMoves
BY DEF CountedMoves

LEMMA NextCounts ==
  ASSUME Shape, [Next]_vars
  PROVE  \/ Start \/ StartEvals \/ Gone \/ CountedMoves
         \/ UNCHANGED at /\ srv'.running = srv.running
<1> USE DEF Places, ShutdownSteps, Parts, Uncounted, CountedMove
<1>1. srv \in Servers
  BY DEF Shape
<1>2. ASSUME NEW parts, Using(parts) PROVE srv'.running = srv.running
  BY <1>1, <1>2 DEF Using, Servers
<1>3. ASSUME NEW d, Count(d) PROVE srv'.running = srv.running + d
  BY <1>1, <1>3 DEF Count, Servers
<1>4. srv.running + (-1) = srv.running - 1
  BY <1>1 DEF Servers
<1>5. /\ Main \in Rubies /\ Listener \in Threads /\ Listener # Main
      /\ Rubies \subseteq Threads /\ Loops \subseteq Threads /\ Main \notin Loops
      /\ Main \notin Evals
  BY ThreadsAssumption DEF Rubies, Threads
<1>6. ASSUME ListenStep PROVE CountedMoves
  <2>1. CASE Accept
    <3>1. Go(Listener, "poll", "top") /\ srv'.running = srv.running
      BY <1>2, <2>1 DEF Accept
    <3> QED
      BY <1>5, <3>1, MoveCounts
  <2>2. CASE PollEnds
    <3>1. srv'.running = srv.running
      BY <1>1, <2>2 DEF PollEnds, Servers
    <3>2. Go(Listener, "poll", "top") \/ Go(Listener, "poll", "done")
      BY <2>2 DEF PollEnds
    <3> QED
      BY <1>5, <3>1, <3>2, MoveCounts
  <2>3. ASSUME Go(Listener, "born", "top"), Count(1) PROVE CountedMoves
    <3>1. srv'.running = srv.running + 1
      BY <1>3, <2>3
    <3> QED
      BY <1>5, <2>3, <3>1, MoveCounts
  <2>4. ASSUME Go(Listener, "done", "over"), Count(-1) PROVE CountedMoves
    <3>1. srv'.running = srv.running - 1
      BY <1>3, <1>4, <2>4
    <3> QED
      BY <1>5, <2>4, <3>1, MoveCounts
  <2>5. ASSUME Go(Listener, "top", IF srv.active THEN "poll" ELSE "done"), UNCHANGED srv
        PROVE  CountedMoves
    <3>1. Go(Listener, "top", "poll") \/ Go(Listener, "top", "done")
      BY <2>5
    <3> QED
      BY <1>5, <2>5, <3>1, MoveCounts
  <2> QED
    BY <1>6, <2>1, <2>2, <2>3, <2>4, <2>5 DEF ListenStep
<1>7. ASSUME NEW l \in Loops, LoopStep(l) PROVE CountedMoves
  <2>1. l \in Threads /\ l # Main
    BY <1>5
  <2>2. CASE LoopBegin(l)
    <3>1. \/ Go(l, "born", "listening") /\ srv'.running = srv.running
          \/ Go(l, "listening", "top") /\ srv'.running = srv.running + 1
      BY <1>2, <1>3, <2>2 DEF LoopBegin
    <3> QED
      BY <2>1, <3>1, MoveCounts
  <2>3. CASE LoopTop(l)
    <3>1. \/ /\ Go(l, "top", "pop") \/ Go(l, "top", "done")
             /\ srv'.running = srv.running
          \/ Go(l, "done", "over") /\ srv'.running = srv.running - 1
      BY <1>3, <1>4, <2>3 DEF LoopTop
    <3> QED
      BY <2>1, <3>1, MoveCounts
  <2>4. CASE LoopPop(l)
    <3>1. /\ Go(l, "pop", "pop") \/ Go(l, "pop", "pubs")
          /\ srv'.running = srv.running
      BY <1>2, <2>4 DEF LoopPop
    <3> QED
      BY <2>1, <3>1, MoveCounts
  <2>5. CASE LoopPubs(l)
    <3>1. /\ Go(l, "pubs", "pubs") \/ Go(l, "pubs", "go")
          /\ srv'.running = srv.running
      BY <1>2, <2>5 DEF LoopPubs
    <3> QED
      BY <2>1, <3>1, MoveCounts
  <2>6. CASE LoopRead(l) \/ LoopPush(l) \/ LoopIdle(l)
    <3>1. /\ \/ Go(l, "go", "push") \/ Go(l, "push", "go") \/ Go(l, "go", "top")
          /\ srv'.running = srv.running
      BY <1>2, <2>6 DEF LoopRead, LoopPush, LoopIdle
    <3> QED
      BY <2>1, <3>1, MoveCounts
  <2> QED
    BY <1>7, <2>2, <2>3, <2>4, <2>5, <2>6 DEF LoopStep
<1>8. ASSUME NEW t \in Rubies,
             \/ RubyStep(t) \/ TakeGvl(t) \/ HandlerYield(t) \/ HandlerPublish(t)
             \/ Respond(t) \/ CallShutdown(t)
      PROVE  \/ Gone \/ CountedMoves
             \/ UNCHANGED at /\ srv'.running = srv.running
  <2>1. t \in Threads /\ (t \in Evals => t # Main)
    BY <1>5
  <2>2. ASSUME NEW from \in Places \ Uncounted, NEW to \in Places \ Uncounted,
               Go(t, from, to), srv'.running = srv.running
        PROVE  CountedMoves
    BY <2>1, <2>2, MoveCounts
  <2>3. CASE EvalTop(t)
    <3>1. \/ /\ Go(t, "born", "top") /\ t \in Evals
             /\ srv'.running = srv.running + 1
          \/ /\ \/ Go(t, "top", "evalpop") \/ Go(t, "top", "done")
                \/ Go(t, "done", "ruby")
             /\ srv'.running = srv.running
          \/ /\ Go(t, "done", "over") /\ t \in Evals
             /\ srv'.running = srv.running - 1
      BY <1>3, <1>4, <2>3 DEF EvalTop
    <3> QED
      BY <2>1, <2>2, <3>1, MoveCounts
  <2>4. CASE EvalPop(t)
    <3>1. /\ Go(t, "evalpop", "popped") \/ Go(t, "evalpop", "check")
          /\ srv'.running = srv.running
      BY <1>2, <2>4 DEF EvalPop
    <3> QED
      BY <2>2, <3>1
  <2>5. CASE PublishPush(t)
    <3>1. \/ Go(t, "publish", "handler") /\ srv'.running = srv.running
          \/ UNCHANGED at /\ srv'.running = srv.running
      BY <1>2, <2>5 DEF PublishPush
    <3> QED
      BY <2>2, <3>1
  <2>6. CASE EvalCheck(t)
    <3>1. srv'.running = srv.running
      BY <1>1, <2>6 DEF EvalCheck, Servers
    <3>2. \/ Go(t, "check", "enter") \/ Go(t, "check", "done") \/ Go(t, "check", "top")
      BY <2>6 DEF EvalCheck
    <3> QED
      BY <2>2, <3>1, <3>2
  <2>7. CASE Enter(t)
    <3>1. /\ \/ Go(t, "enter", "claim") \/ Go(t, "enter", "exit")
             \/ Go(t, "enter", "ruby")
          /\ srv'.running = srv.running
      BY <2>7 DEF Enter, Over
    <3> QED
      BY <2>2, <3>1
  <2>8. CASE Claim(t)
    <3>1. srv'.running = srv.running
      BY <1>1, <2>8 DEF Claim, Servers
    <3>2. Go(t, "claim", "wait") \/ Go(t, "claim", "binds")
      BY <2>8 DEF Claim
    <3> QED
      BY <2>2, <3>1, <3>2
  <2>9. CASE Wait(t)
    <3>1. /\ Go(t, "wait", "runners") \/ Go(t, "runners", "hooks")
          /\ srv'.running = srv.running
      BY <2>9 DEF Wait
    <3> QED
      BY <2>2, <3>1
  <2>10. CASE Free(t)
    <3>1. srv'.running = srv.running
      BY <1>1, <2>10 DEF Free, Servers
    <3>2. \/ Go(t, "hooks", "binds") \/ Go(t, "binds", "con_queue")
          \/ Go(t, "con_queue", "loops") \/ Go(t, "loops", "eval_queue")
          \/ Go(t, "eval_queue", "exit") \/ Go(t, "eval_queue", "ruby")
      BY <2>10 DEF Free, Over
    <3> QED
      BY <2>2, <3>1, <3>2
  <2>11. CASE Exit(t)
    BY <2>11 DEF Exit
  <2>12. CASE TakeGvl(t)
    <3>1. /\ Go(t, "popped", "handler") \/ Go(t, "ready", "handler")
          /\ srv'.running = srv.running
      BY <1>2, <2>12 DEF TakeGvl
    <3> QED
      BY <2>2, <3>1
  <2>13. CASE HandlerYield(t) \/ HandlerPublish(t) \/ Respond(t)
    <3>1. /\ \/ Go(t, "handler", "ready") \/ Go(t, "handler", "publish")
             \/ Go(t, "handler", "check")
          /\ srv'.running = srv.running
      BY <2>13 DEF HandlerYield, HandlerPublish, Respond
    <3> QED
      BY <2>2, <3>1
  <2>14. CASE CallShutdown(t)
    <3>1. srv'.running = srv.running
      BY <1>1, <2>14 DEF CallShutdown, Servers
    <3>2. Go(t, "ruby", "enter") \/ Go(t, "handler", "enter")
      BY <2>14 DEF CallShutdown
    <3> QED
      BY <2>2, <3>1, <3>2
  <2> QED
    BY <1>8, <2>3, <2>4, <2>5, <2>6, <2>7, <2>8, <2>9, <2>10, <2>11, <2>12, <2>13,
       <2>14 DEF RubyStep
<1>9. ASSUME EndProc PROVE CountedMoves
  <2>1. srv'.running = srv.running
    BY <1>1, <1>9 DEF EndProc, Servers
  <2> QED
    BY <1>5, <1>9, <2>1 DEF EndProc, CountedMoves
<1>10. CASE CallServerShutdown \/ Started
  BY <1>5, <1>10 DEF CallServerShutdown, Started, CountedMoves
<1>11. CASE Signal
  BY <1>1, <1>11 DEF Signal, Servers
<1>12. CASE Start \/ StartEvals \/ Leave
  BY <1>12 DEF Leave
<1>13. CASE UNCHANGED vars
  BY <1>13 DEF vars
<1> QED
  BY <1>6, <1>7, <1>8, <1>9, <1>10, <1>11, <1>12, <1>13 DEF Next, MainStep

LEMMA RunningStep ==
  ASSUME Shape, Staged, srv.running = Cardinality(Running), [Next]_vars
  PROVE  srv'.running = Cardinality(Running')
<1>1. at \in [Threads -> Places] /\ srv \in Servers /\ at' \in [Threads -> Places]
  BY PlacesKept DEF Shape
<1>2. CASE CountedMoves
  <2>1. PICK t \in Threads, from, to \in Places :
           Go(t, from, to) /\ CountedMove(t, from, to)
    BY <1>2 DEF CountedMoves
  <2> QED
    BY <2>1, GoCounts DEF CountedMove
<1>3. CASE Start
  <2>1. Running = {}
    BY <1>1, <1>3 DEF Start, Staged, Running
  <2>2. Running' = {}
    <3>1. \A t \in Threads \ {Main} : at'[t] \in {"born", "none"}
      BY <1>1, <1>3 DEF Start
    <3> QED
      BY <1>1, <3>1 DEF Running
  <2>3. srv'.running = srv.running
    BY <1>1, <1>3 DEF Start, Servers
  <2> QED
    BY <2>1, <2>2, <2>3
<1>4. CASE StartEvals
  <2>1. \A t \in Threads \ {Main} :
           at'[t] = at[t] \/ (at[t] = "none" /\ at'[t] = "born")
    <3>1. at[Main] = "starting" /\ srv.pool \subseteq Evals
      BY <1>1, <1>4, LoopsAssumption DEF StartEvals, Servers
    <3>2. \A t \in srv.pool : at[t] = "none"
      BY <3>1 DEF Staged
    <3>3. CASE srv.pool = {}
      BY <1>1, <1>4, <3>3 DEF StartEvals, Evaluate
    <3>4. CASE srv.pool # {}
      <4>1. at' = [t \in DOMAIN at |->
                    IF t \in srv.pool THEN "born"
                    ELSE IF t = Main THEN "started" ELSE at[t]]
        BY <1>4, <3>4 DEF StartEvals, Evaluate
      <4> QED
        BY <1>1, <3>2, <4>1
    <3> QED
      BY <3>3, <3>4
  <2>2. Running' = Running
    BY <1>1, <2>1 DEF Running
  <2> QED
    BY <1>4, <2>2 DEF StartEvals
<1>5. CASE Gone
  <2>1. Running' = {}
    BY <1>5 DEF Gone, Running
  <2>2. srv'.running = 0
    BY <1>1, <1>5 DEF Gone, Servers
  <2> QED
    BY <2>1, <2>2, FS_EmptySet
<1>6. CASE UNCHANGED at /\ srv'.running = srv.running
  BY <1>6 DEF Running
<1> QED
  BY <1>2, <1>3, <1>4, <1>5, <1>6, NextCounts

\* A connection is in the queue, or a loop took it.
LEMMA AcceptedStep ==
  ASSUME Shape, \A l \in Loops : q.con + q.has[l] <= n.accepted, [Next]_vars
  PROVE  \A l \in Loops : q'.con + q'.has[l] <= n'.accepted
<1>1. /\ q \in Queues /\ n \in Counts
      /\ q.con \in Nat /\ q.has \in [Loops -> Nat] /\ n.accepted \in Nat
  BY BoundsAssumption DEF Shape, Queues, Counts
<1>2. CASE Accept
  <2>1. /\ q'.con = q.con + 1 /\ q'.has = q.has /\ n'.accepted = n.accepted + 1
    BY <1>1, <1>2 DEF Accept, Queues, Counts
  <2> QED
    BY <1>1, <2>1
<1>3. ASSUME NEW l \in Loops, LoopPop(l), q.con > 0
      PROVE  \A k \in Loops : q'.con + q'.has[k] <= n'.accepted
  <2>1. /\ q'.con = q.con - 1 /\ q'.has = [q.has EXCEPT ![l] = @ + 1] /\ n' = n
    BY <1>1, <1>3 DEF LoopPop, Queues
  <2>2. \A k \in Loops : q'.has[k] <= q.has[k] + 1
    BY <1>1, <2>1
  <2> QED
    BY <1>1, <2>1, <2>2
<1>4. ASSUME q'.con = q.con, q'.has = q.has, n'.accepted = n.accepted
      PROVE  \A l \in Loops : q'.con + q'.has[l] <= n'.accepted
  BY <1>4
<1>5. ASSUME NEW l \in Loops, LoopPop(l), ~(q.con > 0)
      PROVE  q' = q /\ n' = n
  BY <1>5 DEF LoopPop
<1>6. ASSUME NEW l \in Loops, LoopPubs(l) \/ LoopPush(l)
      PROVE  q'.con = q.con /\ q'.has = q.has /\ n' = n
  BY <1>1, <1>6 DEF LoopPubs, LoopPush, Queues
<1>7. ASSUME NEW t \in Rubies, EvalPop(t) \/ PublishPush(t)
      PROVE  q'.con = q.con /\ q'.has = q.has /\ n' = n
  BY <1>1, <1>7 DEF EvalPop, PublishPush, Queues
<1>8. ASSUME \/ \E l \in Loops : LoopRead(l)
             \/ \E t \in Rubies : HandlerPublish(t) \/ Respond(t)
      PROVE  q' = q /\ n'.accepted = n.accepted
  BY <1>1, <1>8 DEF LoopRead, HandlerPublish, Respond, Counts
<1>9. \/ Accept \/ \E l \in Loops : LoopPop(l) \/ LoopPubs(l) \/ LoopPush(l) \/ LoopRead(l)
      \/ \E t \in Rubies : EvalPop(t) \/ PublishPush(t) \/ HandlerPublish(t) \/ Respond(t)
      \/ UNCHANGED <<q, n>>
  BY DEF Next, MainStep, Start, StartEvals, Started, Leave, Gone, EndProc, Signal,
         CallServerShutdown, ListenStep, PollEnds, LoopStep, LoopBegin,
         LoopTop, LoopIdle, RubyStep, EvalTop, EvalCheck, Enter, Claim, Wait,
         Free, Exit, TakeGvl, HandlerYield, CallShutdown, vars
<1> QED
  BY <1>2, <1>3, <1>4, <1>5, <1>6, <1>7, <1>8, <1>9

\* No thread takes a request in hand.
NoMore == \A t \in Threads : at'[t] \in HandPlaces => at[t] \in HandPlaces

LEMMA NextHands ==
  ASSUME Shape, [Next]_vars
  PROVE  \/ /\ NoMore /\ q'.eval = q.eval
            /\ n'.asked = n.asked /\ n'.answered = n.answered
         \/ \E l \in Loops : LoopRead(l) \/ LoopPush(l)
         \/ \E t \in Rubies : (EvalPop(t) /\ q.eval > 0) \/ Respond(t)
<1> USE DEF HandPlaces, NoMore
<1>1. /\ at \in [Threads -> Places] /\ q \in Queues /\ n \in Counts
      /\ DOMAIN at = Threads
  BY DEF Shape
<1>2. ASSUME NEW t, NEW from, NEW to, Go(t, from, to),
             to \in HandPlaces => from \in HandPlaces
      PROVE  NoMore
  BY <1>1, <1>2 DEF Go
<1>3. Gone => NoMore /\ UNCHANGED <<q, n>>
  BY <1>1 DEF Gone
<1>4. Start => NoMore /\ UNCHANGED <<q, n>>
  BY <1>1 DEF Start
<1>5. StartEvals => NoMore /\ UNCHANGED <<q, n>>
  BY <1>1 DEF StartEvals, Evaluate
<1>6. Started \/ EndProc \/ CallServerShutdown => NoMore /\ UNCHANGED <<q, n>>
  BY <1>2 DEF Started, EndProc, CallServerShutdown
<1>7. CASE Signal \/ UNCHANGED vars
  BY <1>7 DEF Signal, vars
<1>8. Accept => /\ NoMore /\ q'.eval = q.eval
                /\ n'.asked = n.asked /\ n'.answered = n.answered
  BY <1>1, <1>2 DEF Accept, Queues, Counts
<1>9. PollEnds => NoMore /\ UNCHANGED <<q, n>>
  BY <1>2 DEF PollEnds
<1>10. ASSUME Go(Listener, "top", IF srv.active THEN "poll" ELSE "done") PROVE NoMore
  BY <1>2, <1>10
<1>11. ASSUME ListenStep
       PROVE  /\ NoMore /\ q'.eval = q.eval
              /\ n'.asked = n.asked /\ n'.answered = n.answered
  BY <1>2, <1>8, <1>9, <1>10, <1>11 DEF ListenStep
<1>12. ASSUME NEW l \in Loops, LoopBegin(l) \/ LoopTop(l) \/ LoopIdle(l)
       PROVE  NoMore /\ UNCHANGED <<q, n>>
  BY <1>2, <1>12 DEF LoopBegin, LoopTop, LoopIdle
<1>13. ASSUME NEW l \in Loops, LoopPop(l) \/ LoopPubs(l)
       PROVE  NoMore /\ UNCHANGED n /\ q'.eval = q.eval
  BY <1>1, <1>2, <1>13 DEF LoopPop, LoopPubs, Queues
<1>14. ASSUME NEW t \in Rubies, EvalTop(t)
       PROVE  NoMore /\ UNCHANGED <<q, n>>
  BY <1>2, <1>14 DEF EvalTop
<1>15. ASSUME NEW t \in Rubies, EvalPop(t), ~(q.eval > 0)
       PROVE  NoMore /\ UNCHANGED <<q, n>>
  BY <1>2, <1>15 DEF EvalPop
<1>16. ASSUME NEW t \in Rubies, PublishPush(t)
       PROVE  NoMore /\ UNCHANGED n /\ q'.eval = q.eval
  BY <1>1, <1>2, <1>16 DEF PublishPush, Queues
<1>17. ASSUME NEW t \in Rubies, EvalCheck(t) \/ Enter(t) \/ Claim(t)
       PROVE  NoMore /\ UNCHANGED <<q, n>>
  BY <1>2, <1>17 DEF EvalCheck, Enter, Over, Claim
<1>18. ASSUME NEW t \in Rubies, Wait(t) \/ Free(t)
       PROVE  NoMore /\ UNCHANGED <<q, n>>
  BY <1>2, <1>18 DEF Wait, Free, Over
<1>19. ASSUME NEW t \in Rubies, TakeGvl(t) \/ HandlerYield(t) \/ CallShutdown(t)
       PROVE  NoMore /\ UNCHANGED <<q, n>>
  BY <1>2, <1>19 DEF TakeGvl, HandlerYield, CallShutdown
<1>20. ASSUME NEW t \in Rubies, HandlerPublish(t)
       PROVE  NoMore /\ q' = q /\ n'.asked = n.asked /\ n'.answered = n.answered
  BY <1>1, <1>2, <1>20 DEF HandlerPublish, Counts
<1> HIDE DEF NoMore
<1>22. ASSUME NEW t \in Rubies, RubyStep(t)
       PROVE  \/ NoMore /\ UNCHANGED n /\ q'.eval = q.eval
              \/ EvalPop(t) /\ q.eval > 0
  BY <1>3, <1>14, <1>15, <1>16, <1>17, <1>18, <1>22 DEF RubyStep, Exit
<1>23. ASSUME NEW l \in Loops, LoopStep(l)
       PROVE  \/ NoMore /\ UNCHANGED n /\ q'.eval = q.eval
              \/ LoopRead(l) \/ LoopPush(l)
  BY <1>12, <1>13, <1>23 DEF LoopStep
<1>24. MainStep => NoMore /\ UNCHANGED <<q, n>>
  BY <1>3, <1>4, <1>5, <1>6 DEF MainStep, Leave
<1> QED
  BY <1>6, <1>7, <1>11, <1>19, <1>20, <1>22, <1>23, <1>24 DEF Next

LEMMA HandsStep ==
  ASSUME Shape, q.eval + Cardinality(InHand) + n.answered <= n.asked, [Next]_vars
  PROVE  q'.eval + Cardinality(InHand') + n'.answered <= n'.asked
<1> USE DEF HandPlaces
<1>1. /\ at \in [Threads -> Places] /\ at' \in [Threads -> Places]
      /\ q \in Queues /\ n \in Counts
      /\ q.eval \in Nat /\ n.answered \in Nat /\ n.asked \in Nat
  BY PlacesKept, SizesAssumption, BoundsAssumption DEF Shape, Queues, Counts
<1>2. Rubies \subseteq Threads /\ Loops \subseteq Threads
  BY ThreadsFinite DEF Threads
<1>3. InHand \in SUBSET Threads /\ InHand' \in SUBSET Threads
      /\ Cardinality(InHand) \in Nat /\ Cardinality(InHand') \in Nat
      /\ IsFiniteSet(InHand)
  BY ThreadsFinite, FS_Subset, FS_CardinalityType DEF InHand
<1>4. CASE NoMore /\ q'.eval = q.eval /\ n'.asked = n.asked /\ n'.answered = n.answered
  <2>1. InHand' \subseteq InHand
    BY <1>4 DEF InHand, NoMore
  <2>2. Cardinality(InHand') <= Cardinality(InHand)
    BY <1>3, <2>1, FS_Subset
  <2> QED
    BY <1>1, <1>3, <1>4, <2>2
<1>5. ASSUME NEW l \in Loops, LoopRead(l)
      PROVE  q'.eval + Cardinality(InHand') + n'.answered <= n'.asked
  <2>1. Go(l, "go", "push") /\ q' = q /\ n' = [n EXCEPT !.asked = @ + 1]
    BY <1>5 DEF LoopRead
  <2>2. n'.asked = n.asked + 1 /\ n'.answered = n.answered
    BY <1>1, <2>1 DEF Counts
  <2>3. Cardinality(InHand') = Cardinality(InHand) + 1
    BY <1>2, <2>1, GoCounts DEF Places
  <2> QED
    BY <1>1, <1>3, <2>1, <2>2, <2>3
<1>6. ASSUME NEW l \in Loops, LoopPush(l)
      PROVE  q'.eval + Cardinality(InHand') + n'.answered <= n'.asked
  <2>1. Go(l, "push", "go") /\ q' = [q EXCEPT !.eval = @ + 1] /\ n' = n
    BY <1>6 DEF LoopPush
  <2>2. q'.eval = q.eval + 1
    BY <1>1, <2>1 DEF Queues
  <2>3. Cardinality(InHand') = Cardinality(InHand) - 1
    BY <1>2, <2>1, GoCounts DEF Places
  <2> QED
    BY <1>1, <1>3, <2>1, <2>2, <2>3
<1>7. ASSUME NEW t \in Rubies, EvalPop(t), q.eval > 0
      PROVE  q'.eval + Cardinality(InHand') + n'.answered <= n'.asked
  <2>1. Go(t, "evalpop", "popped") /\ q' = [q EXCEPT !.eval = @ - 1] /\ n' = n
    BY <1>7 DEF EvalPop
  <2>2. q'.eval = q.eval - 1
    BY <1>1, <2>1 DEF Queues
  <2>3. Cardinality(InHand') = Cardinality(InHand) + 1
    BY <1>2, <2>1, GoCounts DEF Places
  <2> QED
    BY <1>1, <1>3, <2>1, <2>2, <2>3
<1>8. ASSUME NEW t \in Rubies, Respond(t)
      PROVE  q'.eval + Cardinality(InHand') + n'.answered <= n'.asked
  <2>1. Go(t, "handler", "check") /\ q' = q /\ n' = [n EXCEPT !.answered = @ + 1]
    BY <1>8 DEF Respond
  <2>2. n'.asked = n.asked /\ n'.answered = n.answered + 1
    BY <1>1, <2>1 DEF Counts
  <2>3. Cardinality(InHand') = Cardinality(InHand) - 1
    BY <1>2, <2>1, GoCounts DEF Places
  <2> QED
    BY <1>1, <1>3, <2>1, <2>2, <2>3
<1> QED
  BY <1>4, <1>5, <1>6, <1>7, <1>8, NextHands

LEMMA CountedInit == Init => Counted
<1> SUFFICES ASSUME Init PROVE Counted
  OBVIOUS
<1>1. at \in [Threads -> Places]
  BY ShapeInit DEF Shape
<1>2. \A t \in Threads : at[t] \in {"none", "config"} /\ (t # Main => at[t] = "none")
  BY DEF Init, Threads
<1>3. Running = {} /\ InHand = {}
  BY <1>1, <1>2 DEF Running, InHand
<1>4. Cardinality(Running) = 0 /\ Cardinality(InHand) = 0
  BY <1>3, FS_EmptySet
<1>5. /\ srv.running = 0 /\ q.con = 0 /\ q.eval = 0 /\ n.answered = 0
      /\ n.asked = 0 /\ n.accepted = 0 /\ \A l \in Loops : q.has[l] = 0
  BY DEF Init
<1> QED
  BY <1>4, <1>5 DEF Counted

LEMMA CountedStep ==
  ASSUME Shape, Staged, Counted, [Next]_vars
  PROVE  Counted'
BY RunningStep, AcceptedStep, HandsStep DEF Counted

\* The counts keep the numbers of the type invariant in their bounds.
LEMMA CountedTypes ==
  ASSUME Shape, Counted
  PROVE  TypeOK
<1>1. /\ srv \in Servers /\ q \in Queues /\ n \in Counts
      /\ at \in [Threads -> Places]
  BY DEF Shape
<1>2. srv.running \in 0..(1 + Cardinality(Loops \cup Evals))
  <2>1. Running \subseteq (Loops \cup Evals) \cup {Listener}
    BY <1>1 DEF Running, Threads
  <2>2. IsFiniteSet((Loops \cup Evals) \cup {Listener})
    BY ThreadsFinite, FS_AddElement
  <2>3. /\ Cardinality(Running) \in Nat
        /\ Cardinality(Running) <= Cardinality((Loops \cup Evals) \cup {Listener})
    BY <2>1, <2>2, FS_Subset, FS_CardinalityType
  <2> QED
    BY <2>3, ThreadsFinite DEF Counted
<1>3. /\ n.accepted \in 0..MaxCons /\ q.con \in Nat
      /\ \A l \in Loops : q.has[l] \in Nat /\ q.con + q.has[l] <= n.accepted
  BY <1>1 DEF Counted, Queues, Counts
<1>4. \A l \in Loops : q.has[l] \in 0..MaxCons
  BY <1>3, BoundsAssumption
<1>5. q.con \in 0..MaxCons
  BY <1>3, BoundsAssumption, LoopsAssumption
<1>6. n.answered \in 0..MaxReq
  <2>1. /\ q.eval \in Nat /\ n.answered \in Nat /\ n.asked \in 0..MaxReq
        /\ Cardinality(InHand) \in Nat
    BY <1>1, SizesAssumption, ThreadsFinite, FS_Subset, FS_CardinalityType
       DEF Queues, Counts, InHand
  <2> QED
    BY <2>1, BoundsAssumption DEF Counted
<1>7. q \in [con : 0..MaxCons, eval : 0..EvalSize, pub : [Loops -> 0..PubSize],
             has : [Loops -> 0..MaxCons]]
  BY <1>1, <1>4, <1>5 DEF Queues
<1>8. n \in [accepted : 0..MaxCons, asked : 0..MaxReq, published : 0..MaxPub,
             answered : 0..MaxReq]
  BY <1>1, <1>6 DEF Counts
<1>9. srv \in [pool : Pools, ends : EndSets, active : BOOLEAN, inited : BOOLEAN,
               running : 0..(1 + Cardinality(Loops \cup Evals)),
               stop : BOOLEAN, shutter : Rubies \cup {NULL},
               freed : SUBSET Parts, wild : BOOLEAN, exited : BOOLEAN]
  BY <1>1, <1>2 DEF Servers
<1> QED
  BY <1>1, <1>7, <1>8, <1>9 DEF TypeOK, Shape, Threads

\* The queues keep to their capacity, each count to what it counts, and nothing
\* is answered or taken that was not asked or accepted (queue.c:86-131,
\* server.c:199-247, 263-311, con.c:1344-1391, rserver.c:785-803, 881-917).
THEOREM TypeCorrect == Spec => []TypeOK
<1>1. Init => Shape /\ Staged /\ Counted
  BY ShapeInit, StagedInit, CountedInit
<1>2. Shape /\ Staged /\ Counted /\ [Next]_vars => (Shape /\ Staged /\ Counted)'
  BY ShapeStep, StagedStep, CountedStep
<1>3. Shape /\ Staged /\ Counted => TypeOK
  BY CountedTypes
<1> QED
  BY <1>1, <1>2, <1>3, PTL DEF Spec

-----------------------------------------------------------------------------
(* Whom a shutdown waits for *)

\* All the threads of a set run if as many run as there are.
LEMMA AllRun ==
  ASSUME Shape, srv.running = Cardinality(Running),
         NEW S \in SUBSET Threads, Running \subseteq S, srv.running >= Cardinality(S)
  PROVE  \A t \in S : at[t] \notin {"born", "listening"}
<1>1. IsFiniteSet(S) /\ Cardinality(S) \in Nat /\ Cardinality(Running) \in Nat
      /\ Cardinality(Running) <= Cardinality(S)
  BY ThreadsFinite, FS_Subset, FS_CardinalityType
<1>2. Cardinality(Running) = Cardinality(S)
  BY <1>1
<1>3. Running = S
  BY <1>1, <1>2, FS_Subset
<1> QED
  BY <1>3 DEF Running

LEMMA AwaitedStep ==
  ASSUME Slow = FALSE, Shape, Staged, srv.running = Cardinality(Running),
         Awaited, [Next]_vars
  PROVE  Awaited'
<1>1. /\ at \in [Threads -> Places] /\ Up' = Up /\ srv.pool \subseteq Evals
      /\ srv.running \in Int
  BY ServerKept, LoopsAssumption DEF Shape, Up, Servers
<1>2. /\ Main \notin Loops \cup Evals \cup {Listener} /\ Listener \notin Loops \cup Evals
      /\ Loops \cap Evals = {}
      /\ Loops \subseteq Threads /\ Evals \subseteq Threads
      /\ Main \in Threads /\ Listener \in Threads /\ Up \subseteq Loops
  BY ThreadsAssumption, LoopsAssumption DEF Threads, Up
<1>3. /\ IsFiniteSet(Up) /\ Cardinality(Up) \in Nat
      /\ IsFiniteSet(Up \cup {Listener})
      /\ Cardinality(Up \cup {Listener}) = Cardinality(Up) + 1
      /\ IsFiniteSet(srv.pool) /\ Cardinality(srv.pool) \in Nat
      /\ Cardinality((Up \cup {Listener}) \cup srv.pool)
            = Cardinality(Up) + 1 + Cardinality(srv.pool)
  <2>1. IsFiniteSet(Up) /\ IsFiniteSet(srv.pool)
    BY <1>1, <1>2, ThreadsFinite, FS_Subset
  <2>2. /\ IsFiniteSet(Up \cup {Listener})
        /\ Cardinality(Up \cup {Listener}) = Cardinality(Up) + 1
    BY <1>2, <2>1, FS_AddElement
  <2>3. (Up \cup {Listener}) \cap srv.pool = {}
    BY <1>1, <1>2
  <2>4. /\ Cardinality(Up) \in Nat /\ Cardinality(srv.pool) \in Nat
        /\ Cardinality(Up \cup {Listener}) \in Nat
    BY <2>1, <2>2, FS_CardinalityType
  <2>5. Cardinality((Up \cup {Listener}) \cup srv.pool)
           = Cardinality(Up \cup {Listener}) + Cardinality(srv.pool)
    <3>1. Cardinality((Up \cup {Listener}) \cup srv.pool)
             = Cardinality(Up \cup {Listener}) + Cardinality(srv.pool)
                - Cardinality((Up \cup {Listener}) \cap srv.pool)
      BY <2>1, <2>2, FS_Union
    <3>2. Cardinality((Up \cup {Listener}) \cap srv.pool) = 0
      BY <2>3, FS_EmptySet
    <3> QED
      BY <2>4, <3>1, <3>2
  <2> QED
    BY <2>1, <2>2, <2>4, <2>5
<1>4. CASE Start
  <2>1. /\ at'[Main] = "starting" /\ at'[Listener] = "born"
        /\ \A l \in Up : at'[l] = "born"
    BY <1>1, <1>2, <1>4 DEF Start
  <2> QED
    BY <1>1, <2>1 DEF Awaited
<1>5. CASE StartEvals
  <2>1. /\ at[Main] = "starting" /\ \A e \in Evals : at[e] = "none"
        /\ \A l \in Loops \ Up : at[l] \in {"none", "over"}
    BY <1>5 DEF StartEvals, Staged
  <2>2. \A t \in Up \cup {Listener} : at[t] \notin {"born", "listening"}
    <3>1. CASE Begun
      BY <1>1, <1>2, <3>1 DEF Begun
    <3>2. CASE srv.running >= 1 + Cardinality(Up)
      <4>1. Running \subseteq Up \cup {Listener}
        BY <1>1, <2>1 DEF Running, Threads
      <4> QED
        BY <1>2, <1>3, <3>2, <4>1, AllRun
    <3> QED
      BY <1>5, <3>1, <3>2 DEF StartEvals
  <2>3. /\ \A t \in Up \cup {Listener} : at'[t] = at[t]
        /\ \/ at'[Main] = "started"
           \/ \A e \in Evals : at'[e] = "none"
    <3>1. CASE srv.pool = {}
      BY <1>1, <1>2, <1>5, <2>1, <3>1 DEF StartEvals, Evaluate
    <3>2. CASE srv.pool # {}
      <4>1. at' = [t \in DOMAIN at |->
                    IF t \in srv.pool THEN "born"
                    ELSE IF t = Main THEN "started" ELSE at[t]]
        BY <1>5, <3>2 DEF StartEvals, Evaluate
      <4> QED
        BY <1>1, <1>2, <4>1
    <3> QED
      BY <3>1, <3>2
  <2> QED
    BY <1>1, <2>1, <2>2, <2>3 DEF Awaited
<1>6. CASE Started
  <2>1. /\ at[Main] = "started" /\ at'[Main] = "ruby"
        /\ \A t \in Threads \ {Main} : at'[t] = at[t]
    BY <1>1, <1>2, <1>6 DEF Started, Go
  <2>2. /\ \A e \in Evals \ srv.pool : at[e] \in {"none", "over"}
        /\ \A l \in Loops \ Up : at[l] \in {"none", "over"}
    BY DEF Staged
  <2>3. \A e \in srv.pool : at[e] \notin {"born", "listening"}
    <3>1. CASE Begun
      BY <1>1, <1>2, <3>1 DEF Begun
    <3>2. CASE srv.running >= 1 + Cardinality(Up) + Cardinality(srv.pool)
      <4>1. Running \subseteq (Up \cup {Listener}) \cup srv.pool
        BY <1>1, <2>2 DEF Running, Threads
      <4>2. (Up \cup {Listener}) \cup srv.pool \in SUBSET Threads
        BY <1>1, <1>2
      <4>3. srv.running >= Cardinality((Up \cup {Listener}) \cup srv.pool)
        BY <1>1, <1>3, <3>2
      <4> QED
        BY <4>1, <4>2, <4>3, AllRun
    <3> QED
      BY <1>6, <3>1, <3>2 DEF Started
  <2> QED
    BY <1>1, <1>2, <2>1, <2>2, <2>3 DEF Awaited
<1>7. CASE Gone
  <2>1. \A t \in Threads : at'[t] = "over"
    BY <1>1, <1>7 DEF Gone
  <2> QED
    BY <1>1, <1>2, <2>1 DEF Awaited
<1>8. CASE Moves
  <2>1. PICK t \in Threads, from, to \in Places : Go(t, from, to) /\ Fits(t, from, to)
    BY <1>8 DEF Moves
  <2>2. /\ at[t] = from /\ at'[t] = to
        /\ \A u \in Threads : u # t => at'[u] = at[u]
    BY <1>1, <2>1 DEF Go
  <2>3. /\ to \notin {"none", "born"} /\ (to = "listening" => from = "born")
        /\ t = Main => from \notin {"config", "starting", "started"}
    BY <1>2, <2>1 DEF Fits, LoopPlaces, ListenPlaces, EvalPlaces, Rubies,
                      ShutdownSteps, Parts
  <2>4. at[Main] \in {"config", "starting", "started"} => at'[Main] = at[Main]
    BY <1>2, <2>2, <2>3
  <2>5. at'[Main] \in {"config", "starting", "started"} => at'[Main] = at[Main]
    <3>1. t = Main => to \notin {"config", "starting", "started"}
      BY <1>2, <2>1 DEF Fits, LoopPlaces, ListenPlaces, EvalPlaces, Rubies,
                        ShutdownSteps, Parts
    <3> QED
      BY <1>2, <2>2, <3>1
  <2> QED
    BY <1>1, <1>2, <2>2, <2>3, <2>4, <2>5 DEF Awaited
<1>9. CASE UNCHANGED at
  BY <1>1, <1>9 DEF Awaited
<1> QED
  BY <1>4, <1>5, <1>6, <1>7, <1>8, <1>9, NextMoves

\* The count that a shutdown waits for is the number of threads that run, however
\* slow they are and in whatever ways the server is ended (server.c:120, 189,
\* con.c:1365, 1389, rserver.c:789, 801).
THEOREM RunningIsCounted == Spec => [](srv.running = Cardinality(Running))
<1>1. Init => Shape /\ Staged /\ Counted
  BY ShapeInit, StagedInit, CountedInit
<1>2. Shape /\ Staged /\ Counted /\ [Next]_vars => (Shape /\ Staged /\ Counted)'
  BY ShapeStep, StagedStep, CountedStep
<1>3. Counted => srv.running = Cardinality(Running)
  BY DEF Counted
<1> QED
  BY <1>1, <1>2, <1>3, PTL DEF Spec

\* If no thread takes longer to begin than a start waits, none of the loops it
\* created is missing in that count when a shutdown reads it (server.c:220-223,
\* 263, con.c:1365, 1389, rserver.c:904-913).
THEOREM CountIsTrue ==
  ASSUME Slow = FALSE
  PROVE  Spec => []RunningCounts
<1>1. Init => Shape /\ Staged /\ Counted /\ Awaited
  BY ShapeInit, StagedInit, CountedInit
<1>2. Shape /\ Staged /\ Counted /\ Awaited /\ [Next]_vars
         => (Shape /\ Staged /\ Counted /\ Awaited)'
  BY ShapeStep, StagedStep, CountedStep, AwaitedStep DEF Counted
<1>3. Shape /\ Staged /\ Counted /\ Awaited => RunningCounts
  <2> SUFFICES ASSUME Shape, Staged, Counted, Awaited PROVE RunningCounts
    OBVIOUS
  <2>1. ASSUME NEW t \in Rubies, at[t] \in ShutdownSteps
        PROVE  at[Main] \notin {"config", "starting"}
    BY <2>1 DEF Staged, Rubies, ShutdownSteps, Parts
  <2> QED
    BY <2>1 DEF RunningCounts, Counted, Awaited
<1> QED
  BY <1>1, <1>2, <1>3, PTL DEF Spec

-----------------------------------------------------------------------------
(* One shutdown *)

\* A step has nothing to do with the shutdown: whether one is asked for, who
\* runs it, how far it is.
Ends == ShutdownSteps \cup {"over", "config", "leaving"}
Aside ==
    /\ srv'.shutter = srv.shutter /\ srv'.inited = srv.inited
    /\ srv'.stop = srv.stop /\ srv'.active = srv.active
    /\ srv'.freed = srv.freed /\ srv'.exited = srv.exited
    /\ srv.freed = {} => srv'.wild = srv.wild
    /\ \A t \in Threads :
          at'[t] = at[t] \/ (at[t] \notin Ends /\ at'[t] \notin Ends \ {"over"})

LEMMA NextAside ==
  ASSUME Shape, Staged, [Next]_vars
  PROVE  \/ Aside
         \/ Gone /\ at[Main] # "config"
         \/ Start \/ EndProc \/ Signal \/ CallServerShutdown
         \/ PollEnds /\ "socket" \in srv.ends
         \/ \E t \in Rubies :
               \/ EvalCheck(t) /\ srv.stop /\ srv.shutter = NULL
               \/ Enter(t) \/ Claim(t) \/ Wait(t) \/ Free(t) \/ CallShutdown(t)
<1>1. /\ at \in [Threads -> Places] /\ srv \in Servers /\ DOMAIN at = Threads
  BY DEF Shape
<1> DEFINE Same == /\ srv'.shutter = srv.shutter /\ srv'.inited = srv.inited
                   /\ srv'.stop = srv.stop /\ srv'.active = srv.active
                   /\ srv'.freed = srv.freed /\ srv'.exited = srv.exited
                   /\ srv.freed = {} => srv'.wild = srv.wild
           Elsewhere == \A t \in Threads :
              at'[t] = at[t] \/ (at[t] \notin Ends /\ at'[t] \notin Ends \ {"over"})
<1>2. Same /\ Elsewhere => Aside
  BY DEF Aside
<1>3. ASSUME NEW parts, Using(parts) PROVE Same
  BY <1>1, <1>3 DEF Using, Servers
<1>4. ASSUME NEW d, Count(d) PROVE Same
  BY <1>1, <1>4 DEF Count, Servers
<1>5. UNCHANGED srv => Same
  OBVIOUS
<1>6. ASSUME NEW t, NEW from, NEW to, Go(t, from, to),
             from \notin Ends, to \notin Ends \ {"over"}
      PROVE  Elsewhere
  BY <1>1, <1>6 DEF Go
<1>7. UNCHANGED at => Elsewhere
  OBVIOUS
<1> HIDE DEF Same, Elsewhere
<1> USE DEF Ends, ShutdownSteps, Parts
<1>8. CASE StartEvals
  <2>1. at[Main] = "starting" /\ srv.pool \subseteq Evals
    BY <1>1, <1>8, LoopsAssumption DEF StartEvals, Servers
  <2>2. \A t \in srv.pool : at[t] = "none"
    BY <2>1 DEF Staged
  <2>3. \A t \in Threads :
           \/ at'[t] = at[t]
           \/ at[t] \in {"none", "starting"} /\ at'[t] \in {"born", "top", "started"}
    <3>1. CASE srv.pool = {}
      BY <1>1, <1>8, <2>1, <3>1 DEF StartEvals, Evaluate
    <3>2. CASE srv.pool # {}
      <4>1. at' = [t \in DOMAIN at |->
                    IF t \in srv.pool THEN "born"
                    ELSE IF t = Main THEN "started" ELSE at[t]]
        BY <1>8, <3>2 DEF StartEvals, Evaluate
      <4> QED
        BY <1>1, <2>1, <2>2, <4>1
    <3> QED
      BY <3>1, <3>2
  <2>4. Elsewhere
    BY <2>3 DEF Elsewhere
  <2> QED
    BY <1>2, <1>5, <1>8, <2>4 DEF StartEvals
<1>9. Started => Aside
  BY <1>2, <1>5, <1>6 DEF Started
<1>10. Accept => Aside
  BY <1>2, <1>3, <1>6 DEF Accept
<1>11. PollEnds => Aside \/ (PollEnds /\ "socket" \in srv.ends)
  BY <1>2, <1>5, <1>6 DEF PollEnds
<1>12. ASSUME Go(Listener, "top", IF srv.active THEN "poll" ELSE "done")
       PROVE  Elsewhere
  BY <1>6, <1>12
<1>13. ListenStep => Aside \/ (PollEnds /\ "socket" \in srv.ends)
  BY <1>2, <1>4, <1>5, <1>6, <1>10, <1>11, <1>12 DEF ListenStep
<1>14. ASSUME NEW l \in Loops, LoopBegin(l) \/ LoopTop(l) \/ LoopIdle(l) PROVE Aside
  <2>1. Go(l, "top", IF srv.active THEN "pop" ELSE "done") => Elsewhere
    BY <1>6
  <2> QED
    BY <1>2, <1>3, <1>4, <1>5, <1>6, <1>14, <2>1 DEF LoopBegin, LoopTop, LoopIdle
<1>15. ASSUME NEW l \in Loops, LoopPop(l) \/ LoopPubs(l) PROVE Aside
  BY <1>2, <1>3, <1>6, <1>15 DEF LoopPop, LoopPubs
<1>16. ASSUME NEW l \in Loops, LoopRead(l) \/ LoopPush(l) PROVE Aside
  BY <1>2, <1>3, <1>6, <1>16 DEF LoopRead, LoopPush
<1>17. ASSUME NEW t \in Rubies, EvalTop(t) PROVE Aside
  <2>1. Go(t, "top", IF srv.active THEN "evalpop" ELSE "done") => Elsewhere
    BY <1>6
  <2> QED
    BY <1>2, <1>4, <1>5, <1>6, <1>17, <2>1 DEF EvalTop
<1>18. ASSUME NEW t \in Rubies, EvalPop(t) PROVE Aside
  BY <1>2, <1>3, <1>6, <1>18 DEF EvalPop
<1>19. ASSUME NEW t \in Rubies, PublishPush(t) PROVE Aside
  BY <1>2, <1>3, <1>5, <1>6, <1>7, <1>19 DEF PublishPush
<1>20. ASSUME NEW t \in Rubies, TakeGvl(t) PROVE Aside
  BY <1>2, <1>3, <1>5, <1>6, <1>20 DEF TakeGvl
<1>21. ASSUME NEW t \in Rubies, HandlerYield(t) \/ HandlerPublish(t) \/ Respond(t)
       PROVE  Aside
  BY <1>2, <1>5, <1>6, <1>21 DEF HandlerYield, HandlerPublish, Respond
<1>22. ASSUME NEW t \in Rubies, EvalCheck(t), ~(srv.stop /\ srv.shutter = NULL)
       PROVE  Aside
  <2>1. Go(t, "check", IF srv.stop THEN "done" ELSE "top") => Elsewhere
    BY <1>6
  <2> QED
    BY <1>2, <1>5, <1>22, <2>1 DEF EvalCheck
<1>23. UNCHANGED vars => Aside
  BY <1>2, <1>5, <1>7 DEF vars
<1>24. ASSUME NEW l \in Loops, LoopStep(l) PROVE Aside
  BY <1>14, <1>15, <1>16, <1>24 DEF LoopStep
<1>25. ASSUME NEW t \in Rubies, RubyStep(t)
       PROVE  \/ Aside
              \/ Gone /\ at[Main] # "config"
              \/ EvalCheck(t) /\ srv.stop /\ srv.shutter = NULL
              \/ Enter(t) \/ Claim(t) \/ Wait(t) \/ Free(t)
  <2>1. Exit(t) => Gone /\ at[Main] # "config"
    BY DEF Exit, Staged, Rubies
  <2> QED
    BY <1>17, <1>18, <1>19, <1>22, <1>25, <2>1 DEF RubyStep
<1> QED
  BY <1>8, <1>9, <1>13, <1>20, <1>21, <1>23, <1>24, <1>25
     DEF Next, MainStep, Leave

LEMMA ShutInit == Init => Shut
<1> SUFFICES ASSUME Init PROVE Shut
  OBVIOUS
<1>1. \A t \in Threads : at[t] \in {"none", "config"}
  BY DEF Init, Threads
<1>2. Rubies \subseteq Threads /\ at[Main] = "config"
  BY ThreadsFinite DEF Init, Rubies, Threads
<1>3. srv.shutter = NULL /\ srv.inited = TRUE /\ srv.stop = FALSE
  BY DEF Init
<1> QED
  BY <1>1, <1>2, <1>3 DEF Shut, ShutdownSteps, Parts

LEMMA ShutStep ==
  ASSUME OneWay, Shape, Staged, Shut, [Next]_vars
  PROVE  Shut'
<1> USE DEF ShutdownSteps, Parts, Ends
<1>1. /\ at \in [Threads -> Places] /\ srv \in Servers
      /\ srv'.ends = srv.ends /\ srv.ends \in EndSets
  BY ServerKept DEF Shape, Servers
<1>2. /\ Rubies \subseteq Threads /\ Rubies = Evals \cup {Main} /\ NULL \notin Rubies
      /\ Main \notin Evals /\ Main # Listener /\ Main \in Threads
      /\ Listener \notin Rubies
  BY ThreadsFinite, ThreadsAssumption DEF Threads, Rubies
<1>3. srv.shutter \in Rubies \cup {NULL}
  BY <1>1 DEF Servers
<1>4. \/ srv.ends \subseteq {"exit", "socket"} /\ srv.shutter = NULL /\ ~srv.stop
      \/ /\ ~(srv.ends \subseteq {"exit", "socket"})
         /\ srv.ends \subseteq {"shutdown", "handler", "signal"}
         /\ at[Main] # "leaving"
         /\ srv.inited /\ at[Main] # "config" => srv.active
  BY <1>1 DEF OneWay, Shut
<1>5. CASE Aside
  <2>1. \A t \in Threads : at'[t] \in ShutdownSteps => at'[t] = at[t]
    BY <1>5 DEF Aside
  <2>2. srv.shutter # NULL => at'[srv.shutter] = at[srv.shutter]
    BY <1>2, <1>3, <1>5 DEF Aside, Shut
  <2>3. at'[Main] = "leaving" => at[Main] = "leaving"
    BY <1>2, <1>5 DEF Aside
  <2>4. at[Main] = "config" => at'[Main] = "config"
    BY <1>2, <1>5 DEF Aside
  <2>5. /\ srv'.shutter = srv.shutter /\ srv'.inited = srv.inited
        /\ srv'.stop = srv.stop /\ srv'.active = srv.active
    BY <1>5 DEF Aside
  <2> QED
    BY <1>1, <1>2, <1>3, <1>4, <2>1, <2>2, <2>3, <2>4, <2>5 DEF Shut
<1>6. CASE Start
  <2>1. /\ srv'.shutter = srv.shutter /\ srv'.inited = srv.inited
        /\ srv'.stop = srv.stop /\ srv'.active = TRUE
    BY <1>1, <1>6 DEF Start, Servers
  <2>2. at[Main] = "config" /\ \A t \in Threads : at'[t] \in {"starting", "born", "none"}
    BY <1>1, <1>6 DEF Start
  <2>3. srv.shutter = NULL
    BY <1>2, <1>3, <2>2 DEF Shut, Staged
  <2> QED
    BY <1>1, <1>2, <1>4, <2>1, <2>2, <2>3 DEF Shut
<1>7. CASE Gone /\ at[Main] # "config"
  <2>1. /\ srv'.shutter = srv.shutter /\ srv'.inited = srv.inited
        /\ srv'.stop = srv.stop /\ srv'.active = srv.active
    BY <1>1, <1>7 DEF Gone, Servers
  <2>2. \A t \in Threads : at'[t] = "over"
    BY <1>1, <1>7 DEF Gone
  <2> QED
    BY <1>1, <1>2, <1>3, <1>4, <1>7, <2>1, <2>2 DEF Shut
<1>8. CASE EndProc \/ (PollEnds /\ "socket" \in srv.ends)
  <2>1. srv.ends \subseteq {"exit", "socket"} /\ srv.shutter = NULL /\ ~srv.stop
    BY <1>4, <1>8 DEF EndProc
  <2>2. /\ srv'.shutter = srv.shutter /\ srv'.inited = srv.inited
        /\ srv'.stop = srv.stop
    BY <1>1, <1>8 DEF EndProc, PollEnds, Servers
  <2>3. \A t \in Threads : at'[t] = at[t] \/ at'[t] \in {"leaving", "top", "done"}
    BY <1>1, <1>8 DEF EndProc, PollEnds, Go
  <2>4. \A t \in Rubies : at[t] \notin ShutdownSteps
    BY <1>2, <2>1 DEF Shut
  <2> QED
    BY <1>1, <1>2, <1>4, <2>1, <2>2, <2>3, <2>4 DEF Shut
<1>9. CASE Signal
  <2>1. /\ srv'.shutter = srv.shutter /\ srv'.inited = srv.inited
        /\ srv'.active = srv.active /\ at' = at /\ "signal" \in srv.ends
    BY <1>1, <1>9 DEF Signal, Servers
  <2> QED
    BY <1>1, <1>4, <2>1 DEF Shut
<1>10. ~CallServerShutdown
  BY <1>4 DEF CallServerShutdown
<1>11. ASSUME NEW t \in Rubies, Go(t, "check", "enter") \/ Go(t, "ruby", "enter")
                                 \/ Go(t, "handler", "enter"),
              srv' = [srv EXCEPT !.shutter = t], srv.shutter = NULL,
              ~(srv.ends \subseteq {"exit", "socket"})
       PROVE  Shut'
  <2>1. /\ srv'.shutter = t /\ srv'.inited = srv.inited
        /\ srv'.stop = srv.stop /\ srv'.active = srv.active
    BY <1>1, <1>11 DEF Servers
  <2>2. /\ at'[t] = "enter" /\ t # NULL /\ at[t] # "config"
        /\ \A u \in Threads : u # t => at'[u] = at[u]
    BY <1>1, <1>2, <1>11 DEF Go
  <2>3. \A u \in Rubies : at[u] \notin ShutdownSteps
    BY <1>2, <1>11 DEF Shut
  <2>4. at[Main] = "config" => at'[Main] = "config"
    BY <1>2, <2>2
  <2> QED
    BY <1>1, <1>2, <1>4, <1>11, <2>1, <2>2, <2>3, <2>4 DEF Shut
<1>12. ASSUME NEW t \in Rubies, EvalCheck(t), srv.stop, srv.shutter = NULL
       PROVE  Shut'
  BY <1>4, <1>11, <1>12 DEF EvalCheck
<1>13. ASSUME NEW t \in Rubies, CallShutdown(t)
       PROVE  Shut'
  BY <1>4, <1>11, <1>13 DEF CallShutdown
<1>14. ASSUME NEW t \in Rubies, NEW from \in ShutdownSteps, NEW to \in ShutdownSteps,
              Go(t, from, to), srv'.shutter = srv.shutter,
              srv'.stop = srv.stop, to # "enter",
              \/ /\ srv'.inited = srv.inited /\ srv'.active = srv.active
                 /\ to = "claim" => srv.inited
              \/ srv'.inited = FALSE /\ to # "claim"
       PROVE  Shut'
  <2>1. /\ at[t] = from /\ at'[t] = to
        /\ \A u \in Threads : u # t => at'[u] = at[u]
    BY <1>1, <1>2, <1>14 DEF Go
  <2>2. t = srv.shutter /\ srv.shutter # NULL
    BY <1>2, <2>1, <1>14 DEF Shut
  <2>3. /\ at'[Main] = "leaving" => at[Main] = "leaving"
        /\ at[Main] = "config" => at'[Main] = "config"
    BY <1>2, <1>14, <2>1
  <2> QED
    BY <1>1, <1>2, <1>4, <1>14, <2>1, <2>2, <2>3 DEF Shut
<1>15. ASSUME NEW t \in Rubies, Over(t, "enter") \/ Over(t, "eval_queue")
       PROVE  Go(t, "enter", "exit") \/ Go(t, "eval_queue", "exit")
  <2>1. at[t] \in ShutdownSteps
    BY <1>15 DEF Over, Go
  <2> QED
    BY <1>15, <2>1 DEF Over, Shut
<1>16. ASSUME NEW t \in Rubies, Enter(t)
       PROVE  Shut'
  <2>1. UNCHANGED srv
    BY <1>16 DEF Enter
  <2>2. CASE srv.inited
    BY <1>14, <1>16, <2>1, <2>2 DEF Enter
  <2>3. CASE ~srv.inited
    BY <1>14, <1>15, <1>16, <2>1, <2>3 DEF Enter
  <2> QED
    BY <2>2, <2>3
<1>17. ASSUME NEW t \in Rubies, Claim(t)
       PROVE  Shut'
  <2>1. /\ srv'.inited = FALSE /\ srv'.shutter = srv.shutter /\ srv'.stop = srv.stop
    BY <1>1, <1>17 DEF Claim, Servers
  <2>2. Go(t, "claim", "wait") \/ Go(t, "claim", "binds")
    BY <1>17 DEF Claim
  <2> QED
    BY <1>14, <2>1, <2>2
<1>18. ASSUME NEW t \in Rubies, Wait(t)
       PROVE  Shut'
  BY <1>14, <1>18 DEF Wait
<1>19. ASSUME NEW t \in Rubies, Free(t)
       PROVE  Shut'
  <2>1. /\ srv'.inited = srv.inited /\ srv'.shutter = srv.shutter
        /\ srv'.stop = srv.stop /\ srv'.active = srv.active
    BY <1>1, <1>19 DEF Free, Servers
  <2>2. \E from, to \in ShutdownSteps \ {"enter", "claim"} : Go(t, from, to)
    BY <1>15, <1>19 DEF Free, Over, Go
  <2> QED
    BY <1>14, <2>1, <2>2
<1> QED
  BY <1>5, <1>6, <1>7, <1>8, <1>9, <1>10, <1>12, <1>13, <1>16, <1>17, <1>18, <1>19,
     NextAside

-----------------------------------------------------------------------------
(* After the wait *)

\* While every other thread is stuck, only the one that runs the shutdown goes on.
LEMMA FrozenNext ==
  ASSUME OneWay, Shape, Staged, Shut, srv.shutter # NULL,
         \A t \in Threads : Stuck(t), [Next]_vars
  PROVE  \/ Gone
         \/ /\ UNCHANGED <<gvl, todo, q>>
            /\ srv'.shutter = srv.shutter /\ srv'.wild = srv.wild
            /\ \A t \in Threads : t # srv.shutter => at'[t] = at[t]
<1> DEFINE Still == /\ UNCHANGED <<gvl, todo, q>>
                    /\ srv'.shutter = srv.shutter /\ srv'.wild = srv.wild
                    /\ \A t \in Threads : t # srv.shutter => at'[t] = at[t]
<1> USE DEF ShutdownSteps, Parts, LoopPlaces, ListenPlaces
<1>1. /\ at \in [Threads -> Places] /\ srv \in Servers
      /\ srv.shutter \in Rubies /\ srv.ends \in EndSets
      /\ todo \in [Rubies -> SUBSET Loops]
      /\ \A l \in Loops : q.pub[l] \in Int
      /\ q.eval \in Int /\ EvalSize \in Nat /\ PubSize \in Nat
  BY SizesAssumption DEF Shape, Servers, Queues
<1>2. /\ Rubies \subseteq Threads /\ Rubies = Evals \cup {Main} /\ NULL \notin Rubies
      /\ Main # Listener /\ Listener \in Threads
      /\ Listener \notin Rubies /\ Loops \subseteq Threads
      /\ \A l \in Loops : l \notin Rubies
  BY ThreadsFinite, ThreadsAssumption DEF Threads, Rubies
<1>3. srv.ends \subseteq {"shutdown", "handler", "signal"}
  BY <1>1 DEF OneWay, Shut
<1>4. at[srv.shutter] \in ShutdownSteps \cup {"over"}
  BY DEF Shut
<1>5. at[Listener] \in {"none", "over"}
  BY <1>1, <1>2 DEF Stuck, Staged
<1>6. \A l \in Loops : at[l] \in {"none", "over"} \/ (at[l] = "push" /\ q.eval = EvalSize)
  BY <1>1, <1>2 DEF Stuck, Staged
<1>7. \A t \in Rubies : t # srv.shutter =>
         \/ at[t] \in {"none", "over", "ruby", "push"}
         \/ at[t] \in {"popped", "ready"} /\ gvl \notin {NULL, t}
         \/ at[t] = "publish" /\ todo[t] # {} /\ \A l \in todo[t] : q.pub[l] = PubSize
  BY <1>2 DEF Stuck
<1>8. ~Start /\ ~StartEvals /\ ~Started /\ ~Leave
  <2>1. at[Main] \notin {"config", "starting", "started", "leaving"}
    BY <1>2, <1>4, <1>7
  <2> QED
    BY <2>1 DEF Start, StartEvals, Started, Leave, Go
<1>9. ~EndProc /\ ~CallServerShutdown
  BY <1>3 DEF EndProc, CallServerShutdown
<1>10. Signal => Still
  BY <1>1 DEF Signal, Servers
<1>11. ~ListenStep
  BY <1>5 DEF ListenStep, Accept, PollEnds, Go
<1>12. \A l \in Loops : ~LoopStep(l)
  BY <1>1, <1>6 DEF LoopStep, LoopBegin, LoopTop, LoopPop, LoopPubs, LoopRead, LoopPush,
                    LoopIdle, Go
<1>13. ASSUME NEW t \in Rubies
       PROVE  /\ ~EvalTop(t) /\ ~EvalPop(t) /\ ~EvalCheck(t) /\ ~TakeGvl(t)
              /\ ~HandlerYield(t) /\ ~HandlerPublish(t) /\ ~Respond(t)
              /\ ~CallShutdown(t)
  <2>1. /\ at[t] \notin {"born", "top", "done", "evalpop", "check", "handler"}
        /\ at[t] \in {"popped", "ready"} => gvl # NULL
    BY <1>4, <1>7
  <2> QED
    BY <2>1 DEF EvalTop, EvalPop, EvalCheck, TakeGvl, HandlerYield, HandlerPublish,
                Respond, CallShutdown, Go
<1>14. ASSUME NEW t \in Rubies, PublishPush(t) PROVE FALSE
  <2>1. at[t] = "publish"
    BY <1>14 DEF PublishPush, Go
  <2>2. todo[t] # {} /\ \A l \in todo[t] : q.pub[l] = PubSize
    BY <1>4, <1>7, <2>1
  <2> QED
    BY <1>1, <1>14, <2>2 DEF PublishPush
<1>15. ASSUME NEW t \in Rubies, at[t] \in ShutdownSteps PROVE t = srv.shutter
  BY <1>15 DEF Shut
<1>16. ASSUME NEW t \in Rubies, Over(t, "enter") \/ Over(t, "eval_queue")
       PROVE  UNCHANGED gvl /\ \A u \in Threads : u # srv.shutter => at'[u] = at[u]
  <2>1. t = srv.shutter
    BY <1>15, <1>16 DEF Over, Go
  <2> QED
    BY <1>1, <1>16, <2>1 DEF Over, Go
<1>17. ASSUME NEW t \in Rubies, NEW from \in ShutdownSteps, NEW to, Go(t, from, to)
       PROVE  \A u \in Threads : u # srv.shutter => at'[u] = at[u]
  BY <1>1, <1>15, <1>17 DEF Go
<1>18. ASSUME NEW t \in Rubies, Enter(t) PROVE Still
  BY <1>16, <1>17, <1>18 DEF Enter
<1>19. ASSUME NEW t \in Rubies, Claim(t) PROVE Still
  <2>1. srv'.shutter = srv.shutter /\ srv'.wild = srv.wild
    BY <1>1, <1>19 DEF Claim, Servers
  <2> QED
    BY <1>17, <1>19, <2>1 DEF Claim
<1>20. ASSUME NEW t \in Rubies, Wait(t) PROVE Still
  BY <1>17, <1>20 DEF Wait
<1>21. ASSUME NEW t \in Rubies, Free(t) PROVE Still
  <2>1. srv'.shutter = srv.shutter /\ srv'.wild = srv.wild
    BY <1>1, <1>21 DEF Free, Servers
  <2> QED
    BY <1>16, <1>17, <1>21, <2>1 DEF Free
<1>22. UNCHANGED vars => Still
  BY DEF vars
<1> HIDE DEF Still
<1>23. Gone \/ Still
  BY <1>8, <1>9, <1>10, <1>11, <1>12, <1>13, <1>14, <1>18, <1>19, <1>20, <1>21, <1>22
     DEF Next, MainStep, RubyStep, Exit
<1> QED
  BY <1>23 DEF Still

\* Whoever the shutdown stops waiting for is stuck.
LEMMA WaitFreezes ==
  ASSUME Slow = FALSE, OneWay, Shape, Staged, Counted, Awaited, Shut,
         NEW t \in Rubies, at[t] = "wait", srv.running = 0 \/ TimeUp
  PROVE  srv.shutter = t /\ \A u \in Threads : Stuck(u)
<1> USE DEF ShutdownSteps, Parts
<1>1. /\ at \in [Threads -> Places] /\ srv \in Servers /\ srv.ends \in EndSets
  BY DEF Shape, Servers
<1>2. /\ Rubies \subseteq Threads /\ Rubies = Evals \cup {Main} /\ NULL \notin Rubies
      /\ Main # Listener /\ Listener \in Threads /\ Main \in Rubies
      /\ \A x \in Loops \cup {Listener} : x \notin Rubies
  BY ThreadsFinite, ThreadsAssumption DEF Threads, Rubies
<1>3. srv.shutter = t
  BY DEF Shut
<1>4. srv.ends \subseteq {"shutdown", "handler", "signal"} /\ at[Main] # "leaving"
  BY <1>1, <1>2, <1>3 DEF OneWay, Shut
<1>5. at[Main] \notin {"config", "starting"}
  BY <1>2 DEF Staged
<1>6. CASE TimeUp
  <2>1. ASSUME NEW u \in Threads PROVE Stuck(u)
    <3>1. Held(u)
      BY <1>1, <1>6, <2>1 DEF TimeUp
    <3>2. at[u] # "config" /\ at[u] # "leaving"
      BY <1>2, <1>4, <1>5, <2>1
         DEF Staged, Threads, LoopPlaces, ListenPlaces, EvalPlaces
    <3>3. at[u] \in ShutdownSteps => u = srv.shutter
      BY <1>2, <2>1 DEF Shut, Staged, Threads, LoopPlaces, ListenPlaces
    <3> QED
      BY <3>1, <3>2, <3>3 DEF Held, Stuck
  <2> QED
    BY <1>3, <2>1
<1>7. CASE srv.running = 0
  <2>1. Running = {}
    BY <1>7, ThreadsFinite, FS_EmptySet, FS_Subset, <1>1 DEF Counted, Running
  <2>2. \A u \in Threads \ {Main} : at[u] \in {"none", "born", "listening", "over"}
    BY <1>1, <2>1 DEF Running
  <2>3. t = Main
    BY <1>2, <2>2
  <2>4. \A u \in Threads \ {Main} : at[u] \in {"none", "over"}
    <3>1. \A u \in Up \cup {Listener} : at[u] \notin {"born", "listening"}
      BY <1>5 DEF Awaited
    <3>2. \A l \in Loops \ Up : at[l] \in {"none", "over"}
      BY DEF Staged
    <3>3. \A e \in Evals : at[e] # "born" /\ at[e] # "listening"
      BY <2>3 DEF Awaited, Staged, EvalPlaces
    <3> QED
      BY <2>2, <3>1, <3>2, <3>3 DEF Threads
  <2> QED
    BY <1>3, <2>3, <2>4 DEF Stuck
<1> QED
  BY <1>6, <1>7

LEMMA FrozenStep ==
  ASSUME Slow = FALSE, OneWay, Shape, Staged, Counted, Awaited, Shut, Frozen,
         [Next]_vars
  PROVE  Frozen'
<1> USE DEF ShutdownSteps, Parts, Late, Ends
<1>1. /\ at \in [Threads -> Places] /\ srv \in Servers
      /\ srv.shutter \in Rubies \cup {NULL} /\ srv.ends \in EndSets
  BY DEF Shape, Servers
<1>2. /\ Rubies \subseteq Threads /\ NULL \notin Rubies
  BY ThreadsFinite, ThreadsAssumption DEF Rubies
<1>3. CASE srv.freed # {} \/ (srv.shutter # NULL /\ at[srv.shutter] \in Late)
  <2>1. srv.shutter # NULL /\ (\A t \in Threads : Stuck(t)) /\ ~srv.wild
    BY <1>3 DEF Frozen
  <2>2. CASE Gone
    <3>1. srv'.wild = srv.wild /\ srv'.shutter = srv.shutter
      BY <1>1, <2>2 DEF Gone, Servers
    <3>2. \A t \in Threads : at'[t] = "over"
      BY <1>1, <2>2 DEF Gone
    <3> QED
      BY <2>1, <3>1, <3>2 DEF Frozen, Stuck
  <2>3. CASE /\ UNCHANGED <<gvl, todo, q>>
             /\ srv'.shutter = srv.shutter /\ srv'.wild = srv.wild
             /\ \A t \in Threads : t # srv.shutter => at'[t] = at[t]
    <3>1. ASSUME NEW t \in Threads PROVE Stuck(t)'
      BY <2>1, <2>3, <3>1 DEF Stuck
    <3> QED
      BY <2>1, <2>3, <3>1 DEF Frozen
  <2> QED
    BY <2>1, <2>2, <2>3, FrozenNext
<1>4. CASE ~(srv.freed # {} \/ (srv.shutter # NULL /\ at[srv.shutter] \in Late))
  <2>1. srv.freed = {} /\ ~srv.wild
        /\ (srv.shutter # NULL => at[srv.shutter] \in {"enter", "claim", "wait", "over"})
    BY <1>4 DEF Frozen, Shut
  <2>2. \A t \in Rubies : at[t] \notin Late
    BY <2>1, <1>2 DEF Shut
  <2>3. ASSUME srv'.freed = srv.freed, srv'.wild = srv.wild,
               \A t \in Rubies : at'[t] \notin Late,
               srv'.shutter \in Rubies \cup {NULL}
        PROVE  Frozen'
    BY <2>1, <2>3 DEF Frozen
  <2>4. srv'.shutter \in Rubies \cup {NULL}
    BY ServerKept DEF Servers
  <2>5. CASE Aside
    <3>1. srv'.freed = srv.freed /\ srv'.wild = srv.wild
      BY <2>1, <2>5 DEF Aside
    <3>2. \A t \in Rubies : at'[t] \notin Late
      BY <1>2, <2>2, <2>5 DEF Aside
    <3> QED
      BY <2>3, <2>4, <3>1, <3>2
  <2>6. CASE Start
    <3>1. srv'.freed = srv.freed /\ srv'.wild = srv.wild
      BY <1>1, <2>6 DEF Start, Servers
    <3>2. \A t \in Rubies : at'[t] \notin Late
      BY <1>1, <1>2, <2>6 DEF Start
    <3> QED
      BY <2>3, <2>4, <3>1, <3>2
  <2>7. CASE Gone
    <3>1. srv'.freed = srv.freed /\ srv'.wild = srv.wild
      BY <1>1, <2>7 DEF Gone, Servers
    <3>2. \A t \in Rubies : at'[t] \notin Late
      BY <1>1, <1>2, <2>7 DEF Gone
    <3> QED
      BY <2>3, <2>4, <3>1, <3>2
  <2>8. CASE EndProc \/ PollEnds \/ CallServerShutdown
    <3>1. srv'.freed = srv.freed /\ srv'.wild = srv.wild
      BY <1>1, <2>8 DEF EndProc, PollEnds, CallServerShutdown, Servers
    <3>2. \A t \in Rubies : at'[t] \notin Late
      BY <1>1, <1>2, <2>2, <2>8 DEF EndProc, PollEnds, CallServerShutdown, Go
    <3> QED
      BY <2>3, <2>4, <3>1, <3>2
  <2>9. CASE Signal
    <3>1. srv'.freed = srv.freed /\ srv'.wild = srv.wild /\ at' = at
      BY <1>1, <2>9 DEF Signal, Servers
    <3> QED
      BY <2>2, <2>3, <2>4, <3>1
  <2>10. ASSUME NEW t \in Rubies, NEW from, NEW to, Go(t, from, to), to \notin Late
         PROVE  \A u \in Rubies : at'[u] \notin Late
    BY <1>1, <1>2, <2>2, <2>10 DEF Go
  <2>11. ASSUME NEW t \in Rubies,
                \/ EvalCheck(t) /\ srv.stop /\ srv.shutter = NULL
                \/ CallShutdown(t)
         PROVE  Frozen'
    <3>1. srv'.freed = srv.freed /\ srv'.wild = srv.wild
      BY <1>1, <2>11 DEF EvalCheck, CallShutdown, Servers
    <3>2. \A u \in Rubies : at'[u] \notin Late
      BY <2>10, <2>11 DEF EvalCheck, CallShutdown
    <3> QED
      BY <2>3, <2>4, <3>1, <3>2
  <2>12. ASSUME NEW t \in Rubies, at[t] \in {"enter", "claim"}
         PROVE  /\ t = srv.shutter /\ srv.inited
                /\ srv.active
    <3>1. t = srv.shutter /\ srv.inited
      BY <1>2, <2>12 DEF Shut
    <3>2. at[Main] # "config"
      BY <2>12 DEF Staged, Rubies
    <3> QED
      BY <1>1, <1>2, <2>12, <3>1, <3>2 DEF Shut
  <2>13. ASSUME NEW t \in Rubies, Enter(t) PROVE Frozen'
    <3>1. at[t] = "enter"
      BY <2>13 DEF Enter, Over, Go
    <3>2. Go(t, "enter", "claim")
      BY <2>12, <2>13, <3>1 DEF Enter
    <3> QED
      BY <2>3, <2>4, <2>10, <2>13, <3>2 DEF Enter
  <2>14. ASSUME NEW t \in Rubies, Claim(t) PROVE Frozen'
    <3>1. at[t] = "claim"
      BY <2>14 DEF Claim, Go
    <3>2. Go(t, "claim", "wait")
      BY <2>12, <2>14, <3>1 DEF Claim
    <3>3. srv'.freed = srv.freed /\ srv'.wild = srv.wild
      BY <1>1, <2>14 DEF Claim, Servers
    <3> QED
      BY <2>3, <2>4, <2>10, <3>2, <3>3
  <2>15. ASSUME NEW t \in Rubies, Free(t) PROVE FALSE
    BY <2>2, <2>15 DEF Free, Over, Go
  <2>16. ASSUME NEW t \in Rubies, Wait(t) PROVE Frozen'
    <3>1. Go(t, "wait", "runners") /\ (srv.running = 0 \/ TimeUp)
      BY <2>2, <2>16 DEF Wait, Go
    <3>2. srv.shutter = t /\ \A u \in Threads : Stuck(u)
      BY <3>1, WaitFreezes DEF Go
    <3>3. /\ UNCHANGED <<srv, gvl, todo, q>>
          /\ \A u \in Threads : u # t => at'[u] = at[u]
      BY <1>1, <2>16, <3>1 DEF Wait, Go
    <3>4. ASSUME NEW u \in Threads PROVE Stuck(u)'
      BY <3>2, <3>3, <3>4 DEF Stuck
    <3> QED
      BY <1>2, <2>1, <3>2, <3>3, <3>4 DEF Frozen
  <2> QED
    BY <2>5, <2>6, <2>7, <2>8, <2>9, <2>11, <2>13, <2>14, <2>15, <2>16, NextAside
<1> QED
  BY <1>3, <1>4

\* Nothing that a shutdown freed is used, as far as the threads go: if no thread
\* takes longer to go on than the shutdown waits, and the server is ended in one
\* way, the threads that did not end by then are stuck for good (server.c:263-296,
\* rserver.c:789-803, 926-936, agoo.c:32-41).
THEOREM NothingFreedIsUsed ==
  ASSUME Slow = FALSE, OneWay
  PROVE  Spec => []~srv.wild
<1>1. Init => Shape /\ Staged /\ Counted /\ Awaited /\ Shut /\ Frozen
  <2>1. Init => Frozen
    BY DEF Init, Frozen
  <2> QED
    BY <2>1, ShapeInit, StagedInit, CountedInit, ShutInit
<1>2. Shape /\ Staged /\ Counted /\ Awaited /\ Shut /\ Frozen /\ [Next]_vars
         => (Shape /\ Staged /\ Counted /\ Awaited /\ Shut /\ Frozen)'
  BY ShapeStep, StagedStep, CountedStep, AwaitedStep, ShutStep, FrozenStep DEF Counted
<1>3. Frozen => ~srv.wild
  BY DEF Frozen
<1> QED
  BY <1>1, <1>2, <1>3, PTL DEF Spec

-----------------------------------------------------------------------------
(* Publications *)

\* A step publishes nothing, and takes no thread to a handler or out of it.
Quiet ==
    /\ UNCHANGED <<gvl, todo>>
    /\ q'.pub = q.pub /\ n'.published = n.published /\ srv'.exited = srv.exited
    /\ \A t \in Threads :
          \/ at'[t] = at[t]
          \/ at[t] \notin {"handler", "publish", "over"} /\ at'[t] \notin {"handler", "publish"}

LEMMA NextQuiet ==
  ASSUME OneWay, Shape, Staged, Shut, [Next]_vars
  PROVE  \/ Quiet
         \/ Gone
         \/ \E l \in Loops : LoopPubs(l)
         \/ \E t \in Rubies :
               \/ TakeGvl(t) \/ HandlerYield(t) \/ HandlerPublish(t) \/ PublishPush(t)
               \/ Respond(t) \/ CallShutdown(t)
<1>1. /\ at \in [Threads -> Places] /\ srv \in Servers /\ q \in Queues /\ n \in Counts
      /\ DOMAIN at = Threads /\ srv.ends \in EndSets
  BY DEF Shape, Servers
<1> DEFINE Same == /\ q'.pub = q.pub /\ n'.published = n.published
                   /\ srv'.exited = srv.exited
           Elsewhere == \A t \in Threads :
              \/ at'[t] = at[t]
              \/ /\ at[t] \notin {"handler", "publish", "over"}
                 /\ at'[t] \notin {"handler", "publish"}
<1>2. Same /\ Elsewhere /\ UNCHANGED <<gvl, todo>> => Quiet
  BY DEF Quiet
<1>3. ASSUME NEW parts, Using(parts) PROVE srv'.exited = srv.exited
  BY <1>1, <1>3 DEF Using, Servers
<1>4. ASSUME NEW d, Count(d) PROVE srv'.exited = srv.exited
  BY <1>1, <1>4 DEF Count, Servers
<1>5. UNCHANGED <<q, n>> /\ srv'.exited = srv.exited => Same
  OBVIOUS
<1>6. ASSUME NEW t, NEW from, NEW to, Go(t, from, to),
             from \notin {"handler", "publish", "over"}, to \notin {"handler", "publish"}
      PROVE  Elsewhere
  BY <1>1, <1>6 DEF Go
<1>7. UNCHANGED at => Elsewhere
  OBVIOUS
<1> USE DEF ShutdownSteps, Parts
<1>8. StartEvals => Quiet
  <2> SUFFICES ASSUME StartEvals PROVE Quiet
    OBVIOUS
  <2>1. at[Main] = "starting" /\ srv.pool \subseteq Evals
    BY <1>1, LoopsAssumption DEF StartEvals, Servers
  <2>2. \A t \in srv.pool : at[t] = "none"
    BY <2>1 DEF Staged
  <2>3. \A t \in Threads :
           \/ at'[t] = at[t]
           \/ at[t] \in {"none", "starting"} /\ at'[t] \in {"born", "top", "started"}
    <3>1. CASE srv.pool = {}
      BY <1>1, <2>1, <3>1 DEF StartEvals, Evaluate
    <3>2. CASE srv.pool # {}
      <4>1. at' = [t \in DOMAIN at |->
                    IF t \in srv.pool THEN "born"
                    ELSE IF t = Main THEN "started" ELSE at[t]]
        BY <3>2 DEF StartEvals, Evaluate
      <4> QED
        BY <1>1, <2>1, <2>2, <4>1
    <3> QED
      BY <3>1, <3>2
  <2>4. Elsewhere
    BY <2>3
  <2> HIDE DEF Elsewhere
  <2> QED
    BY <1>2, <2>4 DEF StartEvals
<1>9. Start => Quiet
  <2> SUFFICES ASSUME Start PROVE Quiet
    OBVIOUS
  <2>1. \A t \in Threads : at[t] \in {"none", "config"}
    BY <1>1 DEF Start, Staged
  <2>2. \A t \in Threads : at'[t] \in {"starting", "born", "none"}
    BY <1>1 DEF Start
  <2>3. srv'.exited = srv.exited
    BY <1>1 DEF Start, Servers
  <2>4. Elsewhere
    BY <2>1, <2>2
  <2> HIDE DEF Elsewhere
  <2> QED
    BY <1>2, <2>3, <2>4 DEF Start
<1>10. Accept => Same
  BY <1>1, <1>3 DEF Accept, Queues, Counts
<1>11. ASSUME NEW l \in Loops, LoopPop(l) \/ LoopPush(l) PROVE Same
  BY <1>1, <1>3, <1>11 DEF LoopPop, LoopPush, Queues
<1>12. ASSUME NEW l \in Loops, LoopRead(l) PROVE Same
  BY <1>1, <1>3, <1>12 DEF LoopRead, Counts
<1>13. ASSUME NEW t \in Rubies, EvalPop(t) PROVE Same
  BY <1>1, <1>3, <1>13 DEF EvalPop, Queues
<1> HIDE DEF Same, Elsewhere
<1>14. Started => Quiet
  BY <1>2, <1>5, <1>6 DEF Started
<1>15. EndProc => Quiet
  <2>1. EndProc => srv'.exited = srv.exited
    BY <1>1 DEF EndProc, Servers
  <2> QED
    BY <1>2, <1>5, <1>6, <2>1 DEF EndProc
<1>16. Signal => Quiet
  <2>1. Signal => srv'.exited = srv.exited
    BY <1>1 DEF Signal, Servers
  <2> QED
    BY <1>2, <1>5, <1>7, <2>1 DEF Signal
<1>17. ~CallServerShutdown
  BY <1>1 DEF CallServerShutdown, OneWay
<1>18. ListenStep => Quiet
  <2>1. PollEnds => srv'.exited = srv.exited
    BY <1>1 DEF PollEnds, Servers
  <2>2. PollEnds => Quiet
    BY <1>2, <1>5, <1>6, <2>1 DEF PollEnds
  <2>3. Accept => Quiet
    BY <1>2, <1>6, <1>10 DEF Accept
  <2>4. ASSUME Go(Listener, "top", IF srv.active THEN "poll" ELSE "done") PROVE Elsewhere
    BY <1>6, <2>4
  <2> QED
    BY <1>2, <1>4, <1>5, <1>6, <2>2, <2>3, <2>4 DEF ListenStep
<1>19. ASSUME NEW l \in Loops, LoopStep(l) PROVE Quiet \/ LoopPubs(l)
  <2>1. Go(l, "top", IF srv.active THEN "pop" ELSE "done") => Elsewhere
    BY <1>6
  <2>2. LoopBegin(l) \/ LoopTop(l) \/ LoopIdle(l) => Quiet
    BY <1>2, <1>3, <1>4, <1>5, <1>6, <2>1 DEF LoopBegin, LoopTop, LoopIdle
  <2>3. LoopPop(l) => Quiet
    BY <1>2, <1>6, <1>11 DEF LoopPop
  <2>4. LoopPush(l) => Quiet
    BY <1>2, <1>6, <1>11 DEF LoopPush
  <2>5. LoopRead(l) => Quiet
    BY <1>2, <1>6, <1>12 DEF LoopRead
  <2> QED
    BY <1>19, <2>2, <2>3, <2>4, <2>5 DEF LoopStep
<1>20. ASSUME NEW t \in Rubies, EvalTop(t) PROVE Quiet
  <2>1. Go(t, "top", IF srv.active THEN "evalpop" ELSE "done") => Elsewhere
    BY <1>6
  <2> QED
    BY <1>2, <1>4, <1>5, <1>6, <1>20, <2>1 DEF EvalTop
<1>21. ASSUME NEW t \in Rubies, EvalPop(t) PROVE Quiet
  BY <1>2, <1>6, <1>13, <1>21 DEF EvalPop
<1>22. ASSUME NEW t \in Rubies, EvalCheck(t) PROVE Quiet
  <2>1. srv'.exited = srv.exited
    BY <1>1, <1>22 DEF EvalCheck, Servers
  <2>2. Go(t, "check", IF srv.stop THEN "done" ELSE "top") => Elsewhere
    BY <1>6
  <2> QED
    BY <1>2, <1>5, <1>6, <1>22, <2>1, <2>2 DEF EvalCheck
<1>23. ASSUME NEW t \in Rubies, NEW from \in ShutdownSteps, Over(t, from)
       PROVE  UNCHANGED gvl /\ Elsewhere
  <2>1. srv.shutter = t
    BY <1>23 DEF Over, Go, Shut
  <2>2. Go(t, from, "exit") /\ UNCHANGED gvl
    BY <1>23, <2>1 DEF Over
  <2> QED
    BY <1>6, <2>2
<1>24. ASSUME NEW t \in Rubies, Enter(t) PROVE Quiet
  BY <1>2, <1>5, <1>6, <1>23, <1>24 DEF Enter
<1>25. ASSUME NEW t \in Rubies, Claim(t) PROVE Quiet
  <2>1. srv'.exited = srv.exited
    BY <1>1, <1>25 DEF Claim, Servers
  <2>2. Go(t, "claim", IF srv.active THEN "wait" ELSE "binds") => Elsewhere
    BY <1>6
  <2> QED
    BY <1>2, <1>5, <1>25, <2>1, <2>2 DEF Claim
<1>26. ASSUME NEW t \in Rubies, Wait(t) PROVE Quiet
  BY <1>2, <1>5, <1>6, <1>26 DEF Wait
<1>27. ASSUME NEW t \in Rubies, Free(t) PROVE Quiet
  <2>1. srv'.exited = srv.exited
    BY <1>1, <1>27 DEF Free, Servers
  <2> QED
    BY <1>2, <1>5, <1>6, <1>23, <1>27, <2>1 DEF Free
<1>28. UNCHANGED vars => Quiet
  BY <1>2, <1>5, <1>7 DEF vars
<1> QED
  BY <1>8, <1>9, <1>14, <1>15, <1>16, <1>17, <1>18, <1>19, <1>20, <1>21, <1>22,
     <1>24, <1>25, <1>26, <1>27, <1>28
     DEF Next, MainStep, Leave, RubyStep, Exit

LEMMA PublishesStep ==
  ASSUME OneWay, Shape, Staged, Shut, Publishes, [Next]_vars
  PROVE  Publishes'
<1>1. /\ at \in [Threads -> Places] /\ srv \in Servers /\ q \in Queues /\ n \in Counts
      /\ todo \in [Rubies -> SUBSET Loops] /\ n.published \in Int
      /\ q.pub \in [Loops -> Int] /\ Rubies \subseteq Threads /\ NULL \notin Rubies
      /\ Loops \subseteq Threads
  BY BoundsAssumption, SizesAssumption, ThreadsFinite, ThreadsAssumption
     DEF Shape, Queues, Counts, Rubies, Threads
<1>2. CASE Quiet
  BY <1>1, <1>2 DEF Publishes, Quiet
<1>3. CASE Gone
  <2>1. /\ srv'.exited = TRUE /\ UNCHANGED <<gvl, todo, q, n>>
        /\ \A t \in Threads : at'[t] = "over"
    BY <1>1, <1>3 DEF Gone, Servers
  <2> QED
    BY <1>1, <2>1 DEF Publishes
<1>4. ASSUME NEW l \in Loops, LoopPubs(l) PROVE Publishes'
  <2>1. srv'.exited = srv.exited /\ UNCHANGED <<gvl, todo, n>>
    BY <1>1, <1>4 DEF LoopPubs, Using, Servers
  <2>2. /\ at[l] = "pubs"
        /\ \A t \in Threads : at'[t] = at[t] \/ (t = l /\ at'[t] \in {"pubs", "go"})
    BY <1>1, <1>4 DEF LoopPubs, Go
  <2>3. q'.pub \in [Loops -> Int] /\ \A k \in Loops : q'.pub[k] <= q.pub[k]
    <3>1. CASE q.pub[l] > 0
      <4>1. q'.pub = [q.pub EXCEPT ![l] = @ - 1]
        BY <1>1, <1>4, <3>1 DEF LoopPubs, Queues
      <4> QED
        BY <1>1, <4>1
    <3>2. CASE ~(q.pub[l] > 0)
      <4>1. q' = q
        BY <1>4, <3>2 DEF LoopPubs
      <4> QED
        BY <1>1, <4>1
    <3> QED
      BY <3>1, <3>2
  <2>4. ~srv.exited
    BY <1>1, <2>2 DEF Publishes
  <2>5. \A k \in Loops : \A t \in Rubies :
           IF k \in todo[t] THEN q'.pub[k] < n.published ELSE q'.pub[k] <= n.published
    BY <1>1, <2>3 DEF Publishes
  <2> QED
    BY <1>1, <2>1, <2>2, <2>4, <2>5 DEF Publishes
<1>5. ASSUME NEW t \in Rubies, HandlerPublish(t) PROVE Publishes'
  <2>1. /\ UNCHANGED <<srv, gvl, q>> /\ n'.published = n.published + 1
        /\ \A u \in Rubies : u # t => todo'[u] = todo[u]
        /\ at[t] = "handler" /\ at'[t] = "publish"
        /\ \A u \in Threads : u # t => at'[u] = at[u]
    BY <1>1, <1>5 DEF HandlerPublish, Go, Counts
  <2>2. ~srv.exited /\ gvl = t
    BY <1>1, <2>1 DEF Publishes
  <2>3. \A k \in Loops : \A u \in Rubies : q.pub[k] < n.published + 1
    BY <1>1 DEF Publishes
  <2>4. \A k \in Loops : \A u \in Rubies :
           IF k \in todo'[u] THEN q'.pub[k] < n'.published ELSE q'.pub[k] <= n'.published
    BY <1>1, <2>1, <2>3
  <2> QED
    BY <1>1, <2>1, <2>2, <2>4 DEF Publishes
<1>6. ASSUME NEW t \in Rubies, PublishPush(t) PROVE Publishes'
  <2>1. CASE todo[t] = {} /\ Go(t, "publish", "handler") /\ UNCHANGED <<srv, gvl, todo, q, n>>
    <3>1. /\ at[t] = "publish" /\ at'[t] = "handler"
          /\ \A u \in Threads : u # t => at'[u] = at[u]
      BY <1>1, <2>1 DEF Go
    <3> QED
      BY <1>1, <2>1, <3>1 DEF Publishes
  <2>2. ASSUME NEW l \in todo[t], at[t] = "publish", q' = [q EXCEPT !.pub[l] = @ + 1],
               todo' = [todo EXCEPT ![t] = @ \ {l}], Using({"loops"}), UNCHANGED <<at, gvl, n>>
        PROVE  Publishes'
    <3>1. l \in Loops /\ srv'.exited = srv.exited
      BY <1>1, <2>2 DEF Using, Servers
    <3>2. gvl = t /\ ~srv.exited
      BY <1>1, <2>2 DEF Publishes
    <3>3. \A u \in Rubies : u # t => todo[u] = {} /\ todo'[u] = {}
      BY <1>1, <2>2, <3>2 DEF Publishes
    <3>4. q'.pub = [q.pub EXCEPT ![l] = @ + 1]
      BY <1>1, <2>2 DEF Queues
    <3>5. todo'[t] = todo[t] \ {l}
      BY <1>1, <2>2
    <3>6. q.pub[l] + 1 <= n.published /\ \A k \in Loops : q.pub[k] <= n.published
      BY <1>1, <2>2, <3>1 DEF Publishes
    <3>7. \A k \in Loops : q'.pub[k] = IF k = l THEN q.pub[k] + 1 ELSE q.pub[k]
      BY <1>1, <3>4
    <3>8. \A k \in Loops : k \in todo[t] => q.pub[k] < n.published
      BY DEF Publishes
    <3>9. \A k \in Loops : \A u \in Rubies :
             IF k \in todo'[u] THEN q'.pub[k] < n'.published ELSE q'.pub[k] <= n'.published
      BY <1>1, <2>2, <3>3, <3>5, <3>6, <3>7, <3>8
    <3>10. \A u \in Rubies : todo'[u] # {} => u = t
      BY <3>3
    <3> QED
      BY <1>1, <2>2, <3>1, <3>2, <3>9, <3>10 DEF Publishes
  <2> QED
    BY <1>6, <2>1, <2>2 DEF PublishPush
<1>7. ASSUME NEW t \in Rubies, TakeGvl(t) PROVE Publishes'
  <2>1. /\ UNCHANGED <<todo, q, n>> /\ srv'.exited = srv.exited /\ gvl = NULL
        /\ gvl' = t /\ at[t] \in {"popped", "ready"} /\ at'[t] = "handler"
        /\ \A u \in Threads : u # t => at'[u] = at[u]
    BY <1>1, <1>7 DEF TakeGvl, Go, Using, Servers
  <2> QED
    BY <1>1, <2>1 DEF Publishes
<1>8. ASSUME NEW t \in Rubies, HandlerYield(t) \/ Respond(t) PROVE Publishes'
  <2>1. /\ UNCHANGED <<srv, todo, q>> /\ n'.published = n.published
        /\ gvl' = NULL /\ at[t] = "handler" /\ at'[t] \in {"ready", "check"}
        /\ \A u \in Threads : u # t => at'[u] = at[u]
    BY <1>1, <1>8 DEF HandlerYield, Respond, Go, Counts
  <2>2. ~srv.exited /\ gvl = t
    BY <1>1, <2>1 DEF Publishes
  <2> QED
    BY <1>1, <2>1, <2>2 DEF Publishes
<1>9. ASSUME NEW t \in Rubies, CallShutdown(t) PROVE Publishes'
  <2>1. /\ UNCHANGED <<todo, q, n>> /\ srv'.exited = srv.exited
        /\ gvl' = t /\ at'[t] = "enter"
        /\ (at[t] = "ruby" /\ gvl = NULL) \/ at[t] = "handler"
        /\ \A u \in Threads : u # t => at'[u] = at[u]
    BY <1>1, <1>9 DEF CallShutdown, Go, Servers
  <2>2. ~srv.exited /\ \A u \in Rubies : u # t => at[u] \notin {"handler", "publish"}
    BY <1>1, <2>1 DEF Publishes
  <2> QED
    BY <1>1, <2>1, <2>2 DEF Publishes
<1> QED
  BY <1>2, <1>3, <1>4, <1>5, <1>6, <1>7, <1>8, <1>9, NextQuiet

LEMMA DrainedStep ==
  ASSUME Slow = FALSE, OneWay, Room, Shape, Staged, Shut, Frozen, Publishes, Drained,
         [Next]_vars
  PROVE  Drained'
<1> USE DEF ShutdownSteps, Parts, Ends
<1>1. /\ at \in [Threads -> Places] /\ srv \in Servers /\ q \in Queues /\ n \in Counts
      /\ todo \in [Rubies -> SUBSET Loops] /\ n.published \in 0..MaxPub
      /\ q.pub \in [Loops -> Int] /\ Rubies \subseteq Threads /\ NULL \notin Rubies
      /\ PubSize \in Nat /\ MaxPub \in Nat
  BY BoundsAssumption, SizesAssumption, ThreadsFinite, ThreadsAssumption
     DEF Shape, Queues, Counts, Rubies, Threads
<1>2. CASE srv.freed # {}
  <2>1. srv.shutter # NULL /\ (\A t \in Threads : Stuck(t))
    BY <1>2 DEF Frozen
  <2>2. UNCHANGED todo
    BY <2>1, FrozenNext DEF Gone
  <2> QED
    BY <1>2, <2>2 DEF Drained
<1>3. CASE srv.freed = {}
  <2>1. ASSUME NEW t \in Rubies, Free(t) PROVE Drained'
    <3>1. at[t] \in Late /\ UNCHANGED todo
      BY <2>1 DEF Free, Over, Go, Late
    <3>2. t = srv.shutter
      BY <3>1 DEF Shut, Late
    <3>3. \A u \in Threads : Stuck(u)
      BY <1>1, <3>1, <3>2 DEF Frozen
    <3>4. ~srv.exited
      BY <1>1, <3>1 DEF Publishes, Late
    <3>5. ASSUME NEW u \in Rubies, todo[u] # {} PROVE FALSE
      <4>1. at[u] = "publish" /\ gvl = u
        BY <3>4, <3>5 DEF Publishes
      <4>2. u # srv.shutter
        BY <3>1, <3>2, <4>1 DEF Late
      <4>3. \A l \in todo[u] : q.pub[l] = PubSize
        BY <1>1, <3>3, <4>1, <4>2 DEF Stuck
      <4>4. PICK l \in todo[u] : TRUE
        BY <3>5
      <4>5. l \in Loops /\ q.pub[l] < n.published
        BY <1>1, <4>4 DEF Publishes
      <4> QED
        BY <1>1, <4>3, <4>4, <4>5 DEF Room
    <3> QED
      BY <3>1, <3>5 DEF Drained
  <2>2. Aside => srv'.freed = {}
    BY <1>3 DEF Aside
  <2>3. Start \/ Gone \/ EndProc \/ Signal \/ CallServerShutdown \/ PollEnds => srv'.freed = {}
    BY <1>1, <1>3 DEF Start, Gone, EndProc, Signal, CallServerShutdown, PollEnds, Servers
  <2>4. \A t \in Rubies : EvalCheck(t) \/ Enter(t) \/ Claim(t) \/ Wait(t) \/ CallShutdown(t)
           => srv'.freed = {}
    BY <1>1, <1>3 DEF EvalCheck, Enter, Claim, Wait, CallShutdown, Servers
  <2>5. srv'.freed = {} \/ \E t \in Rubies : Free(t)
    BY <2>2, <2>3, <2>4, NextAside
  <2> QED
    BY <2>1, <2>5 DEF Drained
<1> QED
  BY <1>2, <1>3

\* Nor does a thread have anything left to publish, if the publication queues of
\* the loops are as long as there are publications; if they are shorter, one that
\* waits for room is still there when the queues are freed (con.c:1222-1245,
\* server.c:263-296, rserver.c:926-936).
THEOREM NobodyLeftBehind ==
  ASSUME Slow = FALSE, OneWay, Room
  PROVE  Spec => []NothingWild
<1> DEFINE Inv == /\ Shape /\ Staged /\ Counted /\ Awaited /\ Shut /\ Frozen
                  /\ Publishes /\ Drained
<1>1. Init => Inv
  <2>1. Init => Frozen /\ Drained
    BY DEF Init, Frozen, Drained
  <2>2. Init => Publishes
    <3> SUFFICES ASSUME Init PROVE Publishes
      OBVIOUS
    <3>1. /\ srv.exited = FALSE /\ n.published = 0 /\ \A l \in Loops : q.pub[l] = 0
          /\ \A t \in Rubies : todo[t] = {} /\ at[t] \in {"none", "config"}
      BY DEF Init, Rubies
    <3> QED
      BY <3>1 DEF Publishes
  <2> QED
    BY <2>1, <2>2, ShapeInit, StagedInit, CountedInit, ShutInit
<1>2. Inv /\ [Next]_vars => Inv'
  BY ShapeStep, StagedStep, CountedStep, AwaitedStep, ShutStep, FrozenStep,
     PublishesStep, DrainedStep DEF Counted
<1>3. Inv => NothingWild
  BY DEF NothingWild, Frozen, Drained
<1> QED
  BY <1>1, <1>2, <1>3, PTL DEF Spec
=============================================================================
