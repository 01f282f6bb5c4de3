------------------------------ MODULE Upgraded ------------------------------
(***************************************************************************)
(* WebSocket and SSE connections after their upgrade: the reference        *)
(* counted record (agooUpgraded, src/ext/agoo/upgraded.c) that ties a      *)
(* connection to its Ruby handler, the client object Ruby code calls       *)
(* (rupgraded.c), the publications every connection loop gets a copy of    *)
(* (pub.c, server.c, process_pub_con in con.c), the list of responses the  *)
(* loop writes (con.c), and the callbacks the eval threads run             *)
(* (handle_push_inner in rserver.c).                                       *)
(*                                                                         *)
(* Ruby code holds the global lock of the interpreter (GVL) through a      *)
(* call, so two calls do not overlap, with one exception: write() may call *)
(* to_s on its argument after it took its reference.  A connection loop is *)
(* no Ruby thread and runs at any time.  A call pushes its publication to  *)
(* the loops one by one, here at once: a copy that comes later cannot be   *)
(* told from one that a slow loop has not popped yet.  The queues do not   *)
(* fill up here, and send() takes all of a text; HttpCon has the same      *)
(* write loop with a send() that does not.                                 *)
(***************************************************************************)
EXTENDS Integers, Sequences, FiniteSets

CONSTANTS
    Ups,        \* the upgraded connections
    Loops,      \* the connection loops
    Owner,      \* Owner[u] is the loop that has the connection u
    Proto,      \* Proto[u] is the protocol of u, "ws" or "sse"
    Callers,    \* Ruby threads that call methods of the clients
    Evals,      \* the eval threads, which run the callbacks
    Ops,        \* the methods that are called
    Hooks,      \* the callbacks the handlers have
    MaxPending, \* max_push_pending, 0 for no limit
    MaxCalls,   \* bound on the calls
    MaxReads,   \* bound on what is read from a connection
    Faults,     \* what may go wrong, see below
    NULL

\* "early"   the peer goes away before the upgrade was answered
\* "hangup"  the peer goes away after it
\* "error"   send() fails
\* "raise"   a callback raises an exception, or the to_s of what is written
\* "ping"    the peer sends a ping
\* "quiet"   nothing is read for con_timeout, so a ping is sent
ASSUME UpgradedAssumption ==
    /\ IsFiniteSet(Ups) /\ IsFiniteSet(Loops) /\ NULL \notin Ups
    /\ IsFiniteSet(Callers) /\ IsFiniteSet(Evals)
    /\ Owner \in [Ups -> Loops] /\ Proto \in [Ups -> {"ws", "sse"}]
    /\ Ops \subseteq {"write", "close", "subscribe", "unsubscribe", "publish",
                      "open", "env"}
    /\ Hooks \subseteq {"on_message", "on_close", "on_drained", "on_error"}
    /\ MaxPending \in Nat /\ MaxCalls \in Nat /\ MaxReads \in Nat
    /\ Faults \subseteq {"early", "hangup", "error", "raise", "ping", "quiet"}

VARIABLES
    con,        \* con[u] is "open", "dead" (c->dead) or "gone" (destroyed)
    bound,      \* bound[u]: the connection uses the handlers of Proto[u]
    out,        \* out[u] is the list of responses from res_head to res_tail
    up,         \* up[u] is the agooUpgraded: ref_cnt, pending, subscribed
    list,       \* agoo_server.up_list
    opened,     \* the upgraded records ever made
    pubs,       \* pubs[l] is the pub_queue of loop l
    at,         \* at[l] is where loop l is in a publication
    reqs,       \* the callbacks in the eval_queue
    job,        \* job[t] is the callback thread t runs
    call,       \* call[k] is the call thread k is in
    answer,     \* answer[k] is what the last call of k returned
    log,        \* the publications of accepted calls, in their order
    wire,       \* wire[u] is what u has been sent: indices of log
    closes,     \* closes[u] is the number of calls of on_close for u
    reads,      \* reads[u] counts what was read from u
    fault       \* a loop used a connection that is gone

conVars == <<con, bound, out, wire, reads>>
upVars == <<up, list, opened>>
callVars == <<call, answer, log>>
vars == <<conVars, upVars, pubs, at, reqs, job, callVars, closes, fault>>

Idle == [at |-> "ready"]
Live == {list[i] : i \in DOMAIN list}

\* The connection is there, its request has gone to the handler.
Init ==
    /\ con = [u \in Ups |-> "open"]
    /\ bound = [u \in Ups |-> FALSE]
    /\ out = [u \in Ups |-> <<[kind |-> "wait"]>>]
    /\ up = [u \in Ups |-> [ref |-> 0, pending |-> 0, subscribed |-> FALSE]]
    /\ list = <<>>
    /\ opened = {}
    /\ pubs = [l \in Loops |-> <<>>]
    /\ at = [l \in Loops |-> Idle]
    /\ reqs = <<>>
    /\ job = [t \in Evals |-> Idle]
    /\ call = [k \in Callers |-> Idle]
    /\ answer = [k \in Callers |-> FALSE]
    /\ log = <<>>
    /\ wire = [u \in Ups |-> <<>>]
    /\ closes = [u \in Ups |-> 0]
    /\ reads = [u \in Ups |-> 0]
    /\ fault = FALSE

-----------------------------------------------------------------------------
(* References *)

\* destroy: the record is taken off the list.
Without(u) ==
    IF u \in Live
      THEN LET i == CHOOSE j \in DOMAIN list : list[j] = u
           IN  SubSeq(list, 1, i - 1) \o SubSeq(list, i + 1, Len(list))
      ELSE list

\* agoo_upgraded_release with the references d added before it counted in: the
\* record is destroyed with its last reference.
Release(u, d) ==
    /\ up' = [up EXCEPT ![u].ref = @ + d - 1]
    /\ list' = IF up[u].ref + d <= 1 THEN Without(u) ELSE list
    /\ UNCHANGED opened

\* agoo_server_publish: each loop gets a copy.  All copies but the last take a
\* reference of their own.
Publish(p) == pubs' = [l \in Loops |-> Append(pubs[l], p)]

\* Defect: agoo_pub_dup does not count the reference of the copy.
NoCopies == 0

Copies == Cardinality(Loops) - 1

\* The callbacks ms are queued for u, those that the handler has.
Queue(u, ms) ==
    reqs' = reqs \o [i \in DOMAIN ms |-> [method |-> ms[i], up |-> u]]
Has(m) == IF m \in Hooks THEN <<m>> ELSE <<>>

\* Those who hold a reference of u: the connection, the publications in the
\* queues or under way, the callbacks queued or running, and the calls.
QueuedFor(u, l) == Cardinality({i \in DOMAIN pubs[l] : pubs[l][i].up = u})
OfCon(u) == IF u \in opened /\ con[u] # "gone" THEN 1 ELSE 0
OfPubs(u) ==
    Cardinality(UNION {{l} \X {i \in DOMAIN pubs[l] : pubs[l][i].up = u} :
                       l \in Loops})
OfLoops(u) == Cardinality({l \in Loops : at[l].at = "seen" /\ at[l].up = u})
OfReqs(u) == Cardinality({i \in DOMAIN reqs : reqs[i].up = u})
OfJobs(u) == Cardinality({t \in Evals : job[t] # Idle /\ job[t].up = u})
OfCalls(u) == Cardinality({k \in Callers : call[k] # Idle /\ call[k].up = u})
Holders(u) ==
    OfCon(u) + OfPubs(u) + OfLoops(u) + OfReqs(u) + OfJobs(u) + OfCalls(u)

\* The references of u that nobody will give back.
Leaked(u) == up[u].ref - Holders(u)

-----------------------------------------------------------------------------
(* The upgrade, in an eval thread (handle_rack_inner) *)

\* rupgraded_create: the connection has a reference.  on_open is called, whose
\* calls are among those of the Callers.
Create(u) ==
    /\ u \notin opened
    /\ opened' = opened \cup {u}
    /\ list' = <<u>> \o list
    /\ up' = [up EXCEPT ![u].ref = 1]
    /\ UNCHANGED <<conVars, pubs, at, reqs, job, callVars, closes, fault>>

\* The text of the response is pushed after that.
Accept(u) ==
    /\ u \in opened
    /\ \E i \in DOMAIN out[u] :
        /\ out[u][i].kind = "wait"
        /\ out' = [out EXCEPT ![u][i] = [kind |-> "accept"]]
    /\ UNCHANGED <<con, bound, wire, reads, upVars, pubs, at, reqs, job,
                   callVars, closes, fault>>

-----------------------------------------------------------------------------
(* The calls of a client object (rupgraded.c) *)

\* The calls made and under way stay within the bound.  So do, for Get, those
\* made and those that kept their reference.
Budget == Len(log) + Cardinality({k \in Callers : call[k] # Idle}) < MaxCalls

\* No other Ruby code is in a call that holds on to the GVL.
Gvl(t) ==
    \A k \in Callers \ {t} : call[k] # Idle => call[k].op = "write"

\* get_upgraded: a call of a client whose record is destroyed does nothing.
Get(k, u, op) ==
    /\ call[k] = Idle
    /\ Gvl(k)
    /\ op # "publish"
    /\ u \in opened
    /\ Budget
    /\ Len(log) + Leaked(u) < MaxCalls
    /\ IF u \in Live
         THEN /\ call' = [call EXCEPT ![k] = [at |-> "got", op |-> op, up |-> u]]
              /\ up' = [up EXCEPT ![u].ref = @ + 1]
              /\ UNCHANGED answer
         ELSE /\ answer' = [answer EXCEPT ![k] = FALSE]
              /\ UNCHANGED <<call, up>>
    /\ UNCHANGED <<conVars, list, opened, pubs, at, reqs, job, log, closes,
                   fault>>

\* What every method but the questions and env does: the reference of the call
\* becomes that of the publication.
Accepted(k) ==
    LET u == call[k].up
        p == [kind |-> call[k].op, up |-> u, n |-> Len(log) + 1]
    IN  /\ Publish(p)
        /\ log' = Append(log, p)
        /\ up' = [up EXCEPT ![u].ref = @ + Copies, ![u].pending = @ + 1]
        /\ answer' = [answer EXCEPT ![k] = TRUE]

\* agoo_upgraded_write refuses a message when too many are pending.
Refused(u) == MaxPending > 0 /\ up[u].pending >= MaxPending

\* Defect: the message is counted before the limit is checked, and stays so.
ActCounts(k) ==
    /\ call[k] # Idle
    /\ Gvl(k)
    /\ call[k].op \notin {"open", "env"}
    /\ IF call[k].op = "write" /\ Refused(call[k].up)
         THEN /\ up' = [up EXCEPT ![call[k].up].ref = @ - 1,
                                 ![call[k].up].pending = @ + 1]
              /\ answer' = [answer EXCEPT ![k] = FALSE]
              /\ UNCHANGED <<pubs, log>>
         ELSE Accepted(k)
    /\ call' = [call EXCEPT ![k] = Idle]
    /\ UNCHANGED <<conVars, list, opened, at, reqs, job, closes, fault>>

Act(k) ==
    /\ call[k] # Idle
    /\ Gvl(k)
    /\ call[k].op \notin {"open", "env"}
    /\ IF call[k].op = "write" /\ Refused(call[k].up)
         THEN /\ up' = [up EXCEPT ![call[k].up].ref = @ - 1]
              /\ answer' = [answer EXCEPT ![k] = FALSE]
              /\ UNCHANGED <<pubs, log>>
         ELSE Accepted(k)
    /\ call' = [call EXCEPT ![k] = Idle]
    /\ UNCHANGED <<conVars, list, opened, at, reqs, job, closes, fault>>

\* open?: the record is read, the reference is dropped without agoo_upgraded_release.
Ask(k) ==
    /\ call[k] # Idle
    /\ Gvl(k)
    /\ call[k].op = "open"
    /\ up' = [up EXCEPT ![call[k].up].ref = @ - 1]
    /\ answer' = [answer EXCEPT ![k] = up[call[k].up].pending >= 0]
    /\ call' = [call EXCEPT ![k] = Idle]
    /\ UNCHANGED <<conVars, list, opened, pubs, at, reqs, job, log, closes,
                   fault>>

\* The call ends, and nobody gives its reference back.
Forget(k) ==
    /\ call' = [call EXCEPT ![k] = Idle]
    /\ UNCHANGED <<conVars, upVars, pubs, at, reqs, job, answer, log, closes,
                   fault>>

\* env: the environment of the request is returned, the reference is not.
Env(k) ==
    /\ call[k] # Idle
    /\ Gvl(k)
    /\ call[k].op = "env"
    /\ Forget(k)

\* The to_s of what is to be written raises: write() is left with the reference.
WriteRaises(k) ==
    /\ "raise" \in Faults
    /\ call[k] # Idle
    /\ Gvl(k)
    /\ call[k].op = "write"
    /\ Forget(k)

\* Agoo.publish: a publication for all who have subscribed.
Broadcast(k) ==
    /\ call[k] = Idle
    /\ Gvl(k)
    /\ "publish" \in Ops
    /\ Budget
    /\ LET p == [kind |-> "publish", up |-> NULL, n |-> Len(log) + 1]
       IN  Publish(p) /\ log' = Append(log, p)
    /\ UNCHANGED <<conVars, upVars, at, reqs, job, call, answer, closes, fault>>

-----------------------------------------------------------------------------
(* The publications of a loop (process_pub_con) *)

Popped(l) == pubs' = [pubs EXCEPT ![l] = Tail(@)]

\* Defect: the new response is put at the front.
PrependRes(s, r) == <<r>> \o s

\* agoo_con_res_append
AppendRes(s, r) == Append(s, r)

\* The loop has the connection: on_drained is called when nothing is pending
\* any more, a message or a close is appended to the list of responses.
PubOwn(l) ==
    LET p == Head(pubs[l])
        u == p.up
        drained == IF up[u].pending = 1 THEN Has("on_drained") ELSE <<>>
        ref == up[u].ref + Len(drained) - 1
        res == CASE p.kind = "write" -> <<[kind |-> "text", n |-> p.n]>>
                 [] p.kind = "close" -> <<[kind |-> "close"]>>
                 [] OTHER -> <<>>
    IN  /\ at[l] = Idle /\ pubs[l] # <<>>
        /\ p.kind # "publish" /\ Owner[u] = l /\ con[u] # "gone"
        /\ Popped(l)
        /\ Queue(u, drained)
        /\ out' = [out EXCEPT ![u] = IF res = <<>> THEN @ ELSE AppendRes(@, res[1])]
        /\ up' = [up EXCEPT ![u] =
               [ref |-> ref, pending |-> @.pending - 1,
                subscribed |-> CASE p.kind = "subscribe" -> TRUE
                                 [] p.kind = "unsubscribe" -> FALSE
                                 [] OTHER -> @.subscribed]]
        /\ list' = IF ref <= 0 THEN Without(u) ELSE list
        /\ UNCHANGED <<con, bound, wire, reads, opened, at, job, callVars,
                       closes, fault>>

\* Another loop has the connection: it looks at up->con and then at the loop of
\* the connection, which the other loop may destroy meanwhile.
PubForeign(l) ==
    /\ at[l] = Idle /\ pubs[l] # <<>>
    /\ LET p == Head(pubs[l])
       IN  /\ p.kind # "publish" /\ Owner[p.up] # l /\ con[p.up] # "gone"
           /\ at' = [at EXCEPT ![l] = [at |-> "seen", up |-> p.up]]
    /\ Popped(l)
    /\ UNCHANGED <<conVars, upVars, reqs, job, callVars, closes, fault>>

\* A connection that is gone by now may be used without harm, or not.
PubSeen(l) ==
    /\ at[l].at = "seen"
    /\ LET u == at[l].up
       IN  \/ Release(u, 0) /\ UNCHANGED fault
           \/ con[u] = "gone" /\ fault' = TRUE /\ UNCHANGED upVars
    /\ at' = [at EXCEPT ![l] = Idle]
    /\ UNCHANGED <<conVars, pubs, reqs, job, callVars, closes>>

\* Defect: the message is appended without a look at up->con.
OnlyClose(kind) == kind = "close"

\* The publications that are safe without a connection.
NeedsNoCon(kind) == kind \in {"write", "close"}

\* The connection is gone: there is nothing to do but to give the reference
\* back.  Only a message and a close are prepared for that.
PubGone(l) ==
    /\ at[l] = Idle /\ pubs[l] # <<>>
    /\ LET p == Head(pubs[l])
       IN  /\ p.kind # "publish" /\ con[p.up] = "gone"
           /\ IF NeedsNoCon(p.kind)
                THEN Release(p.up, 0) /\ UNCHANGED fault
                ELSE fault' = TRUE /\ UNCHANGED upVars
    /\ Popped(l)
    /\ UNCHANGED <<conVars, at, reqs, job, callVars, closes>>

\* publish_pub walks up_list, from here on.
PubWalk(l) ==
    /\ at[l] = Idle /\ pubs[l] # <<>>
    /\ Head(pubs[l]).kind = "publish"
    /\ Popped(l)
    /\ at' = [at EXCEPT ![l] =
           IF list = <<>> THEN Idle
           ELSE [at |-> "walk", up |-> Head(list), n |-> Head(pubs[l]).n]]
    /\ UNCHANGED <<conVars, upVars, reqs, job, callVars, closes, fault>>

\* It has no lock, so the record it is at may be freed.
PubVisit(l) ==
    LET u == at[l].up
        next == {i \in DOMAIN list : i > 1 /\ list[i - 1] = u}
        mine == con[u] # "gone" /\ Owner[u] = l /\ up[u].subscribed
    IN  /\ at[l].at = "walk"
        /\ IF u \in Live
             THEN /\ out' = [out EXCEPT ![u] =
                         IF mine THEN AppendRes(@, [kind |-> "text", n |-> at[l].n])
                                 ELSE @]
                  /\ at' = [at EXCEPT ![l] =
                         IF next = {} THEN Idle
                         ELSE [@ EXCEPT !.up = list[CHOOSE i \in next : TRUE]]]
                  /\ UNCHANGED fault
             ELSE fault' = TRUE /\ UNCHANGED <<out, at>>
        /\ UNCHANGED <<con, bound, wire, reads, upVars, pubs, reqs, job,
                       callVars, closes>>

-----------------------------------------------------------------------------
(* The connection in its loop *)

LoopOf(u) == at[Owner[u]] = Idle

\* What remove_dead_res does not wait for.
Droppable(r) == r.kind \in {"accept", "text", "close", "ping"}
Dropped(s) ==
    CHOOSE i \in 0..Len(s) :
        /\ \A j \in 1..i : Droppable(s[j])
        /\ i < Len(s) => ~Droppable(s[i + 1])

\* Defect: on_close is left to the write handler.
NoClosing(u) == <<>>

\* agoo_con_destroy asks for on_close, whether that was done before or not.
Closing(u) == IF bound[u] THEN Has("on_close") ELSE <<>>

\* The connection is dead and its list is s.  It is destroyed, and its
\* reference given back, unless a response is waited for.  The callbacks ms
\* have been queued before.
Kill(u, s, ms) ==
    LET i == Dropped(s)
        gone == i = Len(s)
        all == IF gone THEN ms \o Closing(u) ELSE ms
    IN  /\ con' = [con EXCEPT ![u] = IF gone THEN "gone" ELSE "dead"]
        /\ out' = [out EXCEPT ![u] = SubSeq(s, i + 1, Len(s))]
        /\ Queue(u, all)
        /\ IF gone
             THEN Release(u, Len(all))
             ELSE /\ up' = [up EXCEPT ![u].ref = @ + Len(all)]
                  /\ UNCHANGED <<list, opened>>

\* The peer has closed or reset the connection, or has sent a close frame.
Hangup(u) ==
    /\ LoopOf(u) /\ con[u] = "open"
    /\ IF bound[u] THEN "hangup" \in Faults ELSE "early" \in Faults
    /\ Kill(u, out[u], <<>>)
    /\ UNCHANGED <<bound, wire, reads, pubs, at, job, callVars, closes, fault>>

\* con_ready_check comes back to a dead connection.
CheckDead(u) ==
    /\ LoopOf(u) /\ con[u] = "dead"
    /\ Kill(u, out[u], <<>>)
    /\ UNCHANGED <<bound, wire, reads, pubs, at, job, callVars, closes, fault>>

\* con_ws_read: a message of the peer is handed to the eval threads.
Frame(u) ==
    /\ LoopOf(u) /\ con[u] = "open" /\ bound[u] /\ Proto[u] = "ws"
    /\ reads[u] < MaxReads
    /\ reads' = [reads EXCEPT ![u] = @ + 1]
    /\ reqs' = Append(reqs, [method |-> "on_message", up |-> u])
    /\ up' = [up EXCEPT ![u].ref = @ + 1]
    /\ UNCHANGED <<con, bound, out, wire, list, opened, pubs, at, job, callVars,
                   closes, fault>>

\* A ping of the peer is answered by a pong; a connection that was quiet for
\* con_timeout is sent a ping.
Beat(u, kind) ==
    /\ LoopOf(u) /\ con[u] = "open" /\ bound[u] /\ Proto[u] = "ws"
    /\ reads[u] < MaxReads
    /\ \/ kind = "pong" /\ "ping" \in Faults
       \/ kind = "ping" /\ "quiet" \in Faults
    /\ reads' = [reads EXCEPT ![u] = @ + 1]
    /\ out' = [out EXCEPT ![u] = AppendRes(@, [kind |-> kind])]
    /\ UNCHANGED <<con, bound, wire, upVars, pubs, at, reqs, job, callVars,
                   closes, fault>>

HasText(r) == r.kind \in {"accept", "text"}

\* Defect: only a text is polled for, as con_sse_events does it.
TextOnly(u) ==
    LoopOf(u) /\ con[u] = "open" /\ out[u] # <<>> /\ HasText(Head(out[u]))

\* con_http_events, con_ws_events and con_sse_events: the head of the list is
\* one that the connection is polled for output for.
Writable(u) ==
    /\ LoopOf(u) /\ con[u] = "open" /\ out[u] # <<>>
    /\ \/ HasText(Head(out[u]))
       \/ /\ bound[u] /\ Proto[u] = "ws"
          /\ Head(out[u]).kind \in {"close", "ping"}

\* The response to the upgrade is written, and con_ready_write turns to the
\* handlers of the protocol; a text is written; a ping is.
Write(u) ==
    LET r == Head(out[u])
    IN  /\ Writable(u) /\ r.kind # "close"
        /\ out' = [out EXCEPT ![u] = Tail(@)]
        /\ bound' = [bound EXCEPT ![u] = @ \/ r.kind = "accept"]
        /\ wire' = [wire EXCEPT ![u] = IF r.kind = "text" THEN Append(@, r.n) ELSE @]
        /\ UNCHANGED <<con, reads, upVars, pubs, at, reqs, job, callVars, closes,
                       fault>>

\* con_ws_write at a response without a text: the connection is to be closed.
WriteClose(u) ==
    /\ Writable(u) /\ Head(out[u]).kind = "close"
    /\ Kill(u, Tail(out[u]), Has("on_close"))
    /\ UNCHANGED <<bound, wire, reads, pubs, at, job, callVars, closes, fault>>

\* send() fails.  Each protocol asks for on_error, a WebSocket for on_close.
WriteError(u) ==
    /\ "error" \in Faults
    /\ Writable(u) /\ bound[u] /\ Head(out[u]).kind # "close"
    /\ Kill(u, Tail(out[u]),
            Has("on_error") \o
            (IF Proto[u] = "ws" THEN Has("on_close") ELSE <<>>))
    /\ UNCHANGED <<bound, wire, reads, pubs, at, job, callVars, closes, fault>>

-----------------------------------------------------------------------------
(* The callbacks (handle_push_inner) *)

\* A callback starts.  on_close publishes one more close first.  A message for
\* a handler without on_message has no hook and is forgotten right away, with
\* the reference it holds.
Take(t) ==
    LET r == Head(reqs)
        runs == r.method # "on_message" \/ "on_message" \in Hooks
        p == [kind |-> "close", up |-> r.up, n |-> 0]
    IN  /\ job[t] = Idle /\ reqs # <<>> /\ Gvl(t)
        /\ reqs' = Tail(reqs)
        /\ job' = [job EXCEPT ![t] = IF runs THEN [at |-> "run", up |-> r.up] ELSE Idle]
        /\ IF r.method = "on_close"
             THEN /\ Publish(p)
                  /\ up' = [up EXCEPT ![r.up].ref = @ + 1 + Copies]
                  /\ closes' = [closes EXCEPT ![r.up] = @ + 1]
             ELSE UNCHANGED <<pubs, up, closes>>
        /\ UNCHANGED <<conVars, list, opened, at, callVars, fault>>

\* Defect: a callback that returns keeps its reference.
ReturnKeeps(t) ==
    /\ job[t] # Idle /\ Gvl(t)
    /\ job' = [job EXCEPT ![t] = Idle]
    /\ UNCHANGED <<conVars, upVars, pubs, at, reqs, callVars, closes, fault>>

\* The callback returns and its reference is given back.
Return(t) ==
    /\ job[t] # Idle /\ Gvl(t)
    /\ Release(job[t].up, 0)
    /\ job' = [job EXCEPT ![t] = Idle]
    /\ UNCHANGED <<conVars, pubs, at, reqs, callVars, closes, fault>>

\* It raises an exception: rescue_error logs that and leaves the reference.
Raise(t) ==
    /\ "raise" \in Faults
    /\ job[t] # Idle /\ Gvl(t)
    /\ job' = [job EXCEPT ![t] = Idle]
    /\ UNCHANGED <<conVars, upVars, pubs, at, reqs, callVars, closes, fault>>

-----------------------------------------------------------------------------
LoopStep(l) ==
    PubOwn(l) \/ PubForeign(l) \/ PubSeen(l) \/ PubGone(l) \/ PubWalk(l) \/ PubVisit(l)
ConStep(u) == CheckDead(u) \/ Write(u) \/ WriteClose(u)
Event(u) ==
    \/ Hangup(u) \/ Frame(u) \/ WriteError(u)
    \/ \E kind \in {"ping", "pong"} : Beat(u, kind)
CallStep(k) == Act(k) \/ Ask(k) \/ Env(k)

\* A wild read may end the process.
Next ==
    /\ ~fault
    /\ \/ \E u \in Ups : Create(u) \/ Accept(u) \/ ConStep(u) \/ Event(u)
       \/ \E k \in Callers : \/ CallStep(k) \/ WriteRaises(k) \/ Broadcast(k)
                             \/ \E u \in Ups, op \in Ops : Get(k, u, op)
       \/ \E l \in Loops : LoopStep(l)
       \/ \E t \in Evals : Take(t) \/ Return(t) \/ Raise(t)

Spec == Init /\ [][Next]_vars

\* Every thread goes on; what the peers and the callers do is up to them.
FairSpec ==
    /\ Spec
    /\ \A u \in Ups : WF_vars(~fault /\ Accept(u)) /\ WF_vars(~fault /\ ConStep(u))
    /\ \A k \in Callers : WF_vars(~fault /\ CallStep(k))
    /\ \A l \in Loops : WF_vars(~fault /\ LoopStep(l))
    /\ \A t \in Evals : WF_vars(~fault /\ (Take(t) \/ Return(t)))

-----------------------------------------------------------------------------
(* Properties *)

Pub == [kind : Ops \cup {"close"}, up : Ups \cup {NULL}, n : 0..MaxCalls]

\* The type invariant: in particular no count of references goes below zero
\* (upgraded.c:38-55), and up_list has only records that were made.
TypeOK ==
    /\ con \in [Ups -> {"open", "dead", "gone"}]
    /\ bound \in [Ups -> BOOLEAN]
    /\ \A u \in Ups : \A i \in DOMAIN out[u] :
           out[u][i].kind \in {"wait", "accept", "text", "close", "ping", "pong"}
    /\ up \in [Ups -> [ref : Nat, pending : Int, subscribed : BOOLEAN]]
    /\ Live \subseteq opened /\ opened \subseteq Ups
    /\ pubs \in [Loops -> Seq(Pub)]
    /\ \A l \in Loops : at[l] # Idle => at[l].up \in Ups
    /\ \A i \in DOMAIN reqs : reqs[i].up \in Ups
    /\ \A t \in Evals : job[t] # Idle => job[t].up \in Ups
    /\ \A k \in Callers : call[k] # Idle => call[k].up \in Ups
    /\ answer \in [Callers -> BOOLEAN]
    /\ log \in Seq(Pub)
    /\ wire \in [Ups -> Seq(1..MaxCalls)]
    /\ closes \in [Ups -> Nat] /\ reads \in [Ups -> 0..MaxReads]
    /\ fault \in BOOLEAN

\* A record is not freed while someone holds it, and its count covers all who
\* do, also when a callback or a call raises and when calls, callbacks and the
\* loops meet (upgraded.c:38-55, process_pub_con, handle_push_inner).
RefsCover ==
    \A u \in Ups : Holders(u) > 0 => u \in Live /\ up[u].ref >= Holders(u)

\* The count is exact where every callback is there and returns, no to_s raises
\* in write() (rupgraded.c:83) and no handler calls env (rupgraded.c:287), so
\* that the last to let go frees the record, or finds that a question has let
\* go of it.
RefsExact == \A u \in Ups : u \in Live => up[u].ref = Holders(u)

\* What the calls have asked for, for the connection u: the messages written to
\* it or published while it was subscribed, up to the first close.
Asked(i, u, kind) == i \in DOMAIN log /\ log[i].kind = kind /\ log[i].up = u
Subscribed(u, n) ==
    \E i \in 1..n : /\ Asked(i, u, "subscribe")
                    /\ \A j \in (i + 1)..n : ~Asked(j, u, "unsubscribe")
Expected(u) ==
    {n \in DOMAIN log :
        /\ \A i \in 1..(n - 1) : ~Asked(i, u, "close")
        /\ \/ Asked(n, u, "write")
           \/ Asked(n, NULL, "publish") /\ Subscribed(u, n)}

\* The wire carries the messages of the calls, each once, in the order of the
\* calls and without a gap, those that were published only while subscribed, and
\* none after a close (process_pub_con, publish_pub, con_ws_write, con_sse_write).
WireAsCalled ==
    \A u \in Ups : \A k \in DOMAIN wire[u] :
        /\ wire[u][k] \in Expected(u)
        /\ \A i \in 1..(k - 1) : wire[u][i] < wire[u][k]
        /\ \A n \in Expected(u) :
               n < wire[u][k] => \E i \in 1..(k - 1) : wire[u][i] = n

\* While the connection is there, pending is no more than what still is in the
\* queue of its loop, so write() does not refuse a message without a reason
\* (upgraded.c:120, con.c:1042).
PendingHonest ==
    \A u \in Ups :
        (u \in Live /\ con[u] # "gone") => up[u].pending <= QueuedFor(u, Owner[u])

\* No loop uses a connection, or a record, that is gone.  The calls that
\* subscribe count on the connection to be there (con.c:1083 and 1089).
NothingWild == ~fault

\* The record of a connection that is gone is freed: the publications of a
\* closed connection are there to let go of it (con.c:1056-1058).
Reclaimed == \A u \in Ups : con[u] = "gone" ~> (u \notin Live \/ fault)

\* A message written is sent unless the connection is closed
\* (con.c:1069-1080, con_ws_write).
WritesSent ==
    \A u \in Ups :
        \A n \in 1..MaxCalls :
            (n <= Len(log) /\ log[n].kind = "write" /\ log[n].up = u)
                ~> (con[u] # "open" \/ \E i \in DOMAIN wire[u] : wire[u][i] = n)

\* close() closes the connection (rupgraded.c:141-155).
CloseCloses ==
    \A u \in Ups :
        (\E i \in DOMAIN log : log[i].kind = "close" /\ log[i].up = u)
            ~> con[u] = "gone"

\* A connection that was opened and is gone has had its on_close.
OnCloseCalled ==
    \A u \in Ups : (u \in opened /\ con[u] = "gone") ~> (closes[u] > 0)

\* on_close is not called before the connection is closed.
OnCloseAfterClosed == \A u \in Ups : closes[u] > 0 => con[u] = "gone"

\* open? does not answer true for a connection that is gone.
OpenTells ==
    [][\A k \in Callers :
           (call[k] # Idle /\ call[k].op = "open" /\ call'[k] = Idle
            /\ con[call[k].up] = "gone") => ~answer'[k]]_vars
=============================================================================
