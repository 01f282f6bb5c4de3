------------------------------- MODULE HttpCon -------------------------------
(***************************************************************************)
(* The HTTP connections of one connection loop (src/ext/agoo/con.c) and    *)
(* the responses they wait for (src/ext/agoo/res.c).                       *)
(*                                                                         *)
(* The loop thread reads requests, appends a response record (agooRes) to  *)
(* the list of the connection for each, and hands most requests to the     *)
(* eval threads, which push the text of the response onto the record       *)
(* whenever they are done.  The loop writes the head of the list to the    *)
(* socket.  Records go round: agoo_res_destroy puts a record in the cache  *)
(* of the loop, agoo_res_create takes it from there for any connection.    *)
(*                                                                         *)
(* A handler of the loop runs without another handler in between, so it is *)
(* one action unless an eval thread can act on what it does halfway: the   *)
(* read handler hands over requests one at a time, and the write handler   *)
(* looks at res->final after it dropped the text it has sent.  The eval    *)
(* threads share the GVL, but the loop does not take it: it can act        *)
(* between the two steps of a handler that raised.                         *)
(***************************************************************************)
EXTENDS Naturals, Sequences, FiniteSets, Functions

CONSTANTS
    Cons,       \* the connections of the loop
    MaxReq,     \* bound on the requests of a connection
    MaxHints,   \* bound on the early hints of a request
    TextLen,    \* the number of units send() can split a text in
    Kinds,      \* who answers: "eval", "page" (the loop), "bad" (the loop)
    Closes,     \* whether a request has a Connection: Close header
    Faults      \* what may go wrong, see below

\* "error"   send() fails
\* "eagain"  send() has no room although the socket was reported writable
\* "hangup"  the peer closes or resets the connection
\* "extra"   the peer sends more after a request with Connection: Close
\* "late"    con_timeout passes
\* "raise"   the handler of a request raises an exception
ASSUME HttpAssumption ==
    /\ MaxReq \in Nat /\ MaxHints \in Nat /\ TextLen \in Nat \ {0}
    /\ IsFiniteSet(Cons)
    /\ Kinds \subseteq {"eval", "page", "bad"}
    /\ Closes \subseteq BOOLEAN
    /\ Faults \subseteq {"error", "eagain", "hangup", "extra", "late",
                      "raise"}

Jobs == Cons \X (1..MaxReq)
ResIds == 1..(Cardinality(Cons) * MaxReq)
Texts == [con : Cons, n : 1..MaxReq, kind : {"hint", "final"}]

VARIABLES
    res,        \* res[r] is the response record r
    cache,      \* the records in the cache of the loop, first to be reused first
    made,       \* the number of records ever allocated
    con,        \* con[c] is the connection c; hit: a fault has hit it
    list,       \* list[c] is the list from c->res_head to c->res_tail
    asked,      \* asked[c] is the number of requests read from c
    job,        \* job[j] is the request j for the eval threads
    loop,       \* the handler the loop is in
    wire        \* wire[c] is what c has been sent, unit by unit

vars == <<res, cache, made, con, list, asked, job, loop, wire>>

Idle == [at |-> "ready"]
Final(j) == [con |-> j[1], n |-> j[2], kind |-> "final"]
Hint(j) == [con |-> j[1], n |-> j[2], kind |-> "hint"]

Init ==
    /\ res = [r \in ResIds |-> [con |-> CHOOSE c \in Cons : TRUE,
                                texts |-> <<>>, final |-> FALSE, close |-> FALSE]]
    /\ cache = <<>> /\ made = 0
    /\ con = [c \in Cons |-> [state |-> "open", closing |-> FALSE, wcnt |-> 0,
                        hit |-> FALSE]]
    /\ list = [c \in Cons |-> <<>>]
    /\ asked = [c \in Cons |-> 0]
    /\ job = [j \in Jobs |-> [state |-> "none", res |-> 0, hints |-> 0,
                          close |-> FALSE]]
    /\ loop = Idle
    /\ wire = [c \in Cons |-> <<>>]

HasText(c) == list[c] # <<>> /\ res[Head(list[c])].texts # <<>>

\* con_http_events: the connection is polled for input.
Readable(c) == con[c].state = "open" /\ (HasText(c) \/ ~con[c].closing)

Writable(c) == con[c].state = "open" /\ HasText(c)

-----------------------------------------------------------------------------
(* Removal of a connection *)

\* Defect: a response that was pushed too late to be sent is waited for.
DroppableIfClose(r) == res[r].close

\* What remove_dead_res does not wait for.
Droppable(r) == res[r].texts # <<>> \/ res[r].close

\* The length of the part of s that remove_dead_res drops.
Dropped(s) ==
    CHOOSE k \in 0..Len(s) :
        /\ \A i \in 1..k : Droppable(s[i])
        /\ k < Len(s) => ~Droppable(s[k + 1])

\* remove_dead_res on the list s of c, with the connection destroyed if the
\* list is empty afterwards, and in state st otherwise.  recycled are records
\* the handler put in the cache before; hit tells whether a fault is the reason.
Remove(c, s, st, recycled, hit) ==
    LET k == Dropped(s)
    IN  /\ cache' = cache \o recycled \o SubSeq(s, 1, k)
        /\ list' = [list EXCEPT ![c] = SubSeq(s, k + 1, Len(s))]
        /\ con' = [con EXCEPT ![c].state = IF k = Len(s) THEN "gone" ELSE st,
                             ![c].hit = @ \/ hit]

-----------------------------------------------------------------------------
(* The read handler *)

\* agoo_con_http_read gives up at once on a connection that is closing.
ReadClosing(c) ==
    /\ "extra" \in Faults
    /\ loop = Idle
    /\ Readable(c)
    /\ con[c].closing
    /\ Remove(c, list[c], "dead", <<>>, TRUE)
    /\ UNCHANGED <<res, made, asked, job, loop, wire>>

\* agoo_res_create: the next record of the cache, or a new one.
NextRes == IF cache # <<>> THEN Head(cache) ELSE made + 1

\* Defect: the new record is put at the front of the list.
AppendRes(s, r) == <<r>> \o s

\* agoo_con_res_append
ResAppend(s, r) == Append(s, r)

\* The next request in the buffer, which was just filled or still holds it: a
\* connection that is closing is no reason to stop there.  A page, or an error,
\* is answered here and now; any other request goes to the eval threads.  An
\* error response closes the connection, but the header of a bad request is not
\* looked at.
ReadRequest(c, kind, close) ==
    LET j == <<c, asked[c] + 1>>
        r == NextRes
    IN  /\ \/ loop = Idle /\ Readable(c) /\ ~con[c].closing
           \/ loop = [at |-> "read", con |-> c]
        /\ asked[c] < MaxReq
        /\ asked' = [asked EXCEPT ![c] = @ + 1]
        /\ cache' = IF cache # <<>> THEN Tail(cache) ELSE cache
        /\ made' = IF cache # <<>> THEN made ELSE made + 1
        /\ res' = [res EXCEPT ![r] =
               [con |-> c,
                texts |-> IF kind = "eval" THEN <<>> ELSE <<Final(j)>>,
                final |-> kind # "eval",
                close |-> close \/ kind = "bad"]]
        /\ list' = [list EXCEPT ![c] = ResAppend(@, r)]
        /\ con' = [con EXCEPT ![c].closing = @ \/ (close /\ kind # "bad")]
        /\ job' = [job EXCEPT ![j] =
               [state |-> IF kind = "eval" THEN "running" ELSE "done",
                res |-> r, hints |-> 0, close |-> close \/ kind = "bad"]]
        /\ loop' = IF kind = "bad" THEN Idle ELSE [at |-> "read", con |-> c]
        /\ UNCHANGED wire

\* The buffer holds no further request.
ReadEnd(c) ==
    /\ loop = [at |-> "read", con |-> c]
    /\ loop' = Idle
    /\ UNCHANGED <<res, cache, made, con, list, asked, job, wire>>

-----------------------------------------------------------------------------
(* The write handler, agoo_con_http_write *)

\* Defect: one send() is taken to have sent the whole text.
SendOnce(c, k) ==
    LET r == Head(list[c])
        text == Head(res[r].texts)
    IN  /\ loop = Idle
        /\ Writable(c)
        /\ wire' = [wire EXCEPT ![c] =
               @ \o [i \in 1..k |-> [text |-> text, unit |-> i]]]
        /\ res' = [res EXCEPT ![r].texts = Tail(@)]
        /\ list' = [list EXCEPT ![c] = Tail(@)]
        /\ loop' = [at |-> "sent", con |-> c, res |-> r,
                    next |-> Tail(res[r].texts) # <<>>]
        /\ UNCHANGED <<cache, made, con, asked, job>>

\* send() takes k units of the text at the head of the list.
Send(c, k) ==
    LET r == Head(list[c])
        text == Head(res[r].texts)
        from == con[c].wcnt
    IN  /\ loop = Idle
        /\ Writable(c)
        /\ from + k <= TextLen
        /\ wire' = [wire EXCEPT ![c] =
               @ \o [i \in 1..k |-> [text |-> text, unit |-> from + i]]]
        /\ IF from + k = TextLen
             THEN /\ res' = [res EXCEPT ![r].texts = Tail(@)]
                  /\ con' = [con EXCEPT ![c].wcnt = 0]
                  /\ list' = [list EXCEPT ![c] = Tail(@)]
                  /\ loop' = [at |-> "sent", con |-> c, res |-> r,
                              next |-> Tail(res[r].texts) # <<>>]
             ELSE /\ con' = [con EXCEPT ![c].wcnt = from + k]
                  /\ UNCHANGED <<res, list, loop>>
        /\ UNCHANGED <<cache, made, asked, job>>

\* Defect: the record is put back even when it was destroyed.
SentAlwaysPrepends(c) ==
    LET r == loop.res
    IN  /\ loop.at = "sent" /\ loop.con = c
        /\ loop' = Idle
        /\ cache' = IF ~loop.next /\ res[r].final THEN Append(cache, r) ELSE cache
        /\ list' = [list EXCEPT ![c] = <<r>> \o @]
        /\ UNCHANGED <<res, made, con, asked, job, wire>>

\* Defect: the close indicator of the response is not heeded.
SentKeepsOpen(c) ==
    LET r == loop.res
    IN  /\ loop.at = "sent" /\ loop.con = c
        /\ loop' = Idle
        /\ IF ~loop.next /\ res[r].final
             THEN cache' = Append(cache, r) /\ UNCHANGED <<con, list>>
             ELSE /\ list' = [list EXCEPT ![c] = <<r>> \o @]
                  /\ UNCHANGED <<cache, con>>
        /\ UNCHANGED <<res, made, asked, job, wire>>

\* The text was sent whole and dropped.  The record is done with if there was
\* no other text then and its final text has been pushed by now.
Sent(c) ==
    LET r == loop.res
    IN  /\ loop.at = "sent" /\ loop.con = c
        /\ loop' = Idle
        /\ IF ~loop.next /\ res[r].final
             THEN IF res[r].close
                    THEN Remove(c, list[c], "dead", <<r>>, FALSE)
                    ELSE cache' = Append(cache, r) /\ UNCHANGED <<con, list>>
             ELSE /\ list' = [list EXCEPT ![c] = <<r>> \o @]
                  /\ UNCHANGED <<cache, con>>
        /\ UNCHANGED <<res, made, asked, job, wire>>

\* EAGAIN: the record that was popped is not put back.
SendBlocked(c) ==
    /\ "eagain" \in Faults
    /\ loop = Idle
    /\ Writable(c)
    /\ list' = [list EXCEPT ![c] = Tail(@)]
    /\ con' = [con EXCEPT ![c].hit = TRUE]
    /\ UNCHANGED <<res, cache, made, asked, job, loop, wire>>

\* Any other error ends the connection.  Nor is the record put back.
SendError(c) ==
    /\ "error" \in Faults
    /\ loop = Idle
    /\ Writable(c)
    /\ Remove(c, Tail(list[c]), "dead", <<>>, TRUE)
    /\ UNCHANGED <<res, made, asked, job, loop, wire>>

-----------------------------------------------------------------------------
(* The end of a connection *)

\* An end of file, or a hangup epoll reports whatever it was asked for.
Hangup(c) ==
    /\ "hangup" \in Faults
    /\ loop = Idle
    /\ con[c].state = "open"
    /\ Remove(c, list[c], "dead", <<>>, TRUE)
    /\ UNCHANGED <<res, made, asked, job, loop, wire>>

\* Defect: a dead connection is destroyed whatever it waits for.
DeadDestroyed(c) ==
    /\ loop = Idle
    /\ con[c].state = "dead"
    /\ con' = [con EXCEPT ![c].state = "gone"]
    /\ cache' = cache \o list[c]
    /\ list' = [list EXCEPT ![c] = <<>>]
    /\ UNCHANGED <<res, made, asked, job, loop, wire>>

\* con_ready_check finds the connection dead.
CheckDead(c) ==
    /\ loop = Idle
    /\ con[c].state = "dead"
    /\ Remove(c, list[c], "dead", <<>>, FALSE)
    /\ UNCHANGED <<res, made, asked, job, loop, wire>>

\* con_ready_check after c->timeout: the connection gets a last half second ...
CheckLate(c) ==
    /\ "late" \in Faults
    /\ loop = Idle
    /\ con[c].state = "open"
    /\ ~con[c].closing
    /\ con' = [con EXCEPT ![c].closing = TRUE, ![c].hit = TRUE]
    /\ UNCHANGED <<res, cache, made, list, asked, job, loop, wire>>

\* ... and is removed after that.
CheckClosing(c) ==
    /\ "late" \in Faults
    /\ loop = Idle
    /\ con[c].state = "open"
    /\ con[c].closing
    /\ Remove(c, list[c], "open", <<>>, TRUE)
    /\ UNCHANGED <<res, made, asked, job, loop, wire>>

-----------------------------------------------------------------------------
(* The eval threads *)

\* Defect: the record is marked final before it is looked at.
PushTextLate(r, text, final) ==
    IF res[r].final \/ final THEN [res EXCEPT ![r].final = TRUE]
    ELSE [res EXCEPT ![r].texts = Append(@, text)]

\* A text for a record that is not final is put after the others.
PushText(r, text, final) ==
    IF res[r].final THEN res
    ELSE [res EXCEPT ![r].texts = Append(@, text), ![r].final = final]

\* Agoo::EarlyHints#call, agoo_res_add_early
AddEarly(j) ==
    /\ job[j].state = "running"
    /\ job[j].hints < MaxHints
    /\ res' = PushText(job[j].res, Hint(j), FALSE)
    /\ job' = [job EXCEPT ![j].hints = @ + 1]
    /\ UNCHANGED <<cache, made, con, list, asked, loop, wire>>

\* The handler returned: agoo_res_message_push
Respond(j) ==
    /\ job[j].state = "running"
    /\ res' = PushText(job[j].res, Final(j), TRUE)
    /\ job' = [job EXCEPT ![j].state = "done"]
    /\ UNCHANGED <<cache, made, con, list, asked, loop, wire>>

\* The handler raised: rescue_error marks the response as one to close after,
\* as if the request had asked for that ...
Raise(j) ==
    /\ "raise" \in Faults
    /\ job[j].state = "running"
    /\ res' = [res EXCEPT ![job[j].res].close = TRUE]
    /\ job' = [job EXCEPT ![j].state = "raised", ![j].close = TRUE]
    /\ UNCHANGED <<cache, made, con, list, asked, loop, wire>>

\* ... and pushes the error page.  The loop does not wait for the GVL and may
\* come in between, when the record is droppable already.
RaisePush(j) ==
    /\ job[j].state = "raised"
    /\ res' = PushText(job[j].res, Final(j), TRUE)
    /\ job' = [job EXCEPT ![j].state = "done"]
    /\ UNCHANGED <<cache, made, con, list, asked, loop, wire>>

-----------------------------------------------------------------------------
Read(c) ==
    \/ ReadClosing(c) \/ ReadEnd(c)
    \/ \E kind \in Kinds, close \in Closes : ReadRequest(c, kind, close)

Write(c) == (\E k \in 1..TextLen : Send(c, k)) \/ Sent(c)

Next ==
    \/ \E c \in Cons :
          \/ Read(c) \/ Write(c) \/ SendBlocked(c) \/ SendError(c)
          \/ Hangup(c) \/ CheckDead(c) \/ CheckLate(c) \/ CheckClosing(c)
    \/ \E j \in Jobs :
          AddEarly(j) \/ Respond(j) \/ Raise(j) \/ RaisePush(j)

Spec == Init /\ [][Next]_vars

\* The loop comes back to every connection (epoll_wait and the half second
\* between two checks), and the handler of a request returns.
FairSpec ==
    /\ Spec
    /\ \A c \in Cons : /\ WF_vars(ReadEnd(c))
                       /\ WF_vars(Write(c))
                       /\ WF_vars(CheckDead(c))
    /\ \A j \in Jobs : WF_vars(Respond(j) \/ Raise(j) \/ RaisePush(j))
-----------------------------------------------------------------------------
(* What the connections promise *)

States == {"none", "running", "raised", "done"}

\* The type invariant: the lists, the cache and the eval threads only know
\* records that agoo_res_create made (res.c:11-40), and a connection counts
\* less than a text in wcnt (con.c:722-726).
TypeOK ==
    /\ \A r \in ResIds :
           /\ res[r].con \in Cons
           /\ Range(res[r].texts) \subseteq Texts
           /\ res[r].final \in BOOLEAN /\ res[r].close \in BOOLEAN
    /\ made \in 0..Cardinality(ResIds)
    /\ Range(cache) \subseteq 1..made
    /\ con \in [Cons -> [state : {"open", "dead", "gone"}, closing : BOOLEAN,
                         wcnt : 0..(TextLen - 1), hit : BOOLEAN]]
    /\ \A c \in Cons : Range(list[c]) \subseteq 1..made
    /\ asked \in [Cons -> 0..MaxReq]
    /\ job \in [Jobs -> [state : States, res : 0..made, hints : 0..MaxHints,
                         close : BOOLEAN]]
    /\ loop \in {Idle} \cup [at : {"read"}, con : Cons]
                  \cup [at : {"sent"}, con : Cons, res : 1..made, next : BOOLEAN]
    /\ \A c \in Cons : \A i \in DOMAIN wire[c] :
           wire[c][i] \in [text : Texts, unit : 1..TextLen]

\* The record the write handler has in hand, if any.
InHand(c) == IF loop.at = "sent" THEN IF loop.con = c THEN {loop.res} ELSE {}
             ELSE {}

Records(c) == Range(list[c]) \cup InHand(c)

\* A request that is being evaluated, or whose handler raised and has yet to
\* push the error page, has its response record to itself: its
\* connection exists and the record is in its place there, so that the push
\* that follows (res.c:61-80) reaches the client that asked.  The record is
\* not in the cache, from which another request might get it.
EvalOwnsRes ==
    \A j \in Jobs : job[j].state \in {"running", "raised"} =>
        /\ con[j[1]].state # "gone"
        /\ job[j].res \in Records(j[1])
        /\ job[j].res \notin Range(cache)

\* A record is in one place: once in the cache, or in one list, or in the hand
\* of the write handler (res.c:11-59, con.c:131-168, 1140-1160).
PlacedOnce ==
    LET Places(r) == {<<"cache", i>> : i \in {i \in DOMAIN cache : cache[i] = r}}
            \cup (UNION {{<<c, i>> : i \in {i \in DOMAIN list[c] : list[c][i] = r}}
                           : c \in Cons})
            \cup {<<c, 0>> : c \in {c \in Cons : r \in InHand(c)}}
    IN  \A r \in ResIds : Cardinality(Places(r)) <= 1

\* Unit b may come right after unit a on the wire of a connection.
Follows(a, b) ==
    /\ b.text.con = a.text.con
    /\ \/ b.text = a.text /\ b.unit = a.unit + 1
       \/ /\ a.unit = TextLen /\ b.unit = 1
          /\ b.text.n = IF a.text.kind = "final" THEN a.text.n + 1 ELSE a.text.n

\* A client is sent the responses to its own requests, in the order it made
\* them, each whole and once, with the early hints of a request before its
\* response, however the eval threads finish (con.c:664-738).
WireInOrder ==
    \A c \in Cons : wire[c] # <<>> =>
        /\ wire[c][1].text.con = c /\ wire[c][1].text.n = 1 /\ wire[c][1].unit = 1
        /\ \A i \in 1..(Len(wire[c]) - 1) : Follows(wire[c][i], wire[c][i + 1])

Answered(j) == [text |-> Final(j), unit |-> TextLen] \in Range(wire[j[1]])

\* A response an eval thread pushed is on its way to the client, or was sent,
\* as long as the connection is open (con.c:722-735).
NoResponseLost ==
    \A j \in Jobs :
        job[j].state = "done" /\ con[j[1]].state = "open" =>
            \/ Answered(j)
            \/ \E r \in Records(j[1]) : Final(j) \in Range(res[r].texts)

\* Some fault has hit c, or a handler has sent early hints there: what follows
\* is promised to the others.
Excused(c) == con[c].hit \/ \E n \in 1..MaxReq : job[<<c, n>>].hints > 0

\* The connection closes after the response to an earlier request.
ClosedBefore(j) == \E m \in 1..(j[2] - 1) : job[<<j[1], m>>].close

\* A connection that has gone without a fault answered every request up to the
\* one that had it closed (con.c:632-634, 728-732).
AnsweredThenClosed ==
    \A j \in Jobs :
        con[j[1]].state = "gone" /\ job[j].state # "none" =>
            Answered(j) \/ ClosedBefore(j) \/ Excused(j[1])

\* Every request is answered in the end, unless its connection closes first
\* (con.c:664-738, rserver.c:361-414).
AllAnswered ==
    \A j \in Jobs :
        job[j].state # "none" ~> Answered(j) \/ ClosedBefore(j) \/ Excused(j[1])

\* A connection found dead is destroyed once the requests it still has at the
\* eval threads are done with (con.c:1177-1203).
DeadIsRemoved == \A c \in Cons : con[c].state = "dead" ~> con[c].state = "gone"

\* A connection a client asked to close is closed (con.c:632-634, 728-732).
CloseIsHeeded ==
    \A c \in Cons : con[c].closing ~> con[c].state = "gone" \/ Excused(c)
=============================================================================
