---------------------------- MODULE HttpConProofs ----------------------------
(***************************************************************************)
(* Proofs about HttpCon, for every set of connections, every number of     *)
(* requests and every length of a text.                                    *)
(*                                                                         *)
(* One invariant after the other, each proved from those before it: Shape  *)
(* and Placed of every behaviour; Owned of behaviours without early hints, *)
(* closing requests and handlers that raise (Plain); Ordered and Closed of *)
(* those and of loops with one connection (Apart); Unhit and InOrder of    *)
(* those in which send() finds room and no timeout is late (Calm). A lemma *)
(* ...Step proves that a step keeps an invariant, from one lemma for each  *)
(* handler that can disturb it; the lemmas ...Kept and Untouched say when  *)
(* a handler cannot.                                                       *)
(***************************************************************************)
EXTENDS HttpCon, SeqFacts, FiniteSetTheorems

-----------------------------------------------------------------------------
(* The inductive invariants *)

\* The requests that were read.
Asked == {j \in Jobs : j[2] <= asked[j[1]]}

ResRecords == [con : Cons, texts : Seq(Texts), final : BOOLEAN,
               close : BOOLEAN]
ConRecords == [state : {"open", "dead", "gone"}, closing : BOOLEAN,
               wcnt : 0..(TextLen - 1), hit : BOOLEAN]
Units == [text : Texts, unit : 1..TextLen]

\* The variables in their types.  A record is only made for a request, so
\* that there are no more records than requests.
Shape ==
    /\ res \in [ResIds -> ResRecords]
    /\ cache \in Seq(ResIds) /\ Range(cache) \subseteq 1..made
    /\ made \in Nat /\ made <= Cardinality(Asked)
    /\ con \in [Cons -> ConRecords]
    /\ list \in [Cons -> Seq(ResIds)]
    /\ \A c \in Cons : Range(list[c]) \subseteq 1..made
    /\ asked \in [Cons -> 0..MaxReq]
    /\ job \in [Jobs -> [state : States, res : 0..made, hints : 0..MaxHints,
                         close : BOOLEAN]]
    /\ loop \in {Idle} \cup [at : {"read"}, con : Cons]
                  \cup [at : {"sent"}, con : Cons, res : 1..made, next : BOOLEAN]
    /\ wire \in [Cons -> Seq(Units)]

\* The places of a record exclude each other.
Placed ==
    /\ IsInjective(cache)
    /\ \A c \in Cons : /\ IsInjective(list[c])
                       /\ Range(cache) \cap Range(list[c]) = {}
    /\ \A c, d \in Cons : c # d => Range(list[c]) \cap Range(list[d]) = {}
    /\ loop.at = "sent" => /\ loop.res \notin Range(cache)
                           /\ \A c \in Cons : loop.res \notin Range(list[c])

\* The loop only reads from, and writes to, a connection that is open.
AtOpen == loop.at \in {"read", "sent"} => con[loop.con].state = "open"

\* The steps of the eval threads, for the request j.
EvalStep(j) == AddEarly(j) \/ Respond(j) \/ Raise(j) \/ RaisePush(j)

\* The handler of the request has yet to push the response.
Running(j) == job[j].state \in {"running", "raised"}

\* The record of a request that is being evaluated is blank, in the list of
\* its connection, and no other such request has it.
Owned ==
    /\ \A j \in Jobs : Running(j) =>
           /\ con[j[1]].state # "gone"
           /\ job[j].res \in Range(list[j[1]])
           /\ res[job[j].res].texts = <<>>
           /\ ~res[job[j].res].final /\ ~res[job[j].res].close
    /\ \A j, k \in Jobs :
           Running(j) /\ Running(k) /\ job[j].res = job[k].res => j = k

\* The last unit on a wire, whether it ends a response, the number of the
\* responses that were sent whole, and the units sent of the next one.
LastUnit(w) == w[Len(w)]
Whole(w) == w = <<>> \/ LastUnit(w).unit = TextLen
Served(w) == IF w = <<>> THEN 0
             ELSE IF Whole(w) THEN LastUnit(w).text.n ELSE LastUnit(w).text.n - 1
Begun(w) == IF Whole(w) THEN 0 ELSE LastUnit(w).unit

\* A connection that is open and that no fault has hit.
Sound(c) == con[c].state = "open" /\ ~con[c].hit

\* The list of a connection holds the records of the requests that are not
\* served yet, in their order.  wcnt tells how much of the first was sent.
InStep(c) ==
    /\ asked[c] = Served(wire[c]) + Len(list[c])
    /\ con[c].wcnt = Begun(wire[c])
    /\ \A i \in 1..Len(wire[c]) :
          wire[c][i].text.con = c /\ wire[c][i].text.kind = "final"

\* The record at place i of the list has the answer to the request that stands
\* at i among those not served, or none yet.
InPlace(c, i) ==
    LET r == res[list[c][i]]
        j == <<c, Served(wire[c]) + i>>
    IN  /\ r.texts = <<>> \/ r.texts = <<Final(j)>>
        /\ r.texts # <<>> => r.final
        /\ r.close => job[j].close

\* The record of a request that is being evaluated is blank, at the place of
\* the request.
RunsInPlace(c, n) ==
    Running(<<c, n>>) =>
        /\ n - Served(wire[c]) \in 1..Len(list[c])
        /\ list[c][n - Served(wire[c])] = job[<<c, n>>].res
        /\ res[job[<<c, n>>].res].texts = <<>> /\ ~res[job[<<c, n>>].res].final

\* The response in the hand of the write handler is the last on the wire.
HandIsLast(c) ==
    loop.at = "sent" /\ loop.con = c =>
        /\ ~loop.next /\ res[loop.res].final
        /\ Served(wire[c]) >= 1
        /\ res[loop.res].close => job[<<c, Served(wire[c])>>].close

Fine(c) ==
    /\ InStep(c) /\ HandIsLast(c)
    /\ \A i \in 1..Len(list[c]) : InPlace(c, i)
    /\ \A n \in 1..MaxReq : RunsInPlace(c, n)

\* No early hints were sent for a request of c.
Quiet(c) == \A n \in 1..asked[c] : job[<<c, n>>].hints = 0

Ordered == \A c \in Cons : Sound(c) /\ Quiet(c) => Fine(c)

\* A connection was sent every response up to the last that is whole, and was
\* closed after a response that says so.
ClosedAt(c) ==
    /\ \A n \in 1..MaxReq : n <= Served(wire[c]) => Answered(<<c, n>>)
    /\ con[c].state # "open" =>
          /\ Served(wire[c]) \in 1..MaxReq
          /\ job[<<c, Served(wire[c])>>].close

Closed == \A c \in Cons : ~con[c].hit /\ Quiet(c) => ClosedAt(c)

-----------------------------------------------------------------------------
(* Operators *)

\* remove_dead_res stops at the first record that is still waited for.
LEMMA DroppedIs ==
  ASSUME NEW s \in Seq(ResIds)
  PROVE  /\ Dropped(s) \in 0..Len(s)
         /\ \A i \in 1..Dropped(s) : Droppable(s[i])
<1> DEFINE T == {k \in 0..Len(s) : k < Len(s) => ~Droppable(s[k + 1])}
<1>1. Len(s) \in Nat
  BY LenProperties
<1>2. T \in SUBSET Nat /\ Len(s) \in T
  BY <1>1
<1> HIDE DEF T
<1>3. PICK k \in T : \A i \in T : k <= i
  BY <1>2, LeastNumber
<1>4. k \in 0..Len(s) /\ (k < Len(s) => ~Droppable(s[k + 1]))
  BY <1>3 DEF T
<1>5. ASSUME NEW i \in 1..k PROVE Droppable(s[i])
  <2>1. i - 1 \notin T
    BY <1>2, <1>3
  <2>2. i - 1 \in 0..Len(s) /\ (i - 1) + 1 = i
    BY <1>1, <1>4
  <2> QED
    BY <2>1, <2>2 DEF T
<1>6. \E n \in 0..Len(s) : /\ \A i \in 1..n : Droppable(s[i])
                           /\ n < Len(s) => ~Droppable(s[n + 1])
  BY <1>4, <1>5
<1> HIDE DEF Droppable
<1> QED
  BY <1>6 DEF Dropped

\* The removal of a connection puts the first records in the cache and leaves
\* the others.
Parts(c, s, st, recycled, hit, front, rest) ==
    /\ cache' = cache \o recycled \o front
    /\ list' = [list EXCEPT ![c] = rest]
    /\ con' = [con EXCEPT ![c].state = IF rest = <<>> THEN "gone" ELSE st,
                          ![c].hit = @ \/ hit]
    /\ Range(s) = Range(front) \cup Range(rest)
    /\ IsInjective(s) => /\ IsInjective(front) /\ IsInjective(rest)
                         /\ Range(front) \cap Range(rest) = {}
    /\ \A r \in Range(front) : Droppable(r)

LEMMA RemoveParts ==
  ASSUME NEW c \in Cons, NEW s \in Seq(ResIds), NEW st,
         NEW recycled \in Seq(ResIds), NEW hit,
         Remove(c, s, st, recycled, hit)
  PROVE  \E front, rest \in Seq(ResIds) :
            Parts(c, s, st, recycled, hit, front, rest)
<1>1. PICK k : k = Dropped(s)
  OBVIOUS
<1>2. k \in 0..Len(s) /\ \A i \in 1..k : Droppable(s[i])
  BY <1>1, DroppedIs
<1>3. PICK front, rest : /\ front = SubSeq(s, 1, k)
                         /\ rest = SubSeq(s, k + 1, Len(s))
  OBVIOUS
<1>4. Len(s) \in Nat
  BY LenProperties
<1>5. /\ front \in Seq(ResIds) /\ rest \in Seq(ResIds)
      /\ Len(rest) = Len(s) - k
      /\ Range(s) = Range(front) \cup Range(rest)
      /\ IsInjective(s) => /\ IsInjective(front) /\ IsInjective(rest)
                           /\ Range(front) \cap Range(rest) = {}
  BY <1>2, <1>3, CutRange
<1>6. Len(front) = k /\ \A i \in 1..k : front[i] = s[i]
  BY <1>2, <1>3, <1>4, PartRange
<1>7. ASSUME NEW r \in Range(front) PROVE Droppable(r)
  <2>1. PICK i \in 1..Len(front) : r = front[i]
    BY <1>5, RangeDef
  <2> QED
    BY <1>2, <1>6, <2>1
<1>8. k = Len(s) <=> rest = <<>>
  BY <1>2, <1>4, <1>5, EmptySeq
<1>9. /\ cache' = cache \o recycled \o front
      /\ list' = [list EXCEPT ![c] = rest]
      /\ con' = [con EXCEPT ![c].state = IF k = Len(s) THEN "gone" ELSE st,
                            ![c].hit = @ \/ hit]
  BY <1>1, <1>3 DEF Remove
<1>10. con' = [con EXCEPT ![c].state = IF rest = <<>> THEN "gone" ELSE st,
                          ![c].hit = @ \/ hit]
  BY <1>8, <1>9
<1> HIDE DEF Droppable
<1> QED
  BY <1>5, <1>7, <1>9, <1>10 DEF Parts

-----------------------------------------------------------------------------
(* Types *)

LEMMA JobsFinite ==
  /\ Cardinality(Cons) * MaxReq \in Nat
  /\ IsFiniteSet(Jobs) /\ Cardinality(Jobs) = Cardinality(Cons) * MaxReq
<1>1. Cardinality(Cons) \in Nat
  BY HttpAssumption, FS_CardinalityType
<1>2. IsFiniteSet(1..MaxReq) /\ Cardinality(1..MaxReq) = MaxReq
  BY HttpAssumption, FS_Interval
<1>3. IsFiniteSet(Jobs) /\ Cardinality(Jobs) = Cardinality(Cons) * MaxReq
  BY <1>2, HttpAssumption, FS_Product DEF Jobs
<1>4. Cardinality(Jobs) \in Nat
  BY <1>3, FS_CardinalityType
<1> QED
  BY <1>3, <1>4

\* A request that is read makes room for one record more.
LEMMA AskedGrows ==
  ASSUME Shape, NEW c \in Cons, asked[c] < MaxReq,
         asked' = [asked EXCEPT ![c] = @ + 1]
  PROVE  /\ Cardinality(Asked') \in Nat
         /\ Cardinality(Asked') = Cardinality(Asked) + 1
         /\ made + 1 \in ResIds /\ made + 1 <= Cardinality(Asked')
<1> DEFINE j == <<c, asked[c] + 1>>
<1>1. asked[c] \in 0..MaxReq /\ MaxReq \in Nat /\ asked \in [Cons -> 0..MaxReq]
  BY HttpAssumption DEF Shape
<1>2. j \in Jobs /\ j \notin Asked
  BY <1>1 DEF Jobs, Asked
<1>3. Asked' = Asked \cup {j}
  <2>1. ASSUME NEW k \in Jobs
        PROVE  k[2] <= asked'[k[1]] <=> k[2] <= asked[k[1]] \/ k = j
    <3>1. k[1] \in Cons /\ k[2] \in 1..MaxReq /\ k = <<k[1], k[2]>>
      BY DEF Jobs
    <3>2. CASE k[1] = c
      BY <1>1, <3>1, <3>2
    <3>3. CASE k[1] # c
      BY <1>1, <3>1, <3>3
    <3> QED
      BY <3>2, <3>3
  <2>2. \A k : k \in Asked' <=> k \in Jobs /\ k[2] <= asked'[k[1]]
    BY DEF Asked, Jobs
  <2>3. \A k : k \in Asked <=> k \in Jobs /\ k[2] <= asked[k[1]]
    BY DEF Asked
  <2> QED
    BY <1>2, <2>1, <2>2, <2>3
<1>4. IsFiniteSet(Asked) /\ Asked' \in SUBSET Jobs
  BY <1>2, <1>3, JobsFinite, FS_Subset DEF Asked
<1>5. Cardinality(Asked') = Cardinality(Asked) + 1
  BY <1>2, <1>3, <1>4, FS_AddElement
<1>6. Cardinality(Asked') \in Nat /\ Cardinality(Asked') <= Cardinality(Jobs)
  BY <1>4, JobsFinite, FS_Subset, FS_CardinalityType
<1>7. Cardinality(Asked) \in Nat
  BY <1>4, FS_CardinalityType
<1> QED
  BY <1>5, <1>6, <1>7, JobsFinite DEF Shape, ResIds

\* The removal of a connection keeps the lists and the connections in shape.
LEMMA RemoveShape ==
  ASSUME Shape, NEW c \in Cons,
         NEW s \in Seq(ResIds), Range(s) \subseteq 1..made,
         NEW recycled \in Seq(ResIds), Range(recycled) \subseteq 1..made,
         NEW st \in {"open", "dead"}, NEW hit \in BOOLEAN,
         Remove(c, s, st, recycled, hit), UNCHANGED <<made, asked>>
  PROVE  /\ cache' \in Seq(ResIds) /\ Range(cache') \subseteq 1..made'
         /\ made' \in Nat /\ made' <= Cardinality(Asked')
         /\ con' \in [Cons -> ConRecords]
         /\ list' \in [Cons -> Seq(ResIds)]
         /\ \A d \in Cons : Range(list'[d]) \subseteq 1..made'
<1>1. PICK front, rest \in Seq(ResIds) :
         Parts(c, s, st, recycled, hit, front, rest)
  BY RemoveParts
<1>2. PICK u : u = cache \o recycled
  OBVIOUS
<1>3. /\ u \in Seq(ResIds)
      /\ Range(u) = Range(cache) \cup Range(recycled)
      /\ u \o front \in Seq(ResIds)
      /\ Range(u \o front) = Range(u) \cup Range(front)
      /\ cache' = u \o front
  <2>1. u \in Seq(ResIds) /\ Range(u) = Range(cache) \cup Range(recycled)
    BY <1>2, ConcatProperties, ConcatRange DEF Shape
  <2>2. /\ u \o front \in Seq(ResIds)
        /\ Range(u \o front) = Range(u) \cup Range(front)
    BY <2>1, ConcatProperties, ConcatRange
  <2>3. cache' = u \o front
    BY <1>1, <1>2 DEF Parts
  <2> QED
    BY <2>1, <2>2, <2>3
<1>4. Range(cache') \subseteq 1..made'
  BY <1>1, <1>3 DEF Shape, Parts
<1>5. /\ list' \in [Cons -> Seq(ResIds)]
      /\ \A d \in Cons : Range(list'[d]) \subseteq 1..made'
  BY <1>1 DEF Shape, Parts
<1>6. con' \in [Cons -> ConRecords]
  <2> DEFINE new == [con[c] EXCEPT
                        !.state = IF rest = <<>> THEN "gone" ELSE st,
                        !.hit = @ \/ hit]
  <2>1. /\ con[c] \in ConRecords
        /\ (IF rest = <<>> THEN "gone" ELSE st) \in {"open", "dead", "gone"}
        /\ (con[c].hit \/ hit) \in BOOLEAN
    BY DEF Shape, ConRecords
  <2>2. new \in ConRecords
    BY <2>1 DEF ConRecords
  <2>3. con' = [con EXCEPT ![c] = new]
    BY <1>1 DEF Shape, Parts
  <2> QED
    BY <2>2, <2>3 DEF Shape
<1>7. made' \in Nat /\ made' <= Cardinality(Asked')
  BY DEF Shape, Asked
<1> QED
  BY <1>3, <1>4, <1>5, <1>6, <1>7

LEMMA EmptyTyped == <<>> \in Seq(ResIds) /\ Range(<<>>) \subseteq 1..made
BY EmptySeq, EmptyRange

LEMMA TextTyped ==
  \A j \in Jobs : Final(j) \in Texts /\ Hint(j) \in Texts
BY DEF Jobs, Texts, Final, Hint

\* A push puts a text in a record.
LEMMA PushShape ==
  ASSUME Shape, NEW r \in ResIds, NEW text \in Texts, NEW final \in BOOLEAN
  PROVE  PushText(r, text, final) \in
            [ResIds -> ResRecords]
<1>1. res[r] \in ResRecords
  BY DEF Shape
<1>2. Append(res[r].texts, text) \in Seq(Texts)
  BY <1>1, AppendProperties DEF ResRecords
<1> QED
  BY <1>1, <1>2 DEF Shape, PushText, ResRecords

LEMMA ReadRequestShape ==
  ASSUME Shape, NEW c \in Cons, NEW kind \in Kinds, NEW close \in Closes,
         ReadRequest(c, kind, close)
  PROVE  Shape'
<1> DEFINE j == <<c, asked[c] + 1>>
           r == NextRes
<1>1. /\ asked[c] \in 0..MaxReq /\ asked[c] < MaxReq /\ MaxReq \in Nat
      /\ asked \in [Cons -> 0..MaxReq]
      /\ asked' = [asked EXCEPT ![c] = @ + 1]
  BY HttpAssumption DEF Shape, ReadRequest
<1>2. /\ j \in Jobs /\ Final(j) \in Texts
      /\ asked' \in [Cons -> 0..MaxReq]
  <2>1. j \in Jobs
    BY <1>1 DEF Jobs
  <2> QED
    BY <1>1, <2>1, TextTyped
<1>3. made' \in Nat /\ made <= made' /\ made' <= Cardinality(Asked')
  <2>1. made + 1 <= Cardinality(Asked') /\ Cardinality(Asked') \in Nat
    BY <1>1, AskedGrows
  <2>2. made' = made \/ made' = made + 1
    BY DEF ReadRequest
  <2>3. made \in Nat
    BY DEF Shape
  <2> QED
    BY <2>1, <2>2, <2>3
<1>4. /\ r \in ResIds /\ r \in 1..made'
      /\ cache' \in Seq(ResIds) /\ Range(cache') \subseteq 1..made
  <2>1. CASE cache = <<>>
    <3>1. r = made + 1 /\ made' = made + 1 /\ cache' = cache
      BY <2>1 DEF ReadRequest, NextRes
    <3>2. made + 1 \in ResIds /\ made \in Nat
      BY <1>1, AskedGrows DEF Shape
    <3> QED
      BY <3>1, <3>2 DEF Shape
  <2>2. CASE cache # <<>>
    <3>1. /\ Head(cache) \in ResIds /\ Tail(cache) \in Seq(ResIds)
          /\ Range(cache) = {Head(cache)} \cup Range(Tail(cache))
      BY <2>2, TailRange DEF Shape
    <3>2. Range(cache) \subseteq 1..made
      BY DEF Shape
    <3>3. cache' = Tail(cache) /\ r = Head(cache) /\ made' = made
      BY <2>2 DEF ReadRequest, NextRes
    <3> QED
      BY <3>1, <3>2, <3>3
  <2> QED
    BY <2>1, <2>2
<1>5. Range(cache') \subseteq 1..made'
  BY <1>3, <1>4 DEF Shape
<1>6. /\ list' \in [Cons -> Seq(ResIds)]
      /\ \A d \in Cons : Range(list'[d]) \subseteq 1..made'
  <2>1. /\ list[c] \in Seq(ResIds) /\ Range(list[c]) \subseteq 1..made
        /\ list' = [list EXCEPT ![c] = Append(@, r)]
    BY DEF Shape, ReadRequest, ResAppend
  <2>2. /\ Append(list[c], r) \in Seq(ResIds)
        /\ Range(Append(list[c], r)) = Range(list[c]) \cup {r}
    BY <1>4, <2>1, AppendProperties, AppendRange
  <2>3. \A d \in Cons : Range(list[d]) \subseteq 1..made'
    BY <1>3 DEF Shape
  <2> QED
    BY <1>4, <2>1, <2>2, <2>3 DEF Shape
<1>7. /\ kind \in {"eval", "page", "bad"} /\ close \in BOOLEAN
      /\ (close \/ kind = "bad") \in BOOLEAN
      /\ (close /\ kind # "bad") \in BOOLEAN
  BY HttpAssumption
<1>8. res' \in [ResIds -> ResRecords]
  <2>1. (IF kind = "eval" THEN <<>> ELSE <<Final(j)>>) \in Seq(Texts)
    BY <1>2
  <2> QED
    BY <1>4, <1>7, <2>1 DEF Shape, ReadRequest, ResRecords
<1>9. con' \in [Cons -> ConRecords]
  <2>1. con[c].closing \in BOOLEAN
    BY DEF Shape, ConRecords
  <2>2. (con[c].closing \/ (close /\ kind # "bad")) \in BOOLEAN
    BY <2>1, <1>7
  <2>3. con' = [con EXCEPT ![c].closing = @ \/ (close /\ kind # "bad")]
    BY DEF ReadRequest
  <2>4. [con[c] EXCEPT !.closing = @ \/ (close /\ kind # "bad")]
           \in ConRecords
    <3>1. con[c] \in ConRecords
      BY DEF Shape
    <3> QED
      BY <2>2, <3>1 DEF ConRecords
  <2> QED
    BY <2>3, <2>4 DEF Shape
<1>10. job' \in [Jobs -> [state : States, res : 0..made', hints : 0..MaxHints,
                          close : BOOLEAN]]
  <2>1. \A k \in Jobs : job[k] \in [state : States, res : 0..made',
                                    hints : 0..MaxHints, close : BOOLEAN]
    BY <1>3 DEF Shape
  <2>2. job' = [job EXCEPT ![j] =
               [state |-> IF kind = "eval" THEN "running" ELSE "done",
                res |-> r, hints |-> 0, close |-> close \/ kind = "bad"]]
    BY DEF ReadRequest
  <2>3. [state |-> IF kind = "eval" THEN "running" ELSE "done",
                res |-> r, hints |-> 0, close |-> close \/ kind = "bad"]
          \in [state : States, res : 0..made', hints : 0..MaxHints,
               close : BOOLEAN]
    BY <1>3, <1>4, <1>7, HttpAssumption DEF States
  <2>4. job \in [Jobs -> [state : States, res : 0..made, hints : 0..MaxHints,
                          close : BOOLEAN]]
    BY DEF Shape
  <2> QED
    BY <2>1, <2>2, <2>3, <2>4
<1>11. /\ loop' \in {Idle} \cup [at : {"read"}, con : Cons]
              \cup [at : {"sent"}, con : Cons, res : 1..made', next : BOOLEAN]
       /\ wire' \in [Cons -> Seq(Units)]
  BY DEF Shape, ReadRequest
<1> QED
  BY <1>2, <1>3, <1>4, <1>5, <1>6, <1>8, <1>9, <1>10, <1>11 DEF Shape

LEMMA SendShape ==
  ASSUME Shape, NEW c \in Cons, NEW k \in 1..TextLen, Send(c, k)
  PROVE  Shape'
<1> DEFINE r == Head(list[c])
           text == Head(res[r].texts)
           from == con[c].wcnt
           new == [i \in 1..k |-> [text |-> text, unit |-> from + i]]
<1>1. /\ list[c] \in Seq(ResIds) /\ list[c] # <<>>
      /\ Range(list[c]) \subseteq 1..made
      /\ res[r].texts # <<>>
  BY DEF Shape, Send, Writable, HasText
<1>2. /\ r \in ResIds /\ r \in 1..made
      /\ Tail(list[c]) \in Seq(ResIds) /\ Range(Tail(list[c])) \subseteq 1..made
  BY <1>1, TailRange
<1>3. res[r] \in ResRecords
  BY <1>2 DEF Shape
<1>4. text \in Texts /\ Tail(res[r].texts) \in Seq(Texts)
  BY <1>1, <1>3, HeadTailProperties DEF ResRecords
<1>5. from \in 0..(TextLen - 1) /\ from + k <= TextLen /\ TextLen \in Nat \ {0}
  BY HttpAssumption DEF Shape, ConRecords, Send
<1>6. wire' \in [Cons -> Seq(Units)]
  <2>1. new \in Seq(Units)
    <3>1. \A i \in 1..k : [text |-> text, unit |-> from + i] \in Units
      BY <1>4, <1>5 DEF Units
    <3>2. k \in Nat
      BY HttpAssumption
    <3> QED
      BY <3>1, <3>2
  <2>2. wire[c] \o new \in Seq(Units)
    BY <2>1, ConcatProperties DEF Shape
  <2>3. wire' = [wire EXCEPT ![c] = @ \o new]
    BY DEF Send
  <2> QED
    BY <2>2, <2>3 DEF Shape
<1>7. con[c] \in ConRecords
  BY DEF Shape
<1>8. CASE from + k = TextLen
  <2>1. /\ res' = [res EXCEPT ![r].texts = Tail(@)]
        /\ con' = [con EXCEPT ![c].wcnt = 0]
        /\ list' = [list EXCEPT ![c] = Tail(@)]
        /\ loop' = [at |-> "sent", con |-> c, res |-> r,
                    next |-> Tail(res[r].texts) # <<>>]
        /\ UNCHANGED <<cache, made, asked, job>>
    BY <1>8 DEF Send
  <2>2. res' \in [ResIds -> ResRecords]
    <3>1. [res[r] EXCEPT !.texts = Tail(@)] \in ResRecords
      BY <1>3, <1>4 DEF ResRecords
    <3> QED
      BY <1>2, <2>1, <3>1 DEF Shape
  <2>3. con' \in [Cons -> ConRecords]
    <3>1. [con[c] EXCEPT !.wcnt = 0] \in ConRecords
      BY <1>5, <1>7 DEF ConRecords
    <3> QED
      BY <2>1, <3>1 DEF Shape
  <2>4. /\ list' \in [Cons -> Seq(ResIds)]
        /\ \A d \in Cons : Range(list'[d]) \subseteq 1..made
    BY <1>2, <2>1 DEF Shape
  <2>5. loop' \in [at : {"sent"}, con : Cons, res : 1..made, next : BOOLEAN]
    BY <1>2, <2>1
  <2> QED
    BY <1>6, <2>1, <2>2, <2>3, <2>4, <2>5 DEF Shape, Asked
<1>9. CASE from + k # TextLen
  <2>1. /\ con' = [con EXCEPT ![c].wcnt = from + k]
        /\ UNCHANGED <<cache, made, asked, job, res, list, loop>>
    BY <1>9 DEF Send
  <2>2. con' \in [Cons -> ConRecords]
    <3>1. [con[c] EXCEPT !.wcnt = from + k] \in ConRecords
      BY <1>5, <1>9, <1>7 DEF ConRecords
    <3> QED
      BY <2>1, <3>1 DEF Shape
  <2> QED
    BY <1>6, <2>1, <2>2 DEF Shape, Asked
<1> QED
  BY <1>8, <1>9

\* The steps that remove a connection, whatever the reason.
LEMMA RemovalShape ==
  ASSUME Shape, NEW c \in Cons,
         \/ ReadClosing(c) \/ SendError(c) \/ Hangup(c) \/ CheckDead(c)
         \/ CheckClosing(c)
  PROVE  Shape'
<1>1. \E s \in Seq(ResIds), st \in {"open", "dead"}, hit \in BOOLEAN :
         /\ Range(s) \subseteq 1..made
         /\ Remove(c, s, st, <<>>, hit)
  <2>1. list[c] \in Seq(ResIds) /\ Range(list[c]) \subseteq 1..made
    BY DEF Shape
  <2>2. CASE SendError(c)
    <3>1. list[c] # <<>> /\ Remove(c, Tail(list[c]), "dead", <<>>, TRUE)
      BY <2>2 DEF SendError, Writable, HasText
    <3>2. /\ Tail(list[c]) \in Seq(ResIds)
          /\ Range(Tail(list[c])) \subseteq 1..made
      BY <2>1, <3>1, TailRange
    <3> QED
      BY <3>1, <3>2
  <2>3. CASE ReadClosing(c) \/ Hangup(c) \/ CheckDead(c) \/ CheckClosing(c)
    BY <2>1, <2>3 DEF ReadClosing, Hangup, CheckDead, CheckClosing
  <2> QED
    BY <2>2, <2>3
<1>2. UNCHANGED <<res, made, asked, job, loop, wire>>
  BY DEF ReadClosing, SendError, Hangup, CheckDead, CheckClosing
<1>3. /\ cache' \in Seq(ResIds) /\ Range(cache') \subseteq 1..made'
      /\ made' \in Nat /\ made' <= Cardinality(Asked')
      /\ con' \in [Cons -> ConRecords]
      /\ list' \in [Cons -> Seq(ResIds)]
      /\ \A d \in Cons : Range(list'[d]) \subseteq 1..made'
  BY <1>1, <1>2, EmptyTyped, RemoveShape
<1> QED
  BY <1>2, <1>3 DEF Shape

LEMMA SentShape ==
  ASSUME Shape, NEW c \in Cons, Sent(c)
  PROVE  Shape'
<1> DEFINE r == loop.res
<1>1. /\ loop.at = "sent" /\ loop.con = c /\ loop' = Idle
      /\ UNCHANGED <<res, made, asked, job, wire>>
  BY DEF Sent
<1>2. r \in 1..made /\ r \in ResIds
  <2>1. r \in 1..made
    BY <1>1 DEF Shape, Idle
  <2>2. made <= Cardinality(Jobs)
    <3>1. Asked \in SUBSET Jobs
      BY DEF Asked
    <3>2. /\ Cardinality(Asked) <= Cardinality(Jobs)
          /\ Cardinality(Asked) \in Nat /\ Cardinality(Jobs) \in Nat
      BY <3>1, JobsFinite, FS_Subset, FS_CardinalityType
    <3> QED
      BY <3>2 DEF Shape
  <2> QED
    BY <2>1, <2>2, JobsFinite DEF ResIds, Shape
<1>3. /\ list[c] \in Seq(ResIds) /\ Range(list[c]) \subseteq 1..made
      /\ <<r>> \in Seq(ResIds) /\ Range(<<r>>) \subseteq 1..made
  BY <1>2, SingleRange DEF Shape
<1>4. CASE Remove(c, list[c], "dead", <<r>>, FALSE)
  <2>1. /\ cache' \in Seq(ResIds) /\ Range(cache') \subseteq 1..made'
        /\ made' \in Nat /\ made' <= Cardinality(Asked')
        /\ con' \in [Cons -> ConRecords]
        /\ list' \in [Cons -> Seq(ResIds)]
        /\ \A d \in Cons : Range(list'[d]) \subseteq 1..made'
    BY <1>1, <1>3, <1>4, RemoveShape
  <2> QED
    BY <1>1, <2>1 DEF Shape
<1>5. CASE cache' = Append(cache, r) /\ UNCHANGED <<con, list>>
  <2>1. cache' \in Seq(ResIds) /\ Range(cache') \subseteq 1..made
    BY <1>2, <1>5, AppendProperties, AppendRange DEF Shape
  <2> QED
    BY <1>1, <1>5, <2>1 DEF Shape, Asked
<1>6. CASE list' = [list EXCEPT ![c] = <<r>> \o @] /\ UNCHANGED <<cache, con>>
  <2>1. /\ <<r>> \o list[c] \in Seq(ResIds)
        /\ Range(<<r>> \o list[c]) \subseteq 1..made
    <3>1. <<r>> \o list[c] \in Seq(ResIds)
      BY <1>3, ConcatProperties
    <3>2. Range(<<r>> \o list[c]) = Range(<<r>>) \cup Range(list[c])
      BY <1>3, ConcatRange
    <3> QED
      BY <1>3, <3>1, <3>2
  <2> QED
    BY <1>1, <1>6, <2>1 DEF Shape, Asked
<1> QED
  BY <1>4, <1>5, <1>6 DEF Sent

\* The steps of the eval threads.
LEMMA EvalShape ==
  ASSUME Shape, NEW j \in Jobs, EvalStep(j)
  PROVE  Shape'
<1>1. UNCHANGED <<cache, made, con, list, asked, loop, wire>>
  BY DEF EvalStep, AddEarly, Respond, Raise, RaisePush
<1>2. job[j] \in [state : States, res : 0..made, hints : 0..MaxHints,
                  close : BOOLEAN]
  BY DEF Shape
<1>3. job' \in [Jobs -> [state : States, res : 0..made, hints : 0..MaxHints,
                         close : BOOLEAN]]
  <2>1. CASE AddEarly(j)
    <3>1. [job[j] EXCEPT !.hints = @ + 1]
             \in [state : States, res : 0..made, hints : 0..MaxHints,
                 close : BOOLEAN]
      BY <1>2, <2>1, HttpAssumption DEF AddEarly
    <3> QED
      BY <2>1, <3>1 DEF AddEarly, Shape
  <2>2. CASE Respond(j)
    <3>1. [job[j] EXCEPT !.state = "done"]
             \in [state : States, res : 0..made, hints : 0..MaxHints,
                 close : BOOLEAN]
      BY <1>2 DEF States
    <3> QED
      BY <2>2, <3>1 DEF Respond, Shape
  <2>3. CASE Raise(j)
    <3>1. [job[j] EXCEPT !.state = "raised", !.close = TRUE]
             \in [state : States, res : 0..made, hints : 0..MaxHints,
                 close : BOOLEAN]
      BY <1>2 DEF States
    <3>2. job' = [job EXCEPT ![j] =
                    [job[j] EXCEPT !.state = "raised", !.close = TRUE]]
      BY <2>3 DEF Raise, Shape
    <3> QED
      BY <3>1, <3>2 DEF Shape
  <2>4. CASE RaisePush(j)
    <3>1. [job[j] EXCEPT !.state = "done"]
             \in [state : States, res : 0..made, hints : 0..MaxHints,
                 close : BOOLEAN]
      BY <1>2 DEF States
    <3> QED
      BY <2>4, <3>1 DEF RaisePush, Shape
  <2> QED
    BY <2>1, <2>2, <2>3, <2>4 DEF EvalStep
<1>4. res' \in [ResIds -> ResRecords]
  <2>1. CASE job[j].res \in ResIds
    <3>1. \A text \in Texts, final \in BOOLEAN :
             PushText(job[j].res, text, final) \in [ResIds -> ResRecords]
      BY <2>1, PushShape
    <3>2. PICK t : /\ t \in [ResIds -> ResRecords]
                   /\ res' = t \/ res' = [t EXCEPT ![job[j].res].close = TRUE]
      <4>1. res \in [ResIds -> ResRecords]
        BY DEF Shape
      <4> QED
        BY <3>1, <4>1, TextTyped DEF EvalStep, AddEarly, Respond, Raise, RaisePush
    <3> QED
      BY <3>2 DEF ResRecords
  <2>2. CASE job[j].res \notin ResIds
    <3>1. \A text \in Texts, final \in BOOLEAN :
             PushText(job[j].res, text, final) = res
      BY <2>2 DEF PushText, Shape
    <3>2. PICK t : /\ t = res
                   /\ res' = t \/ res' = [t EXCEPT ![job[j].res].close = TRUE]
      BY <3>1, TextTyped DEF EvalStep, AddEarly, Respond, Raise, RaisePush
    <3> QED
      BY <2>2, <3>2 DEF Shape
  <2> QED
    BY <2>1, <2>2
<1> QED
  BY <1>1, <1>3, <1>4 DEF Shape, Asked

LEMMA ShapeStep == Shape /\ [Next]_vars => Shape'
<1> SUFFICES ASSUME Shape, [Next]_vars PROVE Shape'
  OBVIOUS
<1>1. ASSUME NEW c \in Cons, NEW kind \in Kinds, NEW close \in Closes,
             ReadRequest(c, kind, close)
      PROVE  Shape'
  BY <1>1, ReadRequestShape
<1>2. ASSUME NEW c \in Cons, ReadEnd(c) PROVE Shape'
  BY <1>2 DEF ReadEnd, Shape, Asked
<1>3. ASSUME NEW c \in Cons, NEW k \in 1..TextLen, Send(c, k) PROVE Shape'
  BY <1>3, SendShape
<1>4. ASSUME NEW c \in Cons, Sent(c) PROVE Shape'
  BY <1>4, SentShape
<1>5. ASSUME NEW c \in Cons,
             \/ ReadClosing(c) \/ SendError(c) \/ Hangup(c) \/ CheckDead(c)
             \/ CheckClosing(c)
      PROVE  Shape'
  BY <1>5, RemovalShape
<1>6. ASSUME NEW c \in Cons, SendBlocked(c) PROVE Shape'
  <2>1. /\ list[c] # <<>> /\ list[c] \in Seq(ResIds)
        /\ Range(list[c]) \subseteq 1..made
    BY <1>6 DEF SendBlocked, Writable, HasText, Shape
  <2>2. Tail(list[c]) \in Seq(ResIds) /\ Range(Tail(list[c])) \subseteq 1..made
    BY <2>1, TailRange
  <2>3. con' \in [Cons -> ConRecords]
    <3>1. [con[c] EXCEPT !.hit = TRUE] \in ConRecords
      <4>1. con[c] \in ConRecords
        BY DEF Shape
      <4> QED
        BY <4>1 DEF ConRecords
    <3> QED
      BY <1>6, <3>1 DEF SendBlocked, Shape
  <2>4. /\ list' \in [Cons -> Seq(ResIds)]
        /\ \A d \in Cons : Range(list'[d]) \subseteq 1..made
    BY <1>6, <2>2 DEF SendBlocked, Shape
  <2> QED
    BY <1>6, <2>3, <2>4 DEF SendBlocked, Shape, Asked
<1>7. ASSUME NEW c \in Cons, CheckLate(c) PROVE Shape'
  <2>1. [con[c] EXCEPT !.closing = TRUE, !.hit = TRUE] \in ConRecords
    <3>1. con[c] \in ConRecords
      BY DEF Shape
    <3> QED
      BY <3>1 DEF ConRecords
  <2>2. con' = [con EXCEPT ![c] = [con[c] EXCEPT !.closing = TRUE,
                                                 !.hit = TRUE]]
    BY <1>7 DEF CheckLate, Shape
  <2>3. con' \in [Cons -> ConRecords]
    BY <2>1, <2>2 DEF Shape
  <2> QED
    BY <1>7, <2>3 DEF CheckLate, Shape, Asked
<1>8. ASSUME NEW j \in Jobs, EvalStep(j)
      PROVE  Shape'
  BY <1>8, EvalShape
<1>9. CASE UNCHANGED vars
  BY <1>9 DEF vars, Shape, Asked
<1> QED
  BY <1>1, <1>2, <1>3, <1>4, <1>5, <1>6, <1>7, <1>8, <1>9
  DEF Next, EvalStep, Read, Write

LEMMA ShapeInit == Init => Shape
<1> SUFFICES ASSUME Init PROVE Shape
  OBVIOUS
<1>1. res \in [ResIds -> ResRecords]
  <2>1. CASE Cons = {}
    <3>1. Cardinality(Cons) * MaxReq = 0
      BY <2>1, FS_EmptySet, HttpAssumption
    <3>2. ResIds = {}
      BY <3>1 DEF ResIds
    <3> QED
      BY <3>2 DEF Init
  <2>2. CASE Cons # {}
    <3>1. (CHOOSE c \in Cons : TRUE) \in Cons
      BY <2>2
    <3> QED
      BY <3>1 DEF Init, ResRecords
  <2> QED
    BY <2>1, <2>2
<1>2. made <= Cardinality(Asked)
  <2>1. Asked \in SUBSET Jobs
    BY DEF Asked
  <2>2. Cardinality(Asked) \in Nat
    BY <2>1, JobsFinite, FS_Subset, FS_CardinalityType
  <2> QED
    BY <2>2 DEF Init
<1>3. cache \in Seq(ResIds) /\ Range(cache) \subseteq 1..made
  BY EmptyTyped DEF Init
<1>4. /\ list \in [Cons -> Seq(ResIds)]
      /\ \A c \in Cons : Range(list[c]) \subseteq 1..made
  BY EmptyTyped DEF Init
<1>5. con \in [Cons -> ConRecords]
  BY HttpAssumption DEF Init, ConRecords
<1>6. /\ job \in [Jobs -> [state : States, res : 0..made, hints : 0..MaxHints,
                           close : BOOLEAN]]
      /\ asked \in [Cons -> 0..MaxReq]
  BY HttpAssumption DEF Init, States
<1>7. wire \in [Cons -> Seq(Units)]
  BY DEF Init
<1> QED
  BY <1>1, <1>2, <1>3, <1>4, <1>5, <1>6, <1>7 DEF Shape, Init, Idle

\* The lists, the cache and the eval threads only know records that
\* agoo_res_create made, and there are enough of them: a connection never needs
\* more records than it has had requests (res.c:11-59).
THEOREM TypeCorrect == Spec => []TypeOK
<1>1. Shape => TypeOK
  <2> SUFFICES ASSUME Shape PROVE TypeOK
    OBVIOUS
  <2>1. ASSUME NEW r \in ResIds
        PROVE  /\ res[r].con \in Cons
               /\ Range(res[r].texts) \subseteq Texts
               /\ res[r].final \in BOOLEAN /\ res[r].close \in BOOLEAN
    <3>1. res[r] \in ResRecords
      BY DEF Shape
    <3> QED
      BY <3>1, RangeDef DEF ResRecords
  <2>2. made \in 0..Cardinality(ResIds)
    <3>1. Asked \in SUBSET Jobs
      BY DEF Asked
    <3>2. /\ Cardinality(Asked) <= Cardinality(Jobs)
          /\ Cardinality(Asked) \in Nat /\ Cardinality(Jobs) \in Nat
      BY <3>1, JobsFinite, FS_Subset, FS_CardinalityType
    <3>3. Cardinality(ResIds) = Cardinality(Cons) * MaxReq
      BY JobsFinite, FS_Interval DEF ResIds
    <3> QED
      BY <3>2, <3>3, JobsFinite DEF Shape
  <2>3. ASSUME NEW c \in Cons, NEW i \in DOMAIN wire[c]
        PROVE  wire[c][i] \in [text : Texts, unit : 1..TextLen]
    <3>1. wire[c] \in Seq(Units) /\ i \in 1..Len(wire[c])
      BY <2>3, LenProperties DEF Shape
    <3> QED
      BY <3>1, ElementOfSeq DEF Units
  <2> QED
    BY <2>1, <2>2, <2>3 DEF Shape, TypeOK, ConRecords
<1> QED
  BY <1>1, ShapeInit, ShapeStep, PTL DEF Spec

-----------------------------------------------------------------------------
(* The place of a record *)

\* A removal moves records from the list, and from the hand, to the cache.
LEMMA RemovePlaced ==
  ASSUME Shape, Placed, NEW c \in Cons,
         NEW s \in Seq(ResIds), IsInjective(s), Range(s) \subseteq Range(list[c]),
         NEW recycled \in Seq(ResIds), IsInjective(recycled),
         Range(recycled) \cap Range(cache) = {},
         \A d \in Cons : Range(recycled) \cap Range(list[d]) = {},
         NEW st, NEW hit,
         Remove(c, s, st, recycled, hit), loop'.at # "sent"
  PROVE  Placed'
<1>1. PICK front, rest \in Seq(ResIds) :
         Parts(c, s, st, recycled, hit, front, rest)
  BY RemoveParts
<1>2. PICK u : u = cache \o recycled
  OBVIOUS
<1>3. u \in Seq(ResIds) /\ Range(u) = Range(cache) \cup Range(recycled)
  BY <1>2, ConcatProperties, ConcatRange DEF Shape
<1>4. IsInjective(u)
  BY <1>2, ConcatRange DEF Shape, Placed
<1>5. /\ IsInjective(front) /\ IsInjective(rest)
      /\ Range(front) \cap Range(rest) = {}
      /\ Range(front) \subseteq Range(list[c])
      /\ Range(rest) \subseteq Range(list[c])
  BY <1>1 DEF Parts
<1>6. Range(u) \cap Range(front) = {}
  BY <1>3, <1>5 DEF Placed
<1>7. /\ Range(cache') = Range(u) \cup Range(front)
      /\ IsInjective(cache')
  <2>1. cache' = u \o front
    BY <1>1, <1>2 DEF Parts
  <2> QED
    BY <1>3, <1>4, <1>5, <1>6, <2>1, ConcatRange
<1>8. list' = [list EXCEPT ![c] = rest] /\ list \in [Cons -> Seq(ResIds)]
  BY <1>1 DEF Parts, Shape
<1>9. ASSUME NEW d \in Cons
      PROVE  /\ IsInjective(list'[d])
             /\ Range(list'[d]) \subseteq Range(list[d])
             /\ Range(cache') \cap Range(list'[d]) = {}
  <2>1. CASE d = c
    BY <1>3, <1>5, <1>7, <1>8, <2>1 DEF Placed
  <2>2. CASE d # c
    BY <1>3, <1>5, <1>7, <1>8, <2>2 DEF Placed
  <2> QED
    BY <2>1, <2>2
<1>10. \A d, e \in Cons : d # e => Range(list'[d]) \cap Range(list'[e]) = {}
  BY <1>9 DEF Placed
<1> QED
  BY <1>7, <1>9, <1>10 DEF Placed

LEMMA ReadRequestPlaced ==
  ASSUME Shape, Placed, NEW c \in Cons, NEW kind, NEW close,
         ReadRequest(c, kind, close)
  PROVE  Placed'
<1> DEFINE r == NextRes
<1>1. /\ asked[c] < MaxReq /\ asked' = [asked EXCEPT ![c] = @ + 1]
      /\ list' = [list EXCEPT ![c] = Append(@, r)]
      /\ list \in [Cons -> Seq(ResIds)]
      /\ loop'.at # "sent"
  BY DEF ReadRequest, ResAppend, Idle, Shape
<1>2. /\ r \in ResIds /\ IsInjective(cache')
      /\ r \notin Range(cache') /\ Range(cache') \subseteq Range(cache)
      /\ \A d \in Cons : r \notin Range(list[d])
  <2>1. CASE cache = <<>>
    <3>1. r = made + 1 /\ cache' = cache
      BY <2>1 DEF ReadRequest, NextRes
    <3>2. made + 1 \in ResIds
      BY <1>1, AskedGrows
    <3>3. made + 1 \notin 1..made
      BY DEF Shape
    <3> QED
      BY <3>1, <3>2, <3>3 DEF Shape, Placed
  <2>2. CASE cache # <<>>
    <3>1. /\ Head(cache) \in ResIds
          /\ Range(cache) = {Head(cache)} \cup Range(Tail(cache))
          /\ IsInjective(Tail(cache)) /\ Head(cache) \notin Range(Tail(cache))
      BY <2>2, TailRange DEF Shape, Placed
    <3>2. cache' = Tail(cache) /\ r = Head(cache)
      BY <2>2 DEF ReadRequest, NextRes
    <3> QED
      BY <3>1, <3>2 DEF Placed
  <2> QED
    BY <2>1, <2>2
<1> HIDE DEF r
<1>3. /\ IsInjective(Append(list[c], r))
      /\ Range(Append(list[c], r)) = Range(list[c]) \cup {r}
  BY <1>1, <1>2, AppendRange DEF Placed
<1>4. ASSUME NEW d \in Cons
      PROVE  /\ IsInjective(list'[d])
             /\ Range(list'[d]) = IF d = c THEN Range(list[d]) \cup {r}
                                  ELSE Range(list[d])
             /\ Range(cache') \cap Range(list'[d]) = {}
  <2>1. CASE d = c
    BY <1>1, <1>2, <1>3, <2>1 DEF Placed
  <2>2. CASE d # c
    BY <1>1, <1>2, <2>2 DEF Placed
  <2> QED
    BY <2>1, <2>2
<1>5. \A d, e \in Cons : d # e => Range(list'[d]) \cap Range(list'[e]) = {}
  BY <1>2, <1>4 DEF Placed
<1> QED
  BY <1>1, <1>2, <1>4, <1>5 DEF Placed

\* The write handler takes the head of a list.
LEMMA TakePlaced ==
  ASSUME Shape, Placed, NEW c \in Cons, list[c] # <<>>,
         list' = [list EXCEPT ![c] = Tail(@)], UNCHANGED cache,
         loop'.at = "sent" => loop'.res = Head(list[c])
  PROVE  Placed'
<1>1. /\ list[c] \in Seq(ResIds) /\ IsInjective(list[c])
      /\ list \in [Cons -> Seq(ResIds)]
  BY DEF Shape, Placed
<1>2. /\ Range(list[c]) = {Head(list[c])} \cup Range(Tail(list[c]))
      /\ IsInjective(Tail(list[c]))
      /\ Head(list[c]) \notin Range(Tail(list[c]))
  BY <1>1, TailRange
<1>3. ASSUME NEW d \in Cons
      PROVE  /\ IsInjective(list'[d])
             /\ Range(list'[d]) \subseteq Range(list[d])
             /\ Head(list[c]) \notin Range(list'[d])
  <2>1. CASE d = c
    BY <1>1, <1>2, <2>1
  <2>2. CASE d # c
    BY <1>1, <1>2, <2>2 DEF Placed
  <2> QED
    BY <2>1, <2>2
<1>4. Head(list[c]) \notin Range(cache)
  BY <1>2 DEF Placed
<1>5. \A d \in Cons : Range(cache) \cap Range(list'[d]) = {}
  BY <1>3 DEF Placed
<1>6. \A d, e \in Cons : d # e => Range(list'[d]) \cap Range(list'[e]) = {}
  BY <1>3 DEF Placed
<1>7. loop'.at = "sent" => /\ loop'.res \notin Range(cache)
                          /\ \A d \in Cons : loop'.res \notin Range(list'[d])
  BY <1>3, <1>4
<1>8. IsInjective(cache) /\ cache' = cache
  BY DEF Placed
<1> QED
  BY <1>3, <1>5, <1>6, <1>7, <1>8 DEF Placed

LEMMA SentPlaced ==
  ASSUME Shape, Placed, NEW c \in Cons, Sent(c), loop.res \in ResIds
  PROVE  Placed'
<1> DEFINE r == loop.res
<1>1. /\ loop.at = "sent" /\ loop' = Idle /\ Idle.at # "sent"
      /\ r \notin Range(cache) /\ \A d \in Cons : r \notin Range(list[d])
  BY DEF Sent, Placed, Idle
<1>2. /\ <<r>> \in Seq(ResIds) /\ Range(<<r>>) = {r} /\ IsInjective(<<r>>)
      /\ cache \in Seq(ResIds) /\ list[c] \in Seq(ResIds)
  BY SingleRange DEF Shape
<1>3. CASE Remove(c, list[c], "dead", <<r>>, FALSE)
  <2>1. IsInjective(list[c])
    BY DEF Placed
  <2>2. /\ Range(<<r>>) \cap Range(cache) = {}
        /\ \A d \in Cons : Range(<<r>>) \cap Range(list[d]) = {}
    BY <1>1, <1>2
  <2> QED
    BY <1>1, <1>2, <1>3, <2>1, <2>2, RemovePlaced
<1>4. CASE cache' = Append(cache, r) /\ UNCHANGED <<con, list>>
  <2>1. IsInjective(cache)
    BY DEF Placed
  <2>2. /\ Range(Append(cache, r)) = Range(cache) \cup {r}
        /\ IsInjective(Append(cache, r))
    BY <1>1, <1>2, <2>1, AppendRange
  <2>3. Range(cache') = Range(cache) \cup {r} /\ IsInjective(cache')
    BY <1>4, <2>2
  <2>4. \A d \in Cons : Range(cache') \cap Range(list'[d]) = {}
    BY <1>1, <1>4, <2>3 DEF Placed
  <2> QED
    BY <1>1, <1>4, <2>3, <2>4 DEF Placed
<1>5. CASE list' = [list EXCEPT ![c] = <<r>> \o @] /\ UNCHANGED <<cache, con>>
  <2>1. list[c] \in Seq(ResIds) /\ IsInjective(list[c])
        /\ list \in [Cons -> Seq(ResIds)]
    BY DEF Shape, Placed
  <2>2. /\ Range(<<r>> \o list[c]) = Range(<<r>>) \cup Range(list[c])
        /\ IsInjective(<<r>> \o list[c])
    <3>1. Range(<<r>>) \cap Range(list[c]) = {}
      BY <1>1, <1>2
    <3>2. PICK s \in Seq(ResIds) : s = <<r>>
      BY <1>2
    <3>3. PICK t \in Seq(ResIds) : t = list[c]
      BY <2>1
    <3>4. IsInjective(s) /\ IsInjective(t) /\ Range(s) \cap Range(t) = {}
      BY <1>2, <2>1, <3>1, <3>2, <3>3
    <3>5. Range(s \o t) = Range(s) \cup Range(t) /\ IsInjective(s \o t)
      BY <3>4, ConcatRange
    <3> QED
      BY <3>2, <3>3, <3>5
  <2>3. ASSUME NEW d \in Cons
        PROVE  /\ IsInjective(list'[d])
               /\ Range(list'[d]) = IF d = c THEN Range(list[d]) \cup {r}
                                    ELSE Range(list[d])
    <3>1. CASE d = c
      BY <1>2, <1>5, <2>1, <2>2, <3>1
    <3>2. CASE d # c
      BY <1>5, <2>1, <3>2 DEF Placed
    <3> QED
      BY <3>1, <3>2
  <2>4. \A d \in Cons : Range(cache) \cap Range(list'[d]) = {}
    BY <1>1, <2>3 DEF Placed
  <2>5. ASSUME NEW d \in Cons, NEW e \in Cons, d # e
        PROVE  Range(list'[d]) \cap Range(list'[e]) = {}
    <3>1. Range(list[d]) \cap Range(list[e]) = {}
      BY <2>5 DEF Placed
    <3>2. r \notin Range(list[d]) /\ r \notin Range(list[e])
      BY <1>1
    <3>3. /\ Range(list'[d]) = IF d = c THEN Range(list[d]) \cup {r}
                               ELSE Range(list[d])
          /\ Range(list'[e]) = IF e = c THEN Range(list[e]) \cup {r}
                               ELSE Range(list[e])
      BY <2>3
    <3> QED
      BY <2>5, <3>1, <3>2, <3>3
  <2> QED
    BY <1>1, <1>5, <2>3, <2>4, <2>5 DEF Placed
<1> QED
  BY <1>3, <1>4, <1>5 DEF Sent

\* The record in the hand of the write handler was made.
LEMMA HandMade ==
  ASSUME Shape, loop.at = "sent"
  PROVE  loop.con \in Cons /\ loop.res \in 1..made /\ loop.res \in ResIds
<1>1. loop.con \in Cons /\ loop.res \in 1..made
  BY DEF Shape, Idle
<1>2. made <= Cardinality(Jobs)
  <2>1. Asked \in SUBSET Jobs
    BY DEF Asked
  <2>2. /\ Cardinality(Asked) <= Cardinality(Jobs)
        /\ Cardinality(Asked) \in Nat /\ Cardinality(Jobs) \in Nat
    BY <2>1, JobsFinite, FS_Subset, FS_CardinalityType
  <2> QED
    BY <2>2 DEF Shape
<1> QED
  BY <1>1, <1>2, JobsFinite DEF ResIds, Shape

LEMMA PlacedStep == Shape /\ Placed /\ [Next]_vars => Placed'
<1> SUFFICES ASSUME Shape, Placed, [Next]_vars PROVE Placed'
  OBVIOUS
<1>1. ASSUME NEW c \in Cons, NEW kind \in Kinds, NEW close \in Closes,
             ReadRequest(c, kind, close)
      PROVE  Placed'
  BY <1>1, ReadRequestPlaced
<1>2. ASSUME NEW c \in Cons, ReadEnd(c) PROVE Placed'
  BY <1>2 DEF ReadEnd, Placed, Idle
<1>3. ASSUME NEW c \in Cons, NEW k \in 1..TextLen, Send(c, k) PROVE Placed'
  <2>1. list[c] # <<>> /\ UNCHANGED cache
    BY <1>3 DEF Send, Writable, HasText
  <2>2. CASE con[c].wcnt + k = TextLen
    <3>1. /\ list' = [list EXCEPT ![c] = Tail(@)]
          /\ loop'.res = Head(list[c])
      BY <1>3, <2>2 DEF Send
    <3> QED
      BY <2>1, <3>1, TakePlaced
  <2>3. CASE con[c].wcnt + k # TextLen
    BY <1>3, <2>1, <2>3 DEF Send, Placed
  <2> QED
    BY <2>2, <2>3
<1>4. ASSUME NEW c \in Cons, Sent(c) PROVE Placed'
  BY <1>4, HandMade, SentPlaced DEF Sent
<1>5. ASSUME NEW c \in Cons,
             \/ ReadClosing(c) \/ SendError(c) \/ Hangup(c) \/ CheckDead(c)
             \/ CheckClosing(c)
      PROVE  Placed'
  <2>1. loop' = Idle /\ loop'.at # "sent"
    <3>1. loop' = Idle
      BY <1>5 DEF ReadClosing, SendError, Hangup, CheckDead, CheckClosing
    <3> QED
      BY <3>1 DEF Idle
  <2>2. list[c] \in Seq(ResIds) /\ IsInjective(list[c])
    BY DEF Shape, Placed
  <2>3. \E st, hit : \E s \in Seq(ResIds) :
           /\ IsInjective(s) /\ Range(s) \subseteq Range(list[c])
           /\ Remove(c, s, st, <<>>, hit)
    <3>1. CASE SendError(c)
      <4>1. list[c] # <<>> /\ Remove(c, Tail(list[c]), "dead", <<>>, TRUE)
        BY <3>1 DEF SendError, Writable, HasText
      <4>2. /\ Tail(list[c]) \in Seq(ResIds) /\ IsInjective(Tail(list[c]))
            /\ Range(Tail(list[c])) \subseteq Range(list[c])
        BY <2>2, <4>1, TailRange
      <4> QED
        BY <4>1, <4>2
    <3>2. CASE ReadClosing(c) \/ Hangup(c) \/ CheckDead(c) \/ CheckClosing(c)
      BY <2>2, <3>2 DEF ReadClosing, Hangup, CheckDead, CheckClosing
    <3> QED
      BY <1>5, <3>1, <3>2
  <2>4. /\ <<>> \in Seq(ResIds) /\ IsInjective(<<>>) /\ Range(<<>>) = {}
    BY EmptyTyped, EmptyRange
  <2> QED
    BY <2>1, <2>3, <2>4, RemovePlaced
<1>6. ASSUME NEW c \in Cons, SendBlocked(c) PROVE Placed'
  BY <1>6, TakePlaced DEF SendBlocked, Writable, HasText, Idle
<1>7. ASSUME NEW c \in Cons, CheckLate(c) PROVE Placed'
  BY <1>7 DEF CheckLate, Placed
<1>8. ASSUME NEW j \in Jobs, EvalStep(j)
      PROVE  Placed'
  BY <1>8 DEF EvalStep, AddEarly, Respond, Raise, RaisePush, Placed
<1>9. CASE UNCHANGED vars
  BY <1>9 DEF vars, Placed
<1> QED
  BY <1>1, <1>2, <1>3, <1>4, <1>5, <1>6, <1>7, <1>8, <1>9
  DEF Next, EvalStep, Read, Write

LEMMA SmallSet ==
  ASSUME NEW S, \A x, y \in S : x = y
  PROVE  Cardinality(S) <= 1
<1>1. CASE S = {}
  BY <1>1, FS_EmptySet
<1>2. CASE S # {}
  <2>1. \E x : S = {x}
    BY <1>2
  <2> QED
    BY <2>1, FS_Singleton
<1> QED
  BY <1>1, <1>2

\* A record is in one place: once in the cache, or in one list, or in the hand
\* of the write handler, whatever goes wrong (res.c:11-59, con.c:131-168).
THEOREM RecordsPlacedOnce == Spec => []PlacedOnce
<1>1. Init => Placed
  BY EmptyRange DEF Init, Placed, Idle
<1>2. Shape /\ Placed => PlacedOnce
  <2> SUFFICES ASSUME Shape, Placed, NEW r \in ResIds
               PROVE  Cardinality(
                        {<<"cache", i>> : i \in {i \in DOMAIN cache : cache[i] = r}}
                        \cup (UNION {{<<c, i>> : i \in {i \in DOMAIN list[c] :
                                                        list[c][i] = r}}
                                       : c \in Cons})
                        \cup {<<c, 0>> : c \in {c \in Cons : r \in InHand(c)}})
                      <= 1
    BY DEF PlacedOnce
  <2> DEFINE A == {<<"cache", i>> : i \in {i \in DOMAIN cache : cache[i] = r}}
             L(c) == {<<c, i>> : i \in {i \in DOMAIN list[c] : list[c][i] = r}}
             B == UNION {L(c) : c \in Cons}
             H == {<<c, 0>> : c \in {c \in Cons : r \in InHand(c)}}
  <2>1. /\ \A x \in A : r \in Range(cache)
        /\ \A x, y \in A : x = y
    BY DEF Range, Placed, IsInjective
  <2>2. \A c \in Cons : /\ \A x \in L(c) : r \in Range(list[c])
                        /\ \A x, y \in L(c) : x = y
    BY DEF Range, Placed, IsInjective
  <2>3. \A x \in H : loop.at = "sent" /\ loop.res = r /\ x = <<loop.con, 0>>
    BY DEF InHand
  <2>4. \A x, y \in B : x = y
    BY <2>2 DEF Placed
  <2>5. \A x \in B : \E c \in Cons : r \in Range(list[c])
    BY <2>2
  <2>6. \A x \in A, y \in B : FALSE
    BY <2>1, <2>5 DEF Placed
  <2>7. \A x \in H, y \in A \cup B : FALSE
    BY <2>1, <2>3, <2>5 DEF Placed
  <2> HIDE DEF A, B, H
  <2>8. \A x, y \in A \cup B \cup H : x = y
    BY <2>1, <2>3, <2>4, <2>6, <2>7
  <2>9. Cardinality(A \cup B \cup H) <= 1
    BY <2>8, SmallSet
  <2> QED
    BY <2>9 DEF A, B, L, H
<1>3. Spec => [](Shape /\ Placed)
  BY <1>1, ShapeInit, ShapeStep, PlacedStep, PTL DEF Spec
<1> QED
  BY <1>2, <1>3, PTL

-----------------------------------------------------------------------------
(* The records of the requests that are being evaluated *)

\* No early hints, and neither a request nor a handler that raises has the
\* connection closed: what the code needs for the record of a request to be
\* left alone (remove_dead_res takes a record with a text, or with the close
\* indicator, for one that is done with).
Plain == MaxHints = 0 /\ Closes \subseteq {FALSE} /\ "raise" \notin Faults

\* One connection: a record that was left too early can only come back to it.
Alone == \A c, d \in Cons : c = d

\* The requests of one connection do not get at the records of another.
Apart == Plain \/ Alone
Clear == Owned \/ Alone

USE DEF Running

LEMMA AtOpenStep == Shape /\ AtOpen /\ [Next]_vars => AtOpen'
<1> SUFFICES ASSUME Shape, AtOpen, [Next]_vars PROVE AtOpen'
  OBVIOUS
<1>1. ASSUME NEW c \in Cons, NEW kind \in Kinds, NEW close \in Closes,
             ReadRequest(c, kind, close)
      PROVE  AtOpen'
  <2>1. con[c].state = "open"
    BY <1>1 DEF ReadRequest, Readable, AtOpen
  <2>2. con'[c].state = "open"
    BY <1>1, <2>1 DEF ReadRequest, Shape, ConRecords
  <2>3. loop' = Idle \/ loop' = [at |-> "read", con |-> c]
    BY <1>1 DEF ReadRequest
  <2> QED
    BY <2>2, <2>3 DEF AtOpen, Idle
<1>2. ASSUME NEW c \in Cons, ReadEnd(c) PROVE AtOpen'
  BY <1>2 DEF ReadEnd, AtOpen, Idle
<1>3. ASSUME NEW c \in Cons, NEW k \in 1..TextLen, Send(c, k) PROVE AtOpen'
  <2>1. loop = Idle /\ con[c].state = "open"
    BY <1>3 DEF Send, Writable
  <2>2. con'[c].state = "open"
    BY <1>3, <2>1 DEF Send, Shape, ConRecords
  <2>3. loop' = Idle \/ loop'.con = c
    BY <1>3, <2>1 DEF Send
  <2> QED
    BY <2>2, <2>3 DEF AtOpen, Idle
<1>4. ASSUME NEW c \in Cons,
             \/ ReadClosing(c) \/ Sent(c) \/ SendBlocked(c) \/ SendError(c)
             \/ Hangup(c) \/ CheckDead(c) \/ CheckLate(c) \/ CheckClosing(c)
      PROVE  AtOpen'
  <2>1. loop' = Idle
    BY <1>4 DEF ReadClosing, Sent, SendBlocked, SendError, Hangup, CheckDead,
                CheckLate, CheckClosing
  <2> QED
    BY <2>1 DEF AtOpen, Idle
<1>5. ASSUME NEW j \in Jobs, EvalStep(j)
      PROVE  AtOpen'
  BY <1>5 DEF EvalStep, AddEarly, Respond, Raise, RaisePush, AtOpen
<1>6. CASE UNCHANGED vars
  BY <1>6 DEF vars, AtOpen
<1> QED
  BY <1>1, <1>2, <1>3, <1>4, <1>5, <1>6 DEF Next, EvalStep, Read, Write

\* The steps that leave the state of every connection as it is.
LEMMA StateKept ==
  ASSUME Shape, NEW c \in Cons,
         \/ \E kind, close : ReadRequest(c, kind, close)
         \/ ReadEnd(c) \/ (\E k \in 1..TextLen : Send(c, k))
         \/ SendBlocked(c) \/ CheckLate(c)
  PROVE  \A d \in Cons : /\ con'[d].state = con[d].state
                         /\ con[d].hit => con'[d].hit
                         /\ d # c => con'[d] = con[d]
<1> USE DEF ConRecords
<1>1. con \in [Cons -> ConRecords]
  BY DEF Shape
<1>2. CASE \E kind, close : ReadRequest(c, kind, close)
  BY <1>1, <1>2 DEF ReadRequest
<1>3. CASE ReadEnd(c)
  BY <1>1, <1>3 DEF ReadEnd
<1>4. CASE \E k \in 1..TextLen : Send(c, k)
  <2>1. PICK n : con' = [con EXCEPT ![c].wcnt = n]
    BY <1>4 DEF Send
  <2> QED
    BY <1>1, <2>1
<1>5. CASE SendBlocked(c)
  BY <1>1, <1>5 DEF SendBlocked
<1>6. CASE CheckLate(c)
  BY <1>1, <1>6 DEF CheckLate
<1> QED
  BY <1>2, <1>3, <1>4, <1>5, <1>6

\* A step that leaves the records of the running requests in their places.
LEMMA OwnedKept ==
  ASSUME Owned,
         ASSUME NEW j \in Jobs, job'[j].state \in {"running", "raised"}
         PROVE  /\ Running(j) /\ job'[j].res = job[j].res
                /\ con'[j[1]].state # "gone"
                /\ job[j].res \in Range(list'[j[1]])
                /\ res'[job[j].res] = res[job[j].res]
  PROVE  Owned'
BY DEF Owned, Running

LEMMA RemoveOwned ==
  ASSUME Shape, Owned, NEW c \in Cons, NEW s \in Seq(ResIds),
         \A j \in Jobs : Running(j) /\ j[1] = c => job[j].res \in Range(s),
         NEW st \in {"open", "dead"}, NEW recycled \in Seq(ResIds),
         NEW hit \in BOOLEAN,
         Remove(c, s, st, recycled, hit), UNCHANGED <<res, job>>
  PROVE  Owned'
<1>1. PICK front, rest \in Seq(ResIds) :
         Parts(c, s, st, recycled, hit, front, rest)
  BY RemoveParts
<1>2. ASSUME NEW j \in Jobs, job'[j].state \in {"running", "raised"}
      PROVE  /\ Running(j) /\ job'[j].res = job[j].res
             /\ con'[j[1]].state # "gone"
             /\ job[j].res \in Range(list'[j[1]])
             /\ res'[job[j].res] = res[job[j].res]
  <2>1. Running(j) /\ job' = job /\ res' = res /\ j[1] \in Cons
    BY <1>2 DEF Running, Jobs
  <2>2. CASE j[1] # c
    <3>1. con'[j[1]] = con[j[1]] /\ list'[j[1]] = list[j[1]]
      BY <1>1, <2>1, <2>2 DEF Parts, Shape
    <3> QED
      BY <2>1, <3>1 DEF Owned
  <2>3. CASE j[1] = c
    <3>1. job[j].res \in Range(s) /\ ~Droppable(job[j].res)
      BY <2>1, <2>3 DEF Owned, Droppable
    <3>2. job[j].res \in Range(rest)
      BY <1>1, <3>1 DEF Parts
    <3>3. rest # <<>> /\ list'[c] = rest
      BY <1>1, <3>2, EmptyRange DEF Parts, Shape
    <3>4. con'[c].state = st
      BY <1>1, <3>3 DEF Parts, Shape, ConRecords
    <3> QED
      BY <2>1, <2>3, <3>2, <3>3, <3>4
  <2> QED
    BY <2>2, <2>3
<1> QED
  BY <1>2, OwnedKept

LEMMA ReadRequestOwned ==
  ASSUME Plain, Shape, Placed, AtOpen, Owned, NEW c \in Cons,
         NEW kind \in Kinds, NEW close \in Closes,
         ReadRequest(c, kind, close)
  PROVE  Owned'
<1> DEFINE i == <<c, asked[c] + 1>>
           r == NextRes
<1>1. /\ asked[c] \in 0..MaxReq /\ asked[c] < MaxReq /\ MaxReq \in Nat
      /\ asked' = [asked EXCEPT ![c] = @ + 1]
      /\ list' = [list EXCEPT ![c] = Append(@, r)]
      /\ list \in [Cons -> Seq(ResIds)]
  BY HttpAssumption DEF Shape, ReadRequest, ResAppend
<1>2. i \in Jobs
  BY <1>1 DEF Jobs
<1>3. r \in ResIds /\ \A d \in Cons : r \notin Range(list[d])
  <2>1. CASE cache = <<>>
    <3>1. r = made + 1
      BY <2>1 DEF NextRes
    <3>2. made + 1 \in ResIds
      BY <1>1, AskedGrows
    <3>3. made + 1 \notin 1..made
      BY DEF Shape
    <3> QED
      BY <3>1, <3>2, <3>3 DEF Shape
  <2>2. CASE cache # <<>>
    <3>1. Head(cache) \in ResIds /\ Head(cache) \in Range(cache)
      BY <2>2, TailRange DEF Shape
    <3> QED
      BY <2>2, <3>1 DEF NextRes, Placed
  <2> QED
    BY <2>1, <2>2
<1>4. /\ res' = [res EXCEPT ![r] =
               [con |-> c,
                texts |-> IF kind = "eval" THEN <<>> ELSE <<Final(i)>>,
                final |-> kind # "eval",
                close |-> close \/ kind = "bad"]]
      /\ job' = [job EXCEPT ![i] =
               [state |-> IF kind = "eval" THEN "running" ELSE "done",
                res |-> r, hints |-> 0, close |-> close \/ kind = "bad"]]
  BY DEF ReadRequest
<1> HIDE DEF r
<1>5. /\ Range(list'[c]) = Range(list[c]) \cup {r}
      /\ \A d \in Cons : d # c => list'[d] = list[d]
  BY <1>1, <1>3, AppendRange
<1>6. \A d \in Cons : con'[d].state = con[d].state
  BY DEF ReadRequest, Shape, ConRecords
<1>7. con[c].state = "open"
  BY DEF ReadRequest, Readable, AtOpen
<1>8. ASSUME NEW j \in Jobs, job'[j].state \in {"running", "raised"}, j # i
      PROVE  /\ Running(j) /\ job'[j] = job[j]
             /\ con'[j[1]].state # "gone"
             /\ job[j].res \in Range(list[j[1]])
             /\ job[j].res \in Range(list'[j[1]])
             /\ job[j].res # r
             /\ res'[job[j].res] = res[job[j].res]
  <2>1. job'[j] = job[j] /\ Running(j) /\ j[1] \in Cons
    BY <1>4, <1>8 DEF Running, Shape, Jobs
  <2>2. /\ con[j[1]].state # "gone" /\ job[j].res \in Range(list[j[1]])
        /\ job[j].res # r
    BY <1>3, <2>1 DEF Owned
  <2>3. res'[job[j].res] = res[job[j].res]
    BY <1>4, <2>2 DEF Shape
  <2>4. job[j].res \in Range(list'[j[1]])
    BY <1>5, <2>1, <2>2
  <2> QED
    BY <1>6, <2>1, <2>2, <2>3, <2>4
<1>9. ASSUME job'[i].state \in {"running", "raised"}
      PROVE  /\ job'[i].res = r
             /\ con'[c].state # "gone" /\ r \in Range(list'[c])
             /\ res'[r].texts = <<>> /\ ~res'[r].final /\ ~res'[r].close
  <2>1. job'[i].res = r /\ kind = "eval"
    BY <1>2, <1>4, <1>9 DEF Running, Shape
  <2>2. close = FALSE
    BY DEF Plain
  <2>3. res'[r].texts = <<>> /\ ~res'[r].final /\ ~res'[r].close
    BY <1>3, <1>4, <2>1, <2>2 DEF Shape
  <2> QED
    BY <1>5, <1>6, <1>7, <2>1, <2>3
<1>10. ASSUME NEW j \in Jobs, job'[j].state \in {"running", "raised"}
       PROVE  /\ con'[j[1]].state # "gone"
              /\ job'[j].res \in Range(list'[j[1]])
              /\ res'[job'[j].res].texts = <<>>
              /\ ~res'[job'[j].res].final /\ ~res'[job'[j].res].close
  <2>1. CASE j = i
    BY <1>9, <1>10, <2>1
  <2>2. CASE j # i
    BY <1>8, <1>10, <2>2 DEF Owned
  <2> QED
    BY <2>1, <2>2
<1>11. ASSUME NEW j \in Jobs, NEW k \in Jobs,
              job'[j].state \in {"running", "raised"},
              job'[k].state \in {"running", "raised"},
              job'[j].res = job'[k].res
       PROVE  j = k
  <2>1. CASE j # i /\ k # i
    BY <1>8, <1>11, <2>1 DEF Owned
  <2>2. CASE j = i /\ k # i
    BY <1>8, <1>9, <1>11, <2>2
  <2>3. CASE j # i /\ k = i
    BY <1>8, <1>9, <1>11, <2>3
  <2> QED
    BY <2>1, <2>2, <2>3
<1> QED
  BY <1>10, <1>11 DEF Owned, Running

\* The answer to one request leaves the records of the others alone.
LEMMA EvalOwned ==
  ASSUME Plain, Shape, Owned, NEW i \in Jobs,
         EvalStep(i)
  PROVE  Owned'
<1>1. ~AddEarly(i)
  <2>1. job[i] \in [state : States, res : 0..made, hints : 0..MaxHints,
                    close : BOOLEAN]
    BY DEF Shape
  <2>2. job[i].hints \in 0..0
    BY <2>1 DEF Plain
  <2>3. ~(job[i].hints < MaxHints)
    BY <2>2 DEF Plain
  <2> QED
    BY <2>3 DEF AddEarly
<1>2. Running(i) /\ UNCHANGED <<con, list>> /\ (Respond(i) \/ RaisePush(i))
  BY <1>1 DEF EvalStep, Respond, Raise, RaisePush, Plain
<1>3. ASSUME NEW j \in Jobs, job'[j].state \in {"running", "raised"}
      PROVE  j # i /\ job'[j] = job[j]
  <2>1. job \in [Jobs -> [state : States, res : 0..made, hints : 0..MaxHints,
                          close : BOOLEAN]]
    BY DEF Shape
  <2>2. /\ \A k \in Jobs : k # i => job'[k] = job[k]
        /\ job'[i].state = "done"
    BY <1>2, <2>1 DEF Respond, RaisePush
  <2> QED
    BY <1>3, <2>2
<1>4. ASSUME NEW r \in ResIds, r # job[i].res PROVE res'[r] = res[r]
  <2>1. ASSUME NEW text, NEW final
        PROVE  /\ DOMAIN PushText(job[i].res, text, final) = ResIds
               /\ PushText(job[i].res, text, final)[r] = res[r]
    BY <1>4 DEF PushText, Shape
  <2>2. CASE Respond(i)
    BY <2>1, <2>2 DEF Respond
  <2>3. CASE RaisePush(i)
    BY <2>1, <2>3 DEF RaisePush
  <2> QED
    BY <1>2, <2>2, <2>3
<1>5. ASSUME NEW j \in Jobs, job'[j].state \in {"running", "raised"}
      PROVE  /\ Running(j) /\ job'[j].res = job[j].res
             /\ con'[j[1]].state # "gone"
             /\ job[j].res \in Range(list'[j[1]])
             /\ res'[job[j].res] = res[job[j].res]
  <2>1. Running(j) /\ j # i /\ job'[j] = job[j]
    BY <1>3, <1>5 DEF Running
  <2>2. job[j].res # job[i].res /\ job[j].res \in ResIds
    <3>1. j[1] \in Cons
      BY DEF Jobs
    <3> QED
      BY <1>2, <2>1, <3>1, RangeDef DEF Owned, Shape
  <2> QED
    BY <1>2, <1>4, <2>1, <2>2 DEF Owned
<1> QED
  BY <1>5, OwnedKept

\* A text is only sent for a request that was answered.
LEMMA WritableDone ==
  ASSUME Shape, Owned, NEW c \in Cons, Writable(c), NEW j \in Jobs, Running(j),
         j[1] = c
  PROVE  /\ job[j].res \in Range(Tail(list[c])) /\ job[j].res # Head(list[c])
<1>1. list[c] # <<>> /\ res[Head(list[c])].texts # <<>>
  BY DEF Writable, HasText
<1>2. job[j].res \in Range(list[c]) /\ res[job[j].res].texts = <<>>
  BY DEF Owned
<1>3. Range(list[c]) = {Head(list[c])} \cup Range(Tail(list[c]))
  BY <1>1, TailRange DEF Shape
<1> QED
  BY <1>1, <1>2, <1>3

LEMMA OwnedStep ==
  ASSUME Plain, Shape, Placed, AtOpen, Owned, [Next]_vars
  PROVE  Owned'
<1>1. ASSUME NEW c \in Cons, NEW kind \in Kinds, NEW close \in Closes,
             ReadRequest(c, kind, close)
      PROVE  Owned'
  BY <1>1, ReadRequestOwned
<1>2. ASSUME NEW c \in Cons, ReadEnd(c) \/ CheckLate(c) PROVE Owned'
  <2>1. UNCHANGED <<res, list, job>>
    BY <1>2 DEF ReadEnd, CheckLate
  <2>2. \A d \in Cons : con'[d].state = con[d].state
    BY <1>2, StateKept
  <2>3. \A j \in Jobs : j[1] \in Cons
    BY DEF Jobs
  <2> QED
    BY <2>1, <2>2, <2>3 DEF Owned, Running
<1>3. ASSUME NEW c \in Cons,
             \/ \E k \in 1..TextLen : Send(c, k)
             \/ SendBlocked(c)
      PROVE  Owned'
  <2>1. Writable(c) /\ UNCHANGED job
    BY <1>3 DEF Send, SendBlocked
  <2>2. \A d \in Cons : con'[d].state = con[d].state
    BY <1>3, StateKept
  <2>3. \A r \in ResIds : r # Head(list[c]) => res'[r] = res[r]
    BY <1>3 DEF Send, SendBlocked, Shape
  <2>4. list' = list \/ list' = [list EXCEPT ![c] = Tail(@)]
    BY <1>3 DEF Send, SendBlocked
  <2>5. ASSUME NEW j \in Jobs, job'[j].state \in {"running", "raised"}
        PROVE  /\ Running(j) /\ job'[j].res = job[j].res
               /\ con'[j[1]].state # "gone"
               /\ job[j].res \in Range(list'[j[1]])
               /\ res'[job[j].res] = res[job[j].res]
    <3>1. Running(j) /\ job' = job /\ j[1] \in Cons
      BY <2>1, <2>5 DEF Running, Jobs
    <3>2. job[j].res # Head(list[c]) /\ job[j].res \in ResIds
      <4>1. job[j].res \in Range(list[j[1]]) /\ res[job[j].res].texts = <<>>
        BY <3>1, <2>5 DEF Owned
      <4>2. list[j[1]] \in Seq(ResIds)
        BY <3>1 DEF Shape
      <4>3. job[j].res \in ResIds
        BY <4>1, <4>2, RangeDef
      <4>4. res[Head(list[c])].texts # <<>>
        BY <2>1 DEF Writable, HasText
      <4> QED
        BY <4>1, <4>3, <4>4
    <3>3. job[j].res \in Range(list'[j[1]])
      <4>1. CASE j[1] = c
        BY <2>1, <2>4, <3>1, <4>1, WritableDone DEF Owned, Shape
      <4>2. CASE j[1] # c
        BY <2>4, <3>1, <4>2 DEF Owned, Shape
      <4> QED
        BY <4>1, <4>2
    <3> QED
      BY <2>2, <2>3, <3>1, <3>2, <3>3 DEF Owned
  <2> QED
    BY <2>5, OwnedKept
<1>4. ASSUME NEW c \in Cons, Sent(c) PROVE Owned'
  <2>1. /\ loop.res \in ResIds /\ <<loop.res>> \in Seq(ResIds)
        /\ list[c] \in Seq(ResIds) /\ UNCHANGED <<res, job>>
    BY <1>4, HandMade, SingleRange DEF Sent, Shape
  <2>2. CASE Remove(c, list[c], "dead", <<loop.res>>, FALSE)
    <3>1. \A j \in Jobs : Running(j) /\ j[1] = c => job[j].res \in Range(list[c])
      BY DEF Owned
    <3> QED
      BY <2>1, <2>2, <3>1, RemoveOwned
  <2>3. CASE UNCHANGED <<con, list>>
    BY <2>1, <2>3 DEF Owned, Running
  <2>4. CASE list' = [list EXCEPT ![c] = <<loop.res>> \o @] /\ UNCHANGED con
    <3>1. Range(<<loop.res>> \o list[c]) = Range(<<loop.res>>) \cup Range(list[c])
      BY <2>1, ConcatRange
    <3>2. \A d \in Cons : Range(list[d]) \subseteq Range(list'[d])
      BY <2>4, <3>1 DEF Shape
    <3>3. \A j \in Jobs : j[1] \in Cons
      BY DEF Jobs
    <3> QED
      BY <2>1, <2>4, <3>2, <3>3 DEF Owned, Running
  <2> QED
    BY <1>4, <2>2, <2>3, <2>4 DEF Sent
<1>5. ASSUME NEW c \in Cons,
             \/ ReadClosing(c) \/ SendError(c) \/ Hangup(c) \/ CheckDead(c)
             \/ CheckClosing(c)
      PROVE  Owned'
  <2>1. list[c] \in Seq(ResIds) /\ <<>> \in Seq(ResIds)
    BY EmptyTyped DEF Shape
  <2>2. UNCHANGED <<res, job>>
    BY <1>5 DEF ReadClosing, SendError, Hangup, CheckDead, CheckClosing
  <2>3. \E s \in Seq(ResIds), st \in {"open", "dead"}, hit \in BOOLEAN :
           /\ \A j \in Jobs : Running(j) /\ j[1] = c => job[j].res \in Range(s)
           /\ Remove(c, s, st, <<>>, hit)
    <3>1. CASE SendError(c)
      <4>1. Writable(c) /\ Remove(c, Tail(list[c]), "dead", <<>>, TRUE)
        BY <3>1 DEF SendError
      <4>2. Tail(list[c]) \in Seq(ResIds)
        BY <2>1, <4>1, TailRange DEF Writable, HasText
      <4> QED
        BY <4>1, <4>2, WritableDone
    <3>2. CASE ReadClosing(c) \/ Hangup(c) \/ CheckDead(c) \/ CheckClosing(c)
      <4>1. \A j \in Jobs : Running(j) /\ j[1] = c
                               => job[j].res \in Range(list[c])
        BY DEF Owned
      <4> QED
        BY <2>1, <3>2, <4>1 DEF ReadClosing, Hangup, CheckDead, CheckClosing
    <3> QED
      BY <1>5, <3>1, <3>2
  <2> QED
    BY <2>1, <2>2, <2>3, RemoveOwned
<1>6. ASSUME NEW j \in Jobs, EvalStep(j)
      PROVE  Owned'
  BY <1>6, EvalOwned
<1>7. CASE UNCHANGED vars
  BY <1>7 DEF vars, Owned, Running
<1> QED
  BY <1>1, <1>2, <1>3, <1>4, <1>5, <1>6, <1>7 DEF Next, EvalStep, Read, Write

LEMMA AllOfThem == Spec => [](Shape /\ Placed /\ AtOpen)
<1>1. Init => Placed /\ AtOpen
  BY EmptyRange DEF Init, Placed, AtOpen, Idle
<1> QED
  BY <1>1, ShapeInit, ShapeStep, PlacedStep, AtOpenStep, PTL DEF Spec

LEMMA OwnedInit == Init => Owned
BY DEF Init, Owned, Running

\* Without early hints, and without requests and handlers that have their
\* connection closed, the record of a request that is being evaluated is in its
\* place on its connection, and not in the cache, whatever happens to the
\* connection: the answer reaches the client that asked (res.c:61-80,
\* con.c:131-168).
THEOREM EvalHasItsRes ==
  ASSUME Plain
  PROVE  Spec => []EvalOwnsRes
<1>1. Shape /\ Placed /\ Owned => EvalOwnsRes
  <2> SUFFICES ASSUME Shape, Placed, Owned, NEW j \in Jobs, Running(j)
               PROVE  /\ con[j[1]].state # "gone"
                      /\ job[j].res \in Records(j[1])
                      /\ job[j].res \notin Range(cache)
    BY DEF EvalOwnsRes, Running
  <2>1. j[1] \in Cons
    BY DEF Jobs
  <2> QED
    BY <2>1 DEF Owned, Placed, Records
<1>2. Shape /\ Placed /\ AtOpen /\ Owned /\ [Next]_vars => Owned'
  BY OwnedStep
<1> QED
  BY <1>1, <1>2, AllOfThem, OwnedInit, PTL DEF Spec

-----------------------------------------------------------------------------
(* The order of the responses *)

LEMMA ServedNat ==
  ASSUME NEW w \in Seq(Units)
  PROVE  /\ Len(w) \in Nat /\ Served(w) \in Nat
         /\ w # <<>> => LastUnit(w) \in Units
<1>1. Len(w) \in Nat /\ (w # <<>> => Len(w) \in 1..Len(w))
  BY LenProperties, EmptySeq
<1>2. w # <<>> => LastUnit(w) \in Units
  BY <1>1, ElementOfSeq DEF LastUnit
<1>3. \A u \in Units : u.text.n \in Nat /\ u.text.n - 1 \in Nat
  BY HttpAssumption DEF Units, Texts
<1> QED
  BY <1>1, <1>2, <1>3 DEF Served

\* What send() adds to a wire.
LEMMA SendWire ==
  ASSUME NEW w \in Seq(Units), NEW text \in Texts, NEW from \in 0..(TextLen - 1),
         NEW k \in 1..TextLen, from + k <= TextLen,
         NEW v \in [1..k -> Units],
         \A i \in 1..k : v[i] = [text |-> text, unit |-> from + i]
  PROVE  /\ w \o v \in Seq(Units) /\ Len(w \o v) = Len(w) + k
         /\ w \o v # <<>>
         /\ \A i \in 1..Len(w) : (w \o v)[i] = w[i]
         /\ \A i \in 1..k :
               (w \o v)[Len(w) + i] = [text |-> text, unit |-> from + i]
         /\ LastUnit(w \o v) = [text |-> text, unit |-> from + k]
         /\ Range(w) \subseteq Range(w \o v)
         /\ [text |-> text, unit |-> from + k] \in Range(w \o v)
<1>1. k \in Nat /\ Len(w) \in Nat /\ k \in 1..k
  BY HttpAssumption, LenProperties
<1>2. v \in Seq(Units) /\ Len(v) = k
  <2>1. v \in Seq(Units)
    BY <1>1, SeqDef
  <2> QED
    BY <1>1, <2>1, LenProperties
<1>3. PICK u : u = w \o v
  OBVIOUS
<1>4. /\ u \in Seq(Units) /\ Len(u) = Len(w) + k
      /\ \A i \in 1..(Len(w) + k) :
            u[i] = IF i <= Len(w) THEN w[i] ELSE v[i - Len(w)]
  BY <1>2, <1>3, ConcatProperties
<1>5. Range(u) = Range(w) \cup Range(v)
  BY <1>2, <1>3, ConcatRange
<1>6. ASSUME NEW i \in 1..k PROVE u[Len(w) + i] = v[i]
  <2>1. /\ Len(w) + i \in 1..(Len(w) + k) /\ ~(Len(w) + i <= Len(w))
        /\ (Len(w) + i) - Len(w) = i
    BY <1>1
  <2> QED
    BY <1>4, <2>1
<1>7. LastUnit(u) = v[k]
  BY <1>1, <1>4, <1>6 DEF LastUnit
<1>8. v[k] \in Range(v)
  BY <1>1, <1>2, RangeDef
<1>9. u # <<>>
  <2>1. Len(<<>>) = 0
    BY EmptySeq
  <2> QED
    BY <1>1, <1>4, <2>1
<1>10. \A i \in 1..Len(w) : u[i] = w[i]
  BY <1>1, <1>4
<1> QED
  BY <1>1, <1>3, <1>4, <1>5, <1>6, <1>7, <1>8, <1>9, <1>10

\* A connection is only open and sound if it was so before.
LEMMA SoundBefore ==
  ASSUME Shape, AtOpen, [Next]_vars, NEW c \in Cons
  PROVE  /\ ~con'[c].hit => ~con[c].hit
         /\ con'[c].state = "open" => con[c].state = "open"
<1> DEFINE Q == /\ ~con'[c].hit => ~con[c].hit
                /\ con'[c].state = "open" => con[c].state = "open"
<1> SUFFICES Q
  OBVIOUS
<1>1. ASSUME NEW d \in Cons,
             \/ \E kind, close : ReadRequest(d, kind, close)
             \/ ReadEnd(d) \/ (\E k \in 1..TextLen : Send(d, k))
             \/ SendBlocked(d) \/ CheckLate(d)
      PROVE  Q
  BY <1>1, StateKept
<1>2. ASSUME NEW d \in Cons, NEW s \in Seq(ResIds), NEW st,
             NEW recycled \in Seq(ResIds), NEW hit,
             Remove(d, s, st, recycled, hit),
             st = "open" => con[d].state = "open"
      PROVE  Q
  <2>1. PICK front, rest \in Seq(ResIds) :
           Parts(d, s, st, recycled, hit, front, rest)
    BY <1>2, RemoveParts
  <2>2. con \in [Cons -> ConRecords]
    BY DEF Shape
  <2> QED
    BY <1>2, <2>1, <2>2 DEF Parts, ConRecords
<1>3. ASSUME NEW d \in Cons, Sent(d) PROVE Q
  <2>1. /\ list[d] \in Seq(ResIds) /\ <<loop.res>> \in Seq(ResIds)
    BY <1>3, HandMade, SingleRange DEF Sent, Shape
  <2>2. CASE Remove(d, list[d], "dead", <<loop.res>>, FALSE)
    BY <1>2, <2>1, <2>2
  <2>3. CASE UNCHANGED con
    BY <2>3
  <2> QED
    BY <1>3, <2>2, <2>3 DEF Sent
<1>4. ASSUME NEW d \in Cons,
             \/ ReadClosing(d) \/ SendError(d) \/ Hangup(d) \/ CheckDead(d)
             \/ CheckClosing(d)
      PROVE  Q
  <2>1. list[d] \in Seq(ResIds) /\ <<>> \in Seq(ResIds)
    BY EmptyTyped DEF Shape
  <2>2. CASE SendError(d)
    <3>1. list[d] # <<>> /\ Remove(d, Tail(list[d]), "dead", <<>>, TRUE)
      BY <2>2 DEF SendError, Writable, HasText
    <3>2. Tail(list[d]) \in Seq(ResIds)
      BY <2>1, <3>1, TailRange
    <3> QED
      BY <1>2, <2>1, <3>1, <3>2
  <2>3. CASE ReadClosing(d) \/ Hangup(d) \/ CheckDead(d)
    BY <1>2, <2>1, <2>3 DEF ReadClosing, Hangup, CheckDead
  <2>4. CASE CheckClosing(d)
    BY <1>2, <2>1, <2>4 DEF CheckClosing
  <2> QED
    BY <1>4, <2>2, <2>3, <2>4
<1>5. ASSUME NEW j \in Jobs, EvalStep(j)
      PROVE  Q
  BY <1>5 DEF EvalStep, AddEarly, Respond, Raise, RaisePush
<1>6. CASE UNCHANGED vars
  BY <1>6 DEF vars
<1> QED
  BY <1>1, <1>3, <1>4, <1>5, <1>6 DEF Next, EvalStep, Read, Write

\* A step that does not touch the connection c, its list, its wire and its
\* requests, nor the records in its list and in the hand of its write handler.
Untouched(c) ==
    /\ asked'[c] = asked[c] /\ list'[c] = list[c] /\ wire'[c] = wire[c]
    /\ con'[c] = con[c]
    /\ \A i \in 1..Len(list[c]) : res'[list[c][i]] = res[list[c][i]]
    /\ \A n \in 1..MaxReq : job'[<<c, n>>] = job[<<c, n>>]
    /\ loop'.at = "sent" /\ loop'.con = c =>
          loop' = loop /\ res'[loop.res] = res[loop.res]

LEMMA FineUntouched ==
  ASSUME Shape, NEW c \in Cons, Fine(c), Untouched(c)
  PROVE  Fine(c)'
<1>1. wire[c] \in Seq(Units) /\ list[c] \in Seq(ResIds) /\ asked[c] \in 0..MaxReq
  BY DEF Shape
<1>2. Len(list[c]) \in Nat /\ Served(wire[c]) \in Nat /\ MaxReq \in Nat
  BY <1>1, ServedNat, LenProperties, HttpAssumption
<1>3. InStep(c)'
  BY DEF Fine, InStep, Untouched
<1>4. HandIsLast(c)'
  <2> SUFFICES ASSUME loop'.at = "sent", loop'.con = c
               PROVE  /\ ~loop'.next /\ res'[loop'.res].final
                      /\ Served(wire'[c]) >= 1
                      /\ res'[loop'.res].close
                            => job'[<<c, Served(wire'[c])>>].close
    BY DEF HandIsLast
  <2>1. /\ loop' = loop /\ res'[loop.res] = res[loop.res]
        /\ wire'[c] = wire[c] /\ asked[c] = Served(wire[c]) + Len(list[c])
    BY DEF Untouched, Fine, InStep
  <2>2. /\ ~loop.next /\ res[loop.res].final /\ Served(wire[c]) >= 1
        /\ res[loop.res].close => job[<<c, Served(wire[c])>>].close
    BY <2>1 DEF Fine, HandIsLast
  <2>3. Served(wire[c]) \in 1..MaxReq
    BY <1>1, <1>2, <2>1, <2>2
  <2>4. job'[<<c, Served(wire[c])>>] = job[<<c, Served(wire[c])>>]
    BY <2>3 DEF Untouched
  <2> QED
    BY <2>1, <2>2, <2>4
<1>5. ASSUME NEW i \in 1..Len(list'[c]) PROVE InPlace(c, i)'
  <2>1. /\ i \in 1..Len(list[c]) /\ list'[c] = list[c]
        /\ asked[c] = Served(wire[c]) + Len(list[c])
    BY DEF Untouched, Fine, InStep
  <2>2. Served(wire[c]) + i \in 1..MaxReq
    BY <1>1, <1>2, <2>1
  <2>3. /\ res'[list[c][i]] = res[list[c][i]] /\ wire'[c] = wire[c]
        /\ job'[<<c, Served(wire[c]) + i>>] = job[<<c, Served(wire[c]) + i>>]
    BY <2>1, <2>2 DEF Untouched
  <2> QED
    BY <2>1, <2>3 DEF Fine, InPlace
<1>6. ASSUME NEW n \in 1..MaxReq PROVE RunsInPlace(c, n)'
  <2>1. /\ list'[c] = list[c] /\ wire'[c] = wire[c]
        /\ job'[<<c, n>>] = job[<<c, n>>]
    BY DEF Untouched
  <2>2. RunsInPlace(c, n)
    BY DEF Fine
  <2>3. Running(<<c, n>>) => res'[job[<<c, n>>].res] = res[job[<<c, n>>].res]
    BY <2>2 DEF RunsInPlace, Untouched
  <2> QED
    BY <2>1, <2>2, <2>3 DEF RunsInPlace
<1> QED
  BY <1>3, <1>4, <1>5, <1>6 DEF Fine

LEMMA InList ==
  ASSUME Shape, NEW c \in Cons, NEW i \in 1..Len(list[c])
  PROVE  list[c][i] \in Range(list[c]) /\ list[c][i] \in ResIds
BY RangeDef, ElementOfSeq DEF Shape

\* The removal of another connection.
LEMMA RemoveUntouched ==
  ASSUME Shape, NEW c \in Cons, NEW d \in Cons, c # d,
         NEW s \in Seq(ResIds), NEW st, NEW recycled \in Seq(ResIds), NEW hit,
         Remove(d, s, st, recycled, hit), UNCHANGED <<res, asked, job, wire>>,
         loop'.at # "sent"
  PROVE  Untouched(c)
<1>1. PICK front, rest \in Seq(ResIds) :
         Parts(d, s, st, recycled, hit, front, rest)
  BY RemoveParts
<1>2. list'[c] = list[c] /\ con'[c] = con[c]
  BY <1>1 DEF Parts, Shape
<1> QED
  BY <1>2 DEF Untouched

\* Every step of another connection.
LEMMA OtherUntouched ==
  ASSUME Shape, Placed, NEW c \in Cons, NEW d \in Cons, c # d,
         Read(d) \/ Write(d) \/ SendBlocked(d) \/ SendError(d)
            \/ Hangup(d) \/ CheckDead(d) \/ CheckLate(d) \/ CheckClosing(d)
  PROVE  Untouched(c)
<1>1. /\ list[d] \in Seq(ResIds) /\ <<>> \in Seq(ResIds)
      /\ list \in [Cons -> Seq(ResIds)] /\ con \in [Cons -> ConRecords]
      /\ asked \in [Cons -> 0..MaxReq] /\ Idle.at # "sent"
      /\ wire \in [Cons -> Seq(Units)] /\ Range(list[c]) \cap Range(list[d]) = {}
  BY EmptyTyped DEF Shape, Idle, Placed
<1>2. CASE \E kind \in Kinds, close \in Closes : ReadRequest(d, kind, close)
  <2> DEFINE r == NextRes
             i == <<d, asked[d] + 1>>
  <2>0. PICK kind \in Kinds, close \in Closes : ReadRequest(d, kind, close)
    BY <1>2
  <2>1. /\ asked[d] < MaxReq /\ asked' = [asked EXCEPT ![d] = @ + 1]
        /\ res' = [res EXCEPT ![r] =
               [con |-> d,
                texts |-> IF kind = "eval" THEN <<>> ELSE <<Final(i)>>,
                final |-> kind # "eval",
                close |-> close \/ kind = "bad"]]
        /\ list' = [list EXCEPT ![d] = Append(@, r)]
        /\ job' = [job EXCEPT ![i] =
               [state |-> IF kind = "eval" THEN "running" ELSE "done",
                res |-> r, hints |-> 0, close |-> close \/ kind = "bad"]]
        /\ UNCHANGED wire
        /\ loop' = Idle \/ loop'.at = "read"
    BY <2>0 DEF ReadRequest, ResAppend
  <2>2. r \notin Range(list[c])
    <3>1. CASE cache = <<>>
      <4>1. r \notin 1..made
        BY <3>1 DEF NextRes, Shape
      <4> QED
        BY <4>1 DEF Shape
    <3>2. CASE cache # <<>>
      <4>1. Head(cache) \in Range(cache)
        BY <3>2, TailRange DEF Shape
      <4> QED
        BY <3>2, <4>1 DEF NextRes, Placed
    <3> QED
      BY <3>1, <3>2
  <2>3. ASSUME NEW n \in 1..Len(list[c])
        PROVE  res'[list[c][n]] = res[list[c][n]]
    <3>1. list[c][n] # r /\ list[c][n] \in ResIds
      BY <2>2, InList
    <3> QED
      BY <2>1, <3>1 DEF Shape
  <2>4. ASSUME NEW n \in 1..MaxReq PROVE job'[<<c, n>>] = job[<<c, n>>]
    <3>1. <<c, n>> \in Jobs /\ <<c, n>> # i
      BY DEF Jobs
    <3> QED
      BY <2>1, <3>1 DEF Shape
  <2>5. con'[c] = con[c]
    BY <1>1, <1>2 DEF ReadRequest
  <2> QED
    BY <1>1, <2>1, <2>3, <2>4, <2>5 DEF Untouched
<1>3. CASE \E k \in 1..TextLen : Send(d, k)
  <2>1. /\ list[d] # <<>> /\ UNCHANGED <<asked, job>>
        /\ loop' = loop \/ loop'.con = d
        /\ wire'[c] = wire[c] /\ con'[c] = con[c] /\ list'[c] = list[c]
        /\ loop = Idle
    BY <1>1, <1>3 DEF Send, Writable, HasText
  <2>2. Head(list[d]) \in Range(list[d])
    BY <1>1, <2>1, TailRange
  <2>3. ASSUME NEW n \in 1..Len(list[c])
        PROVE  res'[list[c][n]] = res[list[c][n]]
    <3>1. list[c][n] # Head(list[d]) /\ list[c][n] \in ResIds
      BY <1>1, <2>2, InList
    <3> QED
      BY <1>3, <3>1 DEF Send, Shape
  <2> QED
    BY <1>1, <2>1, <2>3 DEF Untouched
<1>4. CASE Sent(d)
  <2>1. /\ <<loop.res>> \in Seq(ResIds) /\ loop'.at # "sent"
        /\ UNCHANGED <<res, asked, job, wire>>
    BY <1>1, <1>4, HandMade, SingleRange DEF Sent
  <2>2. CASE Remove(d, list[d], "dead", <<loop.res>>, FALSE)
    BY <1>1, <2>1, <2>2, RemoveUntouched
  <2>3. CASE UNCHANGED <<con, list>>
    BY <2>1, <2>3 DEF Untouched
  <2>4. CASE list' = [list EXCEPT ![d] = <<loop.res>> \o @] /\ UNCHANGED con
    BY <1>1, <2>1, <2>4 DEF Untouched
  <2> QED
    BY <1>4, <2>2, <2>3, <2>4 DEF Sent
<1>5. CASE ReadClosing(d) \/ SendError(d) \/ Hangup(d) \/ CheckDead(d)
              \/ CheckClosing(d)
  <2>1. UNCHANGED <<res, asked, job, wire>> /\ loop' = Idle
    BY <1>5 DEF ReadClosing, SendError, Hangup, CheckDead, CheckClosing
  <2>2. \E st, hit : \E s \in Seq(ResIds) : Remove(d, s, st, <<>>, hit)
    <3>1. CASE SendError(d)
      <4>1. list[d] # <<>> /\ Remove(d, Tail(list[d]), "dead", <<>>, TRUE)
        BY <3>1 DEF SendError, Writable, HasText
      <4>2. Tail(list[d]) \in Seq(ResIds)
        BY <1>1, <4>1, TailRange
      <4> QED
        BY <4>1, <4>2
    <3>2. CASE ReadClosing(d) \/ Hangup(d) \/ CheckDead(d) \/ CheckClosing(d)
      BY <1>1, <3>2 DEF ReadClosing, Hangup, CheckDead, CheckClosing
    <3> QED
      BY <1>5, <3>1, <3>2
  <2> QED
    BY <1>1, <2>1, <2>2, RemoveUntouched
<1>6. CASE SendBlocked(d) \/ CheckLate(d) \/ ReadEnd(d)
  <2>1. /\ UNCHANGED <<res, asked, job, wire>>
        /\ loop' = Idle /\ list'[c] = list[c] /\ con'[c] = con[c]
    BY <1>1, <1>6 DEF SendBlocked, CheckLate, ReadEnd
  <2> QED
    BY <1>1, <2>1 DEF Untouched
<1> QED
  BY <1>2, <1>3, <1>4, <1>5, <1>6 DEF Read, Write

\* A hint or an answer takes nothing away from the requests.
LEMMA EvalKeeps ==
  ASSUME Shape, NEW j \in Jobs, EvalStep(j)
  PROVE  /\ Running(j) /\ (job[j].close => job'[j].close)
         /\ \A k \in Jobs : k # j => job'[k] = job[k]
         /\ job[j].hints \in Nat
         /\ job'[j].hints = job[j].hints \/ job'[j].hints = job[j].hints + 1
         /\ AddEarly(j) => job'[j].hints = job[j].hints + 1
         /\ UNCHANGED <<cache, made, con, list, asked, loop, wire>>
<1>1. /\ job \in [Jobs -> [state : States, res : 0..made, hints : 0..MaxHints,
                          close : BOOLEAN]]
      /\ job[j].hints \in Nat
  BY HttpAssumption DEF Shape
<1>2. CASE AddEarly(j)
  <2>1. job' = [job EXCEPT ![j].hints = @ + 1] /\ Running(j)
    BY <1>2 DEF AddEarly
  <2>2. job'[j].hints = job[j].hints + 1 /\ job'[j].close = job[j].close
    BY <1>1, <2>1
  <2>3. \A k \in Jobs : k # j => job'[k] = job[k]
    BY <1>1, <2>1
  <2>4. UNCHANGED <<cache, made, con, list, asked, loop, wire>>
    BY <1>2 DEF AddEarly
  <2> QED
    BY <1>1, <2>1, <2>2, <2>3, <2>4
<1>3. CASE Respond(j) \/ Raise(j) \/ RaisePush(j)
  <2>1. ~AddEarly(j)
    <3>1. job'[j].state # "running"
      BY <1>1, <1>3 DEF Respond, Raise, RaisePush
    <3>2. AddEarly(j) => job'[j].state = "running"
      BY <1>1 DEF AddEarly
    <3> QED
      BY <3>1, <3>2
  <2> QED
    BY <1>1, <1>3, <2>1 DEF Respond, Raise, RaisePush
<1> QED
  BY <1>2, <1>3 DEF EvalStep

\* The record q is blank, and only has the close indicator if j has it.
Blank(j) ==
    LET q == job[j].res
    IN  /\ q \in ResIds /\ res[q].texts = <<>> /\ ~res[q].final
        /\ res[q].close => job[j].close

\* What the end of a handler changes: the record has its answer, or it has the
\* close indicator and is blank still.
LEMMA EvalEffect ==
  ASSUME Shape, NEW j \in Jobs, Blank(j), EvalStep(j), ~AddEarly(j)
  PROVE  /\ \/ /\ job'[j].state = "done"
               /\ res'[job[j].res].texts = <<Final(j)>> /\ res'[job[j].res].final
            \/ /\ Raise(j) /\ job'[j].res = job[j].res
               /\ res'[job[j].res].texts = <<>> /\ ~res'[job[j].res].final
         /\ \A r \in ResIds : r # job[j].res => res'[r] = res[r]
         /\ res'[job[j].res].close => job'[j].close
<1> DEFINE q == job[j].res
<1>1. /\ job \in [Jobs -> [state : States, res : 0..made, hints : 0..MaxHints,
                          close : BOOLEAN]]
      /\ res \in [ResIds -> ResRecords] /\ j[1] \in Cons
  BY DEF Shape, Jobs
<1>4. /\ q \in ResIds /\ res[q].texts = <<>> /\ ~res[q].final
      /\ res[q].close => job[j].close
  BY DEF Blank
<1>5. PICK p : p = PushText(q, Final(j), TRUE)
  OBVIOUS
<1>6. /\ p = [res EXCEPT ![q].texts = Append(@, Final(j)), ![q].final = TRUE]
      /\ Append(<<>>, Final(j)) = <<Final(j)>>
  BY <1>4, <1>5 DEF PushText
<1>7. /\ DOMAIN p = ResIds /\ \A r \in ResIds : r # q => p[r] = res[r]
      /\ p[q].texts = <<Final(j)>> /\ p[q].final /\ p[q].close = res[q].close
      /\ p[q] \in ResRecords
  <2>1. p[q] = [res[q] EXCEPT !.texts = <<Final(j)>>, !.final = TRUE]
    BY <1>1, <1>4, <1>6
  <2>2. <<Final(j)>> \in Seq(Texts) /\ res[q] \in ResRecords
    BY <1>1, <1>4, TextTyped, SingleRange
  <2>3. p[q] \in ResRecords /\ p[q].texts = <<Final(j)>> /\ p[q].final
        /\ p[q].close = res[q].close
    BY <2>1, <2>2 DEF ResRecords
  <2> QED
    BY <1>1, <1>4, <1>6, <2>3
<1>8. CASE Respond(j) \/ RaisePush(j)
  <2>1. res' = p /\ job' = [job EXCEPT ![j].state = "done"]
    BY <1>5, <1>8 DEF Respond, RaisePush
  <2>2. job'[j].state = "done" /\ job'[j].close = job[j].close
    BY <1>1, <2>1
  <2> QED
    BY <1>4, <1>7, <2>1, <2>2
<1>9. CASE Raise(j)
  <2>1. /\ res' = [res EXCEPT ![q].close = TRUE]
        /\ job' = [job EXCEPT ![j].state = "raised", ![j].close = TRUE]
    BY <1>9 DEF Raise
  <2>2. /\ \A r \in ResIds : r # q => res'[r] = res[r]
        /\ res'[q].texts = res[q].texts /\ res'[q].final = res[q].final
    BY <1>1, <1>4, <2>1 DEF ResRecords
  <2>3. job'[j].close /\ job'[j].res = q
    BY <1>1, <2>1
  <2> QED
    BY <1>4, <1>9, <2>2, <2>3
<1> QED
  BY <1>8, <1>9 DEF EvalStep

\* A request that is read goes to the end of the list, its record after those
\* of the requests before it.
LEMMA ReadRequestFine ==
  ASSUME Shape, Placed, AtOpen, NEW c \in Cons, Fine(c),
         NEW kind \in Kinds, NEW close \in Closes,
         ReadRequest(c, kind, close)
  PROVE  Fine(c)'
<1> DEFINE j == <<c, asked[c] + 1>>
           r == NextRes
           s == Served(wire[c])
<1>1. /\ asked[c] \in 0..MaxReq /\ asked[c] < MaxReq /\ MaxReq \in Nat
      /\ asked' = [asked EXCEPT ![c] = @ + 1]
      /\ asked \in [Cons -> 0..MaxReq]
      /\ list[c] \in Seq(ResIds) /\ wire[c] \in Seq(Units)
      /\ list \in [Cons -> Seq(ResIds)]
      /\ list' = [list EXCEPT ![c] = Append(@, r)]
      /\ UNCHANGED wire
  BY HttpAssumption DEF Shape, ReadRequest, ResAppend
<1>2. /\ s \in Nat /\ Len(list[c]) \in Nat /\ asked[c] = s + Len(list[c])
      /\ j \in Jobs
  BY <1>1, ServedNat, LenProperties DEF Fine, InStep, Jobs
<1>3. r \in ResIds /\ r \notin Range(list[c])
  <2>1. CASE cache = <<>>
    <3>1. r = made + 1
      BY <2>1 DEF NextRes
    <3>2. made + 1 \in ResIds
      BY <1>1, AskedGrows
    <3>3. made + 1 \notin 1..made
      BY DEF Shape
    <3> QED
      BY <3>1, <3>2, <3>3 DEF Shape
  <2>2. CASE cache # <<>>
    <3>1. Head(cache) \in ResIds /\ Head(cache) \in Range(cache)
      BY <2>2, TailRange DEF Shape
    <3> QED
      BY <2>2, <3>1 DEF NextRes, Placed
  <2> QED
    BY <2>1, <2>2
<1>4. /\ res' = [res EXCEPT ![r] =
               [con |-> c,
                texts |-> IF kind = "eval" THEN <<>> ELSE <<Final(j)>>,
                final |-> kind # "eval",
                close |-> close \/ kind = "bad"]]
      /\ job' = [job EXCEPT ![j] =
               [state |-> IF kind = "eval" THEN "running" ELSE "done",
                res |-> r, hints |-> 0, close |-> close \/ kind = "bad"]]
      /\ loop' = Idle \/ loop' = [at |-> "read", con |-> c]
      /\ con'[c].wcnt = con[c].wcnt
  BY DEF ReadRequest, Shape, ConRecords
<1> HIDE DEF r
<1>5. PICK t : t = Append(list[c], r)
  OBVIOUS
<1>6. /\ list'[c] = t /\ t \in Seq(ResIds) /\ Len(t) = Len(list[c]) + 1
      /\ \A i \in 1..Len(list[c]) : t[i] = list[c][i]
      /\ t[Len(list[c]) + 1] = r
  BY <1>1, <1>3, <1>5, AppendProperties, LenProperties
<1>7. asked'[c] = asked[c] + 1 /\ wire'[c] = wire[c]
  BY <1>1
<1>8. InStep(c)'
  <2>1. asked'[c] = s + Len(t)
    BY <1>2, <1>6, <1>7
  <2> QED
    BY <1>4, <1>6, <1>7, <2>1 DEF Fine, InStep
<1>9. HandIsLast(c)'
  BY <1>4 DEF HandIsLast, Idle
<1>10. /\ \A q \in ResIds : q # r => res'[q] = res[q]
       /\ \A k \in Jobs : k # j => job'[k] = job[k]
       /\ res'[r].texts = (IF kind = "eval" THEN <<>> ELSE <<Final(j)>>)
       /\ res'[r].final = (kind # "eval")
       /\ res'[r].close = job'[j].close
       /\ job'[j].res = r
  BY <1>2, <1>3, <1>4 DEF Shape
<1>11. ASSUME NEW i \in 1..Len(list'[c]) PROVE InPlace(c, i)'
  <2>1. CASE i \in 1..Len(list[c])
    <3>1. list'[c][i] = list[c][i] /\ list[c][i] \in ResIds /\ list[c][i] # r
      BY <1>3, <1>6, <2>1, InList
    <3>2. <<c, s + i>> \in Jobs /\ <<c, s + i>> # j
      BY <1>1, <1>2, <2>1 DEF Jobs
    <3>3. InPlace(c, i)
      BY <2>1 DEF Fine
    <3> QED
      BY <1>7, <1>10, <3>1, <3>2, <3>3 DEF InPlace
  <2>2. CASE i = Len(list[c]) + 1
    <3>1. list'[c][i] = r /\ <<c, s + i>> = j
      BY <1>2, <1>6, <2>2
    <3> QED
      BY <1>7, <1>10, <3>1 DEF InPlace
  <2> QED
    BY <1>2, <1>6, <2>1, <2>2
<1>12. ASSUME NEW n \in 1..MaxReq PROVE RunsInPlace(c, n)'
  <2>1. CASE n = asked[c] + 1
    <3>1. n - s = Len(list[c]) + 1 /\ <<c, n>> = j
      BY <1>2, <2>1
    <3>2. n - s \in 1..Len(list'[c])
      BY <1>2, <1>6, <3>1
    <3>3. job'[j].state \in {"running", "raised"} => kind = "eval"
      BY <1>2, <1>4 DEF Shape
    <3>4. list'[c][n - s] = r
      BY <1>6, <3>1
    <3> QED
      BY <1>7, <1>10, <3>1, <3>2, <3>3, <3>4 DEF RunsInPlace
  <2>2. CASE n # asked[c] + 1
    <3>1. <<c, n>> \in Jobs /\ <<c, n>> # j
      BY <2>2 DEF Jobs
    <3>2. RunsInPlace(c, n)
      BY DEF Fine
    <3>3. \A i \in 1..Len(list[c]) : i \in 1..Len(list'[c])
      BY <1>2, <1>6
    <3>4. Running(<<c, n>>) => /\ job[<<c, n>>].res \in ResIds
                              /\ job[<<c, n>>].res # r
      BY <1>3, <3>2, InList DEF RunsInPlace
    <3>5. job'[<<c, n>>] = job[<<c, n>>] /\ wire'[c] = wire[c]
      BY <1>7, <1>10, <3>1
    <3> SUFFICES ASSUME job'[<<c, n>>].state \in {"running", "raised"}
                 PROVE  /\ n - s \in 1..Len(list'[c])
                        /\ list'[c][n - s] = job[<<c, n>>].res
                        /\ res'[job[<<c, n>>].res].texts = <<>>
                        /\ ~res'[job[<<c, n>>].res].final
      BY <3>5 DEF RunsInPlace
    <3>6. Running(<<c, n>>)
      BY <3>5
    <3>7. /\ n - s \in 1..Len(list[c]) /\ list[c][n - s] = job[<<c, n>>].res
          /\ res[job[<<c, n>>].res].texts = <<>> /\ ~res[job[<<c, n>>].res].final
      BY <3>2, <3>6 DEF RunsInPlace
    <3>8. res'[job[<<c, n>>].res] = res[job[<<c, n>>].res]
      BY <1>10, <3>4, <3>6
    <3> QED
      BY <1>6, <3>3, <3>7, <3>8
  <2> QED
    BY <2>1, <2>2
<1> QED
  BY <1>8, <1>9, <1>11, <1>12 DEF Fine

\* What send() sends is the response to the first request not served, and the
\* only text of its record, that record being the first of the list.
LEMMA SendsNext ==
  ASSUME Shape, NEW c \in Cons, Fine(c), Writable(c)
  PROVE  LET r == Head(list[c])
             j == <<c, Served(wire[c]) + 1>>
         IN  /\ j \in Jobs /\ 1 \in 1..Len(list[c]) /\ r = list[c][1]
             /\ r \in ResIds
             /\ res[r].texts = <<Final(j)>> /\ Head(res[r].texts) = Final(j)
             /\ Tail(res[r].texts) = <<>>
             /\ res[r].final /\ (res[r].close => job[j].close)
             /\ Final(j) \in Texts
<1> DEFINE r == Head(list[c])
           j == <<c, Served(wire[c]) + 1>>
<1>1. /\ list[c] \in Seq(ResIds) /\ list[c] # <<>> /\ res[r].texts # <<>>
      /\ wire[c] \in Seq(Units) /\ asked[c] \in 0..MaxReq /\ MaxReq \in Nat
  BY HttpAssumption DEF Shape, Writable, HasText
<1>2. /\ Len(list[c]) \in Nat /\ 1 \in 1..Len(list[c]) /\ r = list[c][1]
      /\ r \in ResIds
  BY <1>1, EmptySeq, HeadTailProperties, LenProperties, ElementOfSeq
<1>3. asked[c] = Served(wire[c]) + Len(list[c]) /\ Served(wire[c]) \in Nat
  BY <1>1, ServedNat DEF Fine, InStep
<1>4. j \in Jobs
  BY <1>1, <1>2, <1>3 DEF Jobs
<1>5. InPlace(c, 1)
  BY <1>2 DEF Fine
<1>6. /\ res[r].texts = <<Final(j)>> /\ res[r].final
      /\ res[r].close => job[j].close
  BY <1>1, <1>2, <1>5 DEF InPlace
<1>7. Head(res[r].texts) = Final(j) /\ Tail(res[r].texts) = <<>>
  BY <1>6
<1> QED
  BY <1>2, <1>4, <1>6, <1>7, TextTyped

\* What send() makes of the wire.
LEMMA SendsUnits ==
  ASSUME Shape, NEW c \in Cons, Fine(c), NEW k \in 1..TextLen, Send(c, k)
  PROVE  LET j == <<c, Served(wire[c]) + 1>>
             from == con[c].wcnt
         IN  /\ from \in 0..(TextLen - 1) /\ from + k <= TextLen
             /\ wire' = [wire EXCEPT ![c] = wire'[c]]
             /\ wire'[c] \in Seq(Units) /\ Len(wire'[c]) = Len(wire[c]) + k
             /\ wire'[c] # <<>>
             /\ \A i \in 1..Len(wire[c]) : wire'[c][i] = wire[c][i]
             /\ \A i \in 1..k : wire'[c][Len(wire[c]) + i]
                                   = [text |-> Final(j), unit |-> from + i]
             /\ LastUnit(wire'[c]) = [text |-> Final(j), unit |-> from + k]
             /\ Range(wire[c]) \subseteq Range(wire'[c])
             /\ [text |-> Final(j), unit |-> from + k] \in Range(wire'[c])
<1> DEFINE j == <<c, Served(wire[c]) + 1>>
           from == con[c].wcnt
<1>1. /\ wire \in [Cons -> Seq(Units)] /\ wire[c] \in Seq(Units)
      /\ con[c] \in ConRecords
  BY DEF Shape
<1>2. from \in 0..(TextLen - 1) /\ TextLen \in Nat /\ k \in Nat
  BY <1>1, HttpAssumption DEF ConRecords
<1>3. Writable(c) /\ from + k <= TextLen
  BY DEF Send
<1>4. Head(res[Head(list[c])].texts) = Final(j) /\ Final(j) \in Texts
  BY <1>3, SendsNext
<1>5. PICK v : v = [i \in 1..k |-> [text |-> Final(j), unit |-> from + i]]
  OBVIOUS
<1>6. /\ wire' = [wire EXCEPT ![c] = @ \o v]
  BY <1>4, <1>5 DEF Send
<1>7. v \in [1..k -> Units]
  <2>1. ASSUME NEW i \in 1..k
        PROVE  [text |-> Final(j), unit |-> from + i] \in Units
    <3>1. from + i \in 1..TextLen
      BY <1>2, <1>3
    <3> QED
      BY <1>4, <3>1 DEF Units
  <2> QED
    BY <1>5, <2>1
<1>8. \A i \in 1..k : v[i] = [text |-> Final(j), unit |-> from + i]
  BY <1>5
<1>9. wire'[c] = wire[c] \o v
  BY <1>1, <1>6
<1>10. wire' = [wire EXCEPT ![c] = wire'[c]]
  BY <1>6, <1>9
<1>11. PICK u, t, f : u = wire[c] /\ t = Final(j) /\ f = from
  OBVIOUS
<1>12. /\ u \in Seq(Units) /\ t \in Texts /\ f \in 0..(TextLen - 1)
       /\ f + k <= TextLen
       /\ \A i \in 1..k : v[i] = [text |-> t, unit |-> f + i]
  BY <1>1, <1>2, <1>3, <1>4, <1>8, <1>11
<1>13. /\ u \o v \in Seq(Units) /\ Len(u \o v) = Len(u) + k
       /\ u \o v # <<>>
       /\ \A i \in 1..Len(u) : (u \o v)[i] = u[i]
       /\ \A i \in 1..k : (u \o v)[Len(u) + i] = [text |-> t, unit |-> f + i]
       /\ LastUnit(u \o v) = [text |-> t, unit |-> f + k]
       /\ Range(u) \subseteq Range(u \o v)
       /\ [text |-> t, unit |-> f + k] \in Range(u \o v)
  BY <1>7, <1>12, SendWire
<1> QED
  BY <1>2, <1>3, <1>9, <1>10, <1>11, <1>13

LEMMA SendFine ==
  ASSUME Shape, Placed, NEW c \in Cons, Fine(c),
         NEW k \in 1..TextLen, Send(c, k)
  PROVE  Fine(c)'
<1> DEFINE r == Head(list[c])
           s == Served(wire[c])
           j == <<c, s + 1>>
           from == con[c].wcnt
           w == wire'[c]
<1>1. /\ loop = Idle /\ Writable(c) /\ list[c] \in Seq(ResIds)
      /\ wire[c] \in Seq(Units) /\ asked[c] \in 0..MaxReq
      /\ MaxReq \in Nat /\ TextLen \in Nat /\ k \in 1..TextLen
      /\ UNCHANGED <<asked, job>>
  BY HttpAssumption DEF Send, Shape
<1>2. /\ j \in Jobs /\ 1 \in 1..Len(list[c]) /\ r = list[c][1] /\ r \in ResIds
      /\ Tail(res[r].texts) = <<>> /\ res[r].final
      /\ res[r].close => job[j].close
  BY <1>1, SendsNext
<1>3. /\ s \in Nat /\ Len(list[c]) \in Nat /\ Len(wire[c]) \in Nat
      /\ asked[c] = s + Len(list[c])
  BY <1>1, ServedNat, LenProperties DEF Fine, InStep
<1>4. /\ from \in 0..(TextLen - 1) /\ from + k <= TextLen
      /\ w \in Seq(Units) /\ Len(w) = Len(wire[c]) + k /\ w # <<>>
      /\ \A i \in 1..Len(wire[c]) : w[i] = wire[c][i]
      /\ \A i \in 1..k : w[Len(wire[c]) + i]
                            = [text |-> Final(j), unit |-> from + i]
      /\ LastUnit(w) = [text |-> Final(j), unit |-> from + k]
  BY SendsUnits
<1>5. LastUnit(w).unit = from + k /\ LastUnit(w).text.n = s + 1
  BY <1>4 DEF Final
<1>6. ASSUME NEW i \in 1..Len(w)
      PROVE  w[i].text.con = c /\ w[i].text.kind = "final"
  <2>1. CASE i \in 1..Len(wire[c])
    <3>1. w[i] = wire[c][i]
      BY <1>4, <2>1
    <3>2. wire[c][i].text.con = c /\ wire[c][i].text.kind = "final"
      BY <2>1 DEF Fine, InStep
    <3> QED
      BY <3>1, <3>2
  <2>2. CASE i \notin 1..Len(wire[c])
    <3>1. PICK m \in 1..k : i = Len(wire[c]) + m
      <4>1. i - Len(wire[c]) \in 1..k /\ i = Len(wire[c]) + (i - Len(wire[c]))
        <5>1. PICK l \in Nat : l = Len(wire[c])
          BY <1>3
        <5>2. i \in 1..(l + k) /\ i \notin 1..l /\ k \in Nat
          BY <1>1, <1>4, <2>2, <5>1
        <5>3. i - l \in 1..k /\ i = l + (i - l)
          BY <5>2
        <5> QED
          BY <5>1, <5>3
      <4> QED
        BY <4>1
    <3>2. w[i] = [text |-> Final(j), unit |-> from + m]
      BY <1>4, <3>1
    <3>3. w[i].text = Final(j)
      BY <3>2
    <3> QED
      BY <3>3 DEF Final
  <2> QED
    BY <2>1, <2>2
<1> HIDE DEF w, from
<1>7. CASE from + k # TextLen
  <2>1. /\ con' = [con EXCEPT ![c].wcnt = from + k]
        /\ UNCHANGED <<res, list, loop>>
    BY <1>7 DEF Send, from
  <2>2. Served(w) = s /\ Begun(w) = from + k
    BY <1>3, <1>4, <1>5, <1>7 DEF Served, Begun, Whole
  <2>3. con'[c].wcnt = from + k
    BY <2>1 DEF Shape, ConRecords
  <2>4. InStep(c)'
    BY <1>1, <1>3, <1>6, <2>1, <2>2, <2>3 DEF InStep, w
  <2>5. HandIsLast(c)'
    BY <1>1, <2>1 DEF HandIsLast, Idle
  <2>6. ASSUME NEW i \in 1..Len(list'[c]) PROVE InPlace(c, i)'
    BY <1>1, <2>1, <2>2 DEF InPlace, w, Fine
  <2>7. ASSUME NEW n \in 1..MaxReq PROVE RunsInPlace(c, n)'
    BY <1>1, <2>1, <2>2 DEF RunsInPlace, Running, w, Fine
  <2> QED
    BY <2>4, <2>5, <2>6, <2>7 DEF Fine
<1>8. CASE from + k = TextLen
  <2>1. /\ con' = [con EXCEPT ![c].wcnt = 0]
        /\ res' = [res EXCEPT ![r].texts = Tail(@)]
        /\ list' = [list EXCEPT ![c] = Tail(@)]
        /\ loop' = [at |-> "sent", con |-> c, res |-> r,
                    next |-> Tail(res[r].texts) # <<>>]
    BY <1>8 DEF Send, from
  <2>2. Served(w) = s + 1 /\ Begun(w) = 0
    BY <1>3, <1>4, <1>5, <1>8 DEF Served, Begun, Whole
  <2>3. /\ con'[c].wcnt = 0 /\ list'[c] = Tail(list[c])
        /\ \A q \in ResIds : q # r => res'[q] = res[q]
        /\ res'[r].final = res[r].final /\ res'[r].close = res[r].close
    <3>1. res \in [ResIds -> ResRecords] /\ res[r] \in ResRecords
      BY <1>2 DEF Shape
    <3>2. res'[r] = [res[r] EXCEPT !.texts = Tail(@)]
      BY <1>2, <2>1, <3>1
    <3>3. res'[r].final = res[r].final /\ res'[r].close = res[r].close
      BY <3>1, <3>2 DEF ResRecords
    <3>4. con'[c].wcnt = 0 /\ list'[c] = Tail(list[c])
      BY <2>1 DEF Shape, ConRecords
    <3> HIDE DEF r
    <3> QED
      BY <2>1, <3>1, <3>3, <3>4
  <2>4. /\ Len(list'[c]) = Len(list[c]) - 1
        /\ \A i \in 1..Len(list'[c]) : list'[c][i] = list[c][i + 1]
    BY <1>1, <1>2, <2>3, EmptySeq, HeadTailProperties
  <2>5. InStep(c)'
    <3>1. asked'[c] = (s + 1) + Len(list'[c])
      BY <1>1, <1>3, <2>4
    <3> QED
      BY <1>6, <2>2, <2>3, <3>1 DEF InStep, w
  <2>6. HandIsLast(c)'
    <3>1. /\ loop'.res = r /\ loop'.next = FALSE
      BY <1>2, <2>1
    <3>2. Served(w) >= 1 /\ <<c, Served(w)>> = j
      BY <1>3, <2>2
    <3> QED
      BY <1>1, <1>2, <2>3, <3>1, <3>2 DEF HandIsLast, w
  <2>7. ASSUME NEW i \in 1..Len(list'[c]) PROVE InPlace(c, i)'
    <3>1. i + 1 \in 1..Len(list[c]) /\ i + 1 # 1
      BY <1>3, <2>4
    <3>2. list[c][i + 1] # r /\ list[c][i + 1] \in ResIds
      BY <1>1, <1>2, <3>1, InList, OnceDef DEF Placed
    <3>3. res'[list'[c][i]] = res[list[c][i + 1]]
      BY <2>3, <2>4, <3>2
    <3>4. InPlace(c, i + 1)
      BY <3>1 DEF Fine
    <3>5. s + (i + 1) = Served(w) + i
      BY <1>3, <2>2
    <3> QED
      BY <1>1, <3>3, <3>4, <3>5 DEF InPlace, w
  <2>8. ASSUME NEW n \in 1..MaxReq PROVE RunsInPlace(c, n)'
    <3> SUFFICES ASSUME job'[<<c, n>>].state \in {"running", "raised"}
                 PROVE  /\ n - Served(w) \in 1..Len(list'[c])
                        /\ list'[c][n - Served(w)] = job'[<<c, n>>].res
                        /\ res'[job'[<<c, n>>].res].texts = <<>>
                        /\ ~res'[job'[<<c, n>>].res].final
      BY DEF RunsInPlace, Running, w
    <3>1. <<c, n>> \in Jobs /\ Running(<<c, n>>) /\ job' = job
      BY <1>1 DEF Jobs, Running
    <3>2. /\ n - s \in 1..Len(list[c]) /\ list[c][n - s] = job[<<c, n>>].res
          /\ res[job[<<c, n>>].res].texts = <<>> /\ ~res[job[<<c, n>>].res].final
      BY <3>1 DEF Fine, RunsInPlace
    <3>3. job[<<c, n>>].res # r /\ job[<<c, n>>].res \in ResIds
      BY <1>1, <3>2, InList DEF Writable, HasText
    <3>4. n - s # 1
      BY <1>2, <3>2, <3>3
    <3>5. n - Served(w) \in 1..Len(list'[c]) /\ (n - Served(w)) + 1 = n - s
      <4>1. PICK a, b, l, m : /\ a = Served(w) /\ b = s /\ l = Len(list[c])
                              /\ m = Len(list'[c])
        OBVIOUS
      <4>2. /\ a = b + 1 /\ m = l - 1 /\ b \in Nat /\ l \in Nat
            /\ n \in Nat /\ n - b \in 1..l /\ n - b # 1
        BY <1>1, <1>3, <2>2, <2>4, <3>2, <3>4, <4>1
      <4>3. n - a \in 1..m /\ (n - a) + 1 = n - b
        BY <4>2
      <4> QED
        BY <4>1, <4>3
    <3>6. res'[job[<<c, n>>].res] = res[job[<<c, n>>].res]
      BY <2>3, <3>3
    <3> QED
      BY <2>4, <3>1, <3>2, <3>5, <3>6
  <2> QED
    BY <2>5, <2>6, <2>7, <2>8 DEF Fine
<1> QED
  BY <1>7, <1>8

\* The answer to a request is put in the record that stands in its place.
LEMMA EvalFine ==
  ASSUME Apart, Shape, Placed, Clear, NEW c \in Cons, Fine(c), Quiet(c)',
         NEW j \in Jobs, EvalStep(j)
  PROVE  Fine(c)'
<1> DEFINE q == job[j].res
           s == Served(wire[c])
<1>1. /\ Running(j)
      /\ \A k \in Jobs : k # j => job'[k] = job[k]
      /\ UNCHANGED <<cache, made, con, list, asked, loop, wire>>
  BY EvalKeeps
<1>2. /\ list[c] \in Seq(ResIds) /\ wire[c] \in Seq(Units)
      /\ asked[c] \in 0..MaxReq /\ MaxReq \in Nat
      /\ j[1] \in Cons /\ j[2] \in 1..MaxReq /\ j = <<j[1], j[2]>>
  BY HttpAssumption DEF Shape, Jobs
<1>3. /\ s \in Nat /\ Len(list[c]) \in Nat /\ asked[c] = s + Len(list[c])
  BY <1>2, ServedNat, LenProperties DEF Fine, InStep
<1>4. ASSUME q \in Range(list[j[1]])
      PROVE  q \in ResIds /\ (loop.at = "sent" => loop.res # q /\ loop.res \in ResIds)
  <2>1. list[j[1]] \in Seq(ResIds)
    BY <1>2 DEF Shape
  <2>2. q \in ResIds
    BY <1>4, <2>1, RangeDef
  <2>3. loop.at = "sent" => loop.res # q /\ loop.res \in ResIds
    BY <1>2, <1>4, HandMade DEF Placed
  <2> QED
    BY <2>2, <2>3
<1>5. CASE j[1] # c
  <2>1. Plain /\ Owned
    BY <1>2, <1>5 DEF Apart, Clear, Alone
  <2>2. ~AddEarly(j)
    <3>1. job[j].hints \in 0..0
      BY <2>1 DEF Plain, Shape
    <3>2. ~(job[j].hints < MaxHints)
      BY <2>1, <3>1 DEF Plain
    <3> QED
      BY <3>2 DEF AddEarly
  <2>3. q \in Range(list[j[1]]) /\ Blank(j)
    BY <1>1, <1>4, <2>1 DEF Owned, Blank
  <2>4. \A r \in ResIds : r # q => res'[r] = res[r]
    BY <2>2, <2>3, EvalEffect
  <2>5. ASSUME NEW i \in 1..Len(list[c]) PROVE res'[list[c][i]] = res[list[c][i]]
    <3>1. list[c][i] \in Range(list[c]) /\ list[c][i] \in ResIds
      BY InList
    <3>2. list[c][i] # q
      BY <1>2, <1>5, <2>3, <3>1 DEF Placed
    <3> QED
      BY <2>4, <3>1, <3>2
  <2>6. \A n \in 1..MaxReq : job'[<<c, n>>] = job[<<c, n>>]
    BY <1>1, <1>5 DEF Jobs
  <2>7. Untouched(c)
    BY <1>1, <1>4, <2>3, <2>4, <2>5, <2>6 DEF Untouched
  <2> QED
    BY <2>7, FineUntouched
<1>6. CASE j[1] = c
  <2> DEFINE m == j[2] - s
  <2>1. /\ m \in 1..Len(list[c]) /\ list[c][m] = q /\ j = <<c, s + m>>
        /\ res[q].texts = <<>> /\ ~res[q].final
    <3>1. j = <<c, j[2]>> /\ Running(<<c, j[2]>>)
      BY <1>1, <1>2, <1>6
    <3>2. RunsInPlace(c, j[2])
      BY <1>2 DEF Fine
    <3>3. /\ m \in 1..Len(list[c]) /\ list[c][m] = q
          /\ res[q].texts = <<>> /\ ~res[q].final
      BY <3>1, <3>2 DEF RunsInPlace
    <3>4. s + m = j[2]
      BY <1>2, <1>3
    <3> QED
      BY <3>1, <3>3, <3>4
  <2> HIDE DEF m
  <2>2. ~AddEarly(j)
    <3>1. s + m \in 1..asked[c] /\ asked'[c] = asked[c]
      BY <1>1, <1>3, <2>1
    <3>2. job'[j].hints = 0
      BY <2>1, <3>1 DEF Quiet
    <3>3. AddEarly(j) => job'[j].hints = job[j].hints + 1 /\ job[j].hints \in Nat
      BY EvalKeeps
    <3> QED
      BY <3>2, <3>3
  <2>3. q \in Range(list[j[1]])
    BY <1>6, <2>1, InList
  <2>4. Blank(j)
    <3>1. InPlace(c, m)
      BY <2>1 DEF Fine
    <3>2. res[q].close => job[j].close
      BY <2>1, <3>1 DEF InPlace
    <3> QED
      BY <1>4, <2>1, <2>3, <3>2 DEF Blank
  <2>5. /\ \/ /\ job'[j].state = "done"
              /\ res'[q].texts = <<Final(j)>> /\ res'[q].final
           \/ job'[j].res = q /\ res'[q].texts = <<>> /\ ~res'[q].final
        /\ \A r \in ResIds : r # q => res'[r] = res[r]
        /\ res'[q].close => job'[j].close
    BY <2>2, <2>4, EvalEffect
  <2>6. InStep(c)'
    BY <1>1 DEF Fine, InStep
  <2>7. HandIsLast(c)'
    <3> SUFFICES ASSUME loop'.at = "sent", loop'.con = c
                 PROVE  /\ ~loop'.next /\ res'[loop'.res].final
                        /\ Served(wire'[c]) >= 1
                        /\ res'[loop'.res].close
                              => job'[<<c, Served(wire'[c])>>].close
      BY DEF HandIsLast
    <3>1. /\ ~loop.next /\ res[loop.res].final /\ s >= 1
          /\ res[loop.res].close => job[<<c, s>>].close
      BY <1>1 DEF Fine, HandIsLast
    <3>2. res'[loop.res] = res[loop.res]
      BY <1>1, <1>4, <2>3, <2>5
    <3>3. <<c, s>> # j /\ s \in 1..MaxReq
      BY <1>2, <1>3, <2>1, <3>1
    <3>4. <<c, s>> \in Jobs
      BY <3>3 DEF Jobs
    <3>5. job'[<<c, s>>] = job[<<c, s>>]
      BY <1>1, <3>3, <3>4
    <3> QED
      BY <1>1, <3>1, <3>2, <3>5
  <2>8. ASSUME NEW i \in 1..Len(list[c]), i # m
        PROVE  list[c][i] # q /\ res'[list[c][i]] = res[list[c][i]]
    <3>1. list[c][i] # q
      BY <1>2, <2>1, <2>8, OnceDef DEF Placed
    <3>2. list[c][i] \in ResIds
      BY InList
    <3> QED
      BY <2>5, <3>1, <3>2
  <2>9. ASSUME NEW i \in 1..Len(list'[c]) PROVE InPlace(c, i)'
    <3>1. i \in 1..Len(list[c]) /\ list'[c] = list[c] /\ wire'[c] = wire[c]
      BY <1>1
    <3>2. CASE i = m
      BY <2>1, <2>5, <3>1, <3>2 DEF InPlace
    <3>3. CASE i # m
      <4>1. <<c, s + i>> # j /\ <<c, s + i>> \in Jobs
        <5>1. s + i \in 1..MaxReq /\ s + i # s + m
          BY <1>2, <1>3, <2>1, <3>1, <3>3
        <5> QED
          BY <2>1, <5>1 DEF Jobs
      <4>2. InPlace(c, i)
        BY <3>1 DEF Fine
      <4>3. /\ res'[list[c][i]] = res[list[c][i]]
            /\ job'[<<c, s + i>>] = job[<<c, s + i>>]
        BY <1>1, <2>8, <3>1, <3>3, <4>1
      <4> QED
        BY <3>1, <4>2, <4>3 DEF InPlace
    <3> QED
      BY <3>2, <3>3
  <2>10. ASSUME NEW n \in 1..MaxReq PROVE RunsInPlace(c, n)'
    <3>1. CASE <<c, n>> = j
      <4>1. n - s = m /\ list'[c] = list[c] /\ wire'[c] = wire[c]
        BY <1>1, <1>2, <1>3, <2>1, <3>1
      <4> QED
        BY <2>1, <2>5, <3>1, <4>1 DEF RunsInPlace
    <3>2. CASE <<c, n>> # j
      <4>1. job'[<<c, n>>] = job[<<c, n>>] /\ wire'[c] = wire[c] /\ list'[c] = list[c]
        BY <1>1, <3>2 DEF Jobs
      <4>2. RunsInPlace(c, n)
        BY DEF Fine
      <4>3. n - s # m
        BY <1>2, <1>3, <2>1, <3>2
      <4>4. Running(<<c, n>>) => res'[job[<<c, n>>].res] = res[job[<<c, n>>].res]
        BY <2>8, <4>2, <4>3 DEF RunsInPlace
      <4> QED
        BY <4>1, <4>2, <4>4 DEF RunsInPlace, Running
    <3> QED
      BY <3>1, <3>2
  <2> QED
    BY <2>6, <2>7, <2>9, <2>10 DEF Fine
<1> QED
  BY <1>5, <1>6

\* The record in the hand of the write handler is done with, so that it is not
\* put back; it leaves the connection open unless it has the close indicator.
LEMMA SentFine ==
  ASSUME Shape, NEW c \in Cons, Fine(c), Sent(c), con'[c].state = "open"
  PROVE  /\ Fine(c)'
         /\ UNCHANGED <<con, list, res, job, wire, asked>>
<1>1. /\ loop.at = "sent" /\ loop.con = c /\ loop' = Idle
      /\ UNCHANGED <<res, asked, job, wire>>
  BY DEF Sent
<1>2. ~loop.next /\ res[loop.res].final
  BY <1>1 DEF Fine, HandIsLast
<1>3. ~Remove(c, list[c], "dead", <<loop.res>>, FALSE)
  <2> SUFFICES ASSUME Remove(c, list[c], "dead", <<loop.res>>, FALSE)
               PROVE  FALSE
    OBVIOUS
  <2>1. list[c] \in Seq(ResIds) /\ <<loop.res>> \in Seq(ResIds)
    BY <1>1, HandMade, SingleRange DEF Shape
  <2>2. PICK front, rest \in Seq(ResIds) :
           Parts(c, list[c], "dead", <<loop.res>>, FALSE, front, rest)
    BY <2>1, RemoveParts
  <2> QED
    BY <2>2 DEF Parts, Shape, ConRecords
<1>4. UNCHANGED <<con, list>>
  BY <1>2, <1>3 DEF Sent
<1>5. Untouched(c)
  BY <1>1, <1>4 DEF Untouched, Idle
<1> QED
  BY <1>1, <1>4, <1>5, FineUntouched

\* The other steps of a connection mark it as hit, or are those of one that is
\* not open.
LEMMA NotSound ==
  ASSUME Shape, NEW c \in Cons,
         \/ ReadClosing(c) \/ SendError(c) \/ Hangup(c) \/ CheckClosing(c)
         \/ CheckLate(c) \/ SendBlocked(c)
  PROVE  con'[c].hit
<1>1. con \in [Cons -> ConRecords] /\ list[c] \in Seq(ResIds)
      /\ <<>> \in Seq(ResIds)
  BY EmptyTyped DEF Shape
<1>2. CASE SendBlocked(c) \/ CheckLate(c)
  BY <1>1, <1>2 DEF SendBlocked, CheckLate, ConRecords
<1>3. ASSUME NEW s \in Seq(ResIds), NEW st, Remove(c, s, st, <<>>, TRUE)
      PROVE  con'[c].hit
  <2>1. PICK front, rest \in Seq(ResIds) :
           Parts(c, s, st, <<>>, TRUE, front, rest)
    BY <1>1, <1>3, RemoveParts
  <2> QED
    BY <1>1, <2>1 DEF Parts, ConRecords
<1>4. CASE SendError(c)
  <2>1. list[c] # <<>> /\ Remove(c, Tail(list[c]), "dead", <<>>, TRUE)
    BY <1>4 DEF SendError, Writable, HasText
  <2>2. Tail(list[c]) \in Seq(ResIds)
    BY <1>1, <2>1, TailRange
  <2> QED
    BY <1>3, <2>1, <2>2
<1>5. CASE ReadClosing(c) \/ Hangup(c) \/ CheckClosing(c)
  BY <1>1, <1>3, <1>5 DEF ReadClosing, Hangup, CheckClosing
<1> QED
  BY <1>2, <1>4, <1>5

\* The hints that were sent for a request are not forgotten.
LEMMA QuietBefore ==
  ASSUME Shape, [Next]_vars, NEW c \in Cons, Quiet(c)'
  PROVE  Quiet(c)
<1>1. /\ asked \in [Cons -> 0..MaxReq] /\ MaxReq \in Nat
      /\ job \in [Jobs -> [state : States, res : 0..made, hints : 0..MaxHints,
                          close : BOOLEAN]]
  BY HttpAssumption DEF Shape
<1> SUFFICES ASSUME NEW n \in 1..asked[c]
             PROVE  job[<<c, n>>].hints = 0
  BY DEF Quiet
<1>2. <<c, n>> \in Jobs
  BY <1>1 DEF Jobs
<1>3. CASE UNCHANGED <<asked, job>>
  BY <1>3 DEF Quiet
<1>4. ASSUME NEW d \in Cons, \E kind, close : ReadRequest(d, kind, close)
      PROVE  job[<<c, n>>].hints = 0
  <2>1. /\ asked' = [asked EXCEPT ![d] = @ + 1]
        /\ \E x : job' = [job EXCEPT ![<<d, asked[d] + 1>>] = x]
    BY <1>4 DEF ReadRequest
  <2>2. n \in 1..asked'[c]
    BY <1>1, <2>1
  <2>3. <<d, asked[d] + 1>> # <<c, n>>
    BY <1>1
  <2> QED
    BY <1>1, <1>2, <2>1, <2>2, <2>3 DEF Quiet
<1>5. ASSUME NEW j \in Jobs, EvalStep(j)
      PROVE  job[<<c, n>>].hints = 0
  <2>1. /\ asked' = asked /\ \A k \in Jobs : k # j => job'[k] = job[k]
        /\ job[j].hints \in Nat
        /\ job'[j].hints = job[j].hints \/ job'[j].hints = job[j].hints + 1
    BY <1>5, EvalKeeps
  <2>2. job'[<<c, n>>].hints = 0
    BY <2>1 DEF Quiet
  <2>3. CASE <<c, n>> = j
    <3>1. PICK a, b : a = job[j].hints /\ b = job'[j].hints
      OBVIOUS
    <3> QED
      BY <2>1, <2>2, <2>3, <3>1
  <2>4. CASE <<c, n>> # j
    BY <1>2, <2>1, <2>2, <2>4
  <2> QED
    BY <2>3, <2>4
<1>6. ASSUME NEW d \in Cons,
             \/ ReadClosing(d) \/ ReadEnd(d) \/ Write(d) \/ SendBlocked(d)
             \/ SendError(d) \/ Hangup(d) \/ CheckDead(d) \/ CheckLate(d)
             \/ CheckClosing(d)
      PROVE  UNCHANGED <<asked, job>>
  <2>1. CASE ReadClosing(d) \/ ReadEnd(d)
    BY <2>1 DEF ReadClosing, ReadEnd
  <2>2. CASE Write(d) \/ SendBlocked(d) \/ SendError(d)
    BY <2>2 DEF Write, Send, Sent, SendBlocked, SendError
  <2>3. CASE Hangup(d) \/ CheckDead(d) \/ CheckLate(d) \/ CheckClosing(d)
    BY <2>3 DEF Hangup, CheckDead, CheckLate, CheckClosing
  <2> QED
    BY <1>6, <2>1, <2>2, <2>3
<1>7. CASE UNCHANGED vars
  BY <1>3, <1>7 DEF vars
<1> QED
  BY <1>3, <1>4, <1>5, <1>6, <1>7 DEF Next, EvalStep, Read

LEMMA OrderedStep ==
  ASSUME Apart, Shape, Placed, AtOpen, Clear, Ordered, [Next]_vars
  PROVE  Ordered'
<1> SUFFICES ASSUME NEW c \in Cons, con'[c].state = "open", ~con'[c].hit,
                    Quiet(c)'
             PROVE  Fine(c)'
  BY DEF Ordered, Sound
<1>1. Sound(c) /\ Fine(c)
  BY SoundBefore, QuietBefore DEF Ordered, Sound
<1>2. ASSUME NEW d \in Cons, d # c,
             Read(d) \/ Write(d) \/ SendBlocked(d) \/ SendError(d)
                \/ Hangup(d) \/ CheckDead(d) \/ CheckLate(d) \/ CheckClosing(d)
      PROVE  Fine(c)'
  BY <1>1, <1>2, OtherUntouched, FineUntouched
<1>3. CASE \E kind \in Kinds, close \in Closes : ReadRequest(c, kind, close)
  BY <1>1, <1>3, ReadRequestFine
<1>4. CASE ReadEnd(c)
  <2>1. Untouched(c)
    BY <1>4 DEF ReadEnd, Untouched, Idle
  <2> QED
    BY <1>1, <2>1, FineUntouched
<1>5. CASE \E k \in 1..TextLen : Send(c, k)
  BY <1>1, <1>5, SendFine
<1>6. CASE Sent(c)
  BY <1>1, <1>6, SentFine
<1>7. CASE \/ ReadClosing(c) \/ SendError(c) \/ Hangup(c) \/ CheckClosing(c)
           \/ CheckLate(c) \/ SendBlocked(c)
  BY <1>7, NotSound
<1>8. ~CheckDead(c)
  BY <1>1 DEF CheckDead, Sound
<1>9. ASSUME NEW j \in Jobs, EvalStep(j)
      PROVE  Fine(c)'
  BY <1>1, <1>9, EvalFine
<1>10. CASE UNCHANGED vars
  <2>1. Untouched(c)
    BY <1>10 DEF vars, Untouched
  <2> QED
    BY <1>1, <2>1, FineUntouched
<1>11. ASSUME NEW d \in Cons,
              Read(d) \/ Write(d) \/ SendBlocked(d) \/ SendError(d)
                 \/ Hangup(d) \/ CheckDead(d) \/ CheckLate(d) \/ CheckClosing(d)
       PROVE  Fine(c)'
  <2>1. CASE d # c
    BY <1>2, <1>11, <2>1
  <2>2. CASE d = c
    BY <1>3, <1>4, <1>5, <1>6, <1>7, <1>8, <1>11, <2>2 DEF Read, Write
  <2> QED
    BY <2>1, <2>2
<1> QED
  BY <1>9, <1>10, <1>11 DEF Next, EvalStep

\* A step that takes nothing from what a connection was sent and leaves it in
\* its state.
LEMMA ClosedKept ==
  ASSUME NEW c \in Cons, ClosedAt(c),
         UNCHANGED wire[c], con'[c].state = con[c].state,
         \A n \in 1..MaxReq : job[<<c, n>>].close => job'[<<c, n>>].close
  PROVE  ClosedAt(c)'
<1>1. \A n \in 1..MaxReq : Answered(<<c, n>>)' <=> Answered(<<c, n>>)
  BY DEF Answered
<1> QED
  BY <1>1 DEF ClosedAt

\* A text that is sent whole is the answer to the next request.
LEMMA SendClosed ==
  ASSUME Shape, NEW c \in Cons, ClosedAt(c), Fine(c),
         NEW k \in 1..TextLen, Send(c, k)
  PROVE  \A n \in 1..MaxReq : n <= Served(wire'[c]) => Answered(<<c, n>>)'
<1> DEFINE s == Served(wire[c])
           w == wire'[c]
           from == con[c].wcnt
<1>1. /\ from \in 0..(TextLen - 1) /\ w # <<>>
      /\ LastUnit(w) = [text |-> Final(<<c, s + 1>>), unit |-> from + k]
      /\ Range(wire[c]) \subseteq Range(w)
      /\ [text |-> Final(<<c, s + 1>>), unit |-> from + k] \in Range(w)
      /\ TextLen \in Nat
  BY SendsUnits, HttpAssumption
<1>2. s \in Nat
  BY ServedNat DEF Shape
<1>3. LastUnit(w).unit = from + k /\ LastUnit(w).text.n = s + 1
  BY <1>1 DEF Final
<1> HIDE DEF w
<1>4. IF from + k = TextLen THEN Served(w) = s + 1 ELSE Served(w) = s
  BY <1>1, <1>2, <1>3 DEF Served, Whole
<1>5. ASSUME NEW n \in 1..MaxReq, n <= s
      PROVE  [text |-> Final(<<c, n>>), unit |-> TextLen] \in Range(w)
  <2>1. Answered(<<c, n>>)
    BY <1>5 DEF ClosedAt
  <2> QED
    BY <1>1, <2>1 DEF Answered
<1>6. ASSUME NEW n \in 1..MaxReq, n <= Served(w)
      PROVE  [text |-> Final(<<c, n>>), unit |-> TextLen] \in Range(w)
  <2>1. CASE n <= s
    BY <1>5, <2>1
  <2>2. CASE ~(n <= s)
    <3>1. n = s + 1 /\ from + k = TextLen
      BY <1>2, <1>4, <1>6, <2>2
    <3> QED
      BY <1>1, <3>1
  <2> QED
    BY <2>1, <2>2
<1> QED
  BY <1>6 DEF Answered, w

\* A connection is only ended by the response that was just sent.
LEMMA SentClosed ==
  ASSUME Shape, NEW c \in Cons, Sound(c), ClosedAt(c), Fine(c), Sent(c)
  PROVE  ClosedAt(c)'
<1>1. UNCHANGED <<wire, job>> /\ loop.at = "sent" /\ loop.con = c
  BY DEF Sent
<1>2. ASSUME NEW n \in 1..MaxReq, n <= Served(wire'[c])
      PROVE  Answered(<<c, n>>)'
  <2>1. Answered(<<c, n>>)
    BY <1>1, <1>2 DEF ClosedAt
  <2> QED
    BY <1>1, <2>1 DEF Answered
<1>3. ASSUME con'[c].state # "open"
      PROVE  /\ Served(wire[c]) \in 1..MaxReq
             /\ job[<<c, Served(wire[c])>>].close
  <2>1. res[loop.res].close
    BY <1>3 DEF Sent, Sound
  <2>2. Served(wire[c]) >= 1 /\ job[<<c, Served(wire[c])>>].close
    BY <1>1, <2>1 DEF Fine, HandIsLast
  <2>3. asked[c] = Served(wire[c]) + Len(list[c])
    BY DEF Fine, InStep
  <2>4. Served(wire[c]) \in Nat /\ Len(list[c]) \in Nat /\ asked[c] \in 0..MaxReq
        /\ MaxReq \in Nat
    BY ServedNat, LenProperties, HttpAssumption DEF Shape
  <2> QED
    BY <2>2, <2>3, <2>4
<1> QED
  BY <1>1, <1>2, <1>3 DEF ClosedAt

LEMMA ClosedStep ==
  ASSUME Apart, Shape, Placed, AtOpen, Ordered, Closed, [Next]_vars
  PROVE  Closed'
<1> SUFFICES ASSUME NEW c \in Cons, ~con'[c].hit, Quiet(c)'
             PROVE  ClosedAt(c)'
  BY DEF Closed
<1>1. ~con[c].hit /\ Quiet(c) /\ ClosedAt(c)
  BY SoundBefore, QuietBefore DEF Closed
<1>2. con[c].state = "open" => Sound(c) /\ Fine(c)
  BY <1>1 DEF Ordered, Sound
<1>3. ASSUME Untouched(c) PROVE ClosedAt(c)'
  BY <1>1, <1>3, ClosedKept DEF Untouched
<1>4. CASE \E kind \in Kinds, close \in Closes : ReadRequest(c, kind, close)
  <2>1. con'[c].state = con[c].state /\ con[c].state = "open"
    <3>1. con'[c].state = con[c].state
      <4>1. \E kind, close : ReadRequest(c, kind, close)
        BY <1>4
      <4> QED
        BY <4>1, StateKept
    <3>2. CASE Readable(c)
      BY <3>1, <3>2 DEF Readable
    <3>3. CASE loop = [at |-> "read", con |-> c]
      <4>1. loop.at = "read" /\ loop.con = c
        BY <3>3
      <4>2. con[c].state = "open"
        BY <4>1 DEF AtOpen
      <4> QED
        BY <3>1, <4>2
    <3> QED
      BY <1>4, <3>2, <3>3 DEF ReadRequest
  <2>2. wire'[c] = wire[c]
    BY <1>4 DEF ReadRequest
  <2>3. ASSUME NEW n \in 1..MaxReq, n <= Served(wire[c])
        PROVE  Answered(<<c, n>>)'
    <3>1. Answered(<<c, n>>)
      BY <1>1, <2>3 DEF ClosedAt
    <3> QED
      BY <2>2, <3>1 DEF Answered
  <2> QED
    BY <2>1, <2>2, <2>3 DEF ClosedAt
<1>5. CASE ReadEnd(c)
  BY <1>3, <1>5 DEF ReadEnd, Untouched, Idle
<1>6. CASE \E k \in 1..TextLen : Send(c, k)
  <2>1. con'[c].state = con[c].state /\ con[c].state = "open"
    BY <1>6, StateKept DEF Send, Writable
  <2>2. \A n \in 1..MaxReq : n <= Served(wire'[c]) => Answered(<<c, n>>)'
    BY <1>1, <1>2, <1>6, <2>1, SendClosed
  <2> QED
    BY <2>1, <2>2 DEF ClosedAt
<1>7. CASE Sent(c)
  <2>1. con[c].state = "open"
    BY <1>7 DEF Sent, AtOpen
  <2> QED
    BY <1>1, <1>2, <1>7, <2>1, SentClosed
<1>8. CASE \/ ReadClosing(c) \/ SendError(c) \/ Hangup(c) \/ CheckClosing(c)
           \/ CheckLate(c) \/ SendBlocked(c)
  BY <1>8, NotSound
<1>9. CASE CheckDead(c)
  <2>1. con[c].state = "dead" /\ UNCHANGED <<wire, job>>
    BY <1>9 DEF CheckDead
  <2>2. \A n \in 1..MaxReq : Answered(<<c, n>>)' <=> Answered(<<c, n>>)
    BY <2>1 DEF Answered
  <2> QED
    BY <1>1, <2>1, <2>2 DEF ClosedAt
<1>10. ASSUME NEW j \in Jobs, EvalStep(j)
       PROVE  ClosedAt(c)'
  <2>0. UNCHANGED <<con, wire>>
    BY <1>10, EvalKeeps
  <2>1. /\ job[j].close => job'[j].close
        /\ \A k \in Jobs : k # j => job'[k] = job[k]
    BY <1>10, EvalKeeps
  <2>2. ASSUME NEW n \in 1..MaxReq, job[<<c, n>>].close
        PROVE  job'[<<c, n>>].close
    <3>1. <<c, n>> \in Jobs
      BY DEF Jobs
    <3>2. CASE <<c, n>> = j
      BY <2>1, <2>2, <3>2, Zenon
    <3>3. CASE <<c, n>> # j
      BY <2>1, <2>2, <3>1, <3>3, Zenon
    <3> QED
      BY <3>2, <3>3
  <2>3. UNCHANGED wire[c] /\ con'[c].state = con[c].state
    BY <2>0
  <2> QED
    BY <1>1, <2>2, <2>3, ClosedKept
<1>11. CASE UNCHANGED vars
  BY <1>3, <1>11 DEF vars, Untouched
<1>12. ASSUME NEW d \in Cons,
              Read(d) \/ Write(d) \/ SendBlocked(d) \/ SendError(d)
                 \/ Hangup(d) \/ CheckDead(d) \/ CheckLate(d) \/ CheckClosing(d)
       PROVE  ClosedAt(c)'
  <2>1. CASE d # c
    BY <1>3, <1>12, <2>1, OtherUntouched
  <2>2. CASE d = c
    BY <1>4, <1>5, <1>6, <1>7, <1>8, <1>9, <1>12, <2>2 DEF Read, Write
  <2> QED
    BY <2>1, <2>2
<1> QED
  BY <1>10, <1>11, <1>12 DEF Next, EvalStep

\* What holds of the responses of every connection.
LEMMA EveryResponse ==
  ASSUME Apart
  PROVE  Spec => [](Shape /\ AtOpen /\ Ordered /\ Closed)
<1>1. ASSUME Init PROVE Ordered /\ Closed
  <2>1. \A c \in Cons : /\ con[c] = [state |-> "open", closing |-> FALSE,
                                     wcnt |-> 0, hit |-> FALSE]
                        /\ list[c] = <<>> /\ wire[c] = <<>> /\ asked[c] = 0
    BY <1>1 DEF Init
  <2>2. \A j \in Jobs : job[j].state = "none"
    BY <1>1 DEF Init
  <2>3. Served(<<>>) = 0 /\ Begun(<<>>) = 0 /\ Len(<<>>) = 0
    BY DEF Served, Begun, Whole
  <2>4. ASSUME NEW c \in Cons PROVE Fine(c)
    <3>1. InStep(c)
      BY <2>1, <2>3 DEF InStep
    <3>2. HandIsLast(c)
      BY <1>1 DEF HandIsLast, Init, Idle
    <3>3. \A i \in 1..Len(list[c]) : InPlace(c, i)
      BY <2>1, <2>3
    <3>4. \A n \in 1..MaxReq : RunsInPlace(c, n)
      BY <2>2 DEF RunsInPlace, Running, Jobs
    <3> QED
      BY <3>1, <3>2, <3>3, <3>4 DEF Fine
  <2>5. Closed
    BY <2>1, <2>3 DEF Closed, ClosedAt
  <2> QED
    BY <2>4, <2>5 DEF Ordered
<1>2. Shape /\ Placed /\ AtOpen /\ Clear /\ [Next]_vars => Clear'
  <2>1. CASE Alone
    BY <2>1 DEF Clear, Alone
  <2>2. CASE ~Alone
    BY <2>2, OwnedStep DEF Apart, Clear
  <2> QED
    BY <2>1, <2>2
<1>3. /\ Shape /\ Placed /\ AtOpen /\ Clear /\ Ordered /\ Closed /\ [Next]_vars
         => Ordered' /\ Closed'
  BY OrderedStep, ClosedStep
<1>4. Init => Clear
  BY OwnedInit DEF Clear
<1> QED
  BY <1>1, <1>2, <1>3, <1>4, AllOfThem, PTL DEF Spec

\* A connection that is gone, that no fault has hit and that was sent no early
\* hints, answered every request up to one whose response closes the connection:
\* an error response, that of a handler that raised, or the one a client asked
\* to be the last (con.c:632-634, 728-732).  With several connections that needs
\* Plain, with one it holds for early hints and closing responses too.
THEOREM GoneIsAnswered ==
  ASSUME Apart
  PROVE  Spec => []AnsweredThenClosed
<1>1. ASSUME Shape, Closed, NEW j \in Jobs, con[j[1]].state = "gone",
             ~con[j[1]].hit, Quiet(j[1])
      PROVE  Answered(j) \/ ClosedBefore(j)
  <2> DEFINE s == Served(wire[j[1]])
  <2>1. j[1] \in Cons /\ j[2] \in 1..MaxReq /\ j = <<j[1], j[2]>>
    BY DEF Jobs
  <2>2. s \in 1..MaxReq /\ job[<<j[1], s>>].close
    BY <1>1, <2>1 DEF Closed, ClosedAt
  <2>3. CASE j[2] <= s
    <3>1. Answered(<<j[1], j[2]>>)
      BY <1>1, <2>1, <2>3 DEF Closed, ClosedAt
    <3> QED
      BY <2>1, <3>1
  <2>4. CASE ~(j[2] <= s)
    <3>1. s \in 1..(j[2] - 1)
      BY <2>1, <2>2, <2>4
    <3> QED
      BY <2>2, <3>1 DEF ClosedBefore
  <2> QED
    BY <2>1, <2>2, <2>3, <2>4
<1>2. ASSUME Shape, NEW j \in Jobs, ~Excused(j[1])
      PROVE  ~con[j[1]].hit /\ Quiet(j[1])
  <2>1. ~con[j[1]].hit /\ \A n \in 1..MaxReq : ~(job[<<j[1], n>>].hints > 0)
    BY <1>2 DEF Excused
  <2>2. j[1] \in Cons /\ asked[j[1]] \in 0..MaxReq /\ MaxReq \in Nat
    BY <1>2, HttpAssumption DEF Shape, Jobs
  <2>3. ASSUME NEW n \in 1..asked[j[1]] PROVE job[<<j[1], n>>].hints = 0
    <3>1. n \in 1..MaxReq /\ <<j[1], n>> \in Jobs
      BY <2>2 DEF Jobs
    <3>2. job[<<j[1], n>>].hints \in Nat
      BY <1>2, <3>1, HttpAssumption DEF Shape
    <3>3. PICK h : h = job[<<j[1], n>>].hints
      OBVIOUS
    <3> QED
      BY <2>1, <3>1, <3>2, <3>3
  <2> QED
    BY <2>1, <2>3 DEF Quiet
<1>3. Shape /\ Closed => AnsweredThenClosed
  BY <1>1, <1>2 DEF AnsweredThenClosed
<1> QED
  BY <1>3, EveryResponse, PTL

\* The faults after which a connection stays open are left out.
Calm == "eagain" \notin Faults /\ "late" \notin Faults

\* Without those faults, a connection that one has hit is closed.
Unhit == \A c \in Cons : con[c].state = "open" => ~con[c].hit

LEMMA UnhitStep ==
  ASSUME Calm, Shape, AtOpen, Unhit, [Next]_vars
  PROVE  Unhit'
<1> SUFFICES ASSUME NEW c \in Cons, con'[c].state = "open"
             PROVE  ~con'[c].hit
  BY DEF Unhit
<1>1. con[c].state = "open" /\ ~con[c].hit
  BY SoundBefore DEF Unhit
<1>2. con \in [Cons -> ConRecords]
  BY DEF Shape
<1>3. ASSUME NEW d \in Cons, NEW s \in Seq(ResIds),
             NEW recycled \in Seq(ResIds), NEW hit,
             Remove(d, s, "dead", recycled, hit)
      PROVE  ~con'[c].hit
  <2>1. PICK front, rest \in Seq(ResIds) :
           Parts(d, s, "dead", recycled, hit, front, rest)
    BY <1>3, RemoveParts
  <2> QED
    BY <1>1, <1>2, <2>1 DEF Parts, ConRecords
<1>4. ASSUME NEW d \in Cons, \E kind, close : ReadRequest(d, kind, close)
      PROVE  ~con'[c].hit
  <2>1. PICK b : con' = [con EXCEPT ![d].closing = b]
    BY <1>4 DEF ReadRequest
  <2> QED
    BY <1>1, <1>2, <2>1 DEF ConRecords
<1>5. ASSUME NEW d \in Cons, \E k \in 1..TextLen : Send(d, k)
      PROVE  ~con'[c].hit
  <2>1. PICK n : con' = [con EXCEPT ![d].wcnt = n]
    BY <1>5 DEF Send
  <2> QED
    BY <1>1, <1>2, <2>1 DEF ConRecords
<1>6. ASSUME NEW d \in Cons, Sent(d) PROVE ~con'[c].hit
  <2>1. /\ list[d] \in Seq(ResIds) /\ <<loop.res>> \in Seq(ResIds)
    BY <1>6, HandMade, SingleRange DEF Sent, Shape
  <2> QED
    BY <1>1, <1>3, <1>6, <2>1 DEF Sent
<1>7. ASSUME NEW d \in Cons,
             ReadClosing(d) \/ SendError(d) \/ Hangup(d) \/ CheckDead(d)
      PROVE  ~con'[c].hit
  <2>1. list[d] \in Seq(ResIds) /\ <<>> \in Seq(ResIds)
    BY EmptyTyped DEF Shape
  <2>2. CASE SendError(d)
    <3>1. list[d] # <<>> /\ Remove(d, Tail(list[d]), "dead", <<>>, TRUE)
      BY <2>2 DEF SendError, Writable, HasText
    <3>2. Tail(list[d]) \in Seq(ResIds)
      BY <2>1, <3>1, TailRange
    <3> QED
      BY <1>3, <2>1, <3>1, <3>2
  <2>3. CASE ReadClosing(d) \/ Hangup(d) \/ CheckDead(d)
    BY <1>3, <2>1, <2>3 DEF ReadClosing, Hangup, CheckDead
  <2> QED
    BY <1>7, <2>2, <2>3
<1>8. ASSUME NEW d \in Cons PROVE ~SendBlocked(d) /\ ~CheckLate(d) /\ ~CheckClosing(d)
  BY DEF Calm, SendBlocked, CheckLate, CheckClosing
<1>9. ASSUME NEW j \in Jobs, EvalStep(j)
      PROVE  ~con'[c].hit
  BY <1>1, <1>9 DEF EvalStep, AddEarly, Respond, Raise, RaisePush
<1>10. ASSUME NEW d \in Cons, ReadEnd(d) PROVE ~con'[c].hit
  BY <1>1, <1>10 DEF ReadEnd
<1>11. CASE UNCHANGED vars
  BY <1>1, <1>11 DEF vars
<1> QED
  BY <1>4, <1>5, <1>6, <1>7, <1>8, <1>9, <1>10, <1>11 DEF Next, EvalStep, Read, Write

InOrder(c) ==
    wire[c] # <<>> =>
        /\ wire[c][1].text.con = c /\ wire[c][1].text.n = 1 /\ wire[c][1].unit = 1
        /\ \A i \in 1..(Len(wire[c]) - 1) : Follows(wire[c][i], wire[c][i + 1])

\* The first unit that send() takes follows the last on the wire, and the others
\* follow it.
LEMMA SendInOrder ==
  ASSUME Shape, NEW c \in Cons, Fine(c), InOrder(c),
         NEW k \in 1..TextLen, Send(c, k)
  PROVE  InOrder(c)'
<1> DEFINE v == wire[c]
           w == wire'[c]
           s == Served(v)
           t == Final(<<c, s + 1>>)
           from == con[c].wcnt
<1>1. /\ from \in 0..(TextLen - 1) /\ from + k <= TextLen
      /\ w \in Seq(Units) /\ Len(w) = Len(v) + k
      /\ \A i \in 1..Len(v) : w[i] = v[i]
      /\ \A i \in 1..k : w[Len(v) + i] = [text |-> t, unit |-> from + i]
      /\ TextLen \in Nat
  BY SendsUnits, HttpAssumption
<1>2. /\ v \in Seq(Units) /\ Len(v) \in Nat /\ s \in Nat
      /\ (v # <<>> => LastUnit(v) \in Units)
  BY ServedNat DEF Shape
<1>3. from = Begun(v)
  BY DEF Fine, InStep
<1>4. t = [con |-> c, n |-> s + 1, kind |-> "final"]
  BY DEF Final
<1>5. w[Len(v) + 1] = [text |-> t, unit |-> from + 1]
  <2>1. 1 \in 1..k
    BY <1>1
  <2> QED
    BY <1>1, <2>1
<1>6. /\ w[1].text.con = c /\ w[1].text.n = 1 /\ w[1].unit = 1
  <2>1. CASE v = <<>>
    <3>1. s = 0 /\ from = 0 /\ Len(v) = 0
      BY <1>3, <2>1 DEF Served, Begun, Whole
    <3>2. w[1] = [text |-> t, unit |-> 1]
      BY <1>5, <3>1
    <3> QED
      BY <1>4, <3>1, <3>2
  <2>2. CASE v # <<>>
    <3>1. 1 \in 1..Len(v)
      BY <1>2, <2>2, EmptySeq
    <3> QED
      BY <1>1, <2>2, <3>1 DEF InOrder
  <2> QED
    BY <2>1, <2>2
<1>7. ASSUME v # <<>>
      PROVE  Follows(v[Len(v)], w[Len(v) + 1])
  <2>1. Len(v) \in 1..Len(v)
    BY <1>2, <1>7, EmptySeq
  <2>2. PICK a : a = v[Len(v)]
    OBVIOUS
  <2>3. /\ a = LastUnit(v) /\ a \in Units
        /\ a.text.con = c /\ a.text.kind = "final"
    BY <1>2, <1>7, <2>1, <2>2 DEF LastUnit, Fine, InStep
  <2>4. PICK b : b = w[Len(v) + 1]
    OBVIOUS
  <2>5. b.text = t /\ b.unit = from + 1
    BY <1>5, <2>4
  <2>6. a.text \in Texts /\ a.unit \in 1..TextLen /\ a.text.n \in Nat
    BY <2>3 DEF Units, Texts
  <2>7. CASE a.unit = TextLen
    <3>1. s = a.text.n /\ from = 0
      BY <1>3, <1>7, <2>3, <2>7 DEF Served, Begun, Whole
    <3> QED
      BY <1>4, <2>2, <2>3, <2>4, <2>5, <2>7, <3>1 DEF Follows
  <2>8. CASE a.unit # TextLen
    <3>1. s = a.text.n - 1 /\ from = a.unit
      BY <1>3, <1>7, <2>3, <2>8 DEF Served, Begun, Whole
    <3>2. s + 1 = a.text.n
      BY <1>2, <2>6, <3>1
    <3>3. a.text = t
      BY <1>4, <2>3, <2>6, <3>2 DEF Texts
    <3> QED
      BY <1>4, <2>2, <2>3, <2>4, <2>5, <3>1, <3>3 DEF Follows
  <2> QED
    BY <2>7, <2>8
<1>8. ASSUME NEW i \in 1..(k - 1)
      PROVE  Follows(w[Len(v) + i], w[Len(v) + (i + 1)])
  <2>1. i \in 1..k /\ i + 1 \in 1..k /\ from + (i + 1) = (from + i) + 1
    <3>1. PICK f : f = from
      OBVIOUS
    <3>2. f \in Nat /\ k \in Nat
      BY <1>1, <3>1
    <3> QED
      BY <3>1, <3>2
  <2>2. PICK a, b : a = w[Len(v) + i] /\ b = w[Len(v) + (i + 1)]
    OBVIOUS
  <2>3. a = [text |-> t, unit |-> from + i] /\ b = [text |-> t, unit |-> from + (i + 1)]
    BY <1>1, <2>1, <2>2
  <2> HIDE DEF t, from
  <2>4. a.text = t /\ b.text = t /\ b.unit = a.unit + 1
    BY <2>1, <2>3
  <2> QED
    BY <2>2, <2>4 DEF Follows
<1> HIDE DEF v, w, s, t, from
<1>9. ASSUME NEW i \in 1..(Len(w) - 1) PROVE Follows(w[i], w[i + 1])
  <2>1. CASE i < Len(v)
    <3>1. i \in 1..(Len(v) - 1) /\ i \in 1..Len(v) /\ i + 1 \in 1..Len(v) /\ v # <<>>
      BY <1>2, <2>1, EmptySeq
    <3>2. Follows(v[i], v[i + 1])
      BY <3>1 DEF InOrder, v
    <3> QED
      BY <1>1, <3>1, <3>2
  <2>2. CASE i = Len(v)
    <3>1. v # <<>> /\ i \in 1..Len(v)
      BY <1>2, <2>2, EmptySeq
    <3> QED
      BY <1>1, <1>7, <2>2, <3>1
  <2>3. CASE i > Len(v)
    <3>1. PICK m \in 1..(k - 1) : i = Len(v) + m /\ i + 1 = Len(v) + (m + 1)
      <4>1. /\ i - Len(v) \in 1..(k - 1) /\ i = Len(v) + (i - Len(v))
            /\ i + 1 = Len(v) + ((i - Len(v)) + 1)
        BY <1>1, <1>2, <2>3
      <4> QED
        BY <4>1
    <3> QED
      BY <1>8, <3>1
  <2> QED
    BY <1>2, <2>1, <2>2, <2>3
<1> QED
  BY <1>6, <1>9 DEF InOrder, w

LEMMA InOrderStep ==
  ASSUME MaxHints = 0, Shape, AtOpen, Unhit, Ordered, WireInOrder, [Next]_vars
  PROVE  WireInOrder'
<1>1. WireInOrder <=> \A c \in Cons : InOrder(c)
  BY DEF WireInOrder, InOrder
<1>2. WireInOrder' <=> \A c \in Cons : InOrder(c)'
  BY DEF WireInOrder, InOrder
<1>3. CASE UNCHANGED wire
  BY <1>3 DEF WireInOrder, Follows
<1>4. ASSUME NEW d \in Cons, NEW k \in 1..TextLen, Send(d, k),
             NEW c \in Cons
      PROVE  InOrder(c)'
  <2>1. Fine(d)
    <3>1. con[d].state = "open"
      BY <1>4 DEF Send, Writable
    <3>2. ~con[d].hit
      BY <3>1 DEF Unhit
    <3>3. Quiet(d)
      <4>1. asked[d] \in 0..MaxReq /\ MaxReq \in Nat
        BY HttpAssumption DEF Shape
      <4>2. \A n \in 1..asked[d] : <<d, n>> \in Jobs
        BY <4>1 DEF Jobs
      <4>3. \A j \in Jobs : job[j].hints \in 0..0
        BY DEF Shape
      <4> QED
        BY <4>2, <4>3 DEF Quiet
    <3> QED
      BY <3>1, <3>2, <3>3 DEF Ordered, Sound
  <2>2. CASE c = d
    BY <1>1, <1>4, <2>1, <2>2, SendInOrder
  <2>3. CASE c # d
    <3>1. wire'[c] = wire[c]
      BY <1>4, <2>3 DEF Send, Shape
    <3> QED
      BY <1>1, <3>1 DEF InOrder
  <2> QED
    BY <2>2, <2>3
<1>5. UNCHANGED wire \/ \E d \in Cons : \E k \in 1..TextLen : Send(d, k)
  <2>1. ASSUME NEW d \in Cons, Read(d) PROVE UNCHANGED wire
    BY <2>1 DEF Read, ReadClosing, ReadEnd, ReadRequest
  <2>2. ASSUME NEW d \in Cons, Sent(d) \/ SendBlocked(d) \/ SendError(d)
        PROVE  UNCHANGED wire
    BY <2>2 DEF Sent, SendBlocked, SendError
  <2>3. ASSUME NEW d \in Cons,
               Hangup(d) \/ CheckDead(d) \/ CheckLate(d) \/ CheckClosing(d)
        PROVE  UNCHANGED wire
    BY <2>3 DEF Hangup, CheckDead, CheckLate, CheckClosing
  <2>4. ASSUME NEW j \in Jobs, EvalStep(j)
        PROVE  UNCHANGED wire
    BY <2>4 DEF EvalStep, AddEarly, Respond, Raise, RaisePush
  <2>5. CASE UNCHANGED vars
    BY <2>5 DEF vars
  <2> QED
    BY <2>1, <2>2, <2>3, <2>4, <2>5 DEF Next, EvalStep, Write
<1> QED
  BY <1>2, <1>3, <1>4, <1>5

\* Without early hints and without the faults that leave a connection open, and,
\* with several connections, without requests that have theirs closed and
\* handlers that raise, a client is sent the responses to its own requests in
\* the order of the requests, each whole and once, however the eval threads
\* finish and send() splits them, and whatever else happens to this connection
\* or to others (con.c:664-738).
THEOREM ResponsesInOrder ==
  ASSUME MaxHints = 0, Apart, Calm
  PROVE  Spec => []WireInOrder
<1>1. Init => Unhit /\ WireInOrder
  BY DEF Init, Unhit, WireInOrder
<1>2. Shape /\ AtOpen /\ Unhit /\ Ordered /\ WireInOrder /\ [Next]_vars
         => Unhit' /\ WireInOrder'
  BY UnhitStep, InOrderStep
<1> QED
  BY <1>1, <1>2, EveryResponse, PTL DEF Spec
=============================================================================
