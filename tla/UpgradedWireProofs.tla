------------------------- MODULE UpgradedWireProofs -------------------------
(***************************************************************************)
(* The wire of an upgraded connection carries what the calls have asked    *)
(* for, for any numbers of connections, loops, Ruby threads and calls.     *)
(*                                                                         *)
(* A call is logged and put in the queue of each loop.  The loop of the    *)
(* connection pops it, or walks over up_list on its behalf, and puts a     *)
(* text in the list of responses, which Write sends.  WInv follows a       *)
(* message on that way.  The proof has one lemma for each of the places:   *)
(* the list of records, the queues, the list of responses, the wire; and   *)
(* then one for each action, on top of the invariant of UpgradedProofs.    *)
(***************************************************************************)
EXTENDS UpgradedProofs

-----------------------------------------------------------------------------
(* The invariant *)

\* The loop l has popped the publication n.
Seen(l, n) == n \in DOMAIN log /\ \A i \in DOMAIN pubs[l] : pubs[l][i].n # n

Text(u, i) == i \in DOMAIN out[u] /\ out[u][i].kind = "text"
Sent(u, n) == \E k \in DOMAIN wire[u] : wire[u][k] = n
Waits(u, n) == \E i \in DOMAIN out[u] : Text(u, i) /\ out[u][i].n = n
Carried(u, n) == Sent(u, n) \/ Waits(u, n)

\* The walk of l has not come past u.  It is lost at a record that is freed.
Walks(l) == at[l].at = "walk"
Ahead(l, u) ==
    \E i, j \in DOMAIN list : i <= j /\ list[i] = at[l].up /\ list[j] = u
Lost(l) == at[l].up \notin Live

\* Each call is logged under its number, for a connection that was upgraded.
Logged ==
    \A n \in DOMAIN log :
        /\ log[n].n = n
        /\ IF log[n].kind = "publish" THEN log[n].up = NULL ELSE log[n].up \in opened

\* A queue holds the last of the log, and closes of callbacks in between.
Holds(l) ==
    \A i \in DOMAIN pubs[l] :
        IF pubs[l][i].n = 0 THEN pubs[l][i].kind = "close"
        ELSE pubs[l][i].n \in DOMAIN log /\ pubs[l][i] = log[pubs[l][i].n]
Ordered(l) ==
    \A i, j \in DOMAIN pubs[l] :
        i < j /\ pubs[l][i].n # 0 /\ pubs[l][j].n # 0 => pubs[l][i].n < pubs[l][j].n
Gapless(l) == \A n \in DOMAIN log : \A m \in 1..n : Seen(l, n) => Seen(l, m)
Queues == \A l \in Loops : Holds(l) /\ Ordered(l) /\ Gapless(l)

\* A walk is on behalf of the last publication the loop has popped.
Walking ==
    \A l \in Loops : Walks(l) =>
        /\ at[l].up \in opened
        /\ Seen(l, at[l].n) /\ log[at[l].n].kind = "publish"
        /\ \A n \in DOMAIN log : Seen(l, n) => n <= at[l].n

\* What was sent and what waits is in order ...
InOrder(u) ==
    /\ \A i, j \in DOMAIN out[u] :
          i < j /\ Text(u, i) /\ Text(u, j) => out[u][i].n < out[u][j].n
    /\ \A k \in DOMAIN wire[u], i \in DOMAIN out[u] :
          Text(u, i) => wire[u][k] < out[u][i].n

\* ... and was popped, by a walk only where it has been.
Behind(u) ==
    \A n \in 1..MaxCalls : Carried(u, n) =>
        /\ Seen(Owner[u], n)
        /\ Walks(Owner[u]) /\ Ahead(Owner[u], u) => n < at[Owner[u]].n

\* The record is subscribed if the last such call that was popped says so.
Joined(u) ==
    \E i \in DOMAIN log :
        /\ Seen(Owner[u], i) /\ Asked(i, u, "subscribe")
        /\ \A j \in DOMAIN log : j > i /\ Seen(Owner[u], j) => ~Asked(j, u, "unsubscribe")
Agrees(u) == up[u].subscribed <=> Joined(u)

\* A close that was popped waits, and a text before it was asked for.
Ends(u) ==
    /\ \A n \in DOMAIN log : Seen(Owner[u], n) /\ Asked(n, u, "close") =>
          \E i \in DOMAIN out[u] : out[u][i].kind = "close"
    /\ \A i \in DOMAIN out[u] :
          Text(u, i) /\ (\A j \in 1..i : out[u][j].kind # "close") =>
              out[u][i].n \in Expected(u)

\* What was asked for and popped is there, unless a walk has yet to bring it.
Complete(u) ==
    \A n \in Expected(u) : Seen(Owner[u], n) =>
        \/ Carried(u, n)
        \/ /\ Walks(Owner[u]) /\ n = at[Owner[u]].n
           /\ Ahead(Owner[u], u) \/ Lost(Owner[u])

Flow(u) == InOrder(u) /\ Behind(u) /\ Agrees(u) /\ Ends(u) /\ Complete(u)
Flows == \A u \in Ups : con[u] = "open" => Flow(u)

WInv == Logged /\ Queues /\ Walking /\ Flows /\ WireAsCalled

\* The types that the steps need, once for all.
WireShape ==
    /\ log \in Seq(Pub) /\ Len(log) \in Nat /\ Len(log) <= MaxCalls
    /\ DOMAIN log = 1..Len(log)
    /\ list \in Seq(Ups) /\ Len(list) \in Nat /\ DOMAIN list = 1..Len(list)
    /\ IsInjective(list) /\ Live \subseteq opened /\ opened \subseteq Ups
    /\ \A u \in Ups : /\ out[u] \in Seq(Responses) /\ Len(out[u]) \in Nat
                      /\ DOMAIN out[u] = 1..Len(out[u])
                      /\ wire[u] \in Seq(1..MaxCalls) /\ Len(wire[u]) \in Nat
                      /\ DOMAIN wire[u] = 1..Len(wire[u])
    /\ \A l \in Loops : /\ pubs[l] \in Seq(Entries) /\ Len(pubs[l]) \in Nat
                        /\ DOMAIN pubs[l] = 1..Len(pubs[l])
                        /\ at[l] \in Visits

LEMMA WireTypes == Inv => WireShape
<1> SUFFICES ASSUME Inv PROVE WireShape
  OBVIOUS
<1>1. ConShape /\ UpShape /\ QueueShape /\ CallShape
  BY DEF Inv, Shape
<1>2. log \in Seq(Pub) /\ Len(log) \in Nat /\ DOMAIN log = 1..Len(log)
  BY <1>1, LenProperties DEF CallShape
<1>3. Len(log) <= MaxCalls
  <2>1. IsFiniteSet(Busy)
    BY UpgradedAssumption, FS_Subset DEF Busy
  <2>2. Cardinality(Busy) \in Nat
    BY <2>1, FS_CardinalityType
  <2> QED
    BY <1>1, <1>2, <2>2, UpgradedAssumption DEF CallShape
<1>4. list \in Seq(Ups) /\ Len(list) \in Nat /\ DOMAIN list = 1..Len(list)
  BY <1>1, LenProperties DEF UpShape
<1>5. IsInjective(list) /\ Live \subseteq opened /\ opened \subseteq Ups
  BY <1>1, LiveRange DEF UpShape
<1>6. ASSUME NEW u \in Ups
      PROVE  /\ out[u] \in Seq(Responses) /\ Len(out[u]) \in Nat
             /\ DOMAIN out[u] = 1..Len(out[u])
             /\ wire[u] \in Seq(1..MaxCalls) /\ Len(wire[u]) \in Nat
             /\ DOMAIN wire[u] = 1..Len(wire[u])
  BY <1>1, LenProperties DEF ConShape
<1>7. ASSUME NEW l \in Loops
      PROVE  /\ pubs[l] \in Seq(Entries) /\ Len(pubs[l]) \in Nat
             /\ DOMAIN pubs[l] = 1..Len(pubs[l])
             /\ at[l] \in Visits
  BY <1>1, LenProperties DEF QueueShape
<1> QED
  BY <1>2, <1>3, <1>4, <1>5, <1>6, <1>7 DEF WireShape

LEMMA WireTypesNext == Inv' => WireShape'
BY WireTypes, PTL

-----------------------------------------------------------------------------
(* The list of records *)

\* The places of the records when one is taken out.
LEMMA WithoutPlaces ==
  ASSUME list \in Seq(Ups), NEW w \in Live
  PROVE  \E i \in 1..Len(list) :
            /\ list[i] = w
            /\ DOMAIN Without(w) = 1..(Len(list) - 1)
            /\ \A k \in 1..(Len(list) - 1) :
                  Without(w)[k] = IF k < i THEN list[k] ELSE list[k + 1]
<1> DEFINE i == CHOOSE j \in DOMAIN list : list[j] = w
<1>1. i \in 1..Len(list) /\ list[i] = w /\ Len(list) \in Nat
  BY LenProperties DEF Live
<1>2. Without(w) = SubSeq(list, 1, i - 1) \o SubSeq(list, i + 1, Len(list))
  BY DEF Without
<1> HIDE DEF i
<1>3. PICK a, b : a = SubSeq(list, 1, i - 1) /\ b = SubSeq(list, i + 1, Len(list))
  OBVIOUS
<1>4. /\ a \in Seq(Ups) /\ Len(a) = i - 1
      /\ \A k \in 1..(i - 1) : a[k] = list[k]
  <2>1. PICK m \in 0..Len(list) : m = i - 1
    BY <1>1
  <2>2. /\ SubSeq(list, 1, m) \in Seq(Ups) /\ Len(SubSeq(list, 1, m)) = m
        /\ \A k \in 1..m : SubSeq(list, 1, m)[k] = list[k]
    <3>1. 1 \in 1..(Len(list) + 1) /\ (IF 1 <= m THEN m - 1 + 1 ELSE 0) = m
      BY <1>1, <2>1
    <3>2. /\ SubSeq(list, 1, m) \in Seq(Ups)
          /\ Len(SubSeq(list, 1, m)) = IF 1 <= m THEN m - 1 + 1 ELSE 0
          /\ \A k \in 1..Len(SubSeq(list, 1, m)) :
                SubSeq(list, 1, m)[k] = list[1 + k - 1]
      BY <3>1, PartRange
    <3>3. \A k \in 1..m : 1 + k - 1 = k
      BY <2>1
    <3> QED
      BY <3>1, <3>2, <3>3
  <2> QED
    BY <1>3, <2>1, <2>2
<1>5. /\ b \in Seq(Ups) /\ Len(b) = Len(list) - i
      /\ \A k \in 1..(Len(list) - i) : b[k] = list[i + k]
  BY <1>1, <1>3, CutRange
<1>6. /\ a \o b \in Seq(Ups) /\ Len(a \o b) = (i - 1) + (Len(list) - i)
      /\ \A k \in 1..(Len(a) + Len(b)) :
            (a \o b)[k] = IF k <= Len(a) THEN a[k] ELSE b[k - Len(a)]
  <2>1. a \in Seq(Ups) /\ b \in Seq(Ups)
    BY <1>4, <1>5
  <2>2. /\ a \o b \in Seq(Ups) /\ Len(a \o b) = Len(a) + Len(b)
        /\ \A k \in 1..(Len(a) + Len(b)) :
              (a \o b)[k] = IF k <= Len(a) THEN a[k] ELSE b[k - Len(a)]
    BY <2>1, ConcatProperties
  <2> QED
    BY <1>4, <1>5, <2>2
<1>7. PICK s : s = a \o b
  OBVIOUS
<1>8. DOMAIN s = 1..(Len(list) - 1)
  BY <1>1, <1>6, <1>7, LenProperties
<1>9. ASSUME NEW k \in 1..(Len(list) - 1)
      PROVE  s[k] = IF k < i THEN list[k] ELSE list[k + 1]
  <2>1. s[k] = IF k <= i - 1 THEN a[k] ELSE b[k - (i - 1)]
    BY <1>1, <1>4, <1>5, <1>6, <1>7
  <2>2. CASE k < i
    BY <1>1, <1>4, <2>1, <2>2
  <2>3. CASE ~(k < i)
    <3>1. k - (i - 1) \in 1..(Len(list) - i) /\ i + (k - (i - 1)) = k + 1
      BY <1>1, <2>3
    <3> QED
      BY <1>1, <1>5, <2>1, <2>3, <3>1
  <2> QED
    BY <2>2, <2>3
<1> QED
  BY <1>1, <1>2, <1>3, <1>7, <1>8, <1>9

\* What an action does to the list.
Relisted ==
    \/ list' = list
    \/ \E w \in Ups : list' = Without(w)
    \/ \E w \in Ups : w \notin opened /\ list' = <<w>> \o list

\* A walk that goes on stays ahead of the records it was ahead of.
LEMMA AheadKept ==
  ASSUME Inv, Relisted, NEW l \in Loops, at'[l] = at[l], at[l].up \in opened,
         NEW u \in Ups, u \in Live => u \in Live'
  PROVE  /\ Ahead(l, u)' => Ahead(l, u)
         /\ Ahead(l, u) => Ahead(l, u)' \/ Lost(l)'
         /\ Lost(l) => Lost(l)'
<1>1. /\ list \in Seq(Ups) /\ Len(list) \in Nat /\ DOMAIN list = 1..Len(list)
      /\ IsInjective(list) /\ Live \subseteq opened
  BY WireTypes DEF WireShape
<1>2. PICK x : x = at[l].up /\ x = at'[l].up /\ x \in opened
  OBVIOUS
<1>3. /\ Ahead(l, u) <=> \E i, j \in DOMAIN list : i <= j /\ list[i] = x /\ list[j] = u
      /\ Ahead(l, u)' <=> \E i, j \in DOMAIN list' : i <= j /\ list'[i] = x /\ list'[j] = u
      /\ Lost(l) <=> x \notin Live
      /\ Lost(l)' <=> x \notin Live'
  BY <1>2 DEF Ahead, Lost
<1>4. CASE list' = list
  BY <1>3, <1>4 DEF Live
<1>5. ASSUME NEW w \in Ups, w \notin Live, list' = Without(w)
      PROVE  list' = list
  BY <1>5 DEF Without
<1>6. ASSUME NEW w \in Live, list' = Without(w)
      PROVE  /\ Ahead(l, u)' => Ahead(l, u)
             /\ Ahead(l, u) => Ahead(l, u)' \/ Lost(l)'
             /\ Lost(l) => Lost(l)'
  <2>1. PICK n \in 1..Len(list) :
            /\ list[n] = w
            /\ DOMAIN list' = 1..(Len(list) - 1)
            /\ \A k \in 1..(Len(list) - 1) :
                  list'[k] = IF k < n THEN list[k] ELSE list[k + 1]
    BY <1>1, <1>6, WithoutPlaces
  <2> DEFINE old(k) == IF k < n THEN k ELSE k + 1
             new(k) == IF k < n THEN k ELSE k - 1
  <2>2. \A k \in 1..(Len(list) - 1) : old(k) \in 1..Len(list) /\ list'[k] = list[old(k)]
    BY <1>1, <2>1
  <2>3. \A k, m \in 1..(Len(list) - 1) : k <= m => old(k) <= old(m)
    BY <1>1, <2>1
  <2>4. \A k \in 1..Len(list) : list[k] # w =>
            new(k) \in 1..(Len(list) - 1) /\ list'[new(k)] = list[k]
    <3>1. SUFFICES ASSUME NEW k \in 1..Len(list), list[k] # w
                   PROVE  new(k) \in 1..(Len(list) - 1) /\ list'[new(k)] = list[k]
      OBVIOUS
    <3>2. k # n
      BY <2>1, <3>1
    <3>3. CASE k < n
      BY <1>1, <2>1, <3>3
    <3>4. CASE k > n
      <4>1. k - 1 \in 1..(Len(list) - 1) /\ ~(k - 1 < n) /\ (k - 1) + 1 = k
        BY <1>1, <2>1, <3>4
      <4> QED
        BY <2>1, <3>4, <4>1
    <3> QED
      BY <1>1, <2>1, <3>2, <3>3, <3>4
  <2>5. \A k, m \in 1..Len(list) : k <= m => new(k) <= new(m)
    BY <1>1, <2>1
  <2> HIDE DEF old, new
  <2>6. ASSUME Ahead(l, u)' PROVE Ahead(l, u)
    <3>1. PICK i \in DOMAIN list', j \in DOMAIN list' :
             i <= j /\ list'[i] = x /\ list'[j] = u
      BY <1>3, <2>6
    <3>2. /\ old(i) \in DOMAIN list /\ old(j) \in DOMAIN list
          /\ old(i) <= old(j) /\ list[old(i)] = x /\ list[old(j)] = u
      BY <1>1, <2>1, <2>2, <2>3, <3>1
    <3> QED
      BY <1>3, <3>2
  <2>7. ASSUME Ahead(l, u), ~Lost(l)' PROVE Ahead(l, u)'
    <3>1. PICK i \in DOMAIN list, j \in DOMAIN list :
             i <= j /\ list[i] = x /\ list[j] = u
      BY <1>3, <2>7
    <3>2. u \in Live
      BY <3>1 DEF Live
    <3>3. w \notin Live'
      <4>1. w \in Ups
        BY <1>6, LiveRange, WireTypes DEF WireShape
      <4>2. Range(Without(w)) = Live \ {w}
        BY <4>1, Unlinked DEF Inv, Shape
      <4>3. Live' = Range(list')
        BY DEF Live, Range
      <4> QED
        BY <1>6, <4>2, <4>3
    <3>4. x # w /\ u # w
      BY <1>3, <2>7, <3>2, <3>3
    <3>5. /\ new(i) \in DOMAIN list' /\ new(j) \in DOMAIN list'
          /\ new(i) <= new(j) /\ list'[new(i)] = x /\ list'[new(j)] = u
      BY <1>1, <2>1, <2>4, <2>5, <3>1, <3>4
    <3> QED
      BY <1>3, <3>5
  <2>8. ASSUME x \in Live' PROVE x \in Live
    <3>1. PICK i \in DOMAIN list' : x = list'[i]
      BY <2>8 DEF Live
    <3>2. old(i) \in DOMAIN list /\ x = list[old(i)]
      BY <1>1, <2>1, <2>2, <3>1
    <3> QED
      BY <3>2 DEF Live
  <2> QED
    BY <1>3, <2>6, <2>7, <2>8
<1>7. ASSUME NEW w \in Ups, w \notin opened, list' = <<w>> \o list
      PROVE  /\ Ahead(l, u)' => Ahead(l, u)
             /\ Ahead(l, u) => Ahead(l, u)' \/ Lost(l)'
             /\ Lost(l) => Lost(l)'
  <2>1. /\ DOMAIN list' = 1..(Len(list) + 1) /\ list'[1] = w
        /\ \A k \in 1..Len(list) : list'[k + 1] = list[k]
    <3>1. PICK s \in Seq(Ups) : s = <<w>> /\ Len(s) = 1 /\ s[1] = w
      BY SingleRange
    <3>2. /\ s \o list \in Seq(Ups) /\ Len(s \o list) = 1 + Len(list)
          /\ \A k \in 1..(1 + Len(list)) :
                (s \o list)[k] = IF k <= 1 THEN s[k] ELSE list[k - 1]
      BY <1>1, <3>1, ConcatProperties
    <3>3. list' = s \o list
      BY <1>7, <3>1
    <3>4. DOMAIN list' = 1..(Len(list) + 1)
      BY <1>1, <3>2, <3>3, LenProperties
    <3>5. list'[1] = w
      BY <1>1, <3>1, <3>2, <3>3
    <3>6. ASSUME NEW k \in 1..Len(list) PROVE list'[k + 1] = list[k]
      <4>1. k + 1 \in 1..(1 + Len(list)) /\ ~(k + 1 <= 1) /\ (k + 1) - 1 = k
        BY <1>1
      <4> QED
        BY <3>2, <3>3, <4>1
    <3> QED
      BY <3>4, <3>5, <3>6
  <2>2. ASSUME NEW k \in 1..(Len(list) + 1), list'[k] = x
        PROVE  k # 1 /\ k - 1 \in 1..Len(list) /\ list[k - 1] = x
    <3>1. k # 1
      BY <1>2, <1>7, <2>1, <2>2
    <3>2. k - 1 \in 1..Len(list) /\ (k - 1) + 1 = k
      BY <1>1, <3>1
    <3> QED
      BY <2>1, <2>2, <3>1, <3>2
  <2>3. ASSUME Ahead(l, u)' PROVE Ahead(l, u)
    <3>1. PICK i \in DOMAIN list', j \in DOMAIN list' :
             i <= j /\ list'[i] = x /\ list'[j] = u
      BY <1>3, <2>3
    <3>2. i # 1 /\ i - 1 \in 1..Len(list) /\ list[i - 1] = x
      BY <2>1, <2>2, <3>1
    <3>3. j - 1 \in 1..Len(list) /\ (j - 1) + 1 = j /\ i - 1 <= j - 1
      BY <1>1, <2>1, <3>1, <3>2
    <3>4. list[j - 1] = u
      BY <2>1, <3>1, <3>3
    <3> QED
      BY <1>1, <1>3, <3>2, <3>3, <3>4
  <2>4. ASSUME Ahead(l, u) PROVE Ahead(l, u)'
    <3>1. PICK i \in DOMAIN list, j \in DOMAIN list :
             i <= j /\ list[i] = x /\ list[j] = u
      BY <1>3, <2>4
    <3>2. /\ i + 1 \in DOMAIN list' /\ j + 1 \in DOMAIN list'
          /\ i + 1 <= j + 1 /\ list'[i + 1] = x /\ list'[j + 1] = u
      BY <1>1, <2>1, <3>1
    <3> QED
      BY <1>3, <3>2
  <2>5. ASSUME x \in Live' PROVE x \in Live
    <3>1. PICK i \in DOMAIN list' : x = list'[i]
      BY <2>5 DEF Live
    <3>2. i - 1 \in DOMAIN list /\ list[i - 1] = x
      BY <1>1, <2>1, <2>2, <3>1
    <3> QED
      BY <3>2 DEF Live
  <2> QED
    BY <1>3, <2>3, <2>4, <2>5
<1> QED
  BY <1>4, <1>5, <1>6, <1>7 DEF Relisted

-----------------------------------------------------------------------------
(* The log and the queues *)

\* The log only grows.
LogGrows == \A n \in DOMAIN log : n \in DOMAIN log' /\ log'[n] = log[n]

\* What was asked for by the calls so far stays.
LEMMA ExpectedKept ==
  ASSUME Inv, LogGrows, NEW u, NEW n \in DOMAIN log
  PROVE  /\ \A i \in 1..n : \A v, kind : Asked(i, v, kind)' <=> Asked(i, v, kind)
         /\ n \in Expected(u)' <=> n \in Expected(u)
<1>1. DOMAIN log = 1..Len(log) /\ Len(log) \in Nat
  BY WireTypes DEF WireShape
<1>2. \A i \in 1..n : i \in DOMAIN log /\ i \in DOMAIN log' /\ log'[i] = log[i]
  BY <1>1 DEF LogGrows
<1>3. \A i \in 1..n : \A v, kind : Asked(i, v, kind)' <=> Asked(i, v, kind)
  BY <1>2 DEF Asked
<1>4. n \in 1..n /\ n \in DOMAIN log' /\ 1..(n - 1) \subseteq 1..n
  BY <1>1, <1>2
<1>5. Subscribed(u, n)' <=> Subscribed(u, n)
  <2>1. \A i \in 1..n : \A j \in (i + 1)..n : j \in 1..n
    BY <1>1
  <2> QED
    BY <1>3, <2>1 DEF Subscribed
<1>6. n \in Expected(u)' <=> n \in Expected(u)
  BY <1>3, <1>4, <1>5 DEF Expected
<1> QED
  BY <1>3, <1>6

\* A wire that was right stays right when calls are added.
LEMMA WireKept ==
  ASSUME Inv, Inv', LogGrows, WireAsCalled, wire' = wire
  PROVE  WireAsCalled'
<1>1. DOMAIN log = 1..Len(log) /\ Len(log) \in Nat
  BY WireTypes DEF WireShape
<1>2. DOMAIN log' = 1..Len(log') /\ Len(log') \in Nat
  BY WireTypesNext DEF WireShape
<1>3. SUFFICES ASSUME NEW u \in Ups, NEW k \in DOMAIN wire[u]
               PROVE  /\ wire[u][k] \in Expected(u)'
                      /\ \A i \in 1..(k - 1) : wire[u][i] < wire[u][k]
                      /\ \A n \in Expected(u)' :
                            n < wire[u][k] => \E i \in 1..(k - 1) : wire[u][i] = n
  BY DEF WireAsCalled
<1>4. /\ wire[u][k] \in Expected(u)
      /\ \A i \in 1..(k - 1) : wire[u][i] < wire[u][k]
      /\ \A n \in Expected(u) :
            n < wire[u][k] => \E i \in 1..(k - 1) : wire[u][i] = n
  BY DEF WireAsCalled
<1>5. wire[u][k] \in DOMAIN log
  BY <1>4 DEF Expected
<1>6. wire[u][k] \in Expected(u)'
  BY <1>4, <1>5, ExpectedKept
<1>7. ASSUME NEW n \in Expected(u)', n < wire[u][k] PROVE n \in Expected(u)
  <2>1. n \in DOMAIN log'
    BY DEF Expected
  <2>2. n \in DOMAIN log
    BY <1>1, <1>2, <1>5, <1>7, <2>1
  <2> QED
    BY <2>2, ExpectedKept
<1> QED
  BY <1>4, <1>6, <1>7

\* The queues of the other loops, and all where nothing is put or popped.
LEMMA QueueKept ==
  ASSUME NEW l \in Loops, LogGrows, log' = log, pubs'[l] = pubs[l]
  PROVE  /\ Holds(l) => Holds(l)'
         /\ Ordered(l) => Ordered(l)'
         /\ Gapless(l) => Gapless(l)'
         /\ \A n : Seen(l, n)' <=> Seen(l, n)
<1>1. \A n : Seen(l, n)' <=> Seen(l, n)
  BY DEF Seen
<1> QED
  BY <1>1 DEF Holds, Ordered, Gapless

\* The next publication is popped.
LEMMA QueuePop ==
  ASSUME Inv, Queues, NEW l \in Loops, pubs[l] # <<>>, Popped(l), log' = log,
         NEW p, p = Head(pubs[l])
  PROVE  /\ Queues'
         /\ \A k \in Loops : k # l => \A n : Seen(k, n)' <=> Seen(k, n)
         /\ \A n : Seen(l, n)' <=> Seen(l, n) \/ (p.n # 0 /\ n = p.n)
         /\ p.n # 0 => /\ p.n \in DOMAIN log /\ p = log[p.n]
                       /\ \A m \in DOMAIN log : Seen(l, m) <=> m < p.n
         /\ p.n = 0 => p.kind = "close"
<1>1. /\ pubs[l] \in Seq(Entries) /\ Len(pubs[l]) \in Nat
      /\ DOMAIN pubs[l] = 1..Len(pubs[l])
      /\ DOMAIN log = 1..Len(log) /\ Len(log) \in Nat
  BY WireTypes DEF WireShape
<1>2. PICK s \in Seq(Entries), t \in Seq(Entries) :
        /\ s = pubs[l] /\ t = pubs'[l] /\ p = s[1]
        /\ Len(s) \in Nat \ {0} /\ Len(t) = Len(s) - 1
        /\ DOMAIN s = 1..Len(s) /\ DOMAIN t = 1..Len(t)
        /\ \A i \in 1..Len(t) : t[i] = s[i + 1]
  <2>1. pubs' = [pubs EXCEPT ![l] = Tail(pubs[l])]
    BY DEF Popped
  <2>2. pubs \in [Loops -> Seq(Entries)]
    BY DEF Inv, Shape, QueueShape
  <2>3. pubs'[l] = Tail(pubs[l])
    BY <2>1, <2>2
  <2>4. /\ Len(pubs[l]) \in Nat \ {0} /\ Head(pubs[l]) = pubs[l][1]
        /\ Tail(pubs[l]) \in Seq(Entries) /\ Len(Tail(pubs[l])) = Len(pubs[l]) - 1
        /\ \A i \in 1..Len(Tail(pubs[l])) : Tail(pubs[l])[i] = pubs[l][i + 1]
    BY <1>1, TailRange
  <2>5. DOMAIN pubs'[l] = 1..Len(pubs'[l])
    BY <2>3, <2>4, LenProperties
  <2> QED
    BY <1>1, <2>3, <2>4, <2>5
<1>3. \A k \in Loops : k # l => pubs'[k] = pubs[k]
  BY DEF Popped, Inv, Shape, QueueShape
<1>4. Holds(l) /\ Ordered(l) /\ Gapless(l)
  BY DEF Queues
<1>5. \A i \in 1..Len(s) : IF s[i].n = 0 THEN s[i].kind = "close"
                           ELSE s[i].n \in DOMAIN log /\ s[i] = log[s[i].n]
  BY <1>2, <1>4 DEF Holds
<1>6. \A i, j \in 1..Len(s) :
         i < j /\ s[i].n # 0 /\ s[j].n # 0 => s[i].n < s[j].n
  BY <1>2, <1>4 DEF Ordered
<1>7. \A n : Seen(l, n) <=> n \in DOMAIN log /\ \A i \in 1..Len(s) : s[i].n # n
  BY <1>2 DEF Seen
<1>8. \A n : Seen(l, n)' <=> n \in DOMAIN log /\ \A i \in 1..Len(t) : t[i].n # n
  BY <1>2 DEF Seen
<1>9. 0 \notin DOMAIN log
  BY <1>1
<1>10. \A n : Seen(l, n) => Seen(l, n)'
  <2>1. \A i \in 1..Len(t) : i + 1 \in 1..Len(s)
    BY <1>2
  <2>2. ASSUME NEW n, Seen(l, n) PROVE Seen(l, n)'
    <3>1. n \in DOMAIN log /\ \A i \in 1..Len(s) : s[i].n # n
      BY <1>7, <2>2
    <3>2. \A i \in 1..Len(t) : t[i].n # n
      BY <1>2, <2>1, <3>1
    <3> QED
      BY <1>8, <3>1, <3>2
  <2> QED
    BY <2>2
<1>11. \A n : Seen(l, n)' /\ n # p.n => Seen(l, n)
  <2>1. ASSUME NEW n, Seen(l, n)', n # p.n, NEW i \in 1..Len(s) PROVE s[i].n # n
    <3>1. CASE i = 1
      BY <1>2, <2>1, <3>1
    <3>2. CASE i # 1
      <4>1. i - 1 \in 1..Len(t) /\ (i - 1) + 1 = i
        BY <1>2, <3>2
      <4>2. t[i - 1].n # n
        BY <1>8, <2>1, <4>1
      <4>3. t[i - 1] = s[i]
        BY <1>2, <4>1
      <4> QED
        BY <4>2, <4>3
    <3> QED
      BY <3>1, <3>2
  <2> QED
    BY <1>7, <1>8, <2>1
<1>12. 1 \in 1..Len(s)
  BY <1>2
<1>13. ASSUME p.n # 0
       PROVE  /\ p.n \in DOMAIN log /\ p = log[p.n] /\ Seen(l, p.n)' /\ ~Seen(l, p.n)
              /\ \A m \in DOMAIN log : Seen(l, m) <=> m < p.n
  <2>1. p.n \in DOMAIN log /\ p = log[p.n]
    BY <1>2, <1>5, <1>12, <1>13
  <2>2. ~Seen(l, p.n)
    BY <1>2, <1>7, <1>12
  <2>3. Seen(l, p.n)'
    <3>1. ASSUME NEW i \in 1..Len(t) PROVE t[i].n # p.n
      <4>1. i + 1 \in 1..Len(s) /\ t[i] = s[i + 1] /\ 1 < i + 1
        BY <1>2
      <4>2. CASE s[i + 1].n # 0
        <5>1. s[1].n < s[i + 1].n
          BY <1>2, <1>6, <1>12, <1>13, <4>1, <4>2
        <5> QED
          BY <1>1, <1>2, <2>1, <4>1, <5>1
      <4>3. CASE s[i + 1].n = 0
        BY <1>13, <4>1, <4>3
      <4> QED
        BY <4>2, <4>3
    <3> QED
      BY <1>8, <2>1, <3>1
  <2>4. ASSUME NEW m \in DOMAIN log, m < p.n PROVE Seen(l, m)
    <3>1. ASSUME NEW i \in 1..Len(s) PROVE s[i].n # m
      <4>1. CASE i = 1
        BY <1>1, <1>2, <2>1, <2>4, <4>1
      <4>2. CASE i # 1 /\ s[i].n # 0
        <5>1. s[1].n < s[i].n
          BY <1>2, <1>6, <1>12, <1>13, <4>2
        <5>2. s[i].n \in DOMAIN log
          BY <1>5, <4>2
        <5> QED
          BY <1>1, <1>2, <2>1, <2>4, <5>1, <5>2
      <4>3. CASE s[i].n = 0
        BY <1>9, <4>3
      <4> QED
        BY <4>1, <4>2, <4>3
    <3> QED
      BY <1>7, <3>1
  <2>5. ASSUME NEW m \in DOMAIN log, Seen(l, m), ~(m < p.n) PROVE FALSE
    <3>1. p.n \in 1..m
      BY <1>1, <2>1, <2>5
    <3> QED
      BY <1>4, <2>2, <2>5, <3>1 DEF Gapless
  <2> QED
    BY <2>1, <2>2, <2>3, <2>4, <2>5
<1>14. \A n : Seen(l, n)' <=> Seen(l, n) \/ (p.n # 0 /\ n = p.n)
  <2>1. \A n : Seen(l, n)' => n \in DOMAIN log
    BY <1>8
  <2> QED
    BY <1>9, <1>10, <1>11, <1>13, <2>1
<1>15. Holds(l)' /\ Ordered(l)'
  <2>1. \A i \in 1..Len(t) : i + 1 \in 1..Len(s) /\ t[i] = s[i + 1]
    BY <1>2
  <2>2. Holds(l)'
    <3>1. \A i \in 1..Len(t) : IF t[i].n = 0 THEN t[i].kind = "close"
                               ELSE t[i].n \in DOMAIN log /\ t[i] = log[t[i].n]
      BY <1>5, <2>1
    <3> QED
      BY <1>2, <3>1 DEF Holds
  <2>3. \A i, j \in 1..Len(t) : i < j /\ t[i].n # 0 /\ t[j].n # 0 => t[i].n < t[j].n
    <3>1. \A i, j \in 1..Len(t) : i < j => i + 1 < j + 1
      BY <1>2
    <3> QED
      BY <1>6, <2>1, <3>1
  <2> QED
    BY <1>2, <2>2, <2>3 DEF Ordered
<1>16. Gapless(l)'
  <2>1. SUFFICES ASSUME NEW n \in DOMAIN log, NEW m \in 1..n, Seen(l, n)'
                 PROVE  Seen(l, m)'
    BY DEF Gapless
  <2>2. CASE Seen(l, n)
    BY <1>4, <1>10, <2>2 DEF Gapless
  <2>3. CASE p.n # 0 /\ n = p.n
    <3>1. m \in DOMAIN log /\ (m = n \/ m < n)
      BY <1>1
    <3> QED
      BY <1>10, <1>13, <2>3, <3>1
  <2> QED
    BY <1>14, <2>1, <2>2, <2>3
<1>17. LogGrows
  BY DEF LogGrows
<1>18. ASSUME NEW k \in Loops, k # l
       PROVE  /\ Holds(k)' /\ Ordered(k)' /\ Gapless(k)'
              /\ \A n : Seen(k, n)' <=> Seen(k, n)
  BY <1>3, <1>17, <1>18, QueueKept DEF Queues
<1>19. Queues'
  BY <1>15, <1>16, <1>18 DEF Queues
<1>20. p.n = 0 => p.kind = "close"
  BY <1>2, <1>5, <1>12
<1> QED
  BY <1>13, <1>14, <1>18, <1>19, <1>20

\* A publication comes at the end of a queue: that of a call, or a close.
Put(p) ==
    /\ Publish(p)
    /\ \/ p.n = 0 /\ p.kind = "close" /\ log' = log
       \/ p.n = Len(log) + 1 /\ log' = Append(log, p)

LEMMA QueuePut ==
  ASSUME Inv, Inv', Queues, NEW p, Put(p)
  PROVE  /\ LogGrows /\ Queues'
         /\ \A l \in Loops : \A n : Seen(l, n)' <=> Seen(l, n)
<1>1. log \in Seq(Pub) /\ DOMAIN log = 1..Len(log) /\ Len(log) \in Nat
  BY WireTypes DEF WireShape
<1>2. DOMAIN log' = 1..Len(log') /\ Len(log') \in Nat
  BY WireTypesNext DEF WireShape
<1>3. ASSUME p.n = Len(log) + 1, log' = Append(log, p)
      PROVE  /\ Len(log') = Len(log) + 1 /\ log'[Len(log) + 1] = p
             /\ \A n \in 1..Len(log) : log'[n] = log[n]
  <2>1. /\ Len(Append(log, p)) = Len(log) + 1 /\ Append(log, p)[Len(log) + 1] = p
        /\ \A n \in 1..Len(log) : Append(log, p)[n] = log[n]
    BY <1>1
  <2> QED
    BY <1>3, <2>1
<1>4. \/ p.n = 0 /\ p.kind = "close" /\ log' = log
      \/ /\ p.n = Len(log) + 1 /\ p.n = Len(log') /\ log'[p.n] = p
         /\ \A n \in 1..Len(log) : log'[n] = log[n]
  BY <1>3 DEF Put
<1>5. LogGrows /\ 0 \notin DOMAIN log'
  BY <1>1, <1>2, <1>4 DEF LogGrows
<1>6. ASSUME NEW l \in Loops
      PROVE  /\ Holds(l)' /\ Ordered(l)' /\ Gapless(l)'
             /\ \A n : Seen(l, n)' <=> Seen(l, n)
  <2>1. Holds(l) /\ Ordered(l) /\ Gapless(l)
    BY DEF Queues
  <2>2. PICK s \in Seq(Entries), t \in Seq(Entries) :
          /\ s = pubs[l] /\ t = pubs'[l]
          /\ Len(s) \in Nat /\ Len(t) = Len(s) + 1 /\ t[Len(s) + 1] = p
          /\ DOMAIN s = 1..Len(s) /\ DOMAIN t = 1..Len(t)
          /\ \A i \in 1..Len(s) : t[i] = s[i]
    <3>1. pubs'[l] = Append(pubs[l], p)
      BY DEF Put, Publish
    <3>2. pubs[l] \in Seq(Entries) /\ Len(pubs[l]) \in Nat /\ DOMAIN pubs[l] = 1..Len(pubs[l])
      BY WireTypes DEF WireShape
    <3>3. pubs'[l] \in Seq(Entries) /\ DOMAIN pubs'[l] = 1..Len(pubs'[l])
      BY WireTypesNext DEF WireShape
    <3>4. /\ Len(Append(pubs[l], p)) = Len(pubs[l]) + 1
          /\ Append(pubs[l], p)[Len(pubs[l]) + 1] = p
          /\ \A i \in 1..Len(pubs[l]) : Append(pubs[l], p)[i] = pubs[l][i]
      BY <3>2
    <3> QED
      BY <3>1, <3>2, <3>3, <3>4
  <2>3. \A i \in 1..Len(s) : IF s[i].n = 0 THEN s[i].kind = "close"
                             ELSE s[i].n \in DOMAIN log /\ s[i] = log[s[i].n]
    BY <2>1, <2>2 DEF Holds
  <2>4. \A i, j \in 1..Len(s) :
           i < j /\ s[i].n # 0 /\ s[j].n # 0 => s[i].n < s[j].n
    BY <2>1, <2>2 DEF Ordered
  <2>5. \A n : Seen(l, n) <=> n \in DOMAIN log /\ \A i \in 1..Len(s) : s[i].n # n
    BY <2>2 DEF Seen
  <2>6. \A n : Seen(l, n)' <=> n \in DOMAIN log' /\ \A i \in 1..Len(t) : t[i].n # n
    BY <2>2 DEF Seen
  <2>7. \A i \in 1..Len(t) : i \in 1..Len(s) \/ i = Len(s) + 1
    BY <2>2
  <2>8. \A n : Seen(l, n)' <=> Seen(l, n)
    <3>1. ASSUME NEW n, Seen(l, n) PROVE Seen(l, n)'
      <4>1. n \in DOMAIN log /\ n \in DOMAIN log'
        BY <1>5, <2>5, <3>1 DEF LogGrows
      <4>2. p.n # n
        BY <1>1, <1>4, <4>1
      <4> QED
        BY <2>2, <2>5, <2>6, <2>7, <3>1, <4>1, <4>2
    <3>2. ASSUME NEW n, Seen(l, n)' PROVE Seen(l, n)
      <4>1. n \in DOMAIN log' /\ p.n # n
        BY <2>2, <2>6, <3>2
      <4>2. n \in DOMAIN log
        BY <1>1, <1>2, <1>4, <4>1
      <4>3. \A i \in 1..Len(s) : i \in 1..Len(t)
        BY <2>2
      <4> QED
        BY <2>2, <2>5, <2>6, <3>2, <4>2, <4>3
    <3> QED
      BY <3>1, <3>2
  <2>9. IF p.n = 0 THEN p.kind = "close" ELSE p.n \in DOMAIN log' /\ p = log'[p.n]
    BY <1>1, <1>2, <1>4
  <2>10. Holds(l)'
    <3>1. \A i \in 1..Len(t) : IF t[i].n = 0 THEN t[i].kind = "close"
                               ELSE t[i].n \in DOMAIN log' /\ t[i] = log'[t[i].n]
      BY <1>5, <2>2, <2>3, <2>7, <2>9 DEF LogGrows
    <3> QED
      BY <2>2, <3>1 DEF Holds
  <2>11. Ordered(l)'
    <3>1. SUFFICES ASSUME NEW i \in 1..Len(t), NEW j \in 1..Len(t),
                          i < j, t[i].n # 0, t[j].n # 0
                   PROVE  t[i].n < t[j].n
      BY <2>2 DEF Ordered
    <3>2. i \in 1..Len(s) /\ t[i] = s[i]
      BY <2>2, <3>1
    <3>3. CASE j \in 1..Len(s)
      BY <2>2, <2>4, <3>1, <3>2, <3>3
    <3>4. CASE j = Len(s) + 1
      <4>1. t[j] = p /\ p.n = Len(log) + 1
        BY <1>4, <2>2, <3>1, <3>4
      <4>2. s[i].n \in 1..Len(log)
        BY <1>1, <2>3, <3>1, <3>2
      <4> QED
        BY <1>1, <3>2, <4>1, <4>2
    <3> QED
      BY <2>7, <3>3, <3>4
  <2>12. Gapless(l)'
    <3>1. \A n \in DOMAIN log' : Seen(l, n)' => n \in DOMAIN log
      BY <2>5, <2>8
    <3> QED
      BY <2>1, <2>8, <3>1 DEF Gapless
  <2> QED
    BY <2>8, <2>10, <2>11, <2>12
<1> QED
  BY <1>5, <1>6 DEF Queues

-----------------------------------------------------------------------------
(* Connections and walks an action does not touch *)

LEMMA WalkingKept ==
  ASSUME Walking, LogGrows,
         \A l \in Loops : Walks(l)' =>
            /\ Walks(l) /\ at'[l].n = at[l].n /\ at'[l].up \in opened'
            /\ \A n : Seen(l, n)' <=> Seen(l, n)
  PROVE  Walking'
<1>1. SUFFICES ASSUME NEW l \in Loops, Walks(l)'
               PROVE  (/\ at[l].up \in opened
                       /\ Seen(l, at[l].n) /\ log[at[l].n].kind = "publish"
                       /\ \A n \in DOMAIN log : Seen(l, n) => n <= at[l].n)'
  BY DEF Walking
<1>2. PICK m : m = at[l].n /\ m = at'[l].n
  BY <1>1
<1>3. /\ Seen(l, m) /\ log[m].kind = "publish"
      /\ \A n \in DOMAIN log : Seen(l, n) => n <= m
  BY <1>1, <1>2 DEF Walking
<1>4. m \in DOMAIN log /\ \A n : Seen(l, n) => n \in DOMAIN log
  BY <1>3 DEF Seen
<1>5. Seen(l, m)' /\ at'[l].up \in opened' /\ log'[m] = log[m]
  BY <1>1, <1>3, <1>4 DEF LogGrows
<1>6. \A n \in DOMAIN log' : Seen(l, n)' => n <= m
  BY <1>1, <1>3, <1>4
<1> QED
  BY <1>2, <1>3, <1>5, <1>6

\* What may happen around the connection u: its loop pops what is not for u, and
\* a walk that is ahead of u, or lost, stays so.
Around(u) ==
    /\ LogGrows /\ out'[u] = out[u] /\ wire'[u] = wire[u]
    /\ up'[u].subscribed = up[u].subscribed
    /\ \A n : Seen(Owner[u], n) => Seen(Owner[u], n)'
    /\ \A n : Seen(Owner[u], n)' /\ ~Seen(Owner[u], n) =>
          n \in DOMAIN log /\ log[n].kind # "publish" /\ log[n].up # u
    /\ Walks(Owner[u])' /\ Ahead(Owner[u], u)' =>
          /\ Walks(Owner[u]) /\ Ahead(Owner[u], u)
          /\ at'[Owner[u]].n = at[Owner[u]].n
    /\ Walks(Owner[u]) /\ (Ahead(Owner[u], u) \/ Lost(Owner[u])) =>
          /\ Walks(Owner[u])' /\ at'[Owner[u]].n = at[Owner[u]].n
          /\ Ahead(Owner[u], u)' \/ Lost(Owner[u])'

LEMMA FlowKept ==
  ASSUME Inv, NEW u \in Ups, Flow(u), Around(u)
  PROVE  Flow(u)'
<1>1. LogGrows /\ out'[u] = out[u] /\ wire'[u] = wire[u]
  BY DEF Around
<1>2. PICK l : l = Owner[u]
  OBVIOUS
<1>3. InOrder(u)'
  BY <1>1 DEF Flow, InOrder, Text
<1>4. \A n : Carried(u, n)' <=> Carried(u, n)
  BY <1>1 DEF Carried, Sent, Waits, Text
<1>5. Behind(u)'
  <2>1. SUFFICES ASSUME NEW n \in 1..MaxCalls, Carried(u, n)'
                 PROVE  /\ Seen(Owner[u], n)'
                        /\ Walks(Owner[u])' /\ Ahead(Owner[u], u)' => n < at'[Owner[u]].n
    BY DEF Behind
  <2>2. /\ Seen(Owner[u], n)
        /\ Walks(Owner[u]) /\ Ahead(Owner[u], u) => n < at[Owner[u]].n
    BY <1>4, <2>1 DEF Flow, Behind
  <2> QED
    BY <2>2 DEF Around
<1>6. \A n : Seen(l, n) => n \in DOMAIN log
  BY DEF Seen
<1>7. \A n : Seen(l, n)' => n \in DOMAIN log /\ (Seen(l, n) \/ (log[n].kind # "publish" /\ log[n].up # u))
  BY <1>2, <1>6 DEF Around
<1>8. \A n \in DOMAIN log : \A kind : Asked(n, u, kind)' <=> Asked(n, u, kind)
  BY <1>1 DEF LogGrows, Asked
<1>9. \A n \in DOMAIN log : n \in DOMAIN log'
  BY <1>1 DEF LogGrows
<1>10. \A n : Seen(l, n)' /\ ~Seen(l, n) => \A kind : ~Asked(n, u, kind)
  BY <1>7 DEF Asked
<1>11. Joined(u)' <=> Joined(u)
  <2>1. ASSUME Joined(u) PROVE Joined(u)'
    <3>1. PICK i \in DOMAIN log :
            /\ Seen(l, i) /\ Asked(i, u, "subscribe")
            /\ \A j \in DOMAIN log : j > i /\ Seen(l, j) => ~Asked(j, u, "unsubscribe")
      BY <1>2, <2>1 DEF Joined
    <3>2. i \in DOMAIN log' /\ Seen(l, i)' /\ Asked(i, u, "subscribe")'
      BY <1>2, <1>8, <1>9, <3>1 DEF Around
    <3>3. ASSUME NEW j \in DOMAIN log', j > i, Seen(l, j)'
          PROVE  ~Asked(j, u, "unsubscribe")'
      BY <1>7, <1>8, <1>10, <3>1, <3>3
    <3> QED
      BY <1>2, <3>2, <3>3 DEF Joined
  <2>2. ASSUME Joined(u)' PROVE Joined(u)
    <3>1. PICK i \in DOMAIN log' :
            /\ Seen(l, i)' /\ Asked(i, u, "subscribe")'
            /\ \A j \in DOMAIN log' : j > i /\ Seen(l, j)' => ~Asked(j, u, "unsubscribe")'
      BY <1>2, <2>2 DEF Joined
    <3>2. i \in DOMAIN log /\ Asked(i, u, "subscribe") /\ Seen(l, i)
      BY <1>7, <1>8, <1>10, <3>1
    <3>3. ASSUME NEW j \in DOMAIN log, j > i, Seen(l, j)
          PROVE  ~Asked(j, u, "unsubscribe")
      <4>1. j \in DOMAIN log' /\ Seen(l, j)'
        BY <1>2, <1>9, <3>3 DEF Around
      <4> QED
        BY <1>8, <3>1, <3>3, <4>1
    <3> QED
      BY <1>2, <3>2, <3>3 DEF Joined
  <2> QED
    BY <2>1, <2>2
<1>12. Agrees(u)'
  BY <1>11 DEF Flow, Agrees, Around
<1>13. Ends(u)'
  <2>1. ASSUME NEW n \in DOMAIN log', Seen(l, n)', Asked(n, u, "close")'
        PROVE  \E i \in DOMAIN out'[u] : out'[u][i].kind = "close"
    <3>1. n \in DOMAIN log /\ Seen(l, n) /\ Asked(n, u, "close")
      BY <1>7, <1>8, <1>10, <2>1
    <3> QED
      BY <1>1, <1>2, <3>1 DEF Flow, Ends
  <2>2. ASSUME NEW i \in DOMAIN out'[u], Text(u, i)',
               \A j \in 1..i : out'[u][j].kind # "close"
        PROVE  out'[u][i].n \in Expected(u)'
    <3>1. out[u][i].n \in Expected(u)
      BY <1>1, <2>2 DEF Flow, Ends, Text
    <3>2. out[u][i].n \in DOMAIN log
      BY <3>1 DEF Expected
    <3>3. out[u][i].n \in Expected(u)'
      BY <1>1, <3>1, <3>2, ExpectedKept
    <3> QED
      BY <1>1, <3>3
  <2> QED
    BY <1>2, <2>1, <2>2 DEF Ends
<1>14. Complete(u)'
  <2>1. SUFFICES ASSUME NEW n \in Expected(u)', Seen(l, n)'
                 PROVE  \/ Carried(u, n)'
                        \/ /\ Walks(l)' /\ n = at'[l].n
                           /\ Ahead(l, u)' \/ Lost(l)'
    BY <1>2 DEF Complete
  <2>2. n \in DOMAIN log
    BY <1>7, <2>1
  <2>3. n \in Expected(u)
    BY <1>1, <2>2, ExpectedKept
  <2>4. Seen(l, n)
    <3>1. Asked(n, u, "write") \/ Asked(n, NULL, "publish")
      BY <2>3 DEF Expected
    <3> QED
      BY <1>7, <2>1, <3>1 DEF Asked
  <2>5. \/ Carried(u, n)
        \/ /\ Walks(l) /\ n = at[l].n
           /\ Ahead(l, u) \/ Lost(l)
    BY <1>2, <2>3, <2>4 DEF Flow, Complete
  <2> QED
    BY <1>2, <1>4, <2>5 DEF Around
<1> QED
  BY <1>3, <1>5, <1>12, <1>13, <1>14 DEF Flow

-----------------------------------------------------------------------------
(* The actions that leave texts and walks alone *)

\* A record whose connection is there is on the list.
LEMMA ConLive ==
  ASSUME NEW u \in Ups
  PROVE  Inv /\ u \in opened /\ con[u] # "gone" => u \in Live
BY Held DEF Inv, Shape

LEMMA ConLiveNext ==
  ASSUME NEW u \in Ups
  PROVE  (Inv /\ u \in opened /\ con[u] # "gone" => u \in Live)'
BY ConLive, PTL

\* A connection beside what an action does.
LEMMA Beside ==
  ASSUME Inv, Inv', Walking, opened \subseteq opened', Relisted, LogGrows,
         NEW u \in Ups, con'[u] = "open",
         out'[u] = out[u], wire'[u] = wire[u], up'[u].subscribed = up[u].subscribed,
         NEW l \in Loops, l = Owner[u],
         at'[l] = at[l] \/ (~Walks(l) /\ ~Walks(l)'),
         \A n : Seen(l, n) => Seen(l, n)',
         \A n : Seen(l, n)' /\ ~Seen(l, n) =>
            n \in DOMAIN log /\ log[n].kind # "publish" /\ log[n].up # u
  PROVE  Around(u)
<1>1. u \in Live => u \in Live'
  <2>1. Live \subseteq opened
    BY WireTypes DEF WireShape
  <2> QED
    BY <2>1, ConLiveNext
<1>2. ASSUME at'[l] = at[l]
      PROVE  /\ Walks(l)' /\ Ahead(l, u)' =>
                   Walks(l) /\ Ahead(l, u) /\ at'[l].n = at[l].n
             /\ Walks(l) /\ (Ahead(l, u) \/ Lost(l)) =>
                   Walks(l)' /\ at'[l].n = at[l].n /\ (Ahead(l, u)' \/ Lost(l)')
  <2>1. Walks(l)' <=> Walks(l)
    BY <1>2 DEF Walks
  <2>2. Walks(l) => at[l].up \in opened
    BY DEF Walking
  <2>3. ASSUME Walks(l)
        PROVE  /\ Ahead(l, u)' => Ahead(l, u)
               /\ Ahead(l, u) => Ahead(l, u)' \/ Lost(l)'
               /\ Lost(l) => Lost(l)'
    BY <1>1, <1>2, <2>2, <2>3, AheadKept
  <2> QED
    BY <1>2, <2>1, <2>3
<1> QED
  BY <1>2 DEF Around

\* Nothing is popped, sent or put in a list of responses, and no walk goes on.
Aside ==
    /\ opened \subseteq opened' /\ Relisted /\ LogGrows /\ wire' = wire
    /\ \A l \in Loops : /\ at'[l] = at[l] \/ (~Walks(l) /\ ~Walks(l)')
                        /\ \A n : Seen(l, n)' <=> Seen(l, n)
    /\ \A u \in Ups : con'[u] = "open" =>
          /\ con[u] = "open" /\ out'[u] = out[u]
          /\ up'[u].subscribed = up[u].subscribed

LEMMA AsideKeeps ==
  ASSUME Inv, Inv', WInv, Aside, Logged', Queues'
  PROVE  WInv'
<1>1. Walking'
  <2>1. ASSUME NEW l \in Loops, Walks(l)'
        PROVE  /\ Walks(l) /\ at'[l].n = at[l].n /\ at'[l].up \in opened'
               /\ \A n : Seen(l, n)' <=> Seen(l, n)
    <3>1. at'[l] = at[l] /\ Walks(l)
      BY <2>1 DEF Aside, Walks
    <3>2. at[l].up \in opened'
      BY <3>1 DEF Aside, WInv, Walking
    <3> QED
      BY <3>1, <3>2 DEF Aside
  <2> QED
    BY <2>1, WalkingKept DEF WInv, Aside
<1>2. Flows'
  <2>1. SUFFICES ASSUME NEW u \in Ups, con'[u] = "open" PROVE Flow(u)'
    BY DEF Flows
  <2>2. Owner[u] \in Loops
    BY UpgradedAssumption
  <2>3. PICK l \in Loops : l = Owner[u]
    BY <2>2
  <2>4. Around(u)
    BY <2>1, <2>3, Beside DEF Aside, WInv
  <2>5. Flow(u)
    BY <2>1 DEF Aside, WInv, Flows
  <2> QED
    BY <2>4, <2>5, FlowKept
<1>3. WireAsCalled'
  BY WireKept DEF Aside, WInv
<1> QED
  BY <1>1, <1>2, <1>3 DEF WInv

\* The queues and the log stay as they are.
LEMMA Quiet ==
  ASSUME WInv, opened \subseteq opened', pubs' = pubs, log' = log
  PROVE  /\ Logged' /\ Queues' /\ LogGrows
         /\ \A l \in Loops : \A n : Seen(l, n)' <=> Seen(l, n)
<1>1. LogGrows
  BY DEF LogGrows
<1>2. ASSUME NEW l \in Loops
      PROVE  /\ Holds(l)' /\ Ordered(l)' /\ Gapless(l)'
             /\ \A n : Seen(l, n)' <=> Seen(l, n)
  BY <1>1, QueueKept DEF WInv, Queues
<1>3. Logged'
  BY DEF WInv, Logged
<1> QED
  BY <1>1, <1>2, <1>3 DEF Queues

\* Nothing but references of records changes for the connections.
Counts ==
    /\ UNCHANGED <<con, out, wire>> /\ opened \subseteq opened' /\ Relisted
    /\ \A u \in Ups : up'[u].subscribed = up[u].subscribed
    /\ \A l \in Loops : at'[l] = at[l] \/ (~Walks(l) /\ ~Walks(l)')

LEMMA CountsKeep ==
  ASSUME Inv, Inv', WInv, Counts, pubs' = pubs, log' = log
  PROVE  WInv'
<1>1. opened \subseteq opened'
  BY DEF Counts
<1>2. /\ Logged' /\ Queues' /\ LogGrows
      /\ \A l \in Loops : \A n : Seen(l, n)' <=> Seen(l, n)
  BY <1>1, Quiet
<1>3. Aside
  BY <1>2 DEF Counts, Aside
<1> QED
  BY <1>2, <1>3, AsideKeeps

\* A reference is given back.
LEMMA ReleaseAside ==
  ASSUME Inv, NEW u \in Ups, NEW d \in Int, Release(u, d)
  PROVE  /\ opened' = opened /\ Relisted
         /\ \A v \in Ups : up'[v].subscribed = up[v].subscribed
<1>1. up \in [Ups -> Records]
  BY DEF Inv, Shape, UpShape
<1>2. \A v \in Ups : up'[v].subscribed = up[v].subscribed
  BY <1>1 DEF Release, Records
<1>3. list' = list \/ list' = Without(u)
  BY DEF Release
<1> QED
  BY <1>2, <1>3 DEF Release, Relisted

LEMMA CreateWire ==
  ASSUME Inv, Inv', WInv, NEW u \in Ups, Create(u)
  PROVE  WInv'
<1>1. up \in [Ups -> Records]
  BY DEF Inv, Shape, UpShape
<1>2. UNCHANGED <<con, out, wire, pubs, log, at>> /\ opened \subseteq opened'
  BY DEF Create, conVars, callVars
<1>3. Relisted
  BY DEF Create, Relisted
<1>4. \A v \in Ups : up'[v].subscribed = up[v].subscribed
  BY <1>1 DEF Create, Records
<1> QED
  BY <1>2, <1>3, <1>4, CountsKeep DEF Counts

LEMMA CallWire ==
  ASSUME Inv, Inv', WInv, NEW k \in Callers, NEW u \in Ups, NEW op \in Ops,
         Get(k, u, op) \/ Ask(k) \/ Env(k) \/ WriteRaises(k)
  PROVE  WInv'
<1>1. up \in [Ups -> Records]
  BY DEF Inv, Shape, UpShape
<1>2. UNCHANGED <<con, out, wire, pubs, log, at, opened, list>>
  BY DEF Get, Ask, Env, WriteRaises, Forget, conVars, upVars
<1>3. \A v \in Ups : up'[v].subscribed = up[v].subscribed
  <2>1. CASE Get(k, u, op) \/ Ask(k)
    BY <1>1, <2>1 DEF Get, Ask, Records
  <2>2. CASE Env(k) \/ WriteRaises(k)
    BY <2>2 DEF Env, WriteRaises, Forget, upVars
  <2> QED
    BY <2>1, <2>2
<1> QED
  BY <1>2, <1>3, CountsKeep DEF Counts, Relisted

LEMMA ReturnWire ==
  ASSUME Inv, Inv', WInv, NEW t \in Evals, Return(t) \/ Raise(t)
  PROVE  WInv'
<1>1. UNCHANGED <<con, out, wire, pubs, log, at>>
  BY DEF Return, Raise, conVars, callVars
<1>2. CASE Return(t)
  <2>1. job[t].up \in Ups
    BY <1>2 DEF Inv, Shape, QueueShape, Jobs, Return, Idle
  <2>2. Release(job[t].up, 0)
    BY <1>2 DEF Return
  <2> QED
    BY <1>1, <2>1, <2>2, ReleaseAside, CountsKeep DEF Counts
<1>3. CASE Raise(t)
  BY <1>1, <1>3, CountsKeep DEF Raise, Counts, Relisted, upVars
<1> QED
  BY <1>2, <1>3

LEMMA FrameWire ==
  ASSUME Inv, Inv', WInv, NEW u \in Ups, Frame(u)
  PROVE  WInv'
<1>1. up \in [Ups -> Records]
  BY DEF Inv, Shape, UpShape
<1>2. UNCHANGED <<con, out, wire, pubs, log, at, opened, list>>
  BY DEF Frame, callVars
<1>3. \A v \in Ups : up'[v].subscribed = up[v].subscribed
  BY <1>1 DEF Frame, Records
<1> QED
  BY <1>2, <1>3, CountsKeep DEF Counts, Relisted

LEMMA SeenWire ==
  ASSUME Inv, Inv', WInv, NEW l \in Loops, PubSeen(l)
  PROVE  WInv'
<1>1. UNCHANGED <<con, out, wire, pubs, log>>
  BY DEF PubSeen, conVars, callVars
<1>2. at' = [at EXCEPT ![l] = Idle] /\ at[l].at = "seen" /\ at \in [Loops -> Visits]
  BY DEF PubSeen, Inv, Shape, QueueShape
<1>3. \A k \in Loops : at'[k] = at[k] \/ (~Walks(k) /\ ~Walks(k)')
  BY <1>2 DEF Walks, Idle
<1>4. at[l].up \in Ups
  BY <1>2 DEF Visits, Idle
<1>5. CASE Release(at[l].up, 0)
  BY <1>1, <1>3, <1>4, <1>5, ReleaseAside, CountsKeep DEF Counts
<1>6. CASE UNCHANGED upVars
  BY <1>1, <1>3, <1>6, CountsKeep DEF Counts, upVars, Relisted
<1> QED
  BY <1>5, <1>6 DEF PubSeen

\* A connection that dies has no more to show.
LEMMA DeadWire ==
  ASSUME Inv, Inv', WInv, NEW u \in Ups,
         Hangup(u) \/ CheckDead(u) \/ WriteClose(u) \/ WriteError(u)
  PROVE  WInv'
<1>1. PICK s \in Seq(Responses), ms \in Seq(Methods) : Dies(u, s, ms)
  BY DiesStep DEF Inv
<1>2. PICK x, all : \E gone \in BOOLEAN : Leaves(u, s, ms, x, gone, all)
  BY <1>1, KillLeaves DEF Dies
<1>3. PICK gone \in BOOLEAN : Leaves(u, s, ms, x, gone, all)
  BY <1>2
<1>4. UNCHANGED <<wire, pubs, at, log>>
  BY <1>1 DEF Dies, callVars
<1>5. /\ con \in [Ups -> States] /\ up \in [Ups -> Records]
      /\ out \in [Ups -> Seq(Responses)]
  BY DEF Inv, Shape, ConShape, UpShape
<1>6. opened' = opened /\ Relisted /\ \A v \in Ups : up'[v].subscribed = up[v].subscribed
  <2>1. CASE gone
    <3>1. Release(u, Len(all)) /\ Len(all) \in Nat
      BY <1>3, <2>1 DEF Leaves
    <3> QED
      BY <3>1, ReleaseAside
  <2>2. CASE ~gone
    <3>1. opened' = opened /\ list' = list /\ up' = [up EXCEPT ![u].ref = @ + Len(all)]
      BY <1>3, <2>2 DEF Leaves
    <3>2. \A v \in Ups : up'[v].subscribed = up[v].subscribed
      BY <1>5, <3>1 DEF Records
    <3> QED
      BY <3>1, <3>2 DEF Relisted
  <2> QED
    BY <2>1, <2>2
<1>7. ASSUME NEW v \in Ups, con'[v] = "open"
      PROVE  con[v] = "open" /\ out'[v] = out[v]
  BY <1>3, <1>5, <1>7 DEF Leaves
<1>8. /\ Logged' /\ Queues' /\ LogGrows
      /\ \A l \in Loops : \A n : Seen(l, n)' <=> Seen(l, n)
  BY <1>4, <1>6, Quiet
<1>9. Aside
  BY <1>4, <1>6, <1>7, <1>8 DEF Aside
<1> QED
  BY <1>8, <1>9, AsideKeeps

\* A publication is made: nothing of it is seen before it is popped.
LEMMA PutKeeps ==
  ASSUME Inv, Inv', WInv, Counts, NEW p, Put(p),
         p.n # 0 => IF p.kind = "publish" THEN p.up = NULL ELSE p.up \in opened
  PROVE  WInv'
<1>1. /\ LogGrows /\ Queues'
      /\ \A l \in Loops : \A n : Seen(l, n)' <=> Seen(l, n)
  BY QueuePut DEF WInv
<1>2. Aside
  BY <1>1 DEF Counts, Aside
<1>3. Logged'
  <2>1. log \in Seq(Pub) /\ DOMAIN log = 1..Len(log) /\ Len(log) \in Nat
    BY WireTypes DEF WireShape
  <2>2. DOMAIN log' = 1..Len(log') /\ Len(log') \in Nat
    BY WireTypesNext DEF WireShape
  <2>3. opened \subseteq opened' /\ Logged
    BY DEF Counts, WInv
  <2>4. ASSUME p.n = Len(log) + 1, log' = Append(log, p)
        PROVE  Len(log') = p.n /\ log'[p.n] = p
    <3>1. Len(Append(log, p)) = Len(log) + 1 /\ Append(log, p)[Len(log) + 1] = p
      BY <2>1
    <3> QED
      BY <2>4, <3>1
  <2>5. log' = log \/ (p.n = Len(log) + 1 /\ Len(log') = p.n /\ log'[p.n] = p)
    BY <2>4 DEF Put
  <2>6. ASSUME NEW n \in DOMAIN log'
        PROVE  /\ log'[n].n = n
               /\ IF log'[n].kind = "publish" THEN log'[n].up = NULL
                  ELSE log'[n].up \in opened'
    <3>1. CASE n \in DOMAIN log
      BY <1>1, <2>3, <3>1 DEF LogGrows, Logged
    <3>2. CASE n \notin DOMAIN log
      <4>1. n = p.n /\ log'[n] = p /\ p.n # 0
        BY <2>1, <2>2, <2>5, <3>2
      <4> QED
        BY <2>3, <4>1
    <3> QED
      BY <3>1, <3>2
  <2> QED
    BY <2>6 DEF Logged
<1> QED
  BY <1>1, <1>2, <1>3, AsideKeeps

LEMMA ActWire ==
  ASSUME Inv, Inv', WInv, NEW k \in Callers, Act(k)
  PROVE  WInv'
<1>1. up \in [Ups -> Records] /\ call \in [Callers -> Calls]
  BY DEF Inv, Shape, UpShape, CallShape
<1>2. PICK u : u = call[k].up
  OBVIOUS
<1>3. call[k] # Idle
  BY DEF Act
<1>4. u \in Ups /\ call[k].op \in Ops \ {"publish"}
  BY <1>1, <1>2, <1>3 DEF Calls
<1>5. u \in opened
  BY <1>2, <1>3, <1>4, Held DEF Inv, Shape
<1>6. UNCHANGED <<con, out, wire, at, opened, list>>
  BY DEF Act, conVars
<1>7. ASSUME up' = [up EXCEPT ![u].ref = @ - 1], UNCHANGED <<pubs, log>>
      PROVE  WInv'
  <2>1. \A v \in Ups : up'[v].subscribed = up[v].subscribed
    BY <1>1, <1>7 DEF Records
  <2> QED
    BY <1>6, <1>7, <2>1, CountsKeep DEF Counts, Relisted
<1>8. ASSUME Accepted(k) PROVE WInv'
  <2>1. PICK p : p = [kind |-> call[k].op, up |-> u, n |-> Len(log) + 1]
    OBVIOUS
  <2>2. Put(p)
    BY <1>2, <1>8, <2>1 DEF Put, Accepted
  <2>3. up' = [up EXCEPT ![u].ref = @ + Copies, ![u].pending = @ + 1]
    BY <1>2, <1>8 DEF Accepted
  <2>4. \A v \in Ups : up'[v].subscribed = up[v].subscribed
    BY <1>1, <2>3 DEF Records
  <2>5. p.kind # "publish" /\ p.up \in opened
    BY <1>4, <1>5, <2>1
  <2> QED
    BY <1>6, <2>2, <2>4, <2>5, PutKeeps DEF Counts, Relisted
<1> QED
  BY <1>2, <1>7, <1>8 DEF Act

LEMMA BroadcastWire ==
  ASSUME Inv, Inv', WInv, NEW k \in Callers, Broadcast(k)
  PROVE  WInv'
<1>1. PICK p : p = [kind |-> "publish", up |-> NULL, n |-> Len(log) + 1]
  OBVIOUS
<1>2. Put(p)
  BY <1>1 DEF Put, Broadcast
<1>3. UNCHANGED <<con, out, wire, at, opened, list, up>>
  BY DEF Broadcast, conVars, upVars
<1> QED
  BY <1>1, <1>2, <1>3, PutKeeps DEF Counts, Relisted

LEMMA TakeWire ==
  ASSUME Inv, Inv', WInv, NEW t \in Evals, Take(t)
  PROVE  WInv'
<1>1. up \in [Ups -> Records]
  BY DEF Inv, Shape, UpShape
<1>2. UNCHANGED <<con, out, wire, at, opened, list, log>>
  BY DEF Take, conVars, callVars
<1>3. PICK p : p = [kind |-> "close", up |-> Head(reqs).up, n |-> 0]
  OBVIOUS
<1>4. CASE Head(reqs).method = "on_close"
  <2>1. Publish(p) /\ up' = [up EXCEPT ![Head(reqs).up].ref = @ + 1 + Copies]
    BY <1>3, <1>4 DEF Take
  <2>2. \A v \in Ups : up'[v].subscribed = up[v].subscribed
    BY <1>1, <2>1 DEF Records
  <2>3. Put(p)
    BY <1>2, <1>3, <2>1 DEF Put
  <2> QED
    BY <1>2, <1>3, <2>2, <2>3, PutKeeps DEF Counts, Relisted
<1>5. CASE Head(reqs).method # "on_close"
  <2>1. UNCHANGED <<pubs, up>>
    BY <1>5 DEF Take
  <2> QED
    BY <1>2, <2>1, CountsKeep DEF Counts, Relisted
<1> QED
  BY <1>4, <1>5

-----------------------------------------------------------------------------
(* The actions that pop a publication for one connection *)

\* The loop l pops p, which is for the connection p.up alone.
Pops(l, p) ==
    /\ at[l] = Idle /\ pubs[l] # <<>> /\ p = Head(pubs[l]) /\ Popped(l)
    /\ p.kind # "publish"
    /\ UNCHANGED <<con, wire, log, opened>> /\ Relisted
    /\ ~Walks(l)' /\ \A k \in Loops \ {l} : at'[k] = at[k]

\* All but the connection itself.
LEMMA PopsKeep ==
  ASSUME Inv, Inv', WInv, NEW l \in Loops, NEW p, Pops(l, p),
         \A u \in Ups : con[u] = "open" /\ ~(Owner[u] = l /\ p.up = u) =>
            out'[u] = out[u] /\ up'[u].subscribed = up[u].subscribed
  PROVE  /\ Logged' /\ Queues' /\ Walking' /\ WireAsCalled' /\ LogGrows
         /\ \A u \in Ups : con[u] = "open" /\ ~(Owner[u] = l /\ p.up = u) => Flow(u)'
<1>1. /\ Queues'
      /\ \A k \in Loops : k # l => \A n : Seen(k, n)' <=> Seen(k, n)
      /\ \A n : Seen(l, n)' <=> Seen(l, n) \/ (p.n # 0 /\ n = p.n)
      /\ p.n # 0 => p.n \in DOMAIN log /\ p = log[p.n]
  <2>1. pubs[l] # <<>> /\ Popped(l) /\ log' = log /\ p = Head(pubs[l])
    BY DEF Pops
  <2>2. Queues
    BY DEF WInv
  <2> QED
    BY <2>1, <2>2, QueuePop
<1>2. LogGrows
  BY DEF LogGrows, Pops
<1>3. Logged'
  BY DEF WInv, Logged, Pops
<1>4. Walking'
  <2>1. ASSUME NEW k \in Loops, Walks(k)'
        PROVE  /\ Walks(k) /\ at'[k].n = at[k].n /\ at'[k].up \in opened'
               /\ \A n : Seen(k, n)' <=> Seen(k, n)
    <3>1. k # l /\ at'[k] = at[k]
      BY <2>1 DEF Pops
    <3>2. Walks(k)
      BY <2>1, <3>1 DEF Walks
    <3>3. at'[k].up \in opened'
      BY <3>1, <3>2 DEF WInv, Walking, Pops
    <3> QED
      BY <1>1, <3>1, <3>2, <3>3
  <2> QED
    BY <1>2, <2>1, WalkingKept DEF WInv
<1>5. WireAsCalled'
  BY <1>2, WireKept DEF WInv, Pops
<1>6. ASSUME NEW u \in Ups, con[u] = "open", ~(Owner[u] = l /\ p.up = u)
      PROVE  Flow(u)'
  <2>1. Owner[u] \in Loops
    BY UpgradedAssumption
  <2>2. PICK k \in Loops : k = Owner[u]
    BY <2>1
  <2>3. at'[k] = at[k] \/ (~Walks(k) /\ ~Walks(k)')
    BY DEF Pops, Walks, Idle
  <2>4. \A n : Seen(k, n) => Seen(k, n)'
    BY <1>1
  <2>5. \A n : Seen(k, n)' /\ ~Seen(k, n) =>
            n \in DOMAIN log /\ log[n].kind # "publish" /\ log[n].up # u
    BY <1>1, <1>6, <2>2 DEF Pops
  <2>6. con'[u] = "open" /\ out'[u] = out[u] /\ wire'[u] = wire[u]
        /\ up'[u].subscribed = up[u].subscribed /\ Relisted /\ opened \subseteq opened'
    BY <1>6 DEF Pops
  <2>7. Around(u)
    BY <1>2, <2>2, <2>3, <2>4, <2>5, <2>6, Beside DEF WInv
  <2>8. Flow(u)
    BY <1>6 DEF WInv, Flows
  <2> QED
    BY <2>7, <2>8, FlowKept
<1> QED
  BY <1>1, <1>2, <1>3, <1>4, <1>5, <1>6

\* The connection is gone or that of another loop.
LEMMA PopWire ==
  ASSUME Inv, Inv', WInv, NEW l \in Loops, PubForeign(l) \/ PubGone(l)
  PROVE  WInv'
<1>1. PICK p : p = Head(pubs[l])
  OBVIOUS
<1>2. /\ at[l] = Idle /\ pubs[l] # <<>> /\ Popped(l) /\ p.kind # "publish"
      /\ UNCHANGED <<con, out, wire, log>>
      /\ Owner[p.up] # l \/ con[p.up] = "gone"
  BY <1>1 DEF PubForeign, PubGone, conVars, callVars
<1>3. p.up \in Ups
  <2>1. pubs[l] \in Seq(Entries)
    BY DEF Inv, Shape, QueueShape
  <2>2. p \in Entries
    BY <1>1, <1>2, <2>1, HeadTailProperties
  <2> QED
    BY <1>2, <2>2 DEF Entries, Pub
<1>4. opened' = opened /\ Relisted /\ \A v \in Ups : up'[v].subscribed = up[v].subscribed
  <2>1. CASE UNCHANGED upVars
    BY <2>1 DEF upVars, Relisted
  <2>2. CASE Release(p.up, 0)
    BY <1>3, <2>2, ReleaseAside
  <2> QED
    BY <1>1, <2>1, <2>2 DEF PubForeign, PubGone
<1>5. ~Walks(l)' /\ \A k \in Loops \ {l} : at'[k] = at[k]
  <2>1. at \in [Loops -> Visits]
    BY DEF Inv, Shape, QueueShape
  <2>2. at' = [at EXCEPT ![l] = [at |-> "seen", up |-> p.up]] \/ at' = at
    BY <1>1 DEF PubForeign, PubGone
  <2> QED
    BY <1>2, <2>1, <2>2 DEF Walks, Idle
<1>6. Pops(l, p)
  BY <1>1, <1>2, <1>4, <1>5 DEF Pops
<1>7. /\ Logged' /\ Queues' /\ Walking' /\ WireAsCalled'
      /\ \A u \in Ups : con[u] = "open" /\ ~(Owner[u] = l /\ p.up = u) => Flow(u)'
  BY <1>2, <1>4, <1>6, PopsKeep
<1>8. ASSUME NEW u \in Ups, con'[u] = "open" PROVE Flow(u)'
  BY <1>2, <1>7, <1>8
<1> QED
  BY <1>7, <1>8 DEF WInv, Flows

-----------------------------------------------------------------------------
(* The list of responses of one connection *)

\* r comes at the end.
Appended(u, r) ==
    /\ DOMAIN out'[u] = 1..(Len(out[u]) + 1) /\ out'[u][Len(out[u]) + 1] = r
    /\ \A i \in 1..Len(out[u]) : out'[u][i] = out[u][i]

LEMMA AppendedDef ==
  ASSUME Inv, Inv', NEW u \in Ups, NEW r, out'[u] = AppendRes(out[u], r)
  PROVE  Appended(u, r)
<1>1. out[u] \in Seq(Responses) /\ Len(out[u]) \in Nat
  BY WireTypes DEF WireShape
<1>2. /\ Len(Append(out[u], r)) = Len(out[u]) + 1
      /\ Append(out[u], r)[Len(out[u]) + 1] = r
      /\ \A i \in 1..Len(out[u]) : Append(out[u], r)[i] = out[u][i]
  BY <1>1
<1>3. out'[u] = Append(out[u], r)
  BY DEF AppendRes
<1>4. DOMAIN out'[u] = 1..Len(out'[u])
  BY WireTypesNext DEF WireShape
<1> QED
  BY <1>2, <1>3, <1>4 DEF Appended

\* The parts of the flow that are about the list alone.
LEMMA AppendKeeps ==
  ASSUME Inv, Inv', NEW u \in Ups, Flow(u), NEW r, Appended(u, r),
         wire'[u] = wire[u], log' = log,
         r.kind = "text" =>
            /\ \A n : Carried(u, n) => n < r.n
            /\ (\A i \in DOMAIN out[u] : out[u][i].kind # "close") => r.n \in Expected(u)
  PROVE  /\ InOrder(u)'
         /\ \A n : Carried(u, n)' <=> Carried(u, n) \/ (r.kind = "text" /\ r.n = n)
         /\ \A i \in DOMAIN out'[u] :
               Text(u, i)' /\ (\A j \in 1..i : out'[u][j].kind # "close") =>
                  out'[u][i].n \in Expected(u)
         /\ (\E i \in DOMAIN out[u] : out[u][i].kind = "close") \/ r.kind = "close" =>
               \E i \in DOMAIN out'[u] : out'[u][i].kind = "close"
<1>1. Len(out[u]) \in Nat /\ DOMAIN out[u] = 1..Len(out[u])
  BY WireTypes DEF WireShape
<1>2. PICK z : z = Len(out[u]) + 1
  OBVIOUS
<1>3. /\ \A i \in DOMAIN out'[u] : i \in DOMAIN out[u] \/ i = z
      /\ \A i \in DOMAIN out[u] : i \in DOMAIN out'[u] /\ i < z /\ out'[u][i] = out[u][i]
      /\ z \in DOMAIN out'[u] /\ out'[u][z] = r
      /\ \A i \in DOMAIN out[u] : 1..i \subseteq DOMAIN out[u]
      /\ DOMAIN out[u] \subseteq 1..z /\ DOMAIN out[u] \subseteq Nat
  BY <1>1, <1>2 DEF Appended
<1>4. \A i \in DOMAIN out[u] : Text(u, i)' <=> Text(u, i)
  BY <1>3 DEF Text
<1>5. Text(u, z)' <=> r.kind = "text"
  BY <1>3 DEF Text
<1>6. \A i : Text(u, i) => i \in DOMAIN out[u] /\ Carried(u, out[u][i].n)
  BY DEF Text, Carried, Waits
<1>7. InOrder(u)'
  <2>1. ASSUME NEW i \in DOMAIN out'[u], NEW j \in DOMAIN out'[u], i < j,
               Text(u, i)', Text(u, j)'
        PROVE  out'[u][i].n < out'[u][j].n
    <3>1. CASE j = z
      <4>1. i \in DOMAIN out[u]
        BY <1>1, <1>2, <1>3, <2>1, <3>1
      <4> QED
        BY <1>3, <1>4, <1>5, <1>6, <2>1, <3>1, <4>1
    <3>2. CASE j \in DOMAIN out[u]
      <4>1. i \in DOMAIN out[u]
        BY <1>1, <1>2, <1>3, <2>1, <3>2
      <4> QED
        BY <1>3, <1>4, <2>1, <3>2, <4>1 DEF Flow, InOrder
    <3> QED
      BY <1>3, <3>1, <3>2
  <2>2. ASSUME NEW k \in DOMAIN wire[u], NEW i \in DOMAIN out'[u], Text(u, i)'
        PROVE  wire[u][k] < out'[u][i].n
    <3>1. CASE i = z
      <4>1. Carried(u, wire[u][k])
        BY DEF Carried, Sent
      <4> QED
        BY <1>3, <1>5, <2>2, <3>1, <4>1
    <3>2. CASE i \in DOMAIN out[u]
      BY <1>3, <1>4, <2>2, <3>2 DEF Flow, InOrder
    <3> QED
      BY <1>3, <3>1, <3>2
  <2> QED
    BY <2>1, <2>2 DEF InOrder
<1>8. \A n : Sent(u, n)' <=> Sent(u, n)
  BY DEF Sent
<1>9. \A n : Waits(u, n)' <=> Waits(u, n) \/ (r.kind = "text" /\ r.n = n)
  BY <1>3, <1>4, <1>5 DEF Waits
<1>10. ASSUME NEW i \in DOMAIN out'[u], Text(u, i)',
              \A j \in 1..i : out'[u][j].kind # "close"
       PROVE  out'[u][i].n \in Expected(u)
  <2>1. CASE i = z
    BY <1>3, <1>5, <1>10, <2>1
  <2>2. CASE i \in DOMAIN out[u]
    <3>1. Text(u, i) /\ \A j \in 1..i : out[u][j].kind # "close"
      BY <1>3, <1>4, <1>10, <2>2
    <3>2. out[u][i].n \in Expected(u)
      BY <2>2, <3>1 DEF Flow, Ends
    <3> QED
      BY <1>3, <2>2, <3>2
  <2> QED
    BY <1>3, <2>1, <2>2
<1> QED
  BY <1>3, <1>7, <1>8, <1>9, <1>10 DEF Carried

\* Whether the record is subscribed after the loop has popped n, or nothing.
LEMMA JoinedPop ==
  ASSUME Inv, NEW u \in Ups, NEW l, l = Owner[u], log' = log, NEW n,
         \A m : Seen(l, m)' <=> Seen(l, m) \/ (n # 0 /\ m = n),
         n # 0 => n \in DOMAIN log /\ \A m \in DOMAIN log : Seen(l, m) <=> m < n
  PROVE  /\ n = 0 \/ (~Asked(n, u, "subscribe") /\ ~Asked(n, u, "unsubscribe")) =>
               (Joined(u)' <=> Joined(u))
         /\ n # 0 /\ Asked(n, u, "subscribe") => Joined(u)'
         /\ n # 0 /\ Asked(n, u, "unsubscribe") => ~Joined(u)'
<1>1. DOMAIN log = 1..Len(log) /\ Len(log) \in Nat
  BY WireTypes DEF WireShape
<1>2. \A m, kind : Asked(m, u, kind)' <=> Asked(m, u, kind)
  BY DEF Asked
<1>3. /\ Joined(u) <=>
            \E i \in DOMAIN log :
               /\ Seen(l, i) /\ Asked(i, u, "subscribe")
               /\ \A j \in DOMAIN log : j > i /\ Seen(l, j) => ~Asked(j, u, "unsubscribe")
      /\ Joined(u)' <=>
            \E i \in DOMAIN log :
               /\ Seen(l, i)' /\ Asked(i, u, "subscribe")
               /\ \A j \in DOMAIN log : j > i /\ Seen(l, j)' => ~Asked(j, u, "unsubscribe")
  BY <1>2 DEF Joined
<1>4. ASSUME n = 0 \/ (~Asked(n, u, "subscribe") /\ ~Asked(n, u, "unsubscribe"))
      PROVE  Joined(u)' <=> Joined(u)
  BY <1>3, <1>4
<1>5. ASSUME n # 0, Asked(n, u, "subscribe") PROVE Joined(u)'
  <2>1. \A j \in DOMAIN log : Seen(l, j)' => j = n \/ j < n
    BY <1>5
  <2>2. \A j \in DOMAIN log : j > n /\ Seen(l, j)' => FALSE
    BY <1>1, <1>5, <2>1
  <2> QED
    BY <1>3, <1>5, <2>2
<1>6. ASSUME n # 0, Asked(n, u, "unsubscribe"), Joined(u)' PROVE FALSE
  <2>1. PICK i \in DOMAIN log :
          /\ Seen(l, i)' /\ Asked(i, u, "subscribe")
          /\ \A j \in DOMAIN log : j > i /\ Seen(l, j)' => ~Asked(j, u, "unsubscribe")
    BY <1>3, <1>6
  <2>2. i # n
    BY <1>6, <2>1 DEF Asked
  <2>3. n > i /\ Seen(l, n)'
    BY <1>1, <1>6, <2>1, <2>2
  <2> QED
    BY <1>6, <2>1, <2>3
<1> QED
  BY <1>4, <1>5, <1>6

-----------------------------------------------------------------------------
(* The loop of a connection pops a publication for it *)

\* What PubOwn does to u with p.
Serves(l, p, u) ==
    /\ Pops(l, p) /\ p \in Entries /\ u = p.up /\ Owner[u] = l /\ at' = at
    /\ p.kind = "subscribe" => up'[u].subscribed = TRUE
    /\ p.kind = "unsubscribe" => up'[u].subscribed = FALSE
    /\ p.kind \notin {"subscribe", "unsubscribe"} =>
          up'[u].subscribed = up[u].subscribed
    /\ p.kind = "write" => out'[u] = AppendRes(out[u], [kind |-> "text", n |-> p.n])
    /\ p.kind = "close" => out'[u] = AppendRes(out[u], [kind |-> "close"])
    /\ p.kind \notin {"write", "close"} => out'[u] = out[u]
    /\ \A v \in Ups \ {u} : out'[v] = out[v] /\ up'[v].subscribed = up[v].subscribed

LEMMA OwnServes ==
  ASSUME Inv, NEW l \in Loops, PubOwn(l)
  PROVE  \E u \in Ups : \E p : Serves(l, p, u)
<1>1. PICK p, u : p = Head(pubs[l]) /\ u = p.up
  OBVIOUS
<1>2. PICK ref, pending : /\ list' = IF ref <= 0 THEN Without(u) ELSE list
                          /\ up' = [up EXCEPT ![u] =
                                [ref |-> ref, pending |-> pending,
                                 subscribed |-> CASE p.kind = "subscribe" -> TRUE
                                                  [] p.kind = "unsubscribe" -> FALSE
                                                  [] OTHER -> @.subscribed]]
  BY <1>1 DEF PubOwn
<1>3. /\ at[l] = Idle /\ pubs[l] # <<>>
      /\ p.kind # "publish" /\ Owner[u] = l /\ con[u] # "gone" /\ Popped(l)
      /\ UNCHANGED <<con, wire, opened, at, log>>
  BY <1>1 DEF PubOwn, callVars
<1>4. PICK res : res = CASE p.kind = "write" -> <<[kind |-> "text", n |-> p.n]>>
                         [] p.kind = "close" -> <<[kind |-> "close"]>>
                         [] OTHER -> <<>>
  OBVIOUS
<1>5. out' = [out EXCEPT ![u] = IF res = <<>> THEN @ ELSE AppendRes(@, res[1])]
  BY <1>1, <1>4 DEF PubOwn
<1>6. p \in Entries
  <2>1. pubs[l] \in Seq(Entries)
    BY DEF Inv, Shape, QueueShape
  <2> QED
    BY <1>1, <1>3, <2>1, HeadTailProperties
<1>7. u \in Ups
  BY <1>1, <1>3, <1>6 DEF Entries, Pub
<1>8. up \in [Ups -> Records] /\ out \in [Ups -> Seq(Responses)]
  BY DEF Inv, Shape, UpShape, ConShape
<1>9. /\ p.kind = "subscribe" => up'[u].subscribed = TRUE
      /\ p.kind = "unsubscribe" => up'[u].subscribed = FALSE
      /\ p.kind \notin {"subscribe", "unsubscribe"} =>
            up'[u].subscribed = up[u].subscribed
  BY <1>2, <1>7, <1>8
<1>10. /\ p.kind = "write" => out'[u] = AppendRes(out[u], [kind |-> "text", n |-> p.n])
       /\ p.kind = "close" => out'[u] = AppendRes(out[u], [kind |-> "close"])
       /\ p.kind \notin {"write", "close"} => out'[u] = out[u]
  <2>1. PICK x, y : x = [kind |-> "text", n |-> p.n] /\ y = [kind |-> "close"]
    OBVIOUS
  <2>2. p.kind = "write" => res = <<x>>
    BY <1>4, <2>1
  <2>3. p.kind = "close" => res = <<y>>
    BY <1>4, <2>1
  <2>4. p.kind \notin {"write", "close"} => res = <<>>
    BY <1>4
  <2>5. out'[u] = IF res = <<>> THEN out[u] ELSE AppendRes(out[u], res[1])
    BY <1>5, <1>7, <1>8
  <2>6. <<x>> # <<>> /\ <<x>>[1] = x /\ <<y>> # <<>> /\ <<y>>[1] = y
    OBVIOUS
  <2> QED
    BY <2>1, <2>2, <2>3, <2>4, <2>5, <2>6
<1>11. \A v \in Ups \ {u} : out'[v] = out[v] /\ up'[v].subscribed = up[v].subscribed
  BY <1>2, <1>5, <1>8
<1>12. Relisted
  BY <1>2, <1>7 DEF Relisted
<1>13. ~Walks(l)'
  BY <1>3 DEF Walks, Idle
<1>14. Pops(l, p)
  BY <1>1, <1>3, <1>12, <1>13 DEF Pops
<1>15. Serves(l, p, u)
  BY <1>1, <1>3, <1>6, <1>9, <1>10, <1>11, <1>14 DEF Serves
<1> QED
  BY <1>7, <1>15

\* What the pop means for the connection it is for.
LEMMA ServesPop ==
  ASSUME Inv, WInv, NEW l \in Loops, NEW u \in Ups, NEW p, Serves(l, p, u),
         con[u] = "open"
  PROVE  /\ \A n : Seen(l, n)' <=> Seen(l, n) \/ (p.n # 0 /\ n = p.n)
         /\ p.n # 0 => /\ p.n \in DOMAIN log
                       /\ \A m \in DOMAIN log : Seen(l, m) <=> m < p.n
                       /\ \A kind : Asked(p.n, u, kind) <=> p.kind = kind
         /\ p.n = 0 => p.kind = "close"
         /\ \A n : Carried(u, n) => n < p.n \/ p.n = 0
         /\ \A n : Carried(u, n) => Seen(l, n)
         /\ \A n \in Expected(u) : Seen(l, n) => Carried(u, n)
         /\ ~Walks(l) /\ ~Walks(l)' /\ Flow(u) /\ log' = log /\ l = Owner[u]
<1>1. /\ pubs[l] # <<>> /\ Popped(l) /\ log' = log /\ p = Head(pubs[l])
      /\ u = p.up /\ Owner[u] = l /\ ~Walks(l)'
  BY DEF Serves, Pops
<1>2. ~Walks(l)
  BY DEF Serves, Pops, Walks, Idle
<1>3. /\ \A n : Seen(l, n)' <=> Seen(l, n) \/ (p.n # 0 /\ n = p.n)
      /\ p.n # 0 => /\ p.n \in DOMAIN log /\ p = log[p.n]
                    /\ \A m \in DOMAIN log : Seen(l, m) <=> m < p.n
      /\ p.n = 0 => p.kind = "close"
  BY <1>1, QueuePop DEF WInv
<1>4. Flow(u)
  BY DEF WInv, Flows
<1>5. \A n : Carried(u, n) => n \in 1..MaxCalls
  <2>1. out[u] \in Seq(Responses) /\ wire[u] \in Seq(1..MaxCalls)
    BY WireTypes DEF WireShape
  <2>2. \A i \in DOMAIN out[u] : out[u][i] \in Responses
    BY <2>1
  <2>3. \A i \in DOMAIN wire[u] : wire[u][i] \in 1..MaxCalls
    BY <2>1, ElementOfSeq, WireTypes DEF WireShape
  <2> QED
    BY <2>2, <2>3 DEF Carried, Sent, Waits, Text, Responses
<1>6. \A n : Carried(u, n) => Seen(l, n)
  BY <1>1, <1>4, <1>5 DEF Flow, Behind
<1>7. \A n : Seen(l, n) => n \in DOMAIN log
  BY DEF Seen
<1>8. \A n \in Expected(u) : Seen(l, n) => Carried(u, n)
  BY <1>1, <1>2, <1>4 DEF Flow, Complete
<1>9. p.n # 0 => \A kind : Asked(p.n, u, kind) <=> p.kind = kind
  BY <1>1, <1>3 DEF Asked
<1> QED
  BY <1>1, <1>2, <1>3, <1>4, <1>6, <1>7, <1>8, <1>9

LEMMA ServesList ==
  ASSUME Inv, Inv', WInv, NEW l \in Loops, NEW u \in Ups, NEW p, Serves(l, p, u),
         con[u] = "open"
  PROVE  /\ InOrder(u)'
         /\ \A n : Carried(u, n)' <=> Carried(u, n) \/ (p.kind = "write" /\ p.n = n)
         /\ \A i \in DOMAIN out'[u] :
               Text(u, i)' /\ (\A j \in 1..i : out'[u][j].kind # "close") =>
                  out'[u][i].n \in Expected(u)
         /\ (\E i \in DOMAIN out[u] : out[u][i].kind = "close") \/ p.kind = "close" =>
               \E i \in DOMAIN out'[u] : out'[u][i].kind = "close"
<1>1. /\ p.n # 0 => /\ p.n \in DOMAIN log
                    /\ \A m \in DOMAIN log : Seen(l, m) <=> m < p.n
                    /\ \A kind : Asked(p.n, u, kind) <=> p.kind = kind
      /\ p.n = 0 => p.kind = "close"
      /\ \A n : Carried(u, n) => n < p.n \/ p.n = 0
      /\ Flow(u) /\ log' = log /\ l = Owner[u]
  BY ServesPop
<1>2. wire'[u] = wire[u]
  BY DEF Serves, Pops
<1>3. CASE p.kind = "write"
  <2>1. PICK r : r = [kind |-> "text", n |-> p.n]
    OBVIOUS
  <2>2. r.kind = "text" /\ r.n = p.n /\ p.n # 0
    BY <1>1, <1>3, <2>1
  <2>3. Appended(u, r)
    BY <1>3, <2>1, AppendedDef DEF Serves
  <2>4. ASSUME \A i \in DOMAIN out[u] : out[u][i].kind # "close"
        PROVE  r.n \in Expected(u)
    <3>1. DOMAIN log = 1..Len(log) /\ Len(log) \in Nat
      BY WireTypes DEF WireShape
    <3>2. \A i \in 1..(p.n - 1) : i \in DOMAIN log /\ i < p.n
      BY <1>1, <2>2, <3>1
    <3>3. \A i \in 1..(p.n - 1) : ~Asked(i, u, "close")
      BY <1>1, <2>2, <2>4, <3>2 DEF Flow, Ends
    <3>4. Asked(p.n, u, "write") /\ p.n \in DOMAIN log
      BY <1>1, <1>3, <2>2
    <3> QED
      BY <2>2, <3>3, <3>4 DEF Expected
  <2>5. \A n : Carried(u, n) => n < r.n
    BY <1>1, <2>2
  <2>6. p.kind # "close"
    BY <1>3
  <2> QED
    BY <1>1, <1>2, <1>3, <2>2, <2>3, <2>4, <2>5, <2>6, AppendKeeps
<1>4. CASE p.kind = "close"
  <2>1. PICK r : r = [kind |-> "close"]
    OBVIOUS
  <2>2. r.kind = "close"
    BY <2>1
  <2>3. Appended(u, r)
    BY <1>4, <2>1, AppendedDef DEF Serves
  <2>4. p.kind # "write" /\ r.kind # "text"
    BY <1>4, <2>2
  <2> QED
    BY <1>1, <1>2, <1>4, <2>2, <2>3, <2>4, AppendKeeps
<1>5. CASE p.kind \notin {"write", "close"}
  <2>1. out'[u] = out[u]
    BY <1>5 DEF Serves
  <2>2. InOrder(u)'
    BY <1>1, <1>2, <2>1 DEF Flow, InOrder, Text
  <2>3. \A n : Carried(u, n)' <=> Carried(u, n)
    BY <1>2, <2>1 DEF Carried, Sent, Waits, Text
  <2>4. \A i \in DOMAIN out'[u] :
               Text(u, i)' /\ (\A j \in 1..i : out'[u][j].kind # "close") =>
                  out'[u][i].n \in Expected(u)
    BY <1>1, <2>1 DEF Flow, Ends, Text
  <2> QED
    BY <1>5, <2>1, <2>2, <2>3, <2>4
<1> QED
  BY <1>3, <1>4, <1>5

LEMMA ServesFlow ==
  ASSUME Inv, Inv', WInv, NEW l \in Loops, NEW u \in Ups, NEW p, Serves(l, p, u),
         con[u] = "open"
  PROVE  Flow(u)'
<1>1. /\ \A n : Seen(l, n)' <=> Seen(l, n) \/ (p.n # 0 /\ n = p.n)
      /\ p.n # 0 => /\ p.n \in DOMAIN log
                    /\ \A m \in DOMAIN log : Seen(l, m) <=> m < p.n
                    /\ \A kind : Asked(p.n, u, kind) <=> p.kind = kind
      /\ p.n = 0 => p.kind = "close"
      /\ \A n : Carried(u, n) => Seen(l, n)
      /\ \A n \in Expected(u) : Seen(l, n) => Carried(u, n)
      /\ ~Walks(l) /\ ~Walks(l)' /\ Flow(u) /\ log' = log /\ l = Owner[u]
  BY ServesPop
<1>2. /\ InOrder(u)'
      /\ \A n : Carried(u, n)' <=> Carried(u, n) \/ (p.kind = "write" /\ p.n = n)
      /\ \A i \in DOMAIN out'[u] :
            Text(u, i)' /\ (\A j \in 1..i : out'[u][j].kind # "close") =>
               out'[u][i].n \in Expected(u)
      /\ (\E i \in DOMAIN out[u] : out[u][i].kind = "close") \/ p.kind = "close" =>
            \E i \in DOMAIN out'[u] : out'[u][i].kind = "close"
  BY ServesList
<1>3. /\ \A n, kind : Asked(n, u, kind)' <=> Asked(n, u, kind)
      /\ \A n : n \in Expected(u)' <=> n \in Expected(u)
  BY <1>1 DEF Asked, Expected, Subscribed
<1>4. Behind(u)'
  <2>1. p.kind = "write" => p.n # 0
    BY <1>1
  <2>2. \A n : Carried(u, n)' => Seen(l, n)'
    BY <1>1, <1>2, <2>1
  <2> QED
    BY <1>1, <2>2 DEF Behind
<1>5. Agrees(u)'
  <2>1. /\ p.n = 0 \/ (~Asked(p.n, u, "subscribe") /\ ~Asked(p.n, u, "unsubscribe")) =>
               (Joined(u)' <=> Joined(u))
        /\ p.n # 0 /\ Asked(p.n, u, "subscribe") => Joined(u)'
        /\ p.n # 0 /\ Asked(p.n, u, "unsubscribe") => ~Joined(u)'
    BY <1>1, JoinedPop
  <2>2. up[u].subscribed <=> Joined(u)
    BY <1>1 DEF Flow, Agrees
  <2>3. CASE p.kind = "subscribe"
    <3>1. p.n # 0 /\ Asked(p.n, u, "subscribe") /\ up'[u].subscribed = TRUE
      BY <1>1, <2>3 DEF Serves
    <3> QED
      BY <2>1, <3>1 DEF Agrees
  <2>4. CASE p.kind = "unsubscribe"
    <3>1. p.n # 0 /\ Asked(p.n, u, "unsubscribe") /\ up'[u].subscribed = FALSE
      BY <1>1, <2>4 DEF Serves
    <3> QED
      BY <2>1, <3>1 DEF Agrees
  <2>5. CASE p.kind \notin {"subscribe", "unsubscribe"}
    <3>1. /\ p.n = 0 \/ (~Asked(p.n, u, "subscribe") /\ ~Asked(p.n, u, "unsubscribe"))
          /\ up'[u].subscribed = up[u].subscribed
      BY <1>1, <2>5 DEF Serves
    <3> QED
      BY <2>1, <2>2, <3>1 DEF Agrees
  <2> QED
    BY <2>3, <2>4, <2>5
<1>6. Ends(u)'
  <2>1. ASSUME NEW n \in DOMAIN log', Seen(l, n)', Asked(n, u, "close")'
        PROVE  \E i \in DOMAIN out'[u] : out'[u][i].kind = "close"
    <3>1. CASE Seen(l, n)
      BY <1>1, <1>2, <1>3, <2>1, <3>1 DEF Flow, Ends
    <3>2. CASE p.n # 0 /\ n = p.n
      BY <1>1, <1>2, <1>3, <2>1, <3>2
    <3> QED
      BY <1>1, <2>1, <3>1, <3>2
  <2>2. ASSUME NEW i \in DOMAIN out'[u], Text(u, i)',
               \A j \in 1..i : out'[u][j].kind # "close"
        PROVE  out'[u][i].n \in Expected(u)'
    BY <1>2, <1>3, <2>2
  <2> QED
    BY <1>1, <2>1, <2>2 DEF Ends
<1>7. Complete(u)'
  <2>1. ASSUME NEW n \in Expected(u)', Seen(l, n)' PROVE Carried(u, n)'
    <3>1. n \in Expected(u)
      BY <1>3
    <3>2. CASE Seen(l, n)
      BY <1>1, <1>2, <3>1, <3>2
    <3>3. CASE p.n # 0 /\ n = p.n
      <4>1. Asked(n, u, p.kind) /\ (Asked(n, u, "write") \/ Asked(n, NULL, "publish"))
        BY <1>1, <3>1, <3>3 DEF Expected
      <4>2. p.kind # "publish"
        BY DEF Serves, Pops
      <4>3. p.kind = "write"
        BY <4>1, <4>2 DEF Asked
      <4> QED
        BY <1>2, <3>3, <4>3
    <3> QED
      BY <1>1, <2>1, <3>2, <3>3
  <2> QED
    BY <1>1, <2>1 DEF Complete
<1> QED
  BY <1>2, <1>4, <1>5, <1>6, <1>7 DEF Flow

LEMMA OwnWire ==
  ASSUME Inv, Inv', WInv, NEW l \in Loops, PubOwn(l)
  PROVE  WInv'
<1>1. PICK u \in Ups : \E p : Serves(l, p, u)
  BY OwnServes
<1>2. PICK p : Serves(l, p, u)
  BY <1>1
<1>3. Pops(l, p) /\ u = p.up /\ Owner[u] = l
  BY <1>2 DEF Serves
<1>4. \A v \in Ups : con[v] = "open" /\ ~(Owner[v] = l /\ p.up = v) =>
         out'[v] = out[v] /\ up'[v].subscribed = up[v].subscribed
  BY <1>2, <1>3 DEF Serves
<1>5. /\ Logged' /\ Queues' /\ Walking' /\ WireAsCalled'
      /\ \A v \in Ups : con[v] = "open" /\ ~(Owner[v] = l /\ p.up = v) => Flow(v)'
  BY <1>3, <1>4, PopsKeep
<1>6. con[u] = "open" => Flow(u)'
  BY <1>2, ServesFlow
<1>7. con' = con
  BY <1>3 DEF Pops
<1>8. ASSUME NEW v \in Ups, con'[v] = "open" PROVE Flow(v)'
  BY <1>3, <1>5, <1>6, <1>7, <1>8
<1> QED
  BY <1>5, <1>8 DEF WInv, Flows

-----------------------------------------------------------------------------
(* A walk over the records begins *)

\* Who is to get a publication has a record on the list.
LEMMA ExpectedLive ==
  ASSUME Inv, WInv, NEW u \in Ups, con[u] # "gone", NEW n \in Expected(u),
         log[n].kind = "publish"
  PROVE  u \in Live
<1>1. DOMAIN log = 1..Len(log) /\ Len(log) \in Nat
  BY WireTypes DEF WireShape
<1>2. Subscribed(u, n)
  BY DEF Expected, Asked
<1>3. PICK i \in 1..n : Asked(i, u, "subscribe")
  BY <1>2 DEF Subscribed
<1>4. u \in opened
  BY <1>3 DEF Asked, WInv, Logged
<1> QED
  BY <1>4, ConLive

\* What PubWalk does.
Begins(l, p) ==
    /\ at[l] = Idle /\ pubs[l] # <<>> /\ p = Head(pubs[l]) /\ Popped(l)
    /\ p.kind = "publish" /\ p.n # 0
    /\ UNCHANGED <<con, wire, out, log, opened, list, up>>
    /\ \A k \in Loops \ {l} : at'[k] = at[k]
    /\ list = <<>> => ~Walks(l)'
    /\ list # <<>> => Walks(l)' /\ at'[l].up = list[1] /\ at'[l].n = p.n

LEMMA WalkBegins ==
  ASSUME Inv, NEW l \in Loops, PubWalk(l)
  PROVE  \E p : Begins(l, p)
<1>1. PICK p : p = Head(pubs[l])
  OBVIOUS
<1>2. /\ at[l] = Idle /\ pubs[l] # <<>> /\ Popped(l) /\ p.kind = "publish"
      /\ UNCHANGED <<con, wire, out, log, opened, list, up>>
  BY <1>1 DEF PubWalk, conVars, upVars, callVars
<1>3. at' = [at EXCEPT ![l] = IF list = <<>> THEN Idle
                              ELSE [at |-> "walk", up |-> Head(list), n |-> p.n]]
  BY <1>1 DEF PubWalk
<1>4. at \in [Loops -> Visits] /\ pubs[l] \in Seq(Entries) /\ list \in Seq(Ups)
  BY DEF Inv, Shape, QueueShape, UpShape
<1>5. p \in Entries
  BY <1>1, <1>2, <1>4, HeadTailProperties
<1>6. p.n # 0
  BY <1>2, <1>5 DEF Entries
<1>7. PICK x : x = Head(list)
  OBVIOUS
<1>8. list # <<>> => x = list[1]
  BY <1>4, <1>7
<1>9. \A k \in Loops \ {l} : at'[k] = at[k]
  BY <1>3, <1>4
<1>10. list = <<>> => ~Walks(l)'
  BY <1>3, <1>4 DEF Walks, Idle
<1>11. list # <<>> => Walks(l)' /\ at'[l].up = x /\ at'[l].n = p.n
  BY <1>3, <1>4, <1>7 DEF Walks
<1>12. Begins(l, p)
  BY <1>1, <1>2, <1>6, <1>8, <1>9, <1>10, <1>11 DEF Begins
<1> QED
  BY <1>12

LEMMA BeginsFlow ==
  ASSUME Inv, Inv', WInv, NEW l \in Loops, NEW p, Begins(l, p), NEW u \in Ups,
         con[u] = "open", l = Owner[u]
  PROVE  Flow(u)'
<1>1. /\ at[l] = Idle /\ pubs[l] # <<>> /\ p = Head(pubs[l]) /\ Popped(l)
      /\ p.kind = "publish" /\ p.n # 0
      /\ wire' = wire /\ out' = out /\ log' = log /\ list' = list /\ up' = up
  BY DEF Begins
<1>2. /\ \A n : Seen(l, n)' <=> Seen(l, n) \/ n = p.n
      /\ p.n \in DOMAIN log /\ p = log[p.n]
      /\ \A m \in DOMAIN log : Seen(l, m) <=> m < p.n
  BY <1>1, QueuePop DEF WInv
<1>3. Flow(u)
  BY DEF WInv, Flows
<1>4. ~Walks(l)
  BY <1>1 DEF Walks, Idle
<1>5. /\ \A n, kind : Asked(n, u, kind)' <=> Asked(n, u, kind)
      /\ \A n : n \in Expected(u)' <=> n \in Expected(u)
  BY <1>1 DEF Asked, Expected, Subscribed
<1>6. \A n : Carried(u, n)' <=> Carried(u, n)
  BY <1>1 DEF Carried, Sent, Waits, Text
<1>7. InOrder(u)'
  BY <1>1, <1>3 DEF Flow, InOrder, Text
<1>8. Walks(l)' => list # <<>> /\ at'[l].n = p.n
  BY DEF Begins
<1>9. Behind(u)'
  <2>1. SUFFICES ASSUME NEW n \in 1..MaxCalls, Carried(u, n)'
                 PROVE  Seen(l, n)' /\ (Walks(l)' => n < at'[l].n)
    BY DEF Behind
  <2>2. Seen(l, n)
    BY <1>3, <1>6, <2>1 DEF Flow, Behind
  <2>3. n < p.n
    BY <1>2, <2>2 DEF Seen
  <2> QED
    BY <1>2, <1>8, <2>2, <2>3
<1>10. \A kind : kind # "publish" => ~Asked(p.n, u, kind)
  BY <1>1, <1>2 DEF Asked
<1>11. Agrees(u)'
  <2>1. ~Asked(p.n, u, "subscribe") /\ ~Asked(p.n, u, "unsubscribe")
    BY <1>10
  <2>2. \A n : Seen(l, n)' <=> Seen(l, n) \/ (p.n # 0 /\ n = p.n)
    BY <1>1, <1>2
  <2>3. Joined(u)' <=> Joined(u)
    BY <1>1, <1>2, <2>1, <2>2, JoinedPop
  <2> QED
    BY <1>1, <1>3, <2>3 DEF Flow, Agrees
<1>12. Ends(u)'
  <2>1. ASSUME NEW n \in DOMAIN log', Seen(l, n)', Asked(n, u, "close")'
        PROVE  \E i \in DOMAIN out'[u] : out'[u][i].kind = "close"
    BY <1>1, <1>2, <1>3, <1>5, <1>10, <2>1 DEF Flow, Ends
  <2>2. ASSUME NEW i \in DOMAIN out'[u], Text(u, i)',
               \A j \in 1..i : out'[u][j].kind # "close"
        PROVE  out'[u][i].n \in Expected(u)'
    BY <1>1, <1>3, <1>5, <2>2 DEF Flow, Ends, Text
  <2> QED
    BY <2>1, <2>2 DEF Ends
<1>13. Complete(u)'
  <2>1. SUFFICES ASSUME NEW n \in Expected(u)', Seen(l, n)'
                 PROVE  \/ Carried(u, n)'
                        \/ Walks(l)' /\ n = at'[l].n /\ Ahead(l, u)'
    BY DEF Complete
  <2>2. n \in Expected(u)
    BY <1>5
  <2>3. CASE Seen(l, n)
    BY <1>3, <1>4, <1>6, <2>2, <2>3 DEF Flow, Complete
  <2>4. CASE n = p.n
    <3>1. u \in Live
      BY <1>1, <1>2, <2>2, <2>4, ExpectedLive
    <3>2. PICK j \in DOMAIN list : list[j] = u
      BY <3>1 DEF Live
    <3>3. list \in Seq(Ups) /\ DOMAIN list = 1..Len(list) /\ Len(list) \in Nat
      BY WireTypes DEF WireShape
    <3>4. list # <<>> /\ 1 \in DOMAIN list /\ 1 <= j
      BY <3>2, <3>3
    <3>5. Walks(l)' /\ at'[l].up = list[1] /\ at'[l].n = p.n
      BY <3>4 DEF Begins
    <3>6. Ahead(l, u)'
      BY <1>1, <3>2, <3>4, <3>5 DEF Ahead
    <3> QED
      BY <2>4, <3>5, <3>6
  <2> QED
    BY <1>2, <2>1, <2>3, <2>4
<1> QED
  BY <1>7, <1>9, <1>11, <1>12, <1>13 DEF Flow

LEMMA WalkWire ==
  ASSUME Inv, Inv', WInv, NEW l \in Loops, PubWalk(l)
  PROVE  WInv'
<1>1. PICK p : Begins(l, p)
  BY WalkBegins
<1>2. /\ at[l] = Idle /\ pubs[l] # <<>> /\ p = Head(pubs[l]) /\ Popped(l)
      /\ p.kind = "publish" /\ p.n # 0 /\ log' = log /\ list' = list
      /\ UNCHANGED <<con, wire, out, log, opened, list, up>>
      /\ \A k \in Loops \ {l} : at'[k] = at[k]
  BY <1>1 DEF Begins
<1>3. /\ Queues'
      /\ \A k \in Loops : k # l => \A n : Seen(k, n)' <=> Seen(k, n)
      /\ \A n : Seen(l, n)' <=> Seen(l, n) \/ n = p.n
      /\ p.n \in DOMAIN log /\ p = log[p.n]
      /\ \A m \in DOMAIN log : Seen(l, m) <=> m < p.n
  BY <1>2, QueuePop DEF WInv
<1>4. LogGrows /\ Logged'
  BY <1>2 DEF LogGrows, WInv, Logged
<1>5. Walking'
  <2>1. SUFFICES ASSUME NEW k \in Loops, Walks(k)'
                 PROVE  (/\ at[k].up \in opened
                         /\ Seen(k, at[k].n) /\ log[at[k].n].kind = "publish"
                         /\ \A n \in DOMAIN log : Seen(k, n) => n <= at[k].n)'
    BY DEF Walking
  <2>2. CASE k = l
    <3>1. list # <<>> /\ at'[l].up = list[1] /\ at'[l].n = p.n
      BY <1>1, <2>1, <2>2 DEF Begins
    <3>2. /\ list \in Seq(Ups) /\ DOMAIN list = 1..Len(list) /\ Len(list) \in Nat
          /\ Live \subseteq opened /\ DOMAIN log = 1..Len(log) /\ Len(log) \in Nat
      BY WireTypes DEF WireShape
    <3>3. 1 \in DOMAIN list
      BY <3>1, <3>2
    <3>4. list[1] \in opened
      BY <3>2, <3>3 DEF Live
    <3>5. Seen(l, p.n)'
      BY <1>3
    <3>6. \A n \in DOMAIN log : Seen(l, n)' => n <= p.n
      BY <1>3, <3>2
    <3> QED
      BY <1>2, <1>3, <2>2, <3>1, <3>4, <3>5, <3>6
  <2>3. CASE k # l
    <3>1. at'[k] = at[k] /\ Walks(k)
      BY <1>2, <2>1, <2>3 DEF Walks
    <3>2. PICK m : m = at[k].n /\ m = at'[k].n
      BY <3>1
    <3>3. /\ at[k].up \in opened
          /\ Seen(k, m) /\ log[m].kind = "publish"
          /\ \A n \in DOMAIN log : Seen(k, n) => n <= m
      BY <3>1, <3>2 DEF WInv, Walking
    <3>4. Seen(k, m)' /\ \A n \in DOMAIN log : Seen(k, n)' => n <= m
      BY <1>3, <2>3, <3>3
    <3> QED
      BY <1>2, <3>1, <3>2, <3>3, <3>4
  <2> QED
    BY <2>2, <2>3
<1>6. WireAsCalled'
  BY <1>2, <1>4, WireKept DEF WInv
<1>7. ASSUME NEW u \in Ups, con'[u] = "open" PROVE Flow(u)'
  <2>1. con[u] = "open" /\ Owner[u] \in Loops
    BY <1>2, <1>7, UpgradedAssumption
  <2>2. CASE l = Owner[u]
    BY <1>1, <2>1, <2>2, BeginsFlow
  <2>3. CASE l # Owner[u]
    <3>1. PICK k \in Loops : k = Owner[u] /\ k # l
      BY <2>1, <2>3
    <3>2. at'[k] = at[k] /\ \A n : Seen(k, n)' <=> Seen(k, n)
      BY <1>2, <1>3, <3>1
    <3>3. Around(u)
      BY <1>2, <1>4, <1>7, <3>1, <3>2, Beside DEF Relisted, WInv
    <3>4. Flow(u)
      BY <2>1 DEF WInv, Flows
    <3> QED
      BY <3>3, <3>4, FlowKept
  <2> QED
    BY <2>2, <2>3
<1> QED
  BY <1>3, <1>4, <1>5, <1>6, <1>7 DEF WInv, Flows

-----------------------------------------------------------------------------
(* A walk comes to a record *)

\* What PubVisit does at the record w, for the publication n.
Moved(l, w, n) ==
    /\ Walks(l) /\ w = at[l].up /\ n = at[l].n /\ w \in Live
    /\ UNCHANGED <<con, wire, log, opened, list, up, pubs>>
    /\ \A k \in Loops \ {l} : at'[k] = at[k]
    /\ \A v \in Ups \ {w} : out'[v] = out[v]
    /\ IF con[w] # "gone" /\ Owner[w] = l /\ up[w].subscribed
         THEN out'[w] = AppendRes(out[w], [kind |-> "text", n |-> n])
         ELSE out'[w] = out[w]
    /\ Walks(l)' => at'[l].n = n /\ at'[l].up \in Live
    /\ \A v : Walks(l)' /\ Ahead(l, v)' <=> Ahead(l, v) /\ v # w

LEMMA VisitMoves ==
  ASSUME Inv, NEW l \in Loops, PubVisit(l), at[l].up \in Live
  PROVE  \E w \in Ups : \E n : Moved(l, w, n)
<1>1. PICK w, n : w = at[l].up /\ n = at[l].n
  OBVIOUS
<1>2. /\ list \in Seq(Ups) /\ Len(list) \in Nat /\ DOMAIN list = 1..Len(list)
      /\ IsInjective(list) /\ Live \subseteq opened /\ opened \subseteq Ups
  BY WireTypes DEF WireShape
<1>3. w \in Ups /\ w \in Live /\ Walks(l)
  BY <1>1, <1>2 DEF PubVisit, Walks
<1>4. PICK i \in 1..Len(list) : list[i] = w
  BY <1>2, <1>3 DEF Live
<1>5. \A j \in 1..Len(list) : list[j] = w => j = i
  BY <1>2, <1>4 DEF IsInjective
<1>6. PICK next : next = {j \in DOMAIN list : j > 1 /\ list[j - 1] = w}
  OBVIOUS
<1>7. /\ out' = [out EXCEPT ![w] =
              IF con[w] # "gone" /\ Owner[w] = l /\ up[w].subscribed
                THEN AppendRes(@, [kind |-> "text", n |-> n]) ELSE @]
      /\ at' = [at EXCEPT ![l] = IF next = {} THEN Idle
                                 ELSE [@ EXCEPT !.up = list[CHOOSE j \in next : TRUE]]]
      /\ UNCHANGED <<con, wire, log, opened, list, up, pubs>>
  BY <1>1, <1>3, <1>6 DEF PubVisit, upVars, callVars
<1>8. out \in [Ups -> Seq(Responses)] /\ at \in [Loops -> Visits]
  BY DEF Inv, Shape, ConShape, QueueShape
<1>9. at[l] \in [at : {"walk"}, up : Ups, n : 1..MaxCalls]
  BY <1>3, <1>8 DEF Visits, Walks, Idle
<1>10. next = IF i < Len(list) THEN {i + 1} ELSE {}
  <2>1. \A j \in 1..Len(list) : j > 1 => j - 1 \in 1..Len(list)
    BY <1>2
  <2>2. \A j \in next : j = i + 1 /\ i < Len(list)
    BY <1>2, <1>5, <1>6, <2>1
  <2>3. i < Len(list) => i + 1 \in 1..Len(list) /\ i + 1 > 1 /\ (i + 1) - 1 = i
    BY <1>2
  <2>4. i < Len(list) => i + 1 \in next
    BY <1>2, <1>4, <1>6, <2>3
  <2> QED
    BY <2>2, <2>4
<1>11. /\ \A k \in Loops \ {l} : at'[k] = at[k]
       /\ \A v \in Ups \ {w} : out'[v] = out[v]
       /\ IF con[w] # "gone" /\ Owner[w] = l /\ up[w].subscribed
            THEN out'[w] = AppendRes(out[w], [kind |-> "text", n |-> n])
            ELSE out'[w] = out[w]
  BY <1>3, <1>7, <1>8
<1>12. \A v : Ahead(l, v) <=> \E j \in 1..Len(list) : i <= j /\ list[j] = v
  BY <1>1, <1>2, <1>4, <1>5 DEF Ahead
<1>13. CASE i < Len(list)
  <2>1. PICK x : x = list[i + 1]
    OBVIOUS
  <2>2. i + 1 \in 1..Len(list) /\ x \in Live
    BY <1>2, <1>13, <2>1 DEF Live
  <2>3. next # {} /\ (CHOOSE j \in next : TRUE) = i + 1
    BY <1>10, <1>13
  <2>4. at'[l] = [at[l] EXCEPT !.up = x]
    BY <1>7, <1>8, <2>1, <2>3
  <2>5. Walks(l)' /\ at'[l].n = n /\ at'[l].up = x
    BY <1>1, <1>9, <2>4 DEF Walks
  <2>6. \A j \in 1..Len(list) : list[j] = x => j = i + 1
    BY <1>2, <2>1, <2>2 DEF IsInjective
  <2>7. \A v : Ahead(l, v)' <=> \E j \in 1..Len(list) : i + 1 <= j /\ list[j] = v
    BY <1>2, <1>7, <2>1, <2>2, <2>5, <2>6 DEF Ahead
  <2>8. \A j \in 1..Len(list) : i + 1 <= j <=> i <= j /\ j # i
    BY <1>2
  <2>9. \A v : Ahead(l, v)' <=> Ahead(l, v) /\ v # w
    <3>1. ASSUME NEW v, Ahead(l, v)' PROVE Ahead(l, v) /\ v # w
      <4>1. PICK j \in 1..Len(list) : i + 1 <= j /\ list[j] = v
        BY <2>7, <3>1
      <4> QED
        BY <1>5, <1>12, <2>8, <4>1
    <3>2. ASSUME NEW v, Ahead(l, v), v # w PROVE Ahead(l, v)'
      <4>1. PICK j \in 1..Len(list) : i <= j /\ list[j] = v
        BY <1>12, <3>2
      <4> QED
        BY <1>4, <2>7, <2>8, <3>2, <4>1
    <3> QED
      BY <3>1, <3>2
  <2>10. Moved(l, w, n)
    BY <1>1, <1>3, <1>7, <1>11, <2>2, <2>5, <2>9 DEF Moved
  <2> QED
    BY <1>3, <2>10
<1>14. CASE ~(i < Len(list))
  <2>1. next = {}
    BY <1>10, <1>14
  <2>2. Len(list) \in Nat
    BY <1>2
  <2>3. \A j \in 1..Len(list) : i <= j => j = i
    BY <1>14, <2>2
  <2>4. at'[l] = Idle
    BY <1>7, <1>8, <2>1
  <2>5. ~Walks(l)'
    BY <2>4 DEF Walks, Idle
  <2>6. \A v : Ahead(l, v) => v = w
    BY <1>4, <1>12, <2>3
  <2>7. Moved(l, w, n)
    BY <1>1, <1>3, <1>7, <1>11, <2>5, <2>6 DEF Moved
  <2> QED
    BY <1>3, <2>7
<1> QED
  BY <1>13, <1>14

\* On the walk, the record is subscribed if it was when the call was made.
LEMMA WalkJoined ==
  ASSUME Inv, WInv, NEW l \in Loops, Walks(l), NEW u \in Ups, l = Owner[u],
         NEW n, n = at[l].n
  PROVE  /\ n \in DOMAIN log /\ Seen(l, n)
         /\ Asked(n, NULL, "publish") /\ ~Asked(n, u, "write")
         /\ \A m \in 1..n : m \in DOMAIN log /\ Seen(l, m)
         /\ Joined(u) <=> Subscribed(u, n)
<1>1. /\ Seen(l, n) /\ log[n].kind = "publish"
      /\ \A m \in DOMAIN log : Seen(l, m) => m <= n
  BY DEF WInv, Walking
<1>2. n \in DOMAIN log /\ DOMAIN log = 1..Len(log) /\ Len(log) \in Nat
  BY <1>1, WireTypes DEF Seen, WireShape
<1>3. Asked(n, NULL, "publish") /\ ~Asked(n, u, "write")
  BY <1>1, <1>2 DEF WInv, Logged, Asked
<1>4. \A m \in 1..n : m \in DOMAIN log /\ Seen(l, m)
  BY <1>1, <1>2 DEF WInv, Queues, Gapless
<1>5. ASSUME Joined(u) PROVE Subscribed(u, n)
  <2>1. PICK i \in DOMAIN log :
          /\ Seen(l, i) /\ Asked(i, u, "subscribe")
          /\ \A j \in DOMAIN log : j > i /\ Seen(l, j) => ~Asked(j, u, "unsubscribe")
    BY <1>5 DEF Joined
  <2>2. i \in 1..n
    BY <1>1, <1>2, <2>1
  <2>3. \A j \in (i + 1)..n : j \in 1..n /\ j > i
    BY <1>2, <2>2
  <2>4. \A j \in (i + 1)..n : ~Asked(j, u, "unsubscribe")
    BY <1>4, <2>1, <2>3
  <2> QED
    BY <2>1, <2>2, <2>4 DEF Subscribed
<1>6. ASSUME Subscribed(u, n) PROVE Joined(u)
  <2>1. PICK i \in 1..n : /\ Asked(i, u, "subscribe")
                          /\ \A j \in (i + 1)..n : ~Asked(j, u, "unsubscribe")
    BY <1>6 DEF Subscribed
  <2>2. i \in DOMAIN log /\ Seen(l, i)
    BY <1>4, <2>1
  <2>3. ASSUME NEW j \in DOMAIN log, j > i, Seen(l, j) PROVE j \in (i + 1)..n
    BY <1>1, <1>2, <2>1, <2>3
  <2> QED
    BY <2>1, <2>2, <2>3 DEF Joined
<1> QED
  BY <1>1, <1>2, <1>3, <1>4, <1>5, <1>6

\* The record the walk is at, if its connection is of this loop.
LEMMA MovedFlow ==
  ASSUME Inv, Inv', WInv, NEW l \in Loops, NEW u \in Ups, NEW n, Moved(l, u, n),
         con[u] = "open", l = Owner[u]
  PROVE  Flow(u)'
<1>1. /\ Walks(l) /\ u = at[l].up /\ n = at[l].n /\ u \in Live
      /\ wire' = wire /\ log' = log /\ list' = list /\ up' = up /\ pubs' = pubs
      /\ ~(Walks(l)' /\ Ahead(l, u)')
      /\ IF up[u].subscribed
           THEN out'[u] = AppendRes(out[u], [kind |-> "text", n |-> n])
           ELSE out'[u] = out[u]
  BY DEF Moved
<1>2. Flow(u)
  BY DEF WInv, Flows
<1>3. /\ n \in DOMAIN log /\ Seen(l, n)
      /\ Asked(n, NULL, "publish") /\ ~Asked(n, u, "write")
      /\ \A m \in 1..n : m \in DOMAIN log /\ Seen(l, m)
      /\ Joined(u) <=> Subscribed(u, n)
  BY <1>1, WalkJoined
<1>4. /\ \A m : Seen(l, m)' <=> Seen(l, m)
      /\ \A m, kind : Asked(m, u, kind)' <=> Asked(m, u, kind)
      /\ \A m : m \in Expected(u)' <=> m \in Expected(u)
  BY <1>1 DEF Seen, Asked, Expected, Subscribed
<1>5. Ahead(l, u)
  <2>1. PICK i \in DOMAIN list : list[i] = u
    BY <1>1 DEF Live
  <2>2. i <= i
    BY WireTypes DEF WireShape
  <2> QED
    BY <1>1, <2>1, <2>2 DEF Ahead
<1>6. \A m : Carried(u, m) => Seen(l, m) /\ m < n
  <2>1. \A m : Carried(u, m) => m \in 1..MaxCalls
    <3>1. out[u] \in Seq(Responses) /\ wire[u] \in Seq(1..MaxCalls)
      BY WireTypes DEF WireShape
    <3>2. \A i \in DOMAIN out[u] : out[u][i] \in Responses
      BY <3>1
    <3>3. \A i \in DOMAIN wire[u] : wire[u][i] \in 1..MaxCalls
      BY <3>1, ElementOfSeq, WireTypes DEF WireShape
    <3> QED
      BY <3>2, <3>3 DEF Carried, Sent, Waits, Text, Responses
  <2> QED
    BY <1>1, <1>2, <1>5, <2>1 DEF Flow, Behind
<1>7. up[u].subscribed <=> Subscribed(u, n)
  BY <1>2, <1>3 DEF Flow, Agrees
<1>8. ASSUME \A i \in DOMAIN out[u] : out[u][i].kind # "close", Subscribed(u, n)
      PROVE  n \in Expected(u)
  <2>1. DOMAIN log = 1..Len(log) /\ Len(log) \in Nat
    BY WireTypes DEF WireShape
  <2>2. \A i \in 1..(n - 1) : i \in 1..n
    BY <1>3, <2>1
  <2>3. \A i \in 1..(n - 1) : ~Asked(i, u, "close")
    BY <1>1, <1>2, <1>3, <1>8, <2>2 DEF Flow, Ends
  <2> QED
    BY <1>3, <1>8, <2>3 DEF Expected
<1>9. n \in Expected(u) => Subscribed(u, n)
  BY <1>3 DEF Expected
<1>10. /\ InOrder(u)'
       /\ \A m : Carried(u, m)' <=> Carried(u, m) \/ (up[u].subscribed /\ m = n)
       /\ \A i \in DOMAIN out'[u] :
             Text(u, i)' /\ (\A j \in 1..i : out'[u][j].kind # "close") =>
                out'[u][i].n \in Expected(u)
       /\ (\E i \in DOMAIN out[u] : out[u][i].kind = "close") =>
             \E i \in DOMAIN out'[u] : out'[u][i].kind = "close"
  <2>1. CASE up[u].subscribed
    <3>1. PICK r : r = [kind |-> "text", n |-> n]
      OBVIOUS
    <3>2. r.kind = "text" /\ r.n = n /\ wire'[u] = wire[u]
      BY <1>1, <3>1
    <3>3. Appended(u, r)
      BY <1>1, <2>1, <3>1, AppendedDef
    <3>4. (\A i \in DOMAIN out[u] : out[u][i].kind # "close") => r.n \in Expected(u)
      BY <1>7, <1>8, <2>1, <3>2
    <3>5. \A m : Carried(u, m) => m < r.n
      BY <1>6, <3>2
    <3>6. /\ InOrder(u)'
          /\ \A m : Carried(u, m)' <=> Carried(u, m) \/ (r.kind = "text" /\ r.n = m)
          /\ \A i \in DOMAIN out'[u] :
                Text(u, i)' /\ (\A j \in 1..i : out'[u][j].kind # "close") =>
                   out'[u][i].n \in Expected(u)
          /\ (\E i \in DOMAIN out[u] : out[u][i].kind = "close") \/ r.kind = "close" =>
                \E i \in DOMAIN out'[u] : out'[u][i].kind = "close"
      <4>1. wire'[u] = wire[u] /\ log' = log
        BY <1>1, <3>2
      <4>2. r.kind = "text" =>
               /\ \A m : Carried(u, m) => m < r.n
               /\ (\A i \in DOMAIN out[u] : out[u][i].kind # "close") =>
                     r.n \in Expected(u)
        BY <3>4, <3>5
      <4> QED
        BY <1>2, <3>3, <4>1, <4>2, AppendKeeps
    <3> QED
      BY <2>1, <3>2, <3>6
  <2>2. CASE ~up[u].subscribed
    <3>1. out'[u] = out[u] /\ wire'[u] = wire[u]
      BY <1>1, <2>2
    <3>2. InOrder(u)' /\ \A m : Carried(u, m)' <=> Carried(u, m)
      BY <1>2, <3>1 DEF Flow, InOrder, Carried, Sent, Waits, Text
    <3>3. \A i \in DOMAIN out'[u] :
             Text(u, i)' /\ (\A j \in 1..i : out'[u][j].kind # "close") =>
                out'[u][i].n \in Expected(u)
      BY <1>2, <3>1 DEF Flow, Ends, Text
    <3> QED
      BY <2>2, <3>1, <3>2, <3>3
  <2> QED
    BY <2>1, <2>2
<1>11. Behind(u)'
  <2>1. \A m : Carried(u, m)' => Seen(l, m)'
    BY <1>3, <1>4, <1>6, <1>10
  <2> QED
    BY <1>1, <2>1 DEF Behind
<1>12. Agrees(u)'
  <2>1. Joined(u)' <=> Joined(u)
    BY <1>1, <1>4 DEF Joined
  <2> QED
    BY <1>1, <1>2, <2>1 DEF Flow, Agrees
<1>13. Ends(u)'
  <2>1. ASSUME NEW m \in DOMAIN log', Seen(l, m)', Asked(m, u, "close")'
        PROVE  \E i \in DOMAIN out'[u] : out'[u][i].kind = "close"
    BY <1>1, <1>2, <1>4, <1>10, <2>1 DEF Flow, Ends
  <2>2. ASSUME NEW i \in DOMAIN out'[u], Text(u, i)',
               \A j \in 1..i : out'[u][j].kind # "close"
        PROVE  out'[u][i].n \in Expected(u)'
    BY <1>4, <1>10, <2>2
  <2> QED
    BY <2>1, <2>2 DEF Ends
<1>14. Complete(u)'
  <2>1. ASSUME NEW m \in Expected(u)', Seen(l, m)' PROVE Carried(u, m)'
    <3>1. m \in Expected(u) /\ Seen(l, m)
      BY <1>4, <2>1
    <3>2. Carried(u, m) \/ m = n
      BY <1>1, <1>2, <3>1 DEF Flow, Complete
    <3> QED
      BY <1>7, <1>9, <1>10, <3>1, <3>2
  <2> QED
    BY <2>1 DEF Complete
<1> QED
  BY <1>10, <1>11, <1>12, <1>13, <1>14 DEF Flow

LEMMA VisitWire ==
  ASSUME Inv, Inv', WInv, NEW l \in Loops, PubVisit(l)
  PROVE  WInv'
<1>1. CASE at[l].up \notin Live
  <2>1. UNCHANGED <<con, out, wire, at, pubs, log, opened, list, up>>
    BY <1>1 DEF PubVisit, upVars, callVars
  <2> QED
    BY <2>1, CountsKeep DEF Counts, Relisted
<1>2. CASE at[l].up \in Live
  <2>1. PICK w \in Ups : \E n : Moved(l, w, n)
    BY <1>2, VisitMoves
  <2>2. PICK n : Moved(l, w, n)
    BY <2>1
  <2>3. /\ UNCHANGED <<con, wire, log, opened, list, up, pubs>>
        /\ \A k \in Loops \ {l} : at'[k] = at[k]
        /\ \A v \in Ups \ {w} : out'[v] = out[v]
        /\ Owner[w] # l => out'[w] = out[w]
        /\ Walks(l) /\ w = at[l].up /\ n = at[l].n /\ w \in Live
        /\ Walks(l)' => at'[l].n = n /\ at'[l].up \in Live
        /\ \A v : Walks(l)' /\ Ahead(l, v)' <=> Ahead(l, v) /\ v # w
    BY <2>2 DEF Moved
  <2>4. /\ Logged' /\ Queues' /\ LogGrows
        /\ \A k \in Loops : \A m : Seen(k, m)' <=> Seen(k, m)
    BY <2>3, Quiet
  <2>5. Walking'
    <3>1. ASSUME NEW k \in Loops, Walks(k)'
          PROVE  /\ Walks(k) /\ at'[k].n = at[k].n /\ at'[k].up \in opened'
                 /\ \A m : Seen(k, m)' <=> Seen(k, m)
      <4>1. CASE k = l
        <5>1. Live \subseteq opened
          BY WireTypes DEF WireShape
        <5> QED
          BY <2>3, <2>4, <3>1, <4>1, <5>1
      <4>2. CASE k # l
        <5>1. at'[k] = at[k] /\ Walks(k)
          BY <2>3, <3>1, <4>2 DEF Walks
        <5> QED
          BY <2>3, <2>4, <5>1 DEF WInv, Walking
      <4> QED
        BY <4>1, <4>2
    <3> QED
      BY <2>4, <3>1, WalkingKept DEF WInv
  <2>6. WireAsCalled'
    BY <2>3, <2>4, WireKept DEF WInv
  <2>7. ASSUME NEW u \in Ups, con'[u] = "open" PROVE Flow(u)'
    <3>1. con[u] = "open" /\ Owner[u] \in Loops
      BY <2>3, <2>7, UpgradedAssumption
    <3>2. Flow(u)
      BY <3>1 DEF WInv, Flows
    <3>3. CASE Owner[u] = l /\ u = w
      BY <2>2, <3>1, <3>3, MovedFlow
    <3>4. CASE Owner[u] # l
      <4>1. PICK k \in Loops : k = Owner[u] /\ k # l
        BY <3>1, <3>4
      <4>2. out'[u] = out[u]
        BY <2>3, <3>4
      <4>3. Around(u)
        BY <2>3, <2>4, <2>7, <4>1, <4>2, Beside DEF Relisted, WInv
      <4> QED
        BY <3>2, <4>3, FlowKept
    <3>5. CASE Owner[u] = l /\ u # w
      <4>1. out'[u] = out[u] /\ wire'[u] = wire[u] /\ up'[u].subscribed = up[u].subscribed
        BY <2>3, <3>5
      <4>2. ~Lost(l)
        BY <2>3 DEF Lost
      <4>3. Around(u)
        BY <2>3, <2>4, <3>5, <4>1, <4>2 DEF Around
      <4> QED
        BY <3>2, <4>3, FlowKept
    <3> QED
      BY <3>3, <3>4, <3>5
  <2> QED
    BY <2>4, <2>5, <2>6, <2>7 DEF WInv, Flows
<1> QED
  BY <1>1, <1>2

-----------------------------------------------------------------------------
(* What is done to one list of responses, with the loop at rest *)

\* Only the list of u and what u was sent change.
Alone(u) ==
    /\ UNCHANGED <<con, pubs, at, log, opened, list, up>>
    /\ \A v \in Ups \ {u} : out'[v] = out[v] /\ wire'[v] = wire[v]

LEMMA AloneFlow ==
  ASSUME NEW u \in Ups, Flow(u), Alone(u), InOrder(u)',
         \A n : Carried(u, n)' <=> Carried(u, n),
         \A i \in DOMAIN out'[u] :
            Text(u, i)' /\ (\A j \in 1..i : out'[u][j].kind # "close") =>
               out'[u][i].n \in Expected(u),
         (\E i \in DOMAIN out[u] : out[u][i].kind = "close") =>
            \E i \in DOMAIN out'[u] : out'[u][i].kind = "close"
  PROVE  Flow(u)'
<1>1. UNCHANGED <<pubs, at, log, list, up>>
  BY DEF Alone
<1>2. PICK l : l = Owner[u]
  OBVIOUS
<1>3. /\ \A n : Seen(l, n)' <=> Seen(l, n)
      /\ \A n, kind : Asked(n, u, kind)' <=> Asked(n, u, kind)
      /\ \A n : n \in Expected(u)' <=> n \in Expected(u)
      /\ Walks(l)' <=> Walks(l)
      /\ Ahead(l, u)' <=> Ahead(l, u)
      /\ Lost(l)' <=> Lost(l)
  BY <1>1 DEF Seen, Asked, Expected, Subscribed, Walks, Ahead, Lost, Live
<1>4. Behind(u)'
  BY <1>1, <1>2, <1>3 DEF Flow, Behind
<1>5. Agrees(u)'
  <2>1. Joined(u)' <=> Joined(u)
    BY <1>1, <1>2, <1>3 DEF Joined
  <2> QED
    BY <1>1, <2>1 DEF Flow, Agrees
<1>6. Ends(u)'
  BY <1>1, <1>2, <1>3 DEF Flow, Ends
<1>7. Complete(u)'
  BY <1>1, <1>2, <1>3 DEF Flow, Complete
<1> QED
  BY <1>4, <1>5, <1>6, <1>7 DEF Flow

LEMMA AloneKeeps ==
  ASSUME Inv, Inv', WInv, NEW u \in Ups, Alone(u), con[u] = "open" => Flow(u)',
         WireAsCalled'
  PROVE  WInv'
<1>1. /\ UNCHANGED <<con, pubs, at, log, opened, list, up>>
      /\ \A v \in Ups \ {u} : out'[v] = out[v] /\ wire'[v] = wire[v]
  BY DEF Alone
<1>2. /\ Logged' /\ Queues' /\ LogGrows
      /\ \A l \in Loops : \A n : Seen(l, n)' <=> Seen(l, n)
  BY <1>1, Quiet
<1>3. Walking'
  <2>1. \A l \in Loops : Walks(l)' =>
            /\ Walks(l) /\ at'[l].n = at[l].n /\ at'[l].up \in opened'
            /\ \A n : Seen(l, n)' <=> Seen(l, n)
    BY <1>1, <1>2 DEF WInv, Walking, Walks
  <2> QED
    BY <1>2, <2>1, WalkingKept DEF WInv
<1>4. ASSUME NEW v \in Ups, con'[v] = "open" PROVE Flow(v)'
  <2>1. CASE v = u
    BY <1>1, <1>4, <2>1
  <2>2. CASE v # u
    <3>1. con[v] = "open" /\ Owner[v] \in Loops
      BY <1>1, <1>4, UpgradedAssumption
    <3>2. PICK l \in Loops : l = Owner[v]
      BY <3>1
    <3>3. Around(v)
      BY <1>1, <1>2, <1>4, <2>2, <3>2, Beside DEF Relisted, WInv
    <3>4. Flow(v)
      BY <3>1 DEF WInv, Flows
    <3> QED
      BY <3>3, <3>4, FlowKept
  <2> QED
    BY <2>1, <2>2
<1> QED
  BY <1>2, <1>3, <1>4 DEF WInv, Flows

LEMMA BeatWire ==
  ASSUME Inv, Inv', WInv, NEW u \in Ups, NEW kind \in {"ping", "pong"}, Beat(u, kind)
  PROVE  WInv'
<1>1. PICK r : r = [kind |-> kind]
  OBVIOUS
<1>2. r.kind # "text" /\ r.kind # "close"
  BY <1>1
<1>3. out \in [Ups -> Seq(Responses)]
  BY DEF Inv, Shape, ConShape
<1>4. /\ out' = [out EXCEPT ![u] = AppendRes(@, r)] /\ con[u] = "open"
      /\ UNCHANGED <<con, wire, pubs, at, log, opened, list, up>>
  BY <1>1 DEF Beat, upVars, callVars
<1>5. Alone(u)
  BY <1>3, <1>4 DEF Alone
<1>6. out'[u] = AppendRes(out[u], r) /\ wire'[u] = wire[u] /\ log' = log
  BY <1>3, <1>4
<1>7. Appended(u, r)
  BY <1>6, AppendedDef
<1>8. Flow(u)
  BY <1>4 DEF WInv, Flows
<1>9. Flow(u)'
  BY <1>2, <1>5, <1>6, <1>7, <1>8, AppendKeeps, AloneFlow
<1>10. WireAsCalled'
  <2>1. LogGrows
    BY <1>4 DEF LogGrows
  <2> QED
    BY <1>4, <2>1, WireKept DEF WInv
<1> QED
  BY <1>5, <1>9, <1>10, AloneKeeps

LEMMA AcceptWire ==
  ASSUME Inv, Inv', WInv, NEW u \in Ups, Accept(u)
  PROVE  WInv'
<1>1. PICK r : r = [kind |-> "accept"]
  OBVIOUS
<1>2. UNCHANGED <<con, wire, pubs, at, log, opened, list, up>>
  BY DEF Accept, upVars, callVars
<1>3. PICK i \in DOMAIN out[u] : /\ out[u][i].kind = "wait"
                                 /\ out' = [out EXCEPT ![u][i] = r]
  BY <1>1 DEF Accept
<1>4. out \in [Ups -> Seq(Responses)]
  BY DEF Inv, Shape, ConShape
<1>5. /\ out'[u] = [out[u] EXCEPT ![i] = r]
      /\ \A v \in Ups \ {u} : out'[v] = out[v]
  BY <1>3, <1>4
<1>6. /\ DOMAIN out'[u] = DOMAIN out[u]
      /\ out'[u][i] = r
      /\ \A j \in DOMAIN out[u] : j # i => out'[u][j] = out[u][j]
  BY <1>5
<1>7. r.kind = "accept"
  BY <1>1
<1>8. /\ \A j : Text(u, j)' <=> Text(u, j)
      /\ \A j \in DOMAIN out[u] : Text(u, j) => out'[u][j] = out[u][j]
      /\ \A j \in DOMAIN out[u] : out'[u][j].kind = "close" <=> out[u][j].kind = "close"
  BY <1>3, <1>6, <1>7 DEF Text
<1>9. Alone(u)
  BY <1>2, <1>5 DEF Alone
<1>10. ASSUME con[u] = "open" PROVE Flow(u)'
  <2>1. Flow(u)
    BY <1>10 DEF WInv, Flows
  <2>2. InOrder(u)'
    BY <1>2, <1>6, <1>8, <2>1 DEF Flow, InOrder
  <2>3. \A n : Carried(u, n)' <=> Carried(u, n)
    BY <1>2, <1>6, <1>8 DEF Carried, Sent, Waits
  <2>4. \A j \in DOMAIN out'[u] :
            Text(u, j)' /\ (\A k \in 1..j : out'[u][k].kind # "close") =>
               out'[u][j].n \in Expected(u)
    <3>1. SUFFICES ASSUME NEW j \in DOMAIN out'[u], Text(u, j)',
                          \A k \in 1..j : out'[u][k].kind # "close"
                   PROVE  out'[u][j].n \in Expected(u)
      OBVIOUS
    <3>2. DOMAIN out[u] = 1..Len(out[u]) /\ Len(out[u]) \in Nat
      BY WireTypes DEF WireShape
    <3>3. \A k \in 1..j : k \in DOMAIN out[u]
      BY <1>6, <3>1, <3>2
    <3>4. Text(u, j) /\ \A k \in 1..j : out[u][k].kind # "close"
      BY <1>8, <3>1, <3>3
    <3> QED
      BY <1>6, <1>8, <2>1, <3>1, <3>4 DEF Flow, Ends
  <2> QED
    BY <1>6, <1>8, <1>9, <2>1, <2>2, <2>3, <2>4, AloneFlow
<1>11. WireAsCalled'
  <2>1. LogGrows
    BY <1>2 DEF LogGrows
  <2> QED
    BY <1>2, <2>1, WireKept DEF WInv
<1> QED
  BY <1>9, <1>10, <1>11, AloneKeeps

\* What Write does to the list s and to what was sent.
Heads(u, r) ==
    /\ Len(out[u]) \in Nat \ {0} /\ DOMAIN out[u] = 1..Len(out[u]) /\ out[u][1] = r
    /\ DOMAIN out'[u] = 1..(Len(out[u]) - 1)
    /\ \A i \in 1..(Len(out[u]) - 1) : out'[u][i] = out[u][i + 1]
    /\ r.kind # "text" => wire'[u] = wire[u]
    /\ r.kind = "text" =>
          /\ DOMAIN wire'[u] = 1..(Len(wire[u]) + 1)
          /\ wire'[u][Len(wire[u]) + 1] = r.n
          /\ \A k \in 1..Len(wire[u]) : wire'[u][k] = wire[u][k]

LEMMA WriteHeads ==
  ASSUME Inv, Inv', NEW u \in Ups, Write(u), NEW r, r = Head(out[u])
  PROVE  Heads(u, r)
<1>1. /\ out[u] # <<>> /\ out' = [out EXCEPT ![u] = Tail(@)]
      /\ wire' = [wire EXCEPT ![u] = IF r.kind = "text" THEN Append(@, r.n) ELSE @]
  BY DEF Write, Writable
<1>2. /\ out \in [Ups -> Seq(Responses)] /\ wire \in [Ups -> Seq(1..MaxCalls)]
  BY DEF Inv, Shape, ConShape
<1>3. /\ out[u] \in Seq(Responses) /\ DOMAIN out[u] = 1..Len(out[u])
      /\ wire[u] \in Seq(1..MaxCalls) /\ Len(wire[u]) \in Nat
  BY WireTypes DEF WireShape
<1>4. /\ Len(out[u]) \in Nat \ {0} /\ Head(out[u]) = out[u][1]
      /\ Tail(out[u]) \in Seq(Responses) /\ Len(Tail(out[u])) = Len(out[u]) - 1
      /\ \A i \in 1..Len(Tail(out[u])) : Tail(out[u])[i] = out[u][i + 1]
  BY <1>1, <1>3, TailRange
<1>5. out'[u] = Tail(out[u])
  BY <1>1, <1>2
<1>6. DOMAIN out'[u] = 1..Len(out'[u]) /\ DOMAIN wire'[u] = 1..Len(wire'[u])
  BY WireTypesNext DEF WireShape
<1>7. /\ DOMAIN out'[u] = 1..(Len(out[u]) - 1)
      /\ \A i \in 1..(Len(out[u]) - 1) : out'[u][i] = out[u][i + 1]
  BY <1>4, <1>5, <1>6
<1>8. r.kind # "text" => wire'[u] = wire[u]
  BY <1>1, <1>2
<1>9. ASSUME r.kind = "text"
      PROVE  /\ DOMAIN wire'[u] = 1..(Len(wire[u]) + 1)
             /\ wire'[u][Len(wire[u]) + 1] = r.n
             /\ \A k \in 1..Len(wire[u]) : wire'[u][k] = wire[u][k]
  <2>1. wire'[u] = Append(wire[u], r.n)
    BY <1>1, <1>2, <1>9
  <2>2. /\ Len(Append(wire[u], r.n)) = Len(wire[u]) + 1
        /\ Append(wire[u], r.n)[Len(wire[u]) + 1] = r.n
        /\ \A k \in 1..Len(wire[u]) : Append(wire[u], r.n)[k] = wire[u][k]
    BY <1>3
  <2> QED
    BY <1>6, <2>1, <2>2
<1> QED
  BY <1>3, <1>4, <1>7, <1>8, <1>9 DEF Heads

LEMMA HeadsFlow ==
  ASSUME Inv, WInv, NEW u \in Ups, Alone(u), con[u] = "open", NEW r, Heads(u, r),
         r.kind # "close"
  PROVE  Flow(u)'
<1>1. Flow(u)
  BY DEF WInv, Flows
<1>2. PICK z : z = Len(out[u])
  OBVIOUS
<1>3. /\ z \in Nat \ {0} /\ DOMAIN out[u] = 1..z /\ out[u][1] = r
      /\ DOMAIN out'[u] = 1..(z - 1)
      /\ \A i \in 1..(z - 1) : out'[u][i] = out[u][i + 1]
  BY <1>2 DEF Heads
<1>4. /\ \A i \in DOMAIN out'[u] : i + 1 \in DOMAIN out[u] /\ out'[u][i] = out[u][i + 1]
      /\ \A i \in DOMAIN out[u] : i # 1 => i - 1 \in DOMAIN out'[u] /\ (i - 1) + 1 = i
      /\ 1 \in DOMAIN out[u] /\ \A i \in DOMAIN out'[u] : 1 < i + 1
  BY <1>3
<1>5. \A i \in DOMAIN out'[u] : Text(u, i)' <=> Text(u, i + 1)
  BY <1>4 DEF Text
<1>6. Text(u, 1) <=> r.kind = "text"
  BY <1>3, <1>4 DEF Text
<1>7. PICK w : w = Len(wire[u])
  OBVIOUS
<1>8. w \in Nat /\ DOMAIN wire[u] = 1..w
  BY <1>7, WireTypes DEF WireShape
<1>9. /\ r.kind # "text" => wire'[u] = wire[u]
      /\ r.kind = "text" => /\ DOMAIN wire'[u] = 1..(w + 1) /\ wire'[u][w + 1] = r.n
                            /\ \A k \in 1..w : wire'[u][k] = wire[u][k]
  BY <1>7 DEF Heads
<1>10. \A n : Sent(u, n)' <=> Sent(u, n) \/ (r.kind = "text" /\ n = r.n)
  <2>1. CASE r.kind # "text"
    BY <1>9, <2>1 DEF Sent
  <2>2. CASE r.kind = "text"
    <3>1. \A k \in 1..(w + 1) : k \in 1..w \/ k = w + 1
      BY <1>8
    <3>2. w + 1 \in 1..(w + 1) /\ \A k \in 1..w : k \in 1..(w + 1)
      BY <1>8
    <3> QED
      BY <1>8, <1>9, <2>2, <3>1, <3>2 DEF Sent
  <2> QED
    BY <2>1, <2>2
<1>11. \A n : Waits(u, n) <=> Waits(u, n)' \/ (r.kind = "text" /\ n = r.n)
  <2>1. ASSUME NEW n, Waits(u, n), ~(r.kind = "text" /\ n = r.n) PROVE Waits(u, n)'
    <3>1. PICK i \in DOMAIN out[u] : Text(u, i) /\ out[u][i].n = n
      BY <2>1 DEF Waits
    <3>2. i # 1
      BY <1>3, <1>6, <2>1, <3>1
    <3> QED
      BY <1>4, <1>5, <3>1, <3>2 DEF Waits
  <2>2. ASSUME NEW n, Waits(u, n)' PROVE Waits(u, n)
    <3>1. PICK i \in DOMAIN out'[u] : Text(u, i)' /\ out'[u][i].n = n
      BY <2>2 DEF Waits
    <3> QED
      BY <1>4, <1>5, <3>1 DEF Waits
  <2>3. r.kind = "text" => Waits(u, r.n)
    BY <1>3, <1>4, <1>6 DEF Waits
  <2> QED
    BY <2>1, <2>2, <2>3
<1>12. \A n : Carried(u, n)' <=> Carried(u, n)
  BY <1>10, <1>11 DEF Carried
<1>13. InOrder(u)'
  <2>1. ASSUME NEW i \in DOMAIN out'[u], NEW j \in DOMAIN out'[u], i < j,
               Text(u, i)', Text(u, j)'
        PROVE  out'[u][i].n < out'[u][j].n
    <3>1. i + 1 < j + 1
      BY <1>3, <2>1
    <3> QED
      BY <1>1, <1>4, <1>5, <2>1, <3>1 DEF Flow, InOrder
  <2>2. ASSUME NEW k \in DOMAIN wire'[u], NEW i \in DOMAIN out'[u], Text(u, i)'
        PROVE  wire'[u][k] < out'[u][i].n
    <3>1. CASE k \in DOMAIN wire[u] /\ wire'[u][k] = wire[u][k]
      BY <1>1, <1>4, <1>5, <2>2, <3>1 DEF Flow, InOrder
    <3>2. CASE r.kind = "text" /\ wire'[u][k] = r.n
      <4>1. Text(u, 1) /\ Text(u, i + 1) /\ out[u][1].n = r.n
        BY <1>3, <1>5, <1>6, <2>2, <3>2
      <4> QED
        BY <1>1, <1>4, <3>2, <4>1 DEF Flow, InOrder
    <3>3. \/ k \in DOMAIN wire[u] /\ wire'[u][k] = wire[u][k]
          \/ r.kind = "text" /\ wire'[u][k] = r.n
      <4>1. CASE r.kind = "text"
        <5>1. k \in 1..w \/ k = w + 1
          BY <1>8, <1>9, <4>1
        <5> QED
          BY <1>8, <1>9, <4>1, <5>1
      <4> QED
        BY <1>9, <4>1
    <3> QED
      BY <3>1, <3>2, <3>3
  <2> QED
    BY <2>1, <2>2 DEF InOrder
<1>14. ASSUME NEW i \in DOMAIN out'[u], Text(u, i)',
              \A j \in 1..i : out'[u][j].kind # "close"
       PROVE  out'[u][i].n \in Expected(u)
  <2>1. ASSUME NEW j \in 1..(i + 1) PROVE out[u][j].kind # "close"
    <3>1. CASE j = 1
      BY <1>3, <3>1
    <3>2. CASE j # 1
      <4>1. j - 1 \in 1..i /\ j - 1 \in DOMAIN out'[u] /\ (j - 1) + 1 = j
        BY <1>3, <3>2
      <4> QED
        BY <1>4, <1>14, <4>1
    <3> QED
      BY <3>1, <3>2
  <2> QED
    BY <1>1, <1>4, <1>5, <1>14, <2>1 DEF Flow, Ends
<1>15. ASSUME NEW i \in DOMAIN out[u], out[u][i].kind = "close"
       PROVE  \E j \in DOMAIN out'[u] : out'[u][j].kind = "close"
  <2>1. i # 1
    BY <1>3, <1>15
  <2>2. i - 1 \in DOMAIN out'[u] /\ out'[u][i - 1] = out[u][i]
    BY <1>4, <2>1
  <2> QED
    BY <1>15, <2>2
<1> QED
  BY <1>1, <1>12, <1>13, <1>14, <1>15, AloneFlow

\* The text that is sent is the next that was asked for.
LEMMA HeadsSent ==
  ASSUME Inv, WInv, NEW u \in Ups, Alone(u), con[u] = "open", NEW r, Heads(u, r),
         LoopOf(u)
  PROVE  WireAsCalled'
<1>1. Flow(u) /\ WireAsCalled
  BY DEF WInv, Flows
<1>2. \A v : Expected(v)' = Expected(v)
  <2>1. log' = log
    BY DEF Alone
  <2> QED
    BY <2>1 DEF Expected, Subscribed, Asked
<1>3. SUFFICES ASSUME NEW v \in Ups, NEW k \in DOMAIN wire'[v]
               PROVE  /\ wire'[v][k] \in Expected(v)
                      /\ \A i \in 1..(k - 1) : wire'[v][i] < wire'[v][k]
                      /\ \A n \in Expected(v) :
                            n < wire'[v][k] => \E i \in 1..(k - 1) : wire'[v][i] = n
  BY <1>2 DEF WireAsCalled
<1>4. CASE wire'[v] = wire[v]
  BY <1>1, <1>4 DEF WireAsCalled
<1>5. CASE v = u /\ r.kind = "text"
  <2>1. PICK w : w = Len(wire[u])
    OBVIOUS
  <2>2. w \in Nat /\ DOMAIN wire[u] = 1..w
    BY <2>1, WireTypes DEF WireShape
  <2>3. /\ DOMAIN wire'[u] = 1..(w + 1) /\ wire'[u][w + 1] = r.n
        /\ \A j \in 1..w : wire'[u][j] = wire[u][j]
        /\ out[u][1] = r /\ 1 \in DOMAIN out[u] /\ \A i \in DOMAIN out[u] : i # 1 => 1 < i
    BY <1>5, <2>1 DEF Heads
  <2>4. CASE k \in 1..w
    <3>1. \A i \in 1..(k - 1) : i \in 1..w
      BY <2>2, <2>4
    <3>2. wire'[u][k] = wire[u][k] /\ \A i \in 1..(k - 1) : wire'[u][i] = wire[u][i]
      BY <2>3, <2>4, <3>1
    <3>3. /\ wire[u][k] \in Expected(u)
          /\ \A i \in 1..(k - 1) : wire[u][i] < wire[u][k]
          /\ \A n \in Expected(u) :
                n < wire[u][k] => \E i \in 1..(k - 1) : wire[u][i] = n
      BY <1>1, <2>2, <2>4 DEF WireAsCalled
    <3> QED
      BY <1>5, <3>2, <3>3
  <2>5. CASE k = w + 1
    <3>1. Text(u, 1)
      BY <1>5, <2>3 DEF Text
    <3>2. /\ wire'[v][k] = r.n /\ 1..(k - 1) = 1..w
          /\ \A i \in 1..w : wire'[v][i] = wire[u][i]
      BY <1>5, <2>2, <2>3, <2>5
    <3>3. r.n \in Expected(u)
      <4>1. \A j \in 1..1 : out[u][j].kind # "close"
        BY <1>5, <2>3
      <4> QED
        BY <1>1, <2>3, <3>1, <4>1 DEF Flow, Ends
    <3>4. \A i \in 1..w : wire[u][i] < r.n
      BY <1>1, <2>2, <2>3, <3>1 DEF Flow, InOrder
    <3>5. PICK l \in Loops : l = Owner[u] /\ ~Walks(l)
      <4>1. Owner[u] \in Loops /\ at[Owner[u]] = Idle
        BY UpgradedAssumption DEF LoopOf
      <4> QED
        BY <4>1 DEF Walks, Idle
    <3>6. ASSUME NEW n \in Expected(u), n < r.n
          PROVE  \E i \in 1..w : wire[u][i] = n
      <4>1. DOMAIN log = 1..Len(log) /\ Len(log) \in Nat /\ Len(log) <= MaxCalls
        BY WireTypes DEF WireShape
      <4>2. r.n \in DOMAIN log /\ n \in DOMAIN log
        BY <3>3, <3>6 DEF Expected
      <4>3. n \in 1..r.n /\ r.n \in 1..MaxCalls
        BY <3>6, <4>1, <4>2, UpgradedAssumption
      <4>4. Carried(u, r.n)
        BY <2>3, <3>1 DEF Carried, Waits
      <4>5. Seen(l, r.n)
        BY <1>1, <3>5, <4>3, <4>4 DEF Flow, Behind
      <4>6. Seen(l, n)
        BY <4>2, <4>3, <4>5 DEF WInv, Queues, Gapless
      <4>7. Sent(u, n) \/ Waits(u, n)
        BY <1>1, <3>5, <3>6, <4>6 DEF Flow, Complete, Carried
      <4>8. ASSUME Waits(u, n) PROVE FALSE
        <5>1. PICK i \in DOMAIN out[u] : Text(u, i) /\ out[u][i].n = n
          BY <4>8 DEF Waits
        <5>2. CASE i = 1
          BY <2>3, <3>6, <4>1, <4>2, <5>1, <5>2
        <5>3. CASE i # 1
          <6>1. r.n < n
            BY <1>1, <2>3, <3>1, <5>1, <5>3 DEF Flow, InOrder
          <6> QED
            BY <3>6, <4>1, <4>2, <6>1
        <5> QED
          BY <5>2, <5>3
      <4> QED
        BY <2>2, <4>7, <4>8 DEF Sent
    <3> QED
      BY <1>5, <3>2, <3>3, <3>4, <3>6
  <2> QED
    BY <1>3, <1>5, <2>2, <2>3, <2>4, <2>5
<1>6. wire'[v] = wire[v] \/ (v = u /\ r.kind = "text")
  BY DEF Alone, Heads
<1> QED
  BY <1>4, <1>5, <1>6

LEMMA WriteWire ==
  ASSUME Inv, Inv', WInv, NEW u \in Ups, Write(u)
  PROVE  WInv'
<1>1. PICK r : r = Head(out[u])
  OBVIOUS
<1>2. Heads(u, r)
  BY <1>1, WriteHeads
<1>3. LoopOf(u) /\ con[u] = "open" /\ r.kind # "close"
  BY <1>1 DEF Write, Writable
<1>4. Alone(u)
  <2>1. out \in [Ups -> Seq(Responses)] /\ wire \in [Ups -> Seq(1..MaxCalls)]
    BY DEF Inv, Shape, ConShape
  <2> QED
    BY <2>1 DEF Write, Alone, upVars, callVars
<1>5. Flow(u)'
  BY <1>2, <1>3, <1>4, HeadsFlow
<1>6. WireAsCalled'
  BY <1>2, <1>3, <1>4, HeadsSent
<1> QED
  BY <1>4, <1>5, <1>6, AloneKeeps

-----------------------------------------------------------------------------
(* The theorem *)

LEMMA WireInit == Init => WInv
<1> SUFFICES ASSUME Init PROVE WInv
  OBVIOUS
<1>1. log = <<>> /\ DOMAIN log = {}
  BY DEF Init
<1>2. Logged
  BY <1>1 DEF Logged
<1>3. ASSUME NEW l \in Loops PROVE Holds(l) /\ Ordered(l) /\ Gapless(l)
  <2>1. pubs[l] = <<>> /\ DOMAIN pubs[l] = {}
    BY DEF Init
  <2> QED
    BY <1>1, <2>1 DEF Holds, Ordered, Gapless
<1>4. Walking
  BY DEF Init, Walking, Walks, Idle
<1>5. ASSUME NEW u \in Ups PROVE Flow(u)
  <2>1. PICK r : r = [kind |-> "wait"]
    OBVIOUS
  <2>2. r.kind = "wait" /\ out[u] = <<r>> /\ wire[u] = <<>>
    BY <2>1 DEF Init
  <2>3. DOMAIN out[u] = {1} /\ out[u][1] = r /\ DOMAIN wire[u] = {}
    BY <2>2
  <2>4. \A i : ~Text(u, i)
    BY <2>2, <2>3 DEF Text
  <2>5. \A n : ~Carried(u, n)
    BY <2>3, <2>4 DEF Carried, Sent, Waits
  <2>6. InOrder(u) /\ Behind(u)
    BY <2>3, <2>4, <2>5 DEF InOrder, Behind
  <2>7. up[u].subscribed = FALSE
    BY DEF Init
  <2>8. Agrees(u)
    BY <1>1, <2>7 DEF Agrees, Joined
  <2>9. Ends(u) /\ Complete(u)
    BY <1>1, <2>4 DEF Ends, Complete, Seen
  <2> QED
    BY <2>6, <2>8, <2>9 DEF Flow
<1>6. WireAsCalled
  BY DEF Init, WireAsCalled
<1> QED
  BY <1>2, <1>3, <1>4, <1>5, <1>6 DEF WInv, Queues, Flows

LEMMA WireStep ==
  ASSUME Inv, Inv', WInv, [Next]_vars
  PROVE  WInv'
<1>1. CASE UNCHANGED vars
  <2>1. UNCHANGED <<con, out, wire, pubs, at, log, opened, list, up>>
    BY <1>1 DEF vars, conVars, upVars, callVars
  <2> QED
    BY <2>1, CountsKeep DEF Counts, Relisted
<1>2. ASSUME NEW u \in Ups, Create(u) \/ Accept(u) \/ ConStep(u) \/ Event(u)
      PROVE  WInv'
  <2>1. \/ Create(u) \/ Accept(u) \/ Write(u) \/ Frame(u)
        \/ Hangup(u) \/ CheckDead(u) \/ WriteClose(u) \/ WriteError(u)
        \/ \E kind \in {"ping", "pong"} : Beat(u, kind)
    BY <1>2 DEF ConStep, Event
  <2> QED
    BY <2>1, CreateWire, AcceptWire, WriteWire, FrameWire, DeadWire, BeatWire
<1>3. ASSUME NEW k \in Callers,
             \/ CallStep(k) \/ WriteRaises(k) \/ Broadcast(k)
             \/ \E u \in Ups, op \in Ops : Get(k, u, op)
      PROVE  WInv'
  <2>1. CASE Act(k)
    BY <2>1, ActWire
  <2>2. CASE Broadcast(k)
    BY <2>2, BroadcastWire
  <2>3. CASE Ask(k) \/ Env(k) \/ WriteRaises(k)
    <3>1. call[k] \in Calls /\ call[k] # Idle
      BY <2>3 DEF Ask, Env, WriteRaises, Inv, Shape, CallShape
    <3>2. call[k].up \in Ups /\ call[k].op \in Ops
      BY <3>1 DEF Calls
    <3> QED
      BY <2>3, <3>2, CallWire
  <2>4. CASE \E u \in Ups, op \in Ops : Get(k, u, op)
    BY <2>4, CallWire
  <2> QED
    BY <1>3, <2>1, <2>2, <2>3, <2>4 DEF CallStep
<1>4. ASSUME NEW l \in Loops, LoopStep(l) PROVE WInv'
  BY <1>4, OwnWire, PopWire, SeenWire, WalkWire, VisitWire DEF LoopStep
<1>5. ASSUME NEW t \in Evals, Take(t) \/ Return(t) \/ Raise(t) PROVE WInv'
  BY <1>5, TakeWire, ReturnWire
<1>6. CASE Next
  BY <1>2, <1>3, <1>4, <1>5, <1>6 DEF Next
<1> QED
  BY <1>1, <1>6

\* The wire of each connection carries what the calls have asked for: each
\* message once, in the order of the calls and without a gap, a publication only
\* while subscribed, none after a close.  It holds for any numbers of
\* connections, loops, threads and calls, with hangups, errors, callbacks and
\* calls that raise.  Where a loop uses a connection or a record that is gone
\* the process may end, and the model does (process_pub_con, publish_pub,
\* con_ws_write, con_sse_write).
THEOREM WireCorrect == Spec => []WireAsCalled
<1>1. Init => WInv
  BY WireInit
<1>2. Inv /\ Inv' /\ WInv /\ [Next]_vars => WInv'
  BY WireStep
<1>3. WInv => WireAsCalled
  BY DEF WInv
<1> QED
  BY <1>1, <1>2, <1>3, InvAlways, PTL DEF Spec
=============================================================================
