--------------------------- MODULE UpgradedProofs ---------------------------
(***************************************************************************)
(* The theorems of Upgraded, for any numbers of connections, loops, Ruby   *)
(* threads and calls.                                                      *)
(*                                                                         *)
(* The count of the references of a record is compared with the number of  *)
(* those who hold one, so the first part counts: the marked places of a    *)
(* queue, and of the queues of all loops, when an entry is put, popped or  *)
(* copied to each loop.                                                    *)
(*                                                                         *)
(* The invariant is Inv.  An action moves references between their holders *)
(* and the count (Moves); Settled concludes that the count still covers    *)
(* them (Kept).  There is one lemma for each action, named after it.       *)
(***************************************************************************)
EXTENDS Upgraded, SeqFacts, FiniteSetTheorems

-----------------------------------------------------------------------------
(* Counting *)

\* Two sets that differ in x at most.
LEMMA OneDiffers ==
  ASSUME NEW A, NEW B, NEW x, IsFiniteSet(A),
         \A y : y # x => (y \in A <=> y \in B)
  PROVE  /\ IsFiniteSet(B) /\ Cardinality(A) \in Nat /\ Cardinality(B) \in Nat
         /\ Cardinality(B) + (IF x \in A THEN 1 ELSE 0)
              = Cardinality(A) + (IF x \in B THEN 1 ELSE 0)
<1>1. Cardinality(A) \in Nat
  BY FS_CardinalityType
<1>2. CASE x \in B
  <2>1. B = A \cup {x}
    BY <1>2
  <2>2. /\ IsFiniteSet(B)
        /\ Cardinality(B) = IF x \in A THEN Cardinality(A) ELSE Cardinality(A) + 1
    BY <2>1, FS_AddElement
  <2> QED
    BY <1>1, <1>2, <2>2
<1>3. CASE x \notin B
  <2>1. B = A \ {x}
    BY <1>3
  <2>2. /\ IsFiniteSet(B) /\ Cardinality(B) \in Nat
        /\ Cardinality(B) = IF x \in A THEN Cardinality(A) - 1 ELSE Cardinality(A)
    BY <2>1, FS_RemoveElement, FS_CardinalityType
  <2> QED
    BY <1>1, <1>3, <2>2
<1> QED
  BY <1>2, <1>3

\* Two sets with a map to and fro have the same number of elements.
Matched(A, B) ==
    \E f \in [A -> B], g \in [B -> A] :
        (\A a \in A : g[f[a]] = a) /\ \A b \in B : f[g[b]] = b

LEMMA SameNumber ==
  ASSUME NEW A, NEW B, IsFiniteSet(A), Matched(A, B)
  PROVE  IsFiniteSet(B) /\ Cardinality(B) = Cardinality(A)
<1>1. PICK f \in [A -> B], g \in [B -> A] :
         (\A a \in A : g[f[a]] = a) /\ \A b \in B : f[g[b]] = b
  BY DEF Matched
<1>2. f \in Bijection(A, B)
  BY <1>1 DEF Bijection, Injection, Surjection, IsInjective
<1> QED
  BY <1>2, FS_Bijection DEF ExistsBijection

\* The places of a sequence whose entries are marked by u.
Marked(s, u) == {i \in DOMAIN s : s[i].up = u}

LEMMA MarkedFinite ==
  ASSUME NEW S, NEW s \in Seq(S), NEW u
  PROVE  /\ IsFiniteSet(Marked(s, u)) /\ Cardinality(Marked(s, u)) \in Nat
         /\ \A i : i \in Marked(s, u) <=> i \in 1..Len(s) /\ s[i].up = u
<1>1. DOMAIN s = 1..Len(s) /\ Len(s) \in Nat
  BY LenProperties
<1>2. Marked(s, u) \subseteq 1..Len(s) /\ IsFiniteSet(1..Len(s))
  BY <1>1, FS_Interval DEF Marked
<1>3. IsFiniteSet(Marked(s, u))
  BY <1>2, FS_Subset
<1> QED
  BY <1>1, <1>3, FS_CardinalityType DEF Marked

\* An entry that is taken from the front was the first place.
LEMMA MarkedTail ==
  ASSUME NEW S, NEW s \in Seq(S), NEW u, s # <<>>
  PROVE  Cardinality(Marked(s, u))
           = Cardinality(Marked(Tail(s), u)) + (IF Head(s).up = u THEN 1 ELSE 0)
<1>1. PICK h, t : h = Head(s) /\ t = Tail(s)
  OBVIOUS
<1>2. /\ Len(s) \in Nat \ {0} /\ h = s[1] /\ t \in Seq(S) /\ Len(t) = Len(s) - 1
      /\ \A i \in 1..Len(t) : t[i] = s[i + 1]
  BY <1>1, TailRange
<1> DEFINE A == Marked(s, u)
           B == Marked(t, u)
           C == A \ {1}
<1>3. /\ IsFiniteSet(A) /\ Cardinality(A) \in Nat
      /\ \A i : i \in A <=> i \in 1..Len(s) /\ s[i].up = u
  BY MarkedFinite
<1>4. /\ IsFiniteSet(B) /\ Cardinality(B) \in Nat
      /\ \A i : i \in B <=> i \in 1..Len(t) /\ t[i].up = u
  BY <1>2, MarkedFinite
<1> HIDE DEF A, B
<1>5. Cardinality(C) = Cardinality(B)
  <2> DEFINE f == [i \in B |-> i + 1]
             g == [i \in C |-> i - 1]
  <2>1. \A i \in B : i + 1 \in C /\ (i + 1) - 1 = i
    <3>1. ASSUME NEW i \in B PROVE i + 1 \in C /\ (i + 1) - 1 = i
      <4>1. i \in 1..Len(t) /\ t[i].up = u
        BY <1>4
      <4>2. i + 1 \in 1..Len(s) /\ i + 1 # 1 /\ (i + 1) - 1 = i
        BY <1>2, <4>1
      <4>3. s[i + 1].up = u
        BY <1>2, <4>1
      <4> QED
        BY <1>3, <4>2, <4>3
    <3> QED
      BY <3>1
  <2>2. \A i \in C : i - 1 \in B /\ (i - 1) + 1 = i
    <3>1. ASSUME NEW i \in C PROVE i - 1 \in B /\ (i - 1) + 1 = i
      <4>1. i \in 1..Len(s) /\ i # 1 /\ s[i].up = u
        BY <1>3
      <4>2. i - 1 \in 1..Len(t) /\ (i - 1) + 1 = i
        BY <1>2, <4>1
      <4>3. t[i - 1] = s[(i - 1) + 1]
        BY <1>2, <4>2
      <4>4. t[i - 1].up = u
        BY <4>1, <4>2, <4>3
      <4> QED
        BY <1>4, <4>2, <4>4
    <3> QED
      BY <3>1
  <2>3. f \in [B -> C] /\ g \in [C -> B]
    BY <2>1, <2>2
  <2>4. (\A i \in B : g[f[i]] = i) /\ \A i \in C : f[g[i]] = i
    BY <2>1, <2>2
  <2> HIDE DEF f, g, C
  <2>5. Matched(B, C)
    BY <2>3, <2>4 DEF Matched
  <2> QED
    BY <1>4, <2>5, SameNumber
<1>6. Cardinality(C) = IF 1 \in A THEN Cardinality(A) - 1 ELSE Cardinality(A)
  BY <1>3, FS_RemoveElement
<1>7. 1 \in A <=> h.up = u
  BY <1>2, <1>3
<1> QED
  BY <1>1, <1>3, <1>4, <1>5, <1>6, <1>7 DEF A, B

\* Entries that are all marked alike and come at the end.
AllMarked(t, v) == \A i \in 1..Len(t) : t[i].up = v

Grown(s, t, u, v) ==
    Cardinality(Marked(s \o t, u))
      = Cardinality(Marked(s, u)) + (IF u = v THEN Len(t) ELSE 0)

LEMMA MarkedConcat ==
  ASSUME NEW S, NEW s \in Seq(S), NEW t \in Seq(S), NEW u, NEW v,
         AllMarked(t, v)
  PROVE  Grown(s, t, u, v)
<1>1. PICK r : r = s \o t
  OBVIOUS
<1>2. /\ r \in Seq(S) /\ Len(r) = Len(s) + Len(t)
      /\ Len(s) \in Nat /\ Len(t) \in Nat
      /\ \A i \in 1..(Len(s) + Len(t)) :
            r[i] = IF i <= Len(s) THEN s[i] ELSE t[i - Len(s)]
  BY <1>1, ConcatProperties, LenProperties
<1> DEFINE A == Marked(s, u)
           B == Marked(r, u)
           N == (Len(s) + 1)..(Len(s) + Len(t))
<1>3. /\ IsFiniteSet(A) /\ Cardinality(A) \in Nat
      /\ \A i : i \in A <=> i \in 1..Len(s) /\ s[i].up = u
  BY MarkedFinite
<1>4. \A i : i \in B <=> i \in 1..Len(r) /\ r[i].up = u
  BY <1>2, MarkedFinite
<1> HIDE DEF A, B
<1>5. \A i \in N : r[i].up = v
  <2>1. ASSUME NEW i \in N PROVE r[i].up = v
    <3>1. i - Len(s) \in 1..Len(t) /\ ~(i <= Len(s)) /\ i \in 1..(Len(s) + Len(t))
      BY <1>2
    <3> QED
      BY <1>2, <3>1 DEF AllMarked
  <2> QED
    BY <2>1
<1>6. \A i \in 1..Len(s) : r[i] = s[i] /\ i \in 1..Len(r)
  <2>1. ASSUME NEW i \in 1..Len(s) PROVE r[i] = s[i] /\ i \in 1..Len(r)
    <3>1. i \in 1..(Len(s) + Len(t)) /\ i <= Len(s)
      BY <1>2
    <3> QED
      BY <1>2, <3>1
  <2> QED
    BY <2>1
<1>7. \A i : i \in 1..Len(r) <=> i \in 1..Len(s) \/ i \in N
  BY <1>2
<1>8. N \cap 1..Len(s) = {}
  BY <1>2
<1>9. IsFiniteSet(N) /\ Cardinality(N) = Len(t)
  <2>1. /\ IsFiniteSet(N)
        /\ Cardinality(N) = IF Len(s) + 1 > Len(s) + Len(t) THEN 0
                            ELSE (Len(s) + Len(t)) - (Len(s) + 1) + 1
    <3>1. Len(s) + 1 \in Int /\ Len(s) + Len(t) \in Int
      BY <1>2
    <3> QED
      BY <3>1, FS_Interval
  <2> HIDE DEF N
  <2> QED
    BY <1>2, <2>1
<1> HIDE DEF N
<1>10. CASE u = v
  <2>1. B = A \cup N /\ A \cap N = {}
    BY <1>3, <1>4, <1>5, <1>6, <1>7, <1>8, <1>10
  <2>2. Cardinality(B) = Cardinality(A) + Cardinality(N) - Cardinality({})
    BY <1>3, <1>9, <2>1, FS_Union
  <2> QED
    BY <1>1, <1>2, <1>3, <1>9, <1>10, <2>2, FS_EmptySet DEF A, B, Grown
<1>11. CASE u # v
  <2>1. B = A
    BY <1>3, <1>4, <1>5, <1>6, <1>7, <1>11
  <2> QED
    BY <1>1, <1>3, <1>11, <2>1 DEF A, B, Grown
<1> QED
  BY <1>10, <1>11

LEMMA MarkedAppend ==
  ASSUME NEW S, NEW s \in Seq(S), NEW x \in S, NEW u
  PROVE  Cardinality(Marked(Append(s, x), u))
           = Cardinality(Marked(s, u)) + (IF x.up = u THEN 1 ELSE 0)
<1>1. PICK t : t = <<x>>
  OBVIOUS
<1>2. t \in Seq(S) /\ Len(t) = 1 /\ \A i \in 1..Len(t) : t[i].up = x.up
  <2>1. t \in Seq(S) /\ Len(t) = 1 /\ t[1] = x
    BY <1>1, SingleRange
  <2>2. \A i \in 1..Len(t) : i = 1
    BY <2>1
  <2> QED
    BY <2>1, <2>2
<1>3. Append(s, x) = s \o t
  BY <1>1, AppendIsConcat
<1>4. PICK v : v = x.up
  OBVIOUS
<1>5. AllMarked(t, v)
  BY <1>2, <1>4 DEF AllMarked
<1>6. Grown(s, t, u, v)
  BY <1>2, <1>5, MarkedConcat
<1> QED
  BY <1>2, <1>3, <1>4, <1>6 DEF Grown

\* The marked places of the queues of all loops.
Places(q, u) == UNION {{l} \X Marked(q[l], u) : l \in Loops}

Located(q, u) ==
    /\ \A x \in Places(q, u) :
          /\ x = <<x[1], x[2]>> /\ x[1] \in Loops
          /\ x[2] \in 1..Len(q[x[1]]) /\ q[x[1]][x[2]].up = u
    /\ \A l \in Loops : \A i \in 1..Len(q[l]) :
          q[l][i].up = u => <<l, i>> \in Places(q, u)
    /\ IsFiniteSet(Places(q, u)) /\ Cardinality(Places(q, u)) \in Nat

LEMMA PlacesDef ==
  ASSUME NEW S, NEW q \in [Loops -> Seq(S)], NEW u
  PROVE  Located(q, u)
<1>1. ASSUME NEW l \in Loops
      PROVE  /\ IsFiniteSet(Marked(q[l], u))
             /\ \A i : i \in Marked(q[l], u) <=> i \in 1..Len(q[l]) /\ q[l][i].up = u
  BY MarkedFinite
<1>2. ASSUME NEW x \in Places(q, u)
      PROVE  /\ x = <<x[1], x[2]>> /\ x[1] \in Loops
             /\ x[2] \in 1..Len(q[x[1]]) /\ q[x[1]][x[2]].up = u
  <2>1. PICK l \in Loops : x \in {l} \X Marked(q[l], u)
    BY DEF Places
  <2>2. x = <<x[1], x[2]>> /\ x[1] = l /\ x[2] \in Marked(q[l], u)
    BY <2>1
  <2> QED
    BY <1>1, <2>2
<1>3. ASSUME NEW l \in Loops, NEW i \in 1..Len(q[l]), q[l][i].up = u
      PROVE  <<l, i>> \in Places(q, u)
  <2>1. i \in Marked(q[l], u)
    BY <1>1, <1>3
  <2> QED
    BY <2>1 DEF Places
<1>4. IsFiniteSet(Places(q, u))
  <2> DEFINE T == {{l} \X Marked(q[l], u) : l \in Loops}
             f == [l \in Loops |-> {l} \X Marked(q[l], u)]
  <2>1. f \in Surjection(Loops, T)
    BY DEF Surjection
  <2>2. IsFiniteSet(T)
    BY <2>1, FS_Surjection, UpgradedAssumption
  <2>3. ASSUME NEW A \in T PROVE IsFiniteSet(A)
    <3>1. PICK l \in Loops : A = {l} \X Marked(q[l], u)
      OBVIOUS
    <3>2. IsFiniteSet({l}) /\ IsFiniteSet(Marked(q[l], u))
      BY <1>1, FS_Singleton
    <3> QED
      BY <3>1, <3>2, FS_Product
  <2>4. IsFiniteSet(UNION T)
    <3> HIDE DEF T
    <3> QED
      BY <2>2, <2>3, FS_UNION
  <2> QED
    BY <2>4 DEF Places
<1> QED
  BY <1>2, <1>3, <1>4, FS_CardinalityType DEF Located

\* An entry that a loop pops was its first place.
FrontTaken(q, r, l) == q[l] # <<>> /\ r = [q EXCEPT ![l] = Tail(@)]

LEMMA PlacesPopped ==
  ASSUME NEW S, NEW q \in [Loops -> Seq(S)], NEW u, NEW l \in Loops,
         NEW r, FrontTaken(q, r, l)
  PROVE  Cardinality(Places(q, u))
           = Cardinality(Places(r, u)) + (IF Head(q[l]).up = u THEN 1 ELSE 0)
<1>1. /\ Len(q[l]) \in Nat \ {0} /\ Head(q[l]) = q[l][1]
      /\ r[l] \in Seq(S) /\ Len(r[l]) = Len(q[l]) - 1
      /\ \A i \in 1..Len(r[l]) : r[l][i] = q[l][i + 1]
  <2>1. q[l] \in Seq(S) /\ q[l] # <<>> /\ r[l] = Tail(q[l])
    BY DEF FrontTaken
  <2> QED
    BY <2>1, TailRange
<1>2. r \in [Loops -> Seq(S)] /\ \A m \in Loops : m # l => r[m] = q[m]
  BY <1>1 DEF FrontTaken
<1> DEFINE A == Places(q, u)
           B == Places(r, u)
           C == A \ {<<l, 1>>}
<1>3. Located(q, u) /\ Located(r, u)
  BY <1>2, PlacesDef
<1>4. /\ \A x \in A : /\ x = <<x[1], x[2]>> /\ x[1] \in Loops
                      /\ x[2] \in 1..Len(q[x[1]]) /\ q[x[1]][x[2]].up = u
      /\ \A m \in Loops : \A i \in 1..Len(q[m]) :
            q[m][i].up = u => <<m, i>> \in A
      /\ IsFiniteSet(A) /\ Cardinality(A) \in Nat
  BY <1>3 DEF Located
<1>5. /\ \A x \in B : /\ x = <<x[1], x[2]>> /\ x[1] \in Loops
                      /\ x[2] \in 1..Len(r[x[1]]) /\ r[x[1]][x[2]].up = u
      /\ \A m \in Loops : \A i \in 1..Len(r[m]) :
            r[m][i].up = u => <<m, i>> \in B
      /\ IsFiniteSet(B) /\ Cardinality(B) \in Nat
  BY <1>3 DEF Located
<1> HIDE DEF A, B
<1>6. Cardinality(C) = Cardinality(B)
  <2> DEFINE F(x) == IF x[1] = l THEN <<l, x[2] + 1>> ELSE x
             G(x) == IF x[1] = l THEN <<l, x[2] - 1>> ELSE x
  <2>1. ASSUME NEW x \in B PROVE F(x) \in C /\ G(F(x)) = x
    <3>1. /\ x = <<x[1], x[2]>> /\ x[1] \in Loops
          /\ x[2] \in 1..Len(r[x[1]]) /\ r[x[1]][x[2]].up = u
      BY <1>5
    <3>2. CASE x[1] = l
      <4>1. PICK i : i = x[2]
        OBVIOUS
      <4>2. i \in 1..Len(r[l]) /\ r[l][i].up = u /\ x = <<l, i>>
        BY <3>1, <3>2, <4>1
      <4>3. i + 1 \in 1..Len(q[l]) /\ i + 1 # 1 /\ (i + 1) - 1 = i
        BY <1>1, <4>2
      <4>4. q[l][i + 1].up = u
        BY <1>1, <4>2
      <4>5. <<l, i + 1>> \in C
        BY <1>4, <4>3, <4>4
      <4> QED
        BY <3>2, <4>1, <4>2, <4>3, <4>5
    <3>3. CASE x[1] # l
      <4>1. r[x[1]] = q[x[1]]
        BY <1>2, <3>1, <3>3
      <4>2. x \in A /\ x # <<l, 1>>
        BY <1>4, <3>1, <3>3, <4>1
      <4> QED
        BY <3>3, <4>2
    <3> QED
      BY <3>2, <3>3
  <2>2. ASSUME NEW x \in C PROVE G(x) \in B /\ F(G(x)) = x
    <3>1. /\ x = <<x[1], x[2]>> /\ x[1] \in Loops /\ x # <<l, 1>>
          /\ x[2] \in 1..Len(q[x[1]]) /\ q[x[1]][x[2]].up = u
      BY <1>4
    <3>2. CASE x[1] = l
      <4>1. PICK i : i = x[2]
        OBVIOUS
      <4>2. i \in 1..Len(q[l]) /\ q[l][i].up = u /\ x = <<l, i>> /\ i # 1
        BY <3>1, <3>2, <4>1
      <4>3. i - 1 \in 1..Len(r[l]) /\ (i - 1) + 1 = i
        BY <1>1, <4>2
      <4>4. r[l][i - 1] = q[l][(i - 1) + 1]
        BY <1>1, <4>3
      <4>5. r[l][i - 1].up = u
        BY <4>2, <4>3, <4>4
      <4>6. <<l, i - 1>> \in B
        BY <1>5, <4>3, <4>5
      <4> QED
        BY <3>2, <4>1, <4>2, <4>3, <4>6
    <3>3. CASE x[1] # l
      <4>1. r[x[1]] = q[x[1]]
        BY <1>2, <3>1, <3>3
      <4>2. x \in B
        BY <1>5, <3>1, <4>1
      <4> QED
        BY <3>3, <4>2
    <3> QED
      BY <3>2, <3>3
  <2> HIDE DEF F, G, C
  <2> DEFINE f == [x \in B |-> F(x)]
             g == [x \in C |-> G(x)]
  <2>3. f \in [B -> C] /\ g \in [C -> B]
    BY <2>1, <2>2
  <2>4. (\A x \in B : g[f[x]] = x) /\ \A x \in C : f[g[x]] = x
    BY <2>1, <2>2
  <2> HIDE DEF f, g
  <2>5. Matched(B, C)
    BY <2>3, <2>4 DEF Matched
  <2> QED
    BY <1>5, <2>5, SameNumber
<1>7. Cardinality(C) = IF <<l, 1>> \in A THEN Cardinality(A) - 1 ELSE Cardinality(A)
  BY <1>4, FS_RemoveElement
<1>8. <<l, 1>> \in A <=> Head(q[l]).up = u
  <2>1. ASSUME <<l, 1>> \in A PROVE Head(q[l]).up = u
    <3>1. PICK x \in A : x = <<l, 1>>
      BY <2>1
    <3>2. x[1] = l /\ x[2] = 1
      BY <3>1
    <3> QED
      BY <1>1, <1>4, <3>2
  <2>2. ASSUME Head(q[l]).up = u PROVE <<l, 1>> \in A
    <3>1. 1 \in 1..Len(q[l])
      BY <1>1
    <3> QED
      BY <1>1, <1>4, <2>2, <3>1
  <2> QED
    BY <2>1, <2>2
<1> HIDE DEF C
<1>9. Cardinality(A) = Cardinality(B) + (IF Head(q[l]).up = u THEN 1 ELSE 0)
  BY <1>4, <1>5, <1>6, <1>7, <1>8
<1> QED
  BY <1>9 DEF A, B

\* An entry that every loop gets a copy of.
Copied(q, r, p) == r = [l \in Loops |-> Append(q[l], p)]

LEMMA PlacesCopied ==
  ASSUME NEW S, NEW q \in [Loops -> Seq(S)], NEW u, NEW p \in S,
         NEW r, Copied(q, r, p)
  PROVE  Cardinality(Places(r, u))
           = Cardinality(Places(q, u))
             + (IF p.up = u THEN Cardinality(Loops) ELSE 0)
<1>1. ASSUME NEW l \in Loops
      PROVE  /\ Len(q[l]) \in Nat /\ Len(r[l]) = Len(q[l]) + 1 /\ r[l] \in Seq(S)
             /\ \A i \in 1..Len(q[l]) : r[l][i] = q[l][i]
             /\ r[l][Len(q[l]) + 1] = p
  <2>1. PICK s \in Seq(S) : s = q[l]
    OBVIOUS
  <2>2. /\ Len(s) \in Nat /\ Append(s, p) \in Seq(S)
        /\ Len(Append(s, p)) = Len(s) + 1
        /\ \A i \in 1..Len(s) : Append(s, p)[i] = s[i]
        /\ Append(s, p)[Len(s) + 1] = p
    BY AppendProperties, LenProperties
  <2> QED
    BY <2>1, <2>2 DEF Copied
<1>2. r \in [Loops -> Seq(S)]
  BY <1>1 DEF Copied
<1>3. Located(q, u) /\ Located(r, u)
  BY <1>2, PlacesDef
<1> DEFINE A == Places(q, u)
           B == Places(r, u)
           C == {<<l, Len(q[l]) + 1>> : l \in Loops}
<1>4. /\ \A x \in A : /\ x = <<x[1], x[2]>> /\ x[1] \in Loops
                      /\ x[2] \in 1..Len(q[x[1]]) /\ q[x[1]][x[2]].up = u
      /\ \A m \in Loops : \A i \in 1..Len(q[m]) :
            q[m][i].up = u => <<m, i>> \in A
      /\ IsFiniteSet(A) /\ Cardinality(A) \in Nat
  BY <1>3 DEF Located
<1>5. /\ \A x \in B : /\ x = <<x[1], x[2]>> /\ x[1] \in Loops
                      /\ x[2] \in 1..Len(r[x[1]]) /\ r[x[1]][x[2]].up = u
      /\ \A m \in Loops : \A i \in 1..Len(r[m]) :
            r[m][i].up = u => <<m, i>> \in B
  BY <1>3 DEF Located
<1> HIDE DEF A, B
<1>6. A \cap C = {}
  <2>1. ASSUME NEW x \in A, x \in C PROVE FALSE
    <3>1. PICK l \in Loops : x = <<l, Len(q[l]) + 1>>
      BY <2>1
    <3>2. x[1] = l /\ x[2] = Len(q[l]) + 1
      BY <3>1
    <3>3. x[2] \in 1..Len(q[l])
      BY <1>4, <3>2
    <3> QED
      BY <1>1, <3>2, <3>3
  <2> QED
    BY <2>1
<1>7. \A x \in B : x \in A \/ (x \in C /\ p.up = u)
  <2>1. ASSUME NEW x \in B PROVE x \in A \/ (x \in C /\ p.up = u)
    <3>1. PICK l \in Loops, i \in Nat :
            i \in 1..Len(r[l]) /\ x = <<l, i>> /\ r[l][i].up = u
      <4>1. /\ x = <<x[1], x[2]>> /\ x[1] \in Loops /\ x[2] \in 1..Len(r[x[1]])
            /\ r[x[1]][x[2]].up = u
        BY <1>5
      <4>2. x[2] \in Nat
        BY <1>1, <4>1
      <4> QED
        BY <4>1, <4>2
    <3>2. CASE i \in 1..Len(q[l])
      <4>1. q[l][i].up = u
        BY <1>1, <3>1, <3>2
      <4> QED
        BY <1>4, <3>1, <3>2, <4>1
    <3>3. CASE i \notin 1..Len(q[l])
      <4>1. i = Len(q[l]) + 1
        BY <1>1, <3>1, <3>3
      <4>2. r[l][i] = p
        BY <1>1, <4>1
      <4> QED
        BY <3>1, <4>1, <4>2
    <3> QED
      BY <3>2, <3>3
  <2> QED
    BY <2>1
<1>8. A \subseteq B
  <2>1. ASSUME NEW x \in A PROVE x \in B
    <3>1. PICK l \in Loops, i \in Nat :
            i \in 1..Len(q[l]) /\ x = <<l, i>> /\ q[l][i].up = u
      <4>1. /\ x = <<x[1], x[2]>> /\ x[1] \in Loops /\ x[2] \in 1..Len(q[x[1]])
            /\ q[x[1]][x[2]].up = u
        BY <1>4
      <4>2. x[2] \in Nat
        BY <1>1, <4>1
      <4> QED
        BY <4>1, <4>2
    <3>2. i \in 1..Len(r[l]) /\ r[l][i] = q[l][i]
      BY <1>1, <3>1
    <3> QED
      BY <1>5, <3>1, <3>2
  <2> QED
    BY <2>1
<1>9. p.up = u => C \subseteq B
  <2>1. ASSUME p.up = u, NEW x \in C PROVE x \in B
    <3>1. PICK l \in Loops : x = <<l, Len(q[l]) + 1>>
      OBVIOUS
    <3>2. Len(q[l]) + 1 \in 1..Len(r[l]) /\ r[l][Len(q[l]) + 1] = p
      BY <1>1
    <3> QED
      BY <1>5, <2>1, <3>1, <3>2
  <2> QED
    BY <2>1
<1>10. IsFiniteSet(C) /\ Cardinality(C) = Cardinality(Loops)
  <2> DEFINE f == [l \in Loops |-> <<l, Len(q[l]) + 1>>]
             g == [x \in C |-> x[1]]
  <2>1. \A l \in Loops : <<l, Len(q[l]) + 1>> \in C /\ <<l, Len(q[l]) + 1>>[1] = l
    OBVIOUS
  <2>2. \A x \in C : x[1] \in Loops /\ <<x[1], Len(q[x[1]]) + 1>> = x
    OBVIOUS
  <2> HIDE DEF C
  <2>3. f \in [Loops -> C] /\ g \in [C -> Loops]
    BY <2>1, <2>2
  <2>4. (\A l \in Loops : g[f[l]] = l) /\ \A x \in C : f[g[x]] = x
    BY <2>1, <2>2
  <2> HIDE DEF f, g
  <2>5. Matched(Loops, C)
    BY <2>3, <2>4 DEF Matched
  <2> QED
    BY <2>5, SameNumber, UpgradedAssumption
<1> HIDE DEF C
<1>11. CASE p.up = u
  <2>1. B = A \cup C
    BY <1>7, <1>8, <1>9, <1>11
  <2>2. Cardinality(B) = Cardinality(A) + Cardinality(C) - Cardinality({})
    BY <1>4, <1>6, <1>10, <2>1, FS_Union
  <2>3. Cardinality(Loops) \in Nat /\ Cardinality({}) = 0
    BY FS_CardinalityType, FS_EmptySet, UpgradedAssumption
  <2>4. Cardinality(B) = Cardinality(A) + Cardinality(Loops)
    BY <1>4, <1>10, <2>2, <2>3
  <2> QED
    BY <1>11, <2>4 DEF A, B
<1>12. CASE p.up # u
  <2>1. B = A
    BY <1>7, <1>8, <1>12
  <2> QED
    BY <1>4, <1>12, <2>1 DEF A, B
<1> QED
  BY <1>11, <1>12

-----------------------------------------------------------------------------
(* The shapes of the state *)

States == {"open", "dead", "gone"}
Responses == [kind : {"wait", "accept", "close", "ping", "pong"}]
                \cup [kind : {"text"}, n : 1..MaxCalls]
Records == [ref : Int, pending : Int, subscribed : BOOLEAN]
Entries == {p \in Pub : /\ p.kind = "publish" <=> p.up = NULL
                        /\ p.kind \in {"write", "publish"} => p.n # 0}
Visits == {Idle} \cup [at : {"seen"}, up : Ups]
                 \cup [at : {"walk"}, up : Ups, n : 1..MaxCalls]
Methods == {"on_message", "on_close", "on_drained", "on_error"}
Requests == [method : Methods, up : Ups]
Jobs == {Idle} \cup [at : {"run"}, up : Ups]
Calls == {Idle} \cup [at : {"got"}, op : Ops \ {"publish"}, up : Ups]
Busy == {k \in Callers : call[k] # Idle}

ConShape ==
    /\ con \in [Ups -> States] /\ bound \in [Ups -> BOOLEAN]
    /\ out \in [Ups -> Seq(Responses)]
    /\ wire \in [Ups -> Seq(1..MaxCalls)] /\ reads \in [Ups -> 0..MaxReads]

\* No record is on the list twice.
UpShape ==
    /\ up \in [Ups -> Records]
    /\ list \in Seq(Ups) /\ IsInjective(list)
    /\ Range(list) \subseteq opened /\ opened \subseteq Ups

QueueShape ==
    /\ pubs \in [Loops -> Seq(Entries)] /\ at \in [Loops -> Visits]
    /\ reqs \in Seq(Requests) /\ job \in [Evals -> Jobs]

\* The calls made and under way stay within the bound.
CallShape ==
    /\ call \in [Callers -> Calls] /\ answer \in [Callers -> BOOLEAN]
    /\ log \in Seq(Pub) /\ Len(log) + Cardinality(Busy) <= MaxCalls

EndShape == closes \in [Ups -> Nat] /\ fault \in BOOLEAN

Shape == ConShape /\ UpShape /\ QueueShape /\ CallShape /\ EndShape

\* Before a connection is upgraded its request waits for the response.
Unopened ==
    \A u \in Ups : u \notin opened =>
        /\ out[u] = <<[kind |-> "wait"]>> /\ ~bound[u] /\ con[u] # "gone"
        /\ up[u].pending = 0

LEMMA LiveRange == Live = Range(list)
BY DEF Live, Range

\* The callbacks of a handler.
LEMMA HasMethod ==
  ASSUME NEW m \in Methods
  PROVE  /\ Has(m) \in Seq(Methods) /\ Len(Has(m)) \in Nat
         /\ Len(Has(m)) = IF m \in Hooks THEN 1 ELSE 0
<1>1. CASE m \in Hooks
  <2>1. Has(m) = <<m>>
    BY <1>1 DEF Has
  <2>2. <<m>> \in Seq(Methods) /\ Len(<<m>>) = 1
    BY SingleRange
  <2> QED
    BY <1>1, <2>1, <2>2
<1>2. CASE m \notin Hooks
  <2>1. Has(m) = <<>>
    BY <1>2 DEF Has
  <2> QED
    BY <1>2, <2>1
<1> QED
  BY <1>1, <1>2

\* A record that is destroyed is off the list.
LEMMA Unlinked ==
  ASSUME UpShape, NEW u \in Ups
  PROVE  /\ Without(u) \in Seq(Ups) /\ IsInjective(Without(u))
         /\ Range(Without(u)) = Live \ {u}
<1>1. list \in Seq(Ups) /\ IsInjective(list) /\ Live = Range(list)
  BY LiveRange DEF UpShape
<1>2. CASE u \notin Live
  BY <1>1, <1>2 DEF Without
<1>3. CASE u \in Live
  <2> DEFINE i == CHOOSE j \in DOMAIN list : list[j] = u
  <2>1. i \in 1..Len(list) /\ list[i] = u
    BY <1>1, <1>3, LenProperties DEF Live
  <2> HIDE DEF i
  <2>2. PICK a, b : a = SubSeq(list, 1, i - 1) /\ b = SubSeq(list, i + 1, Len(list))
    OBVIOUS
  <2>3. Without(u) = a \o b
    BY <1>3, <2>2 DEF Without, i
  <2>4. PICK c : c = SubSeq(list, i, Len(list))
    OBVIOUS
  <2>5. /\ i - 1 \in 0..Len(list) /\ (i - 1) + 1 = i /\ i \in 0..Len(list)
        /\ Len(list) \in Nat /\ Len(list) - (i - 1) \in Nat \ {0}
        /\ i \in 1..(Len(list) + 1)
    BY <1>1, <2>1, LenProperties
  <2>6. /\ a \in Seq(Ups) /\ c \in Seq(Ups) /\ Len(c) = Len(list) - (i - 1)
        /\ \A j \in 1..(Len(list) - (i - 1)) : c[j] = list[(i - 1) + j]
        /\ Range(a) \cup Range(c) = Range(list)
        /\ IsInjective(a) /\ IsInjective(c) /\ Range(a) \cap Range(c) = {}
    <3>1. PICK k \in 0..Len(list) : k = i - 1 /\ k + 1 = i
      BY <2>5
    <3>2. /\ SubSeq(list, 1, k) \in Seq(Ups)
          /\ SubSeq(list, k + 1, Len(list)) \in Seq(Ups)
          /\ Len(SubSeq(list, k + 1, Len(list))) = Len(list) - k
          /\ \A j \in 1..(Len(list) - k) :
                SubSeq(list, k + 1, Len(list))[j] = list[k + j]
          /\ Range(SubSeq(list, 1, k)) \cup Range(SubSeq(list, k + 1, Len(list)))
               = Range(list)
          /\ IsInjective(SubSeq(list, 1, k))
          /\ IsInjective(SubSeq(list, k + 1, Len(list)))
          /\ Range(SubSeq(list, 1, k)) \cap Range(SubSeq(list, k + 1, Len(list)))
               = {}
      BY <1>1, CutRange
    <3>3. a = SubSeq(list, 1, k) /\ c = SubSeq(list, k + 1, Len(list))
      BY <2>2, <2>4, <3>1
    <3> QED
      BY <3>1, <3>2, <3>3
  <2>7. /\ b \in Seq(Ups) /\ Len(b) = Len(list) - i
        /\ \A j \in 1..(Len(list) - i) : b[j] = list[i + j]
    BY <1>1, <2>2, <2>5, CutRange
  <2>8. /\ c # <<>> /\ Head(c) = u
        /\ Tail(c) \in Seq(Ups) /\ Len(Tail(c)) = Len(c) - 1
        /\ \A j \in 1..Len(Tail(c)) : Tail(c)[j] = c[j + 1]
        /\ Range(c) = {Head(c)} \cup Range(Tail(c))
        /\ IsInjective(Tail(c)) /\ Head(c) \notin Range(Tail(c))
    <3>1. c # <<>>
      BY <2>5, <2>6
    <3>2. c[1] = list[(i - 1) + 1]
      BY <2>5, <2>6
    <3>3. c[1] = u
      BY <2>1, <2>5, <3>2
    <3> QED
      BY <2>6, <3>1, <3>3, TailRange
  <2>9. b = Tail(c)
    <3>1. Len(b) = Len(Tail(c))
      BY <2>5, <2>6, <2>7, <2>8
    <3>2. ASSUME NEW j \in 1..Len(b) PROVE b[j] = Tail(c)[j]
      <4>1. /\ j \in 1..(Len(list) - i) /\ j + 1 \in 1..(Len(list) - (i - 1))
            /\ i + j = (i - 1) + (j + 1) /\ j \in 1..Len(Tail(c))
        BY <2>5, <2>6, <2>7, <2>8
      <4>2. b[j] = list[i + j] /\ c[j + 1] = list[(i - 1) + (j + 1)]
        BY <2>6, <2>7, <4>1
      <4> QED
        BY <2>8, <4>1, <4>2
    <3> QED
      BY <2>7, <2>8, <3>1, <3>2, SeqEqual
  <2>10. /\ Range(a) \cap Range(b) = {} /\ IsInjective(b)
         /\ Range(a) \cup Range(b) = Range(list) \ {u}
    BY <2>6, <2>8, <2>9
  <2>11. /\ Range(a \o b) = Range(a) \cup Range(b) /\ IsInjective(a \o b)
    BY <2>6, <2>7, <2>10, ConcatRange
  <2>12. a \o b \in Seq(Ups)
    BY <2>6, <2>7, ConcatProperties
  <2> QED
    BY <1>1, <2>3, <2>10, <2>11, <2>12
<1> QED
  BY <1>2, <1>3

-----------------------------------------------------------------------------
(* The counts *)

LEMMA CountsDef ==
  ASSUME NEW u
  PROVE  /\ OfPubs(u) = Cardinality(Places(pubs, u))
         /\ OfPubs(u)' = Cardinality(Places(pubs', u))
         /\ OfReqs(u) = Cardinality(Marked(reqs, u))
         /\ OfReqs(u)' = Cardinality(Marked(reqs', u))
         /\ \A l : /\ QueuedFor(u, l) = Cardinality(Marked(pubs[l], u))
                   /\ QueuedFor(u, l)' = Cardinality(Marked(pubs'[l], u))
BY DEF OfPubs, OfReqs, QueuedFor, Places, Marked

LEMMA CountsNat ==
  ASSUME QueueShape, NEW u
  PROVE  /\ OfCon(u) \in {0, 1} /\ OfPubs(u) \in Nat /\ OfLoops(u) \in Nat
         /\ OfReqs(u) \in Nat /\ OfJobs(u) \in Nat /\ OfCalls(u) \in Nat
<1>1. OfPubs(u) \in Nat
  <2>1. Located(pubs, u)
    BY PlacesDef DEF QueueShape
  <2> QED
    BY <2>1, CountsDef DEF Located
<1>2. OfReqs(u) \in Nat
  BY MarkedFinite, CountsDef DEF QueueShape
<1>3. OfLoops(u) \in Nat
  <2>1. IsFiniteSet({l \in Loops : at[l].at = "seen" /\ at[l].up = u})
    BY FS_Subset, UpgradedAssumption
  <2> QED
    BY <2>1, FS_CardinalityType DEF OfLoops
<1>4. OfJobs(u) \in Nat
  <2>1. IsFiniteSet({t \in Evals : job[t] # Idle /\ job[t].up = u})
    BY FS_Subset, UpgradedAssumption
  <2> QED
    BY <2>1, FS_CardinalityType DEF OfJobs
<1>5. OfCalls(u) \in Nat
  <2>1. IsFiniteSet({k \in Callers : call[k] # Idle /\ call[k].up = u})
    BY FS_Subset, UpgradedAssumption
  <2> QED
    BY <2>1, FS_CardinalityType DEF OfCalls
<1> QED
  BY <1>1, <1>2, <1>3, <1>4, <1>5 DEF OfCon

LEMMA QueueCount ==
  ASSUME QueueShape, NEW u \in Ups, NEW ms \in Seq(Methods), Queue(u, ms)
  PROVE  /\ reqs' \in Seq(Requests)
         /\ \A v : OfReqs(v)' = OfReqs(v) + (IF v = u THEN Len(ms) ELSE 0)
<1>1. PICK t : t = [i \in DOMAIN ms |-> [method |-> ms[i], up |-> u]]
  OBVIOUS
<1>2. DOMAIN ms = 1..Len(ms) /\ Len(ms) \in Nat /\ \A i \in 1..Len(ms) : ms[i] \in Methods
  BY LenProperties, ElementOfSeq
<1>3. /\ t \in Seq(Requests) /\ Len(t) = Len(ms)
      /\ \A i \in 1..Len(t) : t[i].up = u
  <2>1. \A i \in 1..Len(ms) : t[i] \in Requests /\ t[i].up = u
    BY <1>1, <1>2 DEF Requests
  <2>2. t = [i \in 1..Len(ms) |-> t[i]]
    BY <1>1, <1>2
  <2>3. t \in Seq(Requests)
    BY <1>2, <2>1, <2>2, IsASeq
  <2>4. DOMAIN t = 1..Len(t) /\ Len(t) \in Nat /\ DOMAIN t = 1..Len(ms)
    BY <1>1, <1>2, <2>3, LenProperties
  <2>5. Len(t) = Len(ms)
    <3>1. PICK m \in Nat, n \in Nat : m = Len(t) /\ n = Len(ms)
      BY <1>2, <2>4
    <3>2. 1..m = 1..n
      BY <1>2, <2>4, <3>1
    <3>3. m = n
      BY <3>2
    <3> QED
      BY <3>1, <3>3
  <2> QED
    BY <2>1, <2>3, <2>5
<1>4. reqs' = reqs \o t /\ reqs \in Seq(Requests)
  BY <1>1 DEF Queue, QueueShape
<1>5. reqs' \in Seq(Requests)
  BY <1>3, <1>4, ConcatProperties
<1>6. AllMarked(t, u)
  BY <1>3 DEF AllMarked
<1>7. ASSUME NEW v
      PROVE  OfReqs(v)' = OfReqs(v) + (IF v = u THEN Len(ms) ELSE 0)
  <2>1. Grown(reqs, t, v, u)
    BY <1>3, <1>4, <1>6, MarkedConcat
  <2>2. Cardinality(Marked(reqs', v))
          = Cardinality(Marked(reqs, v)) + (IF v = u THEN Len(ms) ELSE 0)
    BY <1>3, <1>4, <2>1 DEF Grown
  <2> QED
    BY <2>2, CountsDef
<1> QED
  BY <1>5, <1>7

LEMMA PublishCount ==
  ASSUME QueueShape, NEW p \in Entries, Publish(p)
  PROVE  /\ pubs' \in [Loops -> Seq(Entries)]
         /\ \A v : OfPubs(v)' = OfPubs(v) + (IF p.up = v THEN Cardinality(Loops) ELSE 0)
         /\ \A v : \A l \in Loops :
               QueuedFor(v, l)' = QueuedFor(v, l) + (IF p.up = v THEN 1 ELSE 0)
<1>1. pubs \in [Loops -> Seq(Entries)]
  BY DEF QueueShape
<1>2. pubs' = [l \in Loops |-> Append(pubs[l], p)]
  BY DEF Publish
<1>3. \A l \in Loops : pubs[l] \in Seq(Entries) /\ Append(pubs[l], p) \in Seq(Entries)
  BY <1>1, AppendProperties
<1>4. pubs' \in [Loops -> Seq(Entries)]
  BY <1>2, <1>3
<1>5. ASSUME NEW v
      PROVE  OfPubs(v)' = OfPubs(v) + (IF p.up = v THEN Cardinality(Loops) ELSE 0)
  <2>1. PICK q \in [Loops -> Seq(Entries)], r \in {pubs'} : q = pubs /\ r = pubs'
    BY <1>1
  <2>2. Copied(q, r, p)
    BY <1>2, <2>1 DEF Copied
  <2>3. Cardinality(Places(r, v))
          = Cardinality(Places(q, v)) + (IF p.up = v THEN Cardinality(Loops) ELSE 0)
    BY <2>2, PlacesCopied
  <2>4. /\ OfPubs(v) = Cardinality(Places(q, v))
        /\ OfPubs(v)' = Cardinality(Places(r, v))
    BY <2>1, CountsDef
  <2> QED
    BY <2>3, <2>4
<1>6. ASSUME NEW v, NEW l \in Loops
      PROVE  QueuedFor(v, l)' = QueuedFor(v, l) + (IF p.up = v THEN 1 ELSE 0)
  <2>1. pubs'[l] = Append(pubs[l], p) /\ pubs[l] \in Seq(Entries)
    BY <1>2, <1>3
  <2>2. Cardinality(Marked(Append(pubs[l], p), v))
          = Cardinality(Marked(pubs[l], v)) + (IF p.up = v THEN 1 ELSE 0)
    BY <2>1, MarkedAppend
  <2> QED
    BY <2>1, <2>2, CountsDef
<1> QED
  BY <1>4, <1>5, <1>6

LEMMA PoppedCount ==
  ASSUME QueueShape, NEW l \in Loops, pubs[l] # <<>>, Popped(l),
         NEW p, p = Head(pubs[l])
  PROVE  /\ p \in Entries
         /\ pubs' \in [Loops -> Seq(Entries)]
         /\ \A v : OfPubs(v) = OfPubs(v)' + (IF p.up = v THEN 1 ELSE 0)
         /\ \A v : \A m \in Loops :
               QueuedFor(v, m)
                 = QueuedFor(v, m)' + (IF m = l /\ p.up = v THEN 1 ELSE 0)
<1>1. pubs \in [Loops -> Seq(Entries)]
  BY DEF QueueShape
<1>2. pubs' = [pubs EXCEPT ![l] = Tail(@)]
  BY DEF Popped
<1>3. p \in Entries /\ Tail(pubs[l]) \in Seq(Entries)
  BY <1>1, HeadTailProperties
<1>4. pubs' \in [Loops -> Seq(Entries)]
  BY <1>1, <1>2, <1>3
<1>5. ASSUME NEW v
      PROVE  OfPubs(v) = OfPubs(v)' + (IF p.up = v THEN 1 ELSE 0)
  <2>1. PICK q \in [Loops -> Seq(Entries)], r \in {pubs'} : q = pubs /\ r = pubs'
    BY <1>1
  <2>2. FrontTaken(q, r, l)
    BY <1>2, <2>1 DEF FrontTaken
  <2>3. Cardinality(Places(q, v))
          = Cardinality(Places(r, v)) + (IF Head(q[l]).up = v THEN 1 ELSE 0)
    BY <2>2, PlacesPopped
  <2>4. /\ OfPubs(v) = Cardinality(Places(q, v))
        /\ OfPubs(v)' = Cardinality(Places(r, v))
    BY <2>1, CountsDef
  <2>5. Head(q[l]) = p
    BY <2>1
  <2> QED
    BY <2>3, <2>4, <2>5
<1>6. ASSUME NEW v, NEW m \in Loops
      PROVE  QueuedFor(v, m)
               = QueuedFor(v, m)' + (IF m = l /\ p.up = v THEN 1 ELSE 0)
  <2>1. pubs[m] \in Seq(Entries) /\ Cardinality(Marked(pubs[m], v)) \in Nat
    BY <1>1, MarkedFinite
  <2>2. CASE m = l
    <3>1. pubs[m] # <<>> /\ p = Head(pubs[m]) /\ pubs'[m] = Tail(pubs[m])
      BY <1>1, <1>2, <2>2
    <3>2. Cardinality(Marked(pubs[m], v))
            = Cardinality(Marked(Tail(pubs[m]), v)) + (IF Head(pubs[m]).up = v THEN 1 ELSE 0)
      BY <2>1, <3>1, MarkedTail
    <3>3. Cardinality(Marked(pubs[m], v))
            = Cardinality(Marked(pubs'[m], v)) + (IF m = l /\ p.up = v THEN 1 ELSE 0)
      BY <2>2, <3>1, <3>2
    <3>4. /\ QueuedFor(v, m) = Cardinality(Marked(pubs[m], v))
          /\ QueuedFor(v, m)' = Cardinality(Marked(pubs'[m], v))
      BY CountsDef
    <3> QED
      BY <3>3, <3>4
  <2>3. CASE m # l
    <3>1. pubs'[m] = pubs[m]
      BY <1>1, <1>2, <2>3
    <3>2. Cardinality(Marked(pubs[m], v))
            = Cardinality(Marked(pubs'[m], v)) + (IF m = l /\ p.up = v THEN 1 ELSE 0)
      BY <2>1, <2>3, <3>1
    <3>3. /\ QueuedFor(v, m) = Cardinality(Marked(pubs[m], v))
          /\ QueuedFor(v, m)' = Cardinality(Marked(pubs'[m], v))
      BY CountsDef
    <3> QED
      BY <3>2, <3>3
  <2> QED
    BY <2>2, <2>3
<1> QED
  BY <1>3, <1>4, <1>5, <1>6

-----------------------------------------------------------------------------
(* The end of a connection *)

LEMMA DroppedDef ==
  ASSUME NEW S, NEW s \in Seq(S)
  PROVE  /\ Dropped(s) \in 0..Len(s)
         /\ \A j \in 1..Dropped(s) : Droppable(s[j])
<1>1. Len(s) \in Nat
  BY LenProperties
<1>2. \E i \in 0..Len(s) : /\ \A j \in 1..i : Droppable(s[j])
                           /\ i < Len(s) => ~Droppable(s[i + 1])
  <2> DEFINE T == {j \in 1..Len(s) : ~Droppable(s[j])}
  <2>1. CASE T = {}
    BY <1>1, <2>1
  <2>2. CASE T # {}
    <3>1. T \in SUBSET Nat
      BY <1>1
    <3>2. PICK k \in T : \A i \in T : k <= i
      BY <2>2, <3>1, LeastNumber
    <3>3. k \in 1..Len(s) /\ ~Droppable(s[k]) /\ k - 1 \in 0..Len(s) /\ (k - 1) + 1 = k
      BY <1>1
    <3>4. \A j \in 1..(k - 1) : Droppable(s[j])
      BY <1>1, <3>2, <3>3
    <3> QED
      BY <3>3, <3>4
  <2> QED
    BY <2>1, <2>2
<1> QED
  BY <1>2 DEF Dropped

\* u is dead, with the list of responses s and the callbacks ms.
Dies(u, s, ms) ==
    /\ Kill(u, s, ms) /\ con[u] # "gone"
    /\ UNCHANGED <<bound, wire, reads, pubs, at, job, callVars, closes, fault>>
    /\ u \notin opened => s = <<[kind |-> "wait"]>> /\ ms = <<>>

LEMMA DiesStep ==
  ASSUME Shape, Unopened, NEW u \in Ups,
         Hangup(u) \/ CheckDead(u) \/ WriteClose(u) \/ WriteError(u)
  PROVE  \E s \in Seq(Responses), ms \in Seq(Methods) : Dies(u, s, ms)
<1>1. out[u] \in Seq(Responses) /\ <<>> \in Seq(Methods)
  BY DEF Shape, ConShape
<1>2. CASE Hangup(u) \/ CheckDead(u)
  <2>1. u \notin opened => out[u] = <<[kind |-> "wait"]>>
    BY DEF Unopened
  <2>2. Dies(u, out[u], <<>>)
    BY <1>2, <2>1 DEF Hangup, CheckDead, Dies
  <2> QED
    BY <1>1, <2>2
<1>3. ASSUME Writable(u), bound[u] \/ Head(out[u]).kind = "close"
      PROVE  u \in opened /\ Tail(out[u]) \in Seq(Responses)
  <2>1. out[u] # <<>>
    BY <1>3 DEF Writable
  <2>2. ASSUME u \notin opened PROVE FALSE
    <3>1. out[u] = <<[kind |-> "wait"]>> /\ ~bound[u]
      BY <2>2 DEF Unopened
    <3>2. Head(out[u]).kind = "wait"
      BY <3>1
    <3> QED
      BY <1>3, <3>1, <3>2
  <2> QED
    BY <1>1, <2>1, <2>2, HeadTailProperties
<1>4. CASE WriteClose(u)
  <2>1. Writable(u) /\ Head(out[u]).kind = "close" /\ con[u] = "open"
    BY <1>4 DEF WriteClose, Writable
  <2>2. Has("on_close") \in Seq(Methods)
    BY HasMethod DEF Methods
  <2>3. Dies(u, Tail(out[u]), Has("on_close"))
    BY <1>3, <1>4, <2>1 DEF WriteClose, Dies
  <2> QED
    BY <1>3, <2>1, <2>2, <2>3
<1>5. CASE WriteError(u)
  <2>1. Writable(u) /\ bound[u] /\ con[u] = "open"
    BY <1>5 DEF WriteError, Writable
  <2>2. PICK ms : ms = Has("on_error") \o
                       (IF Proto[u] = "ws" THEN Has("on_close") ELSE <<>>)
    OBVIOUS
  <2>3. ms \in Seq(Methods)
    <3>1. Has("on_error") \in Seq(Methods) /\ Has("on_close") \in Seq(Methods)
      BY HasMethod DEF Methods
    <3>2. (IF Proto[u] = "ws" THEN Has("on_close") ELSE <<>>) \in Seq(Methods)
      BY <1>1, <3>1
    <3> QED
      BY <2>2, <3>1, <3>2, ConcatProperties
  <2>4. Kill(u, Tail(out[u]), ms)
    BY <1>5, <2>2 DEF WriteError
  <2>5. Dies(u, Tail(out[u]), ms)
    BY <1>3, <1>5, <2>1, <2>4 DEF WriteError, Dies
  <2> QED
    BY <1>3, <2>1, <2>3, <2>5
<1> QED
  BY <1>2, <1>4, <1>5

\* Of what is left it waits for, or it is destroyed.
Leaves(u, s, ms, x, gone, all) ==
    /\ x \in Seq(Responses) /\ all \in Seq(Methods)
    /\ con' = [con EXCEPT ![u] = IF gone THEN "gone" ELSE "dead"]
    /\ out' = [out EXCEPT ![u] = x]
    /\ Queue(u, all)
    /\ gone => Release(u, Len(all))
    /\ ~gone => /\ up' = [up EXCEPT ![u].ref = @ + Len(all)]
                /\ UNCHANGED <<list, opened>> /\ all = ms
    /\ s = <<[kind |-> "wait"]>> => ~gone /\ x = s

LEMMA KillLeaves ==
  ASSUME NEW u \in Ups, NEW s \in Seq(Responses), NEW ms \in Seq(Methods),
         Kill(u, s, ms)
  PROVE  \E x, all : \E gone \in BOOLEAN : Leaves(u, s, ms, x, gone, all)
<1> DEFINE i == Dropped(s)
           x == SubSeq(s, i + 1, Len(s))
           gone == i = Len(s)
           all == IF gone THEN ms \o Closing(u) ELSE ms
<1>1. i \in 0..Len(s) /\ \A j \in 1..i : Droppable(s[j])
  BY DroppedDef
<1>2. x \in Seq(Responses)
  BY <1>1, CutRange
<1>3. all \in Seq(Methods)
  <2>1. Closing(u) \in Seq(Methods)
    <3>1. Has("on_close") \in Seq(Methods) /\ <<>> \in Seq(Methods)
      BY HasMethod DEF Methods
    <3> QED
      BY <3>1 DEF Closing
  <2>2. ms \o Closing(u) \in Seq(Methods)
    BY <2>1, ConcatProperties
  <2> QED
    BY <2>2
<1>4. s = <<[kind |-> "wait"]>> => ~gone /\ x = s
  <2>1. ASSUME s = <<[kind |-> "wait"]>> PROVE ~gone /\ x = s
    <3>1. Len(s) = 1 /\ s[1] = [kind |-> "wait"]
      BY <2>1
    <3>2. ~Droppable(s[1])
      BY <3>1 DEF Droppable
    <3>3. i = 0
      BY <1>1, <3>1, <3>2
    <3>4. x = SubSeq(s, 1, Len(s))
      BY <3>3
    <3>5. SubSeq(s, 1, Len(s)) = s
      <4>1. PICK y : y = SubSeq(s, 1, Len(s))
        OBVIOUS
      <4>2. y \in Seq(Responses) /\ Len(y) = Len(s) /\ \A j \in 1..Len(y) : y[j] = s[j]
        <5>1. PICK m \in 0..Len(s) : m = 0
          BY <3>1
        <5>2. /\ SubSeq(s, m + 1, Len(s)) \in Seq(Responses)
              /\ Len(SubSeq(s, m + 1, Len(s))) = Len(s) - m
              /\ \A j \in 1..(Len(s) - m) : SubSeq(s, m + 1, Len(s))[j] = s[m + j]
          BY CutRange
        <5>3. m + 1 = 1 /\ Len(s) - m = 1
          BY <3>1, <5>1
        <5> QED
          BY <3>1, <4>1, <5>1, <5>2, <5>3
      <4> QED
        BY <4>1, <4>2, SeqEqual
    <3> QED
      BY <3>1, <3>3, <3>4, <3>5
  <2> QED
    BY <2>1
<1>5. /\ con' = [con EXCEPT ![u] = IF gone THEN "gone" ELSE "dead"]
      /\ out' = [out EXCEPT ![u] = x]
      /\ Queue(u, all)
      /\ IF gone
             THEN Release(u, Len(all))
             ELSE /\ up' = [up EXCEPT ![u].ref = @ + Len(all)]
                  /\ UNCHANGED <<list, opened>>
  BY DEF Kill
<1>6. ~gone => all = ms
  OBVIOUS
<1>7. gone \in BOOLEAN
  OBVIOUS
<1> HIDE DEF x, gone, all
<1>8. Leaves(u, s, ms, x, gone, all)
  BY <1>2, <1>3, <1>4, <1>5, <1>6 DEF Leaves
<1> QED
  BY <1>7, <1>8

-----------------------------------------------------------------------------
(* What an action does to the counts *)

\* A count of u grows by d, that of no other record changes.
ConBy(u, d) == \A v \in Ups : OfCon(v)' = OfCon(v) + (IF v = u THEN d ELSE 0)
PubsBy(u, d) == \A v \in Ups : OfPubs(v)' = OfPubs(v) + (IF v = u THEN d ELSE 0)
LoopsBy(u, d) == \A v \in Ups : OfLoops(v)' = OfLoops(v) + (IF v = u THEN d ELSE 0)
ReqsBy(u, d) == \A v \in Ups : OfReqs(v)' = OfReqs(v) + (IF v = u THEN d ELSE 0)
JobsBy(u, d) == \A v \in Ups : OfJobs(v)' = OfJobs(v) + (IF v = u THEN d ELSE 0)
CallsBy(u, d) == \A v \in Ups : OfCalls(v)' = OfCalls(v) + (IF v = u THEN d ELSE 0)
RefBy(u, d) == \A v \in Ups : up'[v].ref = up[v].ref + (IF v = u THEN d ELSE 0)

\* A record is destroyed only where no reference is left of it.
LivesOn(u) == Live' = Live \/ (Live' = Live \ {u} /\ up'[u].ref <= 0)

\* The count of a record covers all who hold it, and it is there while someone
\* does.
Covered ==
    \A u \in Ups : /\ Holders(u) <= up[u].ref
                   /\ Holders(u) > 0 => u \in Live

\* Where a reference may stay behind: a callback raises, or a message comes for
\* a handler without on_message.
Slack == \/ "raise" \in Faults \/ "on_message" \notin Hooks
         \/ "env" \in Ops

\* What every step does.
Kept == Covered' /\ (RefsExact => RefsExact' \/ fault' \/ Slack)

\* All counts of u together.
Moves(u, c, p, l, r, j, k, e) ==
    /\ ConBy(u, c) /\ PubsBy(u, p) /\ LoopsBy(u, l) /\ ReqsBy(u, r)
    /\ JobsBy(u, j) /\ CallsBy(u, k) /\ RefBy(u, e) /\ LivesOn(u)

LEMMA Settled ==
  ASSUME UpShape, QueueShape, Covered, NEW u, NEW c \in Int, NEW p \in Int,
         NEW l \in Int, NEW r \in Int, NEW j \in Int, NEW k \in Int, NEW e \in Int,
         Moves(u, c, p, l, r, j, k, e),
         c + p + l + r + j + k <= e,
         u \in Live \/ c + p + l + r + j + k <= 0,
         c + p + l + r + j + k = e \/ fault' \/ Slack
  PROVE  Kept
<1> DEFINE d == c + p + l + r + j + k
<1>1. ASSUME NEW v \in Ups
      PROVE  /\ Holders(v) \in Int /\ up[v].ref \in Int
             /\ Holders(v)' = Holders(v) + (IF v = u THEN d ELSE 0)
             /\ up'[v].ref = up[v].ref + (IF v = u THEN e ELSE 0)
  <2>1. /\ OfCon(v) \in Int /\ OfPubs(v) \in Int /\ OfLoops(v) \in Int
        /\ OfReqs(v) \in Int /\ OfJobs(v) \in Int /\ OfCalls(v) \in Int
    BY CountsNat
  <2>2. up[v].ref \in Int
    BY DEF UpShape, Records
  <2>3. /\ OfCon(v)' = OfCon(v) + (IF v = u THEN c ELSE 0)
        /\ OfPubs(v)' = OfPubs(v) + (IF v = u THEN p ELSE 0)
        /\ OfLoops(v)' = OfLoops(v) + (IF v = u THEN l ELSE 0)
        /\ OfReqs(v)' = OfReqs(v) + (IF v = u THEN r ELSE 0)
        /\ OfJobs(v)' = OfJobs(v) + (IF v = u THEN j ELSE 0)
        /\ OfCalls(v)' = OfCalls(v) + (IF v = u THEN k ELSE 0)
    BY DEF Moves, ConBy, PubsBy, LoopsBy, ReqsBy, JobsBy, CallsBy
  <2>4. up'[v].ref = up[v].ref + (IF v = u THEN e ELSE 0)
    BY DEF Moves, RefBy
  <2>5. Holders(v) \in Int
    BY <2>1 DEF Holders
  <2>6. Holders(v)' = Holders(v) + (IF v = u THEN d ELSE 0)
    <3>1. Holders(v)' = OfCon(v)' + OfPubs(v)' + OfLoops(v)' + OfReqs(v)'
                          + OfJobs(v)' + OfCalls(v)'
      BY DEF Holders
    <3>2. Holders(v) = OfCon(v) + OfPubs(v) + OfLoops(v) + OfReqs(v)
                          + OfJobs(v) + OfCalls(v)
      BY DEF Holders
    <3>3. CASE v = u
      BY <2>1, <2>3, <3>1, <3>2, <3>3
    <3>4. CASE v # u
      BY <2>1, <2>3, <3>1, <3>2, <3>4
    <3> QED
      BY <3>3, <3>4
  <2> QED
    BY <2>2, <2>4, <2>5, <2>6
<1>2. d \in Int /\ d <= e /\ (u \in Live \/ d <= 0)
  OBVIOUS
<1>3. d = e \/ fault' \/ Slack
  OBVIOUS
<1> HIDE DEF d
<1>4. ASSUME NEW v \in Ups
      PROVE  /\ Holders(v)' <= up'[v].ref
             /\ Holders(v)' > 0 => v \in Live'
  <2>1. Holders(v) <= up[v].ref /\ (Holders(v) > 0 => v \in Live)
    BY DEF Covered
  <2>2. CASE v = u
    <3>1. Holders(v)' <= up'[v].ref
      BY <1>1, <1>2, <2>1, <2>2
    <3>2. ASSUME Holders(v)' > 0 PROVE v \in Live'
      <4>1. v \in Live
        BY <1>1, <1>2, <2>1, <2>2, <3>2
      <4>2. Live' = Live
        BY <1>1, <1>2, <2>2, <3>1, <3>2 DEF Moves, LivesOn
      <4> QED
        BY <4>1, <4>2
    <3> QED
      BY <3>1, <3>2
  <2>3. CASE v # u
    <3>1. v \in Live' <=> v \in Live
      BY <2>3 DEF Moves, LivesOn
    <3> QED
      BY <1>1, <2>1, <2>3, <3>1
  <2> QED
    BY <2>2, <2>3
<1>5. Covered'
  BY <1>4 DEF Covered
<1>6. ASSUME RefsExact, d = e PROVE RefsExact'
  <2>1. ASSUME NEW v \in Ups, v \in Live' PROVE up'[v].ref = Holders(v)'
    <3>1. v \in Live
      BY <2>1 DEF Moves, LivesOn
    <3>2. up[v].ref = Holders(v)
      BY <1>6, <3>1 DEF RefsExact
    <3> QED
      BY <1>1, <1>6, <3>2
  <2> QED
    BY <2>1 DEF RefsExact
<1> QED
  BY <1>3, <1>5, <1>6 DEF Kept

\* What an action leaves alone.
LEMMA Untouched ==
  ASSUME UpShape, QueueShape, NEW u
  PROVE  /\ con' = con /\ opened' = opened => ConBy(u, 0)
         /\ pubs' = pubs => PubsBy(u, 0)
         /\ at' = at => LoopsBy(u, 0)
         /\ reqs' = reqs => ReqsBy(u, 0)
         /\ job' = job => JobsBy(u, 0)
         /\ call' = call => CallsBy(u, 0)
         /\ up' = up => RefBy(u, 0)
         /\ list' = list => LivesOn(u)
<1>1. ASSUME NEW v \in Ups
      PROVE  /\ OfCon(v) \in Int /\ OfPubs(v) \in Int /\ OfLoops(v) \in Int
             /\ OfReqs(v) \in Int /\ OfJobs(v) \in Int /\ OfCalls(v) \in Int
             /\ up[v].ref \in Int
  BY CountsNat DEF UpShape, Records
<1>2. /\ con' = con /\ opened' = opened => \A v : OfCon(v)' = OfCon(v)
      /\ pubs' = pubs => \A v : OfPubs(v)' = OfPubs(v)
      /\ at' = at => \A v : OfLoops(v)' = OfLoops(v)
      /\ reqs' = reqs => \A v : OfReqs(v)' = OfReqs(v)
      /\ job' = job => \A v : OfJobs(v)' = OfJobs(v)
      /\ call' = call => \A v : OfCalls(v)' = OfCalls(v)
      /\ list' = list => Live' = Live
  <2>1. ASSUME con' = con, opened' = opened PROVE \A v : OfCon(v)' = OfCon(v)
    BY <2>1 DEF OfCon
  <2>2. ASSUME pubs' = pubs PROVE \A v : OfPubs(v)' = OfPubs(v)
    BY <2>2, CountsDef
  <2>3. ASSUME at' = at PROVE \A v : OfLoops(v)' = OfLoops(v)
    BY <2>3 DEF OfLoops
  <2>4. ASSUME reqs' = reqs PROVE \A v : OfReqs(v)' = OfReqs(v)
    BY <2>4, CountsDef
  <2>5. ASSUME job' = job PROVE \A v : OfJobs(v)' = OfJobs(v)
    BY <2>5 DEF OfJobs, Idle
  <2>6. ASSUME call' = call PROVE \A v : OfCalls(v)' = OfCalls(v)
    BY <2>6 DEF OfCalls, Idle
  <2>7. ASSUME list' = list PROVE Live' = Live
    BY <2>7 DEF Live
  <2> QED
    BY <2>1, <2>2, <2>3, <2>4, <2>5, <2>6, <2>7
<1> QED
  BY <1>1, <1>2
     DEF ConBy, PubsBy, LoopsBy, ReqsBy, JobsBy, CallsBy, RefBy, LivesOn

\* One loop, one eval thread, one caller that changes what it is at.
LoopPut(l, x) == at' = [at EXCEPT ![l] = x]
LoopTold(l, x) ==
    \A v : /\ OfLoops(v)' + (IF at[l].at = "seen" /\ at[l].up = v THEN 1 ELSE 0)
               = OfLoops(v) + (IF x.at = "seen" /\ x.up = v THEN 1 ELSE 0)
           /\ OfLoops(v) \in Nat /\ OfLoops(v)' \in Nat

LEMMA LoopMoves ==
  ASSUME QueueShape, NEW l \in Loops, NEW x, LoopPut(l, x)
  PROVE  LoopTold(l, x)
<1>1. at'[l] = x /\ \A m \in Loops : m # l => at'[m] = at[m]
  BY DEF QueueShape, LoopPut
<1>2. ASSUME NEW v
      PROVE  /\ OfLoops(v)' + (IF at[l].at = "seen" /\ at[l].up = v THEN 1 ELSE 0)
                  = OfLoops(v) + (IF x.at = "seen" /\ x.up = v THEN 1 ELSE 0)
             /\ OfLoops(v) \in Nat /\ OfLoops(v)' \in Nat
  <2> DEFINE A == {m \in Loops : at[m].at = "seen" /\ at[m].up = v}
             B == {m \in Loops : at'[m].at = "seen" /\ at'[m].up = v}
  <2>1. /\ IsFiniteSet(A) /\ \A m : m # l => (m \in A <=> m \in B)
        /\ l \in A <=> at[l].at = "seen" /\ at[l].up = v
        /\ l \in B <=> x.at = "seen" /\ x.up = v
    BY <1>1, FS_Subset, UpgradedAssumption
  <2>2. OfLoops(v) = Cardinality(A) /\ OfLoops(v)' = Cardinality(B)
    BY DEF OfLoops
  <2> HIDE DEF A, B
  <2>3. /\ Cardinality(A) \in Nat /\ Cardinality(B) \in Nat
        /\ Cardinality(B) + (IF l \in A THEN 1 ELSE 0)
             = Cardinality(A) + (IF l \in B THEN 1 ELSE 0)
    BY <2>1, OneDiffers
  <2> QED
    BY <2>1, <2>2, <2>3
<1> QED
  BY <1>2 DEF LoopTold

JobPut(t, x) == job' = [job EXCEPT ![t] = x]
JobTold(t, x) ==
    \A v : /\ OfJobs(v)' + (IF job[t] # Idle /\ job[t].up = v THEN 1 ELSE 0)
               = OfJobs(v) + (IF x # Idle /\ x.up = v THEN 1 ELSE 0)
           /\ OfJobs(v) \in Nat /\ OfJobs(v)' \in Nat

LEMMA JobMoves ==
  ASSUME QueueShape, NEW t \in Evals, NEW x, JobPut(t, x)
  PROVE  JobTold(t, x)
<1>1. job'[t] = x /\ \A s \in Evals : s # t => job'[s] = job[s]
  BY DEF QueueShape, JobPut
<1>2. ASSUME NEW v
      PROVE  /\ OfJobs(v)' + (IF job[t] # Idle /\ job[t].up = v THEN 1 ELSE 0)
                  = OfJobs(v) + (IF x # Idle /\ x.up = v THEN 1 ELSE 0)
             /\ OfJobs(v) \in Nat /\ OfJobs(v)' \in Nat
  <2> DEFINE A == {s \in Evals : job[s] # Idle /\ job[s].up = v}
             B == {s \in Evals : job'[s] # Idle /\ job'[s].up = v}
  <2>1. /\ IsFiniteSet(A) /\ \A s : s # t => (s \in A <=> s \in B)
        /\ t \in A <=> job[t] # Idle /\ job[t].up = v
        /\ t \in B <=> x # Idle /\ x.up = v
    BY <1>1, FS_Subset, UpgradedAssumption
  <2>2. OfJobs(v) = Cardinality(A) /\ OfJobs(v)' = Cardinality(B)
    BY DEF OfJobs, Idle
  <2> HIDE DEF A, B
  <2>3. /\ Cardinality(A) \in Nat /\ Cardinality(B) \in Nat
        /\ Cardinality(B) + (IF t \in A THEN 1 ELSE 0)
             = Cardinality(A) + (IF t \in B THEN 1 ELSE 0)
    BY <2>1, OneDiffers
  <2> QED
    BY <2>1, <2>2, <2>3
<1> QED
  BY <1>2 DEF JobTold

\* With the calls that are under way, which are bounded.
CallPut(k, x) == call' = [call EXCEPT ![k] = x]
CallTold(k, x) ==
    /\ \A v :
          /\ OfCalls(v)' + (IF call[k] # Idle /\ call[k].up = v THEN 1 ELSE 0)
               = OfCalls(v) + (IF x # Idle /\ x.up = v THEN 1 ELSE 0)
          /\ OfCalls(v) \in Nat /\ OfCalls(v)' \in Nat
    /\ Cardinality(Busy)' + (IF call[k] # Idle THEN 1 ELSE 0)
         = Cardinality(Busy) + (IF x # Idle THEN 1 ELSE 0)
    /\ Cardinality(Busy) \in Nat /\ Cardinality(Busy)' \in Nat

LEMMA CallMoves ==
  ASSUME CallShape, NEW k \in Callers, NEW x, CallPut(k, x)
  PROVE  CallTold(k, x)
<1>1. call'[k] = x /\ \A c \in Callers : c # k => call'[c] = call[c]
  BY DEF CallShape, CallPut
<1>2. ASSUME NEW v
      PROVE  /\ OfCalls(v)' + (IF call[k] # Idle /\ call[k].up = v THEN 1 ELSE 0)
                  = OfCalls(v) + (IF x # Idle /\ x.up = v THEN 1 ELSE 0)
             /\ OfCalls(v) \in Nat /\ OfCalls(v)' \in Nat
  <2> DEFINE A == {c \in Callers : call[c] # Idle /\ call[c].up = v}
             B == {c \in Callers : call'[c] # Idle /\ call'[c].up = v}
  <2>1. /\ IsFiniteSet(A) /\ \A c : c # k => (c \in A <=> c \in B)
        /\ k \in A <=> call[k] # Idle /\ call[k].up = v
        /\ k \in B <=> x # Idle /\ x.up = v
    BY <1>1, FS_Subset, UpgradedAssumption
  <2>2. OfCalls(v) = Cardinality(A) /\ OfCalls(v)' = Cardinality(B)
    BY DEF OfCalls, Idle
  <2> HIDE DEF A, B
  <2>3. /\ Cardinality(A) \in Nat /\ Cardinality(B) \in Nat
        /\ Cardinality(B) + (IF k \in A THEN 1 ELSE 0)
             = Cardinality(A) + (IF k \in B THEN 1 ELSE 0)
    BY <2>1, OneDiffers
  <2> QED
    BY <2>1, <2>2, <2>3
<1>3. /\ Cardinality(Busy)' + (IF call[k] # Idle THEN 1 ELSE 0)
           = Cardinality(Busy) + (IF x # Idle THEN 1 ELSE 0)
      /\ Cardinality(Busy) \in Nat /\ Cardinality(Busy)' \in Nat
  <2> DEFINE A == {c \in Callers : call[c] # Idle}
             B == {c \in Callers : call'[c] # Idle}
  <2>1. /\ IsFiniteSet(A) /\ \A c : c # k => (c \in A <=> c \in B)
        /\ k \in A <=> call[k] # Idle
        /\ k \in B <=> x # Idle
    BY <1>1, FS_Subset, UpgradedAssumption
  <2>2. Cardinality(Busy) = Cardinality(A) /\ Cardinality(Busy)' = Cardinality(B)
    BY DEF Busy, Idle
  <2> HIDE DEF A, B
  <2>3. /\ Cardinality(A) \in Nat /\ Cardinality(B) \in Nat
        /\ Cardinality(B) + (IF k \in A THEN 1 ELSE 0)
             = Cardinality(A) + (IF k \in B THEN 1 ELSE 0)
    BY <2>1, OneDiffers
  <2> QED
    BY <2>1, <2>2, <2>3
<1> QED
  BY <1>2, <1>3 DEF CallTold

\* Whoever holds a reference of u is counted.
LEMMA Held ==
  ASSUME UpShape, QueueShape, Covered, NEW u \in Ups,
         \/ u \in opened /\ con[u] # "gone"
         \/ \E l \in Loops : pubs[l] # <<>> /\ Head(pubs[l]).up = u
         \/ \E l \in Loops : at[l].at = "seen" /\ at[l].up = u
         \/ reqs # <<>> /\ Head(reqs).up = u
         \/ \E t \in Evals : job[t] # Idle /\ job[t].up = u
         \/ \E k \in Callers : call[k] # Idle /\ call[k].up = u
  PROVE  u \in Live /\ u \in opened
<1>1. /\ OfCon(u) \in {0, 1} /\ OfPubs(u) \in Nat /\ OfLoops(u) \in Nat
      /\ OfReqs(u) \in Nat /\ OfJobs(u) \in Nat /\ OfCalls(u) \in Nat
  BY CountsNat
<1>2. ASSUME u \in opened, con[u] # "gone" PROVE OfCon(u) > 0
  BY <1>2 DEF OfCon
<1>3. ASSUME NEW l \in Loops, pubs[l] # <<>>, Head(pubs[l]).up = u
      PROVE  OfPubs(u) > 0
  <2>1. pubs[l] \in Seq(Entries)
    BY DEF QueueShape
  <2>2. 1 \in 1..Len(pubs[l]) /\ pubs[l][1].up = u
    <3>1. Len(pubs[l]) \in Nat \ {0} /\ Head(pubs[l]) = pubs[l][1]
      BY <1>3, <2>1, TailRange
    <3> QED
      BY <1>3, <3>1
  <2>3. Located(pubs, u)
    BY PlacesDef DEF QueueShape
  <2>4. Places(pubs, u) # {} /\ IsFiniteSet(Places(pubs, u))
    BY <2>2, <2>3 DEF Located
  <2>5. Cardinality(Places(pubs, u)) # 0
    BY <2>4, FS_EmptySet
  <2> QED
    BY <1>1, <2>5, CountsDef
<1>4. ASSUME NEW l \in Loops, at[l].at = "seen", at[l].up = u
      PROVE  OfLoops(u) > 0
  <2> DEFINE A == {m \in Loops : at[m].at = "seen" /\ at[m].up = u}
  <2>1. IsFiniteSet(A) /\ A # {}
    BY <1>4, FS_Subset, UpgradedAssumption
  <2>2. Cardinality(A) # 0
    BY <2>1, FS_EmptySet
  <2> QED
    BY <1>1, <2>2 DEF OfLoops
<1>5. ASSUME reqs # <<>>, Head(reqs).up = u PROVE OfReqs(u) > 0
  <2>1. PICK q \in Seq(Requests) : q = reqs
    BY DEF QueueShape
  <2>2. 1 \in 1..Len(q) /\ q[1].up = u
    <3>1. Len(q) \in Nat \ {0} /\ Head(q) = q[1]
      BY <1>5, <2>1, TailRange
    <3> QED
      BY <1>5, <2>1, <3>1
  <2>3. 1 \in Marked(q, u) /\ IsFiniteSet(Marked(q, u))
    BY <2>2, MarkedFinite
  <2>4. Cardinality(Marked(q, u)) # 0
    BY <2>3, FS_EmptySet
  <2> QED
    BY <1>1, <2>1, <2>4, CountsDef
<1>6. ASSUME NEW t \in Evals, job[t] # Idle, job[t].up = u
      PROVE  OfJobs(u) > 0
  <2> DEFINE A == {s \in Evals : job[s] # Idle /\ job[s].up = u}
  <2>1. IsFiniteSet(A) /\ A # {}
    BY <1>6, FS_Subset, UpgradedAssumption
  <2>2. Cardinality(A) # 0
    BY <2>1, FS_EmptySet
  <2> QED
    BY <1>1, <2>2 DEF OfJobs
<1>7. ASSUME NEW k \in Callers, call[k] # Idle, call[k].up = u
      PROVE  OfCalls(u) > 0
  <2> DEFINE A == {c \in Callers : call[c] # Idle /\ call[c].up = u}
  <2>1. IsFiniteSet(A) /\ A # {}
    BY <1>7, FS_Subset, UpgradedAssumption
  <2>2. Cardinality(A) # 0
    BY <2>1, FS_EmptySet
  <2> QED
    BY <1>1, <2>2 DEF OfCalls
<1>8. Holders(u) > 0
  <2>1. \/ OfCon(u) > 0 \/ OfPubs(u) > 0 \/ OfLoops(u) > 0
        \/ OfReqs(u) > 0 \/ OfJobs(u) > 0 \/ OfCalls(u) > 0
    BY <1>2, <1>3, <1>4, <1>5, <1>6, <1>7
  <2> QED
    BY <1>1, <2>1 DEF Holders
<1>9. u \in Live
  BY <1>8 DEF Covered
<1> QED
  BY <1>9, LiveRange DEF UpShape

\* The list, where the record is destroyed that has no reference left.
Listing(u, n) ==
    /\ up' \in [Ups -> Records] /\ up'[u].ref = n /\ opened' = opened
    /\ list' = IF n <= 0 THEN Without(u) ELSE list

LEMMA ListStep ==
  ASSUME UpShape, NEW u \in Ups, NEW n \in Int, Listing(u, n)
  PROVE  UpShape' /\ LivesOn(u)
<1>1. /\ up' \in [Ups -> Records] /\ up'[u].ref = n /\ opened' = opened
      /\ list' = IF n <= 0 THEN Without(u) ELSE list
  BY DEF Listing
<1>2. CASE n <= 0
  <2>1. /\ list' \in Seq(Ups) /\ IsInjective(list') /\ Range(list') = Live \ {u}
    <3>1. /\ Without(u) \in Seq(Ups) /\ IsInjective(Without(u))
          /\ Range(Without(u)) = Live \ {u}
      BY Unlinked
    <3> QED
      BY <1>1, <1>2, <3>1
  <2>2. Live' = Range(list')
    BY DEF Live, Range
  <2>3. LivesOn(u)
    BY <1>1, <1>2, <2>1, <2>2 DEF LivesOn
  <2>4. Range(list') \subseteq opened' /\ opened' \subseteq Ups
    BY <1>1, <2>1, LiveRange DEF UpShape
  <2>5. UpShape'
    BY <1>1, <2>1, <2>4 DEF UpShape
  <2> QED
    BY <2>3, <2>5
<1>3. CASE ~(n <= 0)
  <2>1. list' = list
    BY <1>1, <1>3
  <2>2. LivesOn(u)
    BY <2>1 DEF LivesOn, Live
  <2>3. UpShape'
    BY <1>1, <2>1 DEF UpShape
  <2> QED
    BY <2>2, <2>3
<1> QED
  BY <1>2, <1>3

\* The record as a release leaves it, with d references added to it before.
Released(u, d) ==
    /\ UpShape' /\ RefBy(u, d - 1) /\ LivesOn(u) /\ opened' = opened
    /\ \A v \in Ups : up'[v].pending = up[v].pending

LEMMA ReleaseStep ==
  ASSUME UpShape, NEW u \in Ups, NEW d \in Int, Release(u, d)
  PROVE  Released(u, d)
<1>1. /\ up' = [up EXCEPT ![u].ref = @ + d - 1] /\ opened' = opened
      /\ list' = IF up[u].ref + d <= 1 THEN Without(u) ELSE list
  BY DEF Release
<1>2. up \in [Ups -> Records] /\ up[u].ref \in Int
  BY DEF UpShape, Records
<1>3. up' \in [Ups -> Records]
  BY <1>1, <1>2 DEF Records
<1>4. RefBy(u, d - 1) /\ \A v \in Ups : up'[v].pending = up[v].pending
  BY <1>1, <1>2 DEF RefBy, Records
<1>5. PICK n \in Int : n = up[u].ref + d - 1
  BY <1>2
<1>6. up'[u].ref = n /\ (n <= 0 <=> up[u].ref + d <= 1)
  BY <1>1, <1>2, <1>5
<1>7. Listing(u, n)
  BY <1>1, <1>3, <1>6 DEF Listing
<1> QED
  BY <1>1, <1>4, <1>7, ListStep DEF Released

\* The record where references are only counted, and pending perhaps.
Counting(u, e, n) ==
    /\ \/ up' = [up EXCEPT ![u].ref = @ + e] /\ n = 0
       \/ up' = [up EXCEPT ![u].ref = @ + e, ![u].pending = @ + n]
    /\ list' = list /\ opened' = opened

Counted(u, e, n) ==
    /\ UpShape' /\ RefBy(u, e) /\ LivesOn(u)
    /\ \A v \in Ups : up'[v].pending = up[v].pending + (IF v = u THEN n ELSE 0)

LEMMA CountStep ==
  ASSUME UpShape, NEW u \in Ups, NEW e \in Int, NEW n \in Int, Counting(u, e, n)
  PROVE  Counted(u, e, n)
<1>1. /\ up \in [Ups -> Records]
      /\ \A v \in Ups : up[v].ref \in Int /\ up[v].pending \in Int
  BY DEF UpShape, Records
<1>2. up' \in [Ups -> Records]
  BY <1>1 DEF Counting, Records
<1>3. RefBy(u, e)
  BY <1>1 DEF Counting, RefBy, Records
<1>4. \A v \in Ups : up'[v].pending = up[v].pending + (IF v = u THEN n ELSE 0)
  BY <1>1 DEF Counting, Records
<1>5. UpShape'
  BY <1>2 DEF Counting, UpShape
<1>6. LivesOn(u)
  BY DEF Counting, LivesOn, Live
<1> QED
  BY <1>3, <1>4, <1>5, <1>6 DEF Counted

-----------------------------------------------------------------------------
(* The invariant and the steps *)

\* While a connection is there, pending counts no more than is queued for it.
Honest ==
    \A v \in Ups :
        v \in opened /\ con[v] # "gone" => up[v].pending <= QueuedFor(v, Owner[v])

Inv == Shape /\ Unopened /\ Covered /\ Honest

\* What a step has to show.
Good == Shape' /\ Unopened' /\ Honest' /\ Kept

LEMMA SameShape ==
  ASSUME Shape
  PROVE  /\ UNCHANGED conVars => ConShape'
         /\ UNCHANGED upVars => UpShape'
         /\ UNCHANGED callVars => CallShape'
         /\ UNCHANGED <<closes, fault>> => EndShape'
<1>1. ASSUME UNCHANGED conVars PROVE ConShape'
  BY <1>1 DEF Shape, ConShape, conVars
<1>2. ASSUME UNCHANGED upVars PROVE UpShape'
  BY <1>2 DEF Shape, UpShape, upVars
<1>3. ASSUME UNCHANGED callVars PROVE CallShape'
  BY <1>3 DEF Shape, CallShape, callVars, Busy, Idle
<1>4. ASSUME UNCHANGED <<closes, fault>> PROVE EndShape'
  BY <1>4 DEF Shape, EndShape
<1> QED
  BY <1>1, <1>2, <1>3, <1>4

LEMMA QueuedNat ==
  ASSUME QueueShape, NEW v \in Ups
  PROVE  QueuedFor(v, Owner[v]) \in Nat
<1>1. pubs[Owner[v]] \in Seq(Entries)
  BY UpgradedAssumption DEF QueueShape
<1>2. QueuedFor(v, Owner[v]) = Cardinality(Marked(pubs[Owner[v]], v))
  BY CountsDef
<1> QED
  BY <1>1, <1>2, MarkedFinite

\* pending and the queue of the loop.
Grows(v, m, n) ==
    /\ up'[v].pending = up[v].pending + m
    /\ QueuedFor(v, Owner[v])' = QueuedFor(v, Owner[v]) + n

LEMMA HonestStep ==
  ASSUME UpShape, QueueShape, Honest, opened' = opened,
         \A v \in Ups : con'[v] # "gone" => con[v] # "gone",
         \A v \in Ups : v \in opened /\ con'[v] # "gone" =>
            \E m, n \in Int : m <= n /\ Grows(v, m, n)
  PROVE  Honest'
<1>1. ASSUME NEW v \in Ups, v \in opened', con'[v] # "gone"
      PROVE  up'[v].pending <= QueuedFor(v, Owner[v])'
  <2>1. v \in opened /\ con[v] # "gone"
    BY <1>1
  <2>2. PICK m \in Int, n \in Int : m <= n /\ Grows(v, m, n)
    BY <1>1, <2>1
  <2>3. up[v].pending <= QueuedFor(v, Owner[v]) /\ up[v].pending \in Int
    BY <2>1 DEF Honest, UpShape, Records
  <2>4. QueuedFor(v, Owner[v]) \in Int
    BY QueuedNat
  <2> QED
    BY <2>2, <2>3, <2>4 DEF Grows
<1> QED
  BY <1>1 DEF Honest

\* The queues are as they were, and so is pending.
LEMMA HonestStays ==
  ASSUME UpShape, QueueShape, Honest, opened' = opened, pubs' = pubs,
         \A v \in Ups : con'[v] # "gone" => con[v] # "gone",
         \A v \in Ups : up'[v].pending = up[v].pending
  PROVE  Honest'
<1>1. ASSUME NEW v \in Ups PROVE 0 <= 0 /\ Grows(v, 0, 0)
  <2>1. up[v].pending \in Int /\ QueuedFor(v, Owner[v]) \in Nat
    BY QueuedNat DEF UpShape, Records
  <2>2. QueuedFor(v, Owner[v])' = QueuedFor(v, Owner[v])
    BY CountsDef
  <2> QED
    BY <2>1, <2>2 DEF Grows
<1> QED
  BY <1>1, HonestStep

\* A step in which no reference comes or goes.
LEMMA QuietStep ==
  ASSUME Inv, UNCHANGED <<con, upVars, reqs, job, call>>,
         PubsBy(NULL, 0), LoopsBy(NULL, 0)
  PROVE  Kept
<1>1. UpShape /\ QueueShape /\ Covered
  BY DEF Inv, Shape
<1>2. PICK u : u = NULL
  OBVIOUS
<1>3. Moves(u, 0, 0, 0, 0, 0, 0, 0)
  <2>1. UNCHANGED <<up, list, opened>>
    BY DEF upVars
  <2> QED
    BY <1>1, <1>2, <2>1, Untouched DEF Moves
<1> QED
  BY <1>1, <1>2, <1>3, Settled

\* A step that changes the responses only.
LEMMA OutStep ==
  ASSUME Inv, ConShape', QueueShape', UNCHANGED <<con, upVars, pubs, reqs, job,
                                                   callVars>>,
         EndShape', LoopsBy(NULL, 0),
         \A u \in Ups : u \notin opened => out'[u] = out[u] /\ bound'[u] = bound[u]
  PROVE  Good
<1>1. Shape /\ Unopened /\ Honest
  BY DEF Inv
<1>2. UNCHANGED <<up, list, opened>> /\ call' = call
  BY DEF upVars, callVars
<1>3. UpShape' /\ CallShape'
  BY <1>1, SameShape
<1>4. Unopened'
  BY <1>1, <1>2 DEF Unopened
<1>5. Honest'
  BY <1>1, <1>2, HonestStays DEF Shape
<1>6. Kept
  <2>1. PubsBy(NULL, 0)
    BY <1>1, Untouched DEF Shape
  <2> QED
    BY <1>2, <2>1, QuietStep
<1> QED
  BY <1>3, <1>4, <1>5, <1>6 DEF Good, Shape

\* A loop that neither had looked at a connection nor does so now.
LEMMA LoopsQuiet ==
  ASSUME QueueShape, NEW l \in Loops, NEW x, LoopPut(l, x),
         at[l].at # "seen", x.at # "seen"
  PROVE  LoopsBy(NULL, 0)
<1>1. LoopTold(l, x)
  BY LoopMoves
<1> QED
  BY <1>1 DEF LoopTold, LoopsBy

\* Each queue has one publication more.
LEMMA PushStep ==
  ASSUME QueueShape, NEW p \in Entries, Publish(p), NEW u, u = p.up
  PROVE  /\ pubs' \in [Loops -> Seq(Entries)]
         /\ PubsBy(u, Cardinality(Loops)) /\ Cardinality(Loops) \in Nat
         /\ \A v \in Ups : QueuedFor(v, Owner[v])'
              = QueuedFor(v, Owner[v]) + (IF v = u THEN 1 ELSE 0)
<1>1. /\ pubs' \in [Loops -> Seq(Entries)]
      /\ \A v : OfPubs(v)' = OfPubs(v) + (IF p.up = v THEN Cardinality(Loops) ELSE 0)
      /\ \A v : \A l \in Loops :
            QueuedFor(v, l)' = QueuedFor(v, l) + (IF p.up = v THEN 1 ELSE 0)
  BY PublishCount
<1>2. PubsBy(u, Cardinality(Loops))
  BY <1>1 DEF PubsBy
<1>3. \A v \in Ups : QueuedFor(v, Owner[v])'
         = QueuedFor(v, Owner[v]) + (IF v = u THEN 1 ELSE 0)
  BY <1>1, UpgradedAssumption
<1> QED
  BY <1>1, <1>2, <1>3, FS_CardinalityType, UpgradedAssumption

\* The loop l has popped a publication.
LEMMA PopStep ==
  ASSUME QueueShape, NEW l \in Loops, pubs[l] # <<>>, Popped(l),
         NEW p, p = Head(pubs[l]), NEW u, u = p.up
  PROVE  /\ p \in Entries
         /\ pubs' \in [Loops -> Seq(Entries)]
         /\ PubsBy(u, -1)
         /\ \A v \in Ups : QueuedFor(v, Owner[v])'
              = QueuedFor(v, Owner[v]) + (IF v = u /\ Owner[v] = l THEN -1 ELSE 0)
<1>1. /\ p \in Entries
      /\ pubs' \in [Loops -> Seq(Entries)]
      /\ \A v : OfPubs(v) = OfPubs(v)' + (IF p.up = v THEN 1 ELSE 0)
      /\ \A v : \A m \in Loops :
            QueuedFor(v, m)
              = QueuedFor(v, m)' + (IF m = l /\ p.up = v THEN 1 ELSE 0)
  BY PoppedCount
<1>2. \A v \in Ups : OfPubs(v) \in Nat /\ OfPubs(v)' \in Nat
  <2>1. ASSUME NEW v \in Ups PROVE OfPubs(v) \in Nat /\ OfPubs(v)' \in Nat
    <3>1. Located(pubs, v) /\ Located(pubs', v)
      BY <1>1, PlacesDef DEF QueueShape
    <3> QED
      BY <3>1, CountsDef DEF Located
  <2> QED
    BY <2>1
<1>3. PubsBy(u, -1)
  <2>1. ASSUME NEW v \in Ups
        PROVE  OfPubs(v)' = OfPubs(v) + (IF v = u THEN -1 ELSE 0)
    BY <1>1, <1>2
  <2> QED
    BY <2>1 DEF PubsBy
<1>4. ASSUME NEW v \in Ups
      PROVE  QueuedFor(v, Owner[v])'
               = QueuedFor(v, Owner[v]) + (IF v = u /\ Owner[v] = l THEN -1 ELSE 0)
  <2>1. QueuedFor(v, Owner[v]) \in Nat /\ QueuedFor(v, Owner[v])' \in Nat
    <3>1. pubs[Owner[v]] \in Seq(Entries) /\ pubs'[Owner[v]] \in Seq(Entries)
      BY <1>1, UpgradedAssumption DEF QueueShape
    <3>2. /\ Cardinality(Marked(pubs[Owner[v]], v)) \in Nat
          /\ Cardinality(Marked(pubs'[Owner[v]], v)) \in Nat
      BY <3>1, MarkedFinite
    <3> QED
      BY <3>2, CountsDef
  <2>2. QueuedFor(v, Owner[v])
          = QueuedFor(v, Owner[v])' + (IF Owner[v] = l /\ p.up = v THEN 1 ELSE 0)
    BY <1>1, UpgradedAssumption
  <2> QED
    BY <2>1, <2>2
<1> QED
  BY <1>1, <1>3, <1>4

LEMMA AcceptStep ==
  ASSUME Inv, NEW u \in Ups, Accept(u)
  PROVE  Good
<1>1. Shape
  BY DEF Inv
<1>2. PICK i \in DOMAIN out[u] : out' = [out EXCEPT ![u][i] = [kind |-> "accept"]]
  BY DEF Accept
<1>3. /\ u \in opened
      /\ UNCHANGED <<con, bound, wire, reads, upVars, pubs, at, reqs, job,
                     callVars, closes, fault>>
  BY DEF Accept
<1>4. out \in [Ups -> Seq(Responses)]
  BY <1>1 DEF Shape, ConShape
<1>5. [out[u] EXCEPT ![i] = [kind |-> "accept"]] \in Seq(Responses)
  <2>1. PICK s \in Seq(Responses) : s = out[u]
    BY <1>4
  <2>2. i \in 1..Len(s) /\ [kind |-> "accept"] \in Responses
    BY <1>2, <2>1, LenProperties DEF Responses
  <2>3. [s EXCEPT ![i] = [kind |-> "accept"]] \in Seq(Responses)
    BY <2>2, ExceptSeq
  <2> QED
    BY <2>1, <2>3
<1>6. ConShape'
  BY <1>1, <1>2, <1>3, <1>4, <1>5 DEF Shape, ConShape
<1>7. QueueShape' /\ EndShape'
  BY <1>1, <1>3, SameShape DEF Shape, QueueShape
<1>8. LoopsBy(NULL, 0)
  BY <1>1, <1>3, Untouched DEF Shape
<1>9. \A v \in Ups : v \notin opened => out'[v] = out[v] /\ bound'[v] = bound[v]
  BY <1>2, <1>3, <1>4
<1> QED
  BY <1>3, <1>6, <1>7, <1>8, <1>9, OutStep

LEMMA BeatStep ==
  ASSUME Inv, NEW u \in Ups, NEW kind \in {"ping", "pong"}, Beat(u, kind)
  PROVE  Good
<1>1. Shape /\ Unopened
  BY DEF Inv
<1>2. /\ bound[u] /\ reads[u] < MaxReads
      /\ reads' = [reads EXCEPT ![u] = @ + 1]
      /\ out' = [out EXCEPT ![u] = Append(@, [kind |-> kind])]
      /\ UNCHANGED <<con, bound, wire, upVars, pubs, at, reqs, job, callVars,
                     closes, fault>>
  BY DEF Beat, AppendRes
<1>3. out \in [Ups -> Seq(Responses)] /\ reads \in [Ups -> 0..MaxReads]
  BY <1>1 DEF Shape, ConShape
<1>4. Append(out[u], [kind |-> kind]) \in Seq(Responses)
  <2>1. [kind |-> kind] \in Responses
    BY DEF Responses
  <2> QED
    BY <1>3, <2>1, AppendProperties
<1>5. reads[u] + 1 \in 0..MaxReads
  BY <1>2, <1>3, UpgradedAssumption
<1>6. ConShape'
  BY <1>1, <1>2, <1>3, <1>4, <1>5 DEF Shape, ConShape
<1>7. QueueShape' /\ EndShape'
  BY <1>1, <1>2, SameShape DEF Shape, QueueShape
<1>8. LoopsBy(NULL, 0)
  BY <1>1, <1>2, Untouched DEF Shape
<1>9. \A v \in Ups : v \notin opened => out'[v] = out[v] /\ bound'[v] = bound[v]
  BY <1>1, <1>2, <1>3 DEF Unopened
<1> QED
  BY <1>2, <1>6, <1>7, <1>8, <1>9, OutStep

\* Only what is there is written.
LEMMA WritableOpened ==
  ASSUME Unopened, NEW u \in Ups, Writable(u),
         bound[u] \/ Head(out[u]).kind # "wait"
  PROVE  u \in opened /\ out[u] # <<>> /\ con[u] = "open"
<1>1. out[u] # <<>> /\ con[u] = "open"
  BY DEF Writable
<1>2. ASSUME u \notin opened PROVE FALSE
  <2>1. out[u] = <<[kind |-> "wait"]>> /\ ~bound[u]
    BY <1>2 DEF Unopened
  <2>2. Head(out[u]).kind = "wait"
    BY <2>1
  <2> QED
    BY <2>1, <2>2
<1> QED
  BY <1>1, <1>2

LEMMA WriteStep ==
  ASSUME Inv, NEW u \in Ups, Write(u)
  PROVE  Good
<1>1. Shape /\ Unopened
  BY DEF Inv
<1>2. PICK r : r = Head(out[u])
  OBVIOUS
<1>3. /\ Writable(u)
      /\ out' = [out EXCEPT ![u] = Tail(@)]
      /\ bound' = [bound EXCEPT ![u] = @ \/ r.kind = "accept"]
      /\ wire' = [wire EXCEPT ![u] = IF r.kind = "text" THEN Append(@, r.n) ELSE @]
      /\ UNCHANGED <<con, reads, upVars, pubs, at, reqs, job, callVars, closes,
                     fault>>
  BY <1>2 DEF Write
<1>4. /\ out \in [Ups -> Seq(Responses)] /\ wire \in [Ups -> Seq(1..MaxCalls)]
      /\ bound \in [Ups -> BOOLEAN]
  BY <1>1 DEF Shape, ConShape
<1>5. u \in opened /\ out[u] # <<>>
  <2>1. bound[u] \/ Head(out[u]).kind # "wait"
    BY <1>3 DEF Writable, HasText
  <2> QED
    BY <1>1, <1>3, <2>1, WritableOpened
<1>6. r \in Responses /\ Tail(out[u]) \in Seq(Responses)
  BY <1>2, <1>4, <1>5, HeadTailProperties
<1>7. r.kind = "text" => Append(wire[u], r.n) \in Seq(1..MaxCalls)
  <2>1. ASSUME r.kind = "text" PROVE r.n \in 1..MaxCalls
    BY <1>6, <2>1 DEF Responses
  <2> QED
    BY <1>4, <2>1, AppendProperties
<1>8. ConShape'
  <2>1. out' \in [Ups -> Seq(Responses)]
    BY <1>3, <1>4, <1>6
  <2>2. wire' \in [Ups -> Seq(1..MaxCalls)]
    BY <1>3, <1>4, <1>7
  <2>3. bound' \in [Ups -> BOOLEAN]
    BY <1>3, <1>4
  <2> QED
    BY <1>1, <1>3, <2>1, <2>2, <2>3 DEF Shape, ConShape
<1>9. QueueShape' /\ EndShape'
  BY <1>1, <1>3, SameShape DEF Shape, QueueShape
<1>10. LoopsBy(NULL, 0)
  BY <1>1, <1>3, Untouched DEF Shape
<1>11. \A v \in Ups : v \notin opened => out'[v] = out[v] /\ bound'[v] = bound[v]
  BY <1>3, <1>4, <1>5
<1> QED
  BY <1>3, <1>8, <1>9, <1>10, <1>11, OutStep

LEMMA VisitStep ==
  ASSUME Inv, NEW l \in Loops, PubVisit(l)
  PROVE  Good
<1>1. Shape /\ Unopened
  BY DEF Inv
<1>2. /\ out \in [Ups -> Seq(Responses)] /\ at \in [Loops -> Visits]
      /\ list \in Seq(Ups) /\ Range(list) \subseteq opened
  BY <1>1 DEF Shape, ConShape, QueueShape, UpShape
<1>3. at[l].at = "walk" /\ at[l].up \in Ups /\ at[l].n \in 1..MaxCalls
  BY <1>2 DEF PubVisit, Visits, Idle
<1>4. PICK u \in Ups : u = at[l].up
  BY <1>3
<1>5. UNCHANGED <<con, bound, wire, reads, upVars, pubs, reqs, job, callVars,
                  closes>>
  BY DEF PubVisit
<1>6. UNCHANGED <<up, list, opened>>
  BY <1>5 DEF upVars
<1>7. CASE u \notin Live
  <2>1. UNCHANGED <<out, at>> /\ fault' = TRUE
    BY <1>4, <1>7 DEF PubVisit
  <2>2. ConShape' /\ QueueShape' /\ EndShape'
    BY <1>1, <1>5, <2>1 DEF Shape, ConShape, QueueShape, EndShape
  <2>3. LoopsBy(NULL, 0)
    BY <1>1, <2>1, Untouched DEF Shape
  <2> QED
    BY <1>5, <2>1, <2>2, <2>3, OutStep
<1>8. CASE u \in Live
  <2> DEFINE next == {i \in DOMAIN list : i > 1 /\ list[i - 1] = u}
             mine == con[u] # "gone" /\ Owner[u] = l /\ up[u].subscribed
  <2>1. /\ out' = [out EXCEPT ![u] =
                  IF mine THEN Append(@, [kind |-> "text", n |-> at[l].n])
                          ELSE @]
        /\ at' = [at EXCEPT ![l] =
                  IF next = {} THEN Idle
                  ELSE [@ EXCEPT !.up = list[CHOOSE i \in next : TRUE]]]
        /\ fault' = fault
    BY <1>4, <1>8 DEF PubVisit, AppendRes
  <2>2. PICK r : r = [kind |-> "text", n |-> at[l].n]
    OBVIOUS
  <2>3. r \in Responses
    BY <1>3, <2>2 DEF Responses
  <2>4. Append(out[u], r) \in Seq(Responses)
    BY <1>2, <2>3, AppendProperties
  <2>5. out' \in [Ups -> Seq(Responses)]
    BY <1>2, <2>1, <2>2, <2>4
  <2>6. ConShape'
    BY <1>1, <1>5, <2>5 DEF Shape, ConShape
  <2>7. PICK x : x = IF next = {} THEN Idle
                     ELSE [at[l] EXCEPT !.up = list[CHOOSE i \in next : TRUE]]
    OBVIOUS
  <2>8. x \in Visits /\ x.at # "seen"
    <3>1. CASE next = {}
      BY <2>7, <3>1 DEF Visits, Idle
    <3>2. CASE next # {}
      <4>1. PICK i \in next : i = CHOOSE j \in next : TRUE
        BY <3>2
      <4>2. list[i] \in Ups
        BY <1>2, <4>1, LenProperties, ElementOfSeq
      <4>3. x = [at[l] EXCEPT !.up = list[i]]
        BY <2>7, <3>2, <4>1
      <4> HIDE DEF next
      <4>4. at[l] \in [at : {"walk"}, up : Ups, n : 1..MaxCalls]
        BY <1>2, <1>3 DEF Visits, Idle
      <4> QED
        BY <4>2, <4>3, <4>4 DEF Visits
    <3> QED
      BY <3>1, <3>2
  <2> HIDE DEF next, mine
  <2>9. at' = [at EXCEPT ![l] = x]
    BY <2>1, <2>7
  <2>10. QueueShape' /\ EndShape'
    BY <1>1, <1>2, <1>5, <2>1, <2>8, <2>9 DEF Shape, QueueShape, EndShape
  <2>11. LoopsBy(NULL, 0)
    <3>1. LoopPut(l, x)
      BY <2>9 DEF LoopPut
    <3> QED
      BY <1>1, <1>3, <2>8, <3>1, LoopsQuiet DEF Shape
  <2>12. u \in opened
    BY <1>2, <1>8, LiveRange
  <2>13. \A v \in Ups : v \notin opened => out'[v] = out[v] /\ bound'[v] = bound[v]
    BY <1>2, <1>5, <2>1, <2>12
  <2> QED
    BY <1>5, <2>6, <2>10, <2>11, <2>13, OutStep
<1> QED
  BY <1>7, <1>8

LEMMA WalkStep ==
  ASSUME Inv, NEW l \in Loops, PubWalk(l)
  PROVE  Good
<1>1. Shape /\ Unopened /\ Honest
  BY DEF Inv
<1>2. PICK p : p = Head(pubs[l])
  OBVIOUS
<1>3. /\ at[l] = Idle /\ pubs[l] # <<>> /\ p.kind = "publish" /\ Popped(l)
      /\ at' = [at EXCEPT ![l] = IF list = <<>> THEN Idle
                 ELSE [at |-> "walk", up |-> Head(list), n |-> p.n]]
      /\ UNCHANGED <<conVars, upVars, reqs, job, callVars, closes, fault>>
  BY <1>2 DEF PubWalk
<1>4. UNCHANGED <<con, bound, out, up, list, opened, call>>
  BY <1>3 DEF conVars, upVars, callVars
<1>5. /\ p \in Entries
      /\ pubs' \in [Loops -> Seq(Entries)]
      /\ PubsBy(p.up, -1)
      /\ \A v \in Ups : QueuedFor(v, Owner[v])'
            = QueuedFor(v, Owner[v]) + (IF v = p.up /\ Owner[v] = l THEN -1 ELSE 0)
  <2>1. PICK u : u = p.up
    OBVIOUS
  <2> QED
    BY <1>1, <1>2, <1>3, <2>1, PopStep DEF Shape
<1>6. p.up = NULL /\ p.n \in 1..MaxCalls
  BY <1>3, <1>5 DEF Entries, Pub
<1>7. PICK x : x = IF list = <<>> THEN Idle
                   ELSE [at |-> "walk", up |-> Head(list), n |-> p.n]
  OBVIOUS
<1>8. x \in Visits /\ x.at # "seen"
  <2>1. CASE list = <<>>
    BY <1>7, <2>1 DEF Visits, Idle
  <2>2. CASE list # <<>>
    <3>1. Head(list) \in Ups
      BY <1>1, <2>2, HeadTailProperties DEF Shape, UpShape
    <3> QED
      BY <1>6, <1>7, <2>2, <3>1 DEF Visits
  <2> QED
    BY <2>1, <2>2
<1>9. LoopsBy(NULL, 0)
  <2>1. LoopPut(l, x)
    BY <1>3, <1>7 DEF LoopPut
  <2>2. at[l].at # "seen"
    BY <1>3 DEF Idle
  <2> QED
    BY <1>1, <1>8, <2>1, <2>2, LoopsQuiet DEF Shape
<1>10. NULL \notin Ups
  BY UpgradedAssumption
<1>11. \A v \in Ups : OfPubs(v) \in Nat
  BY <1>1, CountsNat DEF Shape
<1>12. PubsBy(NULL, 0)
  BY <1>5, <1>6, <1>10, <1>11 DEF PubsBy
<1>13. Kept
  BY <1>3, <1>4, <1>9, <1>12, QuietStep
<1>14. QueueShape'
  <2>1. at' \in [Loops -> Visits]
    BY <1>1, <1>3, <1>7, <1>8 DEF Shape, QueueShape
  <2> QED
    BY <1>1, <1>3, <1>5, <2>1 DEF Shape, QueueShape
<1>15. Unopened'
  BY <1>1, <1>4 DEF Unopened
<1>16. Honest'
  <2>1. ASSUME NEW v \in Ups PROVE 0 <= 0 /\ Grows(v, 0, 0)
    <3>1. QueuedFor(v, Owner[v]) \in Nat
      BY <1>1, QueuedNat DEF Shape
    <3>2. QueuedFor(v, Owner[v])' = QueuedFor(v, Owner[v]) + 0
      BY <1>5, <1>6, <1>10
    <3>3. up[v].pending \in Int
      BY <1>1 DEF Shape, UpShape, Records
    <3> QED
      BY <1>4, <1>6, <1>10, <3>1, <3>2, <3>3 DEF Grows
  <2> QED
    BY <1>1, <1>4, <2>1, HonestStep DEF Shape
<1>17. ConShape' /\ UpShape' /\ CallShape' /\ EndShape'
  BY <1>1, <1>3, SameShape
<1> QED
  BY <1>13, <1>14, <1>15, <1>16, <1>17 DEF Good, Shape

\* The upgrade gives a connection its reference.
LEMMA CreateStep ==
  ASSUME Inv, NEW u \in Ups, Create(u)
  PROVE  Good
<1>1. Shape /\ Unopened /\ Covered /\ Honest
  BY DEF Inv
<1>2. /\ u \notin opened /\ opened' = opened \cup {u} /\ list' = <<u>> \o list
      /\ up' = [up EXCEPT ![u].ref = 1]
      /\ UNCHANGED <<conVars, pubs, at, reqs, job, callVars, closes, fault>>
  BY DEF Create
<1>3. /\ UNCHANGED <<con, bound, out, call>>
      /\ Shape /\ up \in [Ups -> Records] /\ list \in Seq(Ups)
      /\ IsInjective(list) /\ Range(list) \subseteq opened /\ opened \subseteq Ups
  BY <1>1, <1>2 DEF conVars, callVars, Shape, UpShape
<1>4. /\ list' \in Seq(Ups) /\ IsInjective(list')
      /\ Range(list') = {u} \cup Range(list)
  <2>1. PICK s \in Seq(Ups), t \in Seq(Ups) : s = <<u>> /\ t = list
    BY <1>3, SingleRange
  <2>2. Range(s) = {u} /\ IsInjective(s)
    BY <2>1, SingleRange
  <2>3. Range(s) \cap Range(t) = {} /\ IsInjective(t)
    BY <1>2, <1>3, <2>1, <2>2
  <2>4. Range(s \o t) = {u} \cup Range(t) /\ IsInjective(s \o t)
    BY <2>2, <2>3, ConcatRange
  <2>5. s \o t \in Seq(Ups)
    BY ConcatProperties
  <2> QED
    BY <1>2, <2>1, <2>4, <2>5
<1>5. up' \in [Ups -> Records] /\ up'[u].ref = 1
      /\ \A v \in Ups : /\ v # u => up'[v].ref = up[v].ref
                        /\ up'[v].pending = up[v].pending
  <2>1. up'[u] = [up[u] EXCEPT !.ref = 1] /\ up[u] \in Records
    BY <1>2, <1>3
  <2>2. up'[u] \in Records /\ up'[u].ref = 1 /\ up'[u].pending = up[u].pending
    BY <2>1 DEF Records
  <2>3. \A v \in Ups : v # u => up'[v] = up[v]
    BY <1>2, <1>3
  <2>4. up' \in [Ups -> Records]
    BY <1>2, <1>3, <2>1, <2>2
  <2> QED
    BY <2>2, <2>3, <2>4
<1>6. UpShape'
  <2>1. Range(list') \subseteq opened' /\ opened' \subseteq Ups
    BY <1>2, <1>3, <1>4
  <2> QED
    BY <1>4, <1>5, <2>1 DEF UpShape
<1>7. ConShape' /\ CallShape' /\ EndShape' /\ QueueShape'
  BY <1>2, <1>3, SameShape DEF Shape, QueueShape
<1>8. Unopened'
  BY <1>1, <1>2, <1>3, <1>5 DEF Unopened
<1>9. u \notin Live /\ Live' = Live \cup {u}
  <2>1. Live' = Range(list')
    BY DEF Live, Range
  <2> QED
    BY <1>2, <1>3, <1>4, <2>1, LiveRange
<1>10. ASSUME NEW v \in Ups
       PROVE  /\ Holders(v) \in Nat /\ (v = u => Holders(v) = 0)
              /\ Holders(v)' = Holders(v) + (IF v = u THEN 1 ELSE 0)
  <2>1. /\ OfCon(v) \in {0, 1} /\ OfPubs(v) \in Nat /\ OfLoops(v) \in Nat
        /\ OfReqs(v) \in Nat /\ OfJobs(v) \in Nat /\ OfCalls(v) \in Nat
    BY <1>3, CountsNat DEF Shape
  <2>2. /\ OfPubs(v)' = OfPubs(v) /\ OfLoops(v)' = OfLoops(v)
        /\ OfReqs(v)' = OfReqs(v) /\ OfJobs(v)' = OfJobs(v)
        /\ OfCalls(v)' = OfCalls(v)
    <3>1. /\ PubsBy(u, 0) /\ LoopsBy(u, 0) /\ ReqsBy(u, 0) /\ JobsBy(u, 0)
          /\ CallsBy(u, 0)
      BY <1>2, <1>3, Untouched DEF Shape
    <3> QED
      BY <2>1, <3>1 DEF PubsBy, LoopsBy, ReqsBy, JobsBy, CallsBy
  <2>3. OfCon(v)' = OfCon(v) + (IF v = u THEN 1 ELSE 0)
    <3>1. CASE v = u
      <4>1. OfCon(v) = 0 /\ con[u] # "gone"
        BY <1>1, <1>2, <3>1 DEF OfCon, Unopened
      <4>2. OfCon(v)' = 1
        BY <1>2, <1>3, <3>1, <4>1 DEF OfCon
      <4> QED
        BY <3>1, <4>1, <4>2
    <3>2. CASE v # u
      <4>1. v \in opened' <=> v \in opened
        BY <1>2, <3>2
      <4>2. OfCon(v)' = OfCon(v)
        BY <1>3, <4>1 DEF OfCon
      <4> QED
        BY <2>1, <3>2, <4>2
    <3> QED
      BY <3>1, <3>2
  <2>4. Holders(v) \in Nat
    BY <2>1 DEF Holders
  <2>5. Holders(v)' = Holders(v) + (IF v = u THEN 1 ELSE 0)
    <3>1. CASE v = u
      BY <2>1, <2>2, <2>3, <3>1 DEF Holders
    <3>2. CASE v # u
      BY <2>1, <2>2, <2>3, <3>2 DEF Holders
    <3> QED
      BY <3>1, <3>2
  <2>6. v = u => Holders(v) = 0
    BY <1>1, <1>9, <2>4 DEF Covered
  <2> QED
    BY <2>4, <2>5, <2>6
<1>11. Covered'
  <2>1. ASSUME NEW v \in Ups
        PROVE  Holders(v)' <= up'[v].ref /\ (Holders(v)' > 0 => v \in Live')
    BY <1>1, <1>5, <1>9, <1>10 DEF Covered
  <2> QED
    BY <2>1 DEF Covered
<1>12. RefsExact => RefsExact'
  <2>1. ASSUME RefsExact, NEW v \in Ups, v \in Live' PROVE up'[v].ref = Holders(v)'
    BY <1>5, <1>9, <1>10, <2>1 DEF RefsExact
  <2> QED
    BY <2>1 DEF RefsExact
<1>13. Honest'
  <2>1. ASSUME NEW v \in Ups, v \in opened', con'[v] # "gone"
        PROVE  up'[v].pending <= QueuedFor(v, Owner[v])'
    <3>1. QueuedFor(v, Owner[v])' = QueuedFor(v, Owner[v])
      BY <1>2, CountsDef
    <3>2. up[v].pending <= QueuedFor(v, Owner[v])
      <4>1. CASE v = u
        BY <1>1, <1>2, <4>1, QueuedNat DEF Shape, Unopened
      <4>2. CASE v # u
        BY <1>1, <1>2, <1>3, <2>1, <4>2 DEF Honest
      <4> QED
        BY <4>1, <4>2
    <3> QED
      BY <1>5, <3>1, <3>2
  <2> QED
    BY <2>1 DEF Honest
<1> QED
  BY <1>6, <1>7, <1>8, <1>11, <1>12, <1>13 DEF Good, Shape, Kept

\* The record in a call of a client.
LEMMA GetStep ==
  ASSUME Inv, NEW k \in Callers, NEW u \in Ups, NEW op \in Ops, Get(k, u, op)
  PROVE  Good
<1>1. Shape /\ Unopened /\ Covered /\ Honest
  BY DEF Inv
<1>2. /\ call[k] = Idle /\ op # "publish" /\ u \in opened
      /\ Len(log) + Cardinality(Busy) < MaxCalls
      /\ UNCHANGED <<conVars, list, opened, pubs, at, reqs, job, log, closes,
                     fault>>
  BY DEF Get, Budget, Busy
<1>3. UNCHANGED <<con, bound, out>>
  BY <1>2 DEF conVars
<1>4. ConShape' /\ EndShape' /\ QueueShape'
  BY <1>1, <1>2, SameShape DEF Shape, QueueShape
<1>5. /\ call \in [Callers -> Calls] /\ answer \in [Callers -> BOOLEAN]
      /\ log \in Seq(Pub) /\ Len(log) \in Nat /\ MaxCalls \in Nat
  BY <1>1, LenProperties, UpgradedAssumption DEF Shape, CallShape
<1>6. CASE u \notin Live
  <2>1. call' = call /\ up' = up /\ answer' = [answer EXCEPT ![k] = FALSE]
    BY <1>6 DEF Get
  <2>2. CallShape'
    <3>1. answer' \in [Callers -> BOOLEAN]
      BY <1>5, <2>1
    <3>2. Busy' = Busy
      BY <2>1 DEF Busy, Idle
    <3> QED
      BY <1>1, <1>2, <2>1, <3>1, <3>2 DEF Shape, CallShape
  <2>3. UNCHANGED upVars
    BY <1>2, <2>1 DEF upVars
  <2>4. UpShape'
    BY <1>1, <2>3, SameShape
  <2>5. PubsBy(NULL, 0) /\ LoopsBy(NULL, 0)
    BY <1>1, <1>2, Untouched DEF Shape
  <2>6. Kept
    BY <1>2, <1>3, <2>1, <2>3, <2>5, QuietStep
  <2>7. Unopened' /\ Honest'
    <3>1. Unopened'
      BY <1>1, <1>2, <1>3, <2>1 DEF Unopened
    <3> QED
      BY <1>1, <1>2, <1>3, <2>1, <3>1, HonestStays DEF Shape
  <2> QED
    BY <1>4, <2>2, <2>4, <2>6, <2>7 DEF Good, Shape
<1>7. CASE u \in Live
  <2>1. PICK x : x = [at |-> "got", op |-> op, up |-> u]
    OBVIOUS
  <2>2. /\ call' = [call EXCEPT ![k] = x] /\ answer' = answer
        /\ up' = [up EXCEPT ![u].ref = @ + 1]
    BY <1>7, <2>1 DEF Get
  <2>3. x \in Calls /\ x # Idle /\ x.up = u
    BY <1>2, <2>1 DEF Calls, Idle
  <2>4. CallTold(k, x)
    <3>1. CallPut(k, x)
      BY <2>2 DEF CallPut
    <3> QED
      BY <1>1, <3>1, CallMoves DEF Shape
  <2>5. CallShape'
    <3>1. call' \in [Callers -> Calls]
      BY <1>5, <2>2, <2>3
    <3>2. Cardinality(Busy)' = Cardinality(Busy) + 1 /\ Cardinality(Busy) \in Nat
      BY <1>2, <2>3, <2>4 DEF CallTold
    <3>3. Len(log') + Cardinality(Busy)' <= MaxCalls
      BY <1>2, <1>5, <3>2
    <3> QED
      BY <1>2, <1>5, <2>2, <3>1, <3>3 DEF CallShape
  <2>6. CallsBy(u, 1)
    <3>1. ASSUME NEW v \in Ups
          PROVE  OfCalls(v)' = OfCalls(v) + (IF v = u THEN 1 ELSE 0)
      <4>1. OfCalls(v)' + 0 = OfCalls(v) + (IF v = u THEN 1 ELSE 0)
        BY <1>2, <2>3, <2>4 DEF CallTold
      <4> QED
        BY <2>4, <4>1 DEF CallTold
    <3> QED
      BY <3>1 DEF CallsBy
  <2>7. Counted(u, 1, 0)
    <3>1. Counting(u, 1, 0)
      BY <1>2, <2>2 DEF Counting
    <3> QED
      BY <1>1, <3>1, CountStep DEF Shape
  <2>8. \A v \in Ups : up'[v].pending = up[v].pending
    BY <1>1, <2>7 DEF Counted, Shape, UpShape, Records
  <2>9. Unopened' /\ Honest'
    <3>1. Unopened'
      BY <1>1, <1>2, <1>3, <2>8 DEF Unopened
    <3> QED
      BY <1>1, <1>2, <1>3, <2>8, <3>1, HonestStays DEF Shape
  <2>10. Kept
    <3>1. ConBy(u, 0) /\ PubsBy(u, 0) /\ LoopsBy(u, 0) /\ ReqsBy(u, 0) /\ JobsBy(u, 0)
      BY <1>1, <1>2, <1>3, Untouched DEF Shape
    <3>2. Moves(u, 0, 0, 0, 0, 0, 1, 1)
      BY <2>6, <2>7, <3>1 DEF Moves, Counted
    <3> QED
      BY <1>1, <1>7, <3>2, Settled DEF Shape
  <2> QED
    BY <1>4, <2>5, <2>7, <2>9, <2>10 DEF Good, Shape, Counted
<1> QED
  BY <1>6, <1>7

\* A call that ends gives its place to the publication it makes.
CallEnds(k, u) ==
    /\ CallsBy(u, -1)
    /\ call' \in [Callers -> Calls]
    /\ Cardinality(Busy)' + 1 = Cardinality(Busy) /\ Cardinality(Busy)' \in Nat

LEMMA CallEndsStep ==
  ASSUME CallShape, NEW k \in Callers, call[k] # Idle,
         call' = [call EXCEPT ![k] = Idle], NEW u, u = call[k].up
  PROVE  CallEnds(k, u)
<1>1. CallTold(k, Idle)
  <2>1. PICK x : x = Idle
    OBVIOUS
  <2>2. CallPut(k, x)
    BY <2>1 DEF CallPut
  <2>3. CallTold(k, x)
    BY <2>2, CallMoves
  <2> QED
    BY <2>1, <2>3
<1>2. ASSUME NEW v \in Ups
      PROVE  OfCalls(v)' = OfCalls(v) + (IF v = u THEN -1 ELSE 0)
  <2>1. OfCalls(v)' + (IF v = u THEN 1 ELSE 0) = OfCalls(v) + 0
    BY <1>1 DEF CallTold
  <2> QED
    BY <1>1, <2>1 DEF CallTold
<1>3. CallsBy(u, -1)
  BY <1>2 DEF CallsBy
<1>4. /\ Cardinality(Busy)' + 1 = Cardinality(Busy) + 0
      /\ Cardinality(Busy) \in Nat /\ Cardinality(Busy)' \in Nat
  BY <1>1 DEF CallTold
<1>5. call' \in [Callers -> Calls]
  BY DEF CallShape, Calls
<1> QED
  BY <1>3, <1>4, <1>5 DEF CallEnds

LEMMA AskStep ==
  ASSUME Inv, NEW k \in Callers, Ask(k)
  PROVE  Good
<1>1. Shape /\ Unopened /\ Covered /\ Honest
  BY DEF Inv
<1>2. /\ call[k] # Idle
      /\ up' = [up EXCEPT ![call[k].up].ref = @ - 1]
      /\ answer' = [answer EXCEPT ![k] = up[call[k].up].pending >= 0]
      /\ call' = [call EXCEPT ![k] = Idle]
      /\ UNCHANGED <<conVars, list, opened, pubs, at, reqs, job, log, closes,
                     fault>>
  BY DEF Ask
<1>3. UNCHANGED <<con, bound, out>>
  BY <1>2 DEF conVars
<1>4. call[k].up \in Ups /\ up \in [Ups -> Records]
  BY <1>1, <1>2 DEF Shape, CallShape, UpShape, Calls
<1>5. PICK u \in Ups : u = call[k].up
  BY <1>4
<1>6. u \in Live
  BY <1>1, <1>2, <1>5, Held DEF Shape
<1>7. ConShape' /\ EndShape' /\ QueueShape'
  BY <1>1, <1>2, SameShape DEF Shape, QueueShape
<1>8. CallEnds(k, u)
  BY <1>1, <1>2, <1>5, CallEndsStep DEF Shape
<1>9. Counted(u, -1, 0)
  <2>1. up' = [up EXCEPT ![u].ref = @ + -1]
    BY <1>2, <1>4, <1>5 DEF Records
  <2>2. Counting(u, -1, 0)
    BY <1>2, <2>1 DEF Counting
  <2> QED
    BY <1>1, <2>2, CountStep DEF Shape
<1>10. \A v \in Ups : up'[v].pending = up[v].pending
  BY <1>1, <1>9 DEF Counted, Shape, UpShape, Records
<1>11. CallShape'
  <2>1. answer' \in [Callers -> BOOLEAN]
    <3>1. PICK n \in Int : n = up[call[k].up].pending
      BY <1>4 DEF Records
    <3>2. (n >= 0) \in BOOLEAN
      OBVIOUS
    <3>3. answer' = [answer EXCEPT ![k] = n >= 0]
      BY <1>2, <3>1
    <3> QED
      BY <1>1, <3>2, <3>3 DEF Shape, CallShape
  <2>2. Len(log) + Cardinality(Busy) <= MaxCalls /\ Len(log) \in Nat
    BY <1>1, LenProperties DEF Shape, CallShape
  <2>3. Len(log') + Cardinality(Busy)' <= MaxCalls
    BY <1>2, <1>8, <2>2, UpgradedAssumption DEF CallEnds
  <2> QED
    BY <1>1, <1>2, <1>8, <2>1, <2>3 DEF Shape, CallShape, CallEnds
<1>12. Unopened'
  BY <1>1, <1>2, <1>3, <1>10 DEF Unopened
<1>13. Honest'
  BY <1>1, <1>2, <1>3, <1>10, HonestStays DEF Shape
<1>14. Kept
  <2>1. ConBy(u, 0) /\ PubsBy(u, 0) /\ LoopsBy(u, 0) /\ ReqsBy(u, 0) /\ JobsBy(u, 0)
    BY <1>1, <1>2, <1>3, Untouched DEF Shape
  <2>2. Moves(u, 0, 0, 0, 0, 0, -1, -1)
    BY <1>8, <1>9, <2>1 DEF Moves, Counted, CallEnds
  <2> QED
    BY <1>1, <1>6, <2>2, Settled DEF Shape
<1> QED
  BY <1>7, <1>9, <1>11, <1>12, <1>13, <1>14 DEF Good, Shape, Counted

\* The reference of a call that ends without giving it back counts for nobody.
LEMMA ForgetStep ==
  ASSUME Inv, NEW k \in Callers, Env(k) \/ WriteRaises(k)
  PROVE  Good
<1>1. Shape /\ Unopened /\ Covered /\ Honest
  BY DEF Inv
<1>2. /\ call[k] # Idle
      /\ call' = [call EXCEPT ![k] = Idle]
      /\ UNCHANGED <<conVars, upVars, pubs, at, reqs, job, answer, log, closes,
                     fault>>
  BY DEF Env, WriteRaises, Forget
<1>3. UNCHANGED <<con, bound, out, up, list, opened>>
  BY <1>2 DEF conVars, upVars
<1>4. call[k] \in Calls /\ call[k].up \in Ups /\ call[k].op \in Ops
  BY <1>1, <1>2 DEF Shape, CallShape, Calls
<1>5. PICK u \in Ups : u = call[k].up
  BY <1>4
<1>6. u \in Live
  BY <1>1, <1>2, <1>5, Held DEF Shape
<1>7. ConShape' /\ EndShape' /\ QueueShape' /\ UpShape'
  BY <1>1, <1>2, SameShape DEF Shape, QueueShape
<1>8. CallEnds(k, u)
  BY <1>1, <1>2, <1>5, CallEndsStep DEF Shape
<1>9. CallShape'
  <2>1. Len(log) + Cardinality(Busy) <= MaxCalls /\ Len(log) \in Nat
    BY <1>1, LenProperties DEF Shape, CallShape
  <2>2. Len(log') + Cardinality(Busy)' <= MaxCalls
    BY <1>2, <1>8, <2>1, UpgradedAssumption DEF CallEnds
  <2> QED
    BY <1>1, <1>2, <1>8, <2>2 DEF Shape, CallShape, CallEnds
<1>10. Unopened'
  BY <1>1, <1>2, <1>3 DEF Unopened
<1>11. Honest'
  BY <1>1, <1>2, <1>3, <1>10, HonestStays DEF Shape
<1>12. Slack
  BY <1>4 DEF Env, WriteRaises, Slack
<1>13. Kept
  <2>1. /\ ConBy(u, 0) /\ PubsBy(u, 0) /\ LoopsBy(u, 0) /\ ReqsBy(u, 0)
        /\ JobsBy(u, 0) /\ RefBy(u, 0) /\ LivesOn(u)
    BY <1>1, <1>2, <1>3, Untouched DEF Shape
  <2>2. Moves(u, 0, 0, 0, 0, 0, -1, 0)
    BY <1>8, <2>1 DEF Moves, CallEnds
  <2> QED
    BY <1>1, <1>6, <1>12, <2>2, Settled DEF Shape
<1> QED
  BY <1>7, <1>9, <1>10, <1>11, <1>13 DEF Good, Shape

\* Every loop gets a publication for u: the queues, and what pending may grow.
LEMMA HonestPush ==
  ASSUME UpShape, QueueShape, Honest, opened' = opened, con' = con, NEW u,
         NEW n \in {0, 1},
         \A v \in Ups : QueuedFor(v, Owner[v])'
             = QueuedFor(v, Owner[v]) + (IF v = u THEN 1 ELSE 0),
         \A v \in Ups : up'[v].pending = up[v].pending + (IF v = u THEN n ELSE 0)
  PROVE  Honest'
<1>1. ASSUME NEW v \in Ups PROVE \E m, i \in Int : m <= i /\ Grows(v, m, i)
  <2>1. CASE v = u
    <3>1. Grows(v, n, 1)
      BY <2>1 DEF Grows
    <3>2. n \in Int /\ n <= 1
      OBVIOUS
    <3> QED
      BY <3>1, <3>2
  <2>2. CASE v # u
    <3>1. 0 <= 0 /\ Grows(v, 0, 0)
      BY <2>2 DEF Grows
    <3> QED
      BY <3>1
  <2> QED
    BY <2>1, <2>2
<1> QED
  BY <1>1, HonestStep

\* A call that is accepted, or a message that is refused.
LEMMA ActStep ==
  ASSUME Inv, NEW k \in Callers, Act(k)
  PROVE  Good
<1>1. Shape /\ Unopened /\ Covered /\ Honest
  BY DEF Inv
<1>2. call[k].up \in Ups /\ call[k].op \in Ops \ {"publish"} /\ up \in [Ups -> Records]
  BY <1>1 DEF Act, Shape, CallShape, UpShape, Calls
<1>3. PICK u \in Ups,
           p \in {[kind |-> call[k].op, up |-> call[k].up, n |-> Len(log) + 1]} :
        u = call[k].up /\ p = [kind |-> call[k].op, up |-> u, n |-> Len(log) + 1]
  BY <1>2
<1>4. /\ call[k] # Idle
      /\ IF call[k].op = "write" /\ Refused(u)
           THEN /\ up' = [up EXCEPT ![u].ref = @ - 1]
                /\ answer' = [answer EXCEPT ![k] = FALSE]
                /\ UNCHANGED <<pubs, log>>
           ELSE /\ Publish(p)
                /\ log' = Append(log, p)
                /\ up' = [up EXCEPT ![u].ref = @ + Copies, ![u].pending = @ + 1]
                /\ answer' = [answer EXCEPT ![k] = TRUE]
      /\ call' = [call EXCEPT ![k] = Idle]
      /\ UNCHANGED <<conVars, list, opened, at, reqs, job, closes, fault>>
  BY <1>3 DEF Act, Accepted
<1>5. UNCHANGED <<con, bound, out>>
  BY <1>4 DEF conVars
<1>6. u \in Live /\ u \in opened
  BY <1>1, <1>3, <1>4, Held DEF Shape
<1>7. ConShape' /\ EndShape'
  BY <1>1, <1>4, SameShape
<1>8. CallEnds(k, u)
  BY <1>1, <1>3, <1>4, CallEndsStep DEF Shape
<1>9. answer' \in [Callers -> BOOLEAN]
  BY <1>1, <1>4 DEF Shape, CallShape
<1>10. /\ Len(log) + Cardinality(Busy) <= MaxCalls /\ Len(log) \in Nat
       /\ Cardinality(Busy)' + 1 = Cardinality(Busy) /\ Cardinality(Busy)' \in Nat
       /\ log \in Seq(Pub) /\ MaxCalls \in Nat
  BY <1>1, <1>8, LenProperties, UpgradedAssumption DEF Shape, CallShape, CallEnds
<1>11. ConBy(u, 0) /\ LoopsBy(u, 0) /\ ReqsBy(u, 0) /\ JobsBy(u, 0)
  BY <1>1, <1>4, <1>5, Untouched DEF Shape
<1>12. CASE call[k].op = "write" /\ Refused(u)
  <2>1. up' = [up EXCEPT ![u].ref = @ - 1] /\ UNCHANGED <<pubs, log>>
    BY <1>4, <1>12
  <2>2. Counted(u, -1, 0)
    <3>1. up' = [up EXCEPT ![u].ref = @ + -1]
      BY <1>2, <2>1 DEF Records
    <3>2. Counting(u, -1, 0)
      BY <1>4, <3>1 DEF Counting
    <3> QED
      BY <1>1, <3>2, CountStep DEF Shape
  <2>3. \A v \in Ups : up'[v].pending = up[v].pending
    BY <1>1, <2>2 DEF Counted, Shape, UpShape, Records
  <2>4. QueueShape' /\ Unopened'
    BY <1>1, <1>4, <1>5, <2>1, <2>3 DEF Shape, QueueShape, Unopened
  <2>5. CallShape'
    BY <1>8, <1>9, <1>10, <2>1 DEF CallShape, CallEnds
  <2>6. Honest'
    BY <1>1, <1>4, <1>5, <2>1, <2>3, HonestStays DEF Shape
  <2>7. Kept
    <3>1. PubsBy(u, 0)
      BY <1>1, <2>1, Untouched DEF Shape
    <3>2. Moves(u, 0, 0, 0, 0, 0, -1, -1)
      BY <1>8, <1>11, <2>2, <3>1 DEF Moves, Counted, CallEnds
    <3> QED
      BY <1>1, <1>6, <3>2, Settled DEF Shape
  <2> QED
    BY <1>7, <2>2, <2>4, <2>5, <2>6, <2>7 DEF Good, Shape, Counted
<1>13. CASE ~(call[k].op = "write" /\ Refused(u))
  <2>1. /\ Publish(p) /\ log' = Append(log, p)
        /\ up' = [up EXCEPT ![u].ref = @ + Copies, ![u].pending = @ + 1]
    BY <1>4, <1>13
  <2>2. p \in Pub /\ p \in Entries /\ p.up = u
    <3>1. Len(log) + 1 \in 0..MaxCalls /\ Len(log) + 1 # 0
      BY <1>10
    <3>2. u # NULL
      BY UpgradedAssumption
    <3> QED
      BY <1>2, <1>3, <3>1, <3>2 DEF Pub, Entries
  <2>3. PICK n \in Nat : n = Cardinality(Loops)
    BY FS_CardinalityType, UpgradedAssumption
  <2>4. Copies = n - 1 /\ n - 1 \in Int
    BY <2>3 DEF Copies
  <2>5. Counted(u, n - 1, 1)
    <3>1. Counting(u, n - 1, 1)
      BY <1>4, <2>1, <2>4 DEF Counting
    <3> QED
      BY <1>1, <2>4, <3>1, CountStep DEF Shape
  <2>6. /\ pubs' \in [Loops -> Seq(Entries)]
        /\ PubsBy(u, n)
        /\ \A v \in Ups : QueuedFor(v, Owner[v])'
             = QueuedFor(v, Owner[v]) + (IF v = u THEN 1 ELSE 0)
    BY <1>1, <2>1, <2>2, <2>3, PushStep DEF Shape
  <2>7. QueueShape'
    BY <1>1, <1>4, <2>6 DEF Shape, QueueShape
  <2>8. CallShape'
    <3>1. log' \in Seq(Pub) /\ Len(log') = Len(log) + 1
      BY <1>10, <2>1, <2>2, AppendProperties
    <3>2. Len(log') + Cardinality(Busy)' <= MaxCalls
      BY <1>10, <3>1
    <3> QED
      BY <1>8, <1>9, <3>1, <3>2 DEF CallShape, CallEnds
  <2>9. \A v \in Ups : up'[v].pending = up[v].pending + (IF v = u THEN 1 ELSE 0)
    BY <2>5 DEF Counted
  <2>10. Honest'
    BY <1>1, <1>4, <1>5, <2>6, <2>9, HonestPush DEF Shape
  <2>11. Unopened'
    <3>1. \A v \in Ups : v \notin opened => up'[v].pending = up[v].pending
      BY <1>2, <1>6, <2>9 DEF Records
    <3> QED
      BY <1>1, <1>4, <1>5, <3>1 DEF Unopened
  <2>12. Kept
    <3>1. Moves(u, 0, n, 0, 0, 0, -1, n - 1)
      BY <1>8, <1>11, <2>5, <2>6 DEF Moves, Counted, CallEnds
    <3>2. /\ 0 + n + 0 + 0 + 0 + -1 = n - 1
          /\ 0 + n + 0 + 0 + 0 + -1 <= n - 1
      OBVIOUS
    <3> QED
      BY <1>1, <1>6, <2>4, <3>1, <3>2, Settled DEF Shape
  <2> QED
    BY <1>7, <2>5, <2>7, <2>8, <2>10, <2>11, <2>12 DEF Good, Shape, Counted
<1> QED
  BY <1>12, <1>13

\* Agoo.publish: a publication of no connection.
LEMMA BroadcastStep ==
  ASSUME Inv, NEW k \in Callers, Broadcast(k)
  PROVE  Good
<1>1. Shape /\ Unopened /\ Covered /\ Honest
  BY DEF Inv
<1>2. PICK p : p = [kind |-> "publish", up |-> NULL, n |-> Len(log) + 1]
  OBVIOUS
<1>3. /\ "publish" \in Ops /\ Len(log) + Cardinality(Busy) < MaxCalls
      /\ Publish(p) /\ log' = Append(log, p)
      /\ UNCHANGED <<conVars, upVars, at, reqs, job, call, answer, closes, fault>>
  BY <1>2 DEF Broadcast, Budget, Busy
<1>4. UNCHANGED <<con, bound, out, up, list, opened>>
  BY <1>3 DEF conVars, upVars
<1>5. ConShape' /\ EndShape' /\ UpShape'
  BY <1>1, <1>3, SameShape
<1>6. Cardinality(Busy) \in Nat
  <2>1. IsFiniteSet(Busy)
    BY FS_Subset, UpgradedAssumption DEF Busy
  <2> QED
    BY <2>1, FS_CardinalityType
<1>7. log \in Seq(Pub) /\ Len(log) \in Nat /\ MaxCalls \in Nat
  BY <1>1, LenProperties, UpgradedAssumption DEF Shape, CallShape
<1>8. p \in Pub /\ p \in Entries
  <2>1. Len(log) + 1 \in 0..MaxCalls /\ Len(log) + 1 # 0
    BY <1>3, <1>6, <1>7
  <2> QED
    BY <1>2, <1>3, <2>1 DEF Pub, Entries
<1>9. PICK u : u = NULL
  OBVIOUS
<1>10. /\ pubs' \in [Loops -> Seq(Entries)]
       /\ PubsBy(u, Cardinality(Loops))
       /\ \A v \in Ups : QueuedFor(v, Owner[v])'
             = QueuedFor(v, Owner[v]) + (IF v = u THEN 1 ELSE 0)
  BY <1>1, <1>2, <1>3, <1>8, <1>9, PushStep DEF Shape
<1>11. QueueShape'
  BY <1>1, <1>3, <1>10 DEF Shape, QueueShape
<1>12. CallShape'
  <2>1. log' \in Seq(Pub) /\ Len(log') = Len(log) + 1
    BY <1>3, <1>7, <1>8, AppendProperties
  <2>2. Busy' = Busy
    BY <1>3 DEF Busy, Idle
  <2>3. Len(log') + Cardinality(Busy') <= MaxCalls
    BY <1>3, <1>6, <1>7, <2>1, <2>2
  <2> QED
    BY <1>1, <1>3, <2>1, <2>3 DEF Shape, CallShape
<1>13. \A v \in Ups : v # u
  BY <1>9, UpgradedAssumption
<1>14. Honest'
  <2>1. \A v \in Ups : up'[v].pending = up[v].pending + (IF v = u THEN 0 ELSE 0)
    BY <1>1, <1>4 DEF Shape, UpShape, Records
  <2> QED
    BY <1>1, <1>4, <1>10, <2>1, HonestPush DEF Shape
<1>15. Kept
  <2>1. \A v \in Ups : OfPubs(v) \in Nat
    BY <1>1, CountsNat DEF Shape
  <2>2. PubsBy(NULL, 0)
    BY <1>9, <1>10, <1>13, <2>1 DEF PubsBy
  <2>3. LoopsBy(NULL, 0)
    BY <1>1, <1>3, Untouched DEF Shape
  <2> QED
    BY <1>3, <1>4, <2>2, <2>3, QuietStep
<1>16. Unopened'
  BY <1>1, <1>4 DEF Unopened
<1> QED
  BY <1>5, <1>11, <1>12, <1>14, <1>15, <1>16 DEF Good, Shape

\* A publication is taken from a queue other than that of a connection there is.
LEMMA HonestPop ==
  ASSUME UpShape, QueueShape, Honest, opened' = opened, con' = con, NEW u,
         NEW l \in Loops,
         \A v \in Ups : QueuedFor(v, Owner[v])'
             = QueuedFor(v, Owner[v]) + (IF v = u /\ Owner[v] = l THEN -1 ELSE 0),
         \A v \in Ups : up'[v].pending = up[v].pending,
         u \in Ups => con[u] = "gone" \/ Owner[u] # l
  PROVE  Honest'
<1>1. ASSUME NEW v \in Ups, con'[v] # "gone"
      PROVE  0 <= 0 /\ Grows(v, 0, 0)
  <2>1. ~(v = u /\ Owner[v] = l)
    BY <1>1
  <2>2. QueuedFor(v, Owner[v]) \in Nat /\ up[v].pending \in Int
    BY QueuedNat DEF UpShape, Records
  <2> QED
    BY <2>1, <2>2 DEF Grows
<1> QED
  BY <1>1, HonestStep

\* A loop that has seen the connection of another keeps the reference.
LEMMA ForeignStep ==
  ASSUME Inv, NEW l \in Loops, PubForeign(l)
  PROVE  Good
<1>1. Shape /\ Unopened /\ Covered /\ Honest
  BY DEF Inv
<1>2. PICK p, u : p = Head(pubs[l]) /\ u = p.up
  OBVIOUS
<1>3. /\ at[l] = Idle /\ pubs[l] # <<>> /\ p.kind # "publish"
      /\ Owner[u] # l /\ Popped(l)
      /\ at' = [at EXCEPT ![l] = [at |-> "seen", up |-> u]]
      /\ UNCHANGED <<conVars, upVars, reqs, job, callVars, closes, fault>>
  BY <1>2 DEF PubForeign
<1>4. UNCHANGED <<con, bound, out, up, list, opened, call>>
  BY <1>3 DEF conVars, upVars, callVars
<1>5. /\ p \in Entries /\ pubs' \in [Loops -> Seq(Entries)]
      /\ PubsBy(u, -1)
      /\ \A v \in Ups : QueuedFor(v, Owner[v])'
            = QueuedFor(v, Owner[v]) + (IF v = u /\ Owner[v] = l THEN -1 ELSE 0)
  BY <1>1, <1>2, <1>3, PopStep DEF Shape
<1>6. u \in Ups
  BY <1>2, <1>3, <1>5 DEF Entries, Pub
<1>7. u \in Live
  BY <1>1, <1>2, <1>3, <1>6, Held DEF Shape
<1>8. PICK x : x = [at |-> "seen", up |-> u]
  OBVIOUS
<1>9. LoopsBy(u, 1)
  <2>1. LoopPut(l, x)
    BY <1>3, <1>8 DEF LoopPut
  <2>2. LoopTold(l, x)
    BY <1>1, <2>1, LoopMoves DEF Shape
  <2>3. x.at = "seen" /\ x.up = u /\ at[l].at # "seen"
    BY <1>3, <1>8 DEF Idle
  <2>4. ASSUME NEW v \in Ups
        PROVE  OfLoops(v)' = OfLoops(v) + (IF v = u THEN 1 ELSE 0)
    BY <2>2, <2>3 DEF LoopTold
  <2> QED
    BY <2>4 DEF LoopsBy
<1>10. QueueShape'
  <2>1. at' \in [Loops -> Visits]
    BY <1>1, <1>3, <1>6 DEF Shape, QueueShape, Visits
  <2> QED
    BY <1>1, <1>3, <1>5, <2>1 DEF Shape, QueueShape
<1>11. ConShape' /\ UpShape' /\ CallShape' /\ EndShape'
  BY <1>1, <1>3, SameShape
<1>12. Unopened'
  BY <1>1, <1>4 DEF Unopened
<1>13. Honest'
  BY <1>1, <1>3, <1>4, <1>5, HonestPop DEF Shape
<1>14. Kept
  <2>1. /\ ConBy(u, 0) /\ ReqsBy(u, 0) /\ JobsBy(u, 0) /\ CallsBy(u, 0)
        /\ RefBy(u, 0) /\ LivesOn(u)
    BY <1>1, <1>3, <1>4, Untouched DEF Shape
  <2>2. Moves(u, 0, -1, 1, 0, 0, 0, 0)
    BY <1>5, <1>9, <2>1 DEF Moves
  <2> QED
    BY <1>1, <1>7, <2>2, Settled DEF Shape
<1> QED
  BY <1>10, <1>11, <1>12, <1>13, <1>14 DEF Good, Shape

LEMMA SeenStep ==
  ASSUME Inv, NEW l \in Loops, PubSeen(l)
  PROVE  Good
<1>1. Shape /\ Unopened /\ Covered /\ Honest
  BY DEF Inv
<1>2. at[l].at = "seen" /\ at[l].up \in Ups
  BY <1>1 DEF PubSeen, Shape, QueueShape, Visits, Idle
<1>3. PICK u \in Ups : u = at[l].up
  BY <1>2
<1>4. /\ \/ Release(u, 0) /\ UNCHANGED fault
         \/ con[u] = "gone" /\ fault' = TRUE /\ UNCHANGED upVars
      /\ at' = [at EXCEPT ![l] = Idle]
      /\ UNCHANGED <<conVars, pubs, reqs, job, callVars, closes>>
  BY <1>3 DEF PubSeen
<1>5. UNCHANGED <<con, bound, out, call>>
  BY <1>4 DEF conVars, callVars
<1>6. u \in Live
  BY <1>1, <1>2, <1>3, Held DEF Shape
<1>7. LoopsBy(u, -1)
  <2>1. PICK x : x = Idle
    OBVIOUS
  <2>2. LoopPut(l, x)
    BY <1>4, <2>1 DEF LoopPut
  <2>3. LoopTold(l, x)
    BY <1>1, <2>2, LoopMoves DEF Shape
  <2>4. x.at # "seen"
    BY <2>1 DEF Idle
  <2>5. ASSUME NEW v \in Ups
        PROVE  OfLoops(v)' = OfLoops(v) + (IF v = u THEN -1 ELSE 0)
    <3>1. /\ OfLoops(v)' + (IF v = u THEN 1 ELSE 0) = OfLoops(v) + 0
          /\ OfLoops(v) \in Nat /\ OfLoops(v)' \in Nat
      BY <1>2, <1>3, <2>3, <2>4 DEF LoopTold
    <3> QED
      BY <3>1
  <2> QED
    BY <2>5 DEF LoopsBy
<1>8. QueueShape'
  <2>1. at' \in [Loops -> Visits]
    BY <1>1, <1>4 DEF Shape, QueueShape, Visits
  <2> QED
    BY <1>1, <1>4, <2>1 DEF Shape, QueueShape
<1>9. ConShape' /\ CallShape'
  BY <1>1, <1>4, SameShape
<1>10. EndShape'
  BY <1>1, <1>4 DEF Shape, EndShape
<1>11. ConBy(u, 0) \/ opened' # opened
  BY <1>1, <1>5, Untouched DEF Shape
<1>12. PubsBy(u, 0) /\ ReqsBy(u, 0) /\ JobsBy(u, 0) /\ CallsBy(u, 0)
  BY <1>1, <1>4, <1>5, Untouched DEF Shape
<1>13. CASE Release(u, 0)
  <2>1. Released(u, 0)
    BY <1>1, <1>13, ReleaseStep DEF Shape
  <2>2. opened' = opened /\ \A v \in Ups : up'[v].pending = up[v].pending
    BY <2>1 DEF Released
  <2>3. Unopened' /\ Honest'
    <3>1. Unopened'
      BY <1>1, <1>5, <2>2 DEF Unopened
    <3> QED
      BY <1>1, <1>4, <1>5, <2>2, <3>1, HonestStays DEF Shape
  <2>4. Moves(u, 0, 0, -1, 0, 0, 0, 0 - 1)
    BY <1>7, <1>11, <1>12, <2>1 DEF Moves, Released
  <2>5. Kept
    BY <1>1, <1>6, <2>4, Settled DEF Shape
  <2> QED
    BY <1>8, <1>9, <1>10, <2>1, <2>3, <2>5 DEF Good, Shape, Released
<1>14. CASE fault' = TRUE /\ UNCHANGED upVars
  <2>1. UNCHANGED <<up, list, opened>> /\ UpShape'
    BY <1>1, <1>14, SameShape DEF upVars
  <2>2. Unopened' /\ Honest'
    <3>1. Unopened'
      BY <1>1, <1>5, <2>1 DEF Unopened
    <3> QED
      BY <1>1, <1>4, <1>5, <2>1, <3>1, HonestStays DEF Shape
  <2>3. RefBy(u, 0) /\ LivesOn(u)
    BY <1>1, <2>1, Untouched DEF Shape
  <2>4. Moves(u, 0, 0, -1, 0, 0, 0, 0)
    BY <1>7, <1>11, <1>12, <2>1, <2>3 DEF Moves
  <2>5. Kept
    BY <1>1, <1>6, <1>14, <2>4, Settled DEF Shape
  <2> QED
    BY <1>8, <1>9, <1>10, <2>1, <2>2, <2>5 DEF Good, Shape
<1> QED
  BY <1>4, <1>13, <1>14

\* A publication of a connection that is gone gives its reference back.
LEMMA GoneStep ==
  ASSUME Inv, NEW l \in Loops, PubGone(l)
  PROVE  Good
<1>1. Shape /\ Unopened /\ Covered /\ Honest
  BY DEF Inv
<1>2. PICK p, u : p = Head(pubs[l]) /\ u = p.up
  OBVIOUS
<1>3. /\ pubs[l] # <<>> /\ p.kind # "publish" /\ con[u] = "gone"
      /\ \/ Release(u, 0) /\ UNCHANGED fault
         \/ fault' = TRUE /\ UNCHANGED upVars
      /\ Popped(l)
      /\ UNCHANGED <<conVars, at, reqs, job, callVars, closes>>
  BY <1>2 DEF PubGone
<1>4. UNCHANGED <<con, bound, out, call>>
  BY <1>3 DEF conVars, callVars
<1>5. /\ p \in Entries /\ pubs' \in [Loops -> Seq(Entries)]
      /\ PubsBy(u, -1)
      /\ \A v \in Ups : QueuedFor(v, Owner[v])'
            = QueuedFor(v, Owner[v]) + (IF v = u /\ Owner[v] = l THEN -1 ELSE 0)
  BY <1>1, <1>2, <1>3, PopStep DEF Shape
<1>6. u \in Ups
  BY <1>2, <1>3, <1>5 DEF Entries, Pub
<1>7. u \in Live
  BY <1>1, <1>2, <1>3, <1>6, Held DEF Shape
<1>8. QueueShape'
  BY <1>1, <1>3, <1>5 DEF Shape, QueueShape
<1>9. ConShape' /\ CallShape'
  BY <1>1, <1>3, SameShape
<1>10. EndShape'
  BY <1>1, <1>3 DEF Shape, EndShape
<1>11. ConBy(u, 0) \/ opened' # opened
  BY <1>1, <1>4, Untouched DEF Shape
<1>12. LoopsBy(u, 0) /\ ReqsBy(u, 0) /\ JobsBy(u, 0) /\ CallsBy(u, 0)
  BY <1>1, <1>3, <1>4, Untouched DEF Shape
<1>13. CASE Release(u, 0)
  <2>1. Released(u, 0)
    BY <1>1, <1>6, <1>13, ReleaseStep DEF Shape
  <2>2. opened' = opened /\ \A v \in Ups : up'[v].pending = up[v].pending
    BY <2>1 DEF Released
  <2>3. Unopened'
    BY <1>1, <1>4, <2>2 DEF Unopened
  <2>4. Honest'
    BY <1>1, <1>3, <1>4, <1>5, <2>2, HonestPop DEF Shape
  <2>5. Moves(u, 0, -1, 0, 0, 0, 0, 0 - 1)
    BY <1>5, <1>11, <1>12, <2>1 DEF Moves, Released
  <2>6. Kept
    BY <1>1, <1>7, <2>5, Settled DEF Shape
  <2> QED
    BY <1>8, <1>9, <1>10, <2>1, <2>3, <2>4, <2>6 DEF Good, Shape, Released
<1>14. CASE fault' = TRUE /\ UNCHANGED upVars
  <2>1. UNCHANGED <<up, list, opened>> /\ UpShape'
    BY <1>1, <1>14, SameShape DEF upVars
  <2>2. Unopened'
    BY <1>1, <1>4, <2>1 DEF Unopened
  <2>3. Honest'
    BY <1>1, <1>3, <1>4, <1>5, <2>1, HonestPop DEF Shape
  <2>4. RefBy(u, 0) /\ LivesOn(u)
    BY <1>1, <2>1, Untouched DEF Shape
  <2>5. Moves(u, 0, -1, 0, 0, 0, 0, 0)
    BY <1>5, <1>11, <1>12, <2>1, <2>4 DEF Moves
  <2>6. Kept
    BY <1>1, <1>7, <1>14, <2>5, Settled DEF Shape
  <2> QED
    BY <1>8, <1>9, <1>10, <2>1, <2>2, <2>3, <2>6 DEF Good, Shape
<1> QED
  BY <1>3, <1>13, <1>14

\* The loop of the connection serves a publication, and asks for on_drained.
LEMMA OwnStep ==
  ASSUME Inv, NEW l \in Loops, PubOwn(l)
  PROVE  Good
<1>1. Shape /\ Unopened /\ Covered /\ Honest
  BY DEF Inv
<1>2. PICK p, u : p = Head(pubs[l]) /\ u = p.up
  OBVIOUS
<1>3. PICK drained : drained = IF up[u].pending = 1 THEN Has("on_drained") ELSE <<>>
  OBVIOUS
<1>4. PICK ref : ref = up[u].ref + Len(drained) - 1
  OBVIOUS
<1>5. PICK sub : sub = CASE p.kind = "subscribe" -> TRUE
                         [] p.kind = "unsubscribe" -> FALSE
                         [] OTHER -> up[u].subscribed
  OBVIOUS
<1>6. PICK res : res = CASE p.kind = "write" -> <<[kind |-> "text", n |-> p.n]>>
                         [] p.kind = "close" -> <<[kind |-> "close"]>>
                         [] OTHER -> <<>>
  OBVIOUS
<1>7. /\ pubs[l] # <<>> /\ p.kind # "publish" /\ Owner[u] = l /\ con[u] # "gone"
      /\ Popped(l) /\ Queue(u, drained)
      /\ out' = [out EXCEPT ![u] = IF res = <<>> THEN @ ELSE Append(@, res[1])]
      /\ list' = IF ref <= 0 THEN Without(u) ELSE list
      /\ UNCHANGED <<con, bound, wire, reads, opened, at, job, callVars,
                     closes, fault>>
  BY <1>2, <1>3, <1>4, <1>6 DEF PubOwn, AppendRes
<1>8. up' = [up EXCEPT ![u] = [ref |-> ref, pending |-> up[u].pending - 1,
                              subscribed |-> sub]]
  BY <1>2, <1>3, <1>4, <1>5 DEF PubOwn
<1>9. /\ p \in Entries /\ pubs' \in [Loops -> Seq(Entries)]
      /\ PubsBy(u, -1)
      /\ \A v \in Ups : QueuedFor(v, Owner[v])'
            = QueuedFor(v, Owner[v]) + (IF v = u /\ Owner[v] = l THEN -1 ELSE 0)
  BY <1>1, <1>2, <1>7, PopStep DEF Shape
<1>10. u \in Ups
  BY <1>2, <1>7, <1>9 DEF Entries, Pub
<1>11. u \in Live /\ u \in opened
  BY <1>1, <1>2, <1>7, <1>10, Held DEF Shape
<1>12. up \in [Ups -> Records] /\ out \in [Ups -> Seq(Responses)]
  BY <1>1 DEF Shape, UpShape, ConShape
<1>13. /\ up[u].ref \in Int /\ up[u].pending \in Int /\ up[u].subscribed \in BOOLEAN
  BY <1>10, <1>12 DEF Records
<1>14. drained \in Seq(Methods) /\ Len(drained) \in Nat
  <2>1. Has("on_drained") \in Seq(Methods) /\ Len(Has("on_drained")) \in Nat
    BY HasMethod DEF Methods
  <2>2. <<>> \in Seq(Methods) /\ Len(<<>>) = 0
    OBVIOUS
  <2> QED
    BY <1>3, <2>1, <2>2
<1>15. ref \in Int /\ sub \in BOOLEAN
  <2>1. ref \in Int
    BY <1>4, <1>13, <1>14
  <2>2. sub = TRUE \/ sub = FALSE \/ sub = up[u].subscribed
    BY <1>5
  <2> QED
    BY <1>13, <2>1, <2>2
<1>16. up' \in [Ups -> Records]
  <2>1. PICK x : x = [ref |-> ref, pending |-> up[u].pending - 1, subscribed |-> sub]
    OBVIOUS
  <2>2. up[u].pending - 1 \in Int
    BY <1>13
  <2>3. x \in Records
    BY <1>15, <2>1, <2>2 DEF Records
  <2>4. up' = [up EXCEPT ![u] = x]
    BY <1>8, <2>1
  <2> QED
    BY <1>12, <2>3, <2>4
<1>17. \A v \in Ups : /\ up'[v].ref = up[v].ref + (IF v = u THEN Len(drained) - 1 ELSE 0)
                      /\ up'[v].pending = up[v].pending + (IF v = u THEN -1 ELSE 0)
  <2>1. ASSUME NEW v \in Ups
        PROVE  /\ up'[v].ref = up[v].ref + (IF v = u THEN Len(drained) - 1 ELSE 0)
               /\ up'[v].pending = up[v].pending + (IF v = u THEN -1 ELSE 0)
    <3>1. CASE v = u
      <4>1. up'[v].ref = ref /\ up'[v].pending = up[u].pending - 1
        BY <1>8, <1>12, <3>1
      <4> QED
        BY <1>4, <1>13, <1>14, <3>1, <4>1
    <3>2. CASE v # u
      <4>1. up'[v] = up[v] /\ up[v].ref \in Int /\ up[v].pending \in Int
        BY <1>8, <1>12, <3>2 DEF Records
      <4> QED
        BY <3>2, <4>1
    <3> QED
      BY <3>1, <3>2
  <2> QED
    BY <2>1
<1>18. RefBy(u, Len(drained) - 1)
  BY <1>17 DEF RefBy
<1>19. UpShape' /\ LivesOn(u)
  <2>1. up'[u].ref = ref
    BY <1>8, <1>10, <1>12
  <2>2. Listing(u, ref)
    BY <1>7, <1>16, <2>1 DEF Listing
  <2> QED
    BY <1>1, <1>10, <1>15, <2>2, ListStep DEF Shape
<1>20. /\ reqs' \in Seq(Requests)
       /\ \A v : OfReqs(v)' = OfReqs(v) + (IF v = u THEN Len(drained) ELSE 0)
  BY <1>1, <1>7, <1>10, <1>14, QueueCount DEF Shape
<1>21. ReqsBy(u, Len(drained))
  BY <1>20 DEF ReqsBy
<1>22. out' \in [Ups -> Seq(Responses)]
  <2>1. CASE p.kind = "write"
    <3>1. PICK x : x = [kind |-> "text", n |-> p.n]
      OBVIOUS
    <3>2. x \in Responses
      BY <1>9, <2>1, <3>1 DEF Entries, Pub, Responses
    <3>3. res = <<x>>
      BY <1>6, <2>1, <3>1
    <3>4. out' = [out EXCEPT ![u] = Append(@, x)]
      BY <1>7, <3>3
    <3>5. Append(out[u], x) \in Seq(Responses)
      BY <1>10, <1>12, <3>2, AppendProperties
    <3> QED
      BY <1>12, <3>4, <3>5
  <2>2. CASE p.kind = "close"
    <3>1. PICK x : x = [kind |-> "close"]
      OBVIOUS
    <3>2. x \in Responses
      BY <3>1 DEF Responses
    <3>3. res = <<x>>
      BY <1>6, <2>2, <3>1
    <3>4. out' = [out EXCEPT ![u] = Append(@, x)]
      BY <1>7, <3>3
    <3>5. Append(out[u], x) \in Seq(Responses)
      BY <1>10, <1>12, <3>2, AppendProperties
    <3> QED
      BY <1>12, <3>4, <3>5
  <2>3. CASE p.kind # "write" /\ p.kind # "close"
    <3>1. res = <<>>
      BY <1>6, <2>3
    <3>2. out' = [out EXCEPT ![u] = @]
      BY <1>7, <3>1
    <3> QED
      BY <1>12, <3>2
  <2> QED
    BY <2>1, <2>2, <2>3
<1>23. ConShape'
  BY <1>1, <1>7, <1>22 DEF Shape, ConShape
<1>24. QueueShape'
  BY <1>1, <1>7, <1>9, <1>20 DEF Shape, QueueShape
<1>25. CallShape' /\ EndShape'
  BY <1>1, <1>7, SameShape
<1>26. Unopened'
  <2>1. \A v \in Ups : v \notin opened =>
           out'[v] = out[v] /\ up'[v].pending = up[v].pending
    BY <1>7, <1>8, <1>11, <1>12
  <2> QED
    BY <1>1, <1>7, <2>1 DEF Unopened
<1>27. Honest'
  <2>1. ASSUME NEW v \in Ups PROVE \E m, i \in Int : m <= i /\ Grows(v, m, i)
    <3>1. CASE v = u
      <4>1. -1 <= -1 /\ Grows(v, -1, -1)
        BY <1>7, <1>9, <1>10, <1>17, <3>1 DEF Grows
      <4> QED
        BY <4>1
    <3>2. CASE v # u
      <4>1. 0 <= 0 /\ Grows(v, 0, 0)
        BY <1>9, <1>17, <3>2 DEF Grows
      <4> QED
        BY <4>1
    <3> QED
      BY <3>1, <3>2
  <2> QED
    BY <1>1, <1>7, <2>1, HonestStep DEF Shape
<1>28. Kept
  <2>1. PICK n \in Nat : n = Len(drained)
    BY <1>14
  <2>2. ConBy(u, 0) /\ LoopsBy(u, 0) /\ JobsBy(u, 0) /\ CallsBy(u, 0)
    <3>1. call' = call
      BY <1>7 DEF callVars
    <3> QED
      BY <1>1, <1>7, <3>1, Untouched DEF Shape
  <2>3. Moves(u, 0, -1, 0, n, 0, 0, n - 1)
    BY <1>9, <1>18, <1>19, <1>21, <2>1, <2>2 DEF Moves
  <2>4. n - 1 \in Int /\ 0 + -1 + 0 + n + 0 + 0 = n - 1 /\ 0 + -1 + 0 + n + 0 + 0 <= n - 1
    OBVIOUS
  <2> QED
    BY <1>1, <1>11, <2>3, <2>4, Settled DEF Shape
<1> QED
  BY <1>19, <1>23, <1>24, <1>25, <1>26, <1>27, <1>28 DEF Good, Shape

\* A connection dies, and is destroyed with its reference unless it waits.
LEMMA DeadStep ==
  ASSUME Inv, NEW u \in Ups,
         Hangup(u) \/ CheckDead(u) \/ WriteClose(u) \/ WriteError(u)
  PROVE  Good
<1>1. Shape /\ Unopened /\ Covered /\ Honest
  BY DEF Inv
<1>2. PICK s \in Seq(Responses), ms \in Seq(Methods) : Dies(u, s, ms)
  BY <1>1, DiesStep
<1>3. /\ Kill(u, s, ms) /\ con[u] # "gone"
      /\ UNCHANGED <<bound, wire, reads, pubs, at, job, callVars, closes, fault>>
      /\ u \notin opened => s = <<[kind |-> "wait"]>> /\ ms = <<>>
  BY <1>2 DEF Dies
<1>4. PICK x, all : \E gone \in BOOLEAN : Leaves(u, s, ms, x, gone, all)
  BY <1>3, KillLeaves
<1>5. PICK gone \in BOOLEAN : Leaves(u, s, ms, x, gone, all)
  BY <1>4
<1>6. /\ x \in Seq(Responses) /\ all \in Seq(Methods)
      /\ con' = [con EXCEPT ![u] = IF gone THEN "gone" ELSE "dead"]
      /\ out' = [out EXCEPT ![u] = x]
      /\ Queue(u, all)
      /\ gone => Release(u, Len(all))
      /\ ~gone => /\ up' = [up EXCEPT ![u].ref = @ + Len(all)]
                  /\ UNCHANGED <<list, opened>> /\ all = ms
      /\ s = <<[kind |-> "wait"]>> => ~gone /\ x = s
  BY <1>5 DEF Leaves
<1>7. /\ con \in [Ups -> States] /\ out \in [Ups -> Seq(Responses)]
      /\ up \in [Ups -> Records]
  BY <1>1 DEF Shape, ConShape, UpShape
<1>8. PICK n \in Nat : n = Len(all)
  BY <1>6, LenProperties
<1>9. u \notin opened => ~gone /\ n = 0 /\ x = <<[kind |-> "wait"]>>
  BY <1>3, <1>6, <1>8
<1>10. u \in opened => u \in Live
  BY <1>1, <1>3, Held DEF Shape
<1>11. ConShape'
  <2>1. con' \in [Ups -> States]
    BY <1>6, <1>7 DEF States
  <2>2. out' \in [Ups -> Seq(Responses)]
    BY <1>6, <1>7
  <2> QED
    BY <1>1, <1>3, <2>1, <2>2 DEF Shape, ConShape
<1>12. /\ reqs' \in Seq(Requests)
       /\ \A v : OfReqs(v)' = OfReqs(v) + (IF v = u THEN n ELSE 0)
  <2>1. /\ reqs' \in Seq(Requests)
        /\ \A v : OfReqs(v)' = OfReqs(v) + (IF v = u THEN Len(all) ELSE 0)
    BY <1>1, <1>6, QueueCount DEF Shape
  <2> QED
    BY <1>8, <2>1
<1>13. ReqsBy(u, n)
  BY <1>12 DEF ReqsBy
<1>14. QueueShape'
  BY <1>1, <1>3, <1>12 DEF Shape, QueueShape
<1>15. CallShape' /\ EndShape'
  BY <1>1, <1>3, SameShape
<1>16. PubsBy(u, 0) /\ LoopsBy(u, 0) /\ JobsBy(u, 0) /\ CallsBy(u, 0)
  <2>1. call' = call
    BY <1>3 DEF callVars
  <2> QED
    BY <1>1, <1>3, <2>1, Untouched DEF Shape
<1>17. ASSUME opened' = opened, \A v \in Ups : up'[v].pending = up[v].pending
       PROVE  Unopened' /\ Honest'
  <2>1. \A v \in Ups : con'[v] # "gone" => con[v] # "gone"
    BY <1>3, <1>6, <1>7
  <2>2. Honest'
    BY <1>1, <1>3, <1>17, <2>1, HonestStays DEF Shape
  <2>3. ASSUME NEW v \in Ups, v \notin opened
        PROVE  out'[v] = <<[kind |-> "wait"]>> /\ con'[v] # "gone"
    <3>1. CASE v = u
      BY <1>6, <1>7, <1>9, <2>3, <3>1
    <3>2. CASE v # u
      BY <1>1, <1>6, <1>7, <2>3, <3>2 DEF Unopened
    <3> QED
      BY <3>1, <3>2
  <2>4. Unopened'
    BY <1>1, <1>3, <1>17, <2>3 DEF Unopened
  <2> QED
    BY <2>2, <2>4
<1>18. CASE gone
  <2>1. Released(u, n)
    BY <1>1, <1>6, <1>8, <1>18, ReleaseStep DEF Shape
  <2>2. u \in opened
    BY <1>9, <1>18
  <2>3. ConBy(u, -1)
    <3>1. ASSUME NEW v \in Ups
          PROVE  OfCon(v)' = OfCon(v) + (IF v = u THEN -1 ELSE 0)
      <4>1. opened' = opened
        BY <2>1 DEF Released
      <4>2. CASE v = u
        <5>1. OfCon(v) = 1
          BY <1>3, <2>2, <4>2 DEF OfCon
        <5>2. OfCon(v)' = 0
          BY <1>6, <1>7, <1>18, <4>2 DEF OfCon
        <5> QED
          BY <4>2, <5>1, <5>2
      <4>3. CASE v # u
        <5>1. con'[v] = con[v]
          BY <1>6, <1>7, <4>3
        <5>2. OfCon(v)' = OfCon(v) /\ OfCon(v) \in {0, 1}
          BY <4>1, <5>1 DEF OfCon
        <5> QED
          BY <4>3, <5>2
      <4> QED
        BY <4>2, <4>3
    <3> QED
      BY <3>1 DEF ConBy
  <2>4. Moves(u, -1, 0, 0, n, 0, 0, n - 1)
    BY <1>13, <1>16, <2>1, <2>3 DEF Moves, Released
  <2>5. n - 1 \in Int /\ -1 + 0 + 0 + n + 0 + 0 = n - 1 /\ -1 + 0 + 0 + n + 0 + 0 <= n - 1
    OBVIOUS
  <2>6. Kept
    BY <1>1, <1>10, <2>2, <2>4, <2>5, Settled DEF Shape
  <2>7. Unopened' /\ Honest'
    BY <1>17, <2>1 DEF Released
  <2> QED
    BY <1>11, <1>14, <1>15, <2>1, <2>6, <2>7 DEF Good, Shape, Released
<1>19. CASE ~gone
  <2>1. Counting(u, n, 0)
    BY <1>6, <1>8, <1>19 DEF Counting
  <2>2. Counted(u, n, 0)
    BY <1>1, <2>1, CountStep DEF Shape
  <2>3. ConBy(u, 0)
    <3>1. ASSUME NEW v \in Ups PROVE OfCon(v)' = OfCon(v) + (IF v = u THEN 0 ELSE 0)
      <4>1. con'[v] = "gone" <=> con[v] = "gone"
        BY <1>3, <1>6, <1>7, <1>19
      <4>2. OfCon(v)' = OfCon(v) /\ OfCon(v) \in {0, 1}
        BY <1>6, <1>19, <4>1 DEF OfCon
      <4> QED
        BY <4>2
    <3> QED
      BY <3>1 DEF ConBy
  <2>4. Moves(u, 0, 0, 0, n, 0, 0, n)
    BY <1>13, <1>16, <2>2, <2>3 DEF Moves, Counted
  <2>5. 0 + 0 + 0 + n + 0 + 0 = n /\ 0 + 0 + 0 + n + 0 + 0 <= n
    OBVIOUS
  <2>6. Kept
    BY <1>1, <1>9, <1>10, <2>4, <2>5, Settled DEF Shape
  <2>7. \A v \in Ups : up'[v].pending = up[v].pending
    BY <1>7, <2>2 DEF Counted, Records
  <2>8. Unopened' /\ Honest'
    BY <1>6, <1>17, <1>19, <2>7
  <2> QED
    BY <1>11, <1>14, <1>15, <2>2, <2>6, <2>8 DEF Good, Shape, Counted
<1> QED
  BY <1>18, <1>19

\* A message of the peer has a callback that holds the record.
LEMMA FrameStep ==
  ASSUME Inv, NEW u \in Ups, Frame(u)
  PROVE  Good
<1>1. Shape /\ Unopened /\ Covered /\ Honest
  BY DEF Inv
<1>2. PICK q : q = [method |-> "on_message", up |-> u]
  OBVIOUS
<1>3. /\ con[u] = "open" /\ bound[u] /\ reads[u] < MaxReads
      /\ reads' = [reads EXCEPT ![u] = @ + 1]
      /\ reqs' = Append(reqs, q)
      /\ up' = [up EXCEPT ![u].ref = @ + 1]
      /\ UNCHANGED <<con, bound, out, wire, list, opened, pubs, at, job, callVars,
                     closes, fault>>
  BY <1>2 DEF Frame
<1>4. u \in opened
  BY <1>1, <1>3 DEF Unopened
<1>5. u \in Live
  BY <1>1, <1>3, <1>4, Held DEF Shape
<1>6. ConShape'
  <2>1. reads \in [Ups -> 0..MaxReads]
    BY <1>1 DEF Shape, ConShape
  <2>2. reads[u] + 1 \in 0..MaxReads
    BY <1>3, <2>1, UpgradedAssumption
  <2>3. reads' \in [Ups -> 0..MaxReads]
    BY <1>3, <2>1, <2>2
  <2> QED
    BY <1>1, <1>3, <2>3 DEF Shape, ConShape
<1>7. q \in Requests /\ q.up = u /\ reqs \in Seq(Requests)
  BY <1>1, <1>2 DEF Requests, Methods, Shape, QueueShape
<1>8. reqs' \in Seq(Requests)
  BY <1>3, <1>7, AppendProperties
<1>9. ReqsBy(u, 1)
  <2>1. ASSUME NEW v \in Ups
        PROVE  OfReqs(v)' = OfReqs(v) + (IF v = u THEN 1 ELSE 0)
    <3>1. Cardinality(Marked(Append(reqs, q), v))
            = Cardinality(Marked(reqs, v)) + (IF q.up = v THEN 1 ELSE 0)
      BY <1>7, MarkedAppend
    <3>2. Cardinality(Marked(reqs', v))
            = Cardinality(Marked(reqs, v)) + (IF v = u THEN 1 ELSE 0)
      BY <1>3, <1>7, <3>1
    <3> QED
      BY <3>2, CountsDef
  <2> QED
    BY <2>1 DEF ReqsBy
<1>10. QueueShape'
  BY <1>1, <1>3, <1>8 DEF Shape, QueueShape
<1>11. CallShape' /\ EndShape'
  BY <1>1, <1>3, SameShape
<1>12. Counted(u, 1, 0)
  <2>1. Counting(u, 1, 0)
    BY <1>3 DEF Counting
  <2> QED
    BY <1>1, <2>1, CountStep DEF Shape
<1>13. \A v \in Ups : up'[v].pending = up[v].pending
  BY <1>1, <1>12 DEF Counted, Shape, UpShape, Records
<1>14. Unopened'
  BY <1>1, <1>3, <1>13 DEF Unopened
<1>15. Honest'
  BY <1>1, <1>3, <1>13, HonestStays DEF Shape
<1>16. Kept
  <2>1. call' = call
    BY <1>3 DEF callVars
  <2>2. ConBy(u, 0) /\ PubsBy(u, 0) /\ LoopsBy(u, 0) /\ JobsBy(u, 0) /\ CallsBy(u, 0)
    BY <1>1, <1>3, <2>1, Untouched DEF Shape
  <2>3. Moves(u, 0, 0, 0, 1, 0, 0, 1)
    BY <1>9, <1>12, <2>2 DEF Moves, Counted
  <2> QED
    BY <1>1, <1>5, <2>3, Settled DEF Shape
<1> QED
  BY <1>6, <1>10, <1>11, <1>12, <1>14, <1>15, <1>16 DEF Good, Shape, Counted

\* A callback that starts takes its reference along; on_close publishes a close.
LEMMA TakeStep ==
  ASSUME Inv, NEW t \in Evals, Take(t)
  PROVE  Good
<1>1. Shape /\ Unopened /\ Covered /\ Honest
  BY DEF Inv
<1>2. reqs # <<>> /\ reqs \in Seq(Requests)
  BY <1>1 DEF Take, Shape, QueueShape
<1>3. PICK q \in Requests : q = Head(reqs)
  BY <1>2, HeadTailProperties
<1>4. PICK u \in Ups : u = q.up
  BY DEF Requests
<1>5. PICK p : p = [kind |-> "close", up |-> u, n |-> 0]
  OBVIOUS
<1>6. PICK runs \in BOOLEAN : runs = (q.method # "on_message" \/ "on_message" \in Hooks)
  OBVIOUS
<1>7. PICK x : x = IF runs THEN [at |-> "run", up |-> u] ELSE Idle
  OBVIOUS
<1>8. /\ job[t] = Idle /\ reqs' = Tail(reqs) /\ job' = [job EXCEPT ![t] = x]
      /\ IF q.method = "on_close"
           THEN /\ Publish(p)
                /\ up' = [up EXCEPT ![u].ref = @ + 1 + Copies]
                /\ closes' = [closes EXCEPT ![u] = @ + 1]
           ELSE UNCHANGED <<pubs, up, closes>>
      /\ UNCHANGED <<conVars, list, opened, at, callVars, fault>>
  BY <1>3, <1>4, <1>5, <1>6, <1>7 DEF Take
<1>9. UNCHANGED <<con, bound, out, call>>
  BY <1>8 DEF conVars, callVars
<1>10. u \in Live /\ u \in opened
  BY <1>1, <1>2, <1>3, <1>4, Held DEF Shape
<1>11. ConShape' /\ CallShape'
  BY <1>1, <1>8, SameShape
<1>12. ReqsBy(u, -1) /\ reqs' \in Seq(Requests)
  <2>1. ASSUME NEW v \in Ups
        PROVE  OfReqs(v)' = OfReqs(v) + (IF v = u THEN -1 ELSE 0)
    <3>1. Cardinality(Marked(reqs, v))
            = Cardinality(Marked(Tail(reqs), v)) + (IF Head(reqs).up = v THEN 1 ELSE 0)
      BY <1>2, MarkedTail
    <3>2. Tail(reqs) \in Seq(Requests)
      BY <1>2, HeadTailProperties
    <3>3. Cardinality(Marked(Tail(reqs), v)) \in Nat
      BY <3>2, MarkedFinite
    <3>4. Cardinality(Marked(reqs', v))
            = Cardinality(Marked(reqs, v)) + (IF v = u THEN -1 ELSE 0)
      BY <1>3, <1>4, <1>8, <3>1, <3>3
    <3> QED
      BY <3>4, CountsDef
  <2> QED
    BY <1>2, <1>8, <2>1, HeadTailProperties DEF ReqsBy
<1>13. JobTold(t, x) /\ job' \in [Evals -> Jobs]
  <2>1. JobPut(t, x)
    BY <1>8 DEF JobPut
  <2>2. x \in Jobs
    BY <1>7 DEF Jobs
  <2> QED
    BY <1>1, <1>8, <2>1, <2>2, JobMoves DEF Shape, QueueShape
<1>14. PICK j \in {0, 1} : j = IF runs THEN 1 ELSE 0
  OBVIOUS
<1>15. JobsBy(u, j)
  <2>1. ASSUME NEW v \in Ups
        PROVE  OfJobs(v)' = OfJobs(v) + (IF v = u THEN j ELSE 0)
    <3>1. CASE runs
      <4>1. x # Idle /\ x.up = u
        BY <1>7, <3>1 DEF Idle
      <4> QED
        BY <1>8, <1>13, <1>14, <3>1, <4>1 DEF JobTold
    <3>2. CASE ~runs
      <4>1. x = Idle
        BY <1>7, <3>2
      <4> QED
        BY <1>8, <1>13, <1>14, <3>2, <4>1 DEF JobTold
    <3> QED
      BY <3>1, <3>2
  <2> QED
    BY <2>1 DEF JobsBy
<1>16. ConBy(u, 0) /\ LoopsBy(u, 0) /\ CallsBy(u, 0)
  BY <1>1, <1>8, <1>9, Untouched DEF Shape
<1>17. CASE q.method = "on_close"
  <2>1. /\ Publish(p) /\ up' = [up EXCEPT ![u].ref = @ + 1 + Copies]
        /\ closes' = [closes EXCEPT ![u] = @ + 1]
    BY <1>8, <1>17
  <2>2. p \in Entries /\ u = p.up
    <3>1. u # NULL /\ MaxCalls \in Nat
      BY UpgradedAssumption
    <3> QED
      BY <1>5, <3>1 DEF Pub, Entries
  <2>3. PICK n \in Nat : n = Cardinality(Loops)
    BY FS_CardinalityType, UpgradedAssumption
  <2>4. /\ pubs' \in [Loops -> Seq(Entries)]
        /\ PubsBy(u, n)
        /\ \A v \in Ups : QueuedFor(v, Owner[v])'
             = QueuedFor(v, Owner[v]) + (IF v = u THEN 1 ELSE 0)
    BY <1>1, <2>1, <2>2, <2>3, PushStep DEF Shape
  <2>5. Counted(u, n, 0)
    <3>1. up[u].ref \in Int /\ up[u].ref + 1 + Copies = up[u].ref + n
      BY <1>1, <2>3 DEF Copies, Shape, UpShape, Records
    <3>2. Counting(u, n, 0)
      BY <1>8, <2>1, <3>1 DEF Counting
    <3> QED
      BY <1>1, <3>2, CountStep DEF Shape
  <2>6. QueueShape'
    BY <1>1, <1>8, <1>12, <1>13, <2>4 DEF Shape, QueueShape
  <2>7. EndShape'
    BY <1>1, <1>8, <2>1 DEF Shape, EndShape
  <2>8. \A v \in Ups : /\ up'[v].pending = up[v].pending + (IF v = u THEN 0 ELSE 0)
                       /\ up'[v].pending = up[v].pending
    BY <1>1, <2>5 DEF Counted, Shape, UpShape, Records
  <2>9. Honest'
    BY <1>1, <1>8, <1>9, <2>4, <2>8, HonestPush DEF Shape
  <2>10. Unopened'
    BY <1>1, <1>8, <1>9, <2>8 DEF Unopened
  <2>11. Kept
    <3>1. j = 1
      BY <1>6, <1>14, <1>17
    <3>2. Moves(u, 0, n, 0, -1, 1, 0, n)
      BY <1>12, <1>15, <1>16, <2>4, <2>5, <3>1 DEF Moves, Counted
    <3>3. 0 + n + 0 + -1 + 1 + 0 = n /\ 0 + n + 0 + -1 + 1 + 0 <= n
      OBVIOUS
    <3> QED
      BY <1>1, <1>10, <3>2, <3>3, Settled DEF Shape
  <2> QED
    BY <1>11, <2>5, <2>6, <2>7, <2>9, <2>10, <2>11 DEF Good, Shape, Counted
<1>18. CASE q.method # "on_close"
  <2>1. UNCHANGED <<pubs, up, closes, list, opened>>
    BY <1>8, <1>18
  <2>2. UpShape' /\ EndShape'
    BY <1>1, <1>8, <2>1, SameShape DEF upVars
  <2>3. QueueShape'
    BY <1>1, <1>8, <1>12, <1>13, <2>1 DEF Shape, QueueShape
  <2>4. Unopened' /\ Honest'
    <3>1. Unopened'
      BY <1>1, <1>9, <2>1 DEF Unopened
    <3> QED
      BY <1>1, <1>9, <2>1, <3>1, HonestStays DEF Shape
  <2>5. Kept
    <3>1. PubsBy(u, 0) /\ RefBy(u, 0) /\ LivesOn(u)
      BY <1>1, <2>1, Untouched DEF Shape
    <3>2. Moves(u, 0, 0, 0, -1, j, 0, 0)
      BY <1>12, <1>15, <1>16, <3>1 DEF Moves
    <3>3. j = 1 \/ Slack
      BY <1>6, <1>14 DEF Slack
    <3>4. 0 + 0 + 0 + -1 + j + 0 <= 0 /\ (0 + 0 + 0 + -1 + j + 0 = 0 \/ Slack)
      BY <3>3
    <3> QED
      BY <1>1, <1>10, <3>2, <3>4, Settled DEF Shape
  <2> QED
    BY <1>11, <2>2, <2>3, <2>4, <2>5 DEF Good, Shape
<1> QED
  BY <1>17, <1>18

\* A callback that ends, with its reference given back or left behind.
LEMMA ReturnStep ==
  ASSUME Inv, NEW t \in Evals, Return(t) \/ Raise(t)
  PROVE  Good
<1>1. Shape /\ Unopened /\ Covered /\ Honest
  BY DEF Inv
<1>2. /\ job[t] # Idle /\ job' = [job EXCEPT ![t] = Idle]
      /\ UNCHANGED <<conVars, pubs, at, reqs, callVars, closes, fault>>
  BY DEF Return, Raise
<1>3. job[t].up \in Ups
  BY <1>1, <1>2 DEF Shape, QueueShape, Jobs
<1>4. PICK u \in Ups : u = job[t].up
  BY <1>3
<1>5. UNCHANGED <<con, bound, out, call>>
  BY <1>2 DEF conVars, callVars
<1>6. u \in Live
  BY <1>1, <1>2, <1>4, Held DEF Shape
<1>7. JobsBy(u, -1) /\ job' \in [Evals -> Jobs]
  <2>1. PICK x : x = Idle
    OBVIOUS
  <2>2. JobPut(t, x)
    BY <1>2, <2>1 DEF JobPut
  <2>3. JobTold(t, x)
    BY <1>1, <2>2, JobMoves DEF Shape
  <2>4. ASSUME NEW v \in Ups
        PROVE  OfJobs(v)' = OfJobs(v) + (IF v = u THEN -1 ELSE 0)
    <3>1. /\ OfJobs(v)' + (IF v = u THEN 1 ELSE 0) = OfJobs(v) + 0
          /\ OfJobs(v) \in Nat /\ OfJobs(v)' \in Nat
      BY <1>2, <1>4, <2>1, <2>3 DEF JobTold
    <3> QED
      BY <3>1
  <2> QED
    BY <1>1, <1>2, <2>4 DEF JobsBy, Shape, QueueShape, Jobs
<1>8. QueueShape'
  BY <1>1, <1>2, <1>7 DEF Shape, QueueShape
<1>9. ConShape' /\ CallShape' /\ EndShape'
  BY <1>1, <1>2, SameShape
<1>10. /\ PubsBy(u, 0) /\ LoopsBy(u, 0) /\ ReqsBy(u, 0) /\ CallsBy(u, 0)
       /\ ConBy(u, 0) \/ opened' # opened
  BY <1>1, <1>2, <1>5, Untouched DEF Shape
<1>11. CASE Return(t)
  <2>1. Release(u, 0)
    BY <1>4, <1>11 DEF Return
  <2>2. Released(u, 0)
    BY <1>1, <2>1, ReleaseStep DEF Shape
  <2>3. opened' = opened /\ \A v \in Ups : up'[v].pending = up[v].pending
    BY <2>2 DEF Released
  <2>4. Unopened' /\ Honest'
    <3>1. Unopened'
      BY <1>1, <1>5, <2>3 DEF Unopened
    <3> QED
      BY <1>1, <1>2, <1>5, <2>3, <3>1, HonestStays DEF Shape
  <2>5. Moves(u, 0, 0, 0, 0, -1, 0, 0 - 1)
    BY <1>7, <1>10, <2>2 DEF Moves, Released
  <2>6. Kept
    BY <1>1, <1>6, <2>5, Settled DEF Shape
  <2> QED
    BY <1>8, <1>9, <2>2, <2>4, <2>6 DEF Good, Shape, Released
<1>12. CASE Raise(t)
  <2>1. "raise" \in Faults /\ UNCHANGED <<up, list, opened>>
    BY <1>12 DEF Raise, upVars
  <2>2. UpShape'
    BY <1>1, <2>1, SameShape DEF upVars
  <2>3. Unopened' /\ Honest'
    <3>1. Unopened'
      BY <1>1, <1>5, <2>1 DEF Unopened
    <3> QED
      BY <1>1, <1>2, <1>5, <2>1, <3>1, HonestStays DEF Shape
  <2>4. Moves(u, 0, 0, 0, 0, -1, 0, 0)
    <3>1. RefBy(u, 0) /\ LivesOn(u)
      BY <1>1, <2>1, Untouched DEF Shape
    <3> QED
      BY <1>7, <1>10, <2>1, <3>1 DEF Moves
  <2>5. Kept
    BY <1>1, <1>6, <2>1, <2>4, Settled DEF Shape, Slack
  <2> QED
    BY <1>8, <1>9, <2>2, <2>3, <2>5 DEF Good, Shape
<1> QED
  BY <1>11, <1>12

-----------------------------------------------------------------------------
(* The invariant *)

LEMMA InitInv ==
  ASSUME Init
  PROVE  Inv /\ RefsExact
<1>1. \A S : <<>> \in Seq(S)
  OBVIOUS
<1>2. ConShape
  <2>1. /\ con = [u \in Ups |-> "open"] /\ bound = [u \in Ups |-> FALSE]
        /\ out = [u \in Ups |-> <<[kind |-> "wait"]>>]
        /\ wire = [u \in Ups |-> <<>>] /\ reads = [u \in Ups |-> 0]
    BY DEF Init
  <2>2. [kind |-> "wait"] \in Responses
    BY DEF Responses
  <2>3. PICK x \in Responses : x = [kind |-> "wait"]
    BY <2>2
  <2>4. <<x>> \in Seq(Responses)
    BY SingleRange
  <2>5. out \in [Ups -> Seq(Responses)]
    BY <2>1, <2>3, <2>4
  <2>6. wire \in [Ups -> Seq(1..MaxCalls)]
    BY <1>1, <2>1
  <2>7. reads \in [Ups -> 0..MaxReads]
    BY <2>1, UpgradedAssumption
  <2> QED
    BY <2>1, <2>5, <2>6, <2>7 DEF ConShape, States
<1>3. UpShape
  <2>1. list = <<>> /\ opened = {}
        /\ up = [u \in Ups |-> [ref |-> 0, pending |-> 0, subscribed |-> FALSE]]
    BY DEF Init
  <2> QED
    BY <1>1, <2>1, EmptyRange DEF UpShape, Records
<1>4. QueueShape
  BY <1>1 DEF Init, QueueShape, Visits, Jobs
<1>5. Cardinality({}) = 0
  BY FS_EmptySet
<1>6. CallShape /\ EndShape
  <2>1. call = [k \in Callers |-> Idle] /\ answer = [k \in Callers |-> FALSE]
        /\ log = <<>>
    BY DEF Init
  <2>2. Busy = {}
    BY <2>1 DEF Busy
  <2>3. CallShape
    BY <1>1, <1>5, <2>1, <2>2, UpgradedAssumption DEF CallShape, Calls
  <2> QED
    BY <2>3 DEF EndShape, Init
<1>7. Unopened
  BY DEF Init, Unopened
<1>8. Honest
  BY DEF Init, Honest
<1>9. ASSUME NEW u \in Ups PROVE Holders(u) = 0
  <2>1. OfCon(u) = 0
    BY DEF Init, OfCon
  <2>2. OfPubs(u) = 0
    <3>1. Located(pubs, u)
      BY <1>4, PlacesDef DEF QueueShape
    <3>2. Places(pubs, u) = {}
      <4>1. ASSUME NEW x \in Places(pubs, u) PROVE FALSE
        <5>1. x[1] \in Loops /\ x[2] \in 1..Len(pubs[x[1]])
          BY <3>1 DEF Located
        <5>2. pubs[x[1]] = <<>>
          BY <5>1 DEF Init
        <5> QED
          BY <5>1, <5>2
      <4> QED
        BY <4>1
    <3> QED
      BY <1>5, <3>2, CountsDef
  <2>3. OfLoops(u) = 0
    <3>1. {l \in Loops : at[l].at = "seen" /\ at[l].up = u} = {}
      BY DEF Init, Idle
    <3> QED
      BY <1>5, <3>1 DEF OfLoops
  <2>4. OfReqs(u) = 0
    <3>1. Marked(reqs, u) = {}
      BY DEF Init, Marked
    <3> QED
      BY <1>5, <3>1, CountsDef
  <2>5. OfJobs(u) = 0
    <3>1. {t \in Evals : job[t] # Idle /\ job[t].up = u} = {}
      BY DEF Init
    <3> QED
      BY <1>5, <3>1 DEF OfJobs
  <2>6. OfCalls(u) = 0
    <3>1. {k \in Callers : call[k] # Idle /\ call[k].up = u} = {}
      BY DEF Init
    <3> QED
      BY <1>5, <3>1 DEF OfCalls
  <2> QED
    BY <2>1, <2>2, <2>3, <2>4, <2>5, <2>6 DEF Holders
<1>10. Covered
  <2>1. \A u \in Ups : up[u].ref = 0
    BY DEF Init
  <2> QED
    BY <1>9, <2>1 DEF Covered
<1>11. RefsExact
  <2>1. Live = {}
    BY DEF Init, Live
  <2> QED
    BY <2>1 DEF RefsExact
<1> QED
  BY <1>2, <1>3, <1>4, <1>6, <1>7, <1>8, <1>10, <1>11 DEF Inv, Shape

LEMMA InvStep ==
  ASSUME Inv, [Next]_vars
  PROVE  Good
<1>1. CASE UNCHANGED vars
  <2>1. UNCHANGED <<conVars, upVars, pubs, at, reqs, job, callVars, closes, fault>>
    BY <1>1 DEF vars
  <2>2. UNCHANGED <<con, bound, out>>
    BY <2>1 DEF conVars
  <2>3. Shape
    BY DEF Inv
  <2>4. ConShape' /\ EndShape' /\ QueueShape'
    BY <2>1, <2>3, SameShape DEF Shape, QueueShape
  <2>5. LoopsBy(NULL, 0)
    BY <2>1, <2>3, Untouched DEF Shape
  <2> QED
    BY <2>1, <2>2, <2>4, <2>5, OutStep
<1>2. ASSUME NEW u \in Ups, Create(u) \/ Accept(u) \/ ConStep(u) \/ Event(u)
      PROVE  Good
  <2>1. \/ Create(u) \/ Accept(u) \/ Write(u) \/ Frame(u)
        \/ Hangup(u) \/ CheckDead(u) \/ WriteClose(u) \/ WriteError(u)
        \/ \E kind \in {"ping", "pong"} : Beat(u, kind)
    BY <1>2 DEF ConStep, Event
  <2> QED
    BY <2>1, CreateStep, AcceptStep, WriteStep, FrameStep, DeadStep, BeatStep
<1>3. ASSUME NEW k \in Callers,
             \/ CallStep(k) \/ WriteRaises(k) \/ Broadcast(k)
             \/ \E u \in Ups, op \in Ops : Get(k, u, op)
      PROVE  Good
  BY <1>3, ActStep, AskStep, ForgetStep, BroadcastStep, GetStep DEF CallStep
<1>4. ASSUME NEW l \in Loops, LoopStep(l) PROVE Good
  BY <1>4, OwnStep, ForeignStep, SeenStep, GoneStep, WalkStep, VisitStep DEF LoopStep
<1>5. ASSUME NEW t \in Evals, Take(t) \/ Return(t) \/ Raise(t) PROVE Good
  BY <1>5, TakeStep, ReturnStep
<1>6. CASE Next
  BY <1>2, <1>3, <1>4, <1>5, <1>6 DEF Next
<1> QED
  BY <1>1, <1>6

LEMMA InvAlways == Spec => []Inv
<1>1. Init => Inv
  BY InitInv
<1>2. Inv /\ [Next]_vars => Inv'
  BY InvStep DEF Good, Kept, Inv
<1> QED
  BY <1>1, <1>2, PTL DEF Spec

-----------------------------------------------------------------------------
(* The theorems *)

\* No count of references goes below zero, also where a question lets go of a
\* reference past agoo_upgraded_release, and the list has only records that
\* were made, for any numbers of connections, loops, threads and calls
\* (upgraded.c:38-55, rupgraded.c, process_pub_con).
THEOREM TypeCorrect == Spec => []TypeOK
<1>1. Inv => TypeOK
  <2>1. SUFFICES ASSUME Inv PROVE TypeOK
    OBVIOUS
  <2>2. ConShape /\ UpShape /\ QueueShape /\ CallShape /\ EndShape /\ Covered
    BY <2>1 DEF Inv, Shape
  <2>3. up \in [Ups -> [ref : Nat, pending : Int, subscribed : BOOLEAN]]
    <3>1. ASSUME NEW u \in Ups PROVE up[u] \in [ref : Nat, pending : Int, subscribed : BOOLEAN]
      <4>1. Holders(u) \in Nat
        <5>1. /\ OfCon(u) \in {0, 1} /\ OfPubs(u) \in Nat /\ OfLoops(u) \in Nat
              /\ OfReqs(u) \in Nat /\ OfJobs(u) \in Nat /\ OfCalls(u) \in Nat
          BY <2>2, CountsNat
        <5> QED
          BY <5>1 DEF Holders
      <4>2. Holders(u) <= up[u].ref /\ up[u] \in Records
        BY <2>2 DEF Covered, UpShape
      <4> QED
        BY <4>1, <4>2 DEF Records
    <3> QED
      BY <2>2, <3>1 DEF UpShape
  <2>4. ASSUME NEW u \in Ups, NEW i \in DOMAIN out[u]
        PROVE  out[u][i].kind \in {"wait", "accept", "text", "close", "ping", "pong"}
    <3>1. out[u] \in Seq(Responses)
      BY <2>2 DEF ConShape
    <3>2. out[u][i] \in Responses
      BY <3>1, LenProperties, ElementOfSeq
    <3> QED
      BY <3>2 DEF Responses
  <2>5. pubs \in [Loops -> Seq(Pub)]
    <3>1. Entries \subseteq Pub
      BY DEF Entries
    <3>2. Seq(Entries) \subseteq Seq(Pub)
      BY <3>1, SeqMonotonic
    <3> QED
      BY <2>2, <3>2 DEF QueueShape
  <2>6. ASSUME NEW i \in DOMAIN reqs PROVE reqs[i].up \in Ups
    <3>1. reqs[i] \in Requests
      BY <2>2, LenProperties, ElementOfSeq DEF QueueShape
    <3> QED
      BY <3>1 DEF Requests
  <2>7. Live \subseteq opened /\ opened \subseteq Ups
    BY <2>2, LiveRange DEF UpShape
  <2>8. /\ \A l \in Loops : at[l] # Idle => at[l].up \in Ups
        /\ \A t \in Evals : job[t] # Idle => job[t].up \in Ups
        /\ \A k \in Callers : call[k] # Idle => call[k].up \in Ups
    BY <2>2 DEF QueueShape, CallShape, Visits, Jobs, Calls
  <2> QED
    BY <2>2, <2>3, <2>4, <2>5, <2>6, <2>7, <2>8
       DEF TypeOK, ConShape, CallShape, EndShape, States
<1> QED
  BY <1>1, InvAlways, PTL

\* The count of a record covers all who hold the record, and the record is not
\* freed under them: for every mix of calls, callbacks that return or raise,
\* publications served by the own or by another loop, and connections that end
\* (upgraded.c:38-55, process_pub_con, handle_push_inner, agoo_con_destroy).
THEOREM RefsCovered == Spec => []RefsCover
<1>1. Inv => RefsCover
  <2>1. SUFFICES ASSUME Inv, NEW u \in Ups, Holders(u) > 0
                 PROVE  u \in Live /\ up[u].ref >= Holders(u)
    BY DEF RefsCover
  <2>2. UpShape /\ QueueShape /\ Covered
    BY <2>1 DEF Inv, Shape
  <2>3. /\ OfCon(u) \in {0, 1} /\ OfPubs(u) \in Nat /\ OfLoops(u) \in Nat
        /\ OfReqs(u) \in Nat /\ OfJobs(u) \in Nat /\ OfCalls(u) \in Nat
    BY <2>2, CountsNat
  <2>4. Holders(u) \in Nat
    BY <2>3 DEF Holders
  <2> QED
    BY <2>1, <2>2, <2>4 DEF Covered, UpShape, Records
<1> QED
  BY <1>1, InvAlways, PTL

\* pending counts no more than what is queued for the loop of a connection, so
\* write() refuses a message only where as many are on their way
\* (upgraded.c:120, con.c:1042).
THEOREM PendingCorrect == Spec => []PendingHonest
<1>1. Inv => PendingHonest
  BY LiveRange DEF Inv, Shape, UpShape, Honest, PendingHonest
<1> QED
  BY <1>1, InvAlways, PTL

\* Where no callback raises, nor the to_s of what is written, every handler has
\* on_message and none calls env, the count is the number of those who hold the
\* record, in every state before a loop has used what is gone: no reference
\* stays behind (upgraded.c:38-55, rupgraded.c:66-88, 287-294,
\* handle_push_inner).
THEOREM CountsExact ==
  ASSUME "raise" \notin Faults, "on_message" \in Hooks, "env" \notin Ops
  PROVE  Spec => [](NothingWild => RefsExact)
<1> DEFINE Exact == Inv /\ (NothingWild => RefsExact)
<1>1. Init => Exact
  BY InitInv
<1>2. Exact /\ [Next]_vars => Exact'
  <2>1. SUFFICES ASSUME Exact, [Next]_vars PROVE Exact'
    OBVIOUS
  <2>2. Good
    BY <2>1, InvStep
  <2>3. Inv' /\ (RefsExact => RefsExact' \/ fault' \/ Slack) /\ ~Slack
    BY <2>2 DEF Good, Kept, Inv, Slack
  <2>4. CASE Next
    <3>1. RefsExact
      BY <2>1, <2>4 DEF Next, NothingWild
    <3> QED
      BY <2>3, <3>1 DEF NothingWild
  <2>5. CASE UNCHANGED vars
    <3>1. fault' = fault
      BY <2>5 DEF vars
    <3> QED
      BY <2>1, <2>3, <3>1 DEF NothingWild
  <2> QED
    BY <2>1, <2>4, <2>5
<1> QED
  BY <1>1, <1>2, PTL DEF Spec
=============================================================================
