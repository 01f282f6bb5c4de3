------------------------------ MODULE SeqFacts ------------------------------
(***************************************************************************)
(* What the proofs need of sequences beyond the library: which values a    *)
(* sequence holds, whether it holds each once, and how that fares when it  *)
(* is appended to, joined, cut and taken from.                             *)
(***************************************************************************)
EXTENDS SequenceTheorems, WellFoundedInduction, TLAPS

\* A set of numbers that is not empty has a least element.
LEMMA LeastNumber ==
  ASSUME NEW T \in SUBSET Nat, T # {}
  PROVE  \E k \in T : \A i \in T : k <= i
<1>1. PICK k \in T : \A i \in T : <<i, k>> \notin OpToRel(<, Nat)
  BY NatLessThanWellFounded, WFMin
<1>2. \A i \in T : ~(i < k)
  BY <1>1 DEF OpToRel
<1> QED
  BY <1>2

\* A sequence holds what is at its places.
LEMMA RangeDef ==
  ASSUME NEW S, NEW s \in Seq(S)
  PROVE  /\ Range(s) \subseteq S
         /\ \A i \in 1..Len(s) : s[i] \in Range(s)
         /\ \A x \in Range(s) : \E i \in 1..Len(s) : x = s[i]
BY LenProperties, ElementOfSeq DEF Range

\* It holds each value once if different places hold different values.
LEMMA OnceDef ==
  ASSUME NEW S, NEW s \in Seq(S)
  PROVE  IsInjective(s) <=>
            \A i, k \in 1..Len(s) : s[i] = s[k] => i = k
BY LenProperties DEF IsInjective

LEMMA EmptyRange == Range(<<>>) = {} /\ IsInjective(<<>>)
BY DEF Range, IsInjective

LEMMA SingleRange ==
  ASSUME NEW S, NEW r \in S
  PROVE  /\ <<r>> \in Seq(S) /\ Len(<<r>>) = 1 /\ <<r>>[1] = r
         /\ Range(<<r>>) = {r} /\ IsInjective(<<r>>)
<1>1. PICK u : u = <<r>>
  OBVIOUS
<1>2. u \in Seq(S) /\ Len(u) = 1 /\ u[1] = r
  BY <1>1
<1>3. Range(u) = {r}
  BY <1>2, RangeDef
<1>4. IsInjective(u)
  BY <1>2, OnceDef
<1> QED
  BY <1>1, <1>2, <1>3, <1>4

LEMMA AppendRange ==
  ASSUME NEW S, NEW s \in Seq(S), NEW r \in S
  PROVE  /\ Range(Append(s, r)) = Range(s) \cup {r}
         /\ IsInjective(s) /\ r \notin Range(s) => IsInjective(Append(s, r))
<1>1. PICK u : u = Append(s, r)
  OBVIOUS
<1>2. /\ u \in Seq(S) /\ Len(u) = Len(s) + 1 /\ Len(s) \in Nat
      /\ \A i \in 1..Len(s) : u[i] = s[i]
      /\ u[Len(s) + 1] = r
  BY <1>1, AppendProperties, LenProperties
<1>3. Range(u) = Range(s) \cup {r}
  <2>1. /\ \A i \in 1..Len(u) : u[i] \in Range(u)
        /\ \A x \in Range(u) : \E i \in 1..Len(u) : x = u[i]
    BY <1>2, RangeDef
  <2>2. /\ \A i \in 1..Len(s) : s[i] \in Range(s)
        /\ \A x \in Range(s) : \E i \in 1..Len(s) : x = s[i]
    BY RangeDef
  <2>3. \A x \in Range(u) : x \in Range(s) \cup {r}
    BY <1>2, <2>1, <2>2
  <2>4. \A x \in Range(s) \cup {r} : x \in Range(u)
    BY <1>2, <2>1, <2>2
  <2> QED
    BY <2>3, <2>4
<1>4. ASSUME IsInjective(s), r \notin Range(s) PROVE IsInjective(u)
  <2>1. /\ \A i, k \in 1..Len(s) : s[i] = s[k] => i = k
        /\ \A i \in 1..Len(s) : s[i] # r
    BY <1>4, OnceDef, RangeDef
  <2>2. \A i, k \in 1..Len(u) : u[i] = u[k] => i = k
    BY <1>2, <2>1
  <2> QED
    BY <1>2, <2>2, OnceDef
<1> QED
  BY <1>1, <1>3, <1>4

LEMMA ConcatRange ==
  ASSUME NEW S, NEW s \in Seq(S), NEW t \in Seq(S)
  PROVE  /\ Range(s \o t) = Range(s) \cup Range(t)
         /\ /\ IsInjective(s) /\ IsInjective(t)
            /\ Range(s) \cap Range(t) = {}
            => IsInjective(s \o t)
<1>1. PICK u : u = s \o t
  OBVIOUS
<1>2. /\ u \in Seq(S) /\ Len(u) = Len(s) + Len(t)
      /\ Len(s) \in Nat /\ Len(t) \in Nat
      /\ \A i \in 1..(Len(s) + Len(t)) :
            u[i] = IF i <= Len(s) THEN s[i] ELSE t[i - Len(s)]
  BY <1>1, ConcatProperties, LenProperties
<1>3. ASSUME IsInjective(s), IsInjective(t), Range(s) \cap Range(t) = {}
      PROVE  IsInjective(u)
  <2>1. /\ \A m, n \in 1..Len(s) : s[m] = s[n] => m = n
        /\ \A m, n \in 1..Len(t) : t[m] = t[n] => m = n
    BY <1>3, OnceDef
  <2>2. \A m \in 1..Len(s), n \in 1..Len(t) : s[m] # t[n]
    <3>1. /\ \A m \in 1..Len(s) : s[m] \in Range(s)
          /\ \A n \in 1..Len(t) : t[n] \in Range(t)
      BY RangeDef
    <3> QED
      BY <1>3, <3>1
  <2>3. ASSUME NEW i \in 1..Len(u), NEW k \in 1..Len(u), u[i] = u[k]
        PROVE  i = k
    BY <1>2, <2>1, <2>2, <2>3
  <2> QED
    BY <1>2, <2>3, OnceDef
<1>4. Range(u) = Range(s) \cup Range(t)
  BY <1>1, RangeConcatenation
<1> QED
  BY <1>1, <1>3, <1>4

LEMMA PartRange ==
  ASSUME NEW S, NEW s \in Seq(S), NEW m \in 1..(Len(s) + 1),
         NEW n \in 0..Len(s)
  PROVE  /\ SubSeq(s, m, n) \in Seq(S)
         /\ Len(SubSeq(s, m, n)) = IF m <= n THEN n - m + 1 ELSE 0
         /\ \A i \in 1..Len(SubSeq(s, m, n)) :
               SubSeq(s, m, n)[i] = s[m + i - 1]
         /\ Range(SubSeq(s, m, n)) \subseteq Range(s)
         /\ IsInjective(s) => IsInjective(SubSeq(s, m, n))
<1>1. PICK u : u = SubSeq(s, m, n)
  OBVIOUS
<1>2. Len(s) \in Nat /\ \A i \in m..n : s[i] \in S
  BY LenProperties, ElementOfSeq
<1>3. /\ u \in Seq(S)
      /\ Len(u) = IF m <= n THEN n - m + 1 ELSE 0
      /\ \A i \in 1..(n - m + 1) : u[i] = s[m + i - 1]
  BY <1>1, <1>2, SubSeqProperties
<1>4. \A i \in 1..Len(u) : u[i] = s[m + i - 1] /\ m + i - 1 \in 1..Len(s)
  BY <1>2, <1>3
<1>5. Range(u) \subseteq Range(s)
  <2>1. \A x \in Range(u) : \E i \in 1..Len(u) : x = u[i]
    BY <1>3, RangeDef
  <2>2. \A i \in 1..Len(s) : s[i] \in Range(s)
    BY RangeDef
  <2> QED
    BY <1>4, <2>1, <2>2
<1>6. ASSUME IsInjective(s) PROVE IsInjective(u)
  <2>1. \A i, k \in 1..Len(s) : s[i] = s[k] => i = k
    BY <1>6, OnceDef
  <2>2. ASSUME NEW i \in 1..Len(u), NEW k \in 1..Len(u), u[i] = u[k]
        PROVE  i = k
    <3>1. s[m + i - 1] = s[m + k - 1]
      BY <1>4, <2>2
    <3>2. m + i - 1 \in 1..Len(s) /\ m + k - 1 \in 1..Len(s)
      BY <1>4
    <3>3. m + i - 1 = m + k - 1
      BY <2>1, <3>1, <3>2
    <3> QED
      BY <1>2, <1>3, <3>3
  <2> QED
    BY <1>3, <2>2, OnceDef
<1> QED
  BY <1>1, <1>3, <1>4, <1>5, <1>6

\* A sequence cut in two.
LEMMA CutRange ==
  ASSUME NEW S, NEW s \in Seq(S), NEW k \in 0..Len(s)
  PROVE  /\ SubSeq(s, 1, k) \in Seq(S)
         /\ SubSeq(s, k + 1, Len(s)) \in Seq(S)
         /\ Len(SubSeq(s, k + 1, Len(s))) = Len(s) - k
         /\ \A i \in 1..(Len(s) - k) : SubSeq(s, k + 1, Len(s))[i] = s[k + i]
         /\ Range(SubSeq(s, 1, k)) \cup Range(SubSeq(s, k + 1, Len(s)))
              = Range(s)
         /\ IsInjective(s) =>
              /\ IsInjective(SubSeq(s, 1, k))
              /\ IsInjective(SubSeq(s, k + 1, Len(s)))
              /\ Range(SubSeq(s, 1, k)) \cap Range(SubSeq(s, k + 1, Len(s)))
                   = {}
<1>1. PICK a, b : a = SubSeq(s, 1, k) /\ b = SubSeq(s, k + 1, Len(s))
  OBVIOUS
<1>2. Len(s) \in Nat
  BY LenProperties
<1>3. /\ a \in Seq(S) /\ Len(a) = k
      /\ \A i \in 1..k : a[i] = s[i]
      /\ Range(a) \subseteq Range(s)
      /\ IsInjective(s) => IsInjective(a)
  BY <1>1, <1>2, PartRange
<1>4. /\ b \in Seq(S) /\ Len(b) = Len(s) - k
      /\ \A i \in 1..(Len(s) - k) : b[i] = s[k + i]
      /\ Range(b) \subseteq Range(s)
      /\ IsInjective(s) => IsInjective(b)
  BY <1>1, <1>2, PartRange
<1>5. ASSUME NEW x \in Range(s) PROVE x \in Range(a) \cup Range(b)
  <2>1. PICK i \in 1..Len(s) : x = s[i]
    BY RangeDef
  <2>2. CASE i <= k
    BY <1>2, <1>3, <2>1, <2>2, RangeDef
  <2>3. CASE i > k
    <3>1. i - k \in 1..(Len(s) - k) /\ b[i - k] = s[i]
      BY <1>2, <1>4, <2>3
    <3>2. b[i - k] \in Range(b)
      BY <1>4, <3>1, RangeDef
    <3> QED
      BY <2>1, <3>1, <3>2
  <2> QED
    BY <1>2, <2>2, <2>3
<1>6. ASSUME IsInjective(s), NEW x \in Range(a), x \in Range(b)
      PROVE  FALSE
  <2>1. PICK i \in 1..k : x = a[i]
    BY <1>3, RangeDef
  <2>2. PICK n \in 1..(Len(s) - k) : x = b[n]
    BY <1>4, <1>6, RangeDef
  <2>3. s[i] = s[k + n]
    BY <1>3, <1>4, <2>1, <2>2
  <2>4. i \in 1..Len(s) /\ k + n \in 1..Len(s)
    BY <1>2
  <2>5. i = k + n
    BY <1>6, <2>3, <2>4, OnceDef
  <2> QED
    BY <1>2, <2>5
<1> QED
  BY <1>1, <1>3, <1>4, <1>5, <1>6

\* The head of a sequence is taken off.
LEMMA TailRange ==
  ASSUME NEW S, NEW s \in Seq(S), s # <<>>
  PROVE  /\ Len(s) \in Nat \ {0} /\ Head(s) = s[1] /\ Head(s) \in S
         /\ Tail(s) \in Seq(S) /\ Len(Tail(s)) = Len(s) - 1
         /\ \A i \in 1..Len(Tail(s)) : Tail(s)[i] = s[i + 1]
         /\ Range(s) = {Head(s)} \cup Range(Tail(s))
         /\ IsInjective(s) => /\ IsInjective(Tail(s))
                              /\ Head(s) \notin Range(Tail(s))
<1>1. PICK h, t : h = Head(s) /\ t = Tail(s)
  OBVIOUS
<1>2. /\ Len(s) \in Nat \ {0} /\ h = s[1] /\ h \in S
      /\ t \in Seq(S) /\ Len(t) = Len(s) - 1
      /\ \A i \in 1..Len(t) : t[i] = s[i + 1]
  BY <1>1, HeadTailProperties, EmptySeq
<1>3. /\ \A i \in 1..Len(s) : s[i] \in Range(s)
      /\ \A x \in Range(s) : \E i \in 1..Len(s) : x = s[i]
  BY RangeDef
<1>4. /\ \A i \in 1..Len(t) : t[i] \in Range(t)
      /\ \A x \in Range(t) : \E i \in 1..Len(t) : x = t[i]
  BY <1>2, RangeDef
<1>5. ASSUME NEW x \in Range(s) PROVE x = h \/ x \in Range(t)
  <2>1. PICK i \in 1..Len(s) : x = s[i]
    BY <1>3
  <2>2. CASE i = 1
    BY <1>2, <2>1, <2>2
  <2>3. CASE i # 1
    <3>1. i - 1 \in 1..Len(t) /\ t[i - 1] = s[i]
      BY <1>2, <2>3
    <3> QED
      BY <1>4, <2>1, <3>1
  <2> QED
    BY <2>2, <2>3
<1>6. /\ h \in Range(s)
      /\ \A x \in Range(t) : x \in Range(s)
  <2>1. h \in Range(s)
    BY <1>2, <1>3
  <2>2. \A i \in 1..Len(t) : i + 1 \in 1..Len(s) /\ t[i] = s[i + 1]
    BY <1>2
  <2> QED
    BY <1>3, <1>4, <2>1, <2>2
<1>7. ASSUME IsInjective(s)
      PROVE  IsInjective(t) /\ h \notin Range(t)
  <2>1. \A i, k \in 1..Len(s) : s[i] = s[k] => i = k
    BY <1>7, OnceDef
  <2>2. \A i, k \in 1..Len(t) : t[i] = t[k] => i = k
    BY <1>2, <2>1
  <2>3. \A i \in 1..Len(t) : t[i] # h
    BY <1>2, <2>1
  <2> QED
    BY <1>2, <1>4, <2>2, <2>3, OnceDef
<1> QED
  BY <1>1, <1>2, <1>5, <1>6, <1>7
=============================================================================
