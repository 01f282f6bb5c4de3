------------------------------ MODULE LogProofs ------------------------------
(***************************************************************************)
(* Proofs about Log, for any set of writers, any size of the ring and of   *)
(* the files, and any number of archived files.                            *)
(*                                                                         *)
(* The files are pieces of what was logged (Cuts): the lemmas about pieces *)
(* say how an entry goes from one to the next, the lemmas about cuts what  *)
(* logging, writing, rotating and removing do to them, and the step of     *)
(* each conjunct of the inductive invariant IInv uses them.                *)
(*                                                                         *)
(* A predicate such as IsFlushed gathers what a lemma says, so that a      *)
(* proof can first name the instance it needs and then expand it.          *)
(***************************************************************************)
EXTENDS Log, SeqFacts

-----------------------------------------------------------------------------
(* Pieces of a sequence *)

\* A sequence is a piece of another one if it has its elements.
LEMMA Piece ==
  ASSUME NEW E, NEW t \in Seq(E), NEW a \in Nat, NEW b \in Nat, a <= b, b <= Len(t),
         NEW s \in Seq(E)
  PROVE  s = SubSeq(t, a + 1, b) <=>
            Len(s) = b - a /\ \A j \in 1..Len(s) : s[j] = t[a + j]
<1>1. PICK u : u = SubSeq(t, a + 1, b)
  OBVIOUS
<1>2. \A i \in (a + 1)..b : t[i] \in E
  BY LenProperties
<1>3. /\ u \in Seq(E)
      /\ Len(u) = IF a + 1 <= b THEN b - (a + 1) + 1 ELSE 0
      /\ \A i \in 1..(b - (a + 1) + 1) : u[i] = t[a + 1 + i - 1]
  BY <1>1, <1>2, SubSeqProperties
<1>4. Len(u) = b - a /\ \A i \in 1..(b - a) : u[i] = t[a + i]
  BY <1>3, LenProperties
<1>5. ASSUME Len(s) = b - a, \A j \in 1..Len(s) : s[j] = t[a + j] PROVE s = u
  BY <1>3, <1>4, <1>5, SeqEqual
<1> QED
  BY <1>1, <1>4, <1>5

\* Its length is that of its place.
LEMMA PieceLen ==
  ASSUME NEW E
  PROVE  \A t, s \in Seq(E) : \A a, b \in Nat :
            a <= b /\ b <= Len(t) /\ s = SubSeq(t, a + 1, b) => Len(s) = b - a
<1> SUFFICES ASSUME NEW t \in Seq(E), NEW s \in Seq(E), NEW a \in Nat, NEW b \in Nat,
                    a <= b, b <= Len(t)
             PROVE  s = SubSeq(t, a + 1, b) => Len(s) = b - a
  OBVIOUS
<1> QED
  BY Piece

\* A piece is not disturbed by what is appended to the whole.
LEMMA PieceKept ==
  ASSUME NEW E, NEW t \in Seq(E), NEW x \in E,
         NEW a \in Nat, NEW b \in Nat, a <= b, b <= Len(t)
  PROVE  SubSeq(Append(t, x), a + 1, b) = SubSeq(t, a + 1, b)
<1>1. PICK u : u = Append(t, x)
  OBVIOUS
<1>2. PICK s : s = SubSeq(t, a + 1, b)
  OBVIOUS
<1>3. /\ u \in Seq(E) /\ Len(u) = Len(t) + 1 /\ Len(t) \in Nat
      /\ \A i \in 1..Len(t) : u[i] = t[i]
  BY <1>1, AppendProperties, LenProperties
<1>4. s \in Seq(E)
  BY <1>2, LenProperties, SubSeqProperties
<1>5. Len(s) = b - a /\ \A j \in 1..Len(s) : s[j] = t[a + j]
  BY <1>2, <1>4, Piece
<1>6. \A j \in 1..Len(s) : s[j] = u[a + j]
  BY <1>3, <1>5
<1>7. s = SubSeq(u, a + 1, b)
  BY <1>3, <1>4, <1>5, <1>6, Piece
<1> QED
  BY <1>1, <1>2, <1>7

\* A piece up to the end grows with the whole.
LEMMA PieceAppended ==
  ASSUME NEW E, NEW t \in Seq(E), NEW x \in E, NEW a \in Nat, a <= Len(t),
         NEW s \in Seq(E)
  PROVE  s = SubSeq(t, a + 1, Len(t)) =>
            Append(s, x) = SubSeq(Append(t, x), a + 1, Len(t) + 1)
<1>1. PICK u : u = Append(t, x)
  OBVIOUS
<1>2. PICK v : v = Append(s, x)
  OBVIOUS
<1>3. /\ u \in Seq(E) /\ Len(u) = Len(t) + 1 /\ Len(t) \in Nat
      /\ (\A i \in 1..Len(t) : u[i] = t[i]) /\ u[Len(t) + 1] = x
  BY <1>1, AppendProperties, LenProperties
<1>4. /\ v \in Seq(E) /\ Len(v) = Len(s) + 1 /\ Len(s) \in Nat
      /\ (\A i \in 1..Len(s) : v[i] = s[i]) /\ v[Len(s) + 1] = x
  BY <1>2, AppendProperties, LenProperties
<1>5. ASSUME s = SubSeq(t, a + 1, Len(t))
      PROVE  Len(s) = Len(t) - a /\ \A j \in 1..Len(s) : s[j] = t[a + j]
  BY <1>3, <1>5, Piece
<1>6. ASSUME Len(s) = Len(t) - a, \A j \in 1..Len(s) : s[j] = t[a + j]
      PROVE  Len(v) = Len(t) + 1 - a /\ \A j \in 1..Len(v) : v[j] = u[a + j]
  BY <1>3, <1>4, <1>6
<1>7. ASSUME Len(v) = Len(t) + 1 - a, \A j \in 1..Len(v) : v[j] = u[a + j]
      PROVE  v = SubSeq(u, a + 1, Len(t) + 1)
  <2>1. PICK b \in Nat : b = Len(t) + 1
    BY <1>3
  <2>2. a <= b /\ b <= Len(u) /\ Len(v) = b - a
    BY <1>3, <1>7, <2>1
  <2>3. u \in Seq(E) /\ v \in Seq(E)
    BY <1>3, <1>4
  <2>4. v = SubSeq(u, a + 1, b) <=>
            Len(v) = b - a /\ \A j \in 1..Len(v) : v[j] = u[a + j]
    BY <2>2, <2>3, Piece
  <2>5. v = SubSeq(u, a + 1, b)
    BY <1>7, <2>2, <2>4
  <2> QED
    BY <2>1, <2>5
<1> QED
  BY <1>1, <1>2, <1>5, <1>6, <1>7

\* The first element o of a piece up to the end can go to the piece s before it.
Moves(t, a, b, s, o, r) ==
    s = SubSeq(t, a + 1, b) /\ o \o r = SubSeq(t, b + 1, Len(t)) =>
       /\ b + 1 <= Len(t)
       /\ s \o o = SubSeq(t, a + 1, b + 1)
       /\ r = SubSeq(t, b + 1 + 1, Len(t))

LEMMA PieceMoves ==
  ASSUME NEW E, NEW t \in Seq(E), NEW a \in Nat, NEW b \in Nat, a <= b, b <= Len(t),
         NEW s \in Seq(E), NEW o \in Seq(E), NEW r \in Seq(E), Len(o) = 1
  PROVE  Moves(t, a, b, s, o, r)
<1>1. PICK x : x = o[1]
  OBVIOUS
<1>2. PICK u : u = o \o r
  OBVIOUS
<1>3. PICK v : v = s \o o
  OBVIOUS
<1>4. /\ o \in Seq(E) /\ Len(o) = 1 /\ o[1] = x
      /\ Len(t) \in Nat /\ Len(r) \in Nat /\ Len(s) \in Nat
  BY <1>1, LenProperties
<1>5. /\ u \in Seq(E) /\ Len(u) = 1 + Len(r)
      /\ \A i \in 1..(1 + Len(r)) : u[i] = IF i <= 1 THEN o[i] ELSE r[i - 1]
  <2>1. /\ u \in Seq(E) /\ Len(u) = Len(o) + Len(r)
        /\ \A i \in 1..(Len(o) + Len(r)) :
              u[i] = IF i <= Len(o) THEN o[i] ELSE r[i - Len(o)]
    BY <1>2, <1>4, ConcatProperties
  <2> QED
    BY <1>4, <2>1
<1>6. /\ v \in Seq(E) /\ Len(v) = Len(s) + 1
      /\ \A i \in 1..(Len(s) + 1) : v[i] = IF i <= Len(s) THEN s[i] ELSE o[i - Len(s)]
  <2>1. /\ v \in Seq(E) /\ Len(v) = Len(s) + Len(o)
        /\ \A i \in 1..(Len(s) + Len(o)) :
              v[i] = IF i <= Len(s) THEN s[i] ELSE o[i - Len(s)]
    BY <1>3, <1>4, ConcatProperties
  <2> QED
    BY <1>4, <2>1
<1> SUFFICES ASSUME s = SubSeq(t, a + 1, b), u = SubSeq(t, b + 1, Len(t))
             PROVE  /\ b + 1 <= Len(t)
                    /\ v = SubSeq(t, a + 1, b + 1)
                    /\ r = SubSeq(t, b + 1 + 1, Len(t))
  BY <1>1, <1>2, <1>3 DEF Moves
<1>7. Len(s) = b - a /\ \A j \in 1..Len(s) : s[j] = t[a + j]
  BY Piece
<1>8. Len(u) = Len(t) - b /\ \A j \in 1..Len(u) : u[j] = t[b + j]
  BY <1>4, <1>5, Piece
<1>9. b + 1 <= Len(t) /\ x = t[b + 1]
  <2>1. PICK k \in 1..(1 + Len(r)) : k = 1
    BY <1>4
  <2>2. u[k] = x /\ u[k] = t[b + k]
    BY <1>4, <1>5, <1>8, <2>1
  <2> QED
    BY <1>4, <1>5, <1>8, <2>1, <2>2
<1>10. Len(v) = b + 1 - a /\ \A j \in 1..Len(v) : v[j] = t[a + j]
  <2>1. Len(s) = b - a /\ Len(v) = b + 1 - a /\ Len(v) = Len(s) + 1
    BY <1>6, <1>7
  <2>2. ASSUME NEW j \in 1..Len(v) PROVE v[j] = t[a + j]
    <3>1. j \in Nat /\ j \in 1..(Len(s) + 1)
      BY <1>4, <2>1
    <3>2. v[j] = IF j <= Len(s) THEN s[j] ELSE o[j - Len(s)]
      BY <1>6, <3>1
    <3>3. CASE j \in 1..Len(s)
      BY <1>4, <1>7, <3>2, <3>3
    <3>4. CASE j = Len(s) + 1
      <4>1. j - Len(s) = 1 /\ ~(j <= Len(s)) /\ a + j = b + 1
        BY <1>4, <2>1, <3>4
      <4>2. v[j] = o[1]
        BY <3>2, <4>1
      <4> QED
        BY <1>4, <1>9, <4>1, <4>2
    <3> QED
      BY <1>4, <3>1, <3>3, <3>4
  <2> QED
    BY <2>1, <2>2
<1>11. v = SubSeq(t, a + 1, b + 1)
  BY <1>6, <1>9, <1>10, Piece
<1>12. \A j \in 1..Len(r) : r[j] = u[j + 1]
  <2>1. ASSUME NEW j \in 1..Len(r) PROVE r[j] = u[j + 1]
    <3>1. PICK k \in 1..(1 + Len(r)) : k = j + 1
      BY <1>4
    <3>2. u[k] = IF k <= 1 THEN o[k] ELSE r[k - 1]
      BY <1>5
    <3>3. k - 1 = j /\ ~(k <= 1)
      BY <1>4, <3>1
    <3>4. u[k] = r[j]
      BY <3>2, <3>3
    <3> QED
      BY <3>1, <3>4
  <2> QED
    BY <2>1
<1>13. Len(r) = Len(t) - (b + 1) /\ \A j \in 1..Len(r) : r[j] = t[b + 1 + j]
  BY <1>4, <1>5, <1>8, <1>12
<1>14. r = SubSeq(t, b + 1 + 1, Len(t))
  BY <1>4, <1>9, <1>13, Piece
<1> QED
  BY <1>9, <1>11, <1>14

-----------------------------------------------------------------------------
(* The files as pieces of what was logged *)

\* The files s hold the entries of t, in order and without a gap: file i those
\* after cut[i] up to cut[i - 1], and the first r went with files that are gone.
Cuts(s, t, r, cut) ==
    /\ cut \in [0..Len(s) -> 0..Len(t)]
    /\ cut[Len(s)] = r
    /\ \A i \in 1..Len(s) :
          cut[i] <= cut[i - 1] /\ s[i] = SubSeq(t, cut[i] + 1, cut[i - 1])

\* They hold those up to the m-th.
UpTo(s, t, r, m) == \E cut \in [0..Len(s) -> 0..Len(t)] : Cuts(s, t, r, cut) /\ cut[0] = m

-----------------------------------------------------------------------------
(* The inductive invariant *)

Places == {"idle", "lock", "room", "put", "unlock"}

\* The types, without what depends on how the entries move.
Shape ==
    /\ queue \in Seq(Entries) /\ buf \in Seq(Entries) /\ logged \in Seq(Entries)
    /\ hand \in {<<>>} \cup {<<e>> : e \in Entries}
    /\ push_lock \in BOOLEAN /\ done \in BOOLEAN
    /\ freed \in BOOLEAN /\ wild \in BOOLEAN
    /\ wpc \in [Writers -> Places]
    /\ count \in [Writers -> 0..MaxLog]
    /\ \A w \in Writers : wpc[w] # "idle" => count[w] >= 1
    /\ thread \in {"on", "over", "none"}
    /\ files \in Seq(Seq(Entries)) /\ Len(files) >= 1 /\ Len(files) <= MaxFiles + 1
    /\ rpc \in {"idle", "closed", "flushed"} \cup Ops
    /\ mark \in 0..Len(logged)

\* The writers that have the spin lock.
Holding == {w \in Writers : wpc[w] \in {"room", "put", "unlock"}}

\* One writer at a time has the lock, so the room it found is still there when
\* it puts its entry on the ring.
Locked ==
    /\ \A w \in Holding : push_lock
    /\ \A w, v \in Holding : w = v
    /\ Len(queue) <= Size - 1
    /\ \A w \in Writers : wpc[w] = "put" => freed \/ Len(queue) < Size - 1

\* The log thread ends before its ring is freed, and its buffer goes to the file
\* when it is joined.
Closing ==
    /\ thread # "on" => done
    /\ thread = "none" => buf = <<>>
    /\ freed => thread = "none"
    /\ rpc = "closed" => thread = "none"

\* What was logged is in the files, in the buffer, in the hand of the log thread
\* and on the ring, in this order; a file was removed only when there were too
\* many.
Segments ==
    /\ \E m \in 0..Len(logged) :
          /\ UpTo(Written, logged, removed, m)
          /\ ~freed => hand \o queue = SubSeq(logged, m + 1, Len(logged))
          /\ thread # "on" => m >= mark
    /\ removed > 0 => Len(files) = MaxFiles + 1

IInv == Shape /\ Locked /\ Closing /\ Segments

-----------------------------------------------------------------------------
(* How the cuts move *)

\* What the cuts are, one by one.
LEMMA CutsDef ==
  ASSUME NEW E, NEW s \in Seq(Seq(E)), NEW t \in Seq(E), NEW r, NEW cut,
         Cuts(s, t, r, cut)
  PROVE  /\ Len(s) \in Nat /\ Len(t) \in Nat
         /\ \A i \in 0..Len(s) : cut[i] \in Nat /\ cut[i] <= Len(t)
         /\ cut[Len(s)] = r
         /\ \A i \in 1..Len(s) : i - 1 \in 0..Len(s) /\ i \in 0..Len(s)
<1>1. Len(s) \in Nat /\ Len(t) \in Nat
  BY LenProperties
<1>2. cut \in [0..Len(s) -> 0..Len(t)] /\ cut[Len(s)] = r
  BY DEF Cuts
<1>3. ASSUME NEW i \in 0..Len(s) PROVE cut[i] \in Nat /\ cut[i] <= Len(t)
  <2>1. cut[i] \in 0..Len(t)
    BY <1>2
  <2> QED
    BY <1>1, <2>1
<1> QED
  BY <1>1, <1>2, <1>3

\* An entry that is logged leaves the files as they are.
LEMMA CutsLogged ==
  ASSUME NEW E, NEW s \in Seq(Seq(E)), NEW t \in Seq(E), NEW x \in E, NEW r, NEW m,
         UpTo(s, t, r, m)
  PROVE  UpTo(s, Append(t, x), r, m)
<1>0. PICK cut : Cuts(s, t, r, cut) /\ cut[0] = m
  BY DEF UpTo
<1>1. PICK u : u = Append(t, x)
  OBVIOUS
<1>2. u \in Seq(E) /\ Len(u) = Len(t) + 1 /\ Len(t) \in Nat /\ Len(s) \in Nat
  BY <1>1, AppendProperties, LenProperties
<1>3. /\ cut \in [0..Len(s) -> 0..Len(t)] /\ cut[Len(s)] = r
      /\ \A i \in 1..Len(s) :
            cut[i] <= cut[i - 1] /\ s[i] = SubSeq(t, cut[i] + 1, cut[i - 1])
  BY <1>0 DEF Cuts
<1>4. ASSUME NEW i \in 1..Len(s)
      PROVE  s[i] = SubSeq(u, cut[i] + 1, cut[i - 1])
  <2>1. cut[i] \in Nat /\ cut[i - 1] \in Nat /\ cut[i] <= cut[i - 1]
        /\ cut[i - 1] <= Len(t)
    BY <1>0, <1>3, CutsDef
  <2>2. PICK a \in Nat : a = cut[i]
    BY <2>1
  <2>3. PICK b \in Nat : b = cut[i - 1]
    BY <2>1
  <2>4. a <= b /\ b <= Len(t)
    BY <2>1, <2>2, <2>3
  <2>5. SubSeq(Append(t, x), a + 1, b) = SubSeq(t, a + 1, b)
    BY <2>4, PieceKept
  <2> QED
    BY <1>1, <1>3, <2>2, <2>3, <2>5
<1>5. cut \in [0..Len(s) -> 0..Len(u)]
  BY <1>2, <1>3
<1>6. Cuts(s, u, r, cut)
  BY <1>3, <1>4, <1>5 DEF Cuts
<1> QED
  BY <1>0, <1>1, <1>5, <1>6 DEF UpTo

\* The entry that is written goes from what waits to the current file.
IsWritten(s2, t, r, m, rest) ==
    /\ UpTo(s2, t, r, m + 1) /\ m + 1 \in 0..Len(t)
    /\ rest = SubSeq(t, m + 1 + 1, Len(t))

LEMMA CutsWritten ==
  ASSUME NEW E, NEW s \in Seq(Seq(E)), NEW t \in Seq(E), NEW o \in Seq(E), NEW r, NEW m,
         NEW rest \in Seq(E), NEW s2 \in Seq(Seq(E)), Len(s) >= 1, Len(o) = 1,
         UpTo(s, t, r, m), o \o rest = SubSeq(t, m + 1, Len(t)),
         Len(s2) = Len(s), s2[1] = s[1] \o o,
         \A i \in 2..Len(s) : s2[i] = s[i]
  PROVE  IsWritten(s2, t, r, m, rest)
<1>0. PICK cut : Cuts(s, t, r, cut) /\ cut[0] = m
  BY DEF UpTo
<1>1. PICK c : c = [i \in 0..Len(s) |-> IF i = 0 THEN cut[0] + 1 ELSE cut[i]]
  OBVIOUS
<1>2. Len(s) \in Nat /\ Len(t) \in Nat
  BY LenProperties
<1>3. /\ cut \in [0..Len(s) -> 0..Len(t)] /\ cut[Len(s)] = r
      /\ \A i \in 1..Len(s) :
            cut[i] <= cut[i - 1] /\ s[i] = SubSeq(t, cut[i] + 1, cut[i - 1])
  BY <1>0 DEF Cuts
<1>a. \A i \in 0..Len(s) : cut[i] \in Nat
  BY <1>0, CutsDef
<1>b. 0 \in 0..Len(s) /\ 1 \in 0..Len(s)
  BY <1>2
<1>c. cut[0] \in Nat /\ cut[1] \in Nat
  BY <1>a, <1>b
<1>4. PICK a \in Nat : a = cut[1]
  BY <1>c
<1>5. PICK b \in Nat : b = cut[0]
  BY <1>c
<1>6. a <= b /\ b <= Len(t) /\ s[1] \in Seq(E)
  <2>1. 0 \in 0..Len(s) /\ 1 \in 1..Len(s) /\ 1 - 1 = 0
    BY <1>2
  <2>2. s[1] \in Seq(E)
    BY <2>1, ElementOfSeq
  <2>3. \A i \in 0..Len(s) : cut[i] <= Len(t)
    BY <1>0, CutsDef
  <2>4. b <= Len(t)
    BY <1>b, <1>5, <2>3
  <2>5. a <= b
    BY <1>3, <1>4, <1>5, <2>1
  <2> QED
    BY <2>2, <2>4, <2>5
<1>7. s[1] = SubSeq(t, a + 1, b)
  <2>1. 1 \in 1..Len(s) /\ 1 - 1 = 0
    BY <1>2
  <2> QED
    BY <1>3, <1>4, <1>5, <2>1
<1>8. o \o rest = SubSeq(t, b + 1, Len(t)) /\ b = m
  BY <1>0, <1>5
<1>9. PICK f \in Seq(E) : f = s[1]
  BY <1>6
<1>10. /\ b + 1 <= Len(t)
       /\ f \o o = SubSeq(t, a + 1, b + 1)
       /\ rest = SubSeq(t, b + 1 + 1, Len(t))
  <2>1. a <= b /\ b <= Len(t)
    BY <1>6
  <2>2. f = SubSeq(t, a + 1, b)
    BY <1>7, <1>9
  <2>3. Moves(t, a, b, f, o, rest)
    BY <2>1, PieceMoves
  <2> QED
    BY <1>8, <2>2, <2>3 DEF Moves
<1>11. c[0] = b + 1 /\ \A i \in 1..Len(s) : c[i] = cut[i]
  BY <1>1, <1>2, <1>5
<1>12. c \in [0..Len(s) -> 0..Len(t)]
  <2>1. ASSUME NEW i \in 0..Len(s)
        PROVE  (IF i = 0 THEN cut[0] + 1 ELSE cut[i]) \in 0..Len(t)
    <3>1. cut[i] \in 0..Len(t) /\ b + 1 \in 0..Len(t)
      BY <1>2, <1>10, <1>0, CutsDef
    <3> QED
      BY <1>5, <3>1
  <2> QED
    BY <1>1, <2>1
<1>13. ASSUME NEW i \in 1..Len(s)
       PROVE  c[i] <= c[i - 1] /\ s2[i] = SubSeq(t, c[i] + 1, c[i - 1])
  <2>1. CASE i = 1
    <3>1. c[i] = a /\ c[i - 1] = b + 1
      BY <1>2, <1>4, <1>11, <2>1
    <3>2. s2[i] = SubSeq(t, a + 1, b + 1)
      BY <1>9, <1>10, <2>1
    <3> QED
      BY <1>6, <3>1, <3>2
  <2>2. CASE i # 1
    <3>1. i \in 2..Len(s) /\ i - 1 \in 1..Len(s)
      BY <1>2, <2>2
    <3>2. c[i] = cut[i] /\ c[i - 1] = cut[i - 1] /\ s2[i] = s[i]
      BY <1>11, <3>1
    <3> QED
      BY <1>3, <3>2
  <2> QED
    BY <2>1, <2>2
<1>14. c[Len(s2)] = r
  <2>1. Len(s) \in 1..Len(s)
    BY <1>2
  <2> QED
    BY <1>3, <1>11, <2>1
<1>15. Cuts(s2, t, r, c)
  BY <1>12, <1>13, <1>14 DEF Cuts
<1>16. c \in [0..Len(s2) -> 0..Len(t)]
  BY <1>12
<1>17. UpTo(s2, t, r, b + 1)
  BY <1>11, <1>15, <1>16 DEF UpTo
<1> QED
  BY <1>2, <1>8, <1>10, <1>17 DEF IsWritten

\* An empty file before the others starts where they end.
LEMMA CutsStarted ==
  ASSUME NEW E, NEW s \in Seq(Seq(E)), NEW t \in Seq(E), NEW r, NEW m,
         Len(s) >= 1, UpTo(s, t, r, m), NEW s2 \in Seq(Seq(E)),
         Len(s2) = Len(s) + 1, s2[1] = <<>>,
         \A i \in 1..Len(s) : s2[i + 1] = s[i]
  PROVE  UpTo(s2, t, r, m)
<1>0. PICK cut : Cuts(s, t, r, cut) /\ cut[0] = m
  BY DEF UpTo
<1>1. PICK c : c = [i \in 0..(Len(s) + 1) |-> IF i = 0 THEN cut[0] ELSE cut[i - 1]]
  OBVIOUS
<1>2. Len(s) \in Nat /\ Len(t) \in Nat
  BY LenProperties
<1>3. /\ cut \in [0..Len(s) -> 0..Len(t)] /\ cut[Len(s)] = r
      /\ \A i \in 1..Len(s) :
            cut[i] <= cut[i - 1] /\ s[i] = SubSeq(t, cut[i] + 1, cut[i - 1])
  BY <1>0 DEF Cuts
<1>4. c[0] = cut[0] /\ \A i \in 1..(Len(s) + 1) : c[i] = cut[i - 1]
  BY <1>1, <1>2
<1>5. c \in [0..(Len(s) + 1) -> 0..Len(t)]
  <2>1. ASSUME NEW i \in 0..(Len(s) + 1)
        PROVE  (IF i = 0 THEN cut[0] ELSE cut[i - 1]) \in 0..Len(t)
    <3>1. CASE i = 0
      BY <1>2, <3>1, <1>0, CutsDef
    <3>2. CASE i # 0
      <4>1. i - 1 \in 0..Len(s)
        BY <1>2, <3>2
      <4> QED
        BY <1>2, <3>2, <4>1, <1>0, CutsDef
    <3> QED
      BY <3>1, <3>2
  <2> QED
    BY <1>1, <2>1
<1>6. ASSUME NEW i \in 1..(Len(s) + 1)
      PROVE  c[i] <= c[i - 1] /\ s2[i] = SubSeq(t, c[i] + 1, c[i - 1])
  <2>1. CASE i = 1
    <3>a. \A k \in 0..Len(s) : cut[k] \in Nat /\ cut[k] <= Len(t)
      BY <1>0, CutsDef
    <3>b. 0 \in 0..Len(s)
      BY <1>2
    <3>1. PICK a \in Nat : a = cut[0] /\ a <= Len(t)
      BY <3>a, <3>b
    <3>2. c[i] = a /\ c[i - 1] = a /\ a <= Len(t)
      <4>1. 1 \in 1..(Len(s) + 1) /\ 1 - 1 = 0
        BY <1>2
      <4> QED
        BY <1>4, <2>1, <3>1, <4>1
    <3>3. PICK e \in Seq(E) : e = <<>>
      OBVIOUS
    <3>4. Len(e) = a - a /\ \A j \in 1..Len(e) : e[j] = t[a + j]
      BY <3>3
    <3>5. e = SubSeq(t, a + 1, a)
      BY <3>2, <3>4, Piece
    <3> QED
      BY <2>1, <3>2, <3>3, <3>5
  <2>2. CASE i # 1
    <3>1. PICK k \in 1..Len(s) : i = k + 1
      <4>1. i - 1 \in 1..Len(s) /\ i = (i - 1) + 1
        BY <1>2, <2>2
      <4> QED
        BY <4>1
    <3>2. c[i] = cut[k] /\ c[i - 1] = cut[k - 1] /\ s2[i] = s[k]
      <4>1. i - 1 = k /\ k \in 1..(Len(s) + 1)
        BY <1>2, <3>1
      <4> QED
        BY <1>4, <3>1, <4>1
    <3> QED
      BY <1>3, <3>2
  <2> QED
    BY <2>1, <2>2
<1>7. c[Len(s2)] = r
  <2>1. PICK n \in 1..(Len(s) + 1) : n = Len(s) + 1
    BY <1>2
  <2>2. n - 1 = Len(s)
    BY <1>2, <2>1
  <2>3. c[n] = cut[n - 1]
    BY <1>4
  <2>4. cut[Len(s)] = r
    BY <1>0, CutsDef
  <2> QED
    BY <2>1, <2>2, <2>3, <2>4
<1>8. Cuts(s2, t, r, c)
  BY <1>5, <1>6, <1>7 DEF Cuts
<1>9. c \in [0..Len(s2) -> 0..Len(t)]
  BY <1>5
<1> QED
  BY <1>0, <1>4, <1>8, <1>9 DEF UpTo

\* A file that is removed takes its entries with it.
LEMMA CutsRemoved ==
  ASSUME NEW E, NEW s \in Seq(Seq(E)), NEW t \in Seq(E), NEW r, NEW m,
         Len(s) >= 1, UpTo(s, t, r, m), NEW s2 \in Seq(Seq(E)),
         Len(s2) = Len(s) - 1, \A i \in 1..Len(s2) : s2[i] = s[i],
         NEW q, q = r + Len(s[Len(s)])
  PROVE  UpTo(s2, t, q, m)
<1>0. PICK cut : Cuts(s, t, r, cut) /\ cut[0] = m
  BY DEF UpTo
<1>1. PICK c : c = [i \in 0..Len(s2) |-> cut[i]]
  OBVIOUS
<1>2. Len(s) \in Nat /\ Len(t) \in Nat /\ Len(s2) \in Nat
  BY LenProperties
<1>3. /\ cut \in [0..Len(s) -> 0..Len(t)] /\ cut[Len(s)] = r
      /\ \A i \in 1..Len(s) :
            cut[i] <= cut[i - 1] /\ s[i] = SubSeq(t, cut[i] + 1, cut[i - 1])
  BY <1>0 DEF Cuts
<1>4. \A i \in 0..Len(s2) : i \in 0..Len(s) /\ c[i] = cut[i]
  BY <1>1, <1>2
<1>5. c \in [0..Len(s2) -> 0..Len(t)] /\ c[0] = cut[0]
  BY <1>1, <1>2, <1>3, <1>4
<1>6. ASSUME NEW i \in 1..Len(s2)
      PROVE  c[i] <= c[i - 1] /\ s2[i] = SubSeq(t, c[i] + 1, c[i - 1])
  <2>1. i \in 0..Len(s2) /\ i - 1 \in 0..Len(s2) /\ i \in 1..Len(s)
    BY <1>2
  <2> QED
    BY <1>3, <1>4, <2>1
<1>7. c[Len(s2)] = r + Len(s[Len(s)])
  <2>1. PICK n \in 1..Len(s) : n = Len(s)
    BY <1>2
  <2>2. cut[n] \in Nat /\ cut[n - 1] \in Nat /\ cut[n] <= cut[n - 1]
        /\ cut[n - 1] <= Len(t)
    BY <1>3, <1>0, CutsDef
  <2>3. PICK a \in Nat : a = cut[n]
    BY <2>2
  <2>4. PICK b \in Nat : b = cut[n - 1]
    BY <2>2
  <2>5. PICK f \in Seq(E) : f = s[n]
    BY <2>1, ElementOfSeq
  <2>6. f = SubSeq(t, a + 1, b)
    BY <1>3, <2>1, <2>3, <2>4, <2>5
  <2>7. Len(f) = b - a
    <3>1. a <= b /\ b <= Len(t)
      BY <2>2, <2>3, <2>4
    <3> QED
      BY <2>6, <3>1, PieceLen
  <2>8. c[Len(s2)] = b
    BY <1>2, <1>4, <2>1, <2>4
  <2> QED
    BY <1>3, <2>1, <2>3, <2>5, <2>7, <2>8
<1>8. Cuts(s2, t, r + Len(s[Len(s)]), c)
  BY <1>5, <1>6, <1>7 DEF Cuts
<1> QED
  BY <1>0, <1>5, <1>8 DEF UpTo

-----------------------------------------------------------------------------
(* The files *)

\* Three texts in a row.
Joined(s, t, u) == (s \o t) \o u = s \o (t \o u)

LEMMA Joins ==
  ASSUME NEW E, NEW s \in Seq(E), NEW t \in Seq(E), NEW u \in Seq(E)
  PROVE  Joined(s, t, u)
BY ConcatAssociative DEF Joined

\* What stdio has goes to the end of the current file.
Extended(f, b) == [f EXCEPT ![1] = @ \o b]

\* f with b at the end of its current file.
IsFlushed(E, f, b) ==
    /\ Extended(f, b) \in Seq(Seq(E))
    /\ Len(Extended(f, b)) = Len(f)
    /\ Extended(f, b)[1] = f[1] \o b
    /\ \A i \in 2..Len(f) : Extended(f, b)[i] = f[i]
    /\ f[1] \in Seq(E) /\ f[1] \o b \in Seq(E)

LEMMA Flush ==
  ASSUME NEW E, NEW f \in Seq(Seq(E)), Len(f) >= 1, NEW b \in Seq(E)
  PROVE  IsFlushed(E, f, b)
<1>1. Len(f) \in Nat /\ 1 \in 1..Len(f)
  BY LenProperties
<1>2. f[1] \in Seq(E)
  BY <1>1, ElementOfSeq
<1>3. PICK e : e = f[1] \o b
  OBVIOUS
<1>4. e \in Seq(E)
  BY <1>2, <1>3, ConcatProperties
<1>5. PICK g : g = [f EXCEPT ![1] = e]
  OBVIOUS
<1>6. /\ g \in Seq(Seq(E)) /\ Len(g) = Len(f)
      /\ \A j \in 1..Len(f) : g[j] = IF j = 1 THEN e ELSE f[j]
  BY <1>1, <1>4, <1>5, ExceptSeq
<1>7. g[1] = e /\ \A i \in 2..Len(f) : g[i] = f[i]
  BY <1>1, <1>6
<1>8. g = Extended(f, b)
  BY <1>3, <1>5 DEF Extended
<1> QED
  BY <1>2, <1>3, <1>4, <1>6, <1>7, <1>8 DEF IsFlushed

\* The files when s has become the newest archived one.
Turned(f, s) == <<<<>>, s>> \o Tail(f)

LEMMA Rotated ==
  ASSUME NEW E, NEW f \in Seq(Seq(E)), Len(f) >= 1, NEW s \in Seq(E)
  PROVE  /\ Turned(f, s) \in Seq(Seq(E))
         /\ Len(Turned(f, s)) = Len(f) + 1
         /\ Turned(f, s)[1] = <<>>
         /\ Turned(f, s)[2] = s
         /\ \A i \in 2..Len(f) : Turned(f, s)[i + 1] = f[i]
<1>1. PICK u : u = <<<<>>, s>>
  OBVIOUS
<1>2. u \in Seq(Seq(E)) /\ Len(u) = 2 /\ u[1] = <<>> /\ u[2] = s
  BY <1>1
<1>3. PICK v : v = Tail(f)
  OBVIOUS
<1>4. f # <<>> /\ Len(f) \in Nat
  BY LenProperties, EmptySeq
<1>5. v \in Seq(Seq(E)) /\ Len(v) = Len(f) - 1 /\ \A i \in 1..Len(v) : v[i] = f[i + 1]
  BY <1>3, <1>4, TailRange
<1>6. PICK g : g = u \o v
  OBVIOUS
<1>7. /\ g \in Seq(Seq(E)) /\ Len(g) = Len(u) + Len(v)
      /\ \A i \in 1..(Len(u) + Len(v)) : g[i] = IF i <= Len(u) THEN u[i] ELSE v[i - Len(u)]
  BY <1>2, <1>5, <1>6, ConcatProperties
<1>8. /\ Len(g) = Len(f) + 1
      /\ \A i \in 1..(Len(f) + 1) : g[i] = IF i <= 2 THEN u[i] ELSE v[i - 2]
  <2>1. Len(u) + Len(v) = Len(f) + 1
    BY <1>2, <1>4, <1>5
  <2>2. /\ Len(g) = Len(f) + 1
        /\ \A i \in 1..(Len(f) + 1) :
              g[i] = IF i <= Len(u) THEN u[i] ELSE v[i - Len(u)]
    BY <1>7, <2>1
  <2>3. Len(u) = 2
    BY <1>2
  <2> QED
    BY <2>2, <2>3
<1>9. g[1] = <<>> /\ g[2] = s
  <2>1. 1 \in 1..(Len(f) + 1) /\ 2 \in 1..(Len(f) + 1)
    BY <1>4
  <2> QED
    BY <1>2, <1>8, <2>1
<1>10. ASSUME NEW i \in 2..Len(f) PROVE g[i + 1] = f[i]
  <2>1. PICK k \in 1..(Len(f) + 1) : k = i + 1
    BY <1>4
  <2>2. PICK j \in 1..Len(v) : j = i - 1
    BY <1>4, <1>5
  <2>3. g[k] = v[k - 2]
    BY <1>4, <1>8, <2>1
  <2>4. k - 2 = j /\ j + 1 = i
    BY <1>4, <2>1, <2>2
  <2>5. v[j] = f[j + 1]
    BY <1>5
  <2> QED
    BY <2>1, <2>3, <2>4, <2>5
<1> QED
  BY <1>1, <1>3, <1>6, <1>7, <1>8, <1>9, <1>10 DEF Turned

\* What is written to stdio goes to the end of the current file too, ...
IsGrown(E, f, b, o) ==
    /\ b \o o \in Seq(E)
    /\ Extended(f, b \o o)[1] = Extended(f, b)[1] \o o
    /\ \A i \in 2..Len(f) : Extended(f, b \o o)[i] = Extended(f, b)[i]

LEMMA Grows ==
  ASSUME NEW E, NEW f \in Seq(Seq(E)), Len(f) >= 1, NEW b \in Seq(E), NEW o \in Seq(E)
  PROVE  IsGrown(E, f, b, o)
<1>1. PICK p : p = b \o o
  OBVIOUS
<1>2. p \in Seq(E)
  BY <1>1, ConcatProperties
<1>3. /\ Extended(f, p)[1] = f[1] \o p /\ f[1] \in Seq(E)
      /\ \A i \in 2..Len(f) : Extended(f, p)[i] = f[i]
  <2>1. IsFlushed(E, f, p)
    BY <1>2, Flush
  <2> QED
    BY <2>1 DEF IsFlushed
<1>4. /\ Extended(f, b)[1] = f[1] \o b
      /\ \A i \in 2..Len(f) : Extended(f, b)[i] = f[i]
  <2>1. IsFlushed(E, f, b)
    BY Flush
  <2> QED
    BY <2>1 DEF IsFlushed
<1>5. (f[1] \o b) \o o = f[1] \o (b \o o)
  <2>1. Joined(f[1], b, o)
    BY <1>3, Joins
  <2> QED
    BY <2>1 DEF Joined
<1> QED
  BY <1>1, <1>2, <1>3, <1>4, <1>5 DEF IsGrown

\* ... and is archived with it.
IsTurned(E, f, b) ==
    /\ Turned(f, f[1] \o b) \in Seq(Seq(E))
    /\ Len(Turned(f, f[1] \o b)) = Len(f) + 1
    /\ Turned(f, f[1] \o b)[1] = <<>>
    /\ \A i \in 1..Len(f) : Turned(f, f[1] \o b)[i + 1] = Extended(f, b)[i]

LEMMA Turns ==
  ASSUME NEW E, NEW f \in Seq(Seq(E)), Len(f) >= 1, NEW b \in Seq(E)
  PROVE  IsTurned(E, f, b)
<1>1. Len(f) \in Nat
  BY LenProperties
<1>2. /\ Extended(f, b)[1] = f[1] \o b /\ f[1] \o b \in Seq(E)
      /\ \A i \in 2..Len(f) : Extended(f, b)[i] = f[i]
  <2>1. IsFlushed(E, f, b)
    BY Flush
  <2> QED
    BY <2>1 DEF IsFlushed
<1>3. PICK s \in Seq(E) : s = f[1] \o b
  BY <1>2
<1>4. /\ Turned(f, s) \in Seq(Seq(E)) /\ Len(Turned(f, s)) = Len(f) + 1
      /\ Turned(f, s)[1] = <<>> /\ Turned(f, s)[2] = s
      /\ \A i \in 2..Len(f) : Turned(f, s)[i + 1] = f[i]
  BY Rotated
<1>5. ASSUME NEW i \in 1..Len(f) PROVE Turned(f, s)[i + 1] = Extended(f, b)[i]
  <2>1. CASE i = 1
    <3>1. i + 1 = 2
      BY <2>1
    <3> QED
      BY <1>2, <1>3, <1>4, <2>1, <3>1
  <2>2. CASE i # 1
    <3>1. i \in 2..Len(f)
      BY <1>1, <2>2
    <3> QED
      BY <1>2, <1>4, <3>1
  <2> QED
    BY <2>1, <2>2
<1> QED
  BY <1>3, <1>4, <1>5 DEF IsTurned

\* remove_old_logs keeps the newest.
LEMMA Kept ==
  ASSUME NEW E, NEW f \in Seq(Seq(E)), Len(f) >= 1, MaxFiles \in Nat
  PROVE  /\ Keep(f) \in Seq(Seq(E))
         /\ Len(Keep(f)) = IF Len(f) > MaxFiles + 1 THEN MaxFiles + 1 ELSE Len(f)
         /\ \A i \in 1..Len(Keep(f)) : Keep(f)[i] = f[i]
<1>1. Len(f) \in Nat
  BY LenProperties
<1>2. PICK n \in 1..Len(f) : n = IF Len(f) > MaxFiles + 1 THEN MaxFiles + 1 ELSE Len(f)
  BY <1>1
<1>3. Keep(f) = SubSeq(f, 1, n)
  BY <1>2 DEF Keep
<1>4. PICK g : g = SubSeq(f, 1, n)
  OBVIOUS
<1>5. \A i \in 1..n : f[i] \in Seq(E)
  BY <1>1, ElementOfSeq
<1>6. /\ g \in Seq(Seq(E)) /\ Len(g) = n
      /\ \A i \in 1..n : g[i] = f[i]
  <2>1. 1 \in 1..(Len(f) + 1) /\ n \in 0..Len(f)
    BY <1>1
  <2>2. /\ g \in Seq(Seq(E)) /\ Len(g) = IF 1 <= n THEN n - 1 + 1 ELSE 0
        /\ \A i \in 1..Len(g) : g[i] = f[1 + i - 1]
    BY <1>4, <2>1, PartRange
  <2> QED
    BY <1>1, <2>2
<1> QED
  BY <1>2, <1>3, <1>4, <1>6

-----------------------------------------------------------------------------
(* The types *)

LEMMA ShapeInit ==
  Init => Shape
<1> SUFFICES ASSUME Init PROVE Shape
  OBVIOUS
<1>1. files \in Seq(Seq(Entries)) /\ Len(files) = 1
  BY DEF Init
<1>2. Len(files) <= MaxFiles + 1
  BY <1>1, LogAssumption
<1>3. /\ queue \in Seq(Entries) /\ buf \in Seq(Entries) /\ logged \in Seq(Entries)
      /\ Len(logged) = 0 /\ mark = 0
  BY DEF Init
<1>4. count \in [Writers -> 0..MaxLog] /\ wpc \in [Writers -> Places]
      /\ \A w \in Writers : wpc[w] # "idle" => count[w] >= 1
  BY LogAssumption DEF Init, Places
<1>5. /\ hand = <<>> /\ push_lock = FALSE /\ done = FALSE /\ freed = FALSE /\ wild = FALSE
      /\ thread = "on" /\ rpc = "idle" /\ mark \in 0..Len(logged)
  BY <1>3 DEF Init
<1>6. hand \in {<<>>} \cup {<<e>> : e \in Entries}
  BY <1>5, Zenon
<1>7. Len(files) >= 1
  BY <1>1
<1>8. /\ push_lock \in BOOLEAN /\ done \in BOOLEAN
      /\ freed \in BOOLEAN /\ wild \in BOOLEAN
  BY <1>5, Zenon
<1>9. thread \in {"on", "over", "none"} /\ rpc \in {"idle", "closed", "flushed"} \cup Ops
  BY <1>5, Zenon
<1> QED
  BY <1>1, <1>2, <1>3, <1>4, <1>5, <1>6, <1>7, <1>8, <1>9, Zenon DEF Shape

LEMMA ShapeStep ==
  ASSUME Shape, [Next]_vars
  PROVE  Shape'
<1> USE LogAssumption DEF Shape, Places
<1>1. Len(files) \in Nat /\ Len(logged) \in Nat
  BY LenProperties
<1>2. ASSUME NEW w \in Writers, LogCall(w) PROVE Shape'
  BY <1>2 DEF LogCall, WGoto, fVars, rVars
<1>3. ASSUME NEW w \in Writers, LogLock(w) PROVE Shape'
  BY <1>3 DEF LogLock, WGoto, fVars, rVars
<1>4. ASSUME NEW w \in Writers, LogDirect(w) PROVE Shape'
  BY <1>4 DEF LogDirect, WGoto, fVars, rVars
<1>5. ASSUME NEW w \in Writers, LogRoom(w) PROVE Shape'
  BY <1>5 DEF LogRoom, WGoto, fVars, rVars
<1>6. ASSUME NEW w \in Writers, LogPut(w) PROVE Shape'
  <2>1. PICK e \in Entries : e = <<w, count[w]>>
    <3>1. count[w] \in 1..MaxLog
      BY <1>6 DEF LogPut, WGoto
    <3> QED
      BY <3>1 DEF Entries
  <2>2. queue' \in Seq(Entries) /\ logged' \in Seq(Entries) /\ Len(logged') >= Len(logged)
    <3>1. CASE freed
      BY <1>1, <1>6, <3>1 DEF LogPut
    <3>2. CASE ~freed
      <4>1. queue' = Append(queue, e) /\ logged' = Append(logged, e)
        BY <1>6, <2>1, <3>2 DEF LogPut, Put
      <4>2. /\ Append(queue, e) \in Seq(Entries) /\ Append(logged, e) \in Seq(Entries)
            /\ Len(Append(logged, e)) = Len(logged) + 1
        BY AppendProperties
      <4> QED
        BY <1>1, <4>1, <4>2
    <3> QED
      BY <3>1, <3>2
  <2>3. mark' \in 0..Len(logged')
    BY <1>1, <1>6, <2>2, LenProperties DEF LogPut, rVars
  <2>4. wild' \in BOOLEAN
    BY <1>6 DEF LogPut
  <2> QED
    BY <1>6, <2>2, <2>3, <2>4 DEF LogPut, WGoto, fVars, rVars
<1>7. ASSUME NEW w \in Writers, LogUnlock(w) PROVE Shape'
  BY <1>7 DEF LogUnlock, WGoto, fVars, rVars
<1>8. CASE Pop
  <2>1. Head(queue) \in Entries /\ Tail(queue) \in Seq(Entries)
    BY <1>8, TailRange DEF Pop
  <2> QED
    BY <1>8, <2>1 DEF Pop, wVars, fVars, rVars
<1>9. CASE WriteOut
  <2>1. PICK e \in Entries : hand = <<e>>
    BY <1>9 DEF WriteOut
  <2>2. hand \in Seq(Entries)
    BY <2>1, SingleRange
  <2>3. files[1] \in Seq(Entries)
    BY <1>1, ElementOfSeq
  <2>4. buf \o hand \in Seq(Entries)
    BY <2>2, ConcatProperties
  <2>5. files[1] \o buf \o hand \in Seq(Entries)
    BY <2>2, <2>3, ConcatProperties
  <2>6. PICK s \in Seq(Entries) : s = files[1] \o buf \o hand
    BY <2>5
  <2>7. PICK f \in Seq(Seq(Entries)) : f = Turned(files, s)
    BY Rotated
  <2>8. Len(f) = Len(files) + 1
    BY <2>7, Rotated
  <2>9. Len(f) >= 1
    BY <1>1, <2>8
  <2>10. /\ Keep(f) \in Seq(Seq(Entries))
         /\ Len(Keep(f)) = IF Len(f) > MaxFiles + 1 THEN MaxFiles + 1 ELSE Len(f)
    BY <2>9, Kept
  <2>11. Len(Keep(f)) >= 1 /\ Len(Keep(f)) <= MaxFiles + 1
    BY <1>1, <2>8, <2>10
  <2>12. CASE Rotate(files[1] \o buf \o hand) /\ buf' = <<>>
    <3>1. files' = Keep(f)
      BY <2>6, <2>7, <2>12 DEF Rotate, Turned
    <3>2. files' \in Seq(Seq(Entries)) /\ Len(files') >= 1 /\ Len(files') <= MaxFiles + 1
      BY <2>10, <2>11, <3>1
    <3>3. buf' \in Seq(Entries)
      BY <2>12
    <3>4. hand' = <<>> /\ UNCHANGED <<queue, thread, wild, wVars, rVars>>
      BY <1>9 DEF WriteOut
    <3> QED
      BY <3>2, <3>3, <3>4 DEF wVars, rVars
  <2>13. CASE buf' = buf \o hand /\ UNCHANGED <<files, removed>>
    BY <1>9, <2>4, <2>13 DEF WriteOut, wVars, rVars
  <2> QED
    BY <1>9, <2>12, <2>13 DEF WriteOut
<1>10. CASE End
  BY <1>10 DEF End, wVars, fVars, rVars
<1>11. CASE Flushed
  <2>1. PICK f \in Seq(Seq(Entries)) : f = Extended(files, buf)
    <3>a. IsFlushed(Entries, files, buf)
      BY Flush
    <3> QED
      BY <3>a DEF IsFlushed
  <2>2. Len(f) = Len(files)
    <3>a. IsFlushed(Entries, files, buf)
      BY Flush
    <3> QED
      BY <2>1, <3>a DEF IsFlushed
  <2>3. files' = f
    BY <1>11, <2>1 DEF Flushed, Extended
  <2> QED
    BY <1>11, <2>2, <2>3 DEF Flushed, wVars
<1>12. CASE FlushTimeout
  BY <1>12 DEF FlushTimeout, wVars, fVars
<1>13. CASE Return
  BY <1>13 DEF Return, wVars, fVars
<1>14. CASE CloseDone
  BY <1>14 DEF CloseDone, wVars, fVars
<1>15. CASE CloseJoin
  <2>1. PICK f \in Seq(Seq(Entries)) : f = Extended(files, buf)
    <3>a. IsFlushed(Entries, files, buf)
      BY Flush
    <3> QED
      BY <3>a DEF IsFlushed
  <2>2. Len(f) = Len(files)
    <3>a. IsFlushed(Entries, files, buf)
      BY Flush
    <3> QED
      BY <2>1, <3>a DEF IsFlushed
  <2>3. files' = f
    BY <1>15, <2>1 DEF CloseJoin, Extended
  <2> QED
    BY <1>15, <2>2, <2>3 DEF CloseJoin, wVars, rVars
<1>16. CASE CloseFree
  BY <1>16 DEF CloseFree, wVars, fVars
<1>17. ASSUME NEW op \in Ops, Call(op) PROVE Shape'
  BY <1>1, <1>17 DEF Call, wVars, fVars
<1>18. CASE UNCHANGED vars
  BY <1>18 DEF vars, wVars, fVars, rVars
<1> QED
  BY <1>2, <1>3, <1>4, <1>5, <1>6, <1>7, <1>8, <1>9, <1>10, <1>11, <1>12, <1>13,
     <1>14, <1>15, <1>16, <1>17, <1>18 DEF Next, Write, Thread, Ruby

-----------------------------------------------------------------------------
(* The lock and the end of the log thread *)

LEMMA LockedStep ==
  ASSUME Shape, Locked, Closing, [Next]_vars
  PROVE  Locked'
<1> USE LogAssumption DEF Locked, Holding
<1>1. wpc \in [Writers -> Places] /\ queue \in Seq(Entries) /\ Len(queue) \in Nat
  BY LenProperties DEF Shape
<1>2. ASSUME NEW w \in Writers, LogCall(w) PROVE Locked'
  BY <1>1, <1>2 DEF LogCall, WGoto, fVars, rVars
<1>3. ASSUME NEW w \in Writers, LogLock(w) PROVE Locked'
  BY <1>1, <1>3 DEF LogLock, WGoto, fVars, rVars
<1>4. ASSUME NEW w \in Writers, LogDirect(w) PROVE Locked'
  BY <1>1, <1>4 DEF LogDirect, WGoto, fVars, rVars
<1>5. ASSUME NEW w \in Writers, LogRoom(w) PROVE Locked'
  BY <1>1, <1>5 DEF LogRoom, WGoto, fVars, rVars
<1>6. ASSUME NEW w \in Writers, LogPut(w) PROVE Locked'
  <2>1. /\ wpc[w] = "put" /\ wpc' = [wpc EXCEPT ![w] = "unlock"]
        /\ push_lock' = push_lock /\ freed' = freed
    BY <1>6 DEF LogPut, WGoto, rVars
  <2>2. \A v \in Writers : v # w => v \notin Holding
    BY <2>1
  <2>3. /\ \A v \in Holding' : push_lock'
        /\ \A v, u \in Holding' : v = u
        /\ \A v \in Writers : wpc'[v] # "put"
    BY <1>1, <2>1, <2>2
  <2>4. Len(queue') <= Size - 1
    <3>1. CASE freed
      BY <1>6, <3>1 DEF LogPut
    <3>2. CASE ~freed
      <4>1. Len(queue) < Size - 1
        BY <2>1, <3>2
      <4>2. queue' = Append(queue, <<w, count[w]>>)
        BY <1>6, <3>2 DEF LogPut, Put
      <4>3. Len(queue') = Len(queue) + 1
        BY <1>1, <4>2
      <4> QED
        BY <1>1, <4>1, <4>3
    <3> QED
      BY <3>1, <3>2
  <2> QED
    BY <2>3, <2>4
<1>7. ASSUME NEW w \in Writers, LogUnlock(w) PROVE Locked'
  BY <1>1, <1>7 DEF LogUnlock, WGoto, fVars, rVars
<1>8. CASE Pop
  <2>1. Len(queue') <= Len(queue)
    BY <1>1, <1>8, TailRange DEF Pop
  <2>2. Len(queue') \in Nat
    BY <1>1, <1>8, TailRange DEF Pop
  <2> QED
    BY <1>1, <1>8, <2>1, <2>2 DEF Pop, wVars, fVars, rVars
<1>9. CASE WriteOut
  <2>1. UNCHANGED <<queue, push_lock, wpc, freed>>
    BY <1>9 DEF WriteOut, wVars, rVars
  <2> QED
    BY <2>1
<1>10. CASE End
  BY <1>10 DEF End, wVars, fVars, rVars
<1>11. CASE Flushed
  BY <1>11 DEF Flushed, wVars
<1>12. CASE FlushTimeout
  BY <1>12 DEF FlushTimeout, wVars, fVars
<1>13. CASE Return
  BY <1>13 DEF Return, wVars, fVars
<1>14. CASE CloseDone
  BY <1>14 DEF CloseDone, wVars, fVars
<1>15. CASE CloseJoin
  BY <1>15 DEF CloseJoin, wVars, rVars
<1>16. CASE CloseFree
  BY <1>1, <1>16 DEF CloseFree, wVars, fVars
<1>17. ASSUME NEW op \in Ops, Call(op) PROVE Locked'
  BY <1>17 DEF Call, wVars, fVars
<1>18. CASE UNCHANGED vars
  BY <1>18 DEF vars, wVars, fVars, rVars
<1> QED
  BY <1>2, <1>3, <1>4, <1>5, <1>6, <1>7, <1>8, <1>9, <1>10, <1>11, <1>12, <1>13,
     <1>14, <1>15, <1>16, <1>17, <1>18 DEF Next, Write, Thread, Ruby

LEMMA ClosingStep ==
  ASSUME Closing, [Next]_vars
  PROVE  Closing'
<1> USE DEF Closing
<1>1. ASSUME NEW w \in Writers, LogCall(w) \/ Write(w)
      PROVE  UNCHANGED <<thread, buf, done, freed, rpc>>
  BY <1>1 DEF LogCall, Write, LogLock, LogDirect, LogRoom, LogPut, LogUnlock, fVars, rVars
<1>2. CASE Pop
  BY <1>2 DEF Pop, fVars, rVars
<1>3. CASE WriteOut
  <2>1. thread = "on" /\ UNCHANGED <<thread, done, freed, rpc>>
    BY <1>3 DEF WriteOut, rVars
  <2> QED
    BY <2>1
<1>4. CASE End
  BY <1>4 DEF End, Over, fVars, rVars
<1>5. CASE Flushed
  BY <1>5 DEF Flushed, wVars
<1>6. CASE FlushTimeout
  BY <1>6 DEF FlushTimeout, wVars, fVars
<1>7. CASE Return
  BY <1>7 DEF Return, wVars, fVars
<1>8. CASE CloseDone
  BY <1>8 DEF CloseDone, wVars, fVars
<1>9. CASE CloseJoin
  BY <1>9 DEF CloseJoin, wVars, rVars
<1>10. CASE CloseFree
  BY <1>10 DEF CloseFree, wVars, fVars
<1>11. ASSUME NEW op \in Ops, Call(op) PROVE Closing'
  <2>1. rpc' = op /\ op # "closed" /\ UNCHANGED <<thread, buf, done, freed>>
    BY <1>11, LogAssumption DEF Call, wVars, fVars
  <2> QED
    BY <2>1
<1>12. CASE UNCHANGED vars
  BY <1>12 DEF vars, wVars, fVars, rVars
<1> QED
  BY <1>1, <1>2, <1>3, <1>4, <1>5, <1>6, <1>7, <1>8, <1>9, <1>10, <1>11, <1>12
     DEF Next, Thread, Ruby

-----------------------------------------------------------------------------
(* The entries on their way to the files *)

LEMMA FlushNothing ==
  ASSUME NEW E, NEW f \in Seq(Seq(E)), Len(f) >= 1
  PROVE  Extended(f, <<>>) = f
<1>1. Len(f) \in Nat /\ 1 \in 1..Len(f)
  BY LenProperties
<1>2. PICK g : g = Extended(f, <<>>)
  OBVIOUS
<1>3. <<>> \in Seq(E)
  OBVIOUS
<1>4. /\ g \in Seq(Seq(E)) /\ Len(g) = Len(f) /\ g[1] = f[1] \o <<>> /\ f[1] \in Seq(E)
      /\ \A i \in 2..Len(f) : g[i] = f[i]
  <2>a. IsFlushed(E, f, <<>>)
    BY <1>3, Flush
  <2> QED
    BY <1>2, <2>a DEF IsFlushed
<1>5. g[1] = f[1]
  BY <1>4, ConcatEmptySeq
<1>6. ASSUME NEW i \in 1..Len(f) PROVE g[i] = f[i]
  <2>1. i = 1 \/ i \in 2..Len(f)
    BY <1>1
  <2> QED
    BY <1>4, <1>5, <2>1
<1> QED
  BY <1>2, <1>4, <1>6, SeqEqual

\* What the step needs to know of the files.
LEMMA WrittenDef ==
  ASSUME Shape
  PROVE  /\ Written \in Seq(Seq(Entries)) /\ Len(Written) = Len(files)
         /\ Len(files) \in Nat /\ Len(files) >= 1 /\ Len(logged) \in Nat
         /\ files \in Seq(Seq(Entries)) /\ logged \in Seq(Entries)
         /\ buf = <<>> => Written = files
<1>1. /\ files \in Seq(Seq(Entries)) /\ Len(files) >= 1
      /\ buf \in Seq(Entries) /\ logged \in Seq(Entries)
  BY DEF Shape
<1>2. Len(files) \in Nat /\ Len(logged) \in Nat
  BY <1>1, LenProperties
<1>3. Written \in Seq(Seq(Entries)) /\ Len(Written) = Len(files)
  <2>a. IsFlushed(Entries, files, buf)
    BY <1>1, Flush
  <2> QED
    BY <2>a DEF IsFlushed, Written, Extended
<1>4. ASSUME buf = <<>> PROVE Written = files
  BY <1>1, <1>4, FlushNothing DEF Written, Extended
<1> QED
  BY <1>1, <1>2, <1>3, <1>4

\* Steps that move no entry.
LEMMA SegmentsSame ==
  ASSUME Segments, UNCHANGED <<queue, hand, thread, files, buf, freed, mark, logged, removed>>
  PROVE  Segments'
BY DEF Segments, Written

LEMMA SegmentsPut ==
  ASSUME Shape, Closing, Segments, NEW w \in Writers, LogPut(w), ~freed
  PROVE  Segments'
<1>1. /\ Written \in Seq(Seq(Entries)) /\ Len(Written) = Len(files)
      /\ Len(files) \in Nat /\ Len(logged) \in Nat /\ logged \in Seq(Entries)
  BY WrittenDef
<1>2. PICK a \in 0..Len(logged) :
         /\ UpTo(Written, logged, removed, a)
         /\ hand \o queue = SubSeq(logged, a + 1, Len(logged))
         /\ thread # "on" => a >= mark
  BY DEF Segments
<1>3. PICK e \in Entries : e = <<w, count[w]>>
  <2>1. count[w] \in 1..MaxLog
    BY LogAssumption DEF LogPut, WGoto, Shape
  <2> QED
    BY <2>1 DEF Entries
<1>4. /\ queue' = Append(queue, e) /\ logged' = Append(logged, e)
      /\ UNCHANGED <<hand, thread, files, buf, removed, mark, freed>>
  BY <1>3 DEF LogPut, Put, fVars, rVars
<1>5. UpTo(Written, Append(logged, e), removed, a)
  BY <1>1, <1>2, CutsLogged
<1>6. hand \in Seq(Entries) /\ queue \in Seq(Entries)
  <2>1. CASE hand = <<>>
    BY <2>1 DEF Shape
  <2>2. CASE \E x \in Entries : hand = <<x>>
    BY <2>2, SingleRange DEF Shape
  <2> QED
    BY <2>1, <2>2 DEF Shape
<1>7. a \in Nat /\ a <= Len(logged)
  BY <1>1
<1>8. PICK s \in Seq(Entries) : s = hand \o queue
  BY <1>6, ConcatProperties
<1>9. hand \o Append(queue, e) = Append(s, e)
  <2>1. <<e>> \in Seq(Entries)
    BY SingleRange
  <2>2. Append(queue, e) = queue \o <<e>> /\ Append(s, e) = s \o <<e>>
    BY <1>6, AppendIsConcat
  <2>3. Joined(hand, queue, <<e>>)
    BY <1>6, <2>1, Joins
  <2>4. (hand \o queue) \o <<e>> = hand \o (queue \o <<e>>)
    BY <2>3 DEF Joined
  <2> QED
    BY <1>8, <2>2, <2>4
<1>10. Append(s, e) = SubSeq(Append(logged, e), a + 1, Len(logged) + 1)
  <2>1. s = SubSeq(logged, a + 1, Len(logged))
    BY <1>2, <1>7, <1>8
  <2> QED
    BY <1>1, <1>7, <2>1, PieceAppended
<1>11. Len(Append(logged, e)) = Len(logged) + 1
  BY <1>1, AppendProperties
<1>12. hand' \o queue' = SubSeq(logged', a + 1, Len(logged'))
  BY <1>4, <1>7, <1>9, <1>10, <1>11
<1>13. a \in 0..Len(logged')
  BY <1>1, <1>4, <1>7, <1>11
<1>14. Written' = Written
  BY <1>4 DEF Written
<1>15. UpTo(Written', logged', removed', a)
  BY <1>4, <1>5, <1>14
<1> QED
  BY <1>2, <1>4, <1>12, <1>13, <1>15 DEF Segments

LEMMA SegmentsPop ==
  ASSUME Shape, Segments, Pop
  PROVE  Segments'
<1>1. hand' \o queue' = hand \o queue
  <2>1. queue \in Seq(Entries) /\ queue # <<>> /\ hand = <<>>
    BY DEF Shape, Pop
  <2>2. queue = <<Head(queue)>> \o Tail(queue)
    BY <2>1, TailRange DEF Pop
  <2>3. hand \o queue = queue
    BY <2>1, ConcatEmptySeq
  <2> QED
    BY <2>2, <2>3 DEF Pop
<1>2. UNCHANGED <<thread, files, buf, freed, mark, logged, removed>>
  BY DEF Pop, wVars, fVars, rVars
<1>3. Written' = Written
  BY <1>2 DEF Written
<1> QED
  BY <1>1, <1>2, <1>3 DEF Segments

\* The log thread ends when nothing is left to write.
LEMMA SegmentsEnd ==
  ASSUME Shape, Closing, Segments, End
  PROVE  Segments'
<1>1. /\ thread = "on" /\ ~freed /\ queue = <<>> /\ hand = <<>>
      /\ UNCHANGED <<queue, hand, files, buf, freed, mark, logged, removed>>
  BY DEF End, Over, Closing, wVars, fVars, rVars
<1>2. PICK a \in 0..Len(logged) :
         /\ UpTo(Written, logged, removed, a)
         /\ hand \o queue = SubSeq(logged, a + 1, Len(logged))
  BY <1>1 DEF Segments
<1>3. Len(files) \in Nat /\ Len(logged) \in Nat /\ logged \in Seq(Entries)
  BY WrittenDef
<1>4. a \in Nat /\ a <= Len(logged)
  BY <1>3
<1>5a. <<>> \in Seq(Entries)
  OBVIOUS
<1>5. PICK s \in Seq(Entries) : s = <<>>
  BY <1>5a
<1>6. hand \o queue = s
  BY <1>1, <1>5, ConcatEmptySeq
<1>7. s = SubSeq(logged, a + 1, Len(logged))
  BY <1>2, <1>4, <1>6
<1>8. Len(s) = Len(logged) - a
  BY <1>3, <1>4, <1>7, PieceLen
<1>9. a = Len(logged)
  <2>1. Len(s) = 0
    BY <1>5
  <2> QED
    BY <1>3, <1>8, <2>1
<1>10. a >= mark
  BY <1>3, <1>4, <1>9 DEF Shape
<1>11. Written' = Written
  BY <1>1 DEF Written
<1> QED
  BY <1>1, <1>2, <1>10, <1>11 DEF Segments

\* What stdio has is written to the file.
LEMMA SegmentsFlushed ==
  ASSUME Shape, Segments, Flushed \/ CloseJoin
  PROVE  Segments'
<1>1. /\ files' = Written /\ buf' = <<>>
      /\ thread' # "on" => thread # "on"
      /\ UNCHANGED <<queue, hand, freed, mark, logged, removed>>
  BY DEF Flushed, CloseJoin, Written, wVars, rVars
<1>2. Written \in Seq(Seq(Entries)) /\ Len(Written) = Len(files) /\ Len(files) >= 1
  BY WrittenDef
<1>3. Written' = Written
  BY <1>1, <1>2, FlushNothing DEF Written, Extended
<1>4. Len(files') = Len(files)
  BY <1>1, <1>2
<1> QED
  BY <1>1, <1>3, <1>4 DEF Segments

\* What the rotation makes of files that are pieces of what was logged.
IsKept(E, f, t, q, m) ==
    /\ Keep(f) \in Seq(Seq(E)) /\ Len(Keep(f)) >= 1
    /\ UpTo(Keep(f), t, q, m)
    /\ q > 0 => Len(Keep(f)) = MaxFiles + 1

LEMMA RotatedCuts ==
  ASSUME NEW E, NEW s \in Seq(Seq(E)), NEW t \in Seq(E), NEW r \in Nat, NEW m,
         Len(s) >= 1, Len(s) <= MaxFiles + 1, UpTo(s, t, r, m),
         NEW f \in Seq(Seq(E)), Len(f) = Len(s) + 1, f[1] = <<>>,
         \A i \in 1..Len(s) : f[i + 1] = s[i],
         r > 0 => Len(s) = MaxFiles + 1,
         NEW q, q = r + IF Len(f) > Len(Keep(f)) THEN Len(f[Len(f)]) ELSE 0
  PROVE  IsKept(E, f, t, q, m)
<1>1. Len(s) \in Nat /\ Len(f) \in Nat /\ Len(f) >= 1 /\ MaxFiles \in Nat
  BY LenProperties, LogAssumption
<1>2. /\ Keep(f) \in Seq(Seq(E))
      /\ Len(Keep(f)) = IF Len(f) > MaxFiles + 1 THEN MaxFiles + 1 ELSE Len(f)
      /\ \A i \in 1..Len(Keep(f)) : Keep(f)[i] = f[i]
  BY <1>1, Kept
<1>3. PICK k \in Seq(Seq(E)) : k = Keep(f)
  BY <1>2
<1>4. UpTo(f, t, r, m)
  BY CutsStarted
<1>5. CASE Len(f) > MaxFiles + 1
  <2>1. Len(k) = Len(f) - 1 /\ Len(k) = MaxFiles + 1
    BY <1>1, <1>2, <1>3, <1>5
  <2>2. q = r + Len(f[Len(f)])
    BY <1>1, <1>3, <2>1
  <2>3. \A i \in 1..Len(k) : k[i] = f[i]
    BY <1>2, <1>3
  <2>4. UpTo(k, t, q, m)
    BY <1>1, <1>4, <2>1, <2>2, <2>3, CutsRemoved
  <2>5. Len(k) >= 1
    BY <1>1, <2>1
  <2> QED
    BY <1>2, <1>3, <2>1, <2>4, <2>5 DEF IsKept
<1>6. CASE ~(Len(f) > MaxFiles + 1)
  <2>1. Len(k) = Len(f)
    BY <1>1, <1>2, <1>3, <1>6
  <2>2. k = f
    BY <1>2, <1>3, <2>1, SeqEqual
  <2>3. q = r /\ ~(r > 0)
    BY <1>1, <1>3, <1>6, <2>1
  <2> QED
    BY <1>1, <1>3, <1>4, <2>2, <2>3 DEF IsKept
<1> QED
  BY <1>5, <1>6

LEMMA SegmentsWrite ==
  ASSUME Shape, Closing, Segments, WriteOut
  PROVE  Segments'
<1>1. /\ thread = "on" /\ ~freed /\ hand' = <<>>
      /\ UNCHANGED <<queue, thread, freed, mark, logged>>
  BY DEF WriteOut, Closing, wVars, rVars
<1>2. hand \in Seq(Entries) /\ Len(hand) = 1
  <2>1. PICK e \in Entries : hand = <<e>>
    BY DEF WriteOut, Shape
  <2> QED
    BY <2>1, SingleRange
<1>3. /\ Written \in Seq(Seq(Entries)) /\ Len(Written) = Len(files)
      /\ Len(files) \in Nat /\ Len(files) >= 1 /\ Len(logged) \in Nat
      /\ files \in Seq(Seq(Entries)) /\ logged \in Seq(Entries)
  BY WrittenDef
<1>4. /\ buf \in Seq(Entries) /\ queue \in Seq(Entries) /\ Len(files) <= MaxFiles + 1
  BY DEF Shape
<1>5. PICK a \in 0..Len(logged) :
         /\ UpTo(Written, logged, removed, a)
         /\ hand \o queue = SubSeq(logged, a + 1, Len(logged))
  BY <1>1 DEF Segments
<1>6. Written = Extended(files, buf)
  BY DEF Written, Extended
<1>7. /\ buf \o hand \in Seq(Entries)
      /\ Extended(files, buf \o hand)[1] = Written[1] \o hand
      /\ \A i \in 2..Len(files) : Extended(files, buf \o hand)[i] = Written[i]
  <2>a. IsGrown(Entries, files, buf, hand)
    BY <1>2, <1>3, <1>4, Grows
  <2> QED
    BY <1>6, <2>a DEF IsGrown
<1>8. /\ Extended(files, buf \o hand) \in Seq(Seq(Entries))
      /\ Len(Extended(files, buf \o hand)) = Len(files)
  <2>a. IsFlushed(Entries, files, buf \o hand)
    BY <1>3, <1>7, Flush
  <2> QED
    BY <2>a DEF IsFlushed
<1>9. /\ UpTo(Extended(files, buf \o hand), logged, removed, a + 1)
      /\ a + 1 \in 0..Len(logged)
      /\ queue = SubSeq(logged, a + 1 + 1, Len(logged))
  <2>a. IsWritten(Extended(files, buf \o hand), logged, removed, a, queue)
    BY <1>2, <1>3, <1>4, <1>5, <1>7, <1>8, CutsWritten
  <2> QED
    BY <2>a DEF IsWritten
<1>10. hand' \o queue' = queue
  BY <1>1, <1>4, ConcatEmptySeq
<1>11. removed > 0 => Len(files) = MaxFiles + 1
  BY DEF Segments
<1>12. CASE buf' = buf \o hand /\ UNCHANGED <<files, removed>>
  <2>1. Written' = Extended(files, buf \o hand)
    BY <1>12 DEF Written, Extended
  <2> QED
    BY <1>1, <1>9, <1>10, <1>11, <1>12, <2>1 DEF Segments
<1>13. CASE Rotate(files[1] \o buf \o hand) /\ buf' = <<>>
  <2>1. files[1] \o buf \o hand = files[1] \o (buf \o hand)
    <3>1. files[1] \in Seq(Entries)
      <4>a. IsFlushed(Entries, files, buf)
        BY <1>3, <1>4, Flush
      <4> QED
        BY <4>a DEF IsFlushed
    <3> QED
      <4>a. Joined(files[1], buf, hand)
        BY <1>2, <1>4, <3>1, Joins
      <4> QED
        BY <4>a DEF Joined
  <2>2. PICK f : f = Turned(files, files[1] \o (buf \o hand))
    OBVIOUS
  <2>3. /\ f \in Seq(Seq(Entries)) /\ Len(f) = Len(files) + 1 /\ f[1] = <<>>
        /\ \A i \in 1..Len(files) : f[i + 1] = Extended(files, buf \o hand)[i]
    <3>a. IsTurned(Entries, files, buf \o hand)
      BY <1>3, <1>7, Turns
    <3> QED
      BY <2>2, <3>a DEF IsTurned
  <2>4. /\ files' = Keep(f)
        /\ removed' = removed + IF Len(f) > Len(Keep(f)) THEN Len(f[Len(f)]) ELSE 0
    BY <1>13, <2>1, <2>2 DEF Rotate, Turned
  <2>5. removed \in Nat
    <3>1. PICK c : Cuts(Written, logged, removed, c)
      BY <1>5 DEF UpTo
    <3>2. \A i \in 0..Len(Written) : c[i] \in Nat
      BY <1>3, <3>1, CutsDef
    <3>3. Len(Written) \in 0..Len(Written) /\ c[Len(Written)] = removed
      BY <1>3, <3>1 DEF Cuts
    <3> QED
      BY <3>2, <3>3
  <2>6. /\ Keep(f) \in Seq(Seq(Entries)) /\ Len(Keep(f)) >= 1
        /\ UpTo(Keep(f), logged, removed', a + 1)
        /\ removed' > 0 => Len(Keep(f)) = MaxFiles + 1
    <3>a. IsKept(Entries, f, logged, removed', a + 1)
      BY <1>3, <1>4, <1>8, <1>9, <1>11, <2>3, <2>4, <2>5, RotatedCuts
    <3> QED
      BY <3>a DEF IsKept
  <2>7. Written' = Extended(files', <<>>)
    BY <1>13 DEF Written, Extended
  <2>8. Written' = files'
    BY <2>4, <2>6, <2>7, FlushNothing
  <2> QED
    BY <1>1, <1>9, <1>10, <2>4, <2>6, <2>8 DEF Segments
<1> QED
  BY <1>12, <1>13 DEF WriteOut

LEMMA SegmentsStep ==
  ASSUME Shape, Closing, Segments, [Next]_vars
  PROVE  Segments'
<1>1. ASSUME NEW w \in Writers,
             LogCall(w) \/ LogLock(w) \/ LogDirect(w) \/ LogRoom(w) \/ LogUnlock(w)
      PROVE  Segments'
  <2>1. UNCHANGED <<queue, hand, thread, files, buf, freed, mark, logged, removed>>
    BY <1>1 DEF LogCall, LogLock, LogDirect, LogRoom, LogUnlock, fVars, rVars
  <2> QED
    BY <2>1, SegmentsSame
<1>2. ASSUME NEW w \in Writers, LogPut(w) PROVE Segments'
  <2>1. CASE freed
    <3>1. UNCHANGED <<queue, hand, thread, files, buf, freed, mark, logged, removed>>
      BY <1>2, <2>1 DEF LogPut, fVars, rVars
    <3> QED
      BY <3>1, SegmentsSame
  <2>2. CASE ~freed
    BY <1>2, <2>2, SegmentsPut
  <2> QED
    BY <2>1, <2>2
<1>3. CASE Pop
  BY <1>3, SegmentsPop
<1>4. CASE WriteOut
  BY <1>4, SegmentsWrite
<1>5. CASE End
  BY <1>5, SegmentsEnd
<1>6. CASE Flushed \/ CloseJoin
  BY <1>6, SegmentsFlushed
<1>7. CASE FlushTimeout \/ Return \/ CloseDone
  <2>1. UNCHANGED <<queue, hand, thread, files, buf, freed, mark, logged, removed>>
    BY <1>7 DEF FlushTimeout, Return, CloseDone, wVars, fVars
  <2> QED
    BY <2>1, SegmentsSame
<1>8. CASE CloseFree
  <2>1. freed' /\ UNCHANGED <<hand, thread, files, buf, mark, logged, removed>>
    BY <1>8 DEF CloseFree, wVars, fVars
  <2>2. Written' = Written
    BY <2>1 DEF Written
  <2> QED
    BY <2>1, <2>2 DEF Segments
<1>9. ASSUME NEW op \in Ops, Call(op) PROVE Segments'
  <2>1. /\ thread = "on"
        /\ UNCHANGED <<queue, hand, thread, files, buf, freed, logged, removed>>
    BY <1>9 DEF Call, Closing, wVars, fVars
  <2>2. Written' = Written
    BY <2>1 DEF Written
  <2> QED
    BY <2>1, <2>2 DEF Segments
<1>10. CASE UNCHANGED vars
  <2>1. UNCHANGED <<queue, hand, thread, files, buf, freed, mark, logged, removed>>
    BY <1>10 DEF vars, wVars, fVars, rVars
  <2> QED
    BY <2>1, SegmentsSame
<1> QED
  BY <1>1, <1>2, <1>3, <1>4, <1>5, <1>6, <1>7, <1>8, <1>9, <1>10
     DEF Next, Write, Thread, Ruby

LEMMA SegmentsInit ==
  Init => Segments
<1> SUFFICES ASSUME Init PROVE Segments
  OBVIOUS
<1>1. Shape
  BY ShapeInit
<1>2. /\ Len(files) \in Nat /\ Len(Written) = Len(files) /\ Written = files
      /\ Written \in Seq(Seq(Entries))
  BY <1>1, WrittenDef DEF Init
<1>3. /\ Len(files) = 1 /\ files[1] = <<>> /\ logged = <<>> /\ Len(logged) = 0
      /\ removed = 0 /\ hand = <<>> /\ queue = <<>> /\ thread = "on" /\ logged \in Seq(Entries)
  BY DEF Init
<1>4. <<>> = SubSeq(logged, 0 + 1, 0)
  <2>1. <<>> \in Seq(Entries) /\ Len(<<>>) = 0 - 0
        /\ \A j \in 1..Len(<<>>) : <<>>[j] = logged[0 + j]
    OBVIOUS
  <2> QED
    BY <1>3, <2>1, Piece
<1>5. PICK cut : cut = [i \in 0..1 |-> 0]
  OBVIOUS
<1>6. Cuts(files, logged, 0, cut)
  <2>1. cut \in [0..1 -> 0..0] /\ cut[0] = 0 /\ cut[1] = 0
    BY <1>5
  <2>2. cut \in [0..Len(files) -> 0..Len(logged)] /\ cut[Len(files)] = 0
    BY <1>3, <2>1
  <2>3. ASSUME NEW i \in 1..Len(files)
        PROVE  cut[i] <= cut[i - 1] /\ files[i] = SubSeq(logged, cut[i] + 1, cut[i - 1])
    <3>1. i = 1 /\ i - 1 = 0
      BY <1>3
    <3>2. cut[i] = 0 /\ cut[i - 1] = 0 /\ files[i] = <<>>
      BY <1>3, <2>1, <3>1
    <3> QED
      BY <1>4, <3>2
  <2> QED
    BY <2>2, <2>3 DEF Cuts
<1>7. UpTo(Written, logged, removed, 0)
  BY <1>2, <1>3, <1>5, <1>6 DEF UpTo
<1>8. hand \o queue = SubSeq(logged, 0 + 1, Len(logged))
  BY <1>3, <1>4
<1> QED
  BY <1>3, <1>7, <1>8 DEF Segments

-----------------------------------------------------------------------------
(* The theorems *)

THEOREM Invariance == Spec => []IInv
<1>1. Init => IInv
  <2>1. Init => Locked
    BY LogAssumption DEF Init, Locked, Holding
  <2>2. Init => Closing
    BY DEF Init, Closing
  <2> QED
    BY <2>1, <2>2, ShapeInit, SegmentsInit DEF IInv
<1>2. IInv /\ [Next]_vars => IInv'
  BY ShapeStep, LockedStep, ClosingStep, SegmentsStep DEF IInv
<1> QED
  BY <1>1, <1>2, PTL DEF Spec

\* The types; and the entries that wait never fill the slot of the entry that the
\* log thread writes out (agoo_log_catv and the loop of log.c:311-340, 504-544).
THEOREM TypeCorrect == Spec => []TypeOK
<1>1. IInv => TypeOK
  <2> SUFFICES ASSUME IInv PROVE TypeOK
    OBVIOUS
  <2>1. PICK m \in 0..Len(logged) : UpTo(Written, logged, removed, m)
    BY DEF IInv, Segments
  <2>2. /\ Len(Written) \in Nat /\ Len(logged) \in Nat /\ Written \in Seq(Seq(Entries))
        /\ logged \in Seq(Entries)
    BY WrittenDef DEF IInv
  <2>3. removed \in 0..Len(logged)
    <3>1. PICK cut : Cuts(Written, logged, removed, cut)
      BY <2>1 DEF UpTo
    <3>2. Len(Written) \in 0..Len(Written)
      BY <2>2
    <3> QED
      BY <3>1, <3>2 DEF Cuts
  <2>4. {done, freed, wild} \subseteq BOOLEAN
    BY Zenon DEF IInv, Shape
  <2>5. Len(queue) <= Size - 1
    BY DEF IInv, Locked
  <2> QED
    BY <2>3, <2>4, <2>5, Zenon DEF IInv, Shape, Places, TypeOK
<1> QED
  BY <1>1, Invariance, PTL

\* The files hold what was logged in the order of the ring, each entry once and
\* without a gap, up to the entry written last; and an archived file is removed
\* only when there are more than max_files (log.c:117-147, 235-309, 504-544). It
\* holds whichever way the writers, the log thread, rotations, flushes and a
\* shutdown interleave.
THEOREM FilesAreInOrder == Spec => []FilesInOrder
<1>1. IInv => FilesInOrder
  <2> SUFFICES ASSUME IInv PROVE FilesInOrder
    OBVIOUS
  <2>1. PICK m \in 0..Len(logged) : UpTo(Written, logged, removed, m)
    BY DEF IInv, Segments
  <2>2. m >= 0 /\ (removed > 0 => Len(files) = MaxFiles + 1)
    BY WrittenDef DEF IInv, Segments
  <2>3. Hold(Written, 0)
    BY <2>1, <2>2 DEF Hold, UpTo, Cuts
  <2> QED
    BY <2>2, <2>3 DEF FilesInOrder
<1> QED
  BY <1>1, Invariance, PTL

\* When Agoo::Log.shutdown returns, what was logged before the call is in the
\* files: the log thread ends only with an empty ring, and its buffer is written
\* when the file is closed (rlog.c:118-128, log.c:311-340, 381-407).
THEOREM ShutdownHasFlushed == Spec => []ShutdownFlushes
<1>1. IInv => ShutdownFlushes
  <2> SUFFICES ASSUME IInv, rpc = "closed" PROVE Hold(files, mark)
    BY DEF ShutdownFlushes
  <2>1. thread = "none" /\ buf = <<>>
    BY DEF IInv, Closing
  <2>2. PICK m \in 0..Len(logged) : UpTo(Written, logged, removed, m) /\ m >= mark
    BY <2>1 DEF IInv, Segments
  <2>3. Written = files
    BY <2>1, WrittenDef DEF IInv
  <2> QED
    BY <2>2, <2>3 DEF Hold, UpTo, Cuts
<1> QED
  BY <1>1, Invariance, PTL
=============================================================================
