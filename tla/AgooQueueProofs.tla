--------------------------- MODULE AgooQueueProofs ---------------------------
(***************************************************************************)
(* Proofs about AgooQueue, for every set of producers and of consumers,    *)
(* every ring size and both settings of multi_push and multi_pop.          *)
(*                                                                         *)
(* The four lemmas show, one conjunct of Inductive at a time, that a step  *)
(* keeps it.  Steps that touch none of the variables a conjunct is about   *)
(* are taken together at the end of each.                                  *)
(***************************************************************************)
EXTENDS AgooQueue, SequenceTheorems, TLAPS

USE SizeAssumption, ModeAssumption, BoundAssumption, LoopsAssumption,
    NullAssumption

\* A step keeps every variable in its type: a push has a number to give to its
\* item, a poll a count to take from.
LEMMA TypeStep == Inductive /\ [Next]_vars => TypeOK'
<1> SUFFICES ASSUME Inductive, [Next]_vars PROVE TypeOK'
  OBVIOUS
<1> USE DEF Inductive, ring, wait, prod, cons
<1>1. ASSUME NEW p \in Producers, PushWrite(p) PROVE TypeOK'
  BY <1>1 DEF PushWrite, PGoto, TypeOK, PPlaces, CPlaces, Slots, Items, Room
<1>2. ASSUME NEW p \in Producers, PushAdvance(p) PROVE TypeOK'
  BY <1>2 DEF PushAdvance, PGoto, TypeOK, PPlaces, CPlaces, Slots, Items,
              Room, Succ
<1>3. ASSUME NEW c \in Consumers, PopHead(c) PROVE TypeOK'
  BY <1>3 DEF PopHead, CGoto, TypeOK, PPlaces, CPlaces, Slots, Items, Room
<1>4. ASSUME NEW c \in Consumers, PopReady(c) PROVE TypeOK'
  BY <1>4 DEF PopReady, CGoto, TypeOK, PPlaces, CPlaces, Slots, Items, Room,
              Succ
<1>5. ASSUME NEW c \in Consumers, PopTimeout(c) PROVE TypeOK'
  BY <1>5 DEF PopTimeout, CGoto, TypeOK, PPlaces, CPlaces, Slots, Items, Room
<1>6. ASSUME NEW c \in Consumers, PopListen(c) PROVE TypeOK'
  BY <1>6 DEF PopListen, CGoto, TypeOK, PPlaces, CPlaces, Slots, Items, Room
<1>7. ASSUME NEW c \in Consumers,
              LoopListen(c) \/ LoopReadyRead(c) \/ LoopTimeout(c)
      PROVE  TypeOK'
  BY <1>7 DEF LoopListen, LoopReadyRead, LoopTimeout, CGoto, TypeOK, PPlaces,
              CPlaces, Slots, Items, Room
<1>8. ASSUME NEW c \in Consumers, PopTake(c) PROVE TypeOK'
  BY <1>8 DEF PopTake, CGoto, TypeOK, PPlaces, CPlaces, Slots, Items, Room
<1>9. ASSUME NEW c \in Consumers, PopReturn(c) PROVE TypeOK'
  BY <1>9 DEF PopReturn, CGoto, TypeOK, PPlaces, CPlaces, Slots, Items, Room
<1>10. ASSUME NEW c \in Consumers, ReleaseDisarm(c) PROVE TypeOK'
  <2>1. CASE CGoto(c, "disarm", "wait")
    BY <1>10, <2>1 DEF ReleaseDisarm, CGoto, TypeOK, PPlaces, CPlaces, Slots,
                       Items, Room
  <2>2. CASE CGoto(c, "ready_disarm", "pop")
    BY <1>10, <2>2 DEF ReleaseDisarm, CGoto, TypeOK, PPlaces, CPlaces, Slots,
                       Items, Room
  <2> QED
    BY <1>10, <2>1, <2>2 DEF ReleaseDisarm
<1>11. ASSUME NEW p \in Producers,
               \/ PushCall(p) \/ PushLock(p) \/ PushRoom(p) \/ PushUnlock(p)
               \/ PushNotify(p) \/ PushSignal(p) \/ PushNotified(p)
      PROVE  TypeOK'
  BY <1>11 DEF PushCall, PushLock, PushRoom, PushUnlock, PushNotify,
               PushSignal, PushNotified, PGoto, TypeOK, PPlaces, CPlaces,
               Slots, Items, Room
<1>12. ASSUME NEW c \in Consumers,
               \/ PopLock(c) \/ PopGiveUp(c) \/ PopArm(c) \/ PopPolled(c)
               \/ PopUnlock(c) \/ ReleaseDrain(c)
      PROVE  TypeOK'
  BY <1>12 DEF PopLock, PopGiveUp, PopArm, PopPolled, PopUnlock,
               ReleaseDrain, CGoto, TypeOK, PPlaces, CPlaces, Slots, Items,
               Room
<1>13. ASSUME Wakeup \/ UNCHANGED vars PROVE TypeOK'
  BY <1>13 DEF Wakeup, vars, TypeOK, PPlaces, CPlaces, Slots, Items, Room
<1> QED
  BY <1>1, <1>2, <1>3, <1>4, <1>5, <1>6, <1>7, <1>8, <1>9, <1>10,
             <1>11, <1>12, <1>13 DEF Next, Push, Pop

\* A spin flag lets one thread in at a time.
LEMMA SerialStep == Inductive /\ [Next]_vars => Serialised'
<1> SUFFICES ASSUME Inductive, [Next]_vars PROVE Serialised'
  OBVIOUS
<1> USE DEF Inductive, ring, wait, prod, cons
<1>1. ASSUME NEW p \in Producers, PushLock(p) PROVE Serialised'
  BY <1>1 DEF PushLock, PGoto, TypeOK, PPlaces, CPlaces, Serialised, Pushing,
              Popping
<1>2. ASSUME NEW p \in Producers, PushUnlock(p) PROVE Serialised'
  BY <1>2 DEF PushUnlock, PGoto, TypeOK, PPlaces, CPlaces, Serialised,
              Pushing, Popping
<1>3. ASSUME NEW c \in Consumers, PopLock(c) PROVE Serialised'
  BY <1>3 DEF PopLock, CGoto, TypeOK, PPlaces, CPlaces, Serialised, Pushing,
              Popping
<1>4. ASSUME NEW c \in Consumers, PopUnlock(c) PROVE Serialised'
  BY <1>4 DEF PopUnlock, CGoto, TypeOK, PPlaces, CPlaces, Serialised,
              Pushing, Popping
<1>5. ASSUME NEW c \in Consumers, ReleaseDisarm(c) PROVE Serialised'
  <2>1. CASE CGoto(c, "disarm", "wait")
    BY <1>5, <2>1 DEF ReleaseDisarm, CGoto, TypeOK, PPlaces, CPlaces,
                      Serialised, Pushing, Popping
  <2>2. CASE CGoto(c, "ready_disarm", "pop")
    BY <1>5, <2>2 DEF ReleaseDisarm, CGoto, TypeOK, PPlaces, CPlaces,
                      Serialised, Pushing, Popping
  <2> QED
    BY <1>5, <2>1, <2>2 DEF ReleaseDisarm
<1>6. ASSUME NEW p \in Producers,
               \/ PushCall(p) \/ PushRoom(p) \/ PushWrite(p)
               \/ PushAdvance(p) \/ PushNotify(p) \/ PushSignal(p)
               \/ PushNotified(p)
      PROVE  Serialised'
  BY <1>6 DEF PushCall, PushRoom, PushWrite, PushAdvance, PushNotify,
              PushSignal, PushNotified, PGoto, TypeOK, PPlaces, CPlaces,
              Serialised, Pushing, Popping
<1>7. ASSUME NEW c \in Consumers,
               \/ PopHead(c) \/ PopReady(c) \/ PopGiveUp(c) \/ PopListen(c)
               \/ PopArm(c) \/ PopPolled(c) \/ PopTimeout(c) \/ PopTake(c)
               \/ PopReturn(c) \/ ReleaseDrain(c) \/ LoopListen(c)
               \/ LoopReadyRead(c) \/ LoopTimeout(c)
      PROVE  Serialised'
  BY <1>7 DEF PopHead, PopReady, PopGiveUp, PopListen, PopArm, PopPolled,
              PopTimeout, PopTake, PopReturn, ReleaseDrain, LoopListen,
              LoopReadyRead, LoopTimeout, CGoto, TypeOK, PPlaces, CPlaces,
              Serialised, Pushing, Popping
<1>8. ASSUME Wakeup \/ UNCHANGED vars PROVE Serialised'
  BY <1>8 DEF Wakeup, vars, TypeOK, PPlaces, CPlaces, Serialised, Pushing,
              Popping
<1> QED
  BY <1>1, <1>2, <1>3, <1>4, <1>5, <1>6, <1>7, <1>8 DEF Next, Push, Pop

\* The slots change hands in four steps: a pusher fills the tail slot and moves
\* tail past it, a popper moves head to a slot and empties it.
LEMMA SlotsStep == Inductive /\ [Next]_vars => SlotsAgree'
<1> SUFFICES ASSUME Inductive, [Next]_vars PROVE SlotsAgree'
  OBVIOUS
<1> USE DEF Inductive, ring, wait, prod, cons
<1>1. ASSUME NEW p \in Producers, PushWrite(p) PROVE SlotsAgree'
  BY <1>1 DEF PushWrite, PGoto, TypeOK, PPlaces, CPlaces, Slots, Items,
              Serialised, Pushing, Popping, Room, SlotsAgree, Filled
<1>2. ASSUME NEW p \in Producers, PushAdvance(p) PROVE SlotsAgree'
  BY <1>2 DEF PushAdvance, PGoto, TypeOK, PPlaces, CPlaces, Slots, Items,
              Serialised, Pushing, Popping, Room, SlotsAgree, Filled, Succ
<1>3. ASSUME NEW c \in Consumers, PopHead(c) PROVE SlotsAgree'
  BY <1>3 DEF PopHead, CGoto, TypeOK, PPlaces, CPlaces, Slots, Items,
              Serialised, Pushing, Popping, Room, SlotsAgree, Filled
<1>4. ASSUME NEW c \in Consumers, PopReady(c) PROVE SlotsAgree'
  BY <1>4 DEF PopReady, CGoto, TypeOK, PPlaces, CPlaces, Slots, Items,
              Serialised, Pushing, Popping, Room, SlotsAgree, Filled, Succ
<1>5. ASSUME NEW c \in Consumers, PopTake(c) PROVE SlotsAgree'
  BY <1>5 DEF PopTake, CGoto, TypeOK, PPlaces, CPlaces, Slots, Items,
              Serialised, Pushing, Popping, Room, SlotsAgree, Filled
<1>6. ASSUME NEW p \in Producers,
               \/ PushCall(p) \/ PushLock(p) \/ PushRoom(p) \/ PushUnlock(p)
               \/ PushNotify(p) \/ PushSignal(p) \/ PushNotified(p)
      PROVE  SlotsAgree'
  <2>1. UNCHANGED <<q, head, tail>>
    BY <1>6 DEF PushCall, PushLock, PushRoom, PushUnlock, PushNotify,
                PushSignal, PushNotified
  <2>2. \A p2 \in Producers : ppc'[p2] = "advance" <=> ppc[p2] = "advance"
    BY <1>6 DEF PushCall, PushLock, PushRoom, PushUnlock, PushNotify,
                PushSignal, PushNotified, PGoto, TypeOK
  <2>3. \A c2 \in Consumers : cpc'[c2] = "take" <=> cpc[c2] = "take"
    BY <1>6 DEF PushCall, PushLock, PushRoom, PushUnlock, PushNotify,
                PushSignal, PushNotified, PGoto, TypeOK
  <2> QED
    BY <2>1, <2>2, <2>3 DEF SlotsAgree, Filled
<1>7. ASSUME NEW c \in Consumers,
               \/ PopLock(c) \/ PopGiveUp(c) \/ PopListen(c) \/ PopArm(c)
               \/ PopPolled(c) \/ PopTimeout(c) \/ PopUnlock(c)
               \/ PopReturn(c) \/ ReleaseDrain(c) \/ ReleaseDisarm(c)
               \/ LoopListen(c) \/ LoopReadyRead(c) \/ LoopTimeout(c)
      PROVE  SlotsAgree'
  <2>1. UNCHANGED <<q, head, tail>>
    BY <1>7 DEF PopLock, PopGiveUp, PopListen, PopArm, PopPolled, PopTimeout,
                PopUnlock, PopReturn, ReleaseDrain, ReleaseDisarm,
                LoopListen, LoopReadyRead, LoopTimeout
  <2>2. \A p2 \in Producers : ppc'[p2] = "advance" <=> ppc[p2] = "advance"
    BY <1>7 DEF PopLock, PopGiveUp, PopListen, PopArm, PopPolled, PopTimeout,
                PopUnlock, PopReturn, ReleaseDrain, ReleaseDisarm,
                LoopListen, LoopReadyRead, LoopTimeout, CGoto, TypeOK
  <2>3. \A c2 \in Consumers : cpc'[c2] = "take" <=> cpc[c2] = "take"
    BY <1>7 DEF PopLock, PopGiveUp, PopListen, PopArm, PopPolled, PopTimeout,
                PopUnlock, PopReturn, ReleaseDrain, ReleaseDisarm,
                LoopListen, LoopReadyRead, LoopTimeout, CGoto, TypeOK
  <2> QED
    BY <2>1, <2>2, <2>3 DEF SlotsAgree, Filled
<1>8. ASSUME Wakeup \/ UNCHANGED vars PROVE SlotsAgree'
  BY <1>8 DEF Wakeup, vars, TypeOK, PPlaces, CPlaces, Slots, Items,
              Serialised, Pushing, Popping, Room, SlotsAgree, Filled
<1> QED
  BY <1>1, <1>2, <1>3, <1>4, <1>5, <1>6, <1>7, <1>8 DEF Next, Push, Pop

\* The room a pusher found is there until it has moved tail: a popper moves head
\* to a slot other than tail.
LEMMA RoomStep == Inductive /\ [Next]_vars => Room'
<1> SUFFICES ASSUME Inductive, [Next]_vars PROVE Room'
  OBVIOUS
<1> USE DEF Inductive, ring, wait, prod, cons
<1>1. ASSUME NEW p \in Producers, PushCall(p) PROVE Room'
  BY <1>1 DEF PushCall, PGoto, TypeOK, Slots, Items, Serialised, Pushing,
              Popping, Room, SlotsAgree, Filled
<1>2. ASSUME NEW p \in Producers, PushRoom(p) PROVE Room'
  BY <1>2 DEF PushRoom, PGoto, TypeOK, Slots, Items, Serialised, Pushing,
              Popping, Room, SlotsAgree, Filled
<1>3. ASSUME NEW p \in Producers, PushWrite(p) PROVE Room'
  BY <1>3 DEF PushWrite, PGoto, TypeOK, Slots, Items, Serialised, Pushing,
              Popping, Room, SlotsAgree, Filled
<1>4. ASSUME NEW p \in Producers, PushAdvance(p) PROVE Room'
  BY <1>4 DEF PushAdvance, PGoto, TypeOK, Slots, Items, Serialised, Pushing,
              Popping, Room, SlotsAgree, Filled, Succ
<1>5. ASSUME NEW c \in Consumers, PopHead(c) PROVE Room'
  BY <1>5 DEF PopHead, CGoto, TypeOK, Slots, Items, Serialised, Pushing,
              Popping, Room, SlotsAgree, Filled
<1>6. ASSUME NEW c \in Consumers, PopReady(c) PROVE Room'
  BY <1>6 DEF PopReady, CGoto, TypeOK, Slots, Items, Serialised, Pushing,
              Popping, Room, SlotsAgree, Filled, Succ
<1>7. ASSUME NEW c \in Consumers, PopListen(c) PROVE Room'
  BY <1>7 DEF PopListen, CGoto, TypeOK, Slots, Items, Serialised, Pushing,
              Popping, Room, SlotsAgree, Filled
<1>8. ASSUME NEW c \in Consumers, PopTimeout(c) PROVE Room'
  BY <1>8 DEF PopTimeout, CGoto, TypeOK, Slots, Items, Serialised, Pushing,
              Popping, Room, SlotsAgree, Filled
<1>9. ASSUME NEW c \in Consumers, PopTake(c) PROVE Room'
  BY <1>9 DEF PopTake, CGoto, TypeOK, Slots, Items, Serialised, Pushing,
              Popping, Room, SlotsAgree, Filled
<1>10. ASSUME NEW c \in Consumers, PopReturn(c) PROVE Room'
  BY <1>10 DEF PopReturn, CGoto, TypeOK, Slots, Items, Serialised, Pushing,
               Popping, Room, SlotsAgree, Filled
<1>11. ASSUME NEW c \in Consumers, ReleaseDisarm(c) PROVE Room'
  <2>1. CASE CGoto(c, "disarm", "wait")
    BY <1>11, <2>1 DEF ReleaseDisarm, CGoto, TypeOK, Slots, Items,
                       Serialised, Pushing, Popping, Room, SlotsAgree, Filled
  <2>2. CASE CGoto(c, "ready_disarm", "pop")
    BY <1>11, <2>2 DEF ReleaseDisarm, CGoto, TypeOK, Slots, Items,
                       Serialised, Pushing, Popping, Room, SlotsAgree, Filled
  <2> QED
    BY <1>11, <2>1, <2>2 DEF ReleaseDisarm
<1>12. ASSUME NEW p \in Producers,
               \/ PushLock(p) \/ PushUnlock(p) \/ PushNotify(p)
               \/ PushSignal(p) \/ PushNotified(p)
      PROVE  Room'
  <2>1. UNCHANGED <<q, head, tail, sent, cpc, item, cnt>>
    BY <1>12 DEF PushLock, PushUnlock, PushNotify, PushSignal, PushNotified
  <2>2. \A p2 \in Producers :
           \/ ppc'[p2] = ppc[p2]
           \/ ppc[p2] = "lock" /\ ppc'[p2] = "full"
           \/ ppc'[p2] \in {"idle", "notify", "signal", "notified"}
    BY <1>12 DEF PushLock, PushUnlock, PushNotify, PushSignal, PushNotified,
                 PGoto, TypeOK
  <2> QED
    BY <2>1, <2>2 DEF Room
<1>13. ASSUME NEW c \in Consumers,
               \/ PopLock(c) \/ PopGiveUp(c) \/ PopArm(c) \/ PopPolled(c)
               \/ PopUnlock(c) \/ ReleaseDrain(c) \/ LoopListen(c)
               \/ LoopReadyRead(c) \/ LoopTimeout(c)
      PROVE  Room'
  <2>1. UNCHANGED <<q, head, tail, ppc, sent, item, cnt>>
    BY <1>13 DEF PopLock, PopGiveUp, PopArm, PopPolled, PopUnlock,
                 ReleaseDrain, LoopListen, LoopReadyRead, LoopTimeout
  <2>2. \A c2 \in Consumers :
           \/ cpc'[c2] = cpc[c2]
           \/ /\ cpc[c2] \in {"listen", "poll", "drain"}
              /\ cpc'[c2] \in {"poll", "drain", "disarm"}
           \/ cpc'[c2] \in {"unlock", "return"}
           \/ /\ cpc[c2] \notin {"unlock", "return"}
              /\ cpc'[c2] \notin {"listen", "poll", "drain", "disarm"}
    BY <1>13 DEF PopLock, PopGiveUp, PopArm, PopPolled, PopUnlock,
                 ReleaseDrain, LoopListen, LoopReadyRead, LoopTimeout, CGoto,
                 TypeOK
  <2> QED
    BY <2>1, <2>2 DEF Room
<1>14. ASSUME Wakeup \/ UNCHANGED vars PROVE Room'
  BY <1>14 DEF Wakeup, vars, TypeOK, Slots, Items, Serialised, Pushing,
               Popping, Room, SlotsAgree, Filled
<1> QED
  BY <1>1, <1>2, <1>3, <1>4, <1>5, <1>6, <1>7, <1>8, <1>9, <1>10,
             <1>11, <1>12, <1>13, <1>14 DEF Next, Push, Pop

\* The inductive invariant holds in every behaviour.
THEOREM InductiveHolds == Spec => []Inductive
<1>1. Init => Inductive
  <2> SUFFICES ASSUME Init PROVE Inductive
    OBVIOUS
  <2>1. TypeOK
    <3>1. 0 \in Slots /\ 1 \in Slots /\ 0 \in 0..MaxPush /\ 0 \in 0..PollCount
      BY DEF Slots
    <3> QED
      BY <3>1 DEF Init, TypeOK, PPlaces, CPlaces
  <2>2. Serialised /\ Room
    BY DEF Init, Serialised, Pushing, Popping, Room
  <2>3. SlotsAgree
    BY DEF Init, SlotsAgree, Filled, Slots
  <2> QED
    BY <2>1, <2>2, <2>3 DEF Inductive
<1>2. Inductive /\ [Next]_vars => Inductive'
  BY TypeStep, SerialStep, SlotsStep, RoomStep DEF Inductive
<1> QED
  BY <1>1, <1>2, PTL DEF Spec

\* The variables of the queue keep their types.
THEOREM TypeCorrect == Spec => []TypeOK
<1>1. Inductive => TypeOK
  BY DEF Inductive
<1> QED
  BY <1>1, InductiveHolds, PTL

\* push_lock and pop_lock serialise the pushers and the poppers.
THEOREM SerialisedHolds == Spec => []Serialised
<1>1. Inductive => Serialised
  BY DEF Inductive
<1> QED
  BY <1>1, InductiveHolds, PTL

\* No slot is overwritten, and none is emptied unread.
THEOREM SlotsAgreeHolds == Spec => []SlotsAgree
<1>1. Inductive => SlotsAgree
  BY DEF Inductive
<1> QED
  BY <1>1, InductiveHolds, PTL

\* A pusher writes to an empty slot it has to itself.
THEOREM WriteSafe == Spec => []WriteIsSafe
<1>1. Inductive => WriteIsSafe
  <2> SUFFICES ASSUME Inductive, NEW p \in Producers, ppc[p] = "write"
               PROVE  /\ q[tail] = NULL
                      /\ head # tail
                      /\ \A p2 \in Producers \ {p} :
                            ppc[p2] \notin {"write", "advance"}
    BY DEF WriteIsSafe
  <2>1. head # tail
    BY DEF Inductive, Room
  <2>2. \A p2 \in Producers \ {p} : ppc[p2] \notin {"write", "advance"}
    BY DEF Inductive, Serialised, Pushing
  <2>3. \A p2 \in Producers : ppc[p2] # "advance"
    BY <2>2
  <2>4. q[tail] = NULL
    BY <2>1, <2>3 DEF Inductive, TypeOK, Slots, SlotsAgree, Filled
  <2> QED
    BY <2>1, <2>2, <2>4
<1> QED
  BY <1>1, InductiveHolds, PTL

\* A pop that moved head finds an item there, and one that starts finds none.
THEOREM TakeSafe == Spec => []TakeIsSafe
<1>1. Inductive => TakeIsSafe
  <2> SUFFICES ASSUME Inductive, NEW c \in Consumers
               PROVE  /\ cpc[c] = "take" => q[head] # NULL
                      /\ cpc[c] = "head" => q[head] = NULL
    BY DEF TakeIsSafe
  <2>1. cpc[c] = "take" => q[head] # NULL
    BY DEF Inductive, TypeOK, SlotsAgree
  <2>2. ASSUME cpc[c] = "head" PROVE q[head] = NULL
    <3>1. \A c2 \in Consumers : cpc[c2] # "take"
      BY <2>2 DEF Inductive, Serialised, Popping
    <3>2. \A p \in Producers : ppc[p] = "advance" => head # tail
      BY DEF Inductive, Room
    <3> QED
      BY <3>1, <3>2 DEF Inductive, TypeOK, Slots, SlotsAgree, Filled
  <2> QED
    BY <2>1, <2>2
<1> QED
  BY <1>1, InductiveHolds, PTL

-----------------------------------------------------------------------------
(* The ring implements the bounded buffer *)

\* Where the stored items are: not in the head slot, in the tail slot only if
\* the ring is full, and each in a slot of its own.
LEMMA SlotOfFacts ==
  ASSUME TypeOK
  PROVE  /\ Stored \in 0..(Size - 1)
         /\ \A n \in 1..Stored : SlotOf(n) \in Slots /\ SlotOf(n) # head
         /\ head # tail => \A n \in 1..Stored : SlotOf(n) # tail
         /\ head # tail => Stored < Size - 1
         /\ tail # Succ(head) => Stored > 0 /\ SlotOf(1) = Succ(head)
         /\ head # tail => SlotOf(Stored + 1) = tail
BY DEF TypeOK, Slots, Stored, SlotOf, Succ

\* The mapped buffer is a sequence of that length.
BufferedIs ==
    /\ Buffered \in Seq(Items \cup {NULL})
    /\ Len(Buffered) = Stored
    /\ \A n \in 1..Stored : Buffered[n] = q[SlotOf(n)]

\* What Buffered is, slot by slot, in a state ...
LEMMA BufferedFacts == TypeOK => BufferedIs
<1> SUFFICES ASSUME TypeOK PROVE BufferedIs
  OBVIOUS
<1>1. /\ Stored \in Nat
      /\ \A n \in 1..Stored : q[SlotOf(n)] \in Items \cup {NULL}
  BY SlotOfFacts DEF TypeOK
<1>2. Buffered \in [1..Stored -> Items \cup {NULL}]
  BY <1>1 DEF Buffered
<1>3. Buffered \in Seq(Items \cup {NULL})
  BY <1>1, <1>2, SeqDef
<1>4. Len(Buffered) = Stored
  BY <1>1, <1>2, <1>3, LenProperties
<1> QED
  BY <1>3, <1>4 DEF Buffered, BufferedIs

\* ... and in the state after it.
LEMMA BufferedFactsNext == TypeOK' => BufferedIs'
BY BufferedFacts, PTL

\* A step that leaves head, tail and the stored items alone leaves the buffer
\* alone.
LEMMA BufferedSame ==
  ASSUME UNCHANGED <<head, tail>>,
         \A n \in 1..Stored : q'[SlotOf(n)] = q[SlotOf(n)]
  PROVE  Buffered' = Buffered
BY DEF Buffered, Stored, SlotOf

\* What the consumers hold changes only if the item of one does, or if a
\* consumer starts or ends taking.
LEMMA HeldSame ==
  ASSUME UNCHANGED item,
         \A c \in Consumers : cpc'[c] = "take" <=> cpc[c] = "take",
         UNCHANGED q[head]
  PROVE  Held' = Held
BY DEF Held

\* Moving tail appends the item just written.
LEMMA AdvancePushes ==
  ASSUME Inductive, Inductive', NEW p \in Producers, PushAdvance(p)
  PROVE  Fifo!Push(p)
<1> USE DEF Inductive, ring, wait, prod, cons
<1> DEFINE new == <<p, sent[p] + 1>>
<1>1. head # tail /\ sent[p] < MaxPush /\ q[tail] = new
  BY DEF PushAdvance, PGoto, Room
<1>2. UNCHANGED <<q, head, item, cpc>> /\ tail' = Succ(tail)
  BY DEF PushAdvance
<1>3. new \in Items \cup {NULL}
  BY <1>1 DEF TypeOK
<1>4. Stored' = Stored + 1
  <2>1. head \in 0..(Size - 1) /\ tail \in 0..(Size - 1)
    BY DEF TypeOK, Slots
  <2>2. CASE tail + 1 = Size
    BY <1>1, <1>2, <2>1, <2>2 DEF Stored, Succ
  <2>3. CASE tail + 1 # Size
    BY <1>1, <1>2, <2>1, <2>3 DEF Stored, Succ
  <2> QED
    BY <2>2, <2>3
<1>5. \A n \in 1..Stored : SlotOf(n)' = SlotOf(n)
  BY <1>2 DEF SlotOf
<1>6. BufferedIs /\ BufferedIs'
  BY BufferedFacts, BufferedFactsNext
<1>7. Stored \in Nat /\ Stored < Size - 1 /\ SlotOf(Stored + 1) = tail
  BY <1>1, SlotOfFacts
<1>8. Buffered' = Append(Buffered, new)
  <2> HIDE DEF new
  <2>1. Append(Buffered, new) \in Seq(Items \cup {NULL})
    BY <1>3, <1>6, AppendProperties DEF BufferedIs
  <2>2. /\ Len(Append(Buffered, new)) = Stored + 1
        /\ \A n \in 1..Stored : Append(Buffered, new)[n] = Buffered[n]
        /\ Append(Buffered, new)[Stored + 1] = new
    BY <1>3, <1>6, AppendProperties DEF BufferedIs
  <2>3. Len(Buffered') = Stored + 1
    BY <1>4, <1>6 DEF BufferedIs
  <2>4. ASSUME NEW n \in 1..(Stored + 1)
        PROVE  Buffered'[n] = Append(Buffered, new)[n]
    <3>1. Buffered'[n] = q[SlotOf(n)]
      BY <1>2, <1>4, <1>6 DEF BufferedIs, SlotOf
    <3>2. CASE n \in 1..Stored
      BY <1>6, <2>2, <3>1, <3>2 DEF BufferedIs
    <3>3. CASE n = Stored + 1
      BY <1>1, <1>7, <2>2, <3>1, <3>3
    <3>4. n \in 1..Stored \/ n = Stored + 1
      BY <1>7
    <3> QED
      BY <3>2, <3>3, <3>4
  <2>5. Buffered' \in Seq(Items \cup {NULL})
    BY <1>6 DEF BufferedIs
  <2> QED
    BY <2>1, <2>2, <2>3, <2>4, <2>5, SeqEqual
<1>9. Held' = Held
  BY <1>2 DEF Held
<1> QED
  BY <1>1, <1>6, <1>7, <1>8, <1>9 DEF Fifo!Push, BufferedIs, PushAdvance

\* Moving head hands the oldest item over.
LEMMA ReadyPops ==
  ASSUME Inductive, Inductive', NEW c \in Consumers, PopReady(c)
  PROVE  Fifo!Pop(c)
<1> USE DEF Inductive, ring, wait, prod, cons
<1>1. /\ tail # Succ(head) /\ head' = Succ(head)
      /\ UNCHANGED <<q, tail, item, sent>>
      /\ cpc[c] = "wait" /\ cpc' = [cpc EXCEPT ![c] = "take"]
  BY DEF PopReady, CGoto
<1>2. BufferedIs /\ BufferedIs'
  BY BufferedFacts, BufferedFactsNext
<1>3. Stored \in Nat /\ Stored > 0 /\ SlotOf(1) = Succ(head)
  BY <1>1, SlotOfFacts
<1>4. Stored' = Stored - 1 /\ \A n \in 1..(Stored - 1) : SlotOf(n)' = SlotOf(n + 1)
  <2>1. Size \in Nat /\ head \in 0..(Size - 1) /\ tail \in 0..(Size - 1)
    BY SizeAssumption DEF TypeOK, Slots
  <2>2. CASE head + 1 = Size
    <3>1. head' = 0 /\ tail' = tail /\ tail # 0
      BY <1>1, <2>1, <2>2 DEF Succ
    <3>2. Stored = tail /\ Stored' = tail - 1
      BY <2>1, <2>2, <3>1 DEF Stored
    <3>3. ASSUME NEW n \in 1..(Stored - 1) PROVE SlotOf(n)' = SlotOf(n + 1)
      BY <2>1, <2>2, <3>1, <3>2 DEF SlotOf
    <3> QED
      BY <2>1, <3>2, <3>3
  <2>3. CASE head + 1 # Size
    <3>1. head' = head + 1 /\ tail' = tail /\ tail # head + 1
      BY <1>1, <2>3 DEF Succ
    <3>2. Stored' = Stored - 1
      BY <2>1, <3>1 DEF Stored
    <3>3. ASSUME NEW n \in 1..(Stored - 1) PROVE SlotOf(n)' = SlotOf(n + 1)
      BY <1>3, <2>1, <3>1 DEF SlotOf
    <3> QED
      BY <3>2, <3>3
  <2> QED
    BY <2>2, <2>3
<1>5. Buffered # <<>>
  BY <1>2, <1>3 DEF BufferedIs
<1>6. Head(Buffered) = q[Succ(head)]
  BY <1>2, <1>3, <1>5 DEF BufferedIs
<1>7. Buffered' = Tail(Buffered)
  <2>1. /\ Tail(Buffered) \in Seq(Items \cup {NULL})
        /\ Len(Tail(Buffered)) = Stored - 1
        /\ \A n \in 1..(Stored - 1) : Tail(Buffered)[n] = Buffered[n + 1]
    BY <1>2, <1>5, HeadTailProperties DEF BufferedIs
  <2>2. Buffered' \in Seq(Items \cup {NULL}) /\ Len(Buffered') = Stored - 1
    BY <1>2, <1>4 DEF BufferedIs
  <2>3. ASSUME NEW n \in 1..(Stored - 1)
        PROVE  Buffered'[n] = Tail(Buffered)[n]
    <3>1. Buffered'[n] = q[SlotOf(n)']
      BY <1>1, <1>2, <1>4 DEF BufferedIs
    <3>2. Buffered[n + 1] = q[SlotOf(n + 1)]
      BY <1>2, <1>3 DEF BufferedIs
    <3> QED
      BY <1>4, <2>1, <3>1, <3>2
  <2> QED
    BY <2>1, <2>2, <2>3, SeqEqual
<1>8. \A c2 \in Consumers : cpc[c2] # "take"
  BY <1>1 DEF Serialised, Popping
<1>9. Held = item /\ Held[c] = NULL
  BY <1>1, <1>8 DEF Held, TypeOK, Room
<1>10. Held' = [Held EXCEPT ![c] = q[Succ(head)]]
  BY <1>1, <1>8, <1>9 DEF Held, TypeOK
<1> QED
  BY <1>1, <1>5, <1>6, <1>7, <1>9, <1>10 DEF Fifo!Pop

\* Every step of the queue is a step of the bounded buffer, or leaves it alone.
LEMMA FifoStep ==
  Inductive /\ Inductive' /\ [Next]_vars => [Fifo!Next]_(Fifo!vars)
<1> SUFFICES ASSUME Inductive, Inductive', [Next]_vars
             PROVE  [Fifo!Next]_(Fifo!vars)
  OBVIOUS
<1> USE DEF Inductive, ring, wait, prod, cons
<1> DEFINE Stutter == Buffered' = Buffered /\ Held' = Held /\ sent' = sent
<1>1. ASSUME NEW p \in Producers, PushWrite(p) PROVE Stutter
  <2>1. /\ head # tail /\ UNCHANGED <<head, tail, item, cpc, sent>>
        /\ q' = [q EXCEPT ![tail] = <<p, sent[p] + 1>>]
    BY <1>1 DEF PushWrite, PGoto, Room
  <2>2. \A i \in Slots : i # tail => q'[i] = q[i]
    BY <2>1 DEF TypeOK
  <2>3. Buffered' = Buffered
    BY <2>1, <2>2, SlotOfFacts, BufferedSame
  <2>4. Held' = Held
    BY <2>1, <2>2, HeldSame DEF TypeOK
  <2> QED
    BY <2>1, <2>3, <2>4
<1>2. ASSUME NEW p \in Producers, PushAdvance(p) PROVE Fifo!Push(p)
  BY <1>2, AdvancePushes
<1>3. ASSUME NEW p \in Producers,
               \/ PushCall(p) \/ PushLock(p) \/ PushRoom(p) \/ PushUnlock(p)
               \/ PushNotify(p) \/ PushSignal(p) \/ PushNotified(p)
      PROVE  Stutter
  <2>1. UNCHANGED <<q, head, tail, item, cpc, sent>>
    BY <1>3 DEF PushCall, PushLock, PushRoom, PushUnlock, PushNotify,
                PushSignal, PushNotified
  <2> QED
    BY <2>1, BufferedSame, HeldSame
<1>4. ASSUME NEW c \in Consumers, PopHead(c) PROVE Stutter
  <2>1. q[head] = NULL /\ item[c] = NULL
    <3>1. \A c2 \in Consumers : cpc[c2] # "take"
      BY <1>4 DEF PopHead, CGoto, Serialised, Popping
    <3>2. \A p \in Producers : ppc[p] = "advance" => head # tail
      BY DEF Room
    <3>3. q[head] = NULL
      BY <3>1, <3>2 DEF TypeOK, Slots, SlotsAgree, Filled
    <3> QED
      BY <1>4, <3>3 DEF PopHead, CGoto, Room
  <2>2. UNCHANGED <<q, head, tail, item, sent>>
    BY <1>4, <2>1 DEF PopHead, TypeOK
  <2>3. \A c2 \in Consumers : cpc'[c2] = "take" <=> cpc[c2] = "take"
    BY <1>4 DEF PopHead, CGoto, TypeOK
  <2> QED
    BY <2>2, <2>3, BufferedSame, HeldSame
<1>5. ASSUME NEW c \in Consumers, PopReady(c) PROVE Fifo!Pop(c)
  BY <1>5, ReadyPops
<1>6. ASSUME NEW c \in Consumers, PopTake(c) PROVE Stutter
  <2>1. /\ UNCHANGED <<head, tail, sent>>
        /\ item' = [item EXCEPT ![c] = q[head]]
        /\ q' = [q EXCEPT ![head] = NULL]
        /\ cpc[c] = "take" /\ cpc' = [cpc EXCEPT ![c] = "unlock"]
    BY <1>6 DEF PopTake, CGoto
  <2>2. Buffered' = Buffered
    BY <2>1, SlotOfFacts, BufferedSame DEF TypeOK
  <2>3. \A c2 \in Consumers : cpc[c2] = "take" => c2 = c
    BY <2>1 DEF Serialised, Popping
  <2>4. Held' = Held
    BY <2>1, <2>3 DEF Held, TypeOK
  <2> QED
    BY <2>1, <2>2, <2>4
<1>7. ASSUME NEW c \in Consumers, PopReturn(c) PROVE Fifo!Done(c) \/ Stutter
  <2>1. /\ UNCHANGED <<q, head, tail, sent>>
        /\ item' = [item EXCEPT ![c] = NULL]
        /\ cpc[c] = "return"
        /\ \A c2 \in Consumers : cpc'[c2] = "take" <=> cpc[c2] = "take"
    BY <1>7 DEF PopReturn, CGoto, TypeOK
  <2>2. Buffered' = Buffered
    BY <2>1, BufferedSame
  <2>3. Held' = [Held EXCEPT ![c] = NULL] /\ Held[c] = item[c]
    BY <2>1 DEF Held, TypeOK
  <2>4. CASE item[c] = NULL
    BY <2>1, <2>2, <2>3, <2>4 DEF Held
  <2>5. CASE item[c] # NULL
    BY <2>1, <2>2, <2>3, <2>5 DEF Fifo!Done
  <2> QED
    BY <2>4, <2>5
<1>8. ASSUME NEW c \in Consumers,
               \/ PopLock(c) \/ PopGiveUp(c) \/ PopListen(c) \/ PopArm(c)
               \/ PopPolled(c) \/ PopTimeout(c) \/ PopUnlock(c)
               \/ ReleaseDrain(c) \/ ReleaseDisarm(c) \/ LoopListen(c)
               \/ LoopReadyRead(c) \/ LoopTimeout(c)
      PROVE  Stutter
  <2>1. UNCHANGED <<q, head, tail, item, sent>>
    BY <1>8 DEF PopLock, PopGiveUp, PopListen, PopArm, PopPolled, PopTimeout,
                PopUnlock, ReleaseDrain, ReleaseDisarm, LoopListen,
                LoopReadyRead, LoopTimeout
  <2>2. \A c2 \in Consumers : cpc'[c2] = "take" <=> cpc[c2] = "take"
    BY <1>8 DEF PopLock, PopGiveUp, PopListen, PopArm, PopPolled, PopTimeout,
                PopUnlock, ReleaseDrain, ReleaseDisarm, LoopListen,
                LoopReadyRead, LoopTimeout, CGoto, TypeOK
  <2> QED
    BY <2>1, <2>2, BufferedSame, HeldSame
<1>9. ASSUME Wakeup \/ UNCHANGED vars PROVE Stutter
  <2>1. UNCHANGED <<q, head, tail, item, cpc, sent>>
    BY <1>9 DEF Wakeup, vars
  <2> QED
    BY <2>1, BufferedSame, HeldSame
<1> QED
  BY <1>1, <1>2, <1>3, <1>4, <1>5, <1>6, <1>7, <1>8, <1>9
  DEF Next, Push, Pop, Fifo!Next, Fifo!vars

\* agoo_queue_push and agoo_queue_pop implement a bounded first-in first-out
\* buffer: no item is lost, duplicated or reordered.
THEOREM QueueIsFifo == Spec => ImplementsFifo
<1>1. Init => Fifo!Init
  <2> SUFFICES ASSUME Init PROVE Fifo!Init
    OBVIOUS
  <2>1. Stored = 0
    BY DEF Init, Stored
  <2>2. Buffered = <<>>
    BY <2>1 DEF Buffered
  <2>3. Held = [c \in Consumers |-> NULL]
    BY DEF Init, Held
  <2> QED
    BY <2>2, <2>3 DEF Init, Fifo!Init
<1> QED
  BY <1>1, FifoStep, InductiveHolds, PTL DEF Spec, Fifo!Spec, ImplementsFifo
=============================================================================
