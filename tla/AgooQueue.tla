------------------------------ MODULE AgooQueue ------------------------------
(***************************************************************************)
(* The ring buffer of src/ext/agoo/queue.c, step by step.                  *)
(*                                                                         *)
(* head and tail are atomics that many threads load; the slots are plain   *)
(* memory.  Pushers are serialised by the spin flag push_lock when the     *)
(* queue was made multi_push, poppers by pop_lock when it was made         *)
(* multi_pop.  A popper may block in poll() on a pipe which a pusher       *)
(* writes when it sees wait_state = WAITING, and for at most WAIT_MSECS    *)
(* at a time.                                                              *)
(*                                                                         *)
(* Two kinds of thread pop.  The eval threads (process_loop) call          *)
(* agoo_queue_pop with a timeout.  The connection loops (agoo_con_loop)    *)
(* listen once, pop with a zero timeout and leave the waiting to their     *)
(* epoll set, whose read handler releases the pipe before it pops.         *)
(*                                                                         *)
(* Each step below is one atomic access, or the accesses between two       *)
(* atomic ones that no other thread can observe.                           *)
(***************************************************************************)
EXTENDS Naturals, Sequences

CONSTANTS
    Producers,  \* threads that call agoo_queue_push
    Consumers,  \* threads that call agoo_queue_pop
    Loops,      \* the consumers that are connection loops
    Size,       \* the number of slots
    MultiPush,  \* q->multi_push
    MultiPop,   \* q->multi_pop
    PollCount,  \* how many times a pop with a timeout polls
    MaxPush,    \* bound on the number of pushes of a producer
    NULL        \* the empty slot

ASSUME SizeAssumption == Size \in Nat /\ Size >= 4
ASSUME ModeAssumption ==
    /\ MultiPush \in BOOLEAN /\ MultiPop \in BOOLEAN
    /\ ~MultiPush => \A p1, p2 \in Producers : p1 = p2
    /\ ~MultiPop => \A c1, c2 \in Consumers : c1 = c2
ASSUME BoundAssumption == PollCount \in Nat /\ MaxPush \in Nat
ASSUME LoopsAssumption == Loops \subseteq Consumers

Items == Producers \X (1..MaxPush)

ASSUME NullAssumption == NULL \notin Items

Slots == 0..(Size - 1)

VARIABLES
    q,          \* the slots
    head,       \* the slot popped last, which stays empty
    tail,       \* the slot to write next
    push_lock,  \* the two spin flags
    pop_lock,
    wait_state, \* "NOT_WAITING", "WAITING" or "NOTIFIED"
    sock,       \* TRUE when the pipe exists (rsock and wsock are set)
    pipe,       \* TRUE when the pipe is readable
    ppc,        \* ppc[p] is where producer p is in agoo_queue_push
    sent,       \* sent[p] is the number of items p has made visible
    cpc,        \* cpc[c] is where consumer c is in its loop
    item,       \* item[c] is what c popped
    cnt         \* cnt[c] is the number of polls c may still make

ring == <<q, head, tail>>
wait == <<wait_state, sock, pipe>>
prod == <<ppc, sent>>
cons == <<cpc, item, cnt>>
vars == <<ring, push_lock, pop_lock, wait, prod, cons>>

\* The slot after i: both functions wrap at q->end.
Succ(i) == IF i + 1 = Size THEN 0 ELSE i + 1

Init ==
    /\ q = [i \in Slots |-> NULL]
    /\ head = 0 /\ tail = 1
    /\ push_lock = FALSE /\ pop_lock = FALSE
    /\ wait_state = "NOT_WAITING" /\ sock = FALSE /\ pipe = FALSE
    /\ ppc = [p \in Producers |-> "idle"]
    /\ sent = [p \in Producers |-> 0]
    /\ cpc = [c \in Consumers |-> IF c \in Loops THEN "start" ELSE "pop"]
    /\ item = [c \in Consumers |-> NULL]
    /\ cnt = [c \in Consumers |-> 0]

-----------------------------------------------------------------------------
(* agoo_queue_push *)

PGoto(p, from, to) == ppc[p] = from /\ ppc' = [ppc EXCEPT ![p] = to]

PushCall(p) ==
    /\ sent[p] < MaxPush
    /\ PGoto(p, "idle", "lock")
    /\ UNCHANGED <<ring, push_lock, pop_lock, wait, sent, cons>>

\* Defect: the flag is tested and then set, as two accesses.
PushLockBroken(p) ==
    /\ PGoto(p, "lock", "full")
    /\ push_lock' = TRUE
    /\ UNCHANGED <<ring, pop_lock, wait, sent, cons>>

\* The spin on push_lock that opens the call.
PushLock(p) ==
    /\ PGoto(p, "lock", "full")
    /\ IF MultiPush THEN push_lock = FALSE /\ push_lock' = TRUE
                    ELSE UNCHANGED push_lock
    /\ UNCHANGED <<ring, pop_lock, wait, sent, cons>>

\* "Wait for head to move on."
PushRoom(p) ==
    /\ head # tail
    /\ PGoto(p, "full", "write")
    /\ UNCHANGED <<ring, push_lock, pop_lock, wait, sent, cons>>

PushWrite(p) ==
    /\ PGoto(p, "write", "advance")
    /\ q' = [q EXCEPT ![tail] = <<p, sent[p] + 1>>]
    /\ UNCHANGED <<head, tail, push_lock, pop_lock, wait, sent, cons>>

PushAdvance(p) ==
    /\ PGoto(p, "advance", "unlock")
    /\ tail' = Succ(tail)
    /\ sent' = [sent EXCEPT ![p] = @ + 1]
    /\ UNCHANGED <<q, head, push_lock, pop_lock, wait, cons>>

PushUnlock(p) ==
    /\ PGoto(p, "unlock", "notify")
    /\ push_lock' = IF MultiPush THEN FALSE ELSE push_lock
    /\ UNCHANGED <<ring, pop_lock, wait, sent, cons>>

\* The pusher looks for a waiting popper once the lock is free again, so that
\* several pushers may be in this part at a time.
PushNotify(p) ==
    /\ PGoto(p, "notify", IF sock /\ wait_state = "WAITING" THEN "signal"
                                                            ELSE "idle")
    /\ UNCHANGED <<ring, push_lock, pop_lock, wait, sent, cons>>

PushSignal(p) ==
    /\ PGoto(p, "signal", "notified")
    /\ pipe' = TRUE
    /\ UNCHANGED <<ring, push_lock, pop_lock, wait_state, sock, sent, cons>>

PushNotified(p) ==
    /\ PGoto(p, "notified", "idle")
    /\ wait_state' = "NOTIFIED"
    /\ UNCHANGED <<ring, push_lock, pop_lock, sock, pipe, sent, cons>>

Push(p) ==
    \/ PushLock(p) \/ PushRoom(p) \/ PushWrite(p) \/ PushAdvance(p)
    \/ PushUnlock(p) \/ PushNotify(p) \/ PushSignal(p) \/ PushNotified(p)

-----------------------------------------------------------------------------
(* agoo_queue_pop *)

CGoto(c, from, to) == cpc[c] = from /\ cpc' = [cpc EXCEPT ![c] = to]

\* Defect: no flag serialises the poppers.
PopLockBroken(c) ==
    /\ CGoto(c, "pop", "head")
    /\ UNCHANGED <<ring, push_lock, pop_lock, wait, prod, item, cnt>>

PopLock(c) ==
    /\ CGoto(c, "pop", "head")
    /\ IF MultiPop THEN pop_lock = FALSE /\ pop_lock' = TRUE
                   ELSE UNCHANGED pop_lock
    /\ UNCHANGED <<ring, push_lock, wait, prod, item, cnt>>

\* "item = *head": an item found in the head slot is taken at once.
PopHead(c) ==
    /\ CGoto(c, "head", IF q[head] # NULL THEN "unlock" ELSE "wait")
    /\ item' = [item EXCEPT ![c] = q[head]]
    /\ q' = [q EXCEPT ![head] = NULL]
    /\ cnt' = [cnt EXCEPT ![c] = IF c \in Loops THEN 0 ELSE PollCount]
    /\ UNCHANGED <<head, tail, push_lock, pop_lock, wait, prod>>

\* "If the next is the tail then wait for something to be appended."
PopReady(c) ==
    /\ tail # Succ(head)
    /\ CGoto(c, "wait", "take")
    /\ head' = Succ(head)
    /\ UNCHANGED <<q, tail, push_lock, pop_lock, wait, prod, item, cnt>>

PopGiveUp(c) ==
    /\ tail = Succ(head)
    /\ cnt[c] = 0
    /\ CGoto(c, "wait", "unlock")
    /\ UNCHANGED <<ring, push_lock, pop_lock, wait, prod, item, cnt>>

\* agoo_queue_listen makes the pipe once, then stores WAITING.
PopListen(c) ==
    /\ tail = Succ(head)
    /\ cnt[c] > 0
    /\ CGoto(c, "wait", "listen")
    /\ sock' = TRUE
    /\ UNCHANGED <<ring, push_lock, pop_lock, wait_state, pipe, prod, item, cnt>>

PopArm(c) ==
    /\ CGoto(c, "listen", "poll")
    /\ wait_state' = "WAITING"
    /\ UNCHANGED <<ring, push_lock, pop_lock, sock, pipe, prod, item, cnt>>

\* Defect: a readable pipe is taken to mean that there is an item.
PopPolledTrusts(c) ==
    /\ pipe
    /\ CGoto(c, "poll", "take")
    /\ head' = Succ(head)
    /\ UNCHANGED <<q, tail, push_lock, pop_lock, wait, prod, item, cnt>>

\* poll() reports that the pipe is readable, ...
PopPolled(c) ==
    /\ pipe
    /\ CGoto(c, "poll", "drain")
    /\ UNCHANGED <<ring, push_lock, pop_lock, wait, prod, item, cnt>>

\* ... or returns after WAIT_MSECS.
PopTimeout(c) ==
    /\ CGoto(c, "poll", "wait")
    /\ cnt' = [cnt EXCEPT ![c] = @ - 1]
    /\ UNCHANGED <<ring, push_lock, pop_lock, wait, prod, item>>

\* Defect: the slot is not emptied.
PopTakeKeeps(c) ==
    /\ CGoto(c, "take", "unlock")
    /\ item' = [item EXCEPT ![c] = q[head]]
    /\ UNCHANGED <<ring, push_lock, pop_lock, wait, prod, cnt>>

PopTake(c) ==
    /\ CGoto(c, "take", "unlock")
    /\ item' = [item EXCEPT ![c] = q[head]]
    /\ q' = [q EXCEPT ![head] = NULL]
    /\ UNCHANGED <<head, tail, push_lock, pop_lock, wait, prod, cnt>>

PopUnlock(c) ==
    /\ CGoto(c, "unlock", "return")
    /\ pop_lock' = IF MultiPop THEN FALSE ELSE pop_lock
    /\ UNCHANGED <<ring, push_lock, wait, prod, item, cnt>>

\* The caller handles the item, if any, and pops again; a connection loop that
\* got none goes to its epoll set first.
PopReturn(c) ==
    /\ CGoto(c, "return", IF c \in Loops /\ item[c] = NULL THEN "epoll"
                                                          ELSE "pop")
    /\ item' = [item EXCEPT ![c] = NULL]
    /\ UNCHANGED <<ring, push_lock, pop_lock, wait, prod, cnt>>

-----------------------------------------------------------------------------
(* agoo_queue_release, from a pop that was woken or from a read handler *)

\* First the pipe is read empty, ...
ReleaseDrain(c) ==
    /\ \/ CGoto(c, "drain", "disarm")
       \/ CGoto(c, "ready_drain", "ready_disarm")
    /\ pipe' = FALSE
    /\ UNCHANGED <<ring, push_lock, pop_lock, wait_state, sock, prod, item, cnt>>

\* ... then the wait state is reset.
ReleaseDisarm(c) ==
    /\ \/ /\ CGoto(c, "disarm", "wait")
          /\ cnt' = [cnt EXCEPT ![c] = @ - 1]
       \/ /\ CGoto(c, "ready_disarm", "pop")
          /\ UNCHANGED cnt
    /\ wait_state' = "NOT_WAITING"
    /\ UNCHANGED <<ring, push_lock, pop_lock, sock, pipe, prod, item>>

-----------------------------------------------------------------------------
(* The connection loops *)

\* agoo_con_loop listens on the queue before it starts.  That there is one pipe
\* is an abstraction: two loops that start together may each make one, and the
\* one that keeps the other then wakes by its timeout alone.
LoopListen(c) ==
    /\ CGoto(c, "start", "pop")
    /\ sock' = TRUE
    /\ wait_state' = "WAITING"
    /\ UNCHANGED <<ring, push_lock, pop_lock, pipe, prod, item, cnt>>

\* epoll_wait reports the pipe to the read handler of the queue, ...
LoopReadyRead(c) ==
    /\ pipe
    /\ CGoto(c, "epoll", "ready_drain")
    /\ UNCHANGED <<ring, push_lock, pop_lock, wait, prod, item, cnt>>

\* Defect: epoll_wait waits for the pipe alone.
LoopNoTimeout(c) == FALSE /\ UNCHANGED vars

\* ... or returns after MAX_WAIT.
LoopTimeout(c) ==
    /\ CGoto(c, "epoll", "pop")
    /\ UNCHANGED <<ring, push_lock, pop_lock, wait, prod, item, cnt>>

\* agoo_queue_wakeup, which the eval threads call on the connection queue
\* when a response is ready.
Wakeup ==
    /\ sock
    /\ pipe' = TRUE
    /\ UNCHANGED <<ring, push_lock, pop_lock, wait_state, sock, prod, cons>>

Pop(c) ==
    \/ PopLock(c) \/ PopHead(c) \/ PopReady(c) \/ PopGiveUp(c) \/ PopListen(c)
    \/ PopArm(c) \/ PopPolled(c) \/ PopTimeout(c) \/ PopTake(c) \/ PopUnlock(c)
    \/ PopReturn(c) \/ ReleaseDrain(c) \/ ReleaseDisarm(c) \/ LoopListen(c)
    \/ LoopReadyRead(c) \/ LoopTimeout(c)

Next ==
    \/ \E p \in Producers : PushCall(p) \/ Push(p)
    \/ \E c \in Consumers : Pop(c)
    \/ Wakeup

Spec == Init /\ [][Next]_vars

\* A thread inside push is scheduled, and so is the loop of a consumer; no
\* thread has to start a push and nobody has to call agoo_queue_wakeup.
FairSpec ==
    /\ Spec
    /\ \A p \in Producers : WF_vars(Push(p))
    /\ \A c \in Consumers : WF_vars(Pop(c))
-----------------------------------------------------------------------------
(* What the queue promises *)

PPlaces == {"idle", "lock", "full", "write", "advance", "unlock", "notify",
            "signal", "notified"}
CPlaces == {"start", "pop", "head", "wait", "listen", "poll", "drain", "disarm",
            "take", "unlock", "return", "epoll", "ready_drain", "ready_disarm"}

\* The type invariant: every field of struct _agooQueue (queue.h) and every
\* place of a thread in push, pop or listen is one the code knows.
TypeOK ==
    /\ q \in [Slots -> Items \cup {NULL}]
    /\ head \in Slots /\ tail \in Slots
    /\ push_lock \in BOOLEAN /\ pop_lock \in BOOLEAN
    /\ wait_state \in {"NOT_WAITING", "WAITING", "NOTIFIED"}
    /\ sock \in BOOLEAN /\ pipe \in BOOLEAN
    /\ ppc \in [Producers -> PPlaces]
    /\ sent \in [Producers -> 0..MaxPush]
    /\ cpc \in [Consumers -> CPlaces]
    /\ item \in [Consumers -> Items \cup {NULL}]
    /\ cnt \in [Consumers -> 0..PollCount]

\* Places between taking a spin flag and clearing it.
Pushing(p) == ppc[p] \in {"full", "write", "advance", "unlock"}
Popping(c) == cpc[c] \in {"head", "wait", "listen", "poll", "drain", "disarm",
                          "take", "unlock"}

\* The slots that hold an item a consumer may take: those after head and
\* before tail, round the ring.  All but head when head and tail meet.
Filled(i) == IF head < tail THEN head < i /\ i < tail ELSE i > head \/ i < tail

\* The spin flags serialise the pushers and the poppers (queue.c:80-84, 96-98,
\* 118-122): no two threads are inside, and the flag is up while one is.
Serialised ==
    /\ \A p \in Producers : Pushing(p) =>
           /\ MultiPush => push_lock
           /\ \A p2 \in Producers : Pushing(p2) => p2 = p
    /\ \A c \in Consumers : Popping(c) =>
           /\ MultiPop => pop_lock
           /\ \A c2 \in Consumers : Popping(c2) => c2 = c

\* A slot holds an item exactly when it is between head and tail, or is being
\* pushed to, or was passed by head and is being emptied: the non-atomic
\* accesses to the slots by pushers and poppers (queue.c:89, 123-126, 155-156)
\* never meet in one slot, and nothing is overwritten.
SlotsAgree ==
    \A i \in Slots :
        q[i] # NULL <=> \/ Filled(i)
                        \/ i = tail /\ \E p \in Producers : ppc[p] = "advance"
                        \/ i = head /\ \E c \in Consumers : cpc[c] = "take"

\* A pusher about to write has the tail slot to itself: it is empty and no
\* popper is reading it, though head may have moved since head and tail were
\* compared (queue.c:86-89).
WriteIsSafe ==
    \A p \in Producers : ppc[p] = "write" =>
        /\ q[tail] = NULL
        /\ head # tail
        /\ \A p2 \in Producers \ {p} : ppc[p2] \notin {"write", "advance"}

\* A pop that stopped waiting finds an item, and the head slot a pop looks at
\* first is empty, so that no item is taken twice or out of order
\* (queue.c:123-136, 154-156).
TakeIsSafe ==
    \A c \in Consumers :
        /\ cpc[c] = "take" => q[head] # NULL
        /\ cpc[c] = "head" => q[head] = NULL

\* What the invariants above take for granted: the room a pusher found stays
\* there until it has used it, since head only moves away from tail; an idle
\* consumer holds no item; the counters leave room for what follows.
Room ==
    /\ \A p \in Producers :
           /\ ppc[p] \in {"write", "advance"} => head # tail
           /\ ppc[p] \in {"lock", "full", "write", "advance"} => sent[p] < MaxPush
           /\ ppc[p] = "advance" => q[tail] = <<p, sent[p] + 1>>
    /\ \A c \in Consumers :
           /\ cpc[c] \in {"listen", "poll", "drain", "disarm"} => cnt[c] > 0
           /\ cpc[c] \notin {"unlock", "return"} => item[c] = NULL

\* The inductive invariant of agoo_queue_push and agoo_queue_pop (queue.c:76-161)
\* behind WriteIsSafe, TakeIsSafe and the refinement.
Inductive == TypeOK /\ Serialised /\ SlotsAgree /\ Room

\* The number of items in the ring, and the slot of the n-th of them.
Stored == IF head < tail THEN tail - head - 1 ELSE tail + Size - head - 1
SlotOf(n) == IF head + n < Size THEN head + n ELSE head + n - Size

\* The items in the ring, the oldest first, and those that were popped: a pop
\* takes effect when it moves head, before it has read the slot.
Buffered == [n \in 1..Stored |-> q[SlotOf(n)]]
Held == [c \in Consumers |-> IF cpc[c] = "take" THEN q[head] ELSE item[c]]

Fifo == INSTANCE BoundedFifo WITH
    Capacity <- Size - 1, fifo <- Buffered, hand <- Held

\* agoo_queue_push and agoo_queue_pop implement a bounded first-in first-out
\* buffer of Size - 1 items (queue.c:77-161).
ImplementsFifo == Fifo!Spec

\* Every push returns: the spins on push_lock and on a full ring end as long
\* as the consumers keep popping (queue.c:80-88).
PushReturns == \A p \in Producers : ppc[p] = "lock" ~> ppc[p] = "idle"

\* An item that was pushed reaches a consumer, although the check of
\* wait_state by the pusher (queue.c:99) and the listen and release of the
\* poppers can lose a wakeup: the timeouts of poll and epoll_wait repair that.
Delivered ==
    \A p \in Producers, n \in 1..MaxPush :
        sent[p] >= n ~> \A i \in Slots : q[i] # <<p, n>>
=============================================================================
