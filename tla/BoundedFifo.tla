----------------------------- MODULE BoundedFifo -----------------------------
(***************************************************************************)
(* What agoo_queue_push and agoo_queue_pop promise the threads that share  *)
(* an agooQueue: a first-in first-out buffer of bounded capacity.  The     *)
(* n-th item that producer p pushes is the pair <<p, n>>, so the contents  *)
(* of the buffer say what was lost, duplicated or reordered.               *)
(***************************************************************************)
EXTENDS Naturals, Sequences

CONSTANTS
    Producers,  \* threads that push
    Consumers,  \* threads that pop
    Capacity,   \* the number of items the queue can hold
    MaxPush,    \* bound on the number of pushes of a producer
    NULL        \* the value agoo_queue_pop returns when there is no item

VARIABLES
    fifo,       \* the items pushed and not yet popped, oldest first
    hand,       \* hand[c] is the item consumer c popped and still handles
    sent        \* sent[p] is the number of items p has pushed

vars == <<fifo, hand, sent>>

Init ==
    /\ fifo = <<>>
    /\ hand = [c \in Consumers |-> NULL]
    /\ sent = [p \in Producers |-> 0]

\* The next item of p becomes visible to the consumers.
Push(p) ==
    /\ Len(fifo) < Capacity
    /\ sent[p] < MaxPush
    /\ fifo' = Append(fifo, <<p, sent[p] + 1>>)
    /\ sent' = [sent EXCEPT ![p] = @ + 1]
    /\ UNCHANGED hand

\* The oldest item passes to a consumer that holds none.
Pop(c) ==
    /\ hand[c] = NULL
    /\ fifo # <<>>
    /\ hand' = [hand EXCEPT ![c] = Head(fifo)]
    /\ fifo' = Tail(fifo)
    /\ UNCHANGED sent

\* The consumer is done with its item.
Done(c) ==
    /\ hand[c] # NULL
    /\ hand' = [hand EXCEPT ![c] = NULL]
    /\ UNCHANGED <<fifo, sent>>

Next ==
    \/ \E p \in Producers : Push(p)
    \/ \E c \in Consumers : Pop(c) \/ Done(c)

Spec == Init /\ [][Next]_vars
=============================================================================
