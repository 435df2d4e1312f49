---------------------------- MODULE BoundedFifo ----------------------------
(***************************************************************************)
(* What the raw-frame queue promises to the capture pipeline: a bounded    *)
(* first-in first-out buffer.  Whatever is enqueued is delivered whole, in *)
(* order and once.  A refused push and an empty poll are stuttering steps. *)
(***************************************************************************)
EXTENDS Naturals, Sequences

CONSTANTS Items,     \* what can be enqueued
          Capacity   \* how many items fit

VARIABLES queue,     \* enqueued, not delivered yet
          delivered  \* everything delivered, in order

fifoVars == <<queue, delivered>>

Init == queue = << >> /\ delivered = << >>

Enqueue(x) == /\ Len(queue) < Capacity
              /\ queue' = Append(queue, x)
              /\ UNCHANGED delivered

Dequeue == /\ queue # << >>
           /\ queue' = Tail(queue)
           /\ delivered' = Append(delivered, Head(queue))

Next == Dequeue \/ \E x \in Items : Enqueue(x)

Spec == Init /\ [][Next]_fifoVars
=============================================================================
