------------------------- MODULE WorkBufferRefinement -------------------------
(***************************************************************************)
(* The SodaMachine implements the bounded queue of RequestQueue.  The      *)
(* queue is the part of the ring between the two cursors; a request enters *)
(* it when the master stores its record and leaves it when a worker moves  *)
(* `front' past it.                                                        *)
(***************************************************************************)
EXTENDS WorkBuffer, Sequences

waiting == [i \in 1 .. rear - front |-> buf[(front + i) % Capacity]]

Queue == INSTANCE RequestQueue
            WITH queue <- waiting, arrived <- rear, held <- info

\* The ring with its three semaphores behaves as a bounded FIFO queue:
\* nothing is lost, duplicated or reordered between accept and handleRequest.
ImplementsQueue == Queue!QSpec
=============================================================================
