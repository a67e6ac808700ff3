----------------------------- MODULE RequestQueue -----------------------------
(***************************************************************************)
(* What the SodaMachine promises its callers: a bounded first-in first-out *)
(* queue.  Connections enter in the order in which they were accepted,     *)
(* never more than Capacity of them wait, and each one leaves in the hands *)
(* of exactly one worker.                                                  *)
(***************************************************************************)
EXTENDS Integers, Sequences

CONSTANTS Workers, Capacity, NoInfo

VARIABLES
    queue,   \* the requests waiting, oldest first
    arrived, \* how many requests have ever entered
    held     \* the request each worker is busy with

qvars == <<queue, arrived, held>>

QInit ==
    /\ queue = <<>>
    /\ arrived = 0
    /\ held = [w \in Workers |-> NoInfo]

\* insertFd, seen from outside.
Enqueue ==
    /\ Len(queue) < Capacity
    /\ queue' = Append(queue, arrived)
    /\ arrived' = arrived + 1
    /\ UNCHANGED held

\* removeFd, seen from outside.
Dequeue(w) ==
    /\ queue # <<>>
    /\ held[w] = NoInfo
    /\ held' = [held EXCEPT ![w] = Head(queue)]
    /\ queue' = Tail(queue)
    /\ UNCHANGED arrived

\* The worker is done with its connection.
Release(w) ==
    /\ held[w] # NoInfo
    /\ held' = [held EXCEPT ![w] = NoInfo]
    /\ UNCHANGED <<queue, arrived>>

QNext == Enqueue \/ \E w \in Workers : Dequeue(w) \/ Release(w)

QSpec == QInit /\ [][QNext]_qvars
=============================================================================
