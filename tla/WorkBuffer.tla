------------------------------ MODULE WorkBuffer ------------------------------
(***************************************************************************)
(* The SodaMachine of WorkBuffer.cpp, the bounded buffer through which the *)
(* master thread of proxy.cpp hands accepted connections to the detached   *)
(* worker threads: a ring of Capacity ClientInfo records, two cursors that *)
(* only grow, and three semaphores.                                        *)
(*                                                                         *)
(* A ClientInfo is represented by its UUID, the value of main's counter    *)
(* requestUUID.  Every semaphore operation is a step of its own, and so is *)
(* each half of `++this->front', because two workers may be inside         *)
(* removeFd at once and only `mutex' keeps their halves apart.             *)
(***************************************************************************)
EXTENDS Integers, FiniteSets

CONSTANTS
    Workers,      \* the threads running targetFunc
    Capacity,     \* NUM_BUFFER
    MaxRequests,  \* bound of the model: connections accepted in a behaviour
    Hanging       \* requests whose handler never returns (see nopServer.py)

ASSUME WorkBufferAssumption ==
    /\ IsFiniteSet(Workers)
    /\ Capacity \in Nat \ {0}
    /\ MaxRequests \in Nat
    /\ Hanging \subseteq Nat

\* A default-constructed ClientInfo: no request.
NoInfo == -1

VARIABLES
    buf,          \* the ring
    front, rear,  \* cursors of the last record taken and the last stored
    mutex,        \* guards the ring and the cursors
    slots, items, \* free and filled places
    requestUUID,  \* main's counter of accepted connections
    mpc,          \* where the master thread is
    wpc,          \* where each worker is
    next,         \* each worker's register holding front + 1
    info          \* each worker's local ClientInfo

vars == <<buf, front, rear, mutex, slots, items, requestUUID,
          mpc, wpc, next, info>>

\* The master is named for the statement it runs next.
MasterPlaces == {"accept", "wait", "lock", "store", "unlock", "post"}
WorkerPlaces == {"wait", "lock", "load", "take", "unlock", "post", "serve"}

TypeOK ==
    /\ buf \in [0 .. Capacity - 1 -> Nat \cup {NoInfo}]
    /\ front \in Nat
    /\ rear \in Nat
    /\ mutex \in {0, 1}
    /\ slots \in Nat
    /\ items \in Nat
    /\ requestUUID \in Nat
    /\ mpc \in MasterPlaces
    /\ wpc \in [Workers -> WorkerPlaces]
    /\ next \in [Workers -> Nat]
    /\ info \in [Workers -> Nat \cup {NoInfo}]

Init ==
    /\ buf = [i \in 0 .. Capacity - 1 |-> NoInfo]
    /\ front = 0
    /\ rear = 0
    /\ mutex = 1
    /\ slots = Capacity
    /\ items = 0
    /\ requestUUID = 0
    /\ mpc = "accept"
    /\ wpc = [w \in Workers |-> "wait"]
    /\ next = [w \in Workers |-> 0]
    /\ info = [w \in Workers |-> NoInfo]

-----------------------------------------------------------------------------
(***************************************************************************)
(* The master thread: main's accept loop and insertFd.                     *)
(***************************************************************************)

\* The record the master built for the connection it accepted last.
clientInfo == requestUUID - 1

MasterAt(from, to) == mpc = from /\ mpc' = to

Accept ==
    /\ requestUUID < MaxRequests
    /\ MasterAt("accept", "wait")
    /\ requestUUID' = requestUUID + 1
    /\ UNCHANGED <<buf, front, rear, mutex, slots, items, wpc, next, info>>

\* Mutant: the master does not wait for a free place.
InsertWithoutSlot ==
    /\ MasterAt("wait", "lock")
    /\ UNCHANGED <<buf, front, rear, mutex, slots, items, requestUUID, wpc, next, info>>

InsertWaitSlot ==
    /\ slots > 0
    /\ MasterAt("wait", "lock")
    /\ slots' = slots - 1
    /\ UNCHANGED <<buf, front, rear, mutex, items, requestUUID, wpc, next, info>>

InsertLock ==
    /\ mutex = 1
    /\ MasterAt("lock", "store")
    /\ mutex' = 0
    /\ UNCHANGED <<buf, front, rear, slots, items, requestUUID, wpc, next, info>>

\* Mutant: `rear++' in place of `++rear'.
InsertStorePostIncrement ==
    /\ MasterAt("store", "unlock")
    /\ rear' = rear + 1
    /\ buf' = [buf EXCEPT ![rear % Capacity] = clientInfo]
    /\ UNCHANGED <<front, mutex, slots, items, requestUUID, wpc, next, info>>

InsertStore ==
    /\ MasterAt("store", "unlock")
    /\ rear' = rear + 1
    /\ buf' = [buf EXCEPT ![(rear + 1) % Capacity] = clientInfo]
    /\ UNCHANGED <<front, mutex, slots, items, requestUUID, wpc, next, info>>

InsertUnlock ==
    /\ MasterAt("unlock", "post")
    /\ mutex' = mutex + 1
    /\ UNCHANGED <<buf, front, rear, slots, items, requestUUID, wpc, next, info>>

\* Mutant: the V(items) is missing.
InsertWithoutPost ==
    /\ MasterAt("post", "accept")
    /\ UNCHANGED <<buf, front, rear, mutex, slots, items, requestUUID, wpc, next, info>>

InsertPostItem ==
    /\ MasterAt("post", "accept")
    /\ items' = items + 1
    /\ UNCHANGED <<buf, front, rear, mutex, slots, requestUUID, wpc, next, info>>

insertFd == \/ InsertWaitSlot \/ InsertLock \/ InsertStore
            \/ InsertUnlock \/ InsertPostItem

-----------------------------------------------------------------------------
(***************************************************************************)
(* A worker thread: the endless loop of targetFunc and removeFd.           *)
(***************************************************************************)
WorkerAt(w, from, to) == wpc[w] = from /\ wpc' = [wpc EXCEPT ![w] = to]

\* Mutant: the P(items) is missing.
RemoveWithoutItem(w) ==
    /\ WorkerAt(w, "wait", "lock")
    /\ UNCHANGED <<buf, front, rear, mutex, slots, items, requestUUID, mpc, next, info>>

RemoveWaitItem(w) ==
    /\ items > 0
    /\ WorkerAt(w, "wait", "lock")
    /\ items' = items - 1
    /\ UNCHANGED <<buf, front, rear, mutex, slots, requestUUID, mpc, next, info>>

\* Mutant: the P(mutex) of removeFd is missing.
RemoveWithoutLock(w) ==
    /\ WorkerAt(w, "lock", "load")
    /\ UNCHANGED <<buf, front, rear, mutex, slots, items, requestUUID, mpc, next, info>>

RemoveLock(w) ==
    /\ mutex = 1
    /\ WorkerAt(w, "lock", "load")
    /\ mutex' = 0
    /\ UNCHANGED <<buf, front, rear, slots, items, requestUUID, mpc, next, info>>

RemoveLoad(w) ==
    /\ WorkerAt(w, "load", "take")
    /\ next' = [next EXCEPT ![w] = front + 1]
    /\ UNCHANGED <<buf, front, rear, mutex, slots, items, requestUUID, mpc, info>>

RemoveTake(w) ==
    /\ WorkerAt(w, "take", "unlock")
    /\ front' = next[w]
    /\ info' = [info EXCEPT ![w] = buf[next[w] % Capacity]]
    /\ UNCHANGED <<buf, rear, mutex, slots, items, requestUUID, mpc, next>>

RemoveUnlock(w) ==
    /\ WorkerAt(w, "unlock", "post")
    /\ mutex' = mutex + 1
    /\ UNCHANGED <<buf, front, rear, slots, items, requestUUID, mpc, next, info>>

RemovePostSlot(w) ==
    /\ WorkerAt(w, "post", "serve")
    /\ slots' = slots + 1
    /\ UNCHANGED <<buf, front, rear, mutex, items, requestUUID, mpc, next, info>>

removeFd(w) == \/ RemoveWaitItem(w) \/ RemoveLock(w) \/ RemoveLoad(w)
               \/ RemoveTake(w) \/ RemoveUnlock(w) \/ RemovePostSlot(w)

\* handleRequest returns, the descriptor is closed and the loop starts over.
Finish(w) ==
    /\ info[w] \notin Hanging
    /\ WorkerAt(w, "serve", "wait")
    /\ info' = [info EXCEPT ![w] = NoInfo]
    /\ UNCHANGED <<buf, front, rear, mutex, slots, items, requestUUID, mpc, next>>

targetFunc(w) == removeFd(w) \/ Finish(w)

-----------------------------------------------------------------------------
\* The bound is reached and every thread rests where the program lets it:
\* the master in accept, a worker in P(items) or in a handler that hangs.
Quiescent ==
    /\ requestUUID = MaxRequests
    /\ mpc = "accept"
    /\ \A w \in Workers :
          \/ wpc[w] = "wait" /\ items = 0
          \/ wpc[w] = "serve" /\ info[w] \in Hanging
    /\ UNCHANGED vars

Next ==
    \/ Accept
    \/ insertFd
    \/ \E w \in Workers : targetFunc(w)
    \/ Quiescent

\* The scheduler runs every thread; no client is obliged to connect.
Fairness ==
    /\ WF_vars(insertFd)
    /\ \A w \in Workers : WF_vars(targetFunc(w))

SafeSpec == Init /\ [][Next]_vars
Spec == SafeSpec /\ Fairness

-----------------------------------------------------------------------------
(***************************************************************************)
(* Properties.                                                             *)
(***************************************************************************)

\* When the master is about to store into the ring, the place it overwrites
\* is not one whose request is still waiting for a worker (insertFd's
\* P(slots) against removeFd's V(slots), which comes after the unlock).
NoWaitingRequestOverwritten ==
    mpc = "store" => rear + 1 - front <= Capacity

\* A worker that is about to take finds a stored request, and its view of
\* the cursor is current: nobody moved front between its two halves of
\* `++this->front'.
TakeFindsRequest ==
    \A w \in Workers : wpc[w] = "take" => next[w] = front + 1 /\ next[w] <= rear

\* No two workers ever serve the same connection (and close its descriptor
\* twice), and none serves a default-constructed record.
ServedByOneWorker ==
    /\ \A w \in Workers : wpc[w] \in {"unlock", "post", "serve"} => info[w] \in Nat
    /\ \A v, w \in Workers : v # w /\ info[v] # NoInfo => info[v] # info[w]

\* Every accepted connection reaches a worker, although the handlers of the
\* requests in Hanging never return, as long as they do not occupy every
\* worker (README.md 0.2.1 tests this with nopServer.py).
AcceptedIsServed ==
    \A r \in 0 .. MaxRequests - 1 :
        (front <= r /\ r < requestUUID) ~> (\E w \in Workers : info[w] = r)
=============================================================================
