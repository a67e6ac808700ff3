--------------------------- MODULE WorkBufferProofs ---------------------------
(***************************************************************************)
(* Proofs about the SodaMachine, for every set of workers, every capacity  *)
(* and every number of requests.                                           *)
(*                                                                         *)
(* The three semaphores only mean something together: what slots and items *)
(* count is the distance between the cursors corrected by the threads that *)
(* are between a P and its cursor step, or between a cursor step and its   *)
(* V.  IInv states that accounting, the mutual exclusion that `mutex'      *)
(* gives, and what the ring and the workers' records hold.                 *)
(***************************************************************************)
EXTENDS WorkBufferRefinement, FiniteSetTheorems, TLAPS

MasterInside == mpc \in {"store", "unlock"}
Inside(w) == wpc[w] \in {"load", "take", "unlock"}

\* mutex is taken exactly when one thread is in its critical section.
MutexInv ==
    /\ mutex = 1 <=> ~MasterInside /\ \A w \in Workers : ~Inside(w)
    /\ MasterInside => \A w \in Workers : ~Inside(w)
    /\ \A v, w \in Workers : Inside(v) /\ Inside(w) => v = w

\* Workers that own an item they have not taken, and workers that have
\* emptied a place without giving it back.
Claiming == {w \in Workers : wpc[w] \in {"lock", "load", "take"}}
Returning == {w \in Workers : wpc[w] \in {"unlock", "post"}}

MasterClaims == IF mpc \in {"lock", "store"} THEN 1 ELSE 0
MasterReturns == IF mpc \in {"unlock", "post"} THEN 1 ELSE 0

\* What the counters of the two semaphores stand for.
CountInv ==
    /\ slots + MasterClaims + Cardinality(Returning) = Capacity - (rear - front)
    /\ items + MasterReturns + Cardinality(Claiming) = rear - front

\* The n-th request stored is the n-th accepted.
OrderInv ==
    requestUUID = IF mpc \in {"wait", "lock", "store"} THEN rear + 1 ELSE rear

\* The ring holds the waiting requests in the order of their arrival.
RingInv == \A i \in front + 1 .. rear : buf[i % Capacity] = i - 1

\* What each worker's registers hold.
RecordInv ==
    /\ \A w \in Workers : wpc[w] = "take" => next[w] = front + 1
    /\ \A w \in Workers :
          IF wpc[w] \in {"unlock", "post", "serve"}
          THEN info[w] \in 0 .. front - 1
          ELSE info[w] = NoInfo
    /\ \A v, w \in Workers : v # w /\ info[v] # NoInfo => info[v] # info[w]

IInv == TypeOK /\ MutexInv /\ CountInv /\ OrderInv /\ RingInv /\ RecordInv

-----------------------------------------------------------------------------
(***************************************************************************)
(* Arithmetic of the ring.                                                 *)
(***************************************************************************)

\* `cursor % capacity' is a valid index of the vector.
LEMMA IndexInRing ==
    ASSUME NEW i \in Nat
    PROVE  i % Capacity \in 0 .. Capacity - 1
BY WorkBufferAssumption

\* Two cursor values less than a full turn apart name different places.
LEMMA PlacesDiffer ==
    ASSUME NEW i \in Nat, NEW j \in Nat, i < j, j < i + Capacity
    PROVE  i % Capacity # j % Capacity
<1>1. SUFFICES ASSUME i % Capacity = j % Capacity PROVE FALSE
  OBVIOUS
<1> DEFINE p == i \div Capacity
           q == j \div Capacity
<1>2. /\ p \in Int /\ q \in Int
      /\ i = Capacity * p + (i % Capacity)
      /\ j = Capacity * q + (j % Capacity)
  BY WorkBufferAssumption
<1> HIDE DEF p, q
<1>3. j - i = Capacity * (q - p)
  BY <1>1, <1>2, WorkBufferAssumption
<1>4. CASE q - p <= 0
  <2>1. Capacity * (q - p) <= 0
    BY <1>2, <1>4, WorkBufferAssumption
  <2> QED BY <2>1, <1>3
<1>5. CASE q - p >= 1
  <2>1. Capacity * (q - p) >= Capacity
    BY <1>2, <1>5, WorkBufferAssumption
  <2> QED BY <2>1, <1>3, WorkBufferAssumption
<1> QED BY <1>2, <1>4, <1>5

-----------------------------------------------------------------------------
(***************************************************************************)
(* Type correctness.                                                       *)
(***************************************************************************)

\* Every variable of the buffer keeps its type; the counters of the
\* semaphores never go below zero (P blocks) and mutex stays binary only
\* because of MutexInv, so the two invariants are proved together below.
LEMMA TypeStep ==
    ASSUME TypeOK, MutexInv, [Next]_vars
    PROVE  TypeOK'
<1> USE WorkBufferAssumption DEF TypeOK, MasterPlaces, WorkerPlaces
<1>1. CASE Accept
  BY <1>1 DEF Accept, MasterAt
<1>2. CASE InsertWaitSlot
  BY <1>2 DEF InsertWaitSlot, MasterAt
<1>3. CASE InsertLock
  BY <1>3 DEF InsertLock, MasterAt
<1>4. CASE InsertStore
  <2>1. clientInfo \in Nat \cup {NoInfo}
    BY DEF clientInfo, NoInfo
  <2> QED BY <1>4, <2>1 DEF InsertStore, MasterAt
<1>5. CASE InsertUnlock
  BY <1>5 DEF InsertUnlock, MasterAt, MutexInv, MasterInside
<1>6. CASE InsertPostItem
  BY <1>6 DEF InsertPostItem, MasterAt
<1>7. ASSUME NEW w \in Workers, targetFunc(w)
      PROVE  TypeOK'
  <2>1. CASE RemoveWaitItem(w)
    BY <2>1 DEF RemoveWaitItem, WorkerAt
  <2>2. CASE RemoveLock(w)
    BY <2>2 DEF RemoveLock, WorkerAt
  <2>3. CASE RemoveLoad(w)
    BY <2>3 DEF RemoveLoad, WorkerAt
  <2>4. CASE RemoveTake(w)
    <3>1. buf[next[w] % Capacity] \in Nat \cup {NoInfo}
      BY IndexInRing
    <3> QED BY <2>4, <3>1 DEF RemoveTake, WorkerAt
  <2>5. CASE RemoveUnlock(w)
    BY <2>5 DEF RemoveUnlock, WorkerAt, MutexInv, Inside
  <2>6. CASE RemovePostSlot(w)
    BY <2>6 DEF RemovePostSlot, WorkerAt
  <2>7. CASE Finish(w)
    BY <2>7 DEF Finish, WorkerAt
  <2> QED BY <1>7, <2>1, <2>2, <2>3, <2>4, <2>5, <2>6, <2>7 DEF targetFunc, removeFd
<1>8. CASE UNCHANGED vars
  BY <1>8 DEF vars
<1> QED BY <1>1, <1>2, <1>3, <1>4, <1>5, <1>6, <1>7, <1>8 DEF Next, insertFd, Quiescent

-----------------------------------------------------------------------------
(***************************************************************************)
(* Preservation of the parts of the inductive invariant.                   *)
(***************************************************************************)

\* The semaphore mutex keeps the critical sections of insertFd and of
\* removeFd apart.
LEMMA MutexStep ==
    ASSUME TypeOK, MutexInv, [Next]_vars
    PROVE  MutexInv'
<1> USE DEF TypeOK, MutexInv, MasterInside, Inside
<1>1. CASE Accept
  BY <1>1 DEF Accept, MasterAt
<1>2. CASE InsertWaitSlot
  BY <1>2 DEF InsertWaitSlot, MasterAt
<1>3. CASE InsertLock
  BY <1>3 DEF InsertLock, MasterAt
<1>4. CASE InsertStore
  BY <1>4 DEF InsertStore, MasterAt
<1>5. CASE InsertUnlock
  BY <1>5 DEF InsertUnlock, MasterAt
<1>6. CASE InsertPostItem
  BY <1>6 DEF InsertPostItem, MasterAt
<1>7. ASSUME NEW w \in Workers, targetFunc(w)
      PROVE  MutexInv'
  <2>1. CASE RemoveWaitItem(w)
    BY <2>1 DEF RemoveWaitItem, WorkerAt
  <2>2. CASE RemoveLock(w)
    BY <2>2 DEF RemoveLock, WorkerAt
  <2>3. CASE RemoveLoad(w)
    BY <2>3 DEF RemoveLoad, WorkerAt
  <2>4. CASE RemoveTake(w)
    BY <2>4 DEF RemoveTake, WorkerAt
  <2>5. CASE RemoveUnlock(w)
    BY <2>5 DEF RemoveUnlock, WorkerAt
  <2>6. CASE RemovePostSlot(w)
    BY <2>6 DEF RemovePostSlot, WorkerAt
  <2>7. CASE Finish(w)
    BY <2>7 DEF Finish, WorkerAt
  <2> QED BY <1>7, <2>1, <2>2, <2>3, <2>4, <2>5, <2>6, <2>7 DEF targetFunc, removeFd
<1>8. CASE UNCHANGED vars
  BY <1>8 DEF vars
<1> QED BY <1>1, <1>2, <1>3, <1>4, <1>5, <1>6, <1>7, <1>8 DEF Next, insertFd, Quiescent

\* The sets that CountInv measures are finite.
LEMMA CountsFinite ==
    /\ IsFiniteSet(Claiming) /\ IsFiniteSet(Returning)
    /\ Cardinality(Claiming) \in Nat /\ Cardinality(Returning) \in Nat
<1>1. Claiming \subseteq Workers /\ Returning \subseteq Workers
  BY DEF Claiming, Returning
<1> QED BY <1>1, FS_Subset, FS_CardinalityType, WorkBufferAssumption

\* slots and items count what CountInv says: every P and V is paired with
\* the cursor step it accounts for.
LEMMA CountStep ==
    ASSUME TypeOK, RecordInv, CountInv, [Next]_vars
    PROVE  CountInv'
<1> USE DEF CountInv, MasterClaims, MasterReturns
<1>0. /\ IsFiniteSet(Claiming) /\ IsFiniteSet(Returning)
      /\ Cardinality(Claiming) \in Nat /\ Cardinality(Returning) \in Nat
      /\ front \in Nat /\ rear \in Nat /\ slots \in Nat /\ items \in Nat
      /\ Capacity \in Nat
  BY CountsFinite, WorkBufferAssumption DEF TypeOK
<1>1. ASSUME UNCHANGED wpc
      PROVE  Claiming' = Claiming /\ Returning' = Returning
  BY <1>1 DEF Claiming, Returning
<1>2. CASE Accept
  BY <1>2, <1>1, <1>0 DEF Accept, MasterAt
<1>3. CASE InsertWaitSlot
  BY <1>3, <1>1, <1>0 DEF InsertWaitSlot, MasterAt
<1>4. CASE InsertLock
  BY <1>4, <1>1, <1>0 DEF InsertLock, MasterAt
<1>5. CASE InsertStore
  <2>1. /\ mpc = "store" /\ mpc' = "unlock" /\ rear' = rear + 1
        /\ UNCHANGED <<front, slots, items, wpc>>
    BY <1>5 DEF InsertStore, MasterAt
  <2> QED BY <2>1, <1>1, <1>0
<1>6. CASE InsertUnlock
  BY <1>6, <1>1, <1>0 DEF InsertUnlock, MasterAt
<1>7. CASE InsertPostItem
  BY <1>7, <1>1, <1>0 DEF InsertPostItem, MasterAt
<1>8. ASSUME NEW w \in Workers, targetFunc(w)
      PROVE  CountInv'
  <2>1. CASE RemoveWaitItem(w)
    <3>1. /\ Claiming' = Claiming \cup {w} /\ w \notin Claiming
          /\ Returning' = Returning
      BY <2>1 DEF RemoveWaitItem, WorkerAt, TypeOK, Claiming, Returning
    <3>2. Cardinality(Claiming') = Cardinality(Claiming) + 1
      BY <3>1, <1>0, FS_AddElement
    <3>3. items > 0 /\ items' = items - 1 /\ UNCHANGED <<front, rear, slots, mpc>>
      BY <2>1 DEF RemoveWaitItem
    <3> QED BY <3>1, <3>2, <3>3, <1>0
  <2>2. CASE RemoveLock(w)
    <3>1. Claiming' = Claiming /\ Returning' = Returning
      BY <2>2 DEF RemoveLock, WorkerAt, TypeOK, Claiming, Returning
    <3> QED BY <2>2, <3>1 DEF RemoveLock
  <2>3. CASE RemoveLoad(w)
    <3>1. Claiming' = Claiming /\ Returning' = Returning
      BY <2>3 DEF RemoveLoad, WorkerAt, TypeOK, Claiming, Returning
    <3> QED BY <2>3, <3>1 DEF RemoveLoad
  <2>4. CASE RemoveTake(w)
    <3>1. /\ Claiming' = Claiming \ {w} /\ w \in Claiming
          /\ Returning' = Returning \cup {w} /\ w \notin Returning
      BY <2>4 DEF RemoveTake, WorkerAt, TypeOK, Claiming, Returning
    <3>2. /\ Cardinality(Claiming') = Cardinality(Claiming) - 1
          /\ Cardinality(Returning') = Cardinality(Returning) + 1
      BY <3>1, <1>0, FS_AddElement, FS_RemoveElement
    <3>3. front' = front + 1 /\ UNCHANGED <<rear, slots, items, mpc>>
      BY <2>4 DEF RemoveTake, WorkerAt, TypeOK, RecordInv
    <3> QED BY <3>2, <3>3, <1>0
  <2>5. CASE RemoveUnlock(w)
    <3>1. Claiming' = Claiming /\ Returning' = Returning
      BY <2>5 DEF RemoveUnlock, WorkerAt, TypeOK, Claiming, Returning
    <3> QED BY <2>5, <3>1 DEF RemoveUnlock
  <2>6. CASE RemovePostSlot(w)
    <3>1. /\ Claiming' = Claiming
          /\ Returning' = Returning \ {w} /\ w \in Returning
      BY <2>6 DEF RemovePostSlot, WorkerAt, TypeOK, Claiming, Returning
    <3>2. Cardinality(Returning') = Cardinality(Returning) - 1
      BY <3>1, <1>0, FS_RemoveElement
    <3> QED BY <2>6, <3>1, <3>2, <1>0 DEF RemovePostSlot
  <2>7. CASE Finish(w)
    <3>1. Claiming' = Claiming /\ Returning' = Returning
      BY <2>7 DEF Finish, WorkerAt, TypeOK, Claiming, Returning
    <3> QED BY <2>7, <3>1 DEF Finish
  <2> QED BY <1>8, <2>1, <2>2, <2>3, <2>4, <2>5, <2>6, <2>7 DEF targetFunc, removeFd
<1>9. CASE UNCHANGED vars
  BY <1>9, <1>1 DEF vars
<1> QED BY <1>2, <1>3, <1>4, <1>5, <1>6, <1>7, <1>8, <1>9 DEF Next, insertFd, Quiescent

\* What the accounting gives: the cursors are at most a turn apart, a master
\* about to store has a free place, a worker that claims an item has one.
LEMMA CountsBound ==
    ASSUME TypeOK, CountInv
    PROVE  /\ front <= rear /\ rear <= front + Capacity
           /\ mpc = "store" => rear < front + Capacity
           /\ \A w \in Workers : wpc[w] = "take" => front < rear
<1> USE WorkBufferAssumption DEF TypeOK, CountInv, MasterClaims, MasterReturns
<1>1. Cardinality(Claiming) \in Nat /\ Cardinality(Returning) \in Nat
  BY CountsFinite
<1>2. front <= rear /\ rear <= front + Capacity
  BY <1>1
<1>3. mpc = "store" => rear < front + Capacity
  BY <1>1
<1>4. ASSUME NEW w \in Workers, wpc[w] = "take"
      PROVE  front < rear
  <2>1. Claiming # {}
    BY <1>4 DEF Claiming
  <2>2. Cardinality(Claiming) # 0
    BY <2>1, CountsFinite, FS_EmptySet
  <2> QED BY <2>2, <1>1
<1> QED BY <1>2, <1>3, <1>4

\* Connections are stored in the order in which they were accepted.
LEMMA OrderStep ==
    ASSUME TypeOK, OrderInv, [Next]_vars
    PROVE  OrderInv'
<1> USE DEF TypeOK, OrderInv
<1>1. CASE Accept
  BY <1>1 DEF Accept, MasterAt
<1>2. CASE insertFd
  BY <1>2 DEF insertFd, InsertWaitSlot, InsertLock, InsertStore, InsertUnlock,
              InsertPostItem, MasterAt
<1>3. ASSUME NEW w \in Workers, targetFunc(w)
      PROVE  OrderInv'
  BY <1>3 DEF targetFunc, removeFd, RemoveWaitItem, RemoveLock, RemoveLoad,
              RemoveTake, RemoveUnlock, RemovePostSlot, Finish
<1>4. CASE UNCHANGED vars
  BY <1>4 DEF vars
<1> QED BY <1>1, <1>2, <1>3, <1>4 DEF Next, Quiescent

\* Storing a record spares the places of the requests that still wait.
LEMMA RingStep ==
    ASSUME IInv, [Next]_vars
    PROVE  RingInv'
<1> USE DEF IInv, TypeOK
<1>1. CASE InsertStore
  <2>1. /\ requestUUID = rear + 1 /\ rear < front + Capacity
        /\ rear' = rear + 1 /\ front' = front
        /\ buf' = [buf EXCEPT ![(rear + 1) % Capacity] = rear]
    BY <1>1, CountsBound DEF InsertStore, MasterAt, OrderInv, clientInfo
  <2>2. ASSUME NEW i \in front + 1 .. rear + 1
        PROVE  buf'[i % Capacity] = i - 1
    <3>1. /\ i \in Nat /\ rear + 1 \in Nat
          /\ i % Capacity \in 0 .. Capacity - 1
          /\ (rear + 1) % Capacity \in 0 .. Capacity - 1
      BY IndexInRing
    <3>2. CASE i = rear + 1
      BY <2>1, <3>1, <3>2
    <3>3. CASE i <= rear
      <4>0. i < rear + 1 /\ rear + 1 < i + Capacity
        BY <2>1, <3>3, WorkBufferAssumption
      <4>1. i % Capacity # (rear + 1) % Capacity
        BY <3>1, <4>0, PlacesDiffer
      <4>2. buf'[i % Capacity] = buf[i % Capacity]
        BY <2>1, <3>1, <4>1
      <4> QED BY <4>2, <3>3 DEF RingInv
    <3> QED BY <3>2, <3>3
  <2> QED BY <2>1, <2>2 DEF RingInv
<1>2. ASSUME NEW w \in Workers, RemoveTake(w)
      PROVE  RingInv'
  BY <1>2 DEF RemoveTake, WorkerAt, RecordInv, RingInv
<1>3. CASE UNCHANGED <<buf, front, rear>>
  BY <1>3 DEF RingInv
<1> QED BY <1>1, <1>2, <1>3 DEF Next, vars, Accept, insertFd, InsertWaitSlot, InsertLock,
          InsertUnlock, InsertPostItem, targetFunc, removeFd, RemoveWaitItem, RemoveLock,
          RemoveLoad, RemoveUnlock, RemovePostSlot, Finish, Quiescent

\* A worker takes the request its cursor names, so what the workers hold is
\* behind front, and no two of them hold the same.
LEMMA RecordStep ==
    ASSUME IInv, [Next]_vars
    PROVE  RecordInv'
<1> USE DEF IInv, TypeOK, RecordInv
<1>1. ASSUME NEW w \in Workers, RemoveTake(w)
      PROVE  RecordInv'
  <2>1. /\ wpc[w] = "take" /\ wpc' = [wpc EXCEPT ![w] = "unlock"]
        /\ front' = front + 1 /\ next' = next
        /\ info' = [info EXCEPT ![w] = buf[(front + 1) % Capacity]]
    BY <1>1 DEF RemoveTake, WorkerAt
  <2>2. front + 1 \in front + 1 .. rear
    BY <2>1, CountsBound
  <2>3. buf[(front + 1) % Capacity] = front
    BY <2>2 DEF RingInv
  <2>4. info' = [info EXCEPT ![w] = front]
    BY <2>1, <2>3
  <2>5. \A v \in Workers : info[v] # front
    BY DEF NoInfo
  <2>6. \A v \in Workers : wpc'[v] # "take"
    BY <2>1 DEF MutexInv, Inside
  <2>7. ASSUME NEW v \in Workers
        PROVE  IF wpc'[v] \in {"unlock", "post", "serve"}
               THEN info'[v] \in 0 .. front' - 1
               ELSE info'[v] = NoInfo
    <3>1. CASE v = w
      BY <2>1, <2>4, <3>1
    <3>2. CASE v # w
      BY <2>1, <2>4, <3>2
    <3> QED BY <3>1, <3>2
  <2>8. ASSUME NEW u \in Workers, NEW v \in Workers, u # v, info'[u] # NoInfo
        PROVE  info'[u] # info'[v]
    BY <2>4, <2>5, <2>8
  <2> QED BY <2>6, <2>7, <2>8
<1>2. ASSUME NEW w \in Workers, RemoveLoad(w)
      PROVE  RecordInv'
  BY <1>2 DEF RemoveLoad, WorkerAt, MutexInv, Inside
<1>3. ASSUME NEW w \in Workers,
             RemoveWaitItem(w) \/ RemoveLock(w) \/ RemoveUnlock(w) \/ RemovePostSlot(w)
      PROVE  RecordInv'
  BY <1>3 DEF RemoveWaitItem, RemoveLock, RemoveUnlock, RemovePostSlot, WorkerAt
<1>4. ASSUME NEW w \in Workers, Finish(w)
      PROVE  RecordInv'
  BY <1>4 DEF Finish, WorkerAt, NoInfo
<1>5. CASE UNCHANGED <<front, wpc, next, info>>
  BY <1>5
<1> QED BY <1>1, <1>2, <1>3, <1>4, <1>5 DEF Next, vars, Accept, insertFd, InsertWaitSlot,
          InsertLock, InsertStore, InsertUnlock, InsertPostItem, targetFunc, removeFd,
          Quiescent

-----------------------------------------------------------------------------
(***************************************************************************)
(* The theorems.                                                           *)
(***************************************************************************)

\* IInv holds in every state the SodaMachine reaches.
THEOREM Invariance == SafeSpec => []IInv
<1>1. Init => IInv
  <2> SUFFICES ASSUME Init PROVE IInv
    OBVIOUS
  <2> USE WorkBufferAssumption DEF Init
  <2>1. TypeOK
    BY DEF TypeOK, MasterPlaces, WorkerPlaces, NoInfo
  <2>2. MutexInv
    BY DEF MutexInv, MasterInside, Inside
  <2>3. CountInv
    <3>1. Claiming = {} /\ Returning = {}
      BY DEF Claiming, Returning
    <3> QED BY <3>1, FS_EmptySet DEF CountInv, MasterClaims, MasterReturns
  <2>4. OrderInv /\ RingInv /\ RecordInv
    BY DEF OrderInv, RingInv, RecordInv
  <2> QED BY <2>1, <2>2, <2>3, <2>4 DEF IInv
<1>2. IInv /\ [Next]_vars => IInv'
  BY TypeStep, MutexStep, CountStep, OrderStep, RingStep, RecordStep DEF IInv
<1> QED BY <1>1, <1>2, PTL DEF SafeSpec

\* Every variable keeps its type: slots and items never become negative and
\* mutex is never released twice, whatever the threads do.
THEOREM TypeCorrect == SafeSpec => []TypeOK
<1>1. IInv => TypeOK
  BY DEF IInv
<1> QED BY <1>1, Invariance, PTL

\* insertFd never overwrites a request that still waits, for every capacity.
THEOREM NothingOverwritten == SafeSpec => []NoWaitingRequestOverwritten
<1>1. IInv => NoWaitingRequestOverwritten
  BY CountsBound, WorkBufferAssumption DEF IInv, TypeOK, NoWaitingRequestOverwritten
<1> QED BY <1>1, Invariance, PTL

\* removeFd always finds a stored request and an unmoved cursor.
THEOREM TakeIsSafe == SafeSpec => []TakeFindsRequest
<1>1. IInv => TakeFindsRequest
  BY CountsBound DEF IInv, TypeOK, RecordInv, TakeFindsRequest
<1> QED BY <1>1, Invariance, PTL

\* No connection is ever in the hands of two workers.
THEOREM ServedOnce == SafeSpec => []ServedByOneWorker
<1>1. IInv => ServedByOneWorker
  BY DEF IInv, TypeOK, RecordInv, ServedByOneWorker
<1> QED BY <1>1, Invariance, PTL

-----------------------------------------------------------------------------
(***************************************************************************)
(* The SodaMachine implements RequestQueue.                                *)
(***************************************************************************)

\* The queue that callers see is the run of consecutive request numbers
\* between the cursors.
Run == [i \in 1 .. rear - front |-> front + i - 1]

LEMMA WaitingIsARun == IInv => waiting = Run
<1> SUFFICES ASSUME IInv PROVE waiting = Run
  OBVIOUS
<1>1. front \in Nat /\ rear \in Nat /\ front <= rear
  BY CountsBound DEF IInv, TypeOK
<1>2. ASSUME NEW i \in 1 .. rear - front
      PROVE  buf[(front + i) % Capacity] = front + i - 1
  <2>1. front + i \in front + 1 .. rear
    BY <1>1
  <2> QED BY <2>1, <1>1 DEF IInv, RingInv
<1> QED BY <1>2 DEF waiting, Run

\* Storing a record appends it to the queue.
LEMMA StoreEnqueues ==
    ASSUME IInv, waiting' = Run', InsertStore
    PROVE  Queue!Enqueue
<1> DEFINE n == rear - front
<1>1. /\ front \in Nat /\ rear \in Nat /\ n \in Nat /\ Capacity \in Nat
      /\ rear' = rear + 1 /\ front' = front /\ info' = info /\ n < Capacity
  BY CountsBound, WorkBufferAssumption DEF IInv, TypeOK, InsertStore, MasterAt
<1>2. waiting = [i \in 1 .. n |-> front + i - 1] /\ Len(waiting) = n /\ waiting \in Seq(Nat)
  BY <1>1, WaitingIsARun DEF Run
<1>3. waiting' = [i \in 1 .. n + 1 |-> front + i - 1]
  <2>1. rear' - front' = n + 1 /\ front' = front
    BY <1>1
  <2> QED BY <2>1 DEF Run
<1> HIDE DEF n
<1>4. Append(waiting, rear) = [i \in 1 .. n + 1 |-> front + i - 1]
  BY <1>1, <1>2 DEF n
<1> QED BY <1>1, <1>2, <1>3, <1>4 DEF Queue!Enqueue

\* Moving front past a record takes it from the head of the queue.
LEMMA TakeDequeues ==
    ASSUME IInv, waiting' = Run', NEW w \in Workers, RemoveTake(w)
    PROVE  Queue!Dequeue(w)
<1> DEFINE n == rear - front
<1>1. /\ front \in Nat /\ rear \in Nat /\ n \in Nat /\ n > 0
      /\ next[w] = front + 1 /\ front' = front + 1 /\ rear' = rear
      /\ info[w] = NoInfo
  <2>1. /\ wpc[w] = "take" /\ front' = next[w] /\ rear' = rear
    BY DEF RemoveTake, WorkerAt
  <2>2. front \in Nat /\ rear \in Nat /\ front < rear
    BY <2>1, CountsBound DEF IInv, TypeOK
  <2>3. next[w] = front + 1 /\ info[w] = NoInfo
    BY <2>1 DEF IInv, RecordInv
  <2> QED BY <2>1, <2>2, <2>3
<1>2. waiting = [i \in 1 .. n |-> front + i - 1] /\ Len(waiting) = n /\ waiting \in Seq(Nat)
  BY <1>1, WaitingIsARun DEF Run
<1>3. waiting' = [i \in 1 .. n - 1 |-> front + i]
  <2>1. /\ rear' - front' = n - 1
        /\ \A i \in 1 .. n - 1 : front' + i - 1 = front + i
    BY <1>1
  <2> QED BY <2>1 DEF Run
<1>4. buf[(front + 1) % Capacity] = front
  BY <1>1 DEF IInv, RingInv
<1>5. info' = [info EXCEPT ![w] = front]
  BY <1>1, <1>4 DEF RemoveTake
<1> HIDE DEF n
<1>6. waiting # <<>> /\ Head(waiting) = front
  BY <1>1, <1>2
<1>7. Tail(waiting) = [i \in 1 .. n - 1 |-> front + i]
  BY <1>1, <1>2
<1> QED BY <1>1, <1>3, <1>5, <1>6, <1>7 DEF Queue!Dequeue

\* Every behaviour of the SodaMachine is one of the bounded FIFO queue:
\* requests leave in the order of their arrival, each to one worker.
THEOREM Refinement == SafeSpec => ImplementsQueue
<1>1. Init => Queue!QInit
  <2> SUFFICES ASSUME Init PROVE Queue!QInit
    OBVIOUS
  <2>1. waiting = <<>>
    BY DEF Init, waiting
  <2> QED BY <2>1 DEF Init, Queue!QInit
<1>2. IInv /\ (waiting = Run)' /\ [Next]_vars => [Queue!QNext]_(Queue!qvars)
  <2> SUFFICES ASSUME IInv, (waiting = Run)', [Next]_vars
               PROVE  [Queue!QNext]_(Queue!qvars)
    OBVIOUS
  <2>1. CASE InsertStore
    BY <2>1, StoreEnqueues DEF Queue!QNext
  <2>2. ASSUME NEW w \in Workers, RemoveTake(w)
        PROVE  Queue!QNext
    BY <2>2, TakeDequeues DEF Queue!QNext
  <2>3. ASSUME NEW w \in Workers, Finish(w)
        PROVE  Queue!QNext
    <3>1. waiting' = waiting /\ rear' = rear
      BY <2>3 DEF Finish, waiting
    <3>2. info[w] # NoInfo /\ info' = [info EXCEPT ![w] = NoInfo]
      <4>1. wpc[w] = "serve" /\ info' = [info EXCEPT ![w] = NoInfo]
        BY <2>3 DEF Finish, WorkerAt
      <4>2. front \in Nat /\ info[w] \in 0 .. front - 1
        BY <4>1 DEF IInv, TypeOK, RecordInv
      <4> QED BY <4>1, <4>2 DEF NoInfo
    <3>3. Queue!Release(w)
      BY <3>1, <3>2 DEF Queue!Release
    <3> QED BY <3>3 DEF Queue!QNext
  <2>4. CASE UNCHANGED <<buf, front, rear, info>>
    BY <2>4 DEF Queue!qvars, waiting
  <2> QED BY <2>1, <2>2, <2>3, <2>4 DEF Next, vars, Accept, insertFd, InsertWaitSlot,
            InsertLock, InsertUnlock, InsertPostItem, targetFunc, removeFd, RemoveWaitItem,
            RemoveLock, RemoveLoad, RemoveUnlock, RemovePostSlot, Quiescent
<1>3. IInv => waiting = Run
  BY WaitingIsARun
<1> QED BY <1>1, <1>2, <1>3, Invariance, PTL DEF SafeSpec, ImplementsQueue, Queue!QSpec
=============================================================================
