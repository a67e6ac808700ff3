------------------------------- MODULE LogProofs -------------------------------
(***************************************************************************)
(* Proofs about the log, for every set of workers and any number of lines. *)
(*                                                                         *)
(* What WriteLock and W stand for is one invariant each; from the first    *)
(* follows that a thread between its reading of the clock and its line is  *)
(* alone, so that no line before it can bring a later time.                *)
(***************************************************************************)
EXTENDS Log, TLAPS

Inside(t) == pc[t] \in {"time", "stamp", "put", "unlock"}
Holding(t) == t \in caching /\ pc[t] # "cache"

\* WriteLock is 0 exactly while one thread is between its P and V.
MutexInv ==
    /\ WriteLock = 1 <=> \A t \in Threads : ~Inside(t)
    /\ \A s, t \in Threads : Inside(s) /\ Inside(t) => s = t

\* W is 0 exactly while one worker is between its P and V.
WInv ==
    /\ \A t \in Threads : t \in caching => pc[t] # "out"
    /\ \A t \in Threads : pc[t] \in {"cache", "release"} => t \in caching
    /\ W = 1 <=> \A t \in Threads : ~Holding(t)
    /\ \A s, t \in Threads : Holding(s) /\ Holding(t) => s = t

\* Who is at a stamp: the writer of a line, or main at an arrival.
StampInv ==
    /\ \A t \in Threads : pc[t] = "put" => t \in stamping
    /\ \A t \in stamping : pc[t] = "put" \/ (t = Main /\ pc[t] = "out")

\* The time of a line in the making is no earlier than the latest line.
TimeInv ==
    /\ stamp <= now
    /\ \A t \in Threads : pc[t] \in {"stamp", "put"} => stamp <= time[t] /\ time[t] <= now

IInv == TypeOK /\ MutexInv /\ WInv /\ StampInv /\ TimeInv

-----------------------------------------------------------------------------
LEMMA InitInv == Init => IInv
BY LogAssumption DEF Init, IInv, TypeOK, MutexInv, WInv, StampInv, TimeInv, Inside, Holding,
   Threads, Places

-----------------------------------------------------------------------------
(***************************************************************************)
(* The steps: one lemma for each part of the invariant.                    *)
(***************************************************************************)
LEMMA TypeStep == TypeOK /\ MutexInv /\ WInv /\ [Next]_vars => TypeOK'
<1> SUFFICES ASSUME TypeOK, MutexInv, WInv, [Next]_vars PROVE TypeOK'
  OBVIOUS
<1> USE DEF TypeOK, Places, Threads, Go, NoStamp, cache
<1>1. ASSUME NEW t \in Threads, Call(t) PROVE TypeOK'
  BY <1>1, LogAssumption DEF Call
<1>2. ASSUME NEW t \in Threads, Lock(t) PROVE TypeOK'
  BY <1>2 DEF Lock
<1>3. ASSUME NEW t \in Threads, ReadTime(t) PROVE TypeOK'
  BY <1>3 DEF ReadTime
<1>4. ASSUME NEW t \in Threads, Stamp(t) PROVE TypeOK'
  BY <1>4 DEF Stamp, EnterStamp
<1>5. ASSUME NEW t \in Threads, Put(t) PROVE TypeOK'
  BY <1>5 DEF Put, LeaveStamp
<1>6. ASSUME NEW t \in Threads, Unlock(t) PROVE TypeOK'
  <2>1. WriteLock = 0
    BY <1>6 DEF Unlock, MutexInv, Inside
  <2> QED BY <1>6, <2>1 DEF Unlock
<1>7. ASSUME NEW w \in Workers, CallCache(w) PROVE TypeOK'
  BY <1>7, LogAssumption DEF CallCache
<1>8. ASSUME NEW w \in Workers, LockCache(w) PROVE TypeOK'
  BY <1>8 DEF LockCache
<1>9. ASSUME NEW w \in Workers, Release(w) PROVE TypeOK'
  <2>1. W = 0
    BY <1>9 DEF Release, WInv, Holding
  <2> QED BY <1>9, <2>1 DEF Release
<1>10. CASE ArrivalBegin
  BY <1>10 DEF ArrivalBegin, EnterStamp
<1>11. CASE ArrivalEnd
  BY <1>11 DEF ArrivalEnd, LeaveStamp
<1>12. CASE Tick
  BY <1>12, LogAssumption DEF Tick
<1>13. CASE UNCHANGED vars
  BY <1>13 DEF vars
<1>14. ASSUME NEW w \in Workers, CallClear(w) \/ deleteNode(w) PROVE TypeOK'
  BY <1>14, LogAssumption DEF CallClear, deleteNode
<1>15. ASSUME NEW w \in Workers, LockClear(w) PROVE TypeOK'
  BY <1>15 DEF LockClear
<1> QED
  BY <1>1, <1>2, <1>3, <1>4, <1>5, <1>6, <1>7, <1>8, <1>9, <1>10, <1>11, <1>12, <1>13,
     <1>14, <1>15
     DEF Next, main, CallStep, Body, write, writeToCache,
     clearAllInvalidCache

LEMMA MutexStep == TypeOK /\ MutexInv /\ WInv /\ [Next]_vars => MutexInv'
<1> SUFFICES ASSUME TypeOK, MutexInv, WInv, [Next]_vars PROVE MutexInv'
  OBVIOUS
<1> USE DEF TypeOK, MutexInv, Inside, Threads, Go, cache
<1>1. ASSUME NEW t \in Threads, Call(t) \/ Lock(t) \/ ReadTime(t) PROVE MutexInv'
  BY <1>1 DEF Call, Lock, ReadTime
<1>2. ASSUME NEW t \in Threads, Stamp(t) \/ Put(t) PROVE MutexInv'
  BY <1>2 DEF Stamp, Put
<1>3. ASSUME NEW t \in Threads, Unlock(t) PROVE MutexInv'
  BY <1>3 DEF Unlock
<1>4. ASSUME NEW w \in Workers, CallCache(w) \/ LockCache(w) \/ Release(w)
             \/ CallClear(w) \/ LockClear(w) \/ deleteNode(w) PROVE MutexInv'
  BY <1>4 DEF CallCache, LockCache, Release, CallClear, LockClear, deleteNode
<1>5. CASE ArrivalBegin \/ ArrivalEnd \/ Tick \/ UNCHANGED vars
  BY <1>5 DEF ArrivalBegin, ArrivalEnd, Tick, vars
<1> QED
  BY <1>1, <1>2, <1>3, <1>4, <1>5 DEF Next, main, CallStep, Body, write, writeToCache,
     clearAllInvalidCache

LEMMA WStep == TypeOK /\ WInv /\ [Next]_vars => WInv'
<1> SUFFICES ASSUME TypeOK, WInv, [Next]_vars PROVE WInv'
  OBVIOUS
<1> USE DEF TypeOK, WInv, Holding, Threads, Go, cache
<1>1. ASSUME NEW t \in Threads, Call(t) \/ Lock(t) \/ ReadTime(t) PROVE WInv'
  BY <1>1 DEF Call, Lock, ReadTime
<1>2. ASSUME NEW t \in Threads, Stamp(t) \/ Put(t) PROVE WInv'
  BY <1>2 DEF Stamp, Put
<1>3. ASSUME NEW t \in Threads, Unlock(t) PROVE WInv'
  BY <1>3 DEF Unlock
<1>4. ASSUME NEW w \in Workers, CallCache(w) \/ CallClear(w) \/ deleteNode(w) PROVE WInv'
  BY <1>4 DEF CallCache, CallClear, deleteNode
<1>5. ASSUME NEW w \in Workers, LockCache(w) \/ LockClear(w) PROVE WInv'
  BY <1>5 DEF LockCache, LockClear
<1>6. ASSUME NEW w \in Workers, Release(w) PROVE WInv'
  BY <1>6 DEF Release
<1>7. CASE ArrivalBegin \/ ArrivalEnd \/ Tick \/ UNCHANGED vars
  BY <1>7 DEF ArrivalBegin, ArrivalEnd, Tick, vars
<1> QED
  BY <1>1, <1>2, <1>3, <1>4, <1>5, <1>6, <1>7 DEF Next, main, CallStep, Body, write, writeToCache,
     clearAllInvalidCache

LEMMA StampStep == TypeOK /\ StampInv /\ [Next]_vars => StampInv'
<1> SUFFICES ASSUME TypeOK, StampInv, [Next]_vars PROVE StampInv'
  OBVIOUS
<1> USE DEF TypeOK, StampInv, Threads, Go, NoStamp, cache
<1>1. ASSUME NEW t \in Threads, Call(t) \/ Lock(t) \/ ReadTime(t) \/ Unlock(t)
      PROVE  StampInv'
  BY <1>1 DEF Call, Lock, ReadTime, Unlock
<1>2. ASSUME NEW t \in Threads, Stamp(t) PROVE StampInv'
  BY <1>2 DEF Stamp, EnterStamp
<1>3. ASSUME NEW t \in Threads, Put(t) PROVE StampInv'
  BY <1>3 DEF Put, LeaveStamp
<1>4. ASSUME NEW w \in Workers, CallCache(w) \/ LockCache(w) \/ Release(w)
             \/ CallClear(w) \/ LockClear(w) \/ deleteNode(w) PROVE StampInv'
  BY <1>4, LogAssumption DEF CallCache, LockCache, Release, CallClear, LockClear, deleteNode
<1>5. CASE ArrivalBegin \/ ArrivalEnd
  BY <1>5 DEF ArrivalBegin, ArrivalEnd, EnterStamp, LeaveStamp
<1>6. CASE Tick \/ UNCHANGED vars
  BY <1>6 DEF Tick, vars
<1> QED
  BY <1>1, <1>2, <1>3, <1>4, <1>5, <1>6 DEF Next, main, CallStep, Body, write, writeToCache,
     clearAllInvalidCache

\* A line that is written takes the latest time with it: nobody else is
\* between reading the clock and writing.
LEMMA TimeStep == TypeOK /\ MutexInv /\ TimeInv /\ [Next]_vars => TimeInv'
<1> SUFFICES ASSUME TypeOK, MutexInv, TimeInv, [Next]_vars PROVE TimeInv'
  OBVIOUS
<1> USE DEF TypeOK, TimeInv, Threads, Go, NoStamp, cache
<1>1. ASSUME NEW t \in Threads, Call(t) \/ Lock(t) \/ Unlock(t) \/ Stamp(t) PROVE TimeInv'
  BY <1>1 DEF Call, Lock, Unlock, Stamp
<1>2. ASSUME NEW t \in Threads, ReadTime(t) PROVE TimeInv'
  BY <1>2 DEF ReadTime
<1>3. ASSUME NEW t \in Threads, Put(t) PROVE TimeInv'
  <2>1. \A s \in Threads \ {t} : pc'[s] \notin {"stamp", "put"}
    BY <1>3 DEF Put, MutexInv, Inside
  <2>2. pc'[t] = "unlock"
    BY <1>3 DEF Put
  <2>3. stamp' <= now'
    BY <1>3 DEF Put
  <2> QED BY <2>1, <2>2, <2>3
<1>4. ASSUME NEW w \in Workers, CallCache(w) \/ LockCache(w) \/ Release(w)
             \/ CallClear(w) \/ LockClear(w) \/ deleteNode(w) PROVE TimeInv'
  BY <1>4 DEF CallCache, LockCache, Release, CallClear, LockClear, deleteNode
<1>5. CASE ArrivalBegin \/ ArrivalEnd \/ UNCHANGED vars
  BY <1>5 DEF ArrivalBegin, ArrivalEnd, vars
<1>6. CASE Tick
  BY <1>6 DEF Tick
<1> QED
  BY <1>1, <1>2, <1>3, <1>4, <1>5, <1>6 DEF Next, main, CallStep, Body, write, writeToCache,
     clearAllInvalidCache

\* The inductive invariant holds throughout.
THEOREM Invariance == SafeSpec => []IInv
<1>1. IInv /\ [Next]_vars => IInv'
  BY TypeStep, MutexStep, WStep, StampStep, TimeStep DEF IInv
<1> QED BY InitInv, <1>1, PTL DEF SafeSpec

-----------------------------------------------------------------------------
(***************************************************************************)
(* The properties.                                                         *)
(***************************************************************************)
\* The variables stay in their types: neither semaphore is ever above 1.
THEOREM TypeCorrect == SafeSpec => []TypeOK
BY Invariance, PTL DEF IInv

\* No two lines are stamped at once, whatever the number of threads: of two
\* stamps that meet, main's of an arrival is one.
THEOREM StampsApart == SafeSpec => []OnlyMainSpoils
<1>1. IInv => OnlyMainSpoils
  BY DEF IInv, TypeOK, MutexInv, Inside, OnlyMainSpoils
<1> QED BY <1>1, Invariance, PTL

\* The lines whose stamps main has not spoilt are in the order of their
\* times, however many threads write.
THEOREM LinesInOrder == SafeSpec => LogInOrder
<1>1. IInv /\ [Next]_vars => [stamp' >= stamp]_vars
  <2> SUFFICES ASSUME IInv, Next PROVE stamp' >= stamp
    BY DEF vars
  <2>1. ASSUME NEW t \in Threads, Put(t) PROVE stamp' >= stamp
    BY <2>1 DEF Put, Go, IInv, TimeInv, TypeOK
  <2>2. CASE stamp' = stamp
    BY <2>2 DEF IInv, TypeOK
  <2> QED
    BY <2>1, <2>2 DEF Next, main, CallStep, Body, write, writeToCache,
       clearAllInvalidCache, Threads, NoStamp, Call, Lock, ReadTime, Stamp, Unlock, CallCache,
       LockCache, Release, CallClear, LockClear, deleteNode, ArrivalBegin, ArrivalEnd, Tick
<1> QED BY <1>1, Invariance, PTL DEF SafeSpec, LogInOrder
=============================================================================
