----------------------------- MODULE CacheProofs -----------------------------
(***************************************************************************)
(* Proofs about the cache, for any set of workers, keys and addresses and  *)
(* any number of calls.                                                    *)
(*                                                                         *)
(* The lock and the list need each other: the pointers are only right      *)
(* because a writer is alone while some of them are loose, and W is only   *)
(* released by its owner because every thread finds its way through the    *)
(* list.  LockInv says what mutex, numReader and W stand for.  ListInv     *)
(* says which pointers are loose at which statement of addNode and         *)
(* deleteNode, and that all others agree in both directions.               *)
(*                                                                         *)
(* From there the list is read off as a sequence of nodes: the numbering   *)
(* of ListInv bounds the walk from head, so it ends at tail and meets no   *)
(* node twice.  A write puts a node in front of that sequence, deleteNode  *)
(* takes one out, and SearchInv says what a search has passed: with it the *)
(* steps of the cache are steps of the atomic ResponseCache.               *)
(***************************************************************************)
EXTENDS CacheRefinement, WellFoundedInduction, FiniteSetTheorems, SequenceTheorems, TLAPS

\* Where a worker holds mutex.
MutexPlaces ==
    {"readCount", "readFirst", "readUnlock", "leaveCount", "leaveLast", "leaveUnlock"}
\* Where it is included in numReader.
CountedPlaces == {"readFirst", "readUnlock", "leaveLock", "leaveCount"} \cup ScanPlaces
\* Where it owns W together with the other readers.
ReaderPlaces == {"readUnlock", "leaveLock", "leaveCount", "leaveLast"} \cup ScanPlaces

Counted == {w \in Workers : pc[w] \in CountedPlaces}

MutexInv ==
    /\ \A w \in Workers : pc[w] \in MutexPlaces => mutex = 0
    /\ \A v, w \in Workers : pc[v] \in MutexPlaces /\ pc[w] \in MutexPlaces => v = w

CountInv == numReader = Cardinality(Counted)

WInv ==
    /\ \A w \in Workers : pc[w] \in ReaderPlaces \cup WriterPlaces => W = 0
    /\ \A v, w \in Workers :
          v # w /\ pc[v] \in WriterPlaces => pc[w] \notin WriterPlaces \cup ReaderPlaces

LockInv == MutexInv /\ CountInv /\ WInv

-----------------------------------------------------------------------------
Forward == alive \cup {head}
Backward == alive \cup {tail}

\* The list is closed: no pointer of it leaves the allocated nodes.
Closed ==
    /\ \A n \in Forward : next[n] \in Backward
    /\ \A n \in Backward : prev[n] \in Forward

\* It runs from head to tail without a cycle: some numbering increases along
\* next and decreases along prev.
Ranks(rank) ==
    /\ \A n \in Forward : rank[n] < rank[next[n]]
    /\ \A n \in Backward : rank[prev[n]] < rank[n]

Ordered == \E rank \in [Pointers -> Int] : Ranks(rank)

\* The nodes whose successor does not point back to them, and those whose
\* predecessor does not point forward to them, while a writer is at work.
LooseNext(n) ==
    \E w \in Workers :
        \/ pc[w] \in {"linkBack", "unlinkFront", "delete"} /\ n = node[w]
        \/ pc[w] = "linkFront" /\ n = head
LoosePrev(n) ==
    \E w \in Workers :
        \/ pc[w] \in {"linkBack", "linkFront", "delete"} /\ n = node[w]
        \/ pc[w] = "unlinkFront" /\ n = next[node[w]]

Linked ==
    /\ \A n \in Forward : LooseNext(n) \/ prev[next[n]] = n
    /\ \A n \in Backward : LoosePrev(n) \/ next[prev[n]] = n

\* What a writer has made of the pointers around its node.
Stage(w) ==
    /\ pc[w] \in {"linkBack", "linkFront", "unlinkBack", "unlinkFront", "delete"}
          => node[w] \in alive
    /\ pc[w] \in {"linkBack", "linkFront"} => next[node[w]] = next[head] /\ prev[node[w]] = head
    /\ pc[w] = "linkFront" => prev[next[head]] = node[w]
    /\ pc[w] \in {"unlinkBack", "unlinkFront", "delete"} => cur[w] = next[node[w]]
    /\ pc[w] \in {"unlinkFront", "delete"} => prev[next[node[w]]] = prev[node[w]]
    /\ pc[w] = "delete" => next[prev[node[w]]] = next[node[w]]

Cursor(w) ==
    pc[w] \in {"scan", "clearScan", "unlinkBack", "unlinkFront", "delete"} => cur[w] \in Backward

WorkerInv == \A w \in Workers : Stage(w) /\ Cursor(w)

ListInv == Closed /\ Ordered /\ Linked /\ WorkerInv

IInv == TypeOK /\ LockInv /\ ListInv

-----------------------------------------------------------------------------
(***************************************************************************)
(* The lock.                                                               *)
(***************************************************************************)

\* Outside the statements between P(mutex) and V(mutex) mutex is not held.
LEMMA MutexStep ==
    ASSUME TypeOK, MutexInv, [Next]_vars
    PROVE  MutexInv'
<1> USE DEF TypeOK, MutexInv, MutexPlaces, At
<1>1. ASSUME NEW w \in Workers, CallStep(w)
      PROVE  MutexInv'
  BY <1>1 DEF CallStep, CallRead, CallWrite, CallClear, Call, lock
<1>2. ASSUME NEW w \in Workers, ReadFromCache(w)
      PROVE  MutexInv'
  <2>1. CASE ReadLock(w)
    BY <2>1 DEF ReadLock
  <2>2. CASE ReadCount(w)
    BY <2>2 DEF ReadCount
  <2>3. CASE ReadFirst(w)
    BY <2>3 DEF ReadFirst
  <2>4. CASE ReadUnlock(w)
    BY <2>4 DEF ReadUnlock
  <2>5. CASE ReadHead(w)
    BY <2>5 DEF ReadHead, lock
  <2>6. CASE Scan(w)
    BY <2>6 DEF Scan, lock
  <2>7. CASE LeaveLast(w)
    BY <2>7 DEF LeaveLast
  <2> QED BY <1>2, <2>1, <2>2, <2>3, <2>4, <2>5, <2>6, <2>7 DEF ReadFromCache
<1>3. ASSUME NEW w \in Workers, writeToCache(w)
      PROVE  MutexInv'
  <2>1. CASE WriterLock(w)
    BY <2>1 DEF WriterLock
  <2>2. CASE NewNode(w)
    BY <2>2 DEF NewNode, lock
  <2>3. CASE LinkBack(w)
    BY <2>3 DEF LinkBack, lock
  <2>4. CASE LinkFront(w)
    BY <2>4 DEF LinkFront, lock
  <2>5. CASE WriterUnlock(w)
    BY <2>5 DEF WriterUnlock
  <2> QED BY <1>3, <2>1, <2>2, <2>3, <2>4, <2>5 DEF writeToCache
<1>4. ASSUME NEW w \in Workers, clearAllInvalidCache(w)
      PROVE  MutexInv'
  <2>1. CASE ClearScan(w)
    BY <2>1 DEF ClearScan, lock
  <2>2. CASE UnlinkBack(w)
    BY <2>2 DEF UnlinkBack, lock
  <2>3. CASE UnlinkFront(w)
    BY <2>3 DEF UnlinkFront, lock
  <2>4. CASE Delete(w)
    BY <2>4 DEF Delete, lock
  <2> QED BY <1>4, <2>1, <2>2, <2>3, <2>4 DEF clearAllInvalidCache
<1>5. CASE ClockStep \/ UNCHANGED vars
  BY <1>5 DEF ClockStep, vars, lock
<1> QED BY <1>1, <1>2, <1>3, <1>4, <1>5 DEF Next, Body, Quiescent

\* The readers that numReader counts are finitely many.
LEMMA CountedFinite ==
    IsFiniteSet(Counted) /\ Cardinality(Counted) \in Nat
<1>1. Counted \subseteq Workers
  BY DEF Counted
<1> QED BY <1>1, FS_Subset, FS_CardinalityType, CacheAssumption

\* numReader is the number of readers between its increment and decrement.
LEMMA CountStep ==
    ASSUME TypeOK, CountInv, [Next]_vars
    PROVE  CountInv'
<1> USE DEF CountInv, Counted, CountedPlaces, ScanPlaces, At
<1>0. IsFiniteSet(Counted) /\ Cardinality(Counted) \in Nat
  BY CountedFinite
<1>1. ASSUME NEW w \in Workers, CallStep(w)
      PROVE  CountInv'
  <2>1. CASE CallRead(w)
    <3>1. Counted' = Counted
      BY <2>1 DEF CallRead, Call, TypeOK
    <3> QED BY <2>1, <3>1 DEF CallRead, Call, lock
  <2>2. CASE CallWrite(w)
    <3>1. Counted' = Counted
      BY <2>2 DEF CallWrite, Call, TypeOK
    <3> QED BY <2>2, <3>1 DEF CallWrite, Call, lock
  <2>3. CASE CallClear(w)
    <3>1. Counted' = Counted
      BY <2>3 DEF CallClear, Call, TypeOK
    <3> QED BY <2>3, <3>1 DEF CallClear, Call, lock
  <2> QED BY <1>1, <2>1, <2>2, <2>3 DEF CallStep
<1>2. ASSUME NEW w \in Workers, ReadFromCache(w)
      PROVE  CountInv'
  <2>1. CASE ReadLock(w)
    <3>1. Counted' = Counted
      BY <2>1 DEF ReadLock, TypeOK
    <3> QED BY <2>1, <3>1 DEF ReadLock
  <2>2. CASE ReadCount(w)
    <3>1. CASE At(w, "readCount", "readFirst") /\ numReader' = numReader + 1
      <4>1. Counted' = Counted \cup {w} /\ w \notin Counted
        BY <3>1 DEF TypeOK
      <4> QED BY <4>1, <3>1, <1>0, FS_AddElement
    <3>2. CASE At(w, "leaveCount", "leaveLast") /\ numReader' = numReader - 1
      <4>1. Counted' = Counted \ {w} /\ w \in Counted
        BY <3>2 DEF TypeOK
      <4> QED BY <4>1, <3>2, <1>0, FS_RemoveElement
    <3> QED BY <2>2, <3>1, <3>2 DEF ReadCount
  <2>3. CASE ReadFirst(w)
    <3>1. Counted' = Counted
      BY <2>3 DEF ReadFirst, TypeOK
    <3> QED BY <2>3, <3>1 DEF ReadFirst
  <2>4. CASE ReadUnlock(w)
    <3>1. Counted' = Counted
      BY <2>4 DEF ReadUnlock, TypeOK
    <3> QED BY <2>4, <3>1 DEF ReadUnlock
  <2>5. CASE ReadHead(w)
    <3>1. Counted' = Counted
      BY <2>5 DEF ReadHead, TypeOK
    <3> QED BY <2>5, <3>1 DEF ReadHead, lock
  <2>6. CASE Scan(w)
    <3>1. Counted' = Counted
      BY <2>6 DEF Scan, TypeOK
    <3> QED BY <2>6, <3>1 DEF Scan, lock
  <2>7. CASE LeaveLast(w)
    <3>1. Counted' = Counted
      BY <2>7 DEF LeaveLast, TypeOK
    <3> QED BY <2>7, <3>1 DEF LeaveLast
  <2> QED BY <1>2, <2>1, <2>2, <2>3, <2>4, <2>5, <2>6, <2>7 DEF ReadFromCache
<1>3. ASSUME NEW w \in Workers, writeToCache(w)
      PROVE  CountInv'
  <2>1. CASE WriterLock(w)
    <3>1. Counted' = Counted
      BY <2>1 DEF WriterLock, TypeOK
    <3> QED BY <2>1, <3>1 DEF WriterLock
  <2>2. CASE NewNode(w)
    <3>1. Counted' = Counted
      BY <2>2 DEF NewNode, TypeOK
    <3> QED BY <2>2, <3>1 DEF NewNode, lock
  <2>3. CASE LinkBack(w)
    <3>1. Counted' = Counted
      BY <2>3 DEF LinkBack, TypeOK
    <3> QED BY <2>3, <3>1 DEF LinkBack, lock
  <2>4. CASE LinkFront(w)
    <3>1. Counted' = Counted
      BY <2>4 DEF LinkFront, TypeOK
    <3> QED BY <2>4, <3>1 DEF LinkFront, lock
  <2>5. CASE WriterUnlock(w)
    <3>1. Counted' = Counted
      BY <2>5 DEF WriterUnlock, TypeOK
    <3> QED BY <2>5, <3>1 DEF WriterUnlock
  <2> QED BY <1>3, <2>1, <2>2, <2>3, <2>4, <2>5 DEF writeToCache
<1>4. ASSUME NEW w \in Workers, clearAllInvalidCache(w)
      PROVE  CountInv'
  <2>1. CASE ClearScan(w)
    <3>1. Counted' = Counted
      BY <2>1 DEF ClearScan, TypeOK
    <3> QED BY <2>1, <3>1 DEF ClearScan, lock
  <2>2. CASE UnlinkBack(w)
    <3>1. Counted' = Counted
      BY <2>2 DEF UnlinkBack, TypeOK
    <3> QED BY <2>2, <3>1 DEF UnlinkBack, lock
  <2>3. CASE UnlinkFront(w)
    <3>1. Counted' = Counted
      BY <2>3 DEF UnlinkFront, TypeOK
    <3> QED BY <2>3, <3>1 DEF UnlinkFront, lock
  <2>4. CASE Delete(w)
    <3>1. Counted' = Counted
      BY <2>4 DEF Delete, TypeOK
    <3> QED BY <2>4, <3>1 DEF Delete, lock
  <2> QED BY <1>4, <2>1, <2>2, <2>3, <2>4 DEF clearAllInvalidCache
<1>5. CASE ClockStep \/ UNCHANGED vars
  BY <1>5 DEF ClockStep, vars, lock
<1> QED BY <1>1, <1>2, <1>3, <1>4, <1>5 DEF Next, Body, Quiescent

\* A counter other than 1 means another reader is counted too.
LEMMA AnotherReader ==
    ASSUME CountInv, numReader # 1, NEW w \in Workers, pc[w] \in CountedPlaces
    PROVE  \E u \in Workers : u # w /\ pc[u] \in CountedPlaces
<1>1. SUFFICES ASSUME Counted = {w} PROVE FALSE
  BY DEF Counted
<1>2. Cardinality(Counted) = 1
  BY <1>1, FS_Singleton
<1> QED BY <1>2 DEF CountInv

\* A counter of 0 means none is.
LEMMA NoReader ==
    ASSUME CountInv, numReader = 0
    PROVE  \A w \in Workers : pc[w] \notin CountedPlaces
<1>1. Counted = {}
  BY CountedFinite, FS_EmptySet DEF CountInv
<1> QED BY <1>1 DEF Counted

\* W is taken as long as a writer, or the readers together, are inside, and
\* they never are inside together.
LEMMA WStep ==
    ASSUME TypeOK, LockInv, [Next]_vars
    PROVE  WInv'
<1> USE DEF LockInv, TypeOK, WInv, ReaderPlaces, WriterPlaces, WritePlaces, ClearPlaces,
            ScanPlaces, At
<1>1. ASSUME NEW w \in Workers, CallStep(w)
      PROVE  WInv'
  <2>1. CASE CallRead(w)
    BY <2>1 DEF CallRead, Call, lock
  <2>2. CASE CallWrite(w)
    BY <2>2 DEF CallWrite, Call, lock
  <2>3. CASE CallClear(w)
    BY <2>3 DEF CallClear, Call, lock
  <2> QED BY <1>1, <2>1, <2>2, <2>3 DEF CallStep
<1>2. ASSUME NEW w \in Workers, ReadFromCache(w)
      PROVE  WInv'
  <2>1. CASE ReadLock(w)
    <3>1. CASE At(w, "readLock", "readCount")
      BY <2>1, <3>1 DEF ReadLock
    <3>2. CASE At(w, "leaveLock", "leaveCount")
      BY <2>1, <3>2 DEF ReadLock
    <3> QED BY <2>1, <3>1, <3>2 DEF ReadLock
  <2>2. CASE ReadCount(w)
    <3>1. CASE At(w, "readCount", "readFirst")
      BY <2>2, <3>1 DEF ReadCount
    <3>2. CASE At(w, "leaveCount", "leaveLast")
      BY <2>2, <3>2 DEF ReadCount
    <3> QED BY <2>2, <3>1, <3>2 DEF ReadCount
  <2>3. CASE ReadFirst(w)
    <3>1. /\ pc[w] = "readFirst" /\ pc' = [pc EXCEPT ![w] = "readUnlock"]
          /\ IF numReader = 1 THEN W = 1 /\ W' = 0 ELSE W' = W
      BY <2>3 DEF ReadFirst
    <3>2. CASE numReader = 1
      BY <3>1, <3>2
    <3>3. CASE numReader # 1
      <4>1. PICK u \in Workers : u # w /\ pc[u] \in CountedPlaces
        BY <3>1, <3>3, AnotherReader DEF CountedPlaces
      <4>2. pc[u] \in ReaderPlaces
        BY <3>1, <4>1 DEF MutexInv, MutexPlaces, CountedPlaces
      <4>3. W = 0 /\ \A v \in Workers : pc[v] \notin WriterPlaces
        BY <4>2
      <4> QED BY <3>1, <3>3, <4>3
    <3> QED BY <3>2, <3>3
  <2>4. CASE ReadUnlock(w)
    BY <2>4 DEF ReadUnlock
  <2>5. CASE ReadHead(w)
    BY <2>5 DEF ReadHead, lock
  <2>6. CASE Scan(w)
    BY <2>6 DEF Scan, lock
  <2>7. CASE LeaveLast(w)
    <3>1. /\ pc[w] = "leaveLast" /\ pc' = [pc EXCEPT ![w] = "leaveUnlock"]
          /\ W' = IF numReader = 0 THEN W + 1 ELSE W
      BY <2>7 DEF LeaveLast
    <3>2. W = 0 /\ \A v \in Workers : pc[v] \notin WriterPlaces
      BY <3>1
    <3>3. CASE numReader = 0
      <4>1. \A v \in Workers : pc[v] \notin CountedPlaces
        BY <3>3, NoReader
      <4>2. \A v \in Workers : v # w => pc[v] \notin ReaderPlaces
        BY <3>1, <4>1 DEF MutexInv, MutexPlaces, CountedPlaces
      <4> QED BY <3>1, <3>2, <4>2
    <3>4. CASE numReader # 0
      BY <3>1, <3>2, <3>4
    <3> QED BY <3>3, <3>4
  <2> QED BY <1>2, <2>1, <2>2, <2>3, <2>4, <2>5, <2>6, <2>7 DEF ReadFromCache
<1>3. ASSUME NEW w \in Workers, writeToCache(w)
      PROVE  WInv'
  <2>1. CASE WriterLock(w)
    BY <2>1 DEF WriterLock
  <2>2. CASE NewNode(w)
    BY <2>2 DEF NewNode, lock
  <2>3. CASE LinkBack(w)
    BY <2>3 DEF LinkBack, lock
  <2>4. CASE LinkFront(w)
    BY <2>4 DEF LinkFront, lock
  <2>5. CASE WriterUnlock(w)
    BY <2>5 DEF WriterUnlock
  <2> QED BY <1>3, <2>1, <2>2, <2>3, <2>4, <2>5 DEF writeToCache
<1>4. ASSUME NEW w \in Workers, clearAllInvalidCache(w)
      PROVE  WInv'
  <2>1. CASE ClearScan(w)
    BY <2>1 DEF ClearScan, lock
  <2>2. CASE UnlinkBack(w)
    BY <2>2 DEF UnlinkBack, lock
  <2>3. CASE UnlinkFront(w)
    BY <2>3 DEF UnlinkFront, lock
  <2>4. CASE Delete(w)
    BY <2>4 DEF Delete, lock
  <2> QED BY <1>4, <2>1, <2>2, <2>3, <2>4 DEF clearAllInvalidCache
<1>5. CASE ClockStep \/ UNCHANGED vars
  BY <1>5 DEF ClockStep, vars, lock
<1> QED BY <1>1, <1>2, <1>3, <1>4, <1>5 DEF Next, Body, Quiescent

-----------------------------------------------------------------------------
(***************************************************************************)
(* The list.                                                               *)
(***************************************************************************)

\* A writer is alone, so the only loose pointers are its own.
LEMMA Alone ==
    ASSUME WInv, NEW w \in Workers, pc[w] \in WriterPlaces
    PROVE  /\ \A v \in Workers : v # w => pc[v] \notin WriterPlaces \cup ScanPlaces
           /\ \A n : LooseNext(n) <=>
                 \/ pc[w] \in {"linkBack", "unlinkFront", "delete"} /\ n = node[w]
                 \/ pc[w] = "linkFront" /\ n = head
           /\ \A n : LoosePrev(n) <=>
                 \/ pc[w] \in {"linkBack", "linkFront", "delete"} /\ n = node[w]
                 \/ pc[w] = "unlinkFront" /\ n = next[node[w]]
<1>1. \A v \in Workers : v # w => pc[v] \notin WriterPlaces \cup ScanPlaces
  BY DEF WInv, ReaderPlaces
<1> QED BY <1>1 DEF LooseNext, LoosePrev, WriterPlaces, WritePlaces, ClearPlaces

\* What is true of the worker that changes the list holds for the others,
\* which are at no statement the invariant speaks of.
LEMMA OthersIdle ==
    ASSUME WInv, NEW w \in Workers, pc[w] \in WriterPlaces,
           TypeOK, NEW to, pc' = [pc EXCEPT ![w] = to],
           Stage(w)', Cursor(w)'
    PROVE  WorkerInv'
<1>1. ASSUME NEW v \in Workers, v # w
      PROVE  Stage(v)' /\ Cursor(v)'
  <2>1. pc'[v] \notin WriterPlaces \cup ScanPlaces
    BY <1>1, Alone DEF TypeOK
  <2> QED BY <2>1 DEF Stage, Cursor, WriterPlaces, WritePlaces, ClearPlaces, ScanPlaces
<1> QED BY <1>1 DEF WorkerInv

\* The sentinels are no nodes.
LEMMA Sentinels ==
    ASSUME TypeOK
    PROVE  /\ Forward \subseteq Nodes \cup {head} /\ Backward \subseteq Nodes \cup {tail}
           /\ head \notin Backward /\ tail \notin Forward
           /\ Forward \subseteq Pointers /\ Backward \subseteq Pointers
BY CacheAssumption DEF TypeOK, Forward, Backward, Pointers

\* addNode's newNode->next->prev = newNode.
LEMMA LinkBackStep ==
    ASSUME TypeOK, WInv, ListInv, NEW w \in Workers, LinkBack(w)
    PROVE  ListInv'
<1> DEFINE n == node[w]
           t == next[head]
<1>1. /\ pc[w] = "linkBack" /\ pc[w] \in WriterPlaces
      /\ pc' = [pc EXCEPT ![w] = "linkFront"] /\ pc'[w] = "linkFront"
      /\ prev' = [prev EXCEPT ![t] = n]
      /\ UNCHANGED <<next, alive, node, cur>>
  BY DEF LinkBack, At, local, TypeOK, WriterPlaces, WritePlaces
<1>2. n \in alive /\ next[n] = t /\ prev[n] = head
  BY <1>1 DEF ListInv, WorkerInv, Stage
<1>3. /\ \A m : LooseNext(m) <=> m = n
      /\ \A m : LoosePrev(m) <=> m = n
      /\ \A v \in Workers : v # w => pc[v] \notin WriterPlaces
  BY <1>1, Alone
<1>4. /\ \A m : LooseNext(m)' <=> m = head
      /\ \A m : LoosePrev(m)' <=> m = n
  BY <1>1, <1>3 DEF LooseNext, LoosePrev, TypeOK, WriterPlaces, WritePlaces, ClearPlaces
<1>5. /\ head \in Forward /\ n \in Forward /\ n \in Backward /\ t \in Backward
      /\ t \in Nodes \cup {tail} /\ n # head
      /\ Forward' = Forward /\ Backward' = Backward
  BY <1>1, <1>2, Sentinels DEF ListInv, Closed, Forward, Backward
<1>6. PICK rank \in [Pointers -> Int] : Ranks(rank)
  BY DEF ListInv, Ordered
<1>7. n # t
  BY <1>2, <1>5, <1>6, Sentinels DEF Ranks
<1>8. prev[t] = head
  BY <1>3, <1>5 DEF ListInv, Linked
<1>9. /\ prev'[t] = n
      /\ \A m \in Backward : m # t => prev'[m] = prev[m]
  BY <1>1, <1>5, Sentinels DEF TypeOK
<1>10. Closed'
  BY <1>1, <1>5, <1>9 DEF ListInv, Closed
<1>11. Ordered'
  <2>1. Ranks(rank)'
    BY <1>1, <1>2, <1>5, <1>6, <1>9 DEF Ranks
  <2> QED BY <2>1 DEF Ordered
<1>12. Linked'
  <2>1. ASSUME NEW m \in Forward, m # head
        PROVE  prev'[next[m]] = m
    <3>1. CASE m = n
      BY <3>1, <1>2, <1>9
    <3>2. CASE m # n
      <4>1. prev[next[m]] = m /\ next[m] \in Backward
        BY <3>2, <1>3 DEF ListInv, Linked, Closed
      <4> QED BY <4>1, <2>1, <1>8, <1>9
    <3> QED BY <3>1, <3>2
  <2>2. ASSUME NEW m \in Backward, m # n
        PROVE  next[prev'[m]] = m
    <3>1. CASE m = t
      BY <3>1, <1>2, <1>9
    <3>2. CASE m # t
      BY <3>2, <2>2, <1>3, <1>9 DEF ListInv, Linked
    <3> QED BY <3>1, <3>2
  <2> QED BY <2>1, <2>2, <1>1, <1>4, <1>5 DEF Linked
<1>13. Stage(w)' /\ Cursor(w)'
  BY <1>1, <1>2, <1>5, <1>7, <1>9 DEF Stage, Cursor
<1> QED BY <1>1, <1>10, <1>11, <1>12, <1>13, OthersIdle DEF ListInv

\* addNode's head->next = newNode.
LEMMA LinkFrontStep ==
    ASSUME TypeOK, WInv, ListInv, NEW w \in Workers, LinkFront(w)
    PROVE  ListInv'
<1> DEFINE n == node[w]
           t == next[head]
<1>1. /\ pc[w] = "linkFront" /\ pc[w] \in WriterPlaces
      /\ pc' = [pc EXCEPT ![w] = "writerUnlock"] /\ pc'[w] = "writerUnlock"
      /\ next' = [next EXCEPT ![head] = n]
      /\ UNCHANGED <<prev, alive, node, cur>>
  BY DEF LinkFront, At, local, TypeOK, WriterPlaces, WritePlaces
<1>2. n \in alive /\ next[n] = t /\ prev[n] = head /\ prev[t] = n
  BY <1>1 DEF ListInv, WorkerInv, Stage
<1>3. /\ \A m : LooseNext(m) <=> m = head
      /\ \A m : LoosePrev(m) <=> m = n
      /\ \A v \in Workers : v # w => pc[v] \notin WriterPlaces
  BY <1>1, Alone
<1>4. \A m : ~LooseNext(m)' /\ ~LoosePrev(m)'
  BY <1>1, <1>3 DEF LooseNext, LoosePrev, TypeOK, WriterPlaces, WritePlaces, ClearPlaces
<1>5. /\ head \in Forward /\ n \in Forward /\ n \in Backward /\ t \in Backward
      /\ n # head
      /\ Forward' = Forward /\ Backward' = Backward
  BY <1>1, <1>2, Sentinels DEF ListInv, Closed, Forward, Backward
<1>6. PICK rank \in [Pointers -> Int] : Ranks(rank)
  BY DEF ListInv, Ordered
<1>7. /\ next'[head] = n
      /\ \A m \in Forward : m # head => next'[m] = next[m]
  BY <1>1, <1>5, Sentinels DEF TypeOK
<1>8. Closed'
  BY <1>1, <1>5, <1>7 DEF ListInv, Closed
<1>9. Ordered'
  <2>1. rank[head] < rank[n]
    BY <1>2, <1>5, <1>6 DEF Ranks
  <2>2. Ranks(rank)'
    BY <1>1, <1>5, <1>6, <1>7, <2>1 DEF Ranks
  <2> QED BY <2>2 DEF Ordered
<1>10. Linked'
  <2>1. ASSUME NEW m \in Forward
        PROVE  prev[next'[m]] = m
    BY <1>2, <1>3, <1>7 DEF ListInv, Linked
  <2>2. ASSUME NEW m \in Backward
        PROVE  next'[prev[m]] = m
    <3>1. CASE m = n
      BY <3>1, <1>2, <1>7
    <3>2. CASE m # n
      <4>1. next[prev[m]] = m /\ prev[m] \in Forward
        BY <3>2, <1>3 DEF ListInv, Linked, Closed
      <4>2. prev[m] # head
        BY <4>1, <1>2, <1>5
      <4> QED BY <4>1, <4>2, <1>7
    <3> QED BY <3>1, <3>2
  <2> QED BY <2>1, <2>2, <1>1, <1>5 DEF Linked
<1>11. Stage(w)' /\ Cursor(w)'
  BY <1>1 DEF Stage, Cursor
<1> QED BY <1>1, <1>8, <1>9, <1>10, <1>11, OthersIdle DEF ListInv

\* deleteNode's cur->next->prev = cur->prev.
LEMMA UnlinkBackStep ==
    ASSUME TypeOK, WInv, ListInv, NEW w \in Workers, UnlinkBack(w)
    PROVE  ListInv'
<1> DEFINE n == node[w]
           t == next[n]
           p == prev[n]
<1>1. /\ pc[w] = "unlinkBack" /\ pc[w] \in WriterPlaces
      /\ pc' = [pc EXCEPT ![w] = "unlinkFront"] /\ pc'[w] = "unlinkFront"
      /\ prev' = [prev EXCEPT ![t] = p]
      /\ UNCHANGED <<next, alive, node, cur>>
  BY DEF UnlinkBack, At, local, TypeOK, WriterPlaces, ClearPlaces
<1>2. n \in alive /\ cur[w] = t
  BY <1>1 DEF ListInv, WorkerInv, Stage
<1>3. /\ \A m : ~LooseNext(m) /\ ~LoosePrev(m)
      /\ \A v \in Workers : v # w => pc[v] \notin WriterPlaces
  BY <1>1, Alone
<1>4. /\ \A m : LooseNext(m)' <=> m = n
      /\ \A m : LoosePrev(m)' <=> m = t
  BY <1>1, <1>3 DEF LooseNext, LoosePrev, TypeOK, WriterPlaces, WritePlaces, ClearPlaces
<1>5. /\ n \in Forward /\ n \in Backward /\ t \in Backward /\ p \in Forward
      /\ Forward' = Forward /\ Backward' = Backward
  BY <1>1, <1>2 DEF ListInv, Closed, Forward, Backward
<1>6. PICK rank \in [Pointers -> Int] : Ranks(rank)
  BY DEF ListInv, Ordered
<1>7. rank[p] < rank[n] /\ rank[n] < rank[t] /\ rank[p] < rank[t] /\ n # t
  BY <1>5, <1>6, Sentinels DEF Ranks
<1>8. /\ prev'[t] = p
      /\ \A m \in Backward : m # t => prev'[m] = prev[m]
  BY <1>1, <1>5, Sentinels DEF TypeOK
<1>9. Closed'
  BY <1>1, <1>5, <1>8 DEF ListInv, Closed
<1>10. Ordered'
  <2>1. Ranks(rank)'
    BY <1>1, <1>5, <1>6, <1>7, <1>8 DEF Ranks
  <2> QED BY <2>1 DEF Ordered
<1>11. Linked'
  <2>1. ASSUME NEW m \in Forward, m # n
        PROVE  prev'[next[m]] = m
    <3>1. prev[next[m]] = m /\ next[m] \in Backward /\ prev[t] = n
      BY <1>3, <1>5 DEF ListInv, Linked, Closed
    <3> QED BY <3>1, <2>1, <1>8
  <2>2. ASSUME NEW m \in Backward, m # t
        PROVE  next[prev'[m]] = m
    BY <2>2, <1>3, <1>8 DEF ListInv, Linked
  <2> QED BY <2>1, <2>2, <1>1, <1>4, <1>5 DEF Linked
<1>12. Stage(w)' /\ Cursor(w)'
  BY <1>1, <1>2, <1>5, <1>7, <1>8 DEF Stage, Cursor
<1> QED BY <1>1, <1>9, <1>10, <1>11, <1>12, OthersIdle DEF ListInv

\* deleteNode's cur->prev->next = cur->next.
LEMMA UnlinkFrontStep ==
    ASSUME TypeOK, WInv, ListInv, NEW w \in Workers, UnlinkFront(w)
    PROVE  ListInv'
<1> DEFINE n == node[w]
           t == next[n]
           p == prev[n]
<1>1. /\ pc[w] = "unlinkFront" /\ pc[w] \in WriterPlaces
      /\ pc' = [pc EXCEPT ![w] = "delete"] /\ pc'[w] = "delete"
      /\ next' = [next EXCEPT ![p] = t]
      /\ UNCHANGED <<prev, alive, node, cur>>
  BY DEF UnlinkFront, At, local, TypeOK, WriterPlaces, ClearPlaces
<1>2. n \in alive /\ cur[w] = t /\ prev[t] = p
  BY <1>1 DEF ListInv, WorkerInv, Stage
<1>3. /\ \A m : LooseNext(m) <=> m = n
      /\ \A m : LoosePrev(m) <=> m = t
      /\ \A v \in Workers : v # w => pc[v] \notin WriterPlaces
  BY <1>1, Alone
<1>4. /\ \A m : LooseNext(m)' <=> m = n
      /\ \A m : LoosePrev(m)' <=> m = n
  BY <1>1, <1>3 DEF LooseNext, LoosePrev, TypeOK, WriterPlaces, WritePlaces, ClearPlaces
<1>5. /\ n \in Forward /\ n \in Backward /\ t \in Backward /\ p \in Forward
      /\ Forward' = Forward /\ Backward' = Backward
  BY <1>1, <1>2 DEF ListInv, Closed, Forward, Backward
<1>6. PICK rank \in [Pointers -> Int] : Ranks(rank)
  BY DEF ListInv, Ordered
<1>7. rank[p] < rank[n] /\ rank[n] < rank[t] /\ rank[p] < rank[t] /\ n # t /\ p # n
  BY <1>5, <1>6, Sentinels DEF Ranks
<1>8. /\ next'[p] = t
      /\ \A m \in Forward : m # p => next'[m] = next[m]
  BY <1>1, <1>5, Sentinels DEF TypeOK
<1>9. Closed'
  BY <1>1, <1>5, <1>8 DEF ListInv, Closed
<1>10. Ordered'
  <2>1. Ranks(rank)'
    BY <1>1, <1>5, <1>6, <1>7, <1>8 DEF Ranks
  <2> QED BY <2>1 DEF Ordered
<1>11. Linked'
  <2>1. ASSUME NEW m \in Forward, m # n
        PROVE  prev[next'[m]] = m
    BY <2>1, <1>2, <1>3, <1>8 DEF ListInv, Linked
  <2>2. ASSUME NEW m \in Backward, m # n
        PROVE  next'[prev[m]] = m
    <3>1. CASE m = t
      BY <3>1, <1>2, <1>8
    <3>2. CASE m # t
      <4>1. next[prev[m]] = m /\ prev[m] \in Forward /\ next[p] = n
        BY <3>2, <1>3, <1>5, <1>7 DEF ListInv, Linked, Closed
      <4> QED BY <4>1, <2>2, <1>8
    <3> QED BY <3>1, <3>2
  <2> QED BY <2>1, <2>2, <1>1, <1>4, <1>5 DEF Linked
<1>12. Stage(w)' /\ Cursor(w)'
  BY <1>1, <1>2, <1>5, <1>7, <1>8 DEF Stage, Cursor
<1> QED BY <1>1, <1>9, <1>10, <1>11, <1>12, OthersIdle DEF ListInv

\* deleteNode's delete: no pointer of the list leads to the node any more.
LEMMA DeleteStep ==
    ASSUME TypeOK, WInv, ListInv, NEW w \in Workers, Delete(w)
    PROVE  ListInv'
<1> DEFINE n == node[w]
           t == next[n]
           p == prev[n]
<1>1. /\ pc[w] = "delete" /\ pc[w] \in WriterPlaces
      /\ pc' = [pc EXCEPT ![w] = "clearScan"] /\ pc'[w] = "clearScan"
      /\ alive' = alive \ {n}
      /\ UNCHANGED <<next, prev, node, cur>>
  BY DEF Delete, At, local, TypeOK, WriterPlaces, ClearPlaces
<1>2. n \in alive /\ cur[w] = t /\ prev[t] = p /\ next[p] = t
  BY <1>1 DEF ListInv, WorkerInv, Stage
<1>3. /\ \A m : LooseNext(m) <=> m = n
      /\ \A m : LoosePrev(m) <=> m = n
      /\ \A v \in Workers : v # w => pc[v] \notin WriterPlaces
  BY <1>1, Alone
<1>4. \A m : ~LooseNext(m)' /\ ~LoosePrev(m)'
  BY <1>1, <1>3 DEF LooseNext, LoosePrev, TypeOK, WriterPlaces, WritePlaces, ClearPlaces
<1>5. /\ n \in Forward /\ n \in Backward /\ t \in Backward /\ p \in Forward
      /\ n # head /\ n # tail
      /\ Forward' = Forward \ {n} /\ Backward' = Backward \ {n}
  BY <1>1, <1>2, Sentinels DEF ListInv, Closed, Forward, Backward
<1>6. PICK rank \in [Pointers -> Int] : Ranks(rank)
  BY DEF ListInv, Ordered
<1>7. n # t /\ p # n
  BY <1>5, <1>6, Sentinels DEF Ranks
<1>8. ASSUME NEW m \in Forward, m # n
      PROVE  next[m] # n /\ next[m] \in Backward /\ prev[next[m]] = m
  <2>1. next[m] \in Backward /\ prev[next[m]] = m
    BY <1>8, <1>3 DEF ListInv, Linked, Closed
  <2> QED BY <2>1, <1>2, <1>7
<1>9. ASSUME NEW m \in Backward, m # n
      PROVE  prev[m] # n /\ prev[m] \in Forward /\ next[prev[m]] = m
  <2>1. prev[m] \in Forward /\ next[prev[m]] = m
    BY <1>9, <1>3 DEF ListInv, Linked, Closed
  <2> QED BY <2>1, <1>2, <1>7
<1>10. Closed' /\ Linked'
  BY <1>1, <1>4, <1>5, <1>8, <1>9 DEF Closed, Linked
<1>11. Ordered'
  <2>1. Ranks(rank)'
    BY <1>1, <1>5, <1>6 DEF Ranks
  <2> QED BY <2>1 DEF Ordered
<1>12. Stage(w)' /\ Cursor(w)'
  BY <1>1, <1>2, <1>5, <1>7 DEF Stage, Cursor
<1> QED BY <1>1, <1>10, <1>11, <1>12, OthersIdle DEF ListInv

\* writeToCache's new Node and the two assignments to the new node.
LEMMA NewNodeStep ==
    ASSUME TypeOK, WInv, ListInv, NEW w \in Workers, NewNode(w), ~TooLarge(arg[w].gr)
    PROVE  ListInv'
<1> DEFINE t == next[head]
<1>1. PICK n \in Nodes \ alive :
        /\ pc' = [pc EXCEPT ![w] = "linkBack"]
        /\ alive' = alive \cup {n}
        /\ next' = [next EXCEPT ![n] = t]
        /\ prev' = [prev EXCEPT ![n] = head]
        /\ node' = [node EXCEPT ![w] = n]
  BY DEF NewNode, At
<1>2. /\ pc[w] = "new" /\ pc[w] \in WriterPlaces
      /\ pc'[w] = "linkBack" /\ node'[w] = n
  BY <1>1 DEF NewNode, At, TypeOK, WriterPlaces, WritePlaces
<1>3. /\ \A m : ~LooseNext(m) /\ ~LoosePrev(m)
      /\ \A v \in Workers : v # w => pc[v] \notin WriterPlaces
  BY <1>2, Alone
<1>4. /\ \A m : LooseNext(m)' <=> m = n
      /\ \A m : LoosePrev(m)' <=> m = n
  BY <1>1, <1>2, <1>3 DEF LooseNext, LoosePrev, TypeOK, WriterPlaces, WritePlaces, ClearPlaces
<1>5. /\ head \in Forward /\ n \notin Forward /\ n \notin Backward /\ t \in Backward
      /\ n # head /\ n # tail /\ n \in Pointers
      /\ Forward' = Forward \cup {n} /\ Backward' = Backward \cup {n}
  BY <1>1, CacheAssumption DEF ListInv, Closed, Forward, Backward, Pointers
<1>6. /\ next'[n] = t /\ prev'[n] = head
      /\ \A m \in Forward : next'[m] = next[m] /\ next[m] \in Backward
      /\ \A m \in Backward : prev'[m] = prev[m] /\ prev[m] \in Forward
  BY <1>1, <1>5, Sentinels DEF TypeOK, ListInv, Closed
<1>7. Closed'
  BY <1>5, <1>6 DEF Closed
<1>8. Ordered'
  <2>1. PICK rank \in [Pointers -> Int] : Ranks(rank)
    BY DEF ListInv, Ordered
  <2> DEFINE shifted == [m \in Pointers |->
                           IF m = n THEN rank[head]
                           ELSE IF m = head THEN rank[head] - 1 ELSE rank[m]]
  <2>2. shifted \in [Pointers -> Int] /\ head \in Pointers
    BY <2>1, Sentinels DEF Pointers
  <2>3. /\ shifted[n] = rank[head] /\ shifted[head] = rank[head] - 1
        /\ \A m \in Backward : shifted[m] = rank[m]
        /\ \A m \in Forward : shifted[m] <= rank[m]
    BY <1>5, <2>1, <2>2, Sentinels
  <2> HIDE DEF shifted
  <2>4. \A m \in Forward : shifted[m] < shifted[next[m]]
    BY <1>6, <2>1, <2>2, <2>3, Sentinels DEF Ranks
  <2>5. \A m \in Backward : shifted[prev[m]] < shifted[m]
    BY <1>6, <2>1, <2>2, <2>3, Sentinels DEF Ranks
  <2>6. rank[head] < rank[t]
    BY <1>5, <2>1 DEF Ranks
  <2>7. Ranks(shifted)'
    <3>1. ASSUME NEW m \in Forward' PROVE shifted[m] < shifted[next'[m]]
      BY <3>1, <1>5, <1>6, <2>3, <2>4, <2>6
    <3>2. ASSUME NEW m \in Backward' PROVE shifted[prev'[m]] < shifted[m]
      <4>1. shifted[head] < shifted[n]
        BY <2>1, <2>2, <2>3
      <4> QED BY <3>2, <4>1, <1>5, <1>6, <2>5
    <3> QED BY <3>1, <3>2 DEF Ranks
  <2> QED BY <2>2, <2>7 DEF Ordered
<1>9. Linked'
  <2>1. ASSUME NEW m \in Forward
        PROVE  prev'[next'[m]] = m
    BY <1>3, <1>6 DEF ListInv, Linked
  <2>2. ASSUME NEW m \in Backward
        PROVE  next'[prev'[m]] = m
    BY <1>3, <1>6 DEF ListInv, Linked
  <2> QED BY <2>1, <2>2, <1>4, <1>5 DEF Linked
<1>10. Stage(w)' /\ Cursor(w)'
  <2>1. next'[head] = t
    BY <1>5, <1>6
  <2> QED BY <1>1, <1>2, <1>5, <1>6, <2>1 DEF Stage, Cursor
<1> QED BY <1>1, <1>2, <1>7, <1>8, <1>9, <1>10, OthersIdle DEF ListInv

\* A step that leaves the pointers alone and makes none of them loose.
LEMMA QuietList ==
    ASSUME Closed, Ordered, Linked, UNCHANGED <<next, prev, alive>>,
           \A n : LooseNext(n)' <=> LooseNext(n), \A n : LoosePrev(n)' <=> LoosePrev(n)
    PROVE  Closed' /\ Ordered' /\ Linked'
<1>1. Forward' = Forward /\ Backward' = Backward
  BY DEF Forward, Backward
<1>2. Closed' /\ Linked'
  BY <1>1 DEF Closed, Linked
<1>3. Ordered'
  <2>1. PICK rank \in [Pointers -> Int] : Ranks(rank)
    BY DEF Ordered
  <2>2. Ranks(rank)'
    BY <1>1, <2>1 DEF Ranks
  <2> QED BY <2>2 DEF Ordered
<1> QED BY <1>2, <1>3

\* A worker that comes from a statement and goes to a statement at which it
\* has nothing loose, and changes no pointer of the list, keeps the invariant
\* if its own cursor and node are right.
LEMMA QuietStep ==
    ASSUME TypeOK, ListInv, NEW w \in Workers,
           UNCHANGED <<next, prev, alive>>,
           NEW to, pc' = [pc EXCEPT ![w] = to],
           pc[w] \notin {"linkBack", "linkFront", "unlinkFront", "delete"},
           to \notin {"linkBack", "linkFront", "unlinkFront", "delete"},
           \A v \in Workers : v # w => node'[v] = node[v] /\ cur'[v] = cur[v],
           Stage(w)', Cursor(w)'
    PROVE  ListInv'
<1>1. pc'[w] = to /\ \A v \in Workers : v # w => pc'[v] = pc[v]
  BY DEF TypeOK
<1>2. (\A n : LooseNext(n)' <=> LooseNext(n)) /\ (\A n : LoosePrev(n)' <=> LoosePrev(n))
  BY <1>1 DEF LooseNext, LoosePrev
<1>3. Closed' /\ Ordered' /\ Linked'
  BY <1>2, QuietList DEF ListInv
<1>4. ASSUME NEW v \in Workers, v # w
      PROVE  Stage(v)' /\ Cursor(v)'
  <2>1. Stage(v) /\ Cursor(v)
    BY DEF ListInv, WorkerInv
  <2> QED BY <1>1, <1>4, <2>1 DEF Stage, Cursor, Backward
<1> QED BY <1>3, <1>4 DEF ListInv, WorkerInv

\* In particular one that goes to a statement the invariant says nothing of.
LEMMA PlainStep ==
    ASSUME TypeOK, ListInv, NEW w \in Workers,
           UNCHANGED <<next, prev, alive>>,
           \A v \in Workers : v # w => node'[v] = node[v] /\ cur'[v] = cur[v],
           NEW to, pc' = [pc EXCEPT ![w] = to],
           pc[w] \notin {"linkBack", "linkFront", "unlinkFront", "delete"},
           to \notin {"linkBack", "linkFront", "unlinkBack", "unlinkFront", "delete",
                         "scan", "clearScan"}
    PROVE  ListInv'
<1>1. pc'[w] = to
  BY DEF TypeOK
<1>2. Stage(w)' /\ Cursor(w)'
  BY <1>1 DEF Stage, Cursor
<1> QED BY <1>2, QuietStep

\* The search starts inside the list.
LEMMA FirstIsListed ==
    ASSUME ListInv
    PROVE  next[head] \in Backward
BY DEF ListInv, Closed, Forward

\* Every step of the cache keeps the list whole.
LEMMA ListStep ==
    ASSUME TypeOK, LockInv, ListInv, [Next]_vars
    PROVE  ListInv'
<1> USE DEF At, list, local, LockInv
<1>1. ASSUME NEW w \in Workers, CallStep(w)
      PROVE  ListInv'
  <2>1. CASE CallRead(w)
    <3>1. /\ pc[w] \notin {"linkBack", "linkFront", "unlinkFront", "delete"}
          /\ pc' = [pc EXCEPT ![w] = "readLock"]
          /\ UNCHANGED <<next, prev, alive, cur, node>>
      BY <2>1 DEF CallRead, Call
    <3> QED BY <3>1, PlainStep
  <2>2. CASE CallWrite(w)
    <3>1. /\ pc[w] \notin {"linkBack", "linkFront", "unlinkFront", "delete"}
          /\ pc' = [pc EXCEPT ![w] = "writeLock"]
          /\ UNCHANGED <<next, prev, alive, cur, node>>
      BY <2>2 DEF CallWrite, Call
    <3> QED BY <3>1, PlainStep
  <2>3. CASE CallClear(w)
    <3>1. /\ pc[w] \notin {"linkBack", "linkFront", "unlinkFront", "delete"}
          /\ pc' = [pc EXCEPT ![w] = "clearLock"]
          /\ UNCHANGED <<next, prev, alive, cur, node>>
      BY <2>3 DEF CallClear, Call
    <3> QED BY <3>1, PlainStep
  <2> QED BY <1>1, <2>1, <2>2, <2>3 DEF CallStep
<1>2. ASSUME NEW w \in Workers, ReadFromCache(w)
      PROVE  ListInv'
  <2>1. CASE ReadLock(w)
    <3>1. CASE At(w, "readLock", "readCount")
      <4>1. pc[w] = "readLock" /\ pc' = [pc EXCEPT ![w] = "readCount"]
            /\ UNCHANGED <<next, prev, alive, cur, node>>
        BY <2>1, <3>1 DEF ReadLock
      <4> QED BY <4>1, PlainStep
    <3>2. CASE At(w, "leaveLock", "leaveCount")
      <4>1. pc[w] = "leaveLock" /\ pc' = [pc EXCEPT ![w] = "leaveCount"]
            /\ UNCHANGED <<next, prev, alive, cur, node>>
        BY <2>1, <3>2 DEF ReadLock
      <4> QED BY <4>1, PlainStep
    <3> QED BY <2>1, <3>1, <3>2 DEF ReadLock
  <2>2. CASE ReadCount(w)
    <3>1. CASE At(w, "readCount", "readFirst")
      <4>1. pc[w] = "readCount" /\ pc' = [pc EXCEPT ![w] = "readFirst"]
            /\ UNCHANGED <<next, prev, alive, cur, node>>
        BY <2>2, <3>1 DEF ReadCount
      <4> QED BY <4>1, PlainStep
    <3>2. CASE At(w, "leaveCount", "leaveLast")
      <4>1. pc[w] = "leaveCount" /\ pc' = [pc EXCEPT ![w] = "leaveLast"]
            /\ UNCHANGED <<next, prev, alive, cur, node>>
        BY <2>2, <3>2 DEF ReadCount
      <4> QED BY <4>1, PlainStep
    <3> QED BY <2>2, <3>1, <3>2 DEF ReadCount
  <2>3. CASE ReadFirst(w)
    <3>1. /\ pc[w] \notin {"linkBack", "linkFront", "unlinkFront", "delete"}
          /\ pc' = [pc EXCEPT ![w] = "readUnlock"]
          /\ UNCHANGED <<next, prev, alive, cur, node>>
      BY <2>3 DEF ReadFirst
    <3> QED BY <3>1, PlainStep
  <2>4. CASE ReadUnlock(w)
    <3>1. CASE At(w, "readUnlock", "readHead")
      <4>1. pc[w] = "readUnlock" /\ pc' = [pc EXCEPT ![w] = "readHead"]
            /\ UNCHANGED <<next, prev, alive, cur, node>>
        BY <2>4, <3>1 DEF ReadUnlock
      <4> QED BY <4>1, PlainStep
    <3>2. CASE At(w, "leaveUnlock", "idle")
      <4>1. /\ pc[w] = "leaveUnlock" /\ pc' = [pc EXCEPT ![w] = "idle"]
            /\ UNCHANGED <<next, prev, alive>>
            /\ \A v \in Workers : v # w => node'[v] = node[v] /\ cur'[v] = cur[v]
        BY <2>4, <3>2 DEF ReadUnlock, LocalsGone, TypeOK
      <4> QED BY <4>1, PlainStep
    <3> QED BY <2>4, <3>1, <3>2 DEF ReadUnlock
  <2>5. CASE ReadHead(w)
    <3>1. CASE At(w, "readHead", "scan")
      <4>1. /\ pc[w] = "readHead" /\ pc' = [pc EXCEPT ![w] = "scan"] /\ pc'[w] = "scan"
            /\ cur' = [cur EXCEPT ![w] = next[head]] /\ cur'[w] = next[head]
            /\ UNCHANGED <<next, prev, alive, node>>
        BY <2>5, <3>1 DEF ReadHead, TypeOK
      <4>2. Stage(w)' /\ Cursor(w)'
        BY <4>1, FirstIsListed DEF Stage, Cursor, Backward
      <4> QED BY <4>1, <4>2, QuietStep DEF TypeOK
    <3>2. CASE At(w, "clearHead", "clearScan")
      <4>1. /\ pc[w] = "clearHead" /\ pc' = [pc EXCEPT ![w] = "clearScan"] /\ pc'[w] = "clearScan"
            /\ cur' = [cur EXCEPT ![w] = next[head]] /\ cur'[w] = next[head]
            /\ UNCHANGED <<next, prev, alive, node>>
        BY <2>5, <3>2 DEF ReadHead, TypeOK
      <4>2. Stage(w)' /\ Cursor(w)'
        BY <4>1, FirstIsListed DEF Stage, Cursor, Backward
      <4> QED BY <4>1, <4>2, QuietStep DEF TypeOK
    <3> QED BY <2>5, <3>1, <3>2 DEF ReadHead
  <2>6. CASE Scan(w)
    <3>1. CASE At(w, "scan", "leaveLock") /\ UNCHANGED cur
      <4>1. pc[w] = "scan" /\ pc' = [pc EXCEPT ![w] = "leaveLock"]
            /\ UNCHANGED <<next, prev, alive, cur, node>>
        BY <2>6, <3>1 DEF Scan
      <4> QED BY <4>1, PlainStep
    <3>2. CASE At(w, "scan", "scan") /\ cur[w] # tail /\ cur' = [cur EXCEPT ![w] = next[cur[w]]]
      <4>1. /\ pc[w] = "scan" /\ pc' = [pc EXCEPT ![w] = "scan"] /\ pc'[w] = "scan"
            /\ cur' = [cur EXCEPT ![w] = next[cur[w]]] /\ cur'[w] = next[cur[w]]
            /\ UNCHANGED <<next, prev, alive, node>>
        BY <2>6, <3>2 DEF Scan, TypeOK
      <4>2. cur[w] \in Backward
        BY <4>1 DEF ListInv, WorkerInv, Cursor
      <4>3. next[cur[w]] \in Backward
        BY <3>2, <4>2 DEF ListInv, Closed, Forward, Backward
      <4>4. Stage(w)' /\ Cursor(w)'
        BY <4>1, <4>3 DEF Stage, Cursor, Backward
      <4> QED BY <4>1, <4>4, QuietStep DEF TypeOK
    <3> QED BY <2>6, <3>1, <3>2 DEF Scan
  <2>7. CASE LeaveLast(w)
    <3>1. /\ pc[w] \notin {"linkBack", "linkFront", "unlinkFront", "delete"}
          /\ pc' = [pc EXCEPT ![w] = "leaveUnlock"]
          /\ UNCHANGED <<next, prev, alive, cur, node>>
      BY <2>7 DEF LeaveLast
    <3> QED BY <3>1, PlainStep
  <2> QED BY <1>2, <2>1, <2>2, <2>3, <2>4, <2>5, <2>6, <2>7 DEF ReadFromCache
<1>3. ASSUME NEW w \in Workers, writeToCache(w)
      PROVE  ListInv'
  <2>1. CASE WriterLock(w)
    <3>1. CASE At(w, "writeLock", "new")
      <4>1. pc[w] = "writeLock" /\ pc' = [pc EXCEPT ![w] = "new"]
            /\ UNCHANGED <<next, prev, alive, cur, node>>
        BY <2>1, <3>1 DEF WriterLock
      <4> QED BY <4>1, PlainStep
    <3>2. CASE At(w, "clearLock", "clearHead")
      <4>1. pc[w] = "clearLock" /\ pc' = [pc EXCEPT ![w] = "clearHead"]
            /\ UNCHANGED <<next, prev, alive, cur, node>>
        BY <2>1, <3>2 DEF WriterLock
      <4> QED BY <4>1, PlainStep
    <3> QED BY <2>1, <3>1, <3>2 DEF WriterLock
  <2>2. CASE NewNode(w)
    <3>1. CASE TooLarge(arg[w].gr)
      <4>1. pc[w] = "new" /\ pc' = [pc EXCEPT ![w] = "writerUnlock"]
            /\ UNCHANGED <<next, prev, alive, cur, node>>
        BY <2>2, <3>1 DEF NewNode
      <4> QED BY <4>1, PlainStep
    <3>2. CASE ~TooLarge(arg[w].gr)
      BY <2>2, <3>2, NewNodeStep
    <3> QED BY <3>1, <3>2
  <2>3. CASE LinkBack(w)
    BY <2>3, LinkBackStep
  <2>4. CASE LinkFront(w)
    BY <2>4, LinkFrontStep
  <2>5. CASE WriterUnlock(w)
    <3>1. /\ pc[w] \notin {"linkBack", "linkFront", "unlinkFront", "delete"}
          /\ pc' = [pc EXCEPT ![w] = "idle"]
          /\ UNCHANGED <<next, prev, alive>>
          /\ \A v \in Workers : v # w => node'[v] = node[v] /\ cur'[v] = cur[v]
      BY <2>5 DEF WriterUnlock, LocalsGone, TypeOK
    <3> QED BY <3>1, PlainStep
  <2> QED BY <1>3, <2>1, <2>2, <2>3, <2>4, <2>5 DEF writeToCache
<1>4. ASSUME NEW w \in Workers, clearAllInvalidCache(w)
      PROVE  ListInv'
  <2>1. CASE ClearScan(w)
    <3>0. pc[w] = "clearScan" /\ pc[w] \in WriterPlaces /\ UNCHANGED <<next, prev, alive>>
      BY <2>1 DEF ClearScan, WriterPlaces, ClearPlaces
    <3>1. CASE cur[w] = tail
      <4>1. /\ pc' = [pc EXCEPT ![w] = "writerUnlock"]
            /\ UNCHANGED <<cur, node>>
        BY <2>1, <3>1 DEF ClearScan
      <4> QED BY <3>0, <4>1, PlainStep
    <3>2. CASE cur[w] # tail
      <4>1. cur[w] \in alive /\ cur[w] \in Forward /\ next[cur[w]] \in Backward
        BY <3>0, <3>2 DEF ListInv, WorkerInv, Cursor, Closed, Forward, Backward
      <4>2. prev[next[cur[w]]] = cur[w]
        BY <3>0, <4>1, Alone DEF ListInv, Linked
      <4>3. cur' = [cur EXCEPT ![w] = next[cur[w]]] /\ cur'[w] = next[cur[w]]
        BY <2>1, <3>2 DEF ClearScan, TypeOK
      <4>4. CASE Matches(w)
        <5>1. /\ pc' = [pc EXCEPT ![w] = "unlinkBack"] /\ pc'[w] = "unlinkBack"
              /\ node' = [node EXCEPT ![w] = prev[next[cur[w]]]]
              /\ node'[w] = cur[w]
          BY <2>1, <3>2, <4>2, <4>4 DEF ClearScan, TypeOK
        <5>2. Stage(w)' /\ Cursor(w)'
          BY <3>0, <4>1, <4>3, <5>1 DEF Stage, Cursor, Backward
        <5> QED BY <3>0, <4>3, <5>1, <5>2, QuietStep DEF TypeOK
      <4>5. CASE ~Matches(w)
        <5>1. /\ pc' = [pc EXCEPT ![w] = "clearScan"] /\ pc'[w] = "clearScan"
              /\ UNCHANGED node
          BY <2>1, <3>2, <4>5 DEF ClearScan, TypeOK
        <5>2. Stage(w)' /\ Cursor(w)'
          BY <3>0, <4>1, <4>3, <5>1 DEF Stage, Cursor, Backward
        <5> QED BY <3>0, <4>3, <5>1, <5>2, QuietStep DEF TypeOK
      <4> QED BY <4>4, <4>5
    <3> QED BY <3>1, <3>2
  <2>2. CASE UnlinkBack(w)
    BY <2>2, UnlinkBackStep
  <2>3. CASE UnlinkFront(w)
    BY <2>3, UnlinkFrontStep
  <2>4. CASE Delete(w)
    BY <2>4, DeleteStep
  <2> QED BY <1>4, <2>1, <2>2, <2>3, <2>4 DEF clearAllInvalidCache
<1>5. CASE ClockStep \/ UNCHANGED vars
  <2>1. UNCHANGED <<next, prev, alive, pc, node, cur>>
    BY <1>5 DEF ClockStep, vars
  <2>2. (\A n : LooseNext(n)' <=> LooseNext(n)) /\ (\A n : LoosePrev(n)' <=> LoosePrev(n))
    BY <2>1 DEF LooseNext, LoosePrev
  <2>3. Closed' /\ Ordered' /\ Linked'
    BY <2>1, <2>2, QuietList DEF ListInv
  <2>4. WorkerInv'
    BY <2>1 DEF ListInv, WorkerInv, Stage, Cursor, Backward
  <2> QED BY <2>3, <2>4 DEF ListInv
<1> QED BY <1>1, <1>2, <1>3, <1>4, <1>5 DEF Next, Body, Quiescent

-----------------------------------------------------------------------------
(***************************************************************************)
(* Type correctness.                                                       *)
(***************************************************************************)

\* What the locals are while there is no call.
LEMMA NoLocals ==
    NoContent \in Contents /\ head \in Pointers
    /\ Nothing \in [cs : CacheStatus, gr : Responses \cup {NoResponse}]
BY DEF NoContent, Contents, Pointers, Nothing, CacheStatus

\* No semaphore or counter leaves its range, and no pointer is followed that
\* is not in the list.
LEMMA TypeStep ==
    ASSUME TypeOK, LockInv, ListInv, [Next]_vars
    PROVE  TypeOK'
<1> USE DEF TypeOK, Places, EnterPlaces, ScanPlaces, LeavePlaces, WriterPlaces, WritePlaces,
            ClearPlaces, At, list, lock, local
<1>1. ASSUME NEW w \in Workers, CallStep(w)
      PROVE  TypeOK'
  <2>1. CASE CallRead(w)
    <3>1. PICK k \in Keys : Call(w, "readLock", k, NoResponse)
      BY <2>1 DEF CallRead
    <3>2. [key |-> k, gr |-> NoResponse] \in Contents
      BY DEF Contents
    <3> QED BY <2>1, <3>1, <3>2 DEF CallRead, Call, Nothing, CacheStatus
  <2>2. CASE CallWrite(w)
    <3>1. PICK k \in Keys, s \in Sizes, v \in ValidTimes :
            Call(w, "writeLock", k, [size |-> s, validTime |-> v, writeTime |-> now])
      BY <2>2 DEF CallWrite
    <3>2. [key |-> k, gr |-> [size |-> s, validTime |-> v, writeTime |-> now]] \in Contents
      BY DEF Contents, Responses
    <3> QED BY <2>2, <3>1, <3>2 DEF CallWrite, Call
  <2>3. CASE CallClear(w)
    <3>1. PICK k \in Keys : Call(w, "clearLock", k, NoResponse)
      BY <2>3 DEF CallClear
    <3>2. [key |-> k, gr |-> NoResponse] \in Contents
      BY DEF Contents
    <3> QED BY <2>3, <3>1, <3>2 DEF CallClear, Call
  <2> QED BY <1>1, <2>1, <2>2, <2>3 DEF CallStep
<1>2. ASSUME NEW w \in Workers, ReadFromCache(w)
      PROVE  TypeOK'
  <2>1. CASE ReadLock(w)
    BY <2>1 DEF ReadLock
  <2>2. CASE ReadCount(w)
    <3>1. CASE At(w, "readCount", "readFirst") /\ numReader' = numReader + 1
      BY <2>2, <3>1 DEF ReadCount
    <3>2. CASE At(w, "leaveCount", "leaveLast") /\ numReader' = numReader - 1
      <4>1. w \in Counted
        BY <3>2 DEF Counted, CountedPlaces
      <4>2. numReader > 0
        BY <4>1, CountedFinite, FS_EmptySet DEF LockInv, CountInv
      <4> QED BY <2>2, <3>2, <4>2 DEF ReadCount
    <3> QED BY <2>2, <3>1, <3>2 DEF ReadCount
  <2>3. CASE ReadFirst(w)
    BY <2>3 DEF ReadFirst
  <2>4. CASE ReadUnlock(w)
    <3>1. mutex = 0
      BY <2>4 DEF ReadUnlock, LockInv, MutexInv, MutexPlaces
    <3>2. CASE At(w, "readUnlock", "readHead")
      BY <2>4, <3>1, <3>2 DEF ReadUnlock
    <3>3. CASE At(w, "leaveUnlock", "idle") /\ LocalsGone(w)
      BY <2>4, <3>1, <3>3, NoLocals DEF ReadUnlock, LocalsGone
    <3> QED BY <2>4, <3>1, <3>2, <3>3 DEF ReadUnlock
  <2>5. CASE ReadHead(w)
    <3>1. next[head] \in Pointers
      OBVIOUS
    <3> QED BY <2>5, <3>1 DEF ReadHead
  <2>6. CASE Scan(w)
    <3>1. cur[w] # tail => cur[w] \in alive
      BY <2>6 DEF Scan, ListInv, WorkerInv, Cursor, Backward
    <3>2. CASE At(w, "scan", "leaveLock") /\ UNCHANGED <<cur, found>>
      BY <2>6, <3>2 DEF Scan
    <3>3. CASE cur[w] # tail /\ Matches(w)
      <4> DEFINE gr == content[cur[w]].gr
                 valid == timeDifference(gr.writeTime, now) < gr.validTime
                 answer == [cs |-> IF valid THEN "CS_CACHE_VALID" ELSE "CS_CACHE_NEED_REVALIDATE",
                            gr |-> gr]
      <4>1. At(w, "scan", "leaveLock") /\ found' = [found EXCEPT ![w] = answer] /\ UNCHANGED cur
        BY <2>6, <3>3 DEF Scan
      <4>2. gr \in Responses \cup {NoResponse}
        BY <3>1, <3>3 DEF Contents
      <4>3. answer \in [cs : CacheStatus, gr : Responses \cup {NoResponse}]
        BY <4>2 DEF CacheStatus
      <4> HIDE DEF answer
      <4> QED BY <2>6, <4>1, <4>3 DEF Scan
    <3>4. CASE At(w, "scan", "scan") /\ cur' = [cur EXCEPT ![w] = next[cur[w]]] /\ UNCHANGED found
               /\ cur[w] # tail
      <4>1. next[cur[w]] \in Pointers
        BY <3>1, <3>4
      <4> QED BY <2>6, <3>4, <4>1 DEF Scan
    <3> QED BY <2>6, <3>2, <3>3, <3>4 DEF Scan
  <2>7. CASE LeaveLast(w)
    <3>1. W = 0
      BY <2>7 DEF LeaveLast, LockInv, WInv, ReaderPlaces
    <3> QED BY <2>7, <3>1 DEF LeaveLast
  <2> QED BY <1>2, <2>1, <2>2, <2>3, <2>4, <2>5, <2>6, <2>7 DEF ReadFromCache
<1>3. ASSUME NEW w \in Workers, writeToCache(w)
      PROVE  TypeOK'
  <2>1. CASE WriterLock(w)
    BY <2>1 DEF WriterLock
  <2>2. CASE NewNode(w)
    <3>1. CASE TooLarge(arg[w].gr)
      BY <2>2, <3>1 DEF NewNode
    <3>2. CASE ~TooLarge(arg[w].gr)
      <4>1. next[head] \in Pointers /\ arg[w] \in Contents /\ head \in Pointers
        BY DEF Pointers
      <4>2. PICK n \in Nodes \ alive :
              /\ pc' = [pc EXCEPT ![w] = "linkBack"]
              /\ alive' = alive \cup {n}
              /\ content' = [content EXCEPT ![n] = arg[w]]
              /\ next' = [next EXCEPT ![n] = next[head]]
              /\ prev' = [prev EXCEPT ![n] = head]
              /\ node' = [node EXCEPT ![w] = n]
        BY <2>2, <3>2 DEF NewNode
      <4>3. n \in Pointers
        BY DEF Pointers
      <4> QED BY <2>2, <4>1, <4>2, <4>3 DEF NewNode
    <3> QED BY <3>1, <3>2
  <2>3. CASE LinkBack(w)
    <3>1. node[w] \in alive
      BY <2>3 DEF LinkBack, ListInv, WorkerInv, Stage
    <3>2. node[w] \in Pointers
      BY <3>1 DEF Pointers
    <3> QED BY <2>3, <3>2 DEF LinkBack
  <2>4. CASE LinkFront(w)
    <3>1. node[w] \in alive
      BY <2>4 DEF LinkFront, ListInv, WorkerInv, Stage
    <3>2. node[w] \in Pointers
      BY <3>1 DEF Pointers
    <3> QED BY <2>4, <3>2 DEF LinkFront
  <2>5. CASE WriterUnlock(w)
    <3>1. W = 0
      BY <2>5 DEF WriterUnlock, LockInv, WInv
    <3> QED BY <2>5, <3>1, NoLocals DEF WriterUnlock, LocalsGone
  <2> QED BY <1>3, <2>1, <2>2, <2>3, <2>4, <2>5 DEF writeToCache
<1>4. ASSUME NEW w \in Workers, clearAllInvalidCache(w)
      PROVE  TypeOK'
  <2>1. CASE ClearScan(w)
    <3>0. pc[w] = "clearScan" /\ pc[w] \in WriterPlaces
      BY <2>1 DEF ClearScan
    <3>1. CASE cur[w] = tail
      BY <2>1, <3>1 DEF ClearScan
    <3>2. CASE cur[w] # tail
      <4>1. cur[w] \in alive
        BY <3>0, <3>2 DEF ListInv, WorkerInv, Cursor, Backward
      <4>2. next[cur[w]] \in Pointers /\ next[cur[w]] \in Backward
        BY <4>1 DEF ListInv, Closed, Forward
      <4>3. prev[next[cur[w]]] \in Pointers
        BY <4>2, Sentinels DEF TypeOK
      <4> QED BY <2>1, <3>2, <4>2, <4>3 DEF ClearScan
    <3> QED BY <3>1, <3>2
  <2>2. CASE UnlinkBack(w)
    <3>1. node[w] \in alive
      BY <2>2 DEF UnlinkBack, ListInv, WorkerInv, Stage
    <3>2. prev[node[w]] \in Pointers
      BY <3>1, CacheAssumption DEF Pointers
    <3> QED BY <2>2, <3>2 DEF UnlinkBack
  <2>3. CASE UnlinkFront(w)
    <3>1. node[w] \in alive
      BY <2>3 DEF UnlinkFront, ListInv, WorkerInv, Stage
    <3>2. next[node[w]] \in Pointers
      BY <3>1, CacheAssumption DEF Pointers
    <3> QED BY <2>3, <3>2 DEF UnlinkFront
  <2>4. CASE Delete(w)
    BY <2>4 DEF Delete
  <2> QED BY <1>4, <2>1, <2>2, <2>3, <2>4 DEF clearAllInvalidCache
<1>5. CASE ClockStep \/ UNCHANGED vars
  BY <1>5 DEF ClockStep, vars
<1> QED BY <1>1, <1>2, <1>3, <1>4, <1>5 DEF Next, Body, Quiescent

-----------------------------------------------------------------------------
(***************************************************************************)
(* The theorems.                                                           *)
(***************************************************************************)

\* A new cache has an empty list and a free lock.
LEMMA InitInv ==
    ASSUME Init
    PROVE  IInv
<1>1. Pointers = Nodes \cup {head, tail} /\ head # tail /\ 0 \in Times
  BY CacheAssumption DEF Pointers, Times
<1>2. TypeOK
  <2>1. NoContent \in Contents
    BY DEF NoContent, Contents
  <2>2. Nothing \in [cs : CacheStatus, gr : Responses \cup {NoResponse}]
    BY DEF Nothing, CacheStatus
  <2> QED BY <1>1, <2>1, <2>2 DEF Init, TypeOK, Places
<1>3. LockInv
  <2>1. \A w \in Workers : pc[w] = "idle"
    BY DEF Init
  <2>2. Counted = {}
    BY <2>1 DEF Counted, CountedPlaces, ScanPlaces
  <2>3. CountInv
    BY <2>2, FS_EmptySet DEF CountInv, Init
  <2> QED BY <2>1, <2>3 DEF LockInv, MutexInv, MutexPlaces, WInv, ReaderPlaces, ScanPlaces,
                            WriterPlaces, WritePlaces, ClearPlaces
<1>4. ListInv
  <2>1. /\ Forward = {head} /\ Backward = {tail} /\ next[head] = tail /\ prev[tail] = head
        /\ \A w \in Workers : pc[w] = "idle"
    BY DEF Init, Forward, Backward
  <2>2. Closed /\ Linked /\ WorkerInv
    BY <2>1 DEF Closed, Linked, WorkerInv, Stage, Cursor
  <2>3. Ordered
    <3> DEFINE rank == [n \in Pointers |-> IF n = head THEN 0 ELSE 1]
    <3>1. rank \in [Pointers -> Int] /\ rank[head] = 0 /\ rank[tail] = 1
      BY <1>1
    <3> HIDE DEF rank
    <3>2. Ranks(rank)
      BY <2>1, <3>1 DEF Ranks
    <3> QED BY <3>1, <3>2 DEF Ordered
  <2> QED BY <2>2, <2>3 DEF ListInv
<1> QED BY <1>2, <1>3, <1>4 DEF IInv

\* IInv is inductive.
THEOREM Invariance == SafeSpec => []IInv
<1>1. Init => IInv
  BY InitInv
<1>2. IInv /\ [Next]_vars => IInv'
  BY TypeStep, MutexStep, CountStep, WStep, ListStep DEF IInv, LockInv
<1> QED BY <1>1, <1>2, PTL DEF SafeSpec

\* Every variable keeps its type: in particular mutex and W stay binary
\* semaphores, and numReader never goes below zero.
THEOREM TypeCorrect == SafeSpec => []TypeOK
<1>1. IInv => TypeOK
  BY DEF IInv
<1> QED BY <1>1, Invariance, PTL

\* A writer never shares the list with a reader or another writer.
THEOREM WriterAlone == SafeSpec => []WriterIsAlone
<1>1. IInv => WriterIsAlone
  BY DEF IInv, LockInv, WInv, WriterIsAlone, ReaderPlaces
<1> QED BY <1>1, Invariance, PTL

\* No search, no clear and no pointer of the list leads to a freed node.
THEOREM NoFreedNode == SafeSpec => []NoFreedNodeReached
<1>1. IInv => NoFreedNodeReached
  BY DEF IInv, ListInv, Closed, Forward, Backward, WorkerInv, Stage, Cursor,
         NoFreedNodeReached
<1> QED BY <1>1, Invariance, PTL

-----------------------------------------------------------------------------
(***************************************************************************)
(* Counting and numbering.                                                 *)
(***************************************************************************)

\* Every set of numbers that is not empty has a least element.
LEMMA LeastExists ==
    ASSUME NEW S \in SUBSET Nat, S # {}
    PROVE  \E m \in S : \A n \in S : m <= n
<1>1. PICK m \in S : \A n \in S : ~(<<n, m>> \in OpToRel(<, Nat))
  BY NatLessThanWellFounded, WFMin
<1>2. \A n \in Nat : <<n, m>> \in OpToRel(<, Nat) <=> n < m
  BY DEF OpToRel
<1>3. \A n \in S : ~(n < m)
  BY <1>1, <1>2
<1>4. \A n \in S : n \in Nat
  OBVIOUS
<1> QED BY <1>3, <1>4

\* Induction up to n, over the set of the numbers for which it holds.
LEMMA CountUp ==
    ASSUME NEW n \in Nat, NEW S, 0 \in S, \A i \in 1 .. n : i - 1 \in S => i \in S
    PROVE  \A i \in 0 .. n : i \in S
<1> DEFINE T == {i \in 0 .. n : i \notin S}
<1>1. SUFFICES ASSUME T # {} PROVE FALSE
  OBVIOUS
<1>2. T \in SUBSET Nat
  OBVIOUS
<1> HIDE DEF T
<1>3. PICK m \in T : \A i \in T : m <= i
  BY <1>1, <1>2, LeastExists
<1>4. m \in 1 .. n /\ m - 1 \notin T
  BY <1>2, <1>3 DEF T
<1> QED BY <1>4, <1>3 DEF T

\* There are finitely many pointers.
LEMMA PointersFinite ==
    /\ Cardinality(Nodes) \in Nat
    /\ IsFiniteSet(Pointers)
    /\ Cardinality(Pointers) = Cardinality(Nodes) + 2
<1>1. IsFiniteSet(Nodes) /\ head \notin Nodes /\ tail \notin Nodes \cup {head}
  BY CacheAssumption
<1>2. /\ IsFiniteSet(Nodes \cup {head})
      /\ Cardinality(Nodes \cup {head}) = Cardinality(Nodes) + 1
  BY <1>1, FS_AddElement
<1>3. /\ IsFiniteSet((Nodes \cup {head}) \cup {tail})
      /\ Cardinality((Nodes \cup {head}) \cup {tail}) = Cardinality(Nodes \cup {head}) + 1
  BY <1>1, <1>2, FS_AddElement
<1>4. Pointers = (Nodes \cup {head}) \cup {tail}
  BY DEF Pointers
<1>5. Cardinality(Nodes) \in Nat
  BY <1>1, FS_CardinalityType
<1> QED BY <1>2, <1>3, <1>4, <1>5

\* Numbers from 0 on will do to rank finitely many pointers.
LEMMA SmallRanks ==
    ASSUME NEW rank \in [Pointers -> Int]
    PROVE  \E r \in [Pointers -> 0 .. Cardinality(Nodes) + 1] :
              \A a, b \in Pointers : rank[a] < rank[b] => r[a] < r[b]
<1> DEFINE Below(a) == {b \in Pointers : rank[b] < rank[a]}
           r == [a \in Pointers |-> Cardinality(Below(a))]
<1>1. ASSUME NEW a \in Pointers
      PROVE  /\ IsFiniteSet(Below(a)) /\ Cardinality(Below(a)) \in 0 .. Cardinality(Nodes) + 1
  <2>1. Below(a) \in SUBSET (Pointers \ {a})
    OBVIOUS
  <2>2. /\ IsFiniteSet(Pointers \ {a})
        /\ Cardinality(Pointers \ {a}) = Cardinality(Nodes) + 1
    BY PointersFinite, FS_RemoveElement
  <2> HIDE DEF Below
  <2>3. IsFiniteSet(Below(a)) /\ Cardinality(Below(a)) <= Cardinality(Pointers \ {a})
    BY <2>1, <2>2, FS_Subset
  <2>4. Cardinality(Below(a)) \in Nat
    BY <2>3, FS_CardinalityType
  <2> QED BY <2>2, <2>3, <2>4, PointersFinite
<1>2. ASSUME NEW a \in Pointers, NEW b \in Pointers, rank[a] < rank[b]
      PROVE  Cardinality(Below(a)) < Cardinality(Below(b))
  <2>1. Below(a) \in SUBSET Below(b) /\ a \in Below(b) /\ a \notin Below(a)
    BY <1>2
  <2>2. IsFiniteSet(Below(b)) /\ Cardinality(Below(b)) \in Nat /\ Cardinality(Below(a)) \in Nat
    BY <1>1
  <2> HIDE DEF Below
  <2>3. /\ Cardinality(Below(a)) <= Cardinality(Below(b))
        /\ Cardinality(Below(b)) = Cardinality(Below(a)) => Below(b) = Below(a)
    BY <2>1, <2>2, FS_Subset
  <2> QED BY <2>1, <2>2, <2>3
<1>3. r \in [Pointers -> 0 .. Cardinality(Nodes) + 1]
  BY <1>1
<1>4. \A a, b \in Pointers : rank[a] < rank[b] => r[a] < r[b]
  BY <1>2
<1> QED BY <1>3, <1>4

-----------------------------------------------------------------------------
(***************************************************************************)
(* The list as a sequence of nodes.                                        *)
(***************************************************************************)

\* The i-th stop on the way from head to tail over the nodes of q.
Stop(q, i) == IF i = 0 THEN head ELSE IF i = Len(q) + 1 THEN tail ELSE q[i]

\* Following nx from head visits the nodes of q, all of them in A.
ListOf(q, nx, A) ==
    q \in Seq(A) /\ \A i \in 0 .. Len(q) : nx[Stop(q, i)] = Stop(q, i + 1)

\* No node of A is met twice, and none leads out of A.
Sorted(nx, A) ==
    \E rank \in [Pointers -> Int] :
        \A n \in A \cup {head} : nx[n] \in A \cup {tail} /\ rank[n] < rank[nx[n]]

Walk(p, nx) ==
    p = [i \in 0 .. Cardinality(Nodes) + 1 |->
           IF i = 0 THEN head ELSE IF p[i - 1] = tail THEN tail ELSE nx[p[i - 1]]]

WalkOf(nx) == CHOOSE p : Walk(p, nx)

\* There is such a walk, so WalkOf takes one step of it at a time.
LEMMA WalkExists ==
    ASSUME NEW nx
    PROVE  /\ WalkOf(nx)[0] = head
           /\ \A i \in 1 .. Cardinality(Nodes) + 1 :
                 WalkOf(nx)[i] = IF WalkOf(nx)[i - 1] = tail THEN tail ELSE nx[WalkOf(nx)[i - 1]]
<1> DEFINE N == Cardinality(Nodes) + 1
           Upto(p, n) == p = [i \in 0 .. n |->
               IF i = 0 THEN head ELSE IF p[i - 1] = tail THEN tail ELSE nx[p[i - 1]]]
           S == {n \in 0 .. N : \E p : Upto(p, n)}
<1>n. N \in Nat
  BY PointersFinite
<1>1. 0 \in S
  <2>1. Upto([i \in 0 .. 0 |-> head], 0)
    OBVIOUS
  <2> HIDE DEF Upto, N
  <2> QED BY <2>1, <1>n
<1>2. ASSUME NEW n \in 1 .. N, n - 1 \in S PROVE n \in S
  <2>1. PICK p : Upto(p, n - 1)
    BY <1>2
  <2> DEFINE h == [i \in 0 .. n |->
                     IF i = n THEN IF p[n - 1] = tail THEN tail ELSE nx[p[n - 1]] ELSE p[i]]
  <2> HIDE DEF N
  <2>2. \A i \in 0 .. n - 1 : h[i] = p[i]
    BY <1>n
  <2>3. h[n] = IF h[n - 1] = tail THEN tail ELSE nx[h[n - 1]]
    BY <1>n, <2>2
  <2>4. \A i \in 0 .. n - 1 : p[i] = IF i = 0 THEN head
             ELSE IF p[i - 1] = tail THEN tail ELSE nx[p[i - 1]]
    BY <1>n, <2>1
  <2>5. \A i \in 0 .. n - 1 : h[i] = IF i = 0 THEN head
             ELSE IF h[i - 1] = tail THEN tail ELSE nx[h[i - 1]]
    BY <1>n, <2>2, <2>4
  <2>6. h = [i \in 0 .. n |-> h[i]]
    OBVIOUS
  <2> HIDE DEF h
  <2>7. \A i \in 0 .. n : h[i] = IF i = 0 THEN head
             ELSE IF h[i - 1] = tail THEN tail ELSE nx[h[i - 1]]
    BY <1>n, <2>3, <2>5
  <2>8. Upto(h, n)
    BY <2>6, <2>7
  <2> QED BY <1>n, <2>8
<1>3. \E p : Upto(p, N)
  <2> HIDE DEF S, N
  <2>1. \A i \in 0 .. N : i \in S
    BY <1>n, <1>1, <1>2, CountUp
  <2>2. N \in S
    BY <1>n, <2>1
  <2> QED BY <2>2 DEF S
<1>4. Walk(WalkOf(nx), nx)
  BY <1>3 DEF Walk, WalkOf
<1> DEFINE w == WalkOf(nx)
<1> HIDE DEF w
<1>5. \A i \in 0 .. N : w[i] = IF i = 0 THEN head
             ELSE IF w[i - 1] = tail THEN tail ELSE nx[w[i - 1]]
  BY <1>4 DEF Walk, w
<1> HIDE DEF N
<1>6. w[0] = head /\ \A i \in 1 .. N : w[i] = IF w[i - 1] = tail THEN tail ELSE nx[w[i - 1]]
  BY <1>n, <1>5
<1> QED BY <1>6 DEF w, N

\* The walk ends, and what it visits is a list.
LEMMA ListExists ==
    ASSUME NEW nx, NEW A \in SUBSET Nodes, Sorted(nx, A)
    PROVE  \E q : ListOf(q, nx, A)
<1> DEFINE N == Cardinality(Nodes) + 1
           p == WalkOf(nx)
<1>n. N \in Nat /\ N >= 1
  BY PointersFinite
<1>p. p[0] = head /\ \A i \in 1 .. N : p[i] = IF p[i - 1] = tail THEN tail ELSE nx[p[i - 1]]
  BY WalkExists
<1>t. head # tail /\ head \notin A /\ tail \notin A /\ head \in Pointers /\ tail \in Pointers
      /\ A \in SUBSET Pointers
  BY CacheAssumption DEF Pointers
<1>1. PICK rank \in [Pointers -> Int] :
         \A n \in A \cup {head} : nx[n] \in A \cup {tail} /\ rank[n] < rank[nx[n]]
  BY DEF Sorted
<1>2. PICK r \in [Pointers -> 0 .. N] :
         \A a, b \in Pointers : rank[a] < rank[b] => r[a] < r[b]
  BY SmallRanks
<1>3. \A n \in A \cup {head} : nx[n] \in A \cup {tail} /\ r[n] < r[nx[n]]
  BY <1>1, <1>2, <1>t
<1>r. \A n \in Pointers : r[n] \in 0 .. N
  BY <1>2
<1> HIDE DEF N, p
<1> DEFINE S == {i \in 0 .. N : p[i] = tail \/ (p[i] \in A \cup {head} /\ r[p[i]] >= i)}
<1>4. 0 \in S
  BY <1>n, <1>p, <1>t, <1>r
<1>5. ASSUME NEW i \in 1 .. N, i - 1 \in S PROVE i \in S
  <2>1. CASE p[i - 1] = tail
    <3>1. p[i] = tail
      BY <1>p, <2>1
    <3>2. i \in 0 .. N
      BY <1>n
    <3> QED BY <3>1, <3>2
  <2>2. CASE p[i - 1] # tail
    <3>1. p[i - 1] \in A \cup {head} /\ r[p[i - 1]] >= i - 1
      BY <1>5, <2>2
    <3>2. p[i] = nx[p[i - 1]] /\ p[i] \in A \cup {tail} /\ r[p[i - 1]] < r[p[i]]
      BY <1>3, <1>p, <2>2, <3>1
    <3>3. r[p[i]] \in 0 .. N /\ r[p[i - 1]] \in 0 .. N
      BY <1>r, <1>t, <3>1, <3>2
    <3>4. r[p[i]] >= i
      BY <1>n, <3>1, <3>2, <3>3
    <3> QED BY <3>2, <3>4
  <2> QED BY <2>1, <2>2
<1>6. \A i \in 0 .. N : i \in S
  <2> HIDE DEF S
  <2> QED BY <1>n, <1>4, <1>5, CountUp
<1>7. p[N] = tail
  <2>1. SUFFICES ASSUME p[N] # tail PROVE FALSE
    OBVIOUS
  <2>2. p[N] \in A \cup {head} /\ r[p[N]] >= N
    BY <1>6, <1>n, <2>1
  <2>3. r[p[N]] < r[nx[p[N]]] /\ nx[p[N]] \in Pointers
    BY <1>3, <1>t, <2>2
  <2>4. r[p[N]] \in 0 .. N /\ r[nx[p[N]]] \in 0 .. N
    BY <1>r, <1>t, <2>2, <2>3
  <2> QED BY <2>2, <2>3, <2>4, <1>n
<1> DEFINE E == {i \in 0 .. N : p[i] = tail}
<1>8. E \in SUBSET Nat /\ N \in E
  BY <1>7, <1>n
<1>9. PICK m \in E : \A i \in E : m <= i
  <2> HIDE DEF E
  <2> QED BY <1>8, LeastExists
<1>10. m \in 1 .. N /\ p[m] = tail /\ \A i \in 0 .. m - 1 : p[i] # tail
  BY <1>9, <1>p, <1>t, <1>n
<1>11. \A i \in 0 .. m - 1 : p[i] \in A \cup {head} /\ nx[p[i]] = p[i + 1]
  <2> TAKE i \in 0 .. m - 1
  <2>1. i \in S /\ i + 1 \in 1 .. N /\ p[i] # tail
    BY <1>6, <1>10, <1>n
  <2>2. p[i + 1] = nx[p[i]]
    <3>1. (i + 1) - 1 = i
      BY <1>10
    <3> QED BY <2>1, <1>p, <3>1
  <2> QED BY <2>1, <2>2
<1>12. \A i \in 1 .. m - 1 : p[i] \in A
  <2> TAKE i \in 1 .. m - 1
  <2>1. i - 1 \in 0 .. m - 1 /\ i \in 0 .. m - 1 /\ (i - 1) + 1 = i
    BY <1>10
  <2>2. p[i] = nx[p[i - 1]] /\ p[i - 1] \in A \cup {head} /\ p[i] # tail
    BY <2>1, <1>10, <1>11
  <2> QED BY <2>2, <1>3
<1> DEFINE q == [i \in 1 .. m - 1 |-> p[i]]
<1>13. q \in Seq(A) /\ Len(q) = m - 1 /\ \A i \in 1 .. m - 1 : q[i] = p[i]
  BY <1>10, <1>12
<1> HIDE DEF q
<1>14. \A i \in 0 .. m : Stop(q, i) = p[i]
  BY <1>13, <1>10, <1>p DEF Stop
<1>15. \A i \in 0 .. Len(q) : nx[Stop(q, i)] = Stop(q, i + 1)
  <2> TAKE i \in 0 .. Len(q)
  <2>1. i \in 0 .. m - 1 /\ i \in 0 .. m /\ i + 1 \in 0 .. m
    BY <1>10, <1>13
  <2> QED BY <2>1, <1>11, <1>14
<1> QED BY <1>13, <1>15 DEF ListOf

\* A list has at most as many nodes as there are, and stops nowhere twice.
LEMMA StopsDiffer ==
    ASSUME NEW nx, NEW A \in SUBSET Nodes, Sorted(nx, A), NEW q, ListOf(q, nx, A)
    PROVE  /\ Len(q) \in 0 .. Cardinality(Nodes)
           /\ \A i, j \in 0 .. Len(q) + 1 : i # j => Stop(q, i) # Stop(q, j)
<1> DEFINE N == Cardinality(Nodes) + 1
<1>t. head \in Pointers /\ tail \in Pointers /\ A \in SUBSET Pointers
  BY DEF Pointers
<1>q. Len(q) \in Nat /\ (\A i \in 1 .. Len(q) : q[i] \in A)
      /\ \A i \in 0 .. Len(q) : nx[Stop(q, i)] = Stop(q, i + 1)
  BY DEF ListOf
<1>n. N \in Nat
  BY PointersFinite
<1>1. PICK rank \in [Pointers -> Int] :
         \A n \in A \cup {head} : nx[n] \in A \cup {tail} /\ rank[n] < rank[nx[n]]
  BY DEF Sorted
<1>2. PICK r \in [Pointers -> 0 .. N] :
         \A a, b \in Pointers : rank[a] < rank[b] => r[a] < r[b]
  BY SmallRanks
<1>3. \A n \in A \cup {head} : r[n] < r[nx[n]]
  BY <1>1, <1>2, <1>t
<1>r. \A n \in Pointers : r[n] \in 0 .. N
  BY <1>2
<1>s. /\ \A i \in 0 .. Len(q) : Stop(q, i) \in A \cup {head}
      /\ \A i \in 0 .. Len(q) + 1 : Stop(q, i) \in Pointers
  BY <1>q, <1>t DEF Stop
<1> HIDE DEF N
<1> DEFINE R == [i \in 0 .. Len(q) + 1 |-> r[Stop(q, i)]]
<1>4. \A i \in 0 .. Len(q) : R[i] < R[i + 1]
  <2> TAKE i \in 0 .. Len(q)
  <2>1. i \in 0 .. Len(q) + 1 /\ i + 1 \in 0 .. Len(q) + 1
    BY <1>q
  <2>2. r[Stop(q, i)] < r[Stop(q, i + 1)]
    BY <1>3, <1>q, <1>s
  <2> QED BY <2>1, <2>2
<1>5. \A i \in 0 .. Len(q) + 1 : R[i] \in 0 .. N
  BY <1>r, <1>s
<1>6. \A i \in 0 .. Len(q) + 1 : R[i] = r[Stop(q, i)]
  OBVIOUS
<1> HIDE DEF R
<1> DEFINE S == {i \in 0 .. Len(q) + 1 : R[i] >= i /\ \A j \in 0 .. i - 1 : R[j] < R[i]}
<1>7. 0 \in S
  BY <1>5, <1>n, <1>q
<1>8. ASSUME NEW i \in 1 .. Len(q) + 1, i - 1 \in S PROVE i \in S
  <2>1. i - 1 \in 0 .. Len(q) /\ i \in 0 .. Len(q) + 1 /\ i - 1 \in 0 .. Len(q) + 1
        /\ (i - 1) + 1 = i
    BY <1>q
  <2>2. R[i - 1] < R[i] /\ R[i - 1] >= i - 1 /\ \A j \in 0 .. (i - 1) - 1 : R[j] < R[i - 1]
    BY <1>4, <1>8, <2>1
  <2>3. R[i - 1] \in Int /\ R[i] \in Int
    BY <1>5, <1>n, <2>1
  <2>4. ASSUME NEW j \in 0 .. i - 1 PROVE R[j] < R[i]
    <3>1. CASE j = i - 1
      BY <2>2, <3>1
    <3>2. CASE j # i - 1
      <4>1. j \in 0 .. (i - 1) - 1 /\ j \in 0 .. Len(q) + 1
        BY <1>q, <3>2
      <4>2. R[j] \in Int
        BY <1>5, <1>n, <4>1
      <4> QED BY <4>1, <4>2, <2>2, <2>3
    <3> QED BY <3>1, <3>2
  <2>5. R[i] >= i
    BY <2>2, <2>3, <2>1
  <2> QED BY <2>1, <2>4, <2>5
<1>9. \A i \in 0 .. Len(q) + 1 : i \in S
  <2> HIDE DEF S
  <2>1. Len(q) + 1 \in Nat
    BY <1>q
  <2> QED BY <2>1, <1>7, <1>8, CountUp
<1>10. Len(q) <= Cardinality(Nodes)
  <2>1. Len(q) + 1 \in 0 .. Len(q) + 1
    BY <1>q
  <2>2. R[Len(q) + 1] >= Len(q) + 1 /\ R[Len(q) + 1] \in 0 .. N
    BY <1>5, <1>9, <2>1
  <2> QED BY <2>2, <1>q, PointersFinite DEF N
<1>11. ASSUME NEW i \in 0 .. Len(q) + 1, NEW j \in 0 .. Len(q) + 1, i < j
       PROVE  Stop(q, i) # Stop(q, j)
  <2>1. i \in 0 .. j - 1 /\ j \in S
    BY <1>q, <1>9, <1>11
  <2>2. R[i] < R[j]
    BY <2>1
  <2> QED BY <2>2, <1>5, <1>6, <1>n
<1>12. \A i, j \in 0 .. Len(q) + 1 : i # j => i < j \/ j < i
  BY <1>q
<1> QED BY <1>q, <1>10, <1>11, <1>12, PointersFinite

\* The walk p meets the nodes of q in their order, and then stays at tail.
Meets(p, q) ==
    /\ \A i \in 0 .. Len(q) + 1 : p[i] = Stop(q, i)
    /\ \A i \in 1 .. Len(q) : p[i] = q[i]
    /\ p[Cardinality(Nodes) + 1] = tail
    /\ {i \in 1 .. Cardinality(Nodes) : p[i] # tail} = 1 .. Len(q)

\* The walk along a list meets the nodes of the list.
LEMMA WalkMeets ==
    ASSUME NEW nx, NEW A \in SUBSET Nodes, NEW q, ListOf(q, nx, A),
           Len(q) \in 0 .. Cardinality(Nodes)
    PROVE  Meets(WalkOf(nx), q)
<1> DEFINE N == Cardinality(Nodes)
           p == WalkOf(nx)
           Met(i) == IF i <= Len(q) THEN Stop(q, i) ELSE tail
           S == {i \in 0 .. N + 1 : p[i] = Met(i)}
<1>n. N \in Nat /\ Len(q) \in 0 .. N
  BY PointersFinite
<1>t. head # tail /\ head \notin A /\ tail \notin A
  BY CacheAssumption
<1>q. (\A i \in 1 .. Len(q) : q[i] \in A) /\ \A i \in 0 .. Len(q) : nx[Stop(q, i)] = Stop(q, i + 1)
  BY DEF ListOf
<1>p. p[0] = head /\ \A i \in 1 .. N + 1 : p[i] = IF p[i - 1] = tail THEN tail ELSE nx[p[i - 1]]
  BY WalkExists
<1> HIDE DEF N, p
<1>s. /\ \A i \in 0 .. Len(q) : Stop(q, i) # tail
      /\ Stop(q, 0) = head /\ Stop(q, Len(q) + 1) = tail
      /\ \A i \in 1 .. Len(q) : Stop(q, i) = q[i]
  BY <1>n, <1>t, <1>q DEF Stop
<1>1. 0 \in S
  BY <1>n, <1>p, <1>s
<1>2. ASSUME NEW i \in 1 .. N + 1, i - 1 \in S PROVE i \in S
  <2>1. p[i - 1] = Met(i - 1)
    BY <1>2
  <2>2. CASE i - 1 <= Len(q)
    <3>1. i - 1 \in 0 .. Len(q) /\ (i - 1) + 1 = i /\ i \in 0 .. N + 1
      BY <1>n, <2>2
    <3>2. p[i] = Stop(q, i)
      BY <1>p, <1>q, <1>s, <2>1, <3>1
    <3>3. i <= Len(q) \/ i = Len(q) + 1
      BY <1>n, <2>2
    <3> QED BY <1>s, <3>1, <3>2, <3>3
  <2>3. CASE ~(i - 1 <= Len(q))
    <3>1. ~(i <= Len(q)) /\ i \in 0 .. N + 1
      BY <1>n, <2>3
    <3>2. p[i] = tail
      BY <1>p, <2>1, <2>3
    <3> QED BY <3>1, <3>2
  <2> QED BY <2>2, <2>3
<1>3. \A i \in 0 .. N + 1 : i \in S
  <2> HIDE DEF S
  <2>1. N + 1 \in Nat
    BY <1>n
  <2> QED BY <2>1, <1>1, <1>2, CountUp
<1>4. \A i \in 0 .. N + 1 : p[i] = Met(i)
  BY <1>3
<1>5. \A i \in 0 .. Len(q) : p[i] = Stop(q, i)
  BY <1>4, <1>n
<1>6. \A i \in 0 .. N + 1 : ~(i <= Len(q)) => p[i] = tail
  BY <1>4
<1>7. p[Len(q) + 1] = tail /\ p[N + 1] = tail
  BY <1>6, <1>n
<1>8. \A i \in 0 .. Len(q) + 1 : p[i] = Stop(q, i)
  BY <1>5, <1>7, <1>s, <1>n
<1>9. \A i \in 1 .. Len(q) : p[i] = q[i]
  BY <1>5, <1>s, <1>n
<1>10. {i \in 1 .. N : p[i] # tail} = 1 .. Len(q)
  <2>1. \A i \in 1 .. N : p[i] # tail => i \in 1 .. Len(q)
    BY <1>6, <1>n
  <2>2. \A i \in 1 .. Len(q) : p[i] # tail /\ i \in 1 .. N
    BY <1>5, <1>s, <1>n
  <2> QED BY <2>1, <2>2
<1> QED BY <1>7, <1>8, <1>9, <1>10 DEF Meets, N, p

\* The pointers are those of a list, before and after a step.
LEMMA ListSorted ==
    ASSUME TypeOK, ListInv
    PROVE  Sorted(next, alive) /\ alive \in SUBSET Nodes
<1>1. PICK rank \in [Pointers -> Int] : Ranks(rank)
  BY DEF ListInv, Ordered
<1>2. \A n \in alive \cup {head} : next[n] \in alive \cup {tail} /\ rank[n] < rank[next[n]]
  BY <1>1 DEF ListInv, Closed, Ranks, Forward, Backward
<1> QED BY <1>2 DEF Sorted, TypeOK

\* The same for the pointers after the step.
LEMMA ListSortedNext ==
    ASSUME TypeOK', ListInv'
    PROVE  Sorted(next', alive') /\ alive' \in SUBSET Nodes
<1>1. PICK rank \in [Pointers -> Int] : Ranks(rank)'
  BY DEF ListInv, Ordered
<1>2. \A n \in alive' \cup {head} :
         next'[n] \in alive' \cup {tail} /\ rank[n] < rank[next'[n]]
  BY <1>1 DEF ListInv, Closed, Ranks, Forward, Backward
<1> QED BY <1>2 DEF Sorted, TypeOK

\* The places of the refinement mapping are that walk.
LEMMA PlaceIsWalk == place = WalkOf(next)
BY DEF place, WalkOf, Walk

\* So they are after the step.
LEMMA PlaceIsWalkNext == place' = WalkOf(next')
BY DEF place, WalkOf, Walk

\* What place and Chain are of a list.
LEMMA ListRead ==
    ASSUME TypeOK, ListInv
    PROVE  \E q : /\ ListOf(q, next, alive) /\ Len(q) \in 0 .. Cardinality(Nodes)
                  /\ Meets(place, q) /\ Chain = 1 .. Len(q)
<1>1. Sorted(next, alive) /\ alive \in SUBSET Nodes
  BY ListSorted
<1>2. PICK q : ListOf(q, next, alive)
  BY <1>1, ListExists
<1>3. Len(q) \in 0 .. Cardinality(Nodes)
  BY <1>1, <1>2, StopsDiffer
<1>4. Meets(place, q)
  BY <1>1, <1>2, <1>3, WalkMeets, PlaceIsWalk
<1>5. Chain = 1 .. Len(q)
  BY <1>4 DEF Chain, Meets
<1> QED BY <1>2, <1>3, <1>4, <1>5

\* A node that is not on the list would have a predecessor that is not
\* either, and so on down the numbering, without end.
LEMMA ListWhole ==
    ASSUME TypeOK, ListInv, \A w \in Workers : pc[w] \notin WriterPlaces
    PROVE  ListIntact
<1>q. PICK q : /\ ListOf(q, next, alive) /\ Len(q) \in 0 .. Cardinality(Nodes)
               /\ Meets(place, q) /\ Chain = 1 .. Len(q)
  BY ListRead
<1>1. /\ ListOf(q, next, alive) /\ Len(q) \in 0 .. Cardinality(Nodes)
      /\ \A i \in 1 .. Len(q) : place[i] = q[i]
      /\ place[Cardinality(Nodes) + 1] = tail
      /\ Chain = 1 .. Len(q)
  BY <1>q DEF Meets
<1>2. /\ Len(q) \in Nat /\ \A i \in 1 .. Len(q) : q[i] \in alive
      /\ \A i \in 0 .. Len(q) : next[Stop(q, i)] = Stop(q, i + 1)
  BY <1>1 DEF ListOf
<1>3. /\ \A n \in Forward : prev[next[n]] = n
      /\ \A n \in Backward : next[prev[n]] = n
  BY DEF ListInv, Linked, LooseNext, LoosePrev, WriterPlaces, WritePlaces, ClearPlaces
<1>4. PICK rank \in [Pointers -> Int] : Ranks(rank)
  BY DEF ListInv, Ordered
<1>5. PICK r \in [Pointers -> 0 .. Cardinality(Nodes) + 1] :
         \A a, b \in Pointers : rank[a] < rank[b] => r[a] < r[b]
  BY SmallRanks
<1> DEFINE U == {n \in alive : \A i \in 1 .. Len(q) : q[i] # n}
<1>6. ASSUME NEW n \in U
      PROVE  prev[n] \in U /\ r[prev[n]] < r[n]
  <2>1. n \in Backward /\ prev[n] \in Forward /\ next[prev[n]] = n /\ n # tail
    BY <1>3, CacheAssumption DEF ListInv, Closed, Backward, TypeOK
  <2>2. ASSUME NEW i \in 0 .. Len(q) PROVE prev[n] # Stop(q, i)
    <3>1. SUFFICES ASSUME prev[n] = Stop(q, i) PROVE FALSE
      OBVIOUS
    <3>2. n = Stop(q, i + 1)
      BY <1>2, <2>1, <3>1
    <3>3. i + 1 = Len(q) + 1 \/ i + 1 \in 1 .. Len(q)
      BY <1>2
    <3> QED BY <1>2, <2>1, <3>2, <3>3 DEF Stop
  <2>3. prev[n] # head
    <3>1. 0 \in 0 .. Len(q) /\ Stop(q, 0) = head
      BY <1>2 DEF Stop
    <3> QED BY <2>2, <3>1
  <2>4. prev[n] \in alive
    BY <2>1, <2>3 DEF Forward
  <2>5. \A i \in 1 .. Len(q) : q[i] # prev[n]
    <3> TAKE i \in 1 .. Len(q)
    <3>1. i \in 0 .. Len(q) /\ Stop(q, i) = q[i]
      BY <1>2 DEF Stop
    <3> QED BY <2>2, <3>1
  <2>6. r[prev[n]] < r[n]
    <3>1. rank[prev[n]] < rank[n]
      BY <1>4, <2>1 DEF Ranks
    <3>2. prev[n] \in Pointers /\ n \in Pointers
      BY <2>1, Sentinels
    <3> QED BY <1>5, <3>1, <3>2
  <2> QED BY <2>4, <2>5, <2>6
<1>7. U = {}
  <2>1. SUFFICES ASSUME U # {} PROVE FALSE
    OBVIOUS
  <2> DEFINE T == {r[n] : n \in U}
  <2>2. \A n \in U : r[n] \in Nat
    <3>1. \A n \in U : n \in Pointers
      BY DEF TypeOK, Pointers
    <3>2. \A n \in Pointers : r[n] \in Nat
      BY <1>5
    <3> QED BY <3>1, <3>2
  <2> HIDE DEF U
  <2>3. T \in SUBSET Nat /\ T # {}
    BY <2>1, <2>2
  <2>4. PICK m \in T : \A i \in T : m <= i
    <3> HIDE DEF T
    <3> QED BY <2>3, LeastExists
  <2>5. PICK n \in U : m = r[n]
    OBVIOUS
  <2>6. r[prev[n]] \in T /\ r[prev[n]] < m /\ r[prev[n]] \in Nat /\ m \in Nat
    BY <1>6, <2>2, <2>5
  <2>7. m <= r[prev[n]]
    BY <2>4, <2>6
  <2> QED BY <2>6, <2>7
<1>8. {place[i] : i \in Chain} = alive
  <2>1. \A i \in Chain : place[i] \in alive
    BY <1>1, <1>2
  <2>2. \A n \in alive : \E i \in Chain : place[i] = n
    BY <1>1, <1>7
  <2> QED BY <2>1, <2>2
<1> QED BY <1>1, <1>3, <1>8 DEF ListIntact, Forward

\* Outside a writer's critical section the list is whole.
THEOREM ListStaysIntact == SafeSpec => []ListIntact
<1>1. IInv => ListIntact
  <2>1. CASE \A w \in Workers : pc[w] \notin WriterPlaces
    BY <2>1, ListWhole DEF IInv
  <2>2. CASE ~(\A w \in Workers : pc[w] \notin WriterPlaces)
    BY <2>2 DEF ListIntact
  <2> QED BY <2>1, <2>2
<1> QED BY <1>1, Invariance, PTL

-----------------------------------------------------------------------------
(***************************************************************************)
(* Nodes taken off the list and put on it.                                 *)
(***************************************************************************)

\* The list q without its j-th node.
Shorter(q, j) == [i \in 1 .. Len(q) - 1 |-> IF i < j THEN q[i] ELSE q[i + 1]]

\* Leading past the j-th node takes it off the list.
LEMMA TakenOff ==
    ASSUME NEW nx, NEW A \in SUBSET Nodes, NEW q, ListOf(q, nx, A),
           NEW j \in 1 .. Len(q), NEW nx2, nx2[Stop(q, j - 1)] = nx[q[j]],
           \A i \in 0 .. Len(q) : i # j - 1 => nx2[Stop(q, i)] = nx[Stop(q, i)]
    PROVE  /\ ListOf(Shorter(q, j), nx2, A) /\ Len(Shorter(q, j)) = Len(q) - 1
           /\ \A i \in 0 .. Len(q) :
                 Stop(Shorter(q, j), i) = Stop(q, IF i < j THEN i ELSE i + 1)
<1> DEFINE t == Shorter(q, j)
<1>1. /\ q \in Seq(A) /\ Len(q) \in Nat /\ j \in Int /\ 1 <= j /\ j <= Len(q)
      /\ \A i \in 0 .. Len(q) : nx[Stop(q, i)] = Stop(q, i + 1)
  BY DEF ListOf
<1>2. /\ t \in Seq(A) /\ Len(t) = Len(q) - 1
      /\ \A i \in 1 .. Len(q) - 1 : t[i] = IF i < j THEN q[i] ELSE q[i + 1]
  <2>1. \A i \in 1 .. Len(q) - 1 : (IF i < j THEN q[i] ELSE q[i + 1]) \in A
    BY <1>1
  <2> QED BY <1>1, <2>1 DEF Shorter
<1> HIDE DEF t
<1>3. ASSUME NEW i \in 0 .. Len(q)
      PROVE  Stop(t, i) = Stop(q, IF i < j THEN i ELSE i + 1)
  <2>1. CASE i = 0
    BY <1>1, <2>1 DEF Stop
  <2>2. CASE i = Len(q)
    BY <1>1, <1>2, <2>2 DEF Stop
  <2>3. CASE i \in 1 .. Len(q) - 1
    BY <1>1, <1>2, <2>3 DEF Stop
  <2> QED BY <1>1, <2>1, <2>2, <2>3
<1>4. ASSUME NEW i \in 0 .. Len(t)
      PROVE  nx2[Stop(t, i)] = Stop(t, i + 1)
  <2>1. i \in 0 .. Len(q) /\ i + 1 \in 0 .. Len(q)
    BY <1>1, <1>2
  <2>2. CASE i < j - 1
    <3>1. i < j /\ i + 1 < j /\ i # j - 1
      BY <1>1, <2>2
    <3> QED BY <1>1, <1>3, <2>1, <3>1
  <2>3. CASE i = j - 1
    <3>1. i < j /\ ~(i + 1 < j) /\ (i + 1) + 1 = j + 1 /\ j \in 0 .. Len(q)
      BY <1>1, <2>3
    <3>2. Stop(t, i) = Stop(q, j - 1) /\ Stop(t, i + 1) = Stop(q, j + 1)
      BY <1>3, <2>1, <2>3, <3>1
    <3>3. Stop(q, j) = q[j]
      BY <1>1 DEF Stop
    <3> QED BY <1>1, <3>1, <3>2, <3>3
  <2>4. CASE i >= j
    <3>1. ~(i < j) /\ ~(i + 1 < j) /\ i + 1 # j - 1 /\ i + 1 \in 0 .. Len(q)
      BY <1>1, <1>2, <2>4
    <3>2. Stop(t, i) = Stop(q, i + 1) /\ Stop(t, i + 1) = Stop(q, (i + 1) + 1)
      BY <1>3, <2>1, <3>1
    <3> QED BY <1>1, <3>1, <3>2
  <2> QED BY <1>1, <2>1, <2>2, <2>3, <2>4
<1> QED BY <1>2, <1>3, <1>4 DEF ListOf, t

\* Leading from head to n, and from n where head has led, puts it in front.
LEMMA PutInFront ==
    ASSUME NEW nx, NEW A \in SUBSET Nodes, NEW q, ListOf(q, nx, A),
           NEW n \in A, NEW nx2, nx2[head] = n, nx2[n] = nx[head],
           \A i \in 1 .. Len(q) : nx2[q[i]] = nx[q[i]]
    PROVE  ListOf(<<n>> \o q, nx2, A) /\ Len(<<n>> \o q) = Len(q) + 1
<1> DEFINE t == <<n>> \o q
<1>1. /\ q \in Seq(A) /\ Len(q) \in Nat
      /\ \A i \in 0 .. Len(q) : nx[Stop(q, i)] = Stop(q, i + 1)
  BY DEF ListOf
<1>2. /\ t \in Seq(A) /\ Len(t) = Len(q) + 1 /\ t[1] = n
      /\ \A i \in 1 .. Len(q) : t[i + 1] = q[i]
  BY <1>1
<1> HIDE DEF t
<1>3. Stop(t, 0) = head /\ Stop(t, 1) = n /\ Stop(q, 0) = head
  BY <1>1, <1>2 DEF Stop
<1>4. \A i \in 1 .. Len(q) + 1 : Stop(t, i + 1) = Stop(q, i)
  BY <1>1, <1>2 DEF Stop
<1>5. \A i \in 1 .. Len(q) : Stop(q, i) = q[i]
  BY <1>1 DEF Stop
<1>6. ASSUME NEW i \in 0 .. Len(t)
      PROVE  nx2[Stop(t, i)] = Stop(t, i + 1)
  <2>1. CASE i = 0
    BY <1>3, <2>1
  <2>2. CASE i = 1
    <3>1. Stop(t, i + 1) = Stop(q, 1) /\ nx[head] = Stop(q, 1)
      <4>1. 1 \in 1 .. Len(q) + 1 /\ 0 \in 0 .. Len(q) /\ 0 + 1 = 1
        BY <1>1
      <4> QED BY <1>1, <1>3, <1>4, <2>2, <4>1
    <3> QED BY <1>3, <2>2, <3>1
  <2>3. CASE i > 1
    <3>1. PICK a \in 1 .. Len(q) : i = a + 1
      <4>1. i - 1 \in 1 .. Len(q) /\ i = (i - 1) + 1
        BY <1>1, <1>2, <2>3
      <4> QED BY <4>1
    <3>2. Stop(t, i) = q[a] /\ Stop(t, i + 1) = Stop(q, a + 1) /\ nx[q[a]] = Stop(q, a + 1)
      <4>1. a \in 0 .. Len(q) /\ a \in 1 .. Len(q) + 1 /\ a + 1 \in 1 .. Len(q) + 1
        BY <1>1
      <4> QED BY <1>1, <1>4, <1>5, <3>1, <4>1
    <3> QED BY <3>1, <3>2
  <2> QED BY <1>1, <1>2, <2>1, <2>2, <2>3
<1> QED BY <1>2, <1>6 DEF ListOf, t

-----------------------------------------------------------------------------
(***************************************************************************)
(* Entries taken out of a list.                                            *)
(***************************************************************************)

\* The loop of Without defines a function.
LoopOf(s, K, g, n) ==
    g = [i \in 0 .. n |->
           IF i = 0 THEN <<>>
           ELSE IF s[i].key \in K THEN g[i - 1] ELSE Append(g[i - 1], s[i])]

\* There is such a function: it is defined one entry further at a time.
LEMMA LoopExists ==
    ASSUME NEW s, Len(s) \in Nat, NEW K
    PROVE  \E g : LoopOf(s, K, g, Len(s))
<1> DEFINE S == {n \in 0 .. Len(s) : \E g : LoopOf(s, K, g, n)}
<1>1. 0 \in S
  <2>1. LoopOf(s, K, [i \in 0 .. 0 |-> <<>>], 0)
    BY DEF LoopOf
  <2> QED BY <2>1
<1>2. ASSUME NEW n \in 1 .. Len(s), n - 1 \in S PROVE n \in S
  <2>1. PICK g : LoopOf(s, K, g, n - 1)
    BY <1>2
  <2> DEFINE h == [i \in 0 .. n |->
                     IF i = n THEN IF s[n].key \in K THEN g[n - 1] ELSE Append(g[n - 1], s[n])
                     ELSE g[i]]
  <2>2. \A i \in 0 .. n - 1 : h[i] = g[i]
    OBVIOUS
  <2>3. h[n] = IF s[n].key \in K THEN h[n - 1] ELSE Append(h[n - 1], s[n])
    BY <2>2
  <2>4. \A i \in 0 .. n - 1 : g[i] = IF i = 0 THEN <<>>
             ELSE IF s[i].key \in K THEN g[i - 1] ELSE Append(g[i - 1], s[i])
    BY <2>1 DEF LoopOf
  <2>5. \A i \in 0 .. n - 1 : h[i] = IF i = 0 THEN <<>>
             ELSE IF s[i].key \in K THEN h[i - 1] ELSE Append(h[i - 1], s[i])
    BY <2>2, <2>4
  <2>6. h = [i \in 0 .. n |-> h[i]]
    OBVIOUS
  <2> HIDE DEF h
  <2>7. \A i \in 0 .. n : h[i] = IF i = 0 THEN <<>>
             ELSE IF s[i].key \in K THEN h[i - 1] ELSE Append(h[i - 1], s[i])
    BY <2>3, <2>5
  <2>8. LoopOf(s, K, h, n)
    BY <2>6, <2>7 DEF LoopOf
  <2> QED BY <2>8
<1> HIDE DEF S
<1>3. Len(s) \in S
  <2>1. \A n \in 0 .. Len(s) : n \in S
    BY <1>1, <1>2, CountUp
  <2> QED BY <2>1
<1> QED BY <1>3 DEF S

\* So Without is what its loop says.
LEMMA LoopValues ==
    ASSUME NEW s, Len(s) \in Nat, NEW K
    PROVE  \E g : /\ Without(s, K) = g[Len(s)] /\ g[0] = <<>>
                  /\ \A i \in 1 .. Len(s) :
                        g[i] = IF s[i].key \in K THEN g[i - 1] ELSE Append(g[i - 1], s[i])
<1> DEFINE g == CHOOSE g : LoopOf(s, K, g, Len(s))
<1>1. Without(s, K) = g[Len(s)]
  BY DEF Without, LoopOf
<1>2. LoopOf(s, K, g, Len(s))
  BY LoopExists
<1> HIDE DEF g
<1>3. \A i \in 0 .. Len(s) : g[i] = IF i = 0 THEN <<>>
             ELSE IF s[i].key \in K THEN g[i - 1] ELSE Append(g[i - 1], s[i])
  BY <1>2 DEF LoopOf
<1>4. g[0] = <<>> /\ \A i \in 1 .. Len(s) :
             g[i] = IF s[i].key \in K THEN g[i - 1] ELSE Append(g[i - 1], s[i])
  BY <1>3
<1> QED BY <1>1, <1>4

\* With no entry of these keys nothing is taken out.
LEMMA NothingTaken ==
    ASSUME NEW E, NEW s \in Seq(E), NEW K, \A i \in 1 .. Len(s) : s[i].key \notin K
    PROVE  Without(s, K) = s
<1>0. Len(s) \in Nat
  OBVIOUS
<1>1. PICK g : /\ Without(s, K) = g[Len(s)] /\ g[0] = <<>>
               /\ \A i \in 1 .. Len(s) :
                     g[i] = IF s[i].key \in K THEN g[i - 1] ELSE Append(g[i - 1], s[i])
  BY <1>0, LoopValues
<1> DEFINE First(n) == [a \in 1 .. n |-> s[a]]
           S == {n \in 0 .. Len(s) : g[n] = First(n)}
<1>2. 0 \in S
  BY <1>1
<1>3. ASSUME NEW n \in 1 .. Len(s), n - 1 \in S PROVE n \in S
  <2>1. g[n] = Append(First(n - 1), s[n])
    BY <1>1, <1>3
  <2>2. Append(First(n - 1), s[n]) = First(n)
    <3>1. First(n - 1) \in Seq(E) /\ Len(First(n - 1)) = n - 1
          /\ First(n) \in Seq(E) /\ Len(First(n)) = n /\ s[n] \in E
      OBVIOUS
    <3>2. \A a \in 1 .. n : Append(First(n - 1), s[n])[a] = First(n)[a]
      OBVIOUS
    <3> QED BY <3>1, <3>2
  <2>3. n \in 0 .. Len(s) /\ g[n] = First(n)
    BY <2>1, <2>2
  <2> QED BY <2>3
<1>4. Len(s) \in S
  <2> HIDE DEF S
  <2>1. \A n \in 0 .. Len(s) : n \in S
    BY <1>0, <1>2, <1>3, CountUp
  <2> QED BY <1>0, <2>1
<1> QED BY <1>1, <1>4

\* An entry that would be taken out anyway may as well be missing.
LEMMA AlreadyTaken ==
    ASSUME NEW E, NEW s \in Seq(E), NEW K, NEW j \in 1 .. Len(s), s[j].key \in K
    PROVE  Without(Shorter(s, j), K) = Without(s, K)
<1> DEFINE t == Shorter(s, j)
<1>0. Len(s) \in Nat
  OBVIOUS
<1>1. Len(t) = Len(s) - 1 /\ Len(t) \in Nat
      /\ \A i \in 1 .. Len(s) - 1 : t[i] = IF i < j THEN s[i] ELSE s[i + 1]
  BY DEF Shorter
<1>2. PICK g : /\ Without(s, K) = g[Len(s)] /\ g[0] = <<>>
               /\ \A i \in 1 .. Len(s) :
                     g[i] = IF s[i].key \in K THEN g[i - 1] ELSE Append(g[i - 1], s[i])
  BY <1>0, LoopValues
<1>3. PICK h : /\ Without(t, K) = h[Len(t)] /\ h[0] = <<>>
               /\ \A i \in 1 .. Len(t) :
                     h[i] = IF t[i].key \in K THEN h[i - 1] ELSE Append(h[i - 1], t[i])
  <2> HIDE DEF t
  <2> QED BY <1>1, LoopValues
<1> HIDE DEF t
<1>4. g[j] = g[j - 1]
  BY <1>2
<1> DEFINE S == {n \in 0 .. Len(t) : h[n] = IF n < j THEN g[n] ELSE g[n + 1]}
<1>5. 0 \in S
  BY <1>1, <1>2, <1>3
<1>6. ASSUME NEW n \in 1 .. Len(t), n - 1 \in S PROVE n \in S
  <2>1. /\ h[n] = IF t[n].key \in K THEN h[n - 1] ELSE Append(h[n - 1], t[n])
        /\ t[n] = IF n < j THEN s[n] ELSE s[n + 1]
        /\ n \in 1 .. Len(s) /\ n + 1 \in 1 .. Len(s) /\ (n + 1) - 1 = n /\ n \in 0 .. Len(t)
    BY <1>1, <1>3
  <2>2. CASE n < j
    <3>1. h[n - 1] = g[n - 1]
      BY <1>6, <2>2
    <3> QED BY <1>2, <2>1, <2>2, <3>1
  <2>3. CASE ~(n < j)
    <3>1. h[n - 1] = g[n]
      <4>1. CASE n = j
        <5>1. n - 1 < j
          BY <4>1
        <5> QED BY <1>4, <1>6, <4>1, <5>1
      <4>2. CASE n # j
        <5>1. ~(n - 1 < j) /\ (n - 1) + 1 = n
          BY <2>3, <4>2
        <5> QED BY <1>6, <5>1
      <4> QED BY <4>1, <4>2
    <3>2. g[n + 1] = IF s[n + 1].key \in K THEN g[n] ELSE Append(g[n], s[n + 1])
      BY <1>2, <2>1
    <3> QED BY <2>1, <2>3, <3>1, <3>2
  <2> QED BY <2>2, <2>3
<1>7. Len(t) \in S
  <2> HIDE DEF S
  <2>1. \A n \in 0 .. Len(t) : n \in S
    BY <1>1, <1>5, <1>6, CountUp
  <2> QED BY <1>1, <2>1
<1>8. h[Len(t)] = g[Len(s)]
  <2>1. CASE Len(t) < j
    <3>1. j = Len(s) /\ Len(t) = j - 1
      BY <1>1, <2>1
    <3> QED BY <1>4, <1>7, <2>1, <3>1
  <2>2. CASE ~(Len(t) < j)
    <3>1. Len(t) + 1 = Len(s)
      BY <1>1
    <3> QED BY <1>7, <2>2, <3>1
  <2> QED BY <2>1, <2>2
<1> QED BY <1>2, <1>3, <1>8 DEF t

-----------------------------------------------------------------------------
(***************************************************************************)
(* What the calls under way know.  CallInv is about their arguments, and   *)
(* SearchInv says that a search, or a clear, has passed over nothing it    *)
(* is looking for.                                                         *)
(***************************************************************************)

\* What the arguments and the answer of a call are while it is under way.
CallInv ==
    \A w \in Workers :
        /\ pc[w] # "idle" => arg[w].key \in Keys
        /\ pc[w] \in EnterPlaces \cup ScanPlaces => found[w] = Nothing
        /\ pc[w] \in {"writeLock"} \cup WritePlaces => arg[w].gr \in Responses
        /\ pc[w] \in {"linkBack", "linkFront"} =>
              ~TooLarge(arg[w].gr) /\ content[node[w]] = arg[w]
        /\ pc[w] \in {"unlinkBack", "unlinkFront"} => content[node[w]].key = arg[w].key

\* The node that a search or a clear has come to.
Reached(w) == IF pc[w] \in {"unlinkBack", "unlinkFront"} THEN node[w] ELSE cur[w]

\* A search or a clear has looked at every node before that one, and none of
\* them is of its key (or is any longer).
Searched(w) ==
    pc[w] \in {"scan", "clearScan", "unlinkBack", "unlinkFront", "delete"} =>
        \E j \in 1 .. Cardinality(Nodes) + 1 :
            /\ place[j] = Reached(w)
            /\ \A i \in 1 .. j - 1 : place[i] # tail /\ content[place[i]].key # arg[w].key

SearchInv == \A w \in Workers : Searched(w)

\* Every step keeps what is known of the calls.
LEMMA CallInvStep ==
    ASSUME TypeOK, WInv, ListInv, CallInv, [Next]_vars
    PROVE  CallInv'
<1> USE DEF CallInv, TypeOK, EnterPlaces, ScanPlaces, WritePlaces, At
<1>1. ASSUME NEW w \in Workers, CallStep(w)
      PROVE  CallInv'
  <2>1. CASE CallRead(w)
    BY <2>1 DEF CallRead, Call, list, lock
  <2>2. CASE CallWrite(w)
    <3>1. PICK k \in Keys, s \in Sizes, v \in ValidTimes :
            Call(w, "writeLock", k, [size |-> s, validTime |-> v, writeTime |-> now])
      BY <2>2 DEF CallWrite
    <3>2. [size |-> s, validTime |-> v, writeTime |-> now] \in Responses
      BY DEF Responses
    <3> QED BY <2>2, <3>1, <3>2 DEF CallWrite, Call, list, lock
  <2>3. CASE CallClear(w)
    BY <2>3 DEF CallClear, Call, list, lock
  <2> QED BY <1>1, <2>1, <2>2, <2>3 DEF CallStep
<1>2. ASSUME NEW w \in Workers, ReadFromCache(w)
      PROVE  CallInv'
  <2>1. CASE ReadLock(w)
    BY <2>1 DEF ReadLock, list, local
  <2>2. CASE ReadCount(w)
    BY <2>2 DEF ReadCount, list, local
  <2>3. CASE ReadFirst(w)
    BY <2>3 DEF ReadFirst, list, local
  <2>4. CASE ReadUnlock(w)
    <3>1. CASE At(w, "readUnlock", "readHead")
      BY <2>4, <3>1 DEF ReadUnlock, list, local
    <3>2. CASE At(w, "leaveUnlock", "idle")
      BY <2>4, <3>2 DEF ReadUnlock, LocalsGone, list
    <3> QED BY <2>4, <3>1, <3>2 DEF ReadUnlock
  <2>5. CASE ReadHead(w)
    BY <2>5 DEF ReadHead, list, lock
  <2>6. CASE Scan(w)
    <3>1. /\ pc[w] = "scan" /\ UNCHANGED <<content, arg, node>>
          /\ pc' = [pc EXCEPT ![w] = "leaveLock"]
             \/ (pc' = [pc EXCEPT ![w] = "scan"] /\ UNCHANGED found)
          /\ \A v \in Workers : v # w => found'[v] = found[v]
      BY <2>6 DEF Scan, list, lock
    <3> QED BY <3>1
  <2>7. CASE LeaveLast(w)
    BY <2>7 DEF LeaveLast, list, local
  <2> QED BY <1>2, <2>1, <2>2, <2>3, <2>4, <2>5, <2>6, <2>7 DEF ReadFromCache
<1>3. ASSUME NEW w \in Workers, writeToCache(w)
      PROVE  CallInv'
  <2>1. CASE WriterLock(w)
    BY <2>1 DEF WriterLock, list, local
  <2>2. CASE NewNode(w)
    <3>0. pc[w] = "new" /\ pc[w] \in WriterPlaces
      BY <2>2 DEF NewNode, WriterPlaces
    <3>1. CASE TooLarge(arg[w].gr)
      BY <2>2, <3>1 DEF NewNode, list, lock
    <3>2. CASE ~TooLarge(arg[w].gr)
      <4>1. PICK n \in Nodes \ alive :
              /\ pc' = [pc EXCEPT ![w] = "linkBack"]
              /\ content' = [content EXCEPT ![n] = arg[w]]
              /\ node' = [node EXCEPT ![w] = n]
              /\ UNCHANGED <<arg, found>>
        BY <2>2, <3>2 DEF NewNode
      <4>2. content'[node'[w]] = arg'[w] /\ pc'[w] = "linkBack"
        BY <4>1
      <4>3. ASSUME NEW v \in Workers, v # w
            PROVE  pc'[v] = pc[v] /\ pc[v] \notin WriterPlaces
        BY <3>0, <4>1, <4>3, Alone
      <4> QED BY <3>0, <3>2, <4>1, <4>2, <4>3 DEF WriterPlaces, ClearPlaces
    <3> QED BY <3>1, <3>2
  <2>3. CASE LinkBack(w)
    BY <2>3 DEF LinkBack, lock, local
  <2>4. CASE LinkFront(w)
    BY <2>4 DEF LinkFront, lock, local
  <2>5. CASE WriterUnlock(w)
    BY <2>5 DEF WriterUnlock, LocalsGone, list
  <2> QED BY <1>3, <2>1, <2>2, <2>3, <2>4, <2>5 DEF writeToCache
<1>4. ASSUME NEW w \in Workers, clearAllInvalidCache(w)
      PROVE  CallInv'
  <2>1. CASE ClearScan(w)
    <3>0. pc[w] = "clearScan" /\ pc[w] \in WriterPlaces /\ UNCHANGED <<content, arg, found>>
      BY <2>1 DEF ClearScan, WriterPlaces, ClearPlaces, list
    <3>1. CASE cur[w] = tail
      BY <2>1, <3>0, <3>1 DEF ClearScan
    <3>2. CASE cur[w] # tail /\ Matches(w)
      <4>1. cur[w] \in alive /\ cur[w] \in Forward
        BY <3>0, <3>2 DEF ListInv, WorkerInv, Cursor, Backward, Forward
      <4>2. prev[next[cur[w]]] = cur[w]
        BY <3>0, <4>1, Alone DEF ListInv, Linked
      <4>3. /\ pc' = [pc EXCEPT ![w] = "unlinkBack"]
            /\ node' = [node EXCEPT ![w] = cur[w]]
        BY <2>1, <3>2, <4>2 DEF ClearScan
      <4>4. content[cur[w]].key = arg[w].key
        BY <3>2 DEF Matches
      <4> QED BY <3>0, <4>3, <4>4
    <3>3. CASE cur[w] # tail /\ ~Matches(w)
      BY <2>1, <3>0, <3>3 DEF ClearScan
    <3> QED BY <3>1, <3>2, <3>3
  <2>2. CASE UnlinkBack(w)
    BY <2>2 DEF UnlinkBack, lock, local
  <2>3. CASE UnlinkFront(w)
    BY <2>3 DEF UnlinkFront, lock, local
  <2>4. CASE Delete(w)
    BY <2>4 DEF Delete, lock, local
  <2> QED BY <1>4, <2>1, <2>2, <2>3, <2>4 DEF clearAllInvalidCache
<1>5. CASE ClockStep \/ UNCHANGED vars
  BY <1>5 DEF ClockStep, vars, list, local
<1> QED BY <1>1, <1>2, <1>3, <1>4, <1>5 DEF Next, Body, Quiescent

\* deleteNode's node->prev->next = node->next takes the node off the list.
LEMMA UnlinkFrontList ==
    ASSUME TypeOK, WInv, ListInv, SearchInv, NEW w \in Workers, UnlinkFront(w)
    PROVE  \E q : \E j \in 1 .. Len(q) :
              /\ ListOf(q, next, alive) /\ ListOf(Shorter(q, j), next', alive)
              /\ Meets(place, q) /\ Meets(place', Shorter(q, j))
              /\ Chain = 1 .. Len(q) /\ Chain' = 1 .. Len(Shorter(q, j))
              /\ q[j] = node[w]
              /\ place'[j] = next[node[w]]
              /\ \A i \in 1 .. j - 1 : /\ place'[i] = place[i] /\ place[i] # tail
                                       /\ content[place[i]].key # arg[w].key
<1>1. /\ pc[w] = "unlinkFront" /\ pc[w] \in WriterPlaces
      /\ next' = [next EXCEPT ![prev[node[w]]] = next[node[w]]]
      /\ UNCHANGED <<prev, content, alive, node, cur, arg>>
  BY DEF UnlinkFront, At, local, WriterPlaces, ClearPlaces
<1>2. /\ node[w] \in alive /\ node[w] \in Forward /\ node[w] \in Backward
      /\ node[w] # tail /\ prev[node[w]] \in Forward
  BY <1>1, CacheAssumption DEF ListInv, WorkerInv, Stage, Closed, Forward, Backward, TypeOK
<1>3. /\ \A n \in Forward : n # node[w] => prev[next[n]] = n
      /\ \A n \in Backward : n # next[node[w]] => next[prev[n]] = n
  BY <1>1, Alone DEF ListInv, Linked
<1>q. PICK q : /\ ListOf(q, next, alive) /\ Len(q) \in 0 .. Cardinality(Nodes)
               /\ Meets(place, q) /\ Chain = 1 .. Len(q)
  BY ListRead
<1>4. /\ ListOf(q, next, alive) /\ Len(q) \in 0 .. Cardinality(Nodes)
      /\ \A i \in 0 .. Len(q) + 1 : place[i] = Stop(q, i)
      /\ \A i \in 1 .. Len(q) : place[i] = q[i]
      /\ place[Cardinality(Nodes) + 1] = tail
      /\ Chain = 1 .. Len(q)
  BY <1>q DEF Meets
<1>5. Sorted(next, alive) /\ alive \in SUBSET Nodes
  BY ListSorted
<1>6. \A a, b \in 0 .. Len(q) + 1 : a # b => Stop(q, a) # Stop(q, b)
  BY <1>4, <1>5, StopsDiffer
<1>7. PICK j \in 1 .. Cardinality(Nodes) + 1 :
         /\ place[j] = node[w]
         /\ \A i \in 1 .. j - 1 : place[i] # tail /\ content[place[i]].key # arg[w].key
  BY <1>1 DEF SearchInv, Searched, Reached
<1>8. j \in 1 .. Len(q)
  <2>1. j # Cardinality(Nodes) + 1
    BY <1>2, <1>4, <1>7
  <2>2. j \in 1 .. Cardinality(Nodes)
    BY <2>1, PointersFinite
  <2>3. j \in Chain
    BY <1>2, <1>7, <2>2 DEF Chain
  <2> QED BY <1>4, <2>3
<1>9. /\ Len(q) \in Nat /\ \A i \in 1 .. Len(q) : q[i] \in alive
      /\ \A i \in 0 .. Len(q) : next[Stop(q, i)] = Stop(q, i + 1)
  BY <1>4 DEF ListOf
<1>10. /\ q[j] = node[w] /\ Stop(q, j) = node[w] /\ next[node[w]] = Stop(q, j + 1)
       /\ j \in 0 .. Len(q) + 1 /\ j - 1 \in 0 .. Len(q) + 1 /\ j - 1 \in 0 .. Len(q)
       /\ j + 1 \in 0 .. Len(q) + 1 /\ j \in 0 .. Len(q) /\ (j - 1) + 1 = j /\ j # j - 1
  <2>1. /\ j \in 0 .. Len(q) + 1 /\ j - 1 \in 0 .. Len(q) + 1 /\ j - 1 \in 0 .. Len(q)
        /\ j + 1 \in 0 .. Len(q) + 1 /\ j \in 0 .. Len(q) /\ (j - 1) + 1 = j /\ j # j - 1
    BY <1>8, <1>9
  <2>2. q[j] = node[w] /\ Stop(q, j) = node[w]
    BY <1>4, <1>7, <1>8, <2>1
  <2> QED BY <1>9, <2>1, <2>2
<1>11. prev[node[w]] = Stop(q, j - 1)
  <2>1. Stop(q, j - 1) \in Forward
    BY <1>8, <1>9 DEF Stop, Forward
  <2>2. Stop(q, j - 1) # node[w]
    BY <1>6, <1>10
  <2>3. next[Stop(q, j - 1)] = node[w]
    BY <1>9, <1>10
  <2> QED BY <1>3, <2>1, <2>2, <2>3
<1>12. /\ next'[Stop(q, j - 1)] = next[q[j]]
       /\ \A i \in 0 .. Len(q) : i # j - 1 => next'[Stop(q, i)] = next[Stop(q, i)]
  <2>1. prev[node[w]] \in Nodes \cup {head}
    BY <1>2, Sentinels
  <2>2. next'[Stop(q, j - 1)] = next[q[j]]
    BY <1>1, <1>10, <1>11, <2>1 DEF TypeOK
  <2>3. ASSUME NEW i \in 0 .. Len(q), i # j - 1
        PROVE  next'[Stop(q, i)] = next[Stop(q, i)]
    <3>1. Stop(q, i) # Stop(q, j - 1)
      <4>1. i \in 0 .. Len(q) + 1
        BY <1>9
      <4> QED BY <1>6, <1>10, <2>3, <4>1
    <3>2. Stop(q, i) \in Nodes \cup {head}
      BY <1>5, <1>9 DEF Stop
    <3> QED BY <1>1, <1>11, <3>1, <3>2 DEF TypeOK
  <2> QED BY <2>2, <2>3
<1>13. /\ ListOf(Shorter(q, j), next', alive) /\ Len(Shorter(q, j)) = Len(q) - 1
       /\ \A i \in 0 .. Len(q) :
             Stop(Shorter(q, j), i) = Stop(q, IF i < j THEN i ELSE i + 1)
  <2> DEFINE after == next'
  <2>1. /\ ListOf(q, next, alive) /\ after[Stop(q, j - 1)] = next[q[j]]
        /\ \A i \in 0 .. Len(q) : i # j - 1 => after[Stop(q, i)] = next[Stop(q, i)]
    BY <1>4, <1>12
  <2> HIDE DEF after
  <2>2. /\ ListOf(Shorter(q, j), after, alive) /\ Len(Shorter(q, j)) = Len(q) - 1
        /\ \A i \in 0 .. Len(q) :
              Stop(Shorter(q, j), i) = Stop(q, IF i < j THEN i ELSE i + 1)
    BY <1>5, <1>8, <2>1, TakenOff
  <2> QED BY <2>2 DEF after
<1>14. Meets(place', Shorter(q, j)) /\ Chain' = 1 .. Len(Shorter(q, j))
  <2>1. PICK t, after : t = Shorter(q, j) /\ after = next'
    OBVIOUS
  <2>2. ListOf(t, after, alive)
    BY <1>13, <2>1
  <2>3. Len(t) \in 0 .. Cardinality(Nodes)
    <3>1. Len(t) = Len(q) - 1
      BY <1>13, <2>1
    <3> QED BY <1>4, <1>8, <3>1, PointersFinite
  <2>4. Meets(WalkOf(after), t)
    BY <1>5, <2>2, <2>3, WalkMeets
  <2>5. Meets(place', Shorter(q, j))
    BY <2>1, <2>4, PlaceIsWalkNext
  <2>6. Chain' = {i \in 1 .. Cardinality(Nodes) : place'[i] # tail}
    BY DEF Chain
  <2> QED BY <2>5, <2>6 DEF Meets
<1>15. \A i \in 0 .. Len(q) : place'[i] = Stop(q, IF i < j THEN i ELSE i + 1)
  <2>1. \A i \in 0 .. Len(q) : i \in 0 .. Len(Shorter(q, j)) + 1
    BY <1>9, <1>13
  <2>2. \A i \in 0 .. Len(Shorter(q, j)) + 1 : place'[i] = Stop(Shorter(q, j), i)
    BY <1>14 DEF Meets
  <2> QED BY <1>13, <2>1, <2>2
<1>16. place'[j] = next[node[w]]
  BY <1>10, <1>15
<1>17. ASSUME NEW i \in 1 .. j - 1
       PROVE  /\ place'[i] = place[i] /\ place[i] # tail
              /\ content[place[i]].key # arg[w].key
  <2>1. i \in 0 .. Len(q) /\ i < j /\ i \in 0 .. Len(q) + 1
    BY <1>8, <1>9
  <2>2. place'[i] = Stop(q, i) /\ place[i] = Stop(q, i)
    BY <1>4, <1>15, <2>1
  <2> QED BY <1>7, <2>2
<1> QED BY <1>q, <1>8, <1>10, <1>13, <1>14, <1>16, <1>17

\* A step that leaves the list alone keeps what the other workers have found.
LEMMA OthersSearch ==
    ASSUME TypeOK, SearchInv, UNCHANGED <<next, content>>, NEW w \in Workers,
           \A v \in Workers : v # w => /\ pc'[v] = pc[v] /\ cur'[v] = cur[v]
                                       /\ node'[v] = node[v] /\ arg'[v] = arg[v],
           Searched(w)'
    PROVE  SearchInv'
<1>1. place' = place
  BY DEF place
<1>2. ASSUME NEW v \in Workers, v # w PROVE Searched(v)'
  BY <1>1, <1>2 DEF SearchInv, Searched, Reached
<1> QED BY <1>2 DEF SearchInv

\* A step of a writer to a place where it has searched nothing.
LEMMA NoneSearches ==
    ASSUME TypeOK, WInv, NEW w \in Workers, pc[w] \in WriterPlaces, NEW to,
           pc' = [pc EXCEPT ![w] = to],
           to \notin {"scan", "clearScan", "unlinkBack", "unlinkFront", "delete"}
    PROVE  SearchInv'
<1>1. \A v \in Workers :
         pc'[v] \notin {"scan", "clearScan", "unlinkBack", "unlinkFront", "delete"}
  BY Alone DEF TypeOK, WriterPlaces, ClearPlaces, ScanPlaces
<1> QED BY <1>1 DEF SearchInv, Searched

\* A search that goes on past a node of another key.
LEMMA NextSearched ==
    ASSUME TypeOK, ListInv, NEW w \in Workers, Searched(w),
           pc[w] \in {"scan", "clearScan"}, cur[w] # tail, ~Matches(w),
           UNCHANGED <<next, content, arg>>, pc'[w] = pc[w], cur'[w] = next[cur[w]]
    PROVE  Searched(w)'
<1>1. place' = place
  BY DEF place
<1>2. PICK j \in 1 .. Cardinality(Nodes) + 1 :
         /\ place[j] = cur[w]
         /\ \A i \in 1 .. j - 1 : place[i] # tail /\ content[place[i]].key # arg[w].key
  BY DEF Searched, Reached
<1>3. place[Cardinality(Nodes) + 1] = tail
  BY ListRead DEF Meets
<1>4. j \in 1 .. Cardinality(Nodes) /\ Cardinality(Nodes) \in Nat
  BY <1>2, <1>3, PointersFinite
<1>5. place[j + 1] = next[cur[w]]
  <2>1. j + 1 \in 1 .. Cardinality(Nodes) + 1 /\ (j + 1) - 1 = j
    BY <1>4
  <2>2. WalkOf(next)[j + 1] = IF WalkOf(next)[j] = tail THEN tail ELSE next[WalkOf(next)[j]]
    BY <2>1, WalkExists
  <2> QED BY <1>2, <2>2, PlaceIsWalk
<1>6. \A i \in 1 .. j : place[i] # tail /\ content[place[i]].key # arg[w].key
  <2> TAKE i \in 1 .. j
  <2>1. CASE i = j
    BY <1>2, <2>1 DEF Matches
  <2>2. CASE i # j
    <3>1. i \in 1 .. j - 1
      BY <1>4, <2>2
    <3> QED BY <1>2, <3>1
  <2> QED BY <2>1, <2>2
<1>7. j + 1 \in 1 .. Cardinality(Nodes) + 1 /\ (j + 1) - 1 = j
  BY <1>4
<1> QED BY <1>1, <1>5, <1>6, <1>7 DEF Searched, Reached

\* A step to a statement at which a worker has searched nothing.
LEMMA QuietSearch ==
    ASSUME TypeOK, SearchInv, NEW w \in Workers, UNCHANGED <<next, content>>,
           NEW to, pc' = [pc EXCEPT ![w] = to],
           to \notin {"scan", "clearScan", "unlinkBack", "unlinkFront", "delete"},
           \A v \in Workers : v # w => /\ cur'[v] = cur[v] /\ node'[v] = node[v]
                                       /\ arg'[v] = arg[v]
    PROVE  SearchInv'
<1>1. pc'[w] = to /\ \A v \in Workers : v # w => pc'[v] = pc[v]
  BY DEF TypeOK
<1>2. Searched(w)'
  BY <1>1 DEF Searched
<1> QED BY <1>1, <1>2, OthersSearch

\* A step to a statement at which the worker has searched as far as before.
LEMMA SameSearch ==
    ASSUME TypeOK, SearchInv, NEW w \in Workers, UNCHANGED <<next, content, arg>>,
           NEW to, pc' = [pc EXCEPT ![w] = to],
           pc[w] \in {"scan", "clearScan", "unlinkBack", "unlinkFront", "delete"},
           Reached(w)' = Reached(w),
           \A v \in Workers : v # w => cur'[v] = cur[v] /\ node'[v] = node[v]
    PROVE  SearchInv'
<1>1. \A v \in Workers : v # w => pc'[v] = pc[v]
  BY DEF TypeOK
<1>2. Searched(w)'
  <2>1. place' = place
    BY DEF place
  <2> QED BY <2>1 DEF SearchInv, Searched
<1> QED BY <1>1, <1>2, OthersSearch

\* A search starts at the first node.
LEMMA FirstSearched ==
    ASSUME TypeOK, SearchInv, NEW w \in Workers, ReadHead(w)
    PROVE  SearchInv'
<1>1. /\ UNCHANGED <<next, content, node, arg>>
      /\ cur' = [cur EXCEPT ![w] = next[head]] /\ pc'[w] \in {"scan", "clearScan"}
      /\ \A v \in Workers : v # w => pc'[v] = pc[v] /\ cur'[v] = cur[v]
  BY DEF ReadHead, At, list, TypeOK
<1>2. cur'[w] = next[head]
  BY <1>1 DEF TypeOK
<1>3. place'[1] = next[head]
  <2>1. 1 \in 1 .. Cardinality(Nodes) + 1 /\ 1 - 1 = 0
    BY PointersFinite
  <2>2. WalkOf(next)[1] = IF WalkOf(next)[0] = tail THEN tail ELSE next[WalkOf(next)[0]]
    BY <2>1, WalkExists
  <2>3. WalkOf(next)[0] = head
    BY WalkExists
  <2>4. WalkOf(next)[1] = next[head]
    BY <2>2, <2>3, CacheAssumption
  <2>5. place' = place
    BY <1>1 DEF place
  <2> QED BY <2>4, <2>5, PlaceIsWalk
<1>4. Searched(w)'
  <2>1. 1 \in 1 .. Cardinality(Nodes) + 1 /\ \A i \in 1 .. 1 - 1 : FALSE
    BY PointersFinite
  <2>2. place'[1] = Reached(w)'
    BY <1>1, <1>2, <1>3 DEF Reached
  <2> QED BY <2>1, <2>2 DEF Searched
<1> QED BY <1>1, <1>4, OthersSearch

\* The rest of a clear goes on where the node that it took off was.
LEMMA UnlinkFrontSearch ==
    ASSUME TypeOK, WInv, ListInv, SearchInv, NEW w \in Workers, UnlinkFront(w)
    PROVE  SearchInv'
<1>1. /\ pc[w] = "unlinkFront" /\ pc[w] \in WriterPlaces
      /\ pc' = [pc EXCEPT ![w] = "delete"] /\ pc'[w] = "delete"
      /\ UNCHANGED <<content, node, cur, arg>>
  BY DEF UnlinkFront, At, local, WriterPlaces, ClearPlaces, TypeOK
<1>2. cur[w] = next[node[w]]
  BY <1>1 DEF ListInv, WorkerInv, Stage
<1>3. PICK q : \E j \in 1 .. Len(q) :
         /\ ListOf(q, next, alive) /\ Meets(place, q) /\ Chain = 1 .. Len(q)
         /\ place'[j] = next[node[w]]
         /\ \A i \in 1 .. j - 1 : /\ place'[i] = place[i] /\ place[i] # tail
                                  /\ content[place[i]].key # arg[w].key
  BY UnlinkFrontList
<1>4. PICK j \in 1 .. Len(q) :
         /\ place'[j] = next[node[w]]
         /\ \A i \in 1 .. j - 1 : /\ place'[i] = place[i] /\ place[i] # tail
                                  /\ content[place[i]].key # arg[w].key
  BY <1>3
<1>5. j \in 1 .. Cardinality(Nodes) + 1
  <2>1. j \in Chain
    BY <1>3
  <2>2. j \in 1 .. Cardinality(Nodes)
    BY <2>1 DEF Chain
  <2> QED BY <2>2, PointersFinite
<1>6. Searched(w)'
  <2>1. Reached(w)' = cur[w]
    BY <1>1 DEF Reached
  <2>2. \A i \in 1 .. j - 1 : place'[i] # tail /\ content'[place'[i]].key # arg'[w].key
    BY <1>1, <1>4
  <2> QED BY <1>2, <1>4, <1>5, <2>1, <2>2 DEF Searched
<1>7. ASSUME NEW v \in Workers, v # w PROVE Searched(v)'
  <2>1. pc'[v] \notin WriterPlaces \cup ScanPlaces
    BY <1>1, <1>7, Alone DEF TypeOK
  <2> QED BY <2>1 DEF Searched, WriterPlaces, ClearPlaces, ScanPlaces
<1> QED BY <1>6, <1>7 DEF SearchInv

\* Every step keeps what the searches under way have found.
LEMMA SearchStep ==
    ASSUME TypeOK, WInv, ListInv, SearchInv, [Next]_vars
    PROVE  SearchInv'
<1> USE DEF At, list, local
<1>1. ASSUME NEW w \in Workers, CallStep(w)
      PROVE  SearchInv'
  <2>1. PICK to \in {"readLock", "writeLock", "clearLock"} : \E k, gr : Call(w, to, k, gr)
    BY <1>1 DEF CallStep, CallRead, CallWrite, CallClear
  <2>2. /\ UNCHANGED <<next, content, cur, node>> /\ pc' = [pc EXCEPT ![w] = to]
        /\ \A v \in Workers : v # w => arg'[v] = arg[v]
    BY <2>1 DEF Call, TypeOK
  <2> QED BY <2>2, QuietSearch
<1>2. ASSUME NEW w \in Workers,
             \/ ReadLock(w) \/ ReadCount(w) \/ ReadFirst(w) \/ ReadUnlock(w) \/ LeaveLast(w)
             \/ WriterLock(w) \/ WriterUnlock(w)
      PROVE  SearchInv'
  <2>1. /\ UNCHANGED <<next, content>>
        /\ \A v \in Workers : v # w => /\ cur'[v] = cur[v] /\ node'[v] = node[v]
                                       /\ arg'[v] = arg[v]
    BY <1>2 DEF ReadLock, ReadCount, ReadFirst, ReadUnlock, LeaveLast, WriterLock, WriterUnlock,
                LocalsGone, TypeOK
  <2>2. PICK to \in {"readCount", "leaveCount", "readFirst", "leaveLast", "readUnlock",
                     "readHead", "idle", "leaveUnlock", "new", "clearHead"} :
           pc' = [pc EXCEPT ![w] = to]
    BY <1>2 DEF ReadLock, ReadCount, ReadFirst, ReadUnlock, LeaveLast, WriterLock, WriterUnlock
  <2> QED BY <2>1, <2>2, QuietSearch
<1>3. ASSUME NEW w \in Workers, Scan(w)
      PROVE  SearchInv'
  <2>1. UNCHANGED <<next, content, arg, node>> /\ pc[w] = "scan"
    BY <1>3 DEF Scan
  <2>2. CASE pc' = [pc EXCEPT ![w] = "leaveLock"] /\ UNCHANGED cur
    BY <2>1, <2>2, QuietSearch
  <2>3. CASE /\ cur[w] # tail /\ ~Matches(w) /\ pc' = [pc EXCEPT ![w] = "scan"]
             /\ cur' = [cur EXCEPT ![w] = next[cur[w]]]
    <3>1. pc'[w] = pc[w] /\ cur'[w] = next[cur[w]] /\ Searched(w)
      BY <2>1, <2>3 DEF TypeOK, SearchInv
    <3>2. Searched(w)'
      BY <2>1, <2>3, <3>1, NextSearched
    <3>3. \A v \in Workers : v # w => pc'[v] = pc[v] /\ cur'[v] = cur[v]
      BY <2>3 DEF TypeOK
    <3> QED BY <2>1, <3>2, <3>3, OthersSearch
  <2> QED BY <1>3, <2>1, <2>2, <2>3 DEF Scan
<1>4. ASSUME NEW w \in Workers, NewNode(w) \/ LinkFront(w)
      PROVE  SearchInv'
  <2>1. pc[w] \in WriterPlaces
    BY <1>4 DEF NewNode, LinkFront, WriterPlaces, WritePlaces
  <2>2. PICK to \in {"writerUnlock", "linkBack"} : pc' = [pc EXCEPT ![w] = to]
    BY <1>4 DEF NewNode, LinkFront
  <2> QED BY <2>1, <2>2, NoneSearches
<1>5. ASSUME NEW w \in Workers, LinkBack(w)
      PROVE  SearchInv'
  BY <1>5, QuietSearch DEF LinkBack
<1>6. ASSUME NEW w \in Workers, ClearScan(w)
      PROVE  SearchInv'
  <2>1. UNCHANGED <<next, content, arg>> /\ pc[w] = "clearScan" /\ pc[w] \in WriterPlaces
    BY <1>6 DEF ClearScan, WriterPlaces, ClearPlaces
  <2>2. CASE cur[w] = tail
    <3>1. pc' = [pc EXCEPT ![w] = "writerUnlock"] /\ UNCHANGED <<cur, node>>
      BY <1>6, <2>2 DEF ClearScan
    <3> QED BY <2>1, <3>1, QuietSearch
  <2>3. CASE cur[w] # tail /\ Matches(w)
    <3>1. cur[w] \in alive /\ cur[w] \in Forward
      BY <2>1, <2>3 DEF ListInv, WorkerInv, Cursor, Backward, Forward
    <3>2. prev[next[cur[w]]] = cur[w]
      BY <2>1, <3>1, Alone DEF ListInv, Linked
    <3>3. /\ pc' = [pc EXCEPT ![w] = "unlinkBack"]
          /\ node' = [node EXCEPT ![w] = cur[w]]
          /\ cur' = [cur EXCEPT ![w] = next[cur[w]]]
      BY <1>6, <2>3, <3>2 DEF ClearScan
    <3>4. Reached(w)' = Reached(w)
      BY <2>1, <3>3 DEF Reached, TypeOK
    <3>5. \A v \in Workers : v # w => cur'[v] = cur[v] /\ node'[v] = node[v]
      BY <3>3 DEF TypeOK
    <3> QED BY <2>1, <3>3, <3>4, <3>5, SameSearch
  <2>4. CASE cur[w] # tail /\ ~Matches(w)
    <3>1. /\ pc' = [pc EXCEPT ![w] = "clearScan"] /\ UNCHANGED node
          /\ cur' = [cur EXCEPT ![w] = next[cur[w]]]
      BY <1>6, <2>4 DEF ClearScan
    <3>2. pc'[w] = pc[w] /\ cur'[w] = next[cur[w]] /\ Searched(w)
      BY <2>1, <3>1 DEF TypeOK, SearchInv
    <3>3. Searched(w)'
      BY <2>1, <2>4, <3>2, NextSearched
    <3>4. \A v \in Workers : v # w => pc'[v] = pc[v] /\ cur'[v] = cur[v]
      BY <3>1 DEF TypeOK
    <3> QED BY <2>1, <3>1, <3>3, <3>4, OthersSearch
  <2> QED BY <2>2, <2>3, <2>4
<1>7. ASSUME NEW w \in Workers, UnlinkBack(w)
      PROVE  SearchInv'
  <2>1. /\ pc[w] = "unlinkBack" /\ pc' = [pc EXCEPT ![w] = "unlinkFront"]
        /\ UNCHANGED <<next, content, arg, cur, node>>
    BY <1>7 DEF UnlinkBack
  <2>2. Reached(w)' = Reached(w)
    BY <2>1 DEF Reached, TypeOK
  <2> QED BY <2>1, <2>2, SameSearch
<1>8. ASSUME NEW w \in Workers, Delete(w)
      PROVE  SearchInv'
  <2>1. /\ pc[w] = "delete" /\ pc' = [pc EXCEPT ![w] = "clearScan"]
        /\ UNCHANGED <<next, content, arg, cur, node>>
    BY <1>8 DEF Delete
  <2>2. Reached(w)' = Reached(w)
    BY <2>1 DEF Reached, TypeOK
  <2> QED BY <2>1, <2>2, SameSearch
<1>9. CASE ClockStep \/ UNCHANGED vars
  <2>1. UNCHANGED <<next, content, pc, arg, cur, node>>
    BY <1>9 DEF ClockStep, vars
  <2>2. place' = place
    BY <2>1 DEF place
  <2> QED BY <2>1, <2>2 DEF SearchInv, Searched, Reached
<1>10. ASSUME NEW w \in Workers, Body(w)
       PROVE  SearchInv'
  BY <1>2, <1>3, <1>4, <1>5, <1>6, <1>7, <1>8, <1>10, FirstSearched, UnlinkFrontSearch
     DEF Body, ReadFromCache, writeToCache, clearAllInvalidCache
<1> QED BY <1>1, <1>9, <1>10 DEF Next, Quiescent

\* What the calls under way have found, on top of IInv.
FInv == IInv /\ CallInv /\ SearchInv

\* IInv, CallInv and SearchInv hold throughout.
LEMMA FInvariance == SafeSpec => []FInv
<1>1. Init => CallInv /\ SearchInv
  BY DEF Init, CallInv, SearchInv, Searched, EnterPlaces, ScanPlaces, WritePlaces
<1>2. IInv /\ CallInv /\ SearchInv /\ [Next]_vars => CallInv' /\ SearchInv'
  BY CallInvStep, SearchStep DEF IInv, LockInv
<1> QED BY <1>1, <1>2, Invariance, PTL DEF SafeSpec, FInv

-----------------------------------------------------------------------------
(***************************************************************************)
(* What the mapping makes of a step.                                       *)
(***************************************************************************)

Lookups == [w \in Workers |-> Lookup(w)]
Clears == {k \in Keys : Clearing(k)}

\* What is stored, read off the nodes of q.
Read(q) == [i \in 1 .. Len(q) |-> content[q[i]]]

\* The entries of the mapping are those of the nodes that the walk meets.
LEMMA ListedIs ==
    ASSUME NEW q, Meets(place, q), Chain = 1 .. Len(q)
    PROVE  Listed = Read(q)
BY DEF Meets, Listed, Read

\* So they are after the step.
LEMMA ListedIsNext ==
    ASSUME NEW q, Meets(place', q), Chain' = 1 .. Len(q)
    PROVE  Listed' = Read(q)'
BY DEF Meets, Listed, Read

\* A list of nodes gives a sequence of entries of the same length.
LEMMA ReadType ==
    ASSUME TypeOK, NEW q \in Seq(alive)
    PROVE  /\ Read(q) \in Seq(Contents) /\ Len(Read(q)) = Len(q) /\ Len(q) \in Nat
           /\ \A i \in 1 .. Len(q) : Read(q)[i] = content[q[i]]
<1>1. \A i \in 1 .. Len(q) : q[i] \in Nodes
  BY DEF TypeOK
<1>2. \A i \in 1 .. Len(q) : content[q[i]] \in Contents
  BY <1>1 DEF TypeOK
<1> QED BY <1>2 DEF Read

\* A step that leaves pointers and contents alone leaves the list alone.
LEMMA ListedSame ==
    ASSUME UNCHANGED <<next, content>>
    PROVE  Listed' = Listed
<1>1. place' = place
  BY DEF place
<1> QED BY <1>1 DEF Listed, Chain

\* The keys that are being cleared, if worker w neither gets nor gives up W
\* for a clear.
LEMMA ClearsSame ==
    ASSUME NEW w \in Workers,
           \A v \in Workers : v # w => pc'[v] = pc[v] /\ arg'[v] = arg[v],
           pc'[w] \in ClearPlaces <=> pc[w] \in ClearPlaces,
           pc[w] \in ClearPlaces => arg'[w] = arg[w]
    PROVE  Clears' = Clears
<1>1. ASSUME NEW k \in Keys PROVE Clearing(k)' <=> Clearing(k)
  <2>1. \A v \in Workers :
           pc'[v] \in ClearPlaces /\ arg'[v].key = k <=> pc[v] \in ClearPlaces /\ arg[v].key = k
    OBVIOUS
  <2> QED BY <2>1 DEF Clearing
<1> QED BY <1>1 DEF Clears

\* A step of w that w's caller sees nothing of.
LEMMA LookupsSame ==
    ASSUME NEW w \in Workers, Lookup(w)' = Lookup(w),
           \A v \in Workers : v # w => /\ pc'[v] = pc[v] /\ arg'[v] = arg[v]
                                       /\ found'[v] = found[v]
    PROVE  Lookups' = Lookups
<1>1. \A v \in Workers : Lookup(v)' = Lookup(v)
  BY DEF Lookup
<1> QED BY <1>1 DEF Lookups

\* A step of w that gives w's caller another view of its search.
LEMMA LookupChanges ==
    ASSUME NEW w \in Workers, NEW answer, Lookup(w)' = answer,
           \A v \in Workers : v # w => /\ pc'[v] = pc[v] /\ arg'[v] = arg[v]
                                       /\ found'[v] = found[v]
    PROVE  Lookups' = [Lookups EXCEPT ![w] = answer]
<1>1. \A v \in Workers : v # w => Lookup(v)' = Lookup(v)
  BY DEF Lookup
<1> QED BY <1>1 DEF Lookups

\* While somebody searches or writes, nobody clears.
LEMMA NobodyClears ==
    ASSUME WInv, NEW w \in Workers,
           pc[w] \in ScanPlaces \cup WritePlaces \cup {"writerUnlock"}
    PROVE  Clears = {}
<1>1. ASSUME NEW v \in Workers, pc[v] \in ClearPlaces PROVE FALSE
  <2>1. v # w
    BY <1>1 DEF ScanPlaces, WritePlaces, ClearPlaces
  <2> QED BY <1>1, <2>1 DEF WInv, ReaderPlaces, WriterPlaces
<1> QED BY <1>1 DEF Clears, Clearing

\* While somebody clears, nobody else does.
LEMMA OneClears ==
    ASSUME WInv, CallInv, NEW w \in Workers, pc[w] \in ClearPlaces
    PROVE  Clears = {arg[w].key}
<1>1. arg[w].key \in Keys
  BY DEF CallInv, ClearPlaces
<1>2. \A v \in Workers : pc[v] \in ClearPlaces => v = w
  BY DEF WInv, WriterPlaces
<1> QED BY <1>1, <1>2 DEF Clears, Clearing

\* Nothing is hidden while nobody clears.
LEMMA AllStored ==
    ASSUME TypeOK, ListInv, Clears = {}
    PROVE  Stored = Listed /\ Listed \in Seq(Contents)
<1>1. PICK q : ListOf(q, next, alive) /\ Meets(place, q) /\ Chain = 1 .. Len(q)
  BY ListRead
<1>2. Listed = Read(q) /\ q \in Seq(alive)
  BY <1>1, ListedIs DEF ListOf
<1>3. Listed \in Seq(Contents)
  BY <1>2, ReadType
<1>4. Without(Listed, {}) = Listed
  BY <1>3, NothingTaken
<1> QED BY <1>3, <1>4 DEF Stored, Clears

-----------------------------------------------------------------------------
\* A node that is not linked yet is not on the list.
LEMMA NewNodeLists ==
    ASSUME TypeOK, WInv, ListInv, NEW w \in Workers, NewNode(w)
    PROVE  Listed' = Listed
<1>1. CASE TooLarge(arg[w].gr)
  BY <1>1, ListedSame DEF NewNode, list
<1>2. CASE ~TooLarge(arg[w].gr)
  <2>1. PICK n \in Nodes \ alive :
          /\ content' = [content EXCEPT ![n] = arg[w]]
          /\ next' = [next EXCEPT ![n] = next[head]]
    BY <1>2 DEF NewNode
  <2>2. PICK q : /\ ListOf(q, next, alive) /\ Len(q) \in 0 .. Cardinality(Nodes)
                 /\ Meets(place, q) /\ Chain = 1 .. Len(q)
    BY ListRead
  <2>3. q \in Seq(alive) /\ Len(q) \in Nat /\ \A i \in 1 .. Len(q) : q[i] \in alive
    BY <2>2 DEF ListOf
  <2>4. ListOf(q, next', alive)
    <3>1. \A i \in 0 .. Len(q) : Stop(q, i) \in alive \cup {head}
      BY <2>3 DEF Stop
    <3>2. \A i \in 0 .. Len(q) : next'[Stop(q, i)] = next[Stop(q, i)]
      BY <2>1, <3>1, CacheAssumption DEF TypeOK
    <3> QED BY <2>2, <3>2 DEF ListOf
  <2>5. Meets(place', q)
    <3>1. PICK after : after = next'
      OBVIOUS
    <3>2. Meets(WalkOf(after), q)
      BY <2>2, <2>4, <3>1, WalkMeets DEF TypeOK
    <3> QED BY <3>1, <3>2, PlaceIsWalkNext
  <2>6. Chain' = 1 .. Len(q)
    BY <2>5 DEF Chain, Meets
  <2>7. Listed = Read(q) /\ Listed' = Read(q)'
    BY <2>2, <2>5, <2>6, ListedIs, ListedIsNext
  <2>8. Read(q)' = Read(q)
    <3>1. \A i \in 1 .. Len(q) : content'[q[i]] = content[q[i]]
      BY <2>1, <2>3 DEF TypeOK
    <3> QED BY <3>1 DEF Read
  <2> QED BY <2>7, <2>8
<1> QED BY <1>1, <1>2

\* addNode's head->next = newNode puts its response in front.
LEMMA LinkFrontLists ==
    ASSUME TypeOK, LockInv, ListInv, CallInv, NEW w \in Workers, LinkFront(w)
    PROVE  Listed' = <<arg[w]>> \o Listed
<1>1. /\ pc[w] = "linkFront" /\ next' = [next EXCEPT ![head] = node[w]]
      /\ UNCHANGED <<content, alive, node>>
  BY DEF LinkFront, At, local
<1>2. node[w] \in alive /\ next[node[w]] = next[head] /\ content[node[w]] = arg[w]
  BY <1>1 DEF ListInv, WorkerInv, Stage, CallInv
<1>3. PICK n : n = node[w]
  OBVIOUS
<1>4. PICK q : /\ ListOf(q, next, alive) /\ Len(q) \in 0 .. Cardinality(Nodes)
               /\ Meets(place, q) /\ Chain = 1 .. Len(q)
  BY ListRead
<1>5. q \in Seq(alive) /\ Len(q) \in Nat /\ \A i \in 1 .. Len(q) : q[i] \in alive
  BY <1>4 DEF ListOf
<1>6. /\ next'[head] = n /\ next'[n] = next[head]
      /\ \A i \in 1 .. Len(q) : next'[q[i]] = next[q[i]]
  BY <1>1, <1>2, <1>3, <1>5, CacheAssumption DEF TypeOK
<1>7. PICK after, t : after = next' /\ t = <<n>> \o q
  OBVIOUS
<1>8. ListOf(t, after, alive) /\ Len(t) = Len(q) + 1
  <2>1. /\ after[head] = n /\ after[n] = next[head]
        /\ \A i \in 1 .. Len(q) : after[q[i]] = next[q[i]]
    BY <1>6, <1>7
  <2>2. n \in alive /\ alive \in SUBSET Nodes
    BY <1>2, <1>3 DEF TypeOK
  <2> QED BY <1>4, <1>7, <2>1, <2>2, PutInFront
<1>9. Len(t) \in 0 .. Cardinality(Nodes)
  <2>1. TypeOK' /\ ListInv' /\ alive' = alive
    <3>1. Next
      BY DEF Next, Body, writeToCache
    <3> QED BY <1>1, <3>1, TypeStep, ListStep
  <2>2. Sorted(after, alive) /\ alive \in SUBSET Nodes
    BY <1>7, <2>1, ListSortedNext
  <2> QED BY <1>8, <2>2, StopsDiffer
<1>10. Meets(place', t)
  <2>1. Meets(WalkOf(after), t)
    BY <1>8, <1>9, WalkMeets DEF TypeOK
  <2> QED BY <1>7, <2>1, PlaceIsWalkNext
<1>11. Chain' = 1 .. Len(t)
  BY <1>10 DEF Chain, Meets
<1>12. Listed = Read(q) /\ Listed' = Read(t)'
  BY <1>4, <1>10, <1>11, ListedIs, ListedIsNext
<1>13. Read(t)' = Read(t)
  BY <1>1 DEF Read
<1>14. Read(t) = <<arg[w]>> \o Read(q)
  <2>1. t \in Seq(alive) /\ t[1] = n /\ \A i \in 2 .. Len(t) : t[i] = q[i - 1]
    BY <1>2, <1>3, <1>5, <1>7
  <2>2. /\ Read(q) \in Seq(Contents) /\ Len(Read(q)) = Len(q)
        /\ \A i \in 1 .. Len(q) : Read(q)[i] = content[q[i]]
    BY <1>5, ReadType
  <2>3. /\ Read(t) \in Seq(Contents) /\ Len(Read(t)) = Len(t)
        /\ \A i \in 1 .. Len(t) : Read(t)[i] = content[t[i]]
    BY <2>1, ReadType
  <2>4. arg[w] \in Contents
    BY DEF TypeOK
  <2>5. PICK r, s, a : r = Read(q) /\ s = Read(t) /\ a = arg[w]
    OBVIOUS
  <2>6. /\ s[1] = a /\ \A i \in 2 .. Len(q) + 1 : s[i] = r[i - 1]
    <3>1. s[1] = a
      BY <1>2, <1>3, <1>5, <1>8, <2>1, <2>3, <2>5
    <3>2. ASSUME NEW i \in 2 .. Len(q) + 1 PROVE s[i] = r[i - 1]
      <4>1. i - 1 \in 1 .. Len(q) /\ i \in 2 .. Len(t) /\ i \in 1 .. Len(t)
        BY <1>5, <1>8
      <4> QED BY <2>1, <2>2, <2>3, <2>5, <4>1
    <3> QED BY <3>1, <3>2
  <2>7. s = <<a>> \o r
    <3>1. /\ r \in Seq(Contents) /\ Len(r) = Len(q) /\ s \in Seq(Contents)
          /\ Len(s) = Len(q) + 1 /\ a \in Contents
      BY <1>8, <2>2, <2>3, <2>4, <2>5
    <3>2. PICK u : u = <<a>> \o r
      OBVIOUS
    <3>3. /\ u \in Seq(Contents) /\ Len(u) = Len(q) + 1
          /\ u[1] = a /\ \A i \in 2 .. Len(q) + 1 : u[i] = r[i - 1]
      BY <3>1, <3>2
    <3>4. \A i \in 1 .. Len(q) + 1 : i = 1 \/ i \in 2 .. Len(q) + 1
      BY <1>5
    <3>5. \A i \in 1 .. Len(s) : s[i] = u[i]
      BY <2>6, <3>1, <3>3, <3>4
    <3>6. s = u
      BY <3>1, <3>3, <3>5, SeqEqual
    <3> QED BY <3>2, <3>6
  <2> QED BY <2>5, <2>7
<1> QED BY <1>12, <1>13, <1>14

\* What deleteNode takes off the list is hidden already.
LEMMA UnlinkFrontStores ==
    ASSUME TypeOK, WInv, ListInv, CallInv, SearchInv, NEW w \in Workers, UnlinkFront(w)
    PROVE  Stored' = Stored
<1>1. /\ pc[w] = "unlinkFront" /\ pc[w] \in ClearPlaces
      /\ UNCHANGED <<content, alive, node, cur, arg>>
      /\ pc'[w] = "delete" /\ \A v \in Workers : v # w => pc'[v] = pc[v]
  BY DEF UnlinkFront, At, local, ClearPlaces, TypeOK
<1>2. Clears = {arg[w].key} /\ Clears' = Clears
  <2>1. pc'[w] \in ClearPlaces
    BY <1>1 DEF ClearPlaces
  <2> QED BY <1>1, <2>1, OneClears, ClearsSame
<1>3. PICK q : \E j \in 1 .. Len(q) :
         /\ ListOf(q, next, alive) /\ ListOf(Shorter(q, j), next', alive)
         /\ Meets(place, q) /\ Meets(place', Shorter(q, j))
         /\ Chain = 1 .. Len(q) /\ Chain' = 1 .. Len(Shorter(q, j))
         /\ q[j] = node[w]
  BY UnlinkFrontList
<1>4. PICK j \in 1 .. Len(q) :
         /\ ListOf(q, next, alive) /\ ListOf(Shorter(q, j), next', alive)
         /\ Meets(place, q) /\ Meets(place', Shorter(q, j))
         /\ Chain = 1 .. Len(q) /\ Chain' = 1 .. Len(Shorter(q, j))
         /\ q[j] = node[w]
  BY <1>3
<1>5. PICK t : t = Shorter(q, j)
  OBVIOUS
<1>6. Listed = Read(q) /\ Listed' = Read(t)
  <2>1. Listed' = Read(t)'
    BY <1>4, <1>5, ListedIsNext
  <2>2. Read(t)' = Read(t)
    BY <1>1 DEF Read
  <2> QED BY <1>4, <2>1, <2>2, ListedIs
<1>7. /\ q \in Seq(alive) /\ Len(q) \in Nat /\ Read(q) \in Seq(Contents)
      /\ Len(Read(q)) = Len(q) /\ \A i \in 1 .. Len(q) : Read(q)[i] = content[q[i]]
  BY <1>4, ReadType DEF ListOf
<1>8. Read(q)[j].key \in Clears
  BY <1>1, <1>2, <1>4, <1>7 DEF CallInv
<1>9. Read(t) = Shorter(Read(q), j)
  <2>1. /\ Len(t) = Len(q) - 1
        /\ \A i \in 1 .. Len(q) - 1 : t[i] = IF i < j THEN q[i] ELSE q[i + 1]
    BY <1>5, <1>7 DEF Shorter
  <2>2. \A i \in 1 .. Len(q) - 1 :
           content[t[i]] = IF i < j THEN Read(q)[i] ELSE Read(q)[i + 1]
    <3> TAKE i \in 1 .. Len(q) - 1
    <3>1. i \in 1 .. Len(q) /\ i + 1 \in 1 .. Len(q)
      BY <1>7
    <3> QED BY <1>7, <2>1, <3>1
  <2> QED BY <1>7, <2>1, <2>2 DEF Read, Shorter
<1>10. Without(Shorter(Read(q), j), Clears) = Without(Read(q), Clears)
  <2>1. PICK r, K : r = Read(q) /\ K = Clears
    OBVIOUS
  <2>2. r \in Seq(Contents) /\ j \in 1 .. Len(r) /\ r[j].key \in K
    BY <1>7, <1>8, <2>1
  <2>3. Without(Shorter(r, j), K) = Without(r, K)
    BY <2>2, AlreadyTaken
  <2> QED BY <2>1, <2>3
<1> QED BY <1>2, <1>6, <1>9, <1>10 DEF Stored, Clears

\* The answer of a search that ends at the node it is looking for is the
\* atomic cache's: nothing before that node is of the key.
LEMMA HitAnswers ==
    ASSUME TypeOK, WInv, ListInv, SearchInv, NEW w \in Workers,
           pc[w] = "scan", cur[w] # tail, Matches(w)
    PROVE  Abstract!AnswerTo(arg[w].key)
             = Abstract!Answered(arg[w].key, Abstract!Status(content[cur[w]].gr, now),
                                 content[cur[w]].gr)
<1> DEFINE k == arg[w].key
           hits == {i \in DOMAIN Stored : Stored[i].key = k}
<1>1. Stored = Listed
  BY NobodyClears, AllStored DEF ScanPlaces
<1>2. PICK q : ListOf(q, next, alive) /\ Meets(place, q) /\ Chain = 1 .. Len(q)
  BY ListRead
<1>3. PICK j \in 1 .. Cardinality(Nodes) + 1 :
         /\ place[j] = cur[w]
         /\ \A i \in 1 .. j - 1 : place[i] # tail /\ content[place[i]].key # k
  BY DEF SearchInv, Searched, Reached
<1>4. j \in Chain
  <2>1. j # Cardinality(Nodes) + 1
    BY <1>2, <1>3 DEF Meets
  <2> QED BY <1>3, <2>1, PointersFinite DEF Chain
<1>5. DOMAIN Stored = Chain /\ \A i \in Chain : Stored[i] = content[place[i]]
  BY <1>1 DEF Listed
<1>6. /\ j \in hits /\ Stored[j].gr = content[cur[w]].gr
      /\ \A i \in hits : j <= i
  <2>1. j \in hits /\ Stored[j].gr = content[cur[w]].gr
    BY <1>3, <1>4, <1>5 DEF Matches
  <2>2. ASSUME NEW i \in hits PROVE j <= i
    <3>1. i \in Chain /\ content[place[i]].key = k
      BY <1>5
    <3>2. i \in 1 .. Cardinality(Nodes)
      BY <3>1 DEF Chain
    <3>3. i \notin 1 .. j - 1
      BY <1>3, <3>1
    <3> QED BY <1>3, <3>2, <3>3, PointersFinite
  <2> QED BY <2>1, <2>2
<1>7. Abstract!Min(hits) = j
  <2>1. \A i \in hits : i \in Int
    BY <1>5, PointersFinite DEF Chain
  <2> HIDE DEF hits
  <2>2. \A i \in hits : (\A n \in hits : i <= n) => i = j
    BY <1>6, <2>1
  <2> QED BY <1>6, <2>2 DEF Abstract!Min
<1>8. Abstract!AnswerTo(k) =
         IF hits = {} THEN Abstract!Answered(k, "CS_CACHE_NOT_FOUND", NoResponse)
         ELSE Abstract!Answered(k, Abstract!Status(Stored[Abstract!Min(hits)].gr, now),
                                Stored[Abstract!Min(hits)].gr)
  BY DEF Abstract!AnswerTo
<1> HIDE DEF hits
<1> QED BY <1>6, <1>7, <1>8

\* A search that comes to the end has missed nothing.
LEMMA MissAnswers ==
    ASSUME TypeOK, WInv, ListInv, SearchInv, NEW w \in Workers,
           pc[w] = "scan", cur[w] = tail
    PROVE  Abstract!AnswerTo(arg[w].key)
             = Abstract!Answered(arg[w].key, "CS_CACHE_NOT_FOUND", NoResponse)
<1> DEFINE k == arg[w].key
           hits == {i \in DOMAIN Stored : Stored[i].key = k}
<1>1. Stored = Listed
  BY NobodyClears, AllStored DEF ScanPlaces
<1>2. PICK q : ListOf(q, next, alive) /\ Meets(place, q) /\ Chain = 1 .. Len(q)
  BY ListRead
<1>3. PICK j \in 1 .. Cardinality(Nodes) + 1 :
         /\ place[j] = tail
         /\ \A i \in 1 .. j - 1 : place[i] # tail /\ content[place[i]].key # k
  BY DEF SearchInv, Searched, Reached
<1>4. DOMAIN Stored = Chain /\ \A i \in Chain : Stored[i] = content[place[i]]
  BY <1>1 DEF Listed
<1>5. ASSUME NEW i \in hits PROVE FALSE
  <2>1. i \in Chain /\ content[place[i]].key = k
    BY <1>4
  <2>2. Len(q) \in Nat /\ i \in 1 .. Len(q)
    BY <1>2, <2>1 DEF ListOf
  <2>3. i \notin 1 .. j - 1
    BY <1>3, <2>1
  <2>4. j \in 1 .. Len(q)
    BY <1>3, <2>2, <2>3, PointersFinite
  <2>5. place[j] # tail
    BY <1>2, <2>4 DEF Chain
  <2> QED BY <1>3, <2>5
<1>6. hits = {}
  BY <1>5
<1> QED BY <1>6 DEF Abstract!AnswerTo

\* The code's test of the age is the one of the specification, also when
\* the clock has been set back.
LEMMA SameStatus ==
    ASSUME TypeOK, NEW n \in Nodes
    PROVE  Abstract!Status(content[n].gr, now)
             = IF timeDifference(content[n].gr.writeTime, now) < content[n].gr.validTime
               THEN "CS_CACHE_VALID" ELSE "CS_CACHE_NEED_REVALIDATE"
<1>1. content[n].gr \in Responses \cup {NoResponse}
  BY DEF TypeOK, Contents
<1>2. content[n].gr.writeTime \in Nat /\ content[n].gr.validTime \in Nat /\ now \in Nat
  <2>1. PICK gr : gr = content[n].gr
    OBVIOUS
  <2>2. ValidTimes \subseteq Nat /\ Times \subseteq Nat
    BY CacheAssumption DEF Times
  <2>3. gr.writeTime \in Nat /\ gr.validTime \in Nat
    <3>1. ASSUME gr \in Responses PROVE gr.writeTime \in Nat /\ gr.validTime \in Nat
      BY <2>2, <3>1 DEF Responses
    <3>2. ASSUME gr = NoResponse PROVE gr.writeTime \in Nat /\ gr.validTime \in Nat
      BY <3>2 DEF NoResponse
    <3> QED BY <1>1, <2>1, <3>1, <3>2
  <2> QED BY <2>1, <2>2, <2>3 DEF TypeOK
<1> QED BY <1>2 DEF Abstract!Status, timeDifference

\* A search that ends is an answer.
LEMMA ScanRefines ==
    ASSUME FInv, NEW w \in Workers, Scan(w)
    PROVE  [Abstract!CNext]_(Abstract!cvars)
<1> USE DEF FInv, IInv, LockInv
<1>1. pc[w] = "scan" /\ UNCHANGED <<next, content, arg, now>>
  BY DEF Scan, list
<1>2. Listed' = Listed
  BY <1>1, ListedSame
<1>3. ASSUME NEW to, pc' = [pc EXCEPT ![w] = to], to \notin ClearPlaces
      PROVE  Stored' = Stored /\ pc'[w] = to /\ \A v \in Workers : v # w => pc'[v] = pc[v]
  <2>1. pc'[w] = to /\ \A v \in Workers : v # w => pc'[v] = pc[v]
    BY <1>3 DEF TypeOK
  <2>2. Clears' = Clears
    BY <1>1, <1>3, <2>1, ClearsSame DEF ClearPlaces
  <2> QED BY <1>2, <2>1, <2>2 DEF Stored, Clears
<1>4. Lookup(w) = Abstract!Asked(arg[w].key) /\ arg[w].key \in Keys
  BY <1>1 DEF Lookup, Abstract!Asked, EnterPlaces, ScanPlaces, LeavePlaces, CallInv
<1>5. ASSUME pc' = [pc EXCEPT ![w] = "leaveLock"],
             \A v \in Workers : v # w => found'[v] = found[v],
             Abstract!AnswerTo(arg[w].key) = <<arg[w].key, found'[w].cs, found'[w].gr>>
      PROVE  Abstract!CNext
  <2>1. Stored' = Stored /\ pc'[w] = "leaveLock" /\ \A v \in Workers : v # w => pc'[v] = pc[v]
    BY <1>3, <1>5 DEF ClearPlaces
  <2>2. Lookup(w)' = Abstract!AnswerTo(arg[w].key)
    BY <1>1, <1>5, <2>1 DEF Lookup, EnterPlaces, ScanPlaces, LeavePlaces
  <2>3. Lookups' = [Lookups EXCEPT ![w] = Abstract!AnswerTo(arg[w].key)]
    BY <1>1, <1>5, <2>1, <2>2, LookupChanges
  <2>4. Lookups[w] = Abstract!Asked(arg[w].key)
    BY <1>4 DEF Lookups
  <2>5. Abstract!Answer(w)
    BY <1>1, <1>4, <2>1, <2>3, <2>4 DEF Abstract!Answer, Lookups
  <2> QED BY <2>5 DEF Abstract!CNext
<1>6. CASE cur[w] = tail
  <2>1. pc' = [pc EXCEPT ![w] = "leaveLock"] /\ UNCHANGED found
    BY <1>6 DEF Scan, At
  <2>2. found[w] = Nothing
    BY <1>1 DEF CallInv, ScanPlaces
  <2>3. Abstract!AnswerTo(arg[w].key) = <<arg[w].key, found'[w].cs, found'[w].gr>>
    BY <1>1, <1>6, <2>1, <2>2, MissAnswers DEF Nothing, Abstract!Answered
  <2> QED BY <1>5, <2>1, <2>3
<1>7. CASE cur[w] # tail /\ Matches(w)
  <2> DEFINE gr == content[cur[w]].gr
             cs == IF timeDifference(gr.writeTime, now) < gr.validTime
                   THEN "CS_CACHE_VALID" ELSE "CS_CACHE_NEED_REVALIDATE"
  <2>1. /\ pc' = [pc EXCEPT ![w] = "leaveLock"]
        /\ found' = [found EXCEPT ![w] = [cs |-> cs, gr |-> gr]]
    BY <1>7 DEF Scan, At
  <2>2. cur[w] \in Nodes
    BY <1>1, <1>7 DEF ListInv, WorkerInv, Cursor, Backward, TypeOK
  <2>3. cs = Abstract!Status(gr, now)
    BY <2>2, SameStatus
  <2>4. Abstract!AnswerTo(arg[w].key) = <<arg[w].key, Abstract!Status(gr, now), gr>>
    BY <1>1, <1>7, HitAnswers DEF Abstract!Answered
  <2> HIDE DEF gr, cs
  <2>5. found'[w] = [cs |-> cs, gr |-> gr] /\ \A v \in Workers : v # w => found'[v] = found[v]
    BY <2>1 DEF TypeOK
  <2> QED BY <1>5, <2>1, <2>3, <2>4, <2>5
<1>8. CASE cur[w] # tail /\ ~Matches(w)
  <2>1. pc' = [pc EXCEPT ![w] = "scan"] /\ UNCHANGED found
    BY <1>8 DEF Scan, At
  <2>2. Stored' = Stored /\ pc'[w] = "scan" /\ \A v \in Workers : v # w => pc'[v] = pc[v]
    BY <1>3, <2>1 DEF ClearPlaces
  <2>3. Lookup(w)' = Lookup(w)
    BY <1>1, <2>1, <2>2 DEF Lookup
  <2>4. Lookups' = Lookups
    BY <1>1, <2>1, <2>2, <2>3, LookupsSame
  <2> QED BY <1>1, <2>2, <2>4 DEF Abstract!cvars, Lookups
<1> QED BY <1>6, <1>7, <1>8

\* A step that shows the callers nothing.
LEMMA Stutters ==
    ASSUME NEW w \in Workers, Listed' = Listed, UNCHANGED now, Lookup(w)' = Lookup(w),
           \A v \in Workers : v # w => /\ pc'[v] = pc[v] /\ arg'[v] = arg[v]
                                       /\ found'[v] = found[v],
           pc'[w] \in ClearPlaces <=> pc[w] \in ClearPlaces,
           pc[w] \in ClearPlaces => arg'[w] = arg[w]
    PROVE  UNCHANGED Abstract!cvars
<1>1. Clears' = Clears
  BY ClearsSame
<1>2. Stored' = Stored
  BY <1>1 DEF Stored, Clears
<1>3. Lookups' = Lookups
  BY LookupsSame
<1> QED BY <1>2, <1>3 DEF Abstract!cvars, Lookups

\* A call of a search is asked; the other calls show nothing yet.
LEMMA CallRefines ==
    ASSUME FInv, NEW w \in Workers, CallStep(w)
    PROVE  [Abstract!CNext]_(Abstract!cvars)
<1> USE DEF FInv, IInv
<1>1. PICK to \in {"readLock", "writeLock", "clearLock"} :
         \E k \in Keys : \E gr : Call(w, to, k, gr)
  <2>1. CASE CallRead(w)
    BY <2>1 DEF CallRead
  <2>2. CASE CallWrite(w)
    BY <2>2 DEF CallWrite
  <2>3. CASE CallClear(w)
    BY <2>3 DEF CallClear
  <2> QED BY <2>1, <2>2, <2>3 DEF CallStep
<1>2. PICK k \in Keys : \E gr : Call(w, to, k, gr)
  BY <1>1
<1>3. PICK gr : Call(w, to, k, gr)
  BY <1>2
<1>4. /\ pc[w] = "idle" /\ pc' = [pc EXCEPT ![w] = to] /\ pc'[w] = to
      /\ arg' = [arg EXCEPT ![w] = [key |-> k, gr |-> gr]] /\ arg'[w].key = k
      /\ UNCHANGED <<next, content, now>>
      /\ \A v \in Workers : v # w => pc'[v] = pc[v] /\ arg'[v] = arg[v]
  BY <1>3 DEF Call, At, list, TypeOK
<1>5. \A v \in Workers : v # w => found'[v] = found[v]
  BY <1>1 DEF CallStep, CallRead, CallWrite, CallClear, TypeOK
<1>6. Listed' = Listed
  BY <1>4, ListedSame
<1>7. Lookup(w) = <<>>
  BY <1>4 DEF Lookup, EnterPlaces, ScanPlaces, LeavePlaces
<1>8. CASE to = "readLock"
  <2>1. Lookup(w)' = <<k>>
    BY <1>4, <1>8 DEF Lookup, EnterPlaces, ScanPlaces, LeavePlaces
  <2>2. Lookups' = [Lookups EXCEPT ![w] = <<k>>] /\ Lookups[w] = <<>>
    BY <1>4, <1>5, <1>7, <2>1, LookupChanges DEF Lookups
  <2>3. Clears' = Clears
    BY <1>4, <1>8, ClearsSame DEF ClearPlaces
  <2>4. Stored' = Stored
    BY <1>6, <2>3 DEF Stored, Clears
  <2>5. Abstract!Ask(w)
    BY <1>4, <2>2, <2>4 DEF Abstract!Ask, Abstract!NoLookup, Abstract!Asked, Lookups
  <2> QED BY <2>5 DEF Abstract!CNext
<1>9. CASE to \in {"writeLock", "clearLock"}
  <2>1. Lookup(w)' = <<>>
    BY <1>4, <1>9 DEF Lookup, EnterPlaces, ScanPlaces, LeavePlaces
  <2>2. pc[w] \notin ClearPlaces /\ pc'[w] \notin ClearPlaces
    BY <1>4, <1>9 DEF ClearPlaces
  <2> QED BY <1>4, <1>5, <1>6, <1>7, <2>1, <2>2, Stutters
<1> QED BY <1>8, <1>9

\* Taking the lock and releasing it shows the callers nothing.
LEMMA LockRefines ==
    ASSUME FInv, NEW w \in Workers,
           \/ ReadLock(w) \/ ReadCount(w) \/ ReadFirst(w) \/ LeaveLast(w) \/ ReadHead(w)
           \/ At(w, "readUnlock", "readHead") /\ ReadUnlock(w)
           \/ At(w, "writeLock", "new") /\ WriterLock(w)
           \/ WriterUnlock(w)
    PROVE  UNCHANGED Abstract!cvars
<1> USE DEF FInv, IInv
<1>1. /\ UNCHANGED <<next, content, now>>
      /\ \A v \in Workers : v # w => arg'[v] = arg[v] /\ found'[v] = found[v]
      /\ \/ pc'[w] = "idle" /\ pc[w] = "writerUnlock"
         \/ UNCHANGED <<arg, found>>
  BY DEF ReadLock, ReadCount, ReadFirst, LeaveLast, ReadHead, ReadUnlock, WriterLock,
         WriterUnlock, LocalsGone, At, TypeOK, list, local
<1>2. \E from, to :
         /\ At(w, from, to)
         /\ \/ from \in EnterPlaces /\ to \in EnterPlaces \cup ScanPlaces
            \/ from \in ScanPlaces /\ to \in ScanPlaces
            \/ from \in LeavePlaces /\ to \in LeavePlaces
            \/ from \in {"writeLock", "writerUnlock"} /\ to \in {"new", "idle"}
            \/ from = "clearHead" /\ to = "clearScan"
  BY DEF ReadLock, ReadCount, ReadFirst, LeaveLast, ReadHead, ReadUnlock, WriterLock,
         WriterUnlock, EnterPlaces, ScanPlaces, LeavePlaces
<1>3. PICK from, to :
         /\ At(w, from, to)
         /\ \/ from \in EnterPlaces /\ to \in EnterPlaces \cup ScanPlaces
            \/ from \in ScanPlaces /\ to \in ScanPlaces
            \/ from \in LeavePlaces /\ to \in LeavePlaces
            \/ from \in {"writeLock", "writerUnlock"} /\ to \in {"new", "idle"}
            \/ from = "clearHead" /\ to = "clearScan"
  BY <1>2
<1>4. pc[w] = from /\ pc'[w] = to /\ \A v \in Workers : v # w => pc'[v] = pc[v]
  BY <1>3 DEF At, TypeOK
<1>5. Lookup(w)' = Lookup(w)
  BY <1>1, <1>3, <1>4 DEF Lookup, EnterPlaces, ScanPlaces, LeavePlaces
<1>6. pc'[w] \in ClearPlaces <=> pc[w] \in ClearPlaces
  BY <1>3, <1>4 DEF EnterPlaces, ScanPlaces, LeavePlaces, ClearPlaces
<1>7. Listed' = Listed
  BY <1>1, ListedSame
<1>8. pc[w] \in ClearPlaces => arg'[w] = arg[w]
  BY <1>1 DEF ClearPlaces
<1> QED BY <1>1, <1>4, <1>5, <1>6, <1>7, <1>8, Stutters

\* The return of a search to its caller.
LEMMA ReturnRefines ==
    ASSUME FInv, NEW w \in Workers, ReadUnlock(w), At(w, "leaveUnlock", "idle")
    PROVE  Abstract!CNext
<1> USE DEF FInv, IInv
<1>1. /\ pc[w] = "leaveUnlock" /\ pc'[w] = "idle" /\ UNCHANGED <<next, content, now>>
      /\ \A v \in Workers : v # w => /\ pc'[v] = pc[v] /\ arg'[v] = arg[v]
                                     /\ found'[v] = found[v]
  BY DEF ReadUnlock, LocalsGone, At, list, TypeOK
<1>2. Stored' = Stored
  <2>1. Clears' = Clears
    BY <1>1, ClearsSame DEF ClearPlaces
  <2>2. Listed' = Listed
    BY <1>1, ListedSame
  <2> QED BY <2>1, <2>2 DEF Stored, Clears
<1>3. Lookup(w)' = <<>> /\ Lookup(w) = <<arg[w].key, found[w].cs, found[w].gr>>
  BY <1>1 DEF Lookup, EnterPlaces, ScanPlaces, LeavePlaces
<1>4. Lookups' = [Lookups EXCEPT ![w] = <<>>] /\ Len(Lookups[w]) = 3
  BY <1>1, <1>3, LookupChanges DEF Lookups
<1>5. Abstract!Return(w)
  BY <1>1, <1>2, <1>4 DEF Abstract!Return, Abstract!NoLookup, Lookups
<1> QED BY <1>5 DEF Abstract!CNext

\* A clear takes effect when it gets W: from then on its entries are hidden.
LEMMA ClearRefines ==
    ASSUME FInv, NEW w \in Workers, WriterLock(w), At(w, "clearLock", "clearHead")
    PROVE  Abstract!CNext
<1> USE DEF FInv, IInv, LockInv
<1>1. /\ pc[w] = "clearLock" /\ pc'[w] = "clearHead" /\ W = 1
      /\ UNCHANGED <<next, content, arg, found, now>>
      /\ \A v \in Workers : v # w => pc'[v] = pc[v]
  BY DEF WriterLock, At, list, local, TypeOK
<1>2. \A v \in Workers : pc[v] \notin ClearPlaces
  BY <1>1 DEF WInv, WriterPlaces
<1>3. Clears = {}
  BY <1>2 DEF Clears, Clearing
<1>4. arg[w].key \in Keys
  BY <1>1 DEF CallInv
<1>5. Clears' = {arg[w].key}
  BY <1>1, <1>2, <1>4 DEF Clears, Clearing, ClearPlaces
<1>6. Stored = Listed /\ Listed' = Listed
  BY <1>1, <1>3, AllStored, ListedSame
<1>7. Stored' = Without(Listed, {arg[w].key})
  BY <1>5, <1>6 DEF Stored, Clears
<1>8. Lookups' = Lookups
  <2>1. Lookup(w)' = Lookup(w)
    BY <1>1 DEF Lookup, EnterPlaces, ScanPlaces, LeavePlaces
  <2> QED BY <1>1, <2>1, LookupsSame
<1>9. Abstract!Clear
  <2>1. Stored' = Abstract!Without(Stored, {arg[w].key})
    BY <1>6, <1>7 DEF Without, Abstract!Without
  <2> QED BY <1>1, <1>4, <1>8, <2>1 DEF Abstract!Clear, Lookups
<1> QED BY <1>9 DEF Abstract!CNext

\* A write takes effect when head->next is set.
LEMMA WriteRefines ==
    ASSUME FInv, NEW w \in Workers, NewNode(w) \/ LinkBack(w) \/ LinkFront(w)
    PROVE  [Abstract!CNext]_(Abstract!cvars)
<1> USE DEF FInv, IInv
<1>1. /\ UNCHANGED <<arg, found, now>> /\ pc[w] \in WritePlaces
      /\ \E to \in {"writerUnlock", "linkBack", "linkFront"} : pc' = [pc EXCEPT ![w] = to]
  BY DEF NewNode, LinkBack, LinkFront, At, local, WritePlaces
<1>2. /\ pc'[w] \in {"writerUnlock", "linkBack", "linkFront"}
      /\ \A v \in Workers : v # w => pc'[v] = pc[v]
  BY <1>1 DEF TypeOK
<1>3. /\ pc[w] \notin ClearPlaces /\ pc'[w] \notin ClearPlaces /\ Lookup(w)' = Lookup(w)
  BY <1>1, <1>2 DEF ClearPlaces, WritePlaces, Lookup, EnterPlaces, ScanPlaces, LeavePlaces
<1>4. ASSUME Listed' = Listed PROVE UNCHANGED Abstract!cvars
  BY <1>1, <1>2, <1>3, <1>4, Stutters
<1>5. CASE NewNode(w)
  BY <1>4, <1>5, NewNodeLists DEF LockInv
<1>6. CASE LinkBack(w)
  <2>1. UNCHANGED <<next, content>>
    BY <1>6 DEF LinkBack
  <2> QED BY <1>4, <2>1, ListedSame
<1>7. CASE LinkFront(w)
  <2>1. Listed' = <<arg[w]>> \o Listed
    BY <1>7, LinkFrontLists
  <2>2. Clears = {} /\ Clears' = {}
    <3>1. Clears = {}
      BY <1>1, NobodyClears DEF LockInv
    <3>2. Clears' = Clears
      BY <1>1, <1>2, <1>3, ClearsSame
    <3> QED BY <3>1, <3>2
  <2>3. Stored = Listed /\ Listed \in Seq(Contents)
    BY <2>2, AllStored
  <2>4. Stored' = Listed'
    <3>1. arg[w] \in Contents
      BY DEF TypeOK
    <3>2. PICK s : s = <<arg[w]>> \o Listed
      OBVIOUS
    <3>3. s \in Seq(Contents)
      BY <2>3, <3>1, <3>2
    <3>4. Without(s, {}) = s
      BY <3>3, NothingTaken
    <3>5. Stored' = Without(Listed', {})
      BY <2>2 DEF Stored, Clears
    <3> QED BY <2>1, <3>2, <3>4, <3>5
  <2>5. Lookups' = Lookups
    BY <1>1, <1>2, <1>3, LookupsSame
  <2>6. PICK k, gr : /\ k = arg[w].key /\ gr = arg[w].gr
                     /\ k \in Keys /\ gr \in Responses /\ ~TooLarge(gr)
    BY <1>7 DEF LinkFront, At, CallInv, WritePlaces
  <2>7. arg[w] = [key |-> k, gr |-> gr]
    BY <2>6 DEF TypeOK, Contents
  <2>8. gr.size <= MAX_OBJECT_SIZE
    <3>1. gr.size \in Nat /\ MAX_OBJECT_SIZE \in Nat
      BY <2>6, CacheAssumption DEF Responses
    <3> QED BY <2>6, <3>1 DEF TooLarge
  <2>9. Abstract!Write
    <3>1. Stored' = <<[key |-> k, gr |-> gr]>> \o Stored
      BY <2>1, <2>3, <2>4, <2>7
    <3> QED BY <1>1, <2>5, <2>6, <2>8, <3>1 DEF Abstract!Write, Lookups
  <2> QED BY <2>9 DEF Abstract!CNext
<1> QED BY <1>5, <1>6, <1>7

\* The rest of a clear takes away what is hidden, and ends when nothing is.
LEMMA ClearingStutters ==
    ASSUME FInv, NEW w \in Workers, clearAllInvalidCache(w)
    PROVE  UNCHANGED Abstract!cvars
<1> USE DEF FInv, IInv, LockInv
<1>1. /\ UNCHANGED <<content, arg, found, now>> /\ pc[w] \in ClearPlaces
      /\ \E to : pc' = [pc EXCEPT ![w] = to]
                 /\ to \in {"writerUnlock", "clearScan", "unlinkBack", "unlinkFront", "delete"}
  BY DEF clearAllInvalidCache, ClearScan, UnlinkBack, UnlinkFront, Delete, At, list, local,
         ClearPlaces
<1>2. /\ pc'[w] \in {"writerUnlock", "clearScan", "unlinkBack", "unlinkFront", "delete"}
      /\ \A v \in Workers : v # w => pc'[v] = pc[v]
  BY <1>1 DEF TypeOK
<1>3. Lookups' = Lookups
  <2>1. Lookup(w)' = Lookup(w)
    BY <1>1, <1>2 DEF ClearPlaces, Lookup, EnterPlaces, ScanPlaces, LeavePlaces
  <2> QED BY <1>1, <1>2, <2>1, LookupsSame
<1>4. Stored' = Stored
  <2>1. CASE UnlinkFront(w)
    BY <2>1, UnlinkFrontStores
  <2>2. CASE pc'[w] \in ClearPlaces /\ ~UnlinkFront(w)
    <3>1. UNCHANGED next
      BY <2>2 DEF clearAllInvalidCache, ClearScan, UnlinkBack, Delete, list
    <3>2. Clears' = Clears
      BY <1>1, <1>2, <2>2, ClearsSame
    <3>3. Listed' = Listed
      BY <1>1, <3>1, ListedSame
    <3> QED BY <3>2, <3>3 DEF Stored, Clears
  <2>3. CASE pc'[w] \notin ClearPlaces
    <3>1. pc[w] = "clearScan" /\ cur[w] = tail /\ UNCHANGED next
      <4>1. pc'[w] = "writerUnlock"
        BY <1>2, <2>3 DEF ClearPlaces
      <4> QED BY <4>1 DEF clearAllInvalidCache, ClearScan, UnlinkBack, UnlinkFront, Delete,
                          At, list, TypeOK
    <3>2. Listed' = Listed
      BY <1>1, <3>1, ListedSame
    <3>3. PICK q : ListOf(q, next, alive) /\ Meets(place, q) /\ Chain = 1 .. Len(q)
      BY ListRead
    <3>4. PICK j \in 1 .. Cardinality(Nodes) + 1 :
             /\ place[j] = tail
             /\ \A i \in 1 .. j - 1 : place[i] # tail /\ content[place[i]].key # arg[w].key
      BY <3>1 DEF SearchInv, Searched, Reached
    <3>5. /\ Listed \in Seq(Contents) /\ Len(Listed) = Len(q) /\ Len(q) \in Nat
          /\ \A i \in 1 .. Len(q) : Listed[i] = content[place[i]]
      <4>1. Listed = Read(q) /\ q \in Seq(alive) /\ \A i \in 1 .. Len(q) : place[i] = q[i]
        BY <3>3, ListedIs DEF ListOf, Meets
      <4> QED BY <4>1, ReadType
    <3>6. ASSUME NEW i \in 1 .. Len(q) PROVE Listed[i].key # arg[w].key
      <4>1. j \notin 1 .. Len(q)
        BY <3>3, <3>4 DEF Chain
      <4>2. i \in 1 .. j - 1
        BY <3>4, <3>5, <4>1, PointersFinite
      <4> QED BY <3>4, <3>5, <4>2
    <3>7. Clears = {arg[w].key} /\ Clears' = {}
      <4>1. Clears = {arg[w].key}
        BY <1>1, OneClears
      <4>2. \A v \in Workers : pc'[v] \notin ClearPlaces
        BY <1>1, <1>2, <2>3 DEF WInv, WriterPlaces
      <4> QED BY <4>1, <4>2 DEF Clears, Clearing
    <3>8. Without(Listed, {}) = Listed /\ Without(Listed, Clears) = Listed
      <4>1. PICK s, K : s = Listed /\ K = Clears
        OBVIOUS
      <4>2. s \in Seq(Contents) /\ \A i \in 1 .. Len(s) : s[i].key \notin K
        BY <3>5, <3>6, <3>7, <4>1
      <4>3. Without(s, {}) = s /\ Without(s, K) = s
        BY <4>2, NothingTaken
      <4> QED BY <4>1, <4>3
    <3> QED BY <3>2, <3>7, <3>8 DEF Stored, Clears
  <2> QED BY <2>1, <2>2, <2>3
<1> QED BY <1>1, <1>3, <1>4 DEF Abstract!cvars, Lookups

\* The linked list under its lock does what the atomic cache does.
THEOREM Refinement == SafeSpec => ImplementsResponseCache
<1>1. Init => Abstract!CInit
  <2> SUFFICES ASSUME Init PROVE Abstract!CInit
    OBVIOUS
  <2>1. TypeOK /\ ListInv
    BY InitInv DEF IInv
  <2>2. \A w \in Workers : pc[w] = "idle"
    BY DEF Init
  <2>3. Clears = {}
    BY <2>2 DEF Clears, Clearing, ClearPlaces
  <2>4. Stored = <<>>
    <3>1. PICK q : ListOf(q, next, alive) /\ Meets(place, q) /\ Chain = 1 .. Len(q)
      BY <2>1, ListRead
    <3>2. alive = {} /\ q \in Seq(alive)
      BY <3>1 DEF Init, ListOf
    <3>3. Listed = Read(q) /\ Len(Read(q)) = 0 /\ Stored = Listed /\ Listed \in Seq(Contents)
      BY <2>1, <2>3, <3>1, <3>2, ListedIs, ReadType, AllStored
    <3> QED BY <3>3
  <2>5. Lookups = [w \in Workers |-> <<>>]
    BY <2>2 DEF Lookups, Lookup, EnterPlaces, ScanPlaces, LeavePlaces
  <2> QED BY <2>4, <2>5 DEF Abstract!CInit, Abstract!NoLookup, Lookups, Init
<1>2. FInv /\ [Next]_vars => [Abstract!CNext]_(Abstract!cvars)
  <2> SUFFICES ASSUME FInv, [Next]_vars
               PROVE  [Abstract!CNext]_(Abstract!cvars)
    OBVIOUS
  <2>1. ASSUME NEW w \in Workers, CallStep(w)
        PROVE  [Abstract!CNext]_(Abstract!cvars)
    BY <2>1, CallRefines
  <2>2. ASSUME NEW w \in Workers, ReadFromCache(w)
        PROVE  [Abstract!CNext]_(Abstract!cvars)
    <3>1. CASE Scan(w)
      BY <3>1, ScanRefines
    <3>2. CASE ReadUnlock(w)
      <4>1. At(w, "readUnlock", "readHead") \/ At(w, "leaveUnlock", "idle")
        BY <3>2 DEF ReadUnlock
      <4> QED BY <3>2, <4>1, LockRefines, ReturnRefines
    <3> QED BY <2>2, <3>1, <3>2, LockRefines DEF ReadFromCache
  <2>3. ASSUME NEW w \in Workers, writeToCache(w)
        PROVE  [Abstract!CNext]_(Abstract!cvars)
    <3>1. CASE WriterLock(w)
      <4>1. At(w, "writeLock", "new") \/ At(w, "clearLock", "clearHead")
        BY <3>1 DEF WriterLock
      <4> QED BY <3>1, <4>1, LockRefines, ClearRefines
    <3> QED BY <2>3, <3>1, LockRefines, WriteRefines DEF writeToCache
  <2>4. ASSUME NEW w \in Workers, clearAllInvalidCache(w)
        PROVE  [Abstract!CNext]_(Abstract!cvars)
    BY <2>4, ClearingStutters
  <2>5. CASE ClockStep \/ UNCHANGED vars
    <3>1. UNCHANGED <<next, content, pc, arg, found>>
      BY <2>5 DEF ClockStep, vars, list, local
    <3>2. Listed' = Listed
      BY <3>1, ListedSame
    <3>3. Stored' = Stored
      BY <3>1, <3>2 DEF Stored, Clearing
    <3>4. Lookups' = Lookups
      BY <3>1 DEF Lookups, Lookup
    <3>5. now' \in Nat \/ now' = now
      BY <2>5 DEF ClockStep, Times, vars
    <3> QED BY <3>3, <3>4, <3>5
            DEF Abstract!CNext, Abstract!ClockStep, Abstract!cvars, Lookups
  <2> QED BY <2>1, <2>2, <2>3, <2>4, <2>5 DEF Next, Body, Quiescent
<1> QED BY <1>1, <1>2, FInvariance, PTL DEF SafeSpec, ImplementsResponseCache, Abstract!CSpec
=============================================================================
