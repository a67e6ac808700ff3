--------------------------------- MODULE Cache ---------------------------------
(***************************************************************************)
(* The in-memory cache of Cache.cpp: a doubly linked list between the      *)
(* sentinels head and tail, shared by all worker threads and guarded by    *)
(* the readers-favoring lock of two semaphores and a counter.              *)
(*                                                                         *)
(* A step is one semaphore operation, one access to numReader or one       *)
(* access to the list.  Nodes are the addresses `new Node' may return; the *)
(* ones in alive are allocated, and an address freed by deleteNode may be  *)
(* returned again.  A key stands for a pair of host and uri, a response    *)
(* for its size and the two fields its validity is computed from.          *)
(***************************************************************************)
EXTENDS Integers, Sequences, FiniteSets

CONSTANTS
    Workers, Keys, Nodes, head, tail,
    Sizes,          \* sizes of the responses that are written
    ValidTimes,     \* their validTime
    MAX_OBJECT_SIZE, MAX_CACHE_SIZE,
    MaxTime,        \* bound of the model: the clock stays in 0 .. MaxTime
    MaxCalls        \* bound of the model: calls made in a behaviour

ASSUME CacheAssumption ==
    /\ IsFiniteSet(Workers) /\ IsFiniteSet(Nodes)
    /\ head \notin Nodes /\ tail \notin Nodes /\ head # tail
    /\ Sizes \subseteq Nat /\ ValidTimes \subseteq Nat
    /\ MAX_OBJECT_SIZE \in Nat /\ MAX_CACHE_SIZE \in Nat
    /\ MaxTime \in Nat /\ MaxCalls \in Nat

Times == 0 .. MaxTime
Responses == [size : Sizes, validTime : ValidTimes, writeTime : Times]
\* A default-constructed GetResponse.
NoResponse == [size |-> 0, validTime |-> 0, writeTime |-> 0]

CacheStatus == {"CS_CACHE_VALID", "CS_CACHE_NOT_FOUND", "CS_CACHE_NEED_REVALIDATE"}

VARIABLES
    next, prev,   \* the pointers of the nodes and of the sentinels
    content,      \* what a node was constructed with
    alive,        \* the allocated nodes
    numReader, mutex, W,
    pc,           \* the statement each worker runs next
    arg,          \* the arguments of its call
    cur, node,    \* its local pointers
    found,        \* ReadFromCache's cs and gr
    now,          \* the clock
    calls         \* how many calls have been made

list == <<next, prev, content, alive>>
lock == <<numReader, mutex, W>>
local == <<arg, cur, node, found>>
vars == <<list, lock, pc, local, now, calls>>

Pointers == Nodes \cup {head, tail}
NoContent == [key |-> "", gr |-> NoResponse]
Contents == [key : Keys \cup {""}, gr : Responses \cup {NoResponse}]
Nothing == [cs |-> "CS_CACHE_NOT_FOUND", gr |-> NoResponse]

EnterPlaces == {"readLock", "readCount", "readFirst", "readUnlock"}
ScanPlaces == {"readHead", "scan"}
LeavePlaces == {"leaveLock", "leaveCount", "leaveLast", "leaveUnlock"}
WritePlaces == {"new", "linkBack", "linkFront"}
ClearPlaces == {"clearHead", "clearScan", "unlinkBack", "unlinkFront", "delete"}
\* Where a worker is inside the critical section that W protects.
WriterPlaces == WritePlaces \cup ClearPlaces \cup {"writerUnlock"}
Places == {"idle", "writeLock", "clearLock"}
          \cup EnterPlaces \cup ScanPlaces \cup LeavePlaces \cup WriterPlaces

TypeOK ==
    /\ next \in [Nodes \cup {head} -> Pointers]
    /\ prev \in [Nodes \cup {tail} -> Pointers]
    /\ content \in [Nodes -> Contents]
    /\ alive \subseteq Nodes
    /\ numReader \in Nat
    /\ mutex \in {0, 1}
    /\ W \in {0, 1}
    /\ pc \in [Workers -> Places]
    /\ arg \in [Workers -> Contents]
    /\ cur \in [Workers -> Pointers]
    /\ node \in [Workers -> Pointers]
    /\ found \in [Workers -> [cs : CacheStatus, gr : Responses \cup {NoResponse}]]
    /\ now \in Times
    /\ calls \in Nat

Init ==
    /\ next = [n \in Nodes \cup {head} |-> tail]
    /\ prev = [n \in Nodes \cup {tail} |-> head]
    /\ content = [n \in Nodes |-> NoContent]
    /\ alive = {}
    /\ numReader = 0
    /\ mutex = 1
    /\ W = 1
    /\ pc = [w \in Workers |-> "idle"]
    /\ arg = [w \in Workers |-> NoContent]
    /\ cur = [w \in Workers |-> head]
    /\ node = [w \in Workers |-> head]
    /\ found = [w \in Workers |-> Nothing]
    /\ now = 0
    /\ calls = 0

At(w, from, to) == pc[w] = from /\ pc' = [pc EXCEPT ![w] = to]

\* A call that returns takes its local variables with it.
LocalsGone(w) ==
    /\ arg' = [arg EXCEPT ![w] = NoContent]
    /\ cur' = [cur EXCEPT ![w] = head]
    /\ node' = [node EXCEPT ![w] = head]
    /\ found' = [found EXCEPT ![w] = Nothing]

-----------------------------------------------------------------------------
(***************************************************************************)
(* The calls a worker makes.                                               *)
(***************************************************************************)
Call(w, place, k, gr) ==
    /\ calls < MaxCalls
    /\ calls' = calls + 1
    /\ At(w, "idle", place)
    /\ arg' = [arg EXCEPT ![w] = [key |-> k, gr |-> gr]]
    /\ UNCHANGED <<list, lock, cur, node, now>>

CallRead(w) ==
    /\ \E k \in Keys : Call(w, "readLock", k, NoResponse)
    /\ found' = [found EXCEPT ![w] = Nothing]

\* Bound of the model: memory does not run out before `new Node'.
RoomForNode ==
    Cardinality(alive) + Cardinality({w \in Workers : pc[w] \in {"writeLock", "new"}})
        < Cardinality(Nodes)

CallWrite(w) ==
    /\ RoomForNode
    /\ \E k \in Keys, s \in Sizes, v \in ValidTimes :
          Call(w, "writeLock", k, [size |-> s, validTime |-> v, writeTime |-> now])
    /\ UNCHANGED found

CallClear(w) ==
    /\ \E k \in Keys : Call(w, "clearLock", k, NoResponse)
    /\ UNCHANGED found

-----------------------------------------------------------------------------
(***************************************************************************)
(* ReadFromCache.                                                          *)
(***************************************************************************)
ReadLock(w) ==
    /\ mutex = 1
    /\ mutex' = 0
    /\ \/ At(w, "readLock", "readCount")
       \/ At(w, "leaveLock", "leaveCount")
    /\ UNCHANGED <<list, numReader, W, local, now, calls>>

ReadCount(w) ==
    /\ \/ At(w, "readCount", "readFirst") /\ numReader' = numReader + 1
       \/ At(w, "leaveCount", "leaveLast") /\ numReader' = numReader - 1
    /\ UNCHANGED <<list, mutex, W, local, now, calls>>

\* Mutant: the first reader does not wait for the writer.
ReadFirstUnguarded(w) ==
    /\ At(w, "readFirst", "readUnlock")
    /\ UNCHANGED <<list, lock, local, now, calls>>

\* The first reader waits for the writer while it holds mutex.
ReadFirst(w) ==
    /\ At(w, "readFirst", "readUnlock")
    /\ IF numReader = 1 THEN W = 1 /\ W' = 0 ELSE W' = W
    /\ UNCHANGED <<list, numReader, mutex, local, now, calls>>

\* Mutant: every reader that leaves releases W, not only the last one.
LeaveEach(w) ==
    /\ At(w, "leaveLast", "leaveUnlock")
    /\ W' = W + 1
    /\ UNCHANGED <<list, numReader, mutex, local, now, calls>>

\* Mutant: the last reader forgets to release W.
LeaveForgotten(w) ==
    /\ At(w, "leaveLast", "leaveUnlock")
    /\ UNCHANGED <<list, lock, local, now, calls>>

LeaveLast(w) ==
    /\ At(w, "leaveLast", "leaveUnlock")
    /\ W' = IF numReader = 0 THEN W + 1 ELSE W
    /\ UNCHANGED <<list, numReader, mutex, local, now, calls>>

ReadUnlock(w) ==
    /\ mutex' = mutex + 1
    /\ \/ At(w, "readUnlock", "readHead") /\ UNCHANGED local
       \/ At(w, "leaveUnlock", "idle") /\ LocalsGone(w)
    /\ UNCHANGED <<list, numReader, W, now, calls>>

ReadHead(w) ==
    /\ \/ At(w, "readHead", "scan")
       \/ At(w, "clearHead", "clearScan")
    /\ cur' = [cur EXCEPT ![w] = next[head]]
    /\ UNCHANGED <<list, lock, arg, node, found, now, calls>>

timeDifference(before, after) == IF before > after THEN 0 ELSE after - before

\* Mutant: host and uri are not compared.
MatchesAny(w) == content[cur[w]].key \in Keys /\ arg[w].key \in Keys

Matches(w) == content[cur[w]].key = arg[w].key

\* One round of the search; the clock is read when the entry is found.
Scan(w) ==
    /\ pc[w] = "scan"
    /\ IF cur[w] = tail
       THEN At(w, "scan", "leaveLock") /\ UNCHANGED <<cur, found>>
       ELSE IF Matches(w)
       THEN LET gr == content[cur[w]].gr
                valid == timeDifference(gr.writeTime, now) < gr.validTime
            IN  /\ At(w, "scan", "leaveLock")
                /\ found' = [found EXCEPT ![w] =
                      [cs |-> IF valid THEN "CS_CACHE_VALID" ELSE "CS_CACHE_NEED_REVALIDATE",
                       gr |-> gr]]
                /\ UNCHANGED cur
       ELSE /\ At(w, "scan", "scan")
            /\ cur' = [cur EXCEPT ![w] = next[cur[w]]]
            /\ UNCHANGED found
    /\ UNCHANGED <<list, lock, arg, node, now, calls>>

ReadFromCache(w) ==
    \/ ReadLock(w) \/ ReadCount(w) \/ ReadFirst(w) \/ ReadUnlock(w)
    \/ ReadHead(w) \/ Scan(w) \/ LeaveLast(w)

-----------------------------------------------------------------------------
(***************************************************************************)
(* writeToCache and addNode.                                               *)
(***************************************************************************)
WriterLock(w) ==
    /\ W = 1
    /\ W' = 0
    /\ \/ At(w, "writeLock", "new")
       \/ At(w, "clearLock", "clearHead")
    /\ UNCHANGED <<list, numReader, mutex, local, now, calls>>

\* The constructor's value: no statement of the program changes totalSize.
totalSize == 0

TooLarge(gr) ==
    gr.size > MAX_OBJECT_SIZE \/ gr.size + totalSize > MAX_CACHE_SIZE

NewNode(w) ==
    /\ IF TooLarge(arg[w].gr)
       THEN At(w, "new", "writerUnlock") /\ UNCHANGED <<list, node>>
       ELSE \E n \in Nodes \ alive :
              /\ At(w, "new", "linkBack")
              /\ alive' = alive \cup {n}
              /\ content' = [content EXCEPT ![n] = arg[w]]
              /\ next' = [next EXCEPT ![n] = next[head]]
              /\ prev' = [prev EXCEPT ![n] = head]
              /\ node' = [node EXCEPT ![w] = n]
    /\ UNCHANGED <<lock, arg, cur, found, now, calls>>

LinkBack(w) ==
    /\ At(w, "linkBack", "linkFront")
    /\ prev' = [prev EXCEPT ![next[head]] = node[w]]
    /\ UNCHANGED <<next, content, alive, lock, local, now, calls>>

\* Mutant: addNode links the new node from behind only.
LinkFrontForgotten(w) ==
    /\ At(w, "linkFront", "writerUnlock")
    /\ UNCHANGED <<list, lock, local, now, calls>>

LinkFront(w) ==
    /\ At(w, "linkFront", "writerUnlock")
    /\ next' = [next EXCEPT ![head] = node[w]]
    /\ UNCHANGED <<prev, content, alive, lock, local, now, calls>>

WriterUnlock(w) ==
    /\ At(w, "writerUnlock", "idle")
    /\ W' = W + 1
    /\ LocalsGone(w)
    /\ UNCHANGED <<list, numReader, mutex, now, calls>>

writeToCache(w) ==
    WriterLock(w) \/ NewNode(w) \/ LinkBack(w) \/ LinkFront(w) \/ WriterUnlock(w)

-----------------------------------------------------------------------------
(***************************************************************************)
(* clearAllInvalidCache and deleteNode; their lock operations and the      *)
(* first access to the list are WriterLock, ReadHead and WriterUnlock.     *)
(***************************************************************************)
ClearScan(w) ==
    /\ pc[w] = "clearScan"
    /\ IF cur[w] = tail
       THEN At(w, "clearScan", "writerUnlock") /\ UNCHANGED <<cur, node>>
       ELSE /\ cur' = [cur EXCEPT ![w] = next[cur[w]]]
            /\ IF Matches(w)
               THEN /\ At(w, "clearScan", "unlinkBack")
                    /\ node' = [node EXCEPT ![w] = prev[next[cur[w]]]]
               ELSE At(w, "clearScan", "clearScan") /\ UNCHANGED node
    /\ UNCHANGED <<list, lock, arg, found, now, calls>>

UnlinkBack(w) ==
    /\ At(w, "unlinkBack", "unlinkFront")
    /\ prev' = [prev EXCEPT ![next[node[w]]] = prev[node[w]]]
    /\ UNCHANGED <<next, content, alive, lock, local, now, calls>>

\* Mutant: deleteNode leaves the pointer of the predecessor.
UnlinkFrontForgotten(w) ==
    /\ At(w, "unlinkFront", "delete")
    /\ UNCHANGED <<list, lock, local, now, calls>>

UnlinkFront(w) ==
    /\ At(w, "unlinkFront", "delete")
    /\ next' = [next EXCEPT ![prev[node[w]]] = next[node[w]]]
    /\ UNCHANGED <<prev, content, alive, lock, local, now, calls>>

Delete(w) ==
    /\ At(w, "delete", "clearScan")
    /\ alive' = alive \ {node[w]}
    /\ UNCHANGED <<next, prev, content, lock, local, now, calls>>

clearAllInvalidCache(w) ==
    ClearScan(w) \/ UnlinkBack(w) \/ UnlinkFront(w) \/ Delete(w)

-----------------------------------------------------------------------------
\* time() may be set in either direction between two calls.
ClockStep ==
    /\ now' \in Times \ {now}
    /\ UNCHANGED <<list, lock, pc, local, calls>>

Returned == \A w \in Workers : pc[w] = "idle"

Quiescent == calls = MaxCalls /\ Returned /\ UNCHANGED vars

CallStep(w) == CallRead(w) \/ CallWrite(w) \/ CallClear(w)
Body(w) == ReadFromCache(w) \/ writeToCache(w) \/ clearAllInvalidCache(w)

Next ==
    \/ \E w \in Workers : CallStep(w) \/ Body(w)
    \/ ClockStep
    \/ Quiescent

SafeSpec == Init /\ [][Next]_vars

\* The scheduler runs every thread that can run; nothing makes it call.
Spec == SafeSpec /\ \A w \in Workers : WF_vars(Body(w))

-----------------------------------------------------------------------------
(***************************************************************************)
(* Properties.                                                             *)
(***************************************************************************)

\* While a writer is in its critical section it is alone there, and no
\* reader walks the list (numReader, mutex and W of Cache.h:53-66).
WriterIsAlone ==
    \A v, w \in Workers :
        v # w /\ pc[v] \in WriterPlaces => pc[w] \notin WriterPlaces \cup ScanPlaces

\* No thread follows a pointer to a node that deleteNode has freed: neither
\* a search, nor the rest of a clear whose cursor stands behind the node it
\* deletes, nor the list itself.
NoFreedNodeReached ==
    /\ \A w \in Workers :
          pc[w] \in {"scan", "clearScan", "unlinkBack", "unlinkFront", "delete"}
              => cur[w] \in alive \cup {tail}
    /\ \A w \in Workers :
          pc[w] \in {"linkBack", "linkFront", "unlinkBack", "unlinkFront", "delete"}
              => node[w] \in alive
    /\ \A n \in alive \cup {head} : next[n] \in alive \cup {tail}
    /\ \A n \in alive \cup {tail} : prev[n] \in alive \cup {head}
=============================================================================
