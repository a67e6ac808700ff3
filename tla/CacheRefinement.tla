--------------------------- MODULE CacheRefinement ---------------------------
(***************************************************************************)
(* The linked list under its lock implements the atomic ResponseCache.     *)
(* The stored responses are read off the list from head to tail.  A write  *)
(* takes effect when head->next is set; a clear takes effect when it gets  *)
(* W, so the mapping hides the entries it has not deleted yet; a lookup    *)
(* takes effect when its search ends.                                      *)
(***************************************************************************)
EXTENDS Cache, Entries

\* The node reached from head in i steps.
place[i \in 0 .. Cardinality(Nodes) + 1] ==
    IF i = 0 THEN head
    ELSE IF place[i - 1] = tail THEN tail ELSE next[place[i - 1]]

Chain == {i \in 1 .. Cardinality(Nodes) : place[i] # tail}

Clearing(k) ==
    \E w \in Workers : pc[w] \in ClearPlaces /\ arg[w].key = k

Listed == [i \in Chain |-> content[place[i]]]

Stored == Without(Listed, {k \in Keys : Clearing(k)})

Lookup(w) ==
    CASE pc[w] \in EnterPlaces \cup ScanPlaces -> <<arg[w].key>>
      [] pc[w] \in LeavePlaces -> <<arg[w].key, found[w].cs, found[w].gr>>
      [] OTHER -> <<>>

Abstract == INSTANCE ResponseCache
    WITH entries <- Stored, lookup <- [w \in Workers |-> Lookup(w)],
         Responses <- {gr \in Responses : gr.size <= MAX_OBJECT_SIZE}

\* Every call of the cache appears to happen at one instant: a search finds
\* the newest response of its key and misses none, whatever other workers
\* write and clear meanwhile, and a clear leaves no response of its key.
ImplementsResponseCache == Abstract!CSpec

\* Outside a writer's critical section the list read forwards ends at tail
\* and holds exactly the allocated nodes (none leaked, none lost), and read
\* backwards it is the same list.
ListIntact ==
    (\A w \in Workers : pc[w] \notin WriterPlaces) =>
        /\ place[Cardinality(Nodes) + 1] = tail
        /\ {place[i] : i \in Chain} = alive
        /\ \A n \in alive \cup {head} : prev[next[n]] = n

\* Every call returns, once no further call arrives: no V is missing on any
\* path through the lock, and no search runs in circles.
CallsReturn == \A w \in Workers : pc[w] # "idle" ~> pc[w] = "idle"
=============================================================================
