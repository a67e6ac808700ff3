------------------------------ MODULE GetHandler ------------------------------
(***************************************************************************)
(* The worker threads serving GET requests with GetHandler.cpp: the lookup *)
(* in the shared cache, the revalidation of an expired entry, the fetch    *)
(* from the origin and the store.  The three calls of the cache are atomic *)
(* here, which ImplementsResponseCache of module CacheRefinement           *)
(* justifies; everything a worker does between them interleaves with the   *)
(* other workers, with the origin changing its resources and with time.    *)
(*                                                                         *)
(* A key stands for a pair of host and uri.  A response is the version of  *)
(* the resource it carries, and what the handler's decisions depend on.    *)
(***************************************************************************)
EXTENDS Integers, Sequences, FiniteSets, SequencesExt, Entries

CONSTANTS
    Workers, Keys,
    Tagged,        \* the keys whose responses carry an ETag
    Lifetimes,     \* the times for which handleCache may store a response
    BodyEnds,      \* whether bodies arrive: {TRUE}, or BOOLEAN if origins break off
    MaxVersion,    \* bound of the model: changes of a resource
    MaxTime,       \* bound of the model: time and the clock stay in 0 .. MaxTime
    MaxSetBack     \* bound of the model: by how much the clock is set back in all

ASSUME GetHandlerAssumption ==
    /\ IsFiniteSet(Workers)
    /\ Tagged \subseteq Keys
    /\ Lifetimes \subseteq Nat /\ BodyEnds \subseteq BOOLEAN
    /\ MaxVersion \in Nat \ {0} /\ MaxTime \in Nat /\ MaxSetBack \in Nat

\* What handleCache decides for a response it does not store.
NotStored == -1

VARIABLES
    changes,   \* per key: when each version of the resource appeared
    now,       \* the time that has really passed; the program does not see it
    clock,     \* what time() returns: it runs with now, and may be set
    setBack,   \* by how much the clock has been set back so far
    entries,   \* the cache, from head to tail
    pc, req,   \* per worker: its place, the request it serves
    hit,       \* the result of ReadFromCache
    response   \* the response being relayed

time == <<now, clock, setBack>>
vars == <<changes, time, entries, pc, req, hit, response>>

Times == 0 .. MaxTime
SetBacks == 0 .. MaxSetBack
Versions == 1 .. MaxVersion
Version(k) == Len(changes[k])

\* An entity tag is a tuple, so that a tag within quotes is another tag.
NoTag == <<>>
Tag(v) == <<v>>
\* Mutant: the tag has its quotes already.
QuotedOnce(tag) == tag

Quoted(tag) == <<"quote">> \o tag \o <<"quote">>

\* asked is not in the program: the client set a condition of its own.
NoRequest == [key |-> "", inm |-> NoTag, garbled |-> FALSE, asked |-> FALSE]
NoResponse == [version |-> 0, status |-> "", full |-> FALSE,
               lifetime |-> NotStored, answered |-> 0]
NoGetResponse == [response |-> NoResponse, validTime |-> 0, writeTime |-> 0, eTag |-> NoTag,
                  stored |-> 0, setBack |-> 0]
Miss == [cs |-> "CS_CACHE_NOT_FOUND", gr |-> NoGetResponse]

Places == {"idle", "lookup", "sendCached", "validate", "confirm", "clear",
           "connect", "fetch", "body", "store"}

ResponseSet == [version : 0 .. MaxVersion, status : {"", "200", "304", "400"},
                full : BOOLEAN, lifetime : Lifetimes \cup {NotStored},
                answered : Times]
Tags == {NoTag} \cup {Tag(v) : v \in Versions}
\* writeTime is a reading of the clock.  Not in the program: when the response
\* was really stored, and by how much the clock had been set back by then.
GetResponses == [response : ResponseSet, validTime : Lifetimes \cup {0},
                 writeTime : Times, eTag : Tags, stored : Times, setBack : SetBacks]
\* by is not in the program: the worker that stored the entry.
Entry == [key : Keys, gr : GetResponses, by : Workers]
Requests == [key : Keys \cup {""}, inm : Tags \cup {Quoted(t) : t \in Tags},
             garbled : BOOLEAN, asked : BOOLEAN]
Hits == [cs : {"CS_CACHE_VALID", "CS_CACHE_NOT_FOUND", "CS_CACHE_NEED_REVALIDATE"},
         gr : GetResponses]

TypeOK ==
    /\ changes \in [Keys -> Seq(Times)]
    /\ \A k \in Keys : Version(k) \in Versions
    /\ now \in Times /\ clock \in Times /\ setBack \in SetBacks
    /\ entries \in Seq(Entry)
    /\ pc \in [Workers -> Places]
    /\ req \in [Workers -> Requests]
    /\ hit \in [Workers -> Hits]
    /\ response \in [Workers -> ResponseSet]

Init ==
    /\ changes = [k \in Keys |-> <<0>>]
    /\ now = 0 /\ clock = 0 /\ setBack = 0
    /\ entries = <<>>
    /\ pc = [w \in Workers |-> "idle"]
    /\ req = [w \in Workers |-> NoRequest]
    /\ hit = [w \in Workers |-> Miss]
    /\ response = [w \in Workers |-> NoResponse]

-----------------------------------------------------------------------------
(***************************************************************************)
(* The world outside the proxy.                                            *)
(***************************************************************************)
Tick ==
    /\ now < MaxTime /\ clock < MaxTime
    /\ now' = now + 1
    /\ clock' = clock + 1
    /\ UNCHANGED <<setBack, changes, entries, pc, req, hit, response>>

\* The clock of the host is set, in either direction.
SetClock ==
    /\ \E t \in Times \ {clock} :
         /\ clock' = t
         /\ setBack' = IF t < clock THEN setBack + (clock - t) ELSE setBack
    /\ setBack' <= MaxSetBack
    /\ UNCHANGED <<now, changes, entries, pc, req, hit, response>>

Change(k) ==
    /\ Version(k) < MaxVersion
    /\ changes' = [changes EXCEPT ![k] = Append(@, now)]
    /\ UNCHANGED <<time, entries, pc, req, hit, response>>

\* The status of the origin's answer to the request w has sent: a request
\* spoiled by uninitialised bytes is rejected, and a condition that names
\* the current version is answered without a body.
StatusFor(w) ==
    IF req[w].garbled THEN "400"
    ELSE IF req[w].inm = Tag(Version(req[w].key)) THEN "304" ELSE "200"

-----------------------------------------------------------------------------
(***************************************************************************)
(* handleGet and handleResponse.                                           *)
(***************************************************************************)
At(w, from, to) == pc[w] = from /\ pc' = [pc EXCEPT ![w] = to]

\* The locals of handleGet go out of scope.
Return(w) ==
    /\ req' = [req EXCEPT ![w] = NoRequest]
    /\ hit' = [hit EXCEPT ![w] = Miss]
    /\ response' = [response EXCEPT ![w] = NoResponse]

\* processHeader accepts a request.  A client that holds a version of a
\* tagged resource may ask for it on condition that it has changed.
ProcessHeader(w) ==
    /\ At(w, "idle", "lookup")
    /\ \E k \in Keys :
         \E t \in {NoTag} \cup {Tag(v) : v \in IF k \in Tagged THEN 1 .. Version(k) ELSE {}} :
            req' = [req EXCEPT ![w] = [key |-> k, inm |-> t, garbled |-> FALSE,
                                   asked |-> t # NoTag]]
    /\ UNCHANGED <<changes, time, entries, hit, response>>

timeDifference(before, after) == IF before > after THEN 0 ELSE after - before

\* Mutant: `<=' in place of `<'.
ValidTooLong(e) == timeDifference(e.gr.writeTime, clock) <= e.gr.validTime

Valid(e) == timeDifference(e.gr.writeTime, clock) < e.gr.validTime

\* The place of the entry of key k that is nearest to the head, or 0.
Found(s, k) == SelectInSeq(s, LAMBDA e : e.key = k)

ReadFromCache(w) ==
    LET i == Found(entries, req[w].key)
        cs == IF i = 0 THEN "CS_CACHE_NOT_FOUND"
              ELSE IF Valid(entries[i]) THEN "CS_CACHE_VALID" ELSE "CS_CACHE_NEED_REVALIDATE"
    IN  /\ hit' = [hit EXCEPT ![w] =
              IF i = 0 THEN Miss
              ELSE [cs |-> cs, gr |-> entries[i].gr]]
        /\ At(w, "lookup", CASE cs = "CS_CACHE_VALID" -> "sendCached"
                             [] cs = "CS_CACHE_NOT_FOUND" -> "connect"
                             [] cs = "CS_CACHE_NEED_REVALIDATE" -> "validate")
        /\ UNCHANGED <<changes, time, entries, req, response>>

sendCacheResponse(w) ==
    /\ At(w, "sendCached", "idle")
    /\ Return(w)
    /\ UNCHANGED <<changes, time, entries>>

\* handleETag adds the entry's tag to clientRequest unless the client sent a
\* condition of its own.  The tag was stored with its quotes and is quoted
\* again; the strcat that ends the line starts at the next zero of an
\* uninitialised buffer, so that other bytes may come in between.
AppendETag(w) ==
    IF hit[w].gr.eTag # NoTag /\ req[w].inm = NoTag
    THEN \E g \in BOOLEAN :
            req' = [req EXCEPT ![w].inm = Quoted(hit[w].gr.eTag), ![w].garbled = g]
    ELSE UNCHANGED req

\* The first half of handleETag.  A failing createClientFd makes it return 0.
SendCondition(w) ==
    /\ \/ At(w, "validate", "confirm")
       \/ At(w, "validate", "clear")
    /\ AppendETag(w)
    /\ UNCHANGED <<changes, time, entries, hit, response>>

\* The second half: the answer's status line decides.
Confirm(w) ==
    /\ At(w, "confirm", IF StatusFor(w) = "304" THEN "sendCached" ELSE "clear")
    /\ UNCHANGED <<changes, time, entries, req, hit, response>>

handleETag(w) == SendCondition(w) \/ Confirm(w)

\* Mutant: the expired entry stays in the cache.
ClearNothing(w) ==
    /\ At(w, "clear", "connect")
    /\ hit' = [hit EXCEPT ![w] = Miss]
    /\ UNCHANGED <<changes, time, entries, req, response>>

\* What the lookup returned is not looked at any more.
clearAllInvalidCache(w) ==
    /\ At(w, "clear", "connect")
    /\ entries' = Without(entries, {req[w].key})
    /\ hit' = [hit EXCEPT ![w] = Miss]
    /\ UNCHANGED <<changes, time, req, response>>

\* createClientFd fails: the client is sent a 504.
GatewayTimeout(w) ==
    /\ At(w, "connect", "idle")
    /\ Return(w)
    /\ UNCHANGED <<changes, time, entries>>

\* clientRequest, with whatever handleETag has added to it, is sent.
Connect(w) ==
    /\ At(w, "connect", "fetch")
    /\ UNCHANGED <<changes, time, entries, req, hit, response>>

\* handleResponseHeader: the origin answers and its header is relayed.  What
\* becomes of it in the cache depends on its Cache-Control lines alone, not on
\* the status.
FetchHeader(w) ==
    /\ At(w, "fetch", "body")
    /\ \E l \in Lifetimes \cup {NotStored} :
          response' = [response EXCEPT ![w] =
              [version |-> Version(req[w].key), status |-> StatusFor(w), full |-> FALSE,
               lifetime |-> l, answered |-> now]]
    /\ UNCHANGED <<changes, time, entries, req, hit>>

\* The framing contradicts itself: a 400 follows the relayed header.
FetchDiscard(w) ==
    /\ At(w, "fetch", "idle")
    /\ Return(w)
    /\ UNCHANGED <<changes, time, entries>>

\* handleResponseBody: the body is relayed whole, or the origin breaks off.
FetchBody(w) ==
    /\ At(w, "body", "store")
    /\ \E full \in BodyEnds : response' = [response EXCEPT ![w].full = full]
    /\ UNCHANGED <<changes, time, entries, req, hit>>

\* Mutant: the tag is stored within another pair of quotes.
getETagQuoted(w) ==
    IF req[w].key \in Tagged THEN Quoted(Tag(response[w].version)) ELSE NoTag

\* getETagIfAny takes the tag with its quotes.
getETagIfAny(w) ==
    IF req[w].key \in Tagged /\ response[w].status # "400"
    THEN Tag(response[w].version) ELSE NoTag

handleCache(w) ==
    /\ At(w, "store", "idle")
    /\ entries' =
          IF response[w].lifetime = NotStored THEN entries
          ELSE <<[key |-> req[w].key,
                  gr |-> [response |-> response[w], validTime |-> response[w].lifetime,
                          writeTime |-> clock, eTag |-> getETagIfAny(w),
                          stored |-> now, setBack |-> setBack],
                  by |-> w]>> \o entries
    /\ Return(w)
    /\ UNCHANGED <<changes, time>>

handleGet(w) ==
    \/ ReadFromCache(w) \/ sendCacheResponse(w) \/ handleETag(w)
    \/ clearAllInvalidCache(w) \/ GatewayTimeout(w) \/ Connect(w)
    \/ FetchHeader(w) \/ FetchDiscard(w) \/ FetchBody(w) \/ handleCache(w)

Next ==
    \/ Tick \/ SetClock
    \/ \E k \in Keys : Change(k)
    \/ \E w \in Workers : ProcessHeader(w) \/ handleGet(w)

Spec == Init /\ [][Next]_vars

-----------------------------------------------------------------------------
(***************************************************************************)
(* Properties.                                                             *)
(***************************************************************************)

\* The response with which a lookup answers that it is valid, and which is
\* sent without asking the origin, carries a version that was current no
\* longer ago than the lifetime its header grants, plus the time its own
\* transfer took, plus what the clock has been set back by since it was
\* stored.  Time is counted as it really passes; validity is decided by the
\* clock (Cache.cpp:54), and the difference is taken as 0 where the clock
\* stands before the writeTime (utilities.cpp:290).
StalenessBounded ==
    [][\A w \in Workers :
         pc[w] = "lookup" /\ pc'[w] = "sendCached" =>
            LET gr == hit'[w].gr
                history == changes[req[w].key]
                version == gr.response.version
            IN  version < Len(history) =>
                    now - history[version + 1]
                        < gr.validTime + (gr.stored - gr.response.answered)
                            + (setBack - gr.setBack)]_vars

\* However many workers miss a key at once, the cache never holds more
\* responses for it than there are workers: nothing else bounds the number
\* of entries, since none is ever evicted.
DuplicatesBounded ==
    \A k \in Keys :
        Cardinality({i \in DOMAIN entries : entries[i].key = k}) <= Cardinality(Workers)

\* README.md:240, "all fresh data is at the head of the linked list": of two
\* responses for the same key, the one nearer to the head, which lookups
\* find, is not older.
FreshAtHead ==
    \A i, j \in DOMAIN entries :
        i < j /\ entries[i].key = entries[j].key
            => entries[i].gr.response.version >= entries[j].gr.response.version

\* The origin answers a fetch with a 304 only when the client whose request
\* is served set a condition of its own: the one that handleETag adds for a
\* revalidation stays in clientRequest, and is sent again with the fetch when
\* the origin could not be reached before.  This is about the origin's answer
\* alone.  A 304 to one client's condition is stored like any response with a
\* lifetime, and sendCacheResponse then sends it to clients that set none.
NoUnasked304 ==
    \A w \in Workers : response[w].status = "304" => req[w].asked

=============================================================================
