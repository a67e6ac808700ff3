---------------------------- MODULE GetHandlerProofs ----------------------------
(***************************************************************************)
(* Proofs about the GET handler, for any number of workers, keys, versions *)
(* and instants.                                                           *)
(***************************************************************************)
EXTENDS GetHandler, TLAPS, WellFoundedInduction, FiniteSetTheorems, SequenceTheorems

\* Names for sets of numbers and for the clocks.
USE DEF Times, SetBacks, time

\* The response r carries a version that was current when it was answered:
\* of the history h, at time t, the next version appeared no earlier.
Current(h, t, r) ==
    /\ r.version \in 1 .. Len(h)
    /\ r.answered <= t
    /\ r.version < Len(h) => r.answered <= h[r.version + 1]

\* How far the clock would be ahead of the time that has passed, had it never
\* been set back.
Ahead == clock + setBack - now

\* The stored response gr, when the clock is a ahead: since it was stored, the
\* clock has lost no more than it was set back by.
StoredOf(h, t, a, gr) ==
    /\ Current(h, t, gr.response)
    /\ gr.response.answered <= gr.stored
    /\ gr.writeTime + gr.setBack - gr.stored <= a

HistoryInv == \A k \in Keys : \A i \in DOMAIN changes[k] : changes[k][i] <= now

EntryInv ==
    \A i \in DOMAIN entries : StoredOf(changes[entries[i].key], now, Ahead, entries[i].gr)

\* The locals of a worker that serves no request, or has no answer yet.
PlaceInv ==
    \A w \in Workers :
        /\ pc[w] # "idle" => req[w].key \in Keys
        /\ pc[w] \notin {"body", "store"} => response[w].status # "304"

ResponseInv ==
    \A w \in Workers :
        pc[w] \in {"body", "store"} => Current(changes[req[w].key], now, response[w])

\* A condition the client has not set carries two pairs of quotes.
ConditionInv ==
    \A w \in Workers :
        req[w].asked \/ req[w].inm = NoTag \/ \E t \in Tags : req[w].inm = Quoted(t)

\* Of the entries for a key no two are of the same worker, and a worker on
\* its way to another store has none.
OwnInv ==
    /\ \A i, j \in DOMAIN entries :
          i # j /\ entries[i].key = entries[j].key => entries[i].by # entries[j].by
    /\ \A w \in Workers : pc[w] \in {"connect", "fetch", "body", "store"} =>
          \A i \in DOMAIN entries : entries[i].key = req[w].key => entries[i].by # w

IInv ==
    /\ TypeOK /\ HistoryInv /\ EntryInv /\ PlaceInv /\ ResponseInv
    /\ ConditionInv /\ OwnInv /\ NoUnasked304

-----------------------------------------------------------------------------
(***************************************************************************)
(* Searches in the list and deletions from it.                             *)
(***************************************************************************)
LEMMA LeastExists ==
    ASSUME NEW S \in SUBSET Nat, S # {}
    PROVE  \E m \in S : \A n \in S : m <= n
<1>1. PICK m \in S : \A n \in S : ~(<<n, m>> \in OpToRel(<, Nat))
  BY NatLessThanWellFounded, WFMin
<1>2. \A n \in Nat : <<n, m>> \in OpToRel(<, Nat) <=> n < m
  BY DEF OpToRel
<1>3. \A n \in S : ~(n < m)
  BY <1>1, <1>2
<1>4. \A n \in S : n \in Nat
  OBVIOUS
<1> QED BY <1>3, <1>4

LEMMA MinIsLeast ==
    ASSUME NEW S \in SUBSET Nat, S # {}
    PROVE  Min(S) \in S /\ \A n \in S : Min(S) <= n
BY LeastExists DEF Min

\* Induction up to n, over the set of the numbers for which it holds.
LEMMA CountUp ==
    ASSUME NEW n \in Nat, NEW S, 0 \in S, \A i \in 1 .. n : i - 1 \in S => i \in S
    PROVE  n \in S
<1> DEFINE T == {i \in 0 .. n : i \notin S}
<1>1. SUFFICES ASSUME T # {} PROVE FALSE
  BY n \in 0 .. n
<1>2. T \in SUBSET Nat
  OBVIOUS
<1> HIDE DEF T
<1>3. PICK m \in T : \A i \in T : m <= i
  BY <1>1, <1>2, LeastExists
<1>4. m \in 1 .. n /\ m - 1 \notin T
  BY <1>2, <1>3 DEF T
<1> QED BY <1>4, <1>3 DEF T

LEMMA FirstOfKey ==
    ASSUME NEW s \in Seq(Entry), NEW k
    PROVE  \/ Found(s, k) = 0 /\ \A j \in DOMAIN s : s[j].key # k
           \/ Found(s, k) \in DOMAIN s /\ s[Found(s, k)].key = k
<1> DEFINE I == {i \in 1 .. Len(s) : s[i].key = k}
<1>1. I \in SUBSET Nat
  OBVIOUS
<1>2. I # {} => Min(I) \in I
  BY <1>1, MinIsLeast
<1> QED BY <1>2 DEF Found, SelectInSeq

\* The first n elements of s without the entries for the keys in K.
Kept(s, K, t, n) ==
    /\ t \in Seq(Entry)
    /\ \A i \in DOMAIN t : t[i].key \notin K /\ \E a \in 1 .. n : t[i] = s[a]
    /\ \A i, j \in DOMAIN t : i < j =>
          \E a, b \in 1 .. n : a < b /\ t[i] = s[a] /\ t[j] = s[b]

LEMMA KeptMore ==
    ASSUME NEW s \in Seq(Entry), NEW K, NEW n \in 1 .. Len(s), NEW t, Kept(s, K, t, n - 1)
    PROVE  Kept(s, K, IF s[n].key \in K THEN t ELSE Append(t, s[n]), n)
<1>1. CASE s[n].key \in K
  BY <1>1 DEF Kept
<1>2. CASE s[n].key \notin K
  <2> DEFINE u == Append(t, s[n])
  <2>1. /\ s[n] \in Entry /\ t \in Seq(Entry) /\ u \in Seq(Entry)
        /\ Len(u) = Len(t) + 1 /\ u[Len(u)] = s[n] /\ \A i \in 1 .. Len(t) : u[i] = t[i]
        /\ DOMAIN u = 1 .. Len(u) /\ DOMAIN t = 1 .. Len(t) /\ Len(t) \in Nat
    BY DEF Kept
  <2> HIDE DEF u
  <2>2. \A i \in DOMAIN u : u[i].key \notin K /\ \E a \in 1 .. n : u[i] = s[a]
    BY <1>2, <2>1 DEF Kept
  <2>3. ASSUME NEW i \in DOMAIN u, NEW j \in DOMAIN u, i < j
        PROVE  \E a, b \in 1 .. n : a < b /\ u[i] = s[a] /\ u[j] = s[b]
    <3>1. CASE j = Len(u)
      BY <2>1, <2>3, <3>1 DEF Kept
    <3>2. CASE j # Len(u)
      <4>1. i \in 1 .. Len(t) /\ j \in 1 .. Len(t) /\ u[i] = t[i] /\ u[j] = t[j]
        BY <2>1, <2>3, <3>2
      <4>2. PICK a \in 1 .. n - 1, b \in 1 .. n - 1 : a < b /\ t[i] = s[a] /\ t[j] = s[b]
        BY <4>1, <2>1, <2>3 DEF Kept
      <4>3. a \in 1 .. n /\ b \in 1 .. n
        OBVIOUS
      <4> QED BY <4>1, <4>2, <4>3
    <3> QED BY <3>1, <3>2
  <2>4. Kept(s, K, u, n)
    BY <2>1, <2>2, <2>3 DEF Kept
  <2> QED BY <1>2, <2>4 DEF u
<1> QED BY <1>1, <1>2

\* The loop of Without defines a function, up to any place of the list.
LoopOf(s, K, g, n) ==
    g = [i \in 0 .. n |->
           IF i = 0 THEN <<>>
           ELSE IF s[i].key \in K THEN g[i - 1] ELSE Append(g[i - 1], s[i])]

LEMMA LoopExists ==
    ASSUME NEW s \in Seq(Entry), NEW K
    PROVE  \E g : LoopOf(s, K, g, Len(s))
<1> DEFINE S == {n \in 0 .. Len(s) : \E g : LoopOf(s, K, g, n)}
<1>1. 0 \in S
  <2>1. LoopOf(s, K, [i \in 0 .. 0 |-> <<>>], 0)
    BY DEF LoopOf
  <2> QED BY <2>1
<1>2. ASSUME NEW n \in 1 .. Len(s), n - 1 \in S PROVE n \in S
  <2>1. PICK g : LoopOf(s, K, g, n - 1)
    BY <1>2
  <2> DEFINE h == [i \in 0 .. n |->
                     IF i = n THEN IF s[n].key \in K THEN g[n - 1] ELSE Append(g[n - 1], s[n])
                     ELSE g[i]]
  <2>2. \A i \in 0 .. n - 1 : h[i] = g[i]
    OBVIOUS
  <2>3. h[n] = IF s[n].key \in K THEN h[n - 1] ELSE Append(h[n - 1], s[n])
    BY <2>2
  <2>4. \A i \in 0 .. n - 1 : g[i] = IF i = 0 THEN <<>>
             ELSE IF s[i].key \in K THEN g[i - 1] ELSE Append(g[i - 1], s[i])
    BY <2>1 DEF LoopOf
  <2>5. \A i \in 0 .. n - 1 : h[i] = IF i = 0 THEN <<>>
             ELSE IF s[i].key \in K THEN h[i - 1] ELSE Append(h[i - 1], s[i])
    BY <2>2, <2>4
  <2>6. h = [i \in 0 .. n |-> h[i]]
    OBVIOUS
  <2> HIDE DEF h
  <2>7. \A i \in 0 .. n : h[i] = IF i = 0 THEN <<>>
             ELSE IF s[i].key \in K THEN h[i - 1] ELSE Append(h[i - 1], s[i])
    BY <2>3, <2>5
  <2>8. LoopOf(s, K, h, n)
    BY <2>6, <2>7 DEF LoopOf
  <2> QED BY <2>8
<1> HIDE DEF S
<1>3. Len(s) \in S
  <2>1. Len(s) \in Nat /\ \A n \in 1 .. Len(s) : n - 1 \in S => n \in S
    BY <1>2
  <2> QED BY <1>1, <2>1, CountUp
<1> QED BY <1>3 DEF S

LEMMA WithoutKeeps ==
    ASSUME NEW s \in Seq(Entry), NEW K
    PROVE  Kept(s, K, Without(s, K), Len(s))
<1> DEFINE g == CHOOSE g : LoopOf(s, K, g, Len(s))
           S == {n \in 0 .. Len(s) : Kept(s, K, g[n], n)}
<1>1. Without(s, K) = g[Len(s)]
  BY DEF Without, LoopOf
<1>2. LoopOf(s, K, g, Len(s))
  BY LoopExists
<1> HIDE DEF g
<1>i. \A i \in 0 .. Len(s) : g[i] = IF i = 0 THEN <<>>
             ELSE IF s[i].key \in K THEN g[i - 1] ELSE Append(g[i - 1], s[i])
  BY <1>2 DEF LoopOf
<1>3. 0 \in S
  <2>1. Kept(s, K, <<>>, 0)
    BY DEF Kept
  <2> QED BY <1>i, <2>1
<1>4. ASSUME NEW n \in 1 .. Len(s), n - 1 \in S PROVE n \in S
  <2>1. Kept(s, K, g[n - 1], n - 1)
    BY <1>4
  <2>2. g[n] = IF s[n].key \in K THEN g[n - 1] ELSE Append(g[n - 1], s[n])
    BY <1>i
  <2>3. Kept(s, K, g[n], n)
    BY <2>1, <2>2, KeptMore
  <2> QED BY <2>3
<1> HIDE DEF S
<1>5. Len(s) \in S
  <2>1. Len(s) \in Nat /\ \A n \in 1 .. Len(s) : n - 1 \in S => n \in S
    BY <1>4
  <2> QED BY <1>3, <2>1, CountUp
<1> QED BY <1>1, <1>5 DEF S

\* What the proofs below use of Without.
LEMMA WithoutProperties ==
    ASSUME NEW s \in Seq(Entry), NEW K
    PROVE  /\ Without(s, K) \in Seq(Entry)
           /\ \A i \in DOMAIN Without(s, K) :
                 /\ Without(s, K)[i].key \notin K
                 /\ \E a \in DOMAIN s : Without(s, K)[i] = s[a]
           /\ \A i, j \in DOMAIN Without(s, K) : i # j =>
                 \E a, b \in DOMAIN s :
                    a # b /\ Without(s, K)[i] = s[a] /\ Without(s, K)[j] = s[b]
<1>1. Kept(s, K, Without(s, K), Len(s))
  BY WithoutKeeps
<1>2. DOMAIN s = 1 .. Len(s)
  OBVIOUS
<1>3. DOMAIN Without(s, K) \in SUBSET Int
  BY <1>1 DEF Kept
<1>4. ASSUME NEW i \in DOMAIN Without(s, K), NEW j \in DOMAIN Without(s, K), i # j
      PROVE  \E a, b \in DOMAIN s :
                a # b /\ Without(s, K)[i] = s[a] /\ Without(s, K)[j] = s[b]
  <2>1. i < j \/ j < i
    BY <1>3, <1>4
  <2>2. CASE i < j
    <3>1. PICK a \in 1 .. Len(s), b \in 1 .. Len(s) :
             a < b /\ Without(s, K)[i] = s[a] /\ Without(s, K)[j] = s[b]
      BY <1>1, <2>2 DEF Kept
    <3> QED BY <1>2, <3>1
  <2>3. CASE j < i
    <3>1. PICK a \in 1 .. Len(s), b \in 1 .. Len(s) :
             a < b /\ Without(s, K)[j] = s[a] /\ Without(s, K)[i] = s[b]
      BY <1>1, <2>3 DEF Kept
    <3> QED BY <1>2, <3>1
  <2> QED BY <2>1, <2>2, <2>3
<1> QED BY <1>1, <1>2, <1>4 DEF Kept

-----------------------------------------------------------------------------
(***************************************************************************)
(* Types.                                                                  *)
(***************************************************************************)
LEMMA ResponseTypes ==
    /\ NoResponse \in ResponseSet
    /\ NoGetResponse \in GetResponses
    /\ Miss \in Hits
    /\ NoRequest \in Requests
<1>1. NoResponse \in ResponseSet
  BY GetHandlerAssumption DEF NoResponse, ResponseSet
<1>2. NoGetResponse \in GetResponses
  BY <1>1, GetHandlerAssumption DEF NoGetResponse, GetResponses, Tags
<1>3. Miss \in Hits
  BY <1>2, GetHandlerAssumption DEF Miss, Hits
<1>4. NoRequest \in Requests
  BY DEF NoRequest, Requests, Tags
<1> QED BY <1>1, <1>2, <1>3, <1>4

LEMMA InitInv == Init => IInv
<1> SUFFICES ASSUME Init PROVE IInv
  OBVIOUS
<1>1. TypeOK
  <2>1. changes \in [Keys -> Seq(Times)] /\ \A k \in Keys : Version(k) \in Versions
    BY GetHandlerAssumption DEF Init, Version, Versions
  <2>2. entries \in Seq(Entry) /\ now \in Times /\ clock \in Times /\ setBack \in SetBacks
    BY GetHandlerAssumption DEF Init
  <2> QED BY <2>1, <2>2, ResponseTypes DEF Init, TypeOK, Places
<1>2. HistoryInv /\ EntryInv /\ OwnInv
  BY DEF Init, HistoryInv, EntryInv, OwnInv
<1>3. PlaceInv /\ ResponseInv /\ ConditionInv /\ NoUnasked304
  BY DEF Init, PlaceInv, ResponseInv, ConditionInv, NoUnasked304, Miss, NoRequest,
     NoResponse
<1> QED BY <1>1, <1>2, <1>3 DEF IInv

\* The entry handleCache puts in front.
Stored(w) == [key |-> req[w].key,
              gr |-> [response |-> response[w], validTime |-> response[w].lifetime,
                      writeTime |-> clock, eTag |-> getETagIfAny(w),
                      stored |-> now, setBack |-> setBack],
              by |-> w]

LEMMA StoredTypes ==
    ASSUME IInv, NEW w \in Workers, pc[w] = "store", response[w].lifetime # NotStored
    PROVE  Stored(w) \in Entry
<1>1. req[w].key \in Keys /\ Current(changes[req[w].key], now, response[w])
  BY DEF IInv, PlaceInv, ResponseInv
<1>2. /\ response[w] \in ResponseSet /\ now \in Times /\ clock \in Times /\ setBack \in SetBacks
      /\ Version(req[w].key) \in 1 .. MaxVersion
  BY <1>1 DEF IInv, TypeOK, Versions
<1>3. response[w].version \in Versions
  BY <1>1, <1>2, GetHandlerAssumption DEF Current, Version, Versions
<1>4. getETagIfAny(w) \in Tags
  BY <1>3 DEF getETagIfAny, Tags
<1>5. response[w].lifetime \in Lifetimes
  BY <1>2 DEF ResponseSet
<1>6. [response |-> response[w], validTime |-> response[w].lifetime,
       writeTime |-> clock, eTag |-> getETagIfAny(w),
       stored |-> now, setBack |-> setBack] \in GetResponses
  BY <1>2, <1>4, <1>5 DEF GetResponses
<1> QED BY <1>1, <1>6 DEF Entry, Stored

-----------------------------------------------------------------------------
(***************************************************************************)
(* The type invariant, step by step.                                       *)
(***************************************************************************)
LEMMA TypeStep ==
    ASSUME IInv, [Next]_vars
    PROVE  TypeOK'
<1> USE DEF At, Return
<1>a. /\ TypeOK
      /\ \A w \in Workers : pc[w] \in Places /\ req[w] \in Requests /\ hit[w] \in Hits
                            /\ response[w] \in ResponseSet
      /\ now \in Times /\ clock \in Times /\ setBack \in SetBacks
      /\ MaxTime \in Nat /\ MaxSetBack \in Nat
  BY GetHandlerAssumption DEF IInv, TypeOK
<1>1. CASE UNCHANGED vars
  BY <1>1, <1>a DEF TypeOK, vars, Version
<1>2. CASE Tick \/ SetClock
  BY <1>2, <1>a DEF Tick, SetClock, TypeOK, Version
<1>3. ASSUME NEW k \in Keys, Change(k) PROVE TypeOK'
  <2>1. /\ changes' \in [Keys -> Seq(Times)]
        /\ \A j \in Keys : Version(j)' = Version(j) \/ (j = k /\ Version(j)' = Version(j) + 1)
    <3>1. changes[k] \in Seq(Times) /\ changes \in [Keys -> Seq(Times)]
      BY <1>a DEF TypeOK
    <3>2. Append(changes[k], now) \in Seq(Times)
          /\ Len(Append(changes[k], now)) = Len(changes[k]) + 1
      BY <1>a, <3>1
    <3>3. changes' = [changes EXCEPT ![k] = Append(changes[k], now)]
      BY <1>3 DEF Change
    <3>4. changes'[k] = Append(changes[k], now) /\ \A j \in Keys : j # k => changes'[j] = changes[j]
      BY <3>1, <3>3
    <3>5. changes' \in [Keys -> Seq(Times)]
      BY <3>1, <3>2, <3>3
    <3>6. Version(k)' = Version(k) + 1 /\ \A j \in Keys : j # k => Version(j)' = Version(j)
      BY <3>2, <3>4 DEF Version
    <3> QED BY <3>5, <3>6
  <2>2. \A j \in Keys : Version(j)' \in Versions
    BY <1>3, <1>a, <2>1, GetHandlerAssumption DEF Change, TypeOK, Versions
  <2> QED BY <1>3, <1>a, <2>1, <2>2 DEF Change, TypeOK
<1>4. ASSUME NEW w \in Workers, ProcessHeader(w) PROVE TypeOK'
  <2>1. PICK k \in Keys :
           \E t \in {NoTag} \cup {Tag(v) : v \in IF k \in Tagged THEN 1 .. Version(k) ELSE {}} :
              req' = [req EXCEPT ![w] = [key |-> k, inm |-> t, garbled |-> FALSE,
                                         asked |-> t # NoTag]]
    BY <1>4 DEF ProcessHeader
  <2>t. PICK t \in {NoTag} \cup {Tag(v) : v \in IF k \in Tagged THEN 1 .. Version(k) ELSE {}} :
           req' = [req EXCEPT ![w] = [key |-> k, inm |-> t, garbled |-> FALSE,
                                      asked |-> t # NoTag]]
    BY <2>1
  <2>2. t \in Tags
    BY <1>a, GetHandlerAssumption DEF TypeOK, Tags, Versions
  <2>3. [key |-> k, inm |-> t, garbled |-> FALSE, asked |-> t # NoTag] \in Requests
    BY <2>2 DEF Requests
  <2> QED BY <1>4, <1>a, <2>t, <2>3 DEF ProcessHeader, TypeOK, Places, Version
<1>5. ASSUME NEW w \in Workers, ReadFromCache(w) PROVE TypeOK'
  <2>1. hit'[w] \in Hits /\ hit' = [hit EXCEPT ![w] = hit'[w]]
    <3> DEFINE i == Found(entries, req[w].key)
    <3>1. i = 0 \/ i \in DOMAIN entries
      BY <1>a, FirstOfKey DEF TypeOK
    <3>2. i # 0 => entries[i].gr \in GetResponses
      <4>1. i # 0 => entries[i] \in Entry
        BY <1>a, <3>1 DEF TypeOK
      <4> QED BY <4>1 DEF Entry
    <3> HIDE DEF i
    <3>3. \E cs \in {"CS_CACHE_VALID", "CS_CACHE_NEED_REVALIDATE"} :
             hit' = [hit EXCEPT ![w] = IF i = 0 THEN Miss
                                       ELSE [cs |-> cs, gr |-> entries[i].gr]]
      BY <1>5 DEF ReadFromCache, i
    <3> QED BY <1>a, <3>2, <3>3, ResponseTypes DEF Hits, TypeOK
  <2>2. pc' \in [Workers -> Places]
    BY <1>5, <1>a DEF ReadFromCache, TypeOK, Places
  <2> QED BY <1>5, <1>a, <2>1, <2>2 DEF ReadFromCache, TypeOK, Version
<1>6. ASSUME NEW w \in Workers, \/ sendCacheResponse(w) \/ GatewayTimeout(w) \/ FetchDiscard(w)
                                \/ Confirm(w) \/ Connect(w)
      PROVE TypeOK'
  <2>1. CASE sendCacheResponse(w)
    BY <2>1, <1>a, ResponseTypes DEF sendCacheResponse, TypeOK, Places, Version
  <2>2. CASE GatewayTimeout(w)
    BY <2>2, <1>a, ResponseTypes DEF GatewayTimeout, TypeOK, Places, Version
  <2>3. CASE FetchDiscard(w)
    BY <2>3, <1>a, ResponseTypes DEF FetchDiscard, TypeOK, Places, Version
  <2>4. CASE Confirm(w)
    BY <2>4, <1>a, ResponseTypes DEF Confirm, TypeOK, Places, Version
  <2>5. CASE Connect(w)
    BY <2>5, <1>a, ResponseTypes DEF Connect, TypeOK, Places, Version
  <2> QED BY <1>6, <2>1, <2>2, <2>3, <2>4, <2>5
<1>7. ASSUME NEW w \in Workers, SendCondition(w) PROVE TypeOK'
  <2>1. req' \in [Workers -> Requests]
    <3>1. CASE UNCHANGED req
      BY <1>a, <3>1 DEF TypeOK
    <3>2. CASE ~UNCHANGED req
      <4>1. PICK g \in BOOLEAN :
               req' = [req EXCEPT ![w].inm = Quoted(hit[w].gr.eTag), ![w].garbled = g]
        BY <1>7, <3>2 DEF SendCondition, AppendETag
      <4>2. hit[w].gr.eTag \in Tags
        BY <1>a DEF Hits, GetResponses
      <4> QED BY <1>a, <4>1, <4>2 DEF TypeOK, Requests
    <3> QED BY <3>1, <3>2
  <2> QED BY <1>7, <1>a, <2>1 DEF SendCondition, TypeOK, Places, Version
<1>8. ASSUME NEW w \in Workers, clearAllInvalidCache(w) PROVE TypeOK'
  BY <1>8, <1>a, WithoutProperties, ResponseTypes DEF clearAllInvalidCache, TypeOK, Places, Version
<1>9. ASSUME NEW w \in Workers, FetchHeader(w) PROVE TypeOK'
  <2>1. PICK l \in Lifetimes \cup {NotStored} :
           response' = [response EXCEPT ![w] =
              [version |-> Version(req[w].key), status |-> StatusFor(w), full |-> FALSE,
               lifetime |-> l, answered |-> now]]
    BY <1>9 DEF FetchHeader
  <2>2. req[w].key \in Keys
    BY <1>9 DEF IInv, PlaceInv, FetchHeader
  <2>3. Version(req[w].key) \in 0 .. MaxVersion /\ StatusFor(w) \in {"200", "304", "400"}
    BY <1>a, <2>2, GetHandlerAssumption DEF TypeOK, Versions, StatusFor
  <2>4. [version |-> Version(req[w].key), status |-> StatusFor(w), full |-> FALSE,
         lifetime |-> l, answered |-> now] \in ResponseSet
    BY <1>a, <2>3 DEF ResponseSet
  <2> QED BY <1>9, <1>a, <2>1, <2>4 DEF FetchHeader, TypeOK, Places, Version
<1>10. ASSUME NEW w \in Workers, FetchBody(w) PROVE TypeOK'
  <2>1. PICK f \in BOOLEAN : response' = [response EXCEPT ![w].full = f]
    BY <1>10, GetHandlerAssumption DEF FetchBody
  <2>2. response' \in [Workers -> ResponseSet]
    BY <1>a, <2>1 DEF TypeOK, ResponseSet
  <2> QED BY <1>10, <1>a, <2>2 DEF FetchBody, TypeOK, Places, Version
<1>11. ASSUME NEW w \in Workers, handleCache(w) PROVE TypeOK'
  <2>1. entries' \in Seq(Entry)
    <3>1. CASE response[w].lifetime = NotStored
      BY <1>11, <1>a, <3>1 DEF handleCache, TypeOK
    <3>2. CASE response[w].lifetime # NotStored
      <4>1. Stored(w) \in Entry
        BY <1>11, <3>2, StoredTypes DEF handleCache
      <4>2. entries' = <<Stored(w)>> \o entries
        BY <1>11, <3>2 DEF handleCache, Stored
      <4> QED BY <1>a, <4>1, <4>2 DEF TypeOK
    <3> QED BY <3>1, <3>2
  <2> QED BY <1>11, <1>a, <2>1, ResponseTypes DEF handleCache, TypeOK, Places, Version
<1> QED BY <1>1, <1>2, <1>3, <1>4, <1>5, <1>6, <1>7, <1>8, <1>9, <1>10, <1>11
   DEF Next, handleGet, handleETag

-----------------------------------------------------------------------------
(***************************************************************************)
(* The history only grows, and what was current when it was answered stays *)
(* so.                                                                     *)
(***************************************************************************)
Extends(h, t, h2, t2) == t <= t2 /\ (h2 = h \/ h2 = Append(h, t))

LEMMA CurrentStays ==
    ASSUME NEW h \in Seq(Int), NEW t \in Int, NEW h2, NEW t2 \in Int, Extends(h, t, h2, t2),
           NEW r \in ResponseSet, Current(h, t, r)
    PROVE  Current(h2, t2, r)
<1>1. r.version \in Int /\ r.answered \in Int
  <2>1. r.version \in 0 .. MaxVersion /\ r.answered \in Times
    BY DEF ResponseSet
  <2> QED BY <2>1
<1>2. CASE h2 = h
  BY <1>1, <1>2 DEF Extends, Current
<1>3. CASE h2 = Append(h, t)
  <2>1. /\ Len(h) \in Nat /\ Len(h2) = Len(h) + 1 /\ h2[Len(h) + 1] = t
        /\ \A i \in 1 .. Len(h) : h2[i] = h[i]
    BY <1>3
  <2>2. r.version < Len(h) => h2[r.version + 1] = h[r.version + 1]
    <3>1. r.version < Len(h) => r.version + 1 \in 1 .. Len(h)
      BY <1>1, <2>1 DEF Current
    <3> QED BY <2>1, <3>1
  <2> QED BY <1>1, <2>1, <2>2 DEF Extends, Current
<1> QED BY <1>2, <1>3 DEF Extends

LEMMA HistoryGrows ==
    ASSUME TypeOK, [Next]_vars
    PROVE  /\ now \in Int /\ now' \in Int
           /\ \A k \in Keys :
                /\ changes[k] \in Seq(Int)
                /\ Extends(changes[k], now, changes'[k], now')
<1>1. now \in Int /\ \A k \in Keys : changes[k] \in Seq(Int)
  BY GetHandlerAssumption DEF TypeOK
<1>2. CASE UNCHANGED <<changes, now>>
  BY <1>1, <1>2 DEF Extends
<1>3. CASE Tick
  BY <1>1, <1>3 DEF Tick, Extends
<1>4. ASSUME NEW k \in Keys, Change(k)
      PROVE  now' = now /\ \A j \in Keys : changes'[j] = changes[j] \/ changes'[j] = Append(changes[j], now)
  BY <1>4 DEF Change, TypeOK
<1>5. CASE \E k \in Keys : Change(k)
  BY <1>1, <1>4, <1>5 DEF Extends
<1> QED BY <1>2, <1>3, <1>5 DEF Next, vars, SetClock, handleGet, handleETag, ProcessHeader,
     ReadFromCache, sendCacheResponse, SendCondition, Confirm, clearAllInvalidCache, GatewayTimeout, Connect,
     FetchHeader, FetchDiscard, FetchBody, handleCache

\* Only setting the clock forward changes by how much it is ahead.
LEMMA AheadGrows ==
    ASSUME TypeOK, [Next]_vars
    PROVE  Ahead \in Int /\ Ahead' \in Int /\ Ahead <= Ahead'
<1>1. now \in Int /\ clock \in Int /\ setBack \in Int
  BY GetHandlerAssumption DEF TypeOK
<1>2. CASE UNCHANGED time
  BY <1>1, <1>2 DEF Ahead
<1>3. CASE Tick
  BY <1>1, <1>3 DEF Tick, Ahead
<1>4. CASE SetClock
  <2>1. PICK t \in Times :
           clock' = t /\ setBack' = IF t < clock THEN setBack + (clock - t) ELSE setBack
    BY <1>4 DEF SetClock
  <2>2. t \in Int /\ now' = now
    BY <1>4, GetHandlerAssumption DEF SetClock
  <2> QED BY <1>1, <2>1, <2>2 DEF Ahead
<1> QED BY <1>2, <1>3, <1>4 DEF Next, vars, Change, handleGet, handleETag, ProcessHeader,
     ReadFromCache, sendCacheResponse, SendCondition, Confirm, clearAllInvalidCache,
     GatewayTimeout, Connect, FetchHeader, FetchDiscard, FetchBody, handleCache

\* What the step lemmas use of them, for the responses of a state.
LEMMA CurrentNext ==
    ASSUME TypeOK, [Next]_vars, NEW k \in Keys
    PROVE  /\ \A r \in ResponseSet :
                Current(changes[k], now, r) => Current(changes'[k], now', r)
           /\ \A gr \in GetResponses :
                StoredOf(changes[k], now, Ahead, gr) => StoredOf(changes'[k], now', Ahead', gr)
<1>1. ASSUME NEW r \in ResponseSet, Current(changes[k], now, r)
      PROVE  Current(changes'[k], now', r)
  BY <1>1, HistoryGrows, CurrentStays
<1>2. \A gr \in GetResponses : gr.response \in ResponseSet
  BY DEF GetResponses
<1>3. \A gr \in GetResponses : gr.writeTime + gr.setBack - gr.stored \in Int
  <2>1. \A gr \in GetResponses : gr.writeTime \in Times /\ gr.stored \in Times /\ gr.setBack \in SetBacks
    BY DEF GetResponses
  <2> QED BY <2>1, GetHandlerAssumption
<1>4. \A gr \in GetResponses : gr.writeTime + gr.setBack - gr.stored <= Ahead
                               => gr.writeTime + gr.setBack - gr.stored <= Ahead'
  <2> DEFINE f(gr) == gr.writeTime + gr.setBack - gr.stored
  <2>1. \A gr \in GetResponses : f(gr) \in Int
    BY <1>3
  <2>2. Ahead \in Int /\ Ahead' \in Int /\ Ahead <= Ahead'
    BY AheadGrows
  <2> HIDE DEF f
  <2>3. \A gr \in GetResponses : f(gr) <= Ahead => f(gr) <= Ahead'
    BY <2>1, <2>2
  <2> QED BY <2>3 DEF f
<1> QED BY <1>1, <1>2, <1>4 DEF StoredOf

LEMMA HistoryStep ==
    ASSUME IInv, [Next]_vars
    PROVE  HistoryInv'
<1>1. SUFFICES ASSUME NEW k \in Keys, NEW i \in DOMAIN changes'[k]
               PROVE  changes'[k][i] <= now'
  BY DEF HistoryInv
<1>2. /\ now \in Int /\ now' \in Int /\ changes[k] \in Seq(Int)
      /\ Extends(changes[k], now, changes'[k], now')
  BY HistoryGrows DEF IInv
<1>3. \A j \in DOMAIN changes[k] : changes[k][j] <= now /\ changes[k][j] \in Int
  BY <1>2 DEF IInv, HistoryInv
<1>4. CASE changes'[k] = changes[k]
  BY <1>1, <1>2, <1>3, <1>4 DEF Extends
<1>5. CASE changes'[k] = Append(changes[k], now)
  <2>1. changes'[k][i] = now \/ (i \in DOMAIN changes[k] /\ changes'[k][i] = changes[k][i])
    BY <1>1, <1>2, <1>5
  <2> QED BY <1>2, <1>3, <2>1 DEF Extends
<1> QED BY <1>2, <1>4, <1>5 DEF Extends

-----------------------------------------------------------------------------
(***************************************************************************)
(* The cached responses.                                                   *)
(***************************************************************************)
LEMMA EntriesChange ==
    ASSUME TypeOK, [Next]_vars
    PROVE  \/ entries' = entries
           \/ \E w \in Workers : clearAllInvalidCache(w)
           \/ \E w \in Workers : /\ handleCache(w) /\ response[w].lifetime # NotStored
                                 /\ entries' = <<Stored(w)>> \o entries
<1>1. CASE \E w \in Workers : handleCache(w)
  BY <1>1 DEF handleCache, Stored
<1>2. CASE \E w \in Workers : clearAllInvalidCache(w)
  BY <1>2
<1>3. CASE UNCHANGED entries
  BY <1>3
<1> QED BY <1>1, <1>2, <1>3 DEF Next, vars, Tick, SetClock, Change, handleGet, handleETag,
     ProcessHeader, ReadFromCache, sendCacheResponse, SendCondition, Confirm, GatewayTimeout,
     Connect, FetchHeader, FetchDiscard, FetchBody

\* What stands where when e is put in front of s.
LEMMA InFront ==
    ASSUME NEW e \in Entry, NEW s \in Seq(Entry)
    PROVE  /\ (<<e>> \o s)[1] = e
           /\ \A i \in DOMAIN (<<e>> \o s) :
                 i = 1 \/ (i - 1 \in DOMAIN s /\ (<<e>> \o s)[i] = s[i - 1])
           /\ DOMAIN (<<e>> \o s) \in SUBSET Nat
OBVIOUS

LEMMA EntryStep ==
    ASSUME IInv, [Next]_vars
    PROVE  EntryInv'
<1> DEFINE Good(e) == StoredOf(changes'[e.key], now', Ahead', e.gr)
<1>1. \A i \in DOMAIN entries : Good(entries[i])
  <2>1. \A e \in Entry : e.key \in Keys /\ e.gr \in GetResponses
    BY DEF Entry
  <2>2. \A i \in DOMAIN entries : entries[i] \in Entry
    BY DEF IInv, TypeOK
  <2> QED BY <2>1, <2>2, CurrentNext DEF IInv, EntryInv
<1>2. SUFFICES \A i \in DOMAIN entries' : Good(entries'[i])
  BY DEF EntryInv
<1>3. CASE entries' = entries
  BY <1>1, <1>3
<1>4. ASSUME NEW w \in Workers, clearAllInvalidCache(w)
      PROVE  \A i \in DOMAIN entries' : Good(entries'[i])
  <2>1. entries \in Seq(Entry) /\ entries' = Without(entries, {req[w].key})
    BY <1>4 DEF clearAllInvalidCache, IInv, TypeOK
  <2>2. \A i \in DOMAIN entries' : \E a \in DOMAIN entries : entries'[i] = entries[a]
    BY <2>1, WithoutProperties
  <2> QED BY <1>1, <2>2
<1>5. ASSUME NEW w \in Workers, handleCache(w), response[w].lifetime # NotStored,
             entries' = <<Stored(w)>> \o entries
      PROVE  \A i \in DOMAIN entries' : Good(entries'[i])
  <2>1. Stored(w) \in Entry /\ entries \in Seq(Entry)
    BY <1>5, StoredTypes DEF IInv, TypeOK, handleCache, At
  <2>2. Good(Stored(w))
    <3>1. Current(changes[req[w].key], now, response[w])
      BY <1>5 DEF IInv, ResponseInv, handleCache, At
    <3>2. changes' = changes /\ now' = now /\ Ahead' = Ahead
      BY <1>5 DEF handleCache, Ahead
    <3>3. now \in Int /\ clock \in Int /\ setBack \in Int
      BY GetHandlerAssumption DEF IInv, TypeOK
    <3>4. clock + setBack - now <= Ahead
      BY <3>3 DEF Ahead
    <3> QED BY <3>1, <3>2, <3>4 DEF StoredOf, Current, Stored
  <2> HIDE DEF Good
  <2> QED BY <1>1, <1>5, <2>1, <2>2, InFront
<1> QED BY <1>3, <1>4, <1>5, EntriesChange DEF IInv

LEMMA OwnStep ==
    ASSUME IInv, [Next]_vars
    PROVE  OwnInv'
<1>a. /\ OwnInv /\ entries \in Seq(Entry) /\ pc \in [Workers -> Places]
      /\ req \in [Workers -> Requests]
  BY DEF IInv, TypeOK
<1> DEFINE Away == {"connect", "fetch", "body", "store"}
<1>1. ASSUME NEW w \in Workers, clearAllInvalidCache(w)
      PROVE  OwnInv'
  <2> DEFINE K == {req[w].key}
  <2>1. entries' = Without(entries, K) /\ req' = req
    BY <1>1 DEF clearAllInvalidCache
  <2> HIDE DEF K
  <2>a. \A i \in DOMAIN entries' : entries'[i].key \notin K
                                   /\ \E a \in DOMAIN entries : entries'[i] = entries[a]
    BY <1>a, <2>1, WithoutProperties
  <2>2. \A i \in DOMAIN entries' : entries'[i].key # req[w].key
                                   /\ \E a \in DOMAIN entries : entries'[i] = entries[a]
    BY <2>a DEF K
  <2>3. \A i, j \in DOMAIN entries' : i # j =>
           \E a, b \in DOMAIN entries :
              a # b /\ entries'[i] = entries[a] /\ entries'[j] = entries[b]
    BY <1>a, <2>1, WithoutProperties
  <2>4. \A i, j \in DOMAIN entries' :
           i # j /\ entries'[i].key = entries'[j].key => entries'[i].by # entries'[j].by
    BY <1>a, <2>3 DEF OwnInv
  <2>5. \A v \in Workers : v # w => pc'[v] = pc[v]
    BY <1>1, <1>a DEF clearAllInvalidCache, At
  <2>6. \A v \in Workers : pc'[v] \in Away =>
           \A i \in DOMAIN entries' : entries'[i].key = req'[v].key => entries'[i].by # v
    BY <1>a, <2>1, <2>2, <2>5 DEF OwnInv
  <2> QED BY <2>4, <2>6 DEF OwnInv
<1>2. ASSUME NEW w \in Workers, handleCache(w), response[w].lifetime # NotStored,
             entries' = <<Stored(w)>> \o entries
      PROVE  OwnInv'
  <2>1. /\ Stored(w) \in Entry /\ pc[w] = "store" /\ pc' = [pc EXCEPT ![w] = "idle"]
        /\ req' = [req EXCEPT ![w] = NoRequest]
    BY <1>2, StoredTypes DEF handleCache, At, Return
  <2>2. \A i \in DOMAIN entries : entries[i].key = Stored(w).key => entries[i].by # w
    BY <1>a, <2>1 DEF OwnInv, Stored
  <2>3. /\ entries'[1] = Stored(w) /\ Stored(w).by = w
        /\ \A i \in DOMAIN entries' :
              i = 1 \/ (i - 1 \in DOMAIN entries /\ entries'[i] = entries[i - 1])
        /\ DOMAIN entries' \in SUBSET Nat
    BY <1>a, <1>2, <2>1, InFront DEF Stored
  <2>4. ASSUME NEW i \in DOMAIN entries', NEW j \in DOMAIN entries', i # j,
               entries'[i].key = entries'[j].key
        PROVE  entries'[i].by # entries'[j].by
    <3>1. CASE i = 1
      BY <2>2, <2>3, <2>4, <3>1
    <3>2. CASE j = 1
      BY <2>2, <2>3, <2>4, <3>2
    <3>3. CASE i # 1 /\ j # 1
      <4>1. /\ i - 1 \in DOMAIN entries /\ entries'[i] = entries[i - 1]
            /\ j - 1 \in DOMAIN entries /\ entries'[j] = entries[j - 1]
        BY <2>3, <3>3
      <4>2. i - 1 # j - 1
        BY <2>3, <2>4
      <4> QED BY <1>a, <2>4, <4>1, <4>2 DEF OwnInv
    <3> QED BY <3>1, <3>2, <3>3
  <2>5. ASSUME NEW v \in Workers, pc'[v] \in Away, NEW i \in DOMAIN entries',
               entries'[i].key = req'[v].key
        PROVE  entries'[i].by # v
    <3>1. v # w /\ pc[v] \in Away /\ req'[v] = req[v]
      BY <1>a, <2>1, <2>5
    <3> QED BY <1>a, <2>3, <2>5, <3>1 DEF OwnInv
  <2> QED BY <2>4, <2>5 DEF OwnInv
<1>3. CASE entries' = entries /\ ~ \E w \in Workers : clearAllInvalidCache(w)
  <2>1. SUFFICES ASSUME NEW v \in Workers, pc'[v] \in Away, NEW i \in DOMAIN entries,
                        entries[i].key = req'[v].key
                 PROVE  entries[i].by # v
    BY <1>a, <1>3, <2>1 DEF OwnInv
  <2>2. CASE pc[v] \in Away /\ req'[v] = req[v]
    BY <1>a, <2>1, <2>2 DEF OwnInv
  <2>3. CASE ReadFromCache(v)
    <3>1. Found(entries, req[v].key) = 0 /\ req' = req
      BY <1>a, <2>1, <2>3 DEF ReadFromCache, At
    <3> QED BY <1>a, <2>1, <3>1, FirstOfKey
  <2>4. (pc[v] \in Away /\ req'[v] = req[v]) \/ ReadFromCache(v)
    <3>1. CASE UNCHANGED <<pc, req>>
      BY <2>1, <3>1
    <3>2. ASSUME NEW w \in Workers, ProcessHeader(w) \/ handleGet(w)
          PROVE  (pc[v] \in Away /\ req'[v] = req[v]) \/ ReadFromCache(v)
      BY <1>3, <1>a, <2>1, <3>2 DEF handleGet, handleETag, ProcessHeader, ReadFromCache,
         sendCacheResponse, SendCondition, Confirm, GatewayTimeout, Connect, FetchHeader,
         FetchDiscard, FetchBody, handleCache, At, Return, AppendETag
    <3> QED BY <3>1, <3>2 DEF Next, vars, Tick, SetClock, Change
  <2> QED BY <2>2, <2>3, <2>4
<1> QED BY <1>1, <1>2, <1>3, EntriesChange DEF IInv

-----------------------------------------------------------------------------
(***************************************************************************)
(* The locals of the workers.                                              *)
(***************************************************************************)
SameLocals(v) == UNCHANGED <<pc[v], req[v], hit[v], response[v]>>

\* A step is of one worker, or of none.
LEMMA OneWorker ==
    ASSUME TypeOK, [Next]_vars, NEW v \in Workers
    PROVE  SameLocals(v) \/ ProcessHeader(v) \/ handleGet(v)
<1>1. CASE UNCHANGED <<pc, req, hit, response>>
  BY <1>1 DEF SameLocals
<1>2. ASSUME NEW w \in Workers, ProcessHeader(w) \/ handleGet(w), w # v
      PROVE  SameLocals(v)
  BY <1>2 DEF SameLocals, TypeOK, handleGet, handleETag, ProcessHeader, ReadFromCache,
     sendCacheResponse, SendCondition, Confirm, clearAllInvalidCache, GatewayTimeout, Connect,
     FetchHeader, FetchDiscard, FetchBody, handleCache, At, Return, AppendETag
<1> QED BY <1>1, <1>2 DEF Next, vars, Tick, SetClock, Change

\* What handleETag does to the request.
LEMMA ConditionAppended ==
    ASSUME TypeOK, NEW w \in Workers, SendCondition(w)
    PROVE  /\ req'[w].key = req[w].key /\ req'[w].asked = req[w].asked
           /\ \/ req'[w].inm = req[w].inm
              \/ req[w].inm = NoTag /\ req'[w].inm = Quoted(hit[w].gr.eTag)
<1>1. CASE UNCHANGED req
  BY <1>1
<1>2. CASE ~UNCHANGED req
  <2>1. /\ req[w].inm = NoTag
        /\ \E g \in BOOLEAN :
              req' = [req EXCEPT ![w].inm = Quoted(hit[w].gr.eTag), ![w].garbled = g]
    BY <1>2 DEF SendCondition, AppendETag
  <2>2. req \in [Workers -> Requests]
    BY DEF TypeOK
  <2> QED BY <2>1, <2>2 DEF Requests
<1> QED BY <1>1, <1>2

\* The locals of a worker that serves no request.
LEMMA LocalsGone ==
    Miss.cs = "CS_CACHE_NOT_FOUND" /\ NoResponse.status # "304" /\ NoRequest.inm = NoTag
<1>1. Miss.cs = "CS_CACHE_NOT_FOUND"
  BY DEF Miss
<1>2. NoResponse.status # "304"
  BY DEF NoResponse
<1>3. NoRequest.inm = NoTag
  BY DEF NoRequest
<1> QED BY <1>1, <1>2, <1>3

LEMMA PlaceStep ==
    ASSUME IInv, [Next]_vars
    PROVE  PlaceInv'
<1> DEFINE Place(v) == /\ pc[v] # "idle" => req[v].key \in Keys
                       /\ pc[v] \notin {"body", "store"} => response[v].status # "304"
<1> SUFFICES ASSUME NEW v \in Workers PROVE Place(v)'
  BY DEF PlaceInv
<1>a. TypeOK /\ Place(v)
  BY DEF IInv, PlaceInv
<1>1. CASE SameLocals(v)
  BY <1>a, <1>1 DEF SameLocals
<1>2. CASE ProcessHeader(v)
  BY <1>a, <1>2 DEF ProcessHeader, At, TypeOK
<1>3. CASE ReadFromCache(v)
  BY <1>a, <1>3 DEF ReadFromCache, At, TypeOK
<1>4. CASE sendCacheResponse(v) \/ GatewayTimeout(v) \/ FetchDiscard(v) \/ handleCache(v)
  <2>1. pc'[v] = "idle" /\ hit'[v] = Miss /\ response'[v] = NoResponse
    BY <1>a, <1>4 DEF sendCacheResponse, GatewayTimeout, FetchDiscard, handleCache, At, Return,
       TypeOK
  <2> QED BY <2>1, LocalsGone
<1>5. CASE SendCondition(v)
  <2>1. req'[v].key = req[v].key
    BY <1>a, <1>5, ConditionAppended
  <2>2. pc[v] = "validate" /\ pc'[v] \in {"confirm", "clear"} /\ hit' = hit /\ response' = response
    BY <1>a, <1>5 DEF SendCondition, At, TypeOK
  <2> QED BY <1>a, <2>1, <2>2
<1>6. CASE Confirm(v) \/ clearAllInvalidCache(v) \/ Connect(v)
  BY <1>a, <1>6 DEF Confirm, clearAllInvalidCache, Connect, At, TypeOK
<1>7. CASE FetchHeader(v) \/ FetchBody(v)
  BY <1>a, <1>7 DEF FetchHeader, FetchBody, At, TypeOK
<1> QED BY <1>1, <1>2, <1>3, <1>4, <1>5, <1>6, <1>7, <1>a, OneWorker DEF handleGet, handleETag

LEMMA ResponseStep ==
    ASSUME IInv, [Next]_vars
    PROVE  ResponseInv'
<1> SUFFICES ASSUME NEW v \in Workers, pc'[v] \in {"body", "store"}
             PROVE  Current(changes'[req'[v].key], now', response'[v])
  BY DEF ResponseInv
<1>a. /\ TypeOK /\ PlaceInv /\ ResponseInv
      /\ pc[v] # "idle" => req[v].key \in Keys
      /\ response[v] \in ResponseSet
  BY DEF IInv, PlaceInv, TypeOK
<1>1. CASE SameLocals(v)
  <2>1. pc[v] \in {"body", "store"} /\ req'[v] = req[v] /\ response'[v] = response[v]
    BY <1>1 DEF SameLocals
  <2> QED BY <1>a, <2>1, CurrentNext DEF ResponseInv
<1>2. CASE FetchHeader(v)
  <2>1. /\ req[v].key \in Keys /\ changes' = changes /\ now' = now /\ req' = req
        /\ response'[v].version = Version(req[v].key) /\ response'[v].answered = now
    BY <1>2, <1>a DEF FetchHeader, At, TypeOK
  <2>2. Version(req[v].key) \in 1 .. MaxVersion /\ now \in Times
    BY <1>a, <2>1 DEF TypeOK, Versions
  <2> QED BY <2>1, <2>2, GetHandlerAssumption DEF Current, Version
<1>3. CASE FetchBody(v)
  <2>1. PICK full \in BodyEnds : response' = [response EXCEPT ![v].full = full]
    BY <1>3 DEF FetchBody
  <2>2. response'[v].version = response[v].version /\ response'[v].answered = response[v].answered
    BY <1>a, <2>1 DEF TypeOK, ResponseSet
  <2>3. Current(changes[req[v].key], now, response[v]) /\ changes' = changes /\ now' = now
        /\ req' = req
    BY <1>3, <1>a DEF FetchBody, At, ResponseInv
  <2> QED BY <2>2, <2>3 DEF Current
<1>4. ~(ProcessHeader(v) \/ (handleGet(v) /\ ~FetchHeader(v) /\ ~FetchBody(v)))
  BY <1>a DEF handleGet, handleETag, ProcessHeader, ReadFromCache, sendCacheResponse,
     SendCondition, Confirm, clearAllInvalidCache, GatewayTimeout, Connect, FetchDiscard,
     handleCache, At, TypeOK
<1> QED BY <1>1, <1>2, <1>3, <1>4, <1>a, OneWorker

\* The request's condition, and what the client knows of it.
LEMMA ConditionStep ==
    ASSUME IInv, [Next]_vars
    PROVE  ConditionInv'
<1> DEFINE Condition(r) == r.asked \/ r.inm = NoTag \/ \E t \in Tags : r.inm = Quoted(t)
<1> SUFFICES ASSUME NEW v \in Workers PROVE Condition(req'[v])
  BY DEF ConditionInv
<1>a. TypeOK /\ Condition(req[v])
  BY DEF IInv, ConditionInv
<1>1. CASE req'[v] = req[v]
  BY <1>a, <1>1
<1>2. CASE ProcessHeader(v)
  <2>1. PICK k \in Keys :
           \E t \in {NoTag} \cup {Tag(u) : u \in IF k \in Tagged THEN 1 .. Version(k) ELSE {}} :
              req' = [req EXCEPT ![v] = [key |-> k, inm |-> t, garbled |-> FALSE,
                                         asked |-> t # NoTag]]
    BY <1>2 DEF ProcessHeader
  <2>2. \E t : req'[v].inm = t /\ req'[v].asked = (t # NoTag)
    BY <1>a, <2>1 DEF TypeOK
  <2> QED BY <2>2
<1>3. CASE SendCondition(v)
  <2>1. hit[v].gr.eTag \in Tags
    BY <1>a DEF TypeOK, Hits, GetResponses
  <2> QED BY <1>a, <1>3, <2>1, ConditionAppended
<1>4. CASE sendCacheResponse(v) \/ GatewayTimeout(v) \/ FetchDiscard(v) \/ handleCache(v)
  <2>1. req'[v] = NoRequest
    BY <1>a, <1>4 DEF sendCacheResponse, GatewayTimeout, FetchDiscard, handleCache, Return, TypeOK
  <2> QED BY <2>1, LocalsGone
<1>5. CASE \/ SameLocals(v) \/ ReadFromCache(v) \/ Confirm(v) \/ clearAllInvalidCache(v)
           \/ Connect(v) \/ FetchHeader(v) \/ FetchBody(v)
  BY <1>1, <1>5 DEF SameLocals, ReadFromCache, Confirm, clearAllInvalidCache, Connect,
     FetchHeader, FetchBody
<1> QED BY <1>2, <1>3, <1>4, <1>5, <1>a, OneWorker DEF handleGet, handleETag

\* A tag within another pair of quotes names no version.
LEMMA QuotedNamesNone ==
    ASSUME NEW t \in Tags, NEW v \in Versions
    PROVE  Quoted(t) # Tag(v) /\ NoTag # Tag(v)
<1>1. Len(Tag(v)) = 1
  BY DEF Tag
<1>2. Len(NoTag) = 0
  BY DEF NoTag
<1>3. PICK S : t \in Seq(S) /\ "quote" \in S
  <2> DEFINE W == Versions \cup {"quote"}
  <2>1. <<>> \in Seq(W) /\ \A u \in Versions : <<u>> \in Seq(W)
    OBVIOUS
  <2>2. t = <<>> \/ \E u \in Versions : t = <<u>>
    BY DEF Tags, NoTag, Tag
  <2>3. t \in Seq(W)
    BY <2>1, <2>2
  <2> QED BY <2>3
<1>4. Len(Quoted(t)) = Len(t) + 2
  <2> DEFINE q == <<"quote">>
  <2>1. q \in Seq(S) /\ Len(q) = 1
    BY <1>3
  <2>2. Quoted(t) = (q \o t) \o q
    BY DEF Quoted
  <2> HIDE DEF q
  <2>3. q \o t \in Seq(S) /\ Len(q \o t) = Len(q) + Len(t)
    BY <1>3, <2>1, ConcatProperties
  <2>4. Len((q \o t) \o q) = Len(q \o t) + Len(q)
    BY <2>1, <2>3, ConcatProperties
  <2>5. Len(t) \in Nat
    BY <1>3
  <2> QED BY <2>1, <2>2, <2>3, <2>4, <2>5
<1>5. Len(t) \in Nat
  BY <1>3
<1>6. Len(Quoted(t)) # Len(Tag(v)) /\ Len(NoTag) # Len(Tag(v))
  BY <1>1, <1>2, <1>4, <1>5
<1> QED BY <1>6, Zenon

\* No answer to a request without a condition of the client's is a 304.
LEMMA UnaskedStep ==
    ASSUME IInv, [Next]_vars
    PROVE  NoUnasked304'
<1> SUFFICES ASSUME NEW v \in Workers, response'[v].status = "304" PROVE req'[v].asked
  BY DEF NoUnasked304
<1>a. /\ TypeOK /\ PlaceInv /\ ConditionInv
      /\ response[v].status = "304" => req[v].asked /\ pc[v] \in {"body", "store"}
      /\ response[v] \in ResponseSet
  BY DEF IInv, NoUnasked304, PlaceInv, TypeOK
<1>1. CASE response'[v].status = response[v].status /\ req'[v].asked = req[v].asked
  BY <1>a, <1>1
<1>2. CASE ProcessHeader(v)
  BY <1>a, <1>2 DEF ProcessHeader, At
<1>3. CASE SendCondition(v)
  BY <1>1, <1>3, <1>a, ConditionAppended DEF SendCondition
<1>4. CASE sendCacheResponse(v) \/ GatewayTimeout(v) \/ FetchDiscard(v) \/ handleCache(v)
  <2>1. response'[v] = NoResponse
    BY <1>a, <1>4 DEF sendCacheResponse, GatewayTimeout, FetchDiscard, handleCache, Return, TypeOK
  <2> QED BY <2>1, LocalsGone
<1>5. CASE FetchHeader(v)
  <2>1. StatusFor(v) = "304" /\ req' = req /\ req[v].key \in Keys
    BY <1>5, <1>a DEF FetchHeader, At, TypeOK, PlaceInv
  <2>2. req[v].inm = Tag(Version(req[v].key)) /\ Version(req[v].key) \in Versions
    BY <2>1, <1>a DEF StatusFor, TypeOK
  <2>3. CASE req[v].inm = NoTag
    BY <2>2, <2>3, QuotedNamesNone DEF Tags
  <2>4. ASSUME NEW t \in Tags, req[v].inm = Quoted(t) PROVE FALSE
    BY <2>2, <2>4, QuotedNamesNone
  <2>5. req[v].asked \/ req[v].inm = NoTag \/ \E t \in Tags : req[v].inm = Quoted(t)
    BY <1>a DEF ConditionInv
  <2> QED BY <2>1, <2>3, <2>4, <2>5
<1>6. CASE FetchBody(v)
  BY <1>1, <1>6, <1>a DEF FetchBody, TypeOK, ResponseSet
<1>7. CASE \/ SameLocals(v) \/ ReadFromCache(v) \/ Confirm(v) \/ clearAllInvalidCache(v)
           \/ Connect(v)
  BY <1>1, <1>7 DEF SameLocals, ReadFromCache, Confirm, clearAllInvalidCache, Connect
<1> QED BY <1>2, <1>3, <1>4, <1>5, <1>6, <1>7, <1>a, OneWorker DEF handleGet, handleETag

-----------------------------------------------------------------------------
\* The inductive invariant holds throughout.
THEOREM Invariance == Spec => []IInv
<1>1. IInv /\ [Next]_vars => IInv'
  BY TypeStep, HistoryStep, EntryStep, PlaceStep, ResponseStep, ConditionStep, OwnStep,
     UnaskedStep DEF IInv
<1> QED BY InitInv, <1>1, PTL DEF Spec

-----------------------------------------------------------------------------
(***************************************************************************)
(* The properties.                                                         *)
(***************************************************************************)
\* The variables stay in their types.
THEOREM TypeCorrect == Spec => []TypeOK
BY Invariance, PTL DEF IInv

LEMMA TimesOfResponse ==
    ASSUME NEW gr \in GetResponses
    PROVE  /\ gr.validTime \in Int /\ gr.writeTime \in Int
           /\ gr.stored \in Int /\ gr.setBack \in Int /\ gr.response \in ResponseSet
<1>1. /\ gr.validTime \in Lifetimes \cup {0} /\ gr.writeTime \in Times
      /\ gr.stored \in Times /\ gr.setBack \in SetBacks /\ gr.response \in ResponseSet
  BY DEF GetResponses
<1>2. Lifetimes \cup {0} \subseteq Int
  BY GetHandlerAssumption
<1>3. Times \subseteq Int /\ SetBacks \subseteq Int
  BY GetHandlerAssumption
<1> QED BY <1>1, <1>2, <1>3, Zenon

\* An entry the clock finds valid is not older, as time really passes, than
\* its lifetime and what the clock has been set back by since.
LEMMA AgeOfValid ==
    ASSUME IInv, NEW i \in DOMAIN entries, Valid(entries[i])
    PROVE  now - entries[i].gr.stored
             < entries[i].gr.validTime + (setBack - entries[i].gr.setBack)
<1> DEFINE gr == entries[i].gr
<1>1. /\ now \in Int /\ clock \in Int /\ setBack \in Int
      /\ entries[i].gr \in GetResponses
  <2>1. entries[i] \in Entry
    BY DEF IInv, TypeOK
  <2> QED BY <2>1, GetHandlerAssumption DEF IInv, TypeOK, Entry
<1> HIDE DEF gr
<1>2. /\ gr.validTime \in Int /\ gr.writeTime \in Int /\ gr.stored \in Int
      /\ gr.setBack \in Int
  BY <1>1, TimesOfResponse DEF gr
<1>3. gr.writeTime + gr.setBack - gr.stored <= clock + setBack - now
  BY DEF IInv, EntryInv, StoredOf, Ahead, gr
<1>4. timeDifference(gr.writeTime, clock) < gr.validTime
  BY DEF Valid, gr
<1>5. clock - gr.writeTime < gr.validTime
  BY <1>1, <1>2, <1>4 DEF timeDifference
<1>6. now - gr.stored < gr.validTime + (setBack - gr.setBack)
  BY <1>1, <1>2, <1>3, <1>5
<1> QED BY <1>6 DEF gr

\* Whatever the origin changes while a response is fetched, relayed, stored
\* and found again, and however the clock is set: what a lookup finds valid
\* was current no longer ago than its lifetime, the time its transfer took and
\* what the clock has been set back by since it was stored.
THEOREM StalenessIsBounded == Spec => StalenessBounded
<1> DEFINE Bounded(w) ==
        pc[w] = "lookup" /\ pc'[w] = "sendCached" =>
            LET gr == hit'[w].gr
                history == changes[req[w].key]
                version == gr.response.version
            IN  version < Len(history) =>
                    now - history[version + 1]
                        < gr.validTime + (gr.stored - gr.response.answered)
                            + (setBack - gr.setBack)
<1>1. ASSUME IInv, [Next]_vars, NEW w \in Workers PROVE Bounded(w)
  <2> SUFFICES ASSUME pc[w] = "lookup", pc'[w] = "sendCached",
                      hit'[w].gr.response.version < Len(changes[req[w].key])
               PROVE  now - changes[req[w].key][hit'[w].gr.response.version + 1]
                        < hit'[w].gr.validTime
                            + (hit'[w].gr.stored - hit'[w].gr.response.answered)
                            + (setBack - hit'[w].gr.setBack)
    OBVIOUS
  <2> DEFINE i == Found(entries, req[w].key)
             gr == entries[i].gr
             next == changes[req[w].key][gr.response.version + 1]
  <2>a. TypeOK /\ entries \in Seq(Entry) /\ hit \in [Workers -> Hits]
        /\ pc \in [Workers -> Places]
    BY <1>1 DEF IInv, TypeOK
  <2>1. ReadFromCache(w)
    <3>1. SameLocals(w) \/ ProcessHeader(w) \/ handleGet(w)
      BY <1>1, <2>a, OneWorker
    <3> QED BY <3>1, <2>a DEF SameLocals, ProcessHeader, handleGet, handleETag, sendCacheResponse,
         SendCondition, Confirm, clearAllInvalidCache, GatewayTimeout, Connect, FetchHeader,
         FetchDiscard, FetchBody, handleCache, At
  <2>2. i \in DOMAIN entries /\ entries[i].key = req[w].key /\ Valid(entries[i])
        /\ hit'[w].gr = gr
    <3>1. i # 0 /\ Valid(entries[i])
      BY <2>1, <2>a DEF ReadFromCache, At
    <3>2. i \in DOMAIN entries /\ entries[i].key = req[w].key
      BY <2>a, <3>1, FirstOfKey
    <3>3. hit'[w].gr = gr
      BY <2>1, <2>a, <3>1 DEF ReadFromCache
    <3> QED BY <3>1, <3>2, <3>3
  <2> HIDE DEF i
  <2>3. now - gr.stored < gr.validTime + (setBack - gr.setBack)
    BY <1>1, <2>2, AgeOfValid
  <2>4. gr.response.answered <= gr.stored
        /\ Current(changes[req[w].key], now, gr.response)
    BY <1>1, <2>2 DEF IInv, EntryInv, StoredOf
  <2>5. gr \in GetResponses
    <3>1. entries[i] \in Entry
      BY <2>2, <2>a
    <3> QED BY <3>1 DEF Entry
  <2> HIDE DEF gr
  <2>6. /\ gr.validTime \in Int /\ gr.stored \in Int /\ gr.setBack \in Int
        /\ gr.response \in ResponseSet
    BY <2>5, TimesOfResponse
  <2>7. gr.response.answered \in Int /\ gr.response.version \in Int
    <3>1. gr.response.answered \in Times /\ gr.response.version \in 0 .. MaxVersion
      BY <2>6 DEF ResponseSet
    <3> QED BY <3>1
  <2>8. gr.response.answered <= next /\ next \in Int
    <3> DEFINE n == gr.response.version + 1
               h == changes[req[w].key]
    <3>1. req[w].key \in Keys
      BY <1>1 DEF IInv, PlaceInv
    <3>2. h \in Seq(Times)
      BY <3>1, <2>a DEF TypeOK
    <3>3. gr.response.version < Len(h)
      BY <2>2
    <3>4. n \in DOMAIN h
      BY <2>4, <2>7, <3>2, <3>3 DEF Current
    <3>5. gr.response.answered <= h[n]
      BY <2>4, <3>3 DEF Current
    <3> HIDE DEF n, h
    <3>6. h[n] \in Int
      BY <3>2, <3>4, GetHandlerAssumption
    <3> QED BY <3>5, <3>6 DEF n, h
  <2>9. now \in Int /\ setBack \in Int
    BY <2>a, GetHandlerAssumption DEF TypeOK
  <2> HIDE DEF next
  <2>10. \A v, t, b, a \in Int :
           now - t < v + (setBack - b) /\ a <= t /\ a <= next
              => now - next < v + (t - a) + (setBack - b)
    BY <2>8, <2>9
  <2>11. now - next < gr.validTime + (gr.stored - gr.response.answered) + (setBack - gr.setBack)
    BY <2>3, <2>4, <2>6, <2>7, <2>8, <2>10
  <2> QED BY <2>2, <2>11 DEF next
<1>2. IInv /\ [Next]_vars => [\A w \in Workers : Bounded(w)]_vars
  BY <1>1
<1> QED BY <1>2, Invariance, PTL DEF Spec, StalenessBounded

\* However many workers fetch a key at once, each has at most one response
\* for it in the cache.
THEOREM DuplicatesAreBounded == Spec => []DuplicatesBounded
<1>1. IInv => DuplicatesBounded
  <2> SUFFICES ASSUME IInv, NEW k \in Keys
               PROVE  Cardinality({i \in DOMAIN entries : entries[i].key = k})
                         <= Cardinality(Workers)
    BY DEF DuplicatesBounded
  <2> DEFINE I == {i \in DOMAIN entries : entries[i].key = k}
             f == [i \in I |-> entries[i].by]
  <2>1. \A i \in I : entries[i].by \in Workers
    <3>1. entries \in Seq(Entry)
      BY DEF IInv, TypeOK
    <3>2. \A i \in I : entries[i] \in Entry
      BY <3>1
    <3> QED BY <3>2 DEF Entry
  <2>2. f \in [I -> Workers]
    BY <2>1
  <2>3. \A i, j \in I : f[i] = f[j] => i = j
    BY DEF IInv, OwnInv
  <2>4. f \in Injection(I, Workers)
    BY <2>2, <2>3 DEF Injection, IsInjective
  <2> HIDE DEF I, f
  <2>5. Cardinality(I) <= Cardinality(Workers)
    BY <2>4, FS_Injection, GetHandlerAssumption
  <2> QED BY <2>5 DEF I
<1> QED BY <1>1, Invariance, PTL

\* The condition handleETag has added never makes the origin answer a later
\* fetch with a 304, whatever the client asked for and whichever version the
\* origin has come to: it is within two pairs of quotes.  What the cache sends
\* is another matter: see NoUnasked304.
THEOREM UnaskedNever304 == Spec => []NoUnasked304
BY Invariance, PTL DEF IInv
=============================================================================
