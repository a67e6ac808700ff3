--------------------------- MODULE CachePolicyProofs ---------------------------
(***************************************************************************)
(* Proofs about the decision to cache a response, for headers of any       *)
(* length, lines of any length and any width of int.                       *)
(***************************************************************************)
EXTENDS CachePolicy, TLAPS, WellFoundedInduction

\* Line i of the header s is a Cache-Control line.
Control(s, i) == i \in DOMAIN s /\ s[i].kind = "control"

\* What the code takes a line to permit: `private' counts as the first word.
Allowed(line) ==
    IF \/ Names(line) \cap {"must-revalidate", "no-cache", "no-store"} # {}
       \/ CACHE_PRIVATE(line)
    THEN 0
    ELSE IF "immutable" \in Names(line) THEN YEAR_IN_SECOND
    ELSE IF "max-age" \in Names(line) THEN maxAge(line) ELSE 0

\* The policy is one of a line that has been read.
PolicyInv ==
    cp # "CP_NOT_FOUND" =>
        \E i \in DOMAIN seen : Control(seen, i) /\ getCacheControlTime(seen[i]) = cp

\* The age is one of a line that permits it.
AgeInv ==
    \/ cacheTime <= 0
    \/ \E i \in DOMAIN seen : Control(seen, i) /\ cacheTime <= Allowed(seen[i])

\* What the end of the header and of the body have decided.
PhaseInv ==
    /\ validTime = IF phase = "stored" THEN handleCache(cp, cacheTime) ELSE NotStored
    /\ phase \in {"body", "stored"} => ~(isChunked /\ contentLength # 0)

IInv == TypeOK /\ PolicyInv /\ AgeInv /\ PhaseInv

-----------------------------------------------------------------------------
(***************************************************************************)
(* The lines of a header.                                                  *)
(***************************************************************************)
LEMMA LeastExists ==
    ASSUME NEW S \in SUBSET Nat, S # {}
    PROVE  \E m \in S : \A n \in S : m <= n
<1>1. PICK m \in S : \A n \in S : ~(<<n, m>> \in OpToRel(<, Nat))
  BY NatLessThanWellFounded, WFMin
<1>2. \A n \in Nat : <<n, m>> \in OpToRel(<, Nat) <=> n < m
  BY DEF OpToRel
<1>3. \A n \in S : ~(n < m) /\ n \in Nat
  BY <1>1, <1>2
<1> QED BY <1>3

LEMMA ControlTypes ==
    ASSUME NEW line \in Lines, line.kind = "control"
    PROVE  /\ line.words \in Seq(Directives)
           /\ \A i \in DOMAIN line.words : line.words[i].value \in Nat
<1>1. line \in ControlLines
  BY DEF Lines, OtherLines
<1>2. line.words \in Seq(Directives)
  BY <1>1 DEF ControlLines, SeqOf
<1>3. \A d \in Directives : d.value \in Nat
  <2>1. \A d \in Directives : d.value \in {0} \/ d.value \in MaxAges
    BY DEF Directives
  <2>2. MaxAges \subseteq Nat /\ 0 \in Nat
    BY CachePolicyAssumption
  <2> QED BY <2>1, <2>2, Zenon
<1> QED BY <1>2, <1>3

\* The first max-age of a line that has one is a number.
LEMMA MaxAgeType ==
    ASSUME NEW line \in Lines, line.kind = "control", "max-age" \in Names(line)
    PROVE  maxAge(line) \in Nat
<1> DEFINE I == {i \in 1 .. Len(line.words) : line.words[i].name = "max-age"}
<1>1. line.words \in Seq(Directives) /\ DOMAIN line.words = 1 .. Len(line.words)
  BY ControlTypes
<1>2. I \in SUBSET Nat /\ I # {}
  BY <1>1 DEF Names
<1>3. Min(I) \in I
  <2> HIDE DEF I
  <2> QED BY <1>2, LeastExists DEF Min
<1>4. maxAge(line) = line.words[Min(I)].value
  BY <1>2 DEF maxAge, SelectInSeq
<1> QED BY <1>1, <1>3, <1>4, ControlTypes

\* The code is right about a line unless it overlooks its `private'.
LEMMA AllowedIsPermitted ==
    ASSUME NEW line \in Lines, line.kind = "control", ~PrivateBehind(line)
    PROVE  Allowed(line) = Permitted(line)
<1>1. line.words \in Seq(Directives)
  BY ControlTypes
<1>2. CACHE_PRIVATE(line) <=> "private" \in Names(line)
  BY <1>1 DEF CACHE_PRIVATE, Names, PrivateBehind
<1> QED BY <1>2 DEF Allowed, Permitted

\* A line permits no negative time, and a year or its max-age if it says so.
LEMMA AllowedBounds ==
    ASSUME NEW line \in Lines, line.kind = "control"
    PROVE  /\ Allowed(line) \in Nat
           /\ getCacheControlTime(line) = "CP_NEVER_EXPIRED" => Allowed(line) = YEAR_IN_SECOND
           /\ getCacheControlTime(line) = "CP_CACHE_TIME_DEFINED" =>
                 maxAge(line) \in Nat /\ Allowed(line) = maxAge(line)
<1>1. "max-age" \in Names(line) => maxAge(line) \in Nat
  BY MaxAgeType
<1>2. YEAR_IN_SECOND \in Nat
  BY CachePolicyAssumption
<1>3. Allowed(line) \in Nat
  BY <1>1, <1>2 DEF Allowed
<1>4. getCacheControlTime(line) = "CP_NEVER_EXPIRED" => Allowed(line) = YEAR_IN_SECOND
  BY DEF Allowed, getCacheControlTime
<1>5. getCacheControlTime(line) = "CP_CACHE_TIME_DEFINED" =>
         "max-age" \in Names(line) /\ Allowed(line) = maxAge(line)
  BY DEF Allowed, getCacheControlTime
<1> QED BY <1>1, <1>3, <1>4, <1>5

\* The conversion of a max-age, overflowing or not, is never above it.
LEMMA ConvertedBounds ==
    ASSUME NEW n \in Nat, NEW a \in Converted(n)
    PROVE  a \in -IntMax - 1 .. IntMax /\ a <= n
<1>1. IntMax \in Nat
  BY CachePolicyAssumption
<1> QED BY <1>1 DEF Converted

-----------------------------------------------------------------------------
(***************************************************************************)
(* The invariant.                                                          *)
(***************************************************************************)
LEMMA InitInv == Init => IInv
<1> SUFFICES ASSUME Init PROVE IInv
  OBVIOUS
<1>1. TypeOK
  <2>1. seen \in Seq(Lines) /\ Len(seen) = 0
    BY DEF Init
  <2>2. IntMax \in Nat /\ MaxLines \in Nat /\ NotStored \in -IntMax - 2 .. IntMax
    BY CachePolicyAssumption DEF NotStored
  <2>3. cacheTime \in -IntMax - 1 .. IntMax /\ validTime \in -IntMax - 2 .. IntMax
    BY <2>2 DEF Init
  <2>4. cp \in Policies /\ isChunked \in BOOLEAN /\ contentLength \in Lengths \cup {0}
        /\ phase \in {"header", "body", "stored", "discarded"}
    BY DEF Init, Policies
  <2> QED BY <2>1, <2>2, <2>3, <2>4 DEF TypeOK
<1> QED BY <1>1 DEF Init, IInv, PolicyInv, AgeInv, PhaseInv

LEMMA LineStep ==
    ASSUME IInv, ReadLine
    PROVE  IInv'
<1>1. PICK line \in Lines :
          /\ seen' = Append(seen, line)
          /\ IF line.kind = "control"
             THEN cp' = getCacheControlTime(line) /\ cacheTime' \in AgesAfter(line, cacheTime)
             ELSE UNCHANGED <<cp, cacheTime>>
          /\ isChunked' = (isChunked \/ line.kind = "chunked")
          /\ contentLength' = IF line.kind = "length" THEN line.length ELSE contentLength
  BY DEF ReadLine
<1>2. /\ seen \in Seq(Lines) /\ Len(seen) < MaxLines /\ seen' \in Seq(Lines)
      /\ Len(seen') = Len(seen) + 1 /\ seen'[Len(seen')] = line
      /\ \A i \in DOMAIN seen : i \in DOMAIN seen' /\ seen'[i] = seen[i]
      /\ Len(seen') \in DOMAIN seen'
  BY <1>1 DEF IInv, TypeOK, ReadLine
<1>3. \A i : Control(seen, i) => Control(seen', i) /\ seen'[i] = seen[i]
  BY <1>2 DEF Control
<1>4. CASE line.kind # "control"
  <2>1. cp' = cp /\ cacheTime' = cacheTime
    BY <1>1, <1>4
  <2>2. contentLength' \in Lengths \cup {0}
    BY <1>1 DEF IInv, TypeOK, Lines, ControlLines, OtherLines
  <2>3. TypeOK'
    BY <1>1, <1>2, <2>1, <2>2, CachePolicyAssumption DEF IInv, TypeOK, ReadLine
  <2>4. PolicyInv'
    BY <1>3, <2>1 DEF Control, IInv, PolicyInv
  <2>5. AgeInv'
    <3>1. CASE cacheTime <= 0
      BY <2>1, <3>1 DEF AgeInv
    <3>2. ASSUME NEW i, Control(seen, i), cacheTime <= Allowed(seen[i]) PROVE AgeInv'
      BY <1>3, <2>1, <3>2 DEF Control, AgeInv, Allowed
    <3> QED BY <3>1, <3>2 DEF IInv, AgeInv
  <2>6. PhaseInv'
    BY DEF IInv, PhaseInv, ReadLine
  <2> QED BY <2>3, <2>4, <2>5, <2>6 DEF IInv
<1>5. CASE line.kind = "control"
  <2>1. cp' = getCacheControlTime(line) /\ cacheTime' \in AgesAfter(line, cacheTime)
    BY <1>1, <1>5
  <2>2. Control(seen', Len(seen')) /\ seen'[Len(seen')] = line
    BY <1>2, <1>5 DEF Control
  <2>3. \/ cacheTime' = cacheTime
        \/ /\ cacheTime' \in -IntMax - 1 .. IntMax
           /\ cacheTime' <= Allowed(line)
    <3>1. CASE getCacheControlTime(line) = "CP_CACHE_TIME_DEFINED"
      BY <1>5, <2>1, <3>1, AllowedBounds, ConvertedBounds DEF AgesAfter
    <3>2. CASE getCacheControlTime(line) # "CP_CACHE_TIME_DEFINED"
      BY <2>1, <3>2 DEF AgesAfter
    <3> QED BY <3>1, <3>2
  <2>4. TypeOK'
    <3>1. cp' \in Policies
      BY <2>1 DEF getCacheControlTime, Policies
    <3>2. contentLength' = contentLength
      BY <1>1, <1>5
    <3> QED BY <1>1, <1>2, <2>3, <3>1, <3>2, CachePolicyAssumption DEF IInv, TypeOK, ReadLine
  <2>5. PolicyInv'
    BY <2>1, <2>2 DEF Control, PolicyInv
  <2>6. AgeInv'
    <3>1. CASE cacheTime' = cacheTime /\ cacheTime <= 0
      BY <3>1 DEF AgeInv
    <3>2. ASSUME NEW i, Control(seen, i), cacheTime <= Allowed(seen[i]), cacheTime' = cacheTime
          PROVE  AgeInv'
      BY <1>3, <3>2 DEF Control, AgeInv
    <3>3. CASE cacheTime' <= Allowed(line)
      BY <2>2, <3>3 DEF Control, AgeInv
    <3> QED BY <2>3, <3>1, <3>2, <3>3 DEF IInv, AgeInv
  <2>7. PhaseInv'
    BY DEF IInv, PhaseInv, ReadLine
  <2> QED BY <2>4, <2>5, <2>6, <2>7 DEF IInv
<1> QED BY <1>4, <1>5

LEMMA DecisionStep ==
    ASSUME IInv, EndHeader \/ Store
    PROVE  IInv'
<1>1. UNCHANGED <<seen, cp, cacheTime, isChunked, contentLength>>
  BY DEF EndHeader, Store
<1>2. PolicyInv' /\ AgeInv'
  BY <1>1 DEF IInv, PolicyInv, AgeInv, Control
<1>3. CASE EndHeader
  BY <1>2, <1>3, <1>1 DEF EndHeader, IInv, TypeOK, PhaseInv
<1>4. CASE Store
  <2>1. phase = "body" /\ phase' = "stored" /\ validTime' = handleCache(cp, cacheTime)
    BY <1>4 DEF Store
  <2>2. validTime' \in -IntMax - 2 .. IntMax
    <3>1. cacheTime \in -IntMax - 1 .. IntMax /\ IntMax \in Nat /\ YEAR_IN_SECOND \in 1 .. IntMax
      BY CachePolicyAssumption DEF IInv, TypeOK
    <3> QED BY <2>1, <3>1 DEF handleCache, NotStored
  <2>3. PhaseInv'
    BY <1>1, <2>1 DEF IInv, PhaseInv
  <2> QED BY <1>1, <1>2, <2>1, <2>2, <2>3 DEF IInv, TypeOK
<1> QED BY <1>3, <1>4

\* The inductive invariant holds throughout.
THEOREM Invariance == Spec => []IInv
<1>1. IInv /\ [Next]_vars => IInv'
  <2> SUFFICES ASSUME IInv, [Next]_vars PROVE IInv'
    OBVIOUS
  <2>1. CASE UNCHANGED vars
    BY <2>1 DEF vars, IInv, TypeOK, PolicyInv, AgeInv, PhaseInv, Control
  <2> QED BY <2>1, LineStep, DecisionStep DEF Next, Done
<1> QED BY InitInv, <1>1, PTL DEF Spec

-----------------------------------------------------------------------------
(***************************************************************************)
(* The properties.                                                         *)
(***************************************************************************)
\* The variables stay in their types: an overflowing max-age still ends in
\* an int.
THEOREM TypeCorrect == Spec => []TypeOK
BY Invariance, PTL DEF IInv

\* Whatever the lines of a header are, a stored response is valid no longer
\* than one of them permits, unless one says `private' behind another word.
THEOREM NoLongerThanPermitted == Spec => []ValidNoLongerThanPermitted
<1>1. IInv => ValidNoLongerThanPermitted
  <2> SUFFICES ASSUME IInv, phase = "stored", HasControl,
                      \A i \in DOMAIN seen : ~PrivateBehind(seen[i])
               PROVE  \E i \in DOMAIN seen : Control(seen, i) /\ validTime <= Allowed(seen[i])
    BY AllowedIsPermitted DEF ValidNoLongerThanPermitted, Control, IInv, TypeOK
  <2>1. \A i : Control(seen, i) => Allowed(seen[i]) \in Nat
    BY AllowedBounds DEF IInv, TypeOK, Control
  <2>2. PICK i : Control(seen, i)
    BY DEF HasControl, Control
  <2>3. validTime = handleCache(cp, cacheTime)
    BY DEF IInv, PhaseInv
  <2>4. CASE validTime = NotStored
    BY <2>1, <2>2, <2>4, CachePolicyAssumption DEF Control, NotStored
  <2>5. CASE validTime = YEAR_IN_SECOND /\ cp = "CP_NEVER_EXPIRED"
    <3>1. PICK j : Control(seen, j) /\ getCacheControlTime(seen[j]) = cp
      BY <2>5 DEF IInv, PolicyInv
    <3>2. Allowed(seen[j]) = YEAR_IN_SECOND
      BY <2>5, <3>1, AllowedBounds DEF IInv, TypeOK, Control
    <3> QED BY <2>5, <3>1, <3>2, CachePolicyAssumption DEF Control
  <2>6. CASE validTime = cacheTime
    <3>1. CASE cacheTime <= 0
      BY <2>1, <2>2, <2>6, <3>1, CachePolicyAssumption DEF Control, IInv, TypeOK
    <3>2. CASE \E j : Control(seen, j) /\ cacheTime <= Allowed(seen[j])
      BY <2>6, <3>2 DEF Control
    <3> QED BY <3>1, <3>2 DEF IInv, AgeInv
  <2> QED BY <2>3, <2>4, <2>5, <2>6 DEF handleCache
<1> QED BY <1>1, Invariance, PTL

\* No header without a Cache-Control line, and none whose framing
\* contradicts itself, brings a response into the cache.
THEOREM StoredOnlyOnRequest == Spec => []StoredOnRequestOnly
<1>1. IInv => StoredOnRequestOnly
  <2> SUFFICES ASSUME IInv, validTime # NotStored
               PROVE  HasControl /\ ~(isChunked /\ contentLength # 0)
    BY DEF StoredOnRequestOnly
  <2>1. phase = "stored" /\ handleCache(cp, cacheTime) # NotStored
    BY DEF IInv, PhaseInv
  <2>2. cp # "CP_NOT_FOUND"
    BY <2>1 DEF handleCache, NotCacheable
  <2> QED BY <2>1, <2>2 DEF IInv, PolicyInv, PhaseInv, Control, HasControl
<1> QED BY <1>1, Invariance, PTL
=============================================================================
