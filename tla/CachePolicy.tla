------------------------------ MODULE CachePolicy ------------------------------
(***************************************************************************)
(* From the header of a response to its place in the cache: the loop of    *)
(* handleResponseHeader, getCacheControlTime and the decision handleCache  *)
(* takes once the body has been relayed.                                   *)
(*                                                                         *)
(* A header line is a record.  A Cache-Control line carries a sequence of  *)
(* directives, of which the substring searches of getCacheControlTime see  *)
(* the set, except that `private' counts only as the first one.            *)
(***************************************************************************)
EXTENDS Integers, Sequences, SequencesExt

CONSTANTS
    Words,       \* the directives without a value that are modelled
    MaxAges,     \* the values of max-age
    Lengths,     \* the values of Content-Length
    IntMax,      \* the largest int
    YEAR_IN_SECOND,
    MaxWords,    \* bound of the model: directives in a line
    MaxLines     \* bound of the model: lines in a header

ASSUME CachePolicyAssumption ==
    /\ MaxAges \subseteq Nat /\ Lengths \subseteq Nat
    /\ IntMax \in Nat /\ YEAR_IN_SECOND \in 1 .. IntMax
    /\ MaxWords \in Nat /\ MaxLines \in Nat

Directives == [name : Words, value : {0}] \cup [name : {"max-age"}, value : MaxAges]

ControlLines ==
    [kind : {"control"}, words : {s \in SeqOf(Directives, MaxWords) : IsInjective(s)}]
OtherLines == [kind : {"chunked", "other"}] \cup [kind : {"length"}, length : Lengths]
Lines == ControlLines \cup OtherLines

Names(line) == {line.words[i].name : i \in DOMAIN line.words}

-----------------------------------------------------------------------------
(***************************************************************************)
(* getCacheControlTime.  Both results of the function are modelled: the    *)
(* policy, and `age', which keeps the value of an earlier line unless this *)
(* one is decided by its max-age.                                          *)
(***************************************************************************)
CACHE_PRIVATE(line) ==
    Len(line.words) > 0 /\ line.words[1].name = "private"

\* Mutant: max-age is looked for before the words that forbid reuse.
MaxAgeFirst(line) ==
    LET names == Names(line) IN
    IF "max-age" \in names THEN "CP_CACHE_TIME_DEFINED"
    ELSE IF names \cap {"must-revalidate", "no-cache"} # {} THEN "CP_NEED_REVALIDATE"
    ELSE "CP_NOT_FOUND"

getCacheControlTime(line) ==
    LET names == Names(line) IN
    IF names \cap {"must-revalidate", "no-cache"} # {} THEN "CP_NEED_REVALIDATE"
    ELSE IF "no-store" \in names   THEN "CP_NO_STORE"
    ELSE IF CACHE_PRIVATE(line)    THEN "CP_PRIVATE"
    ELSE IF "immutable" \in names  THEN "CP_NEVER_EXPIRED"
    ELSE IF "max-age" \in names    THEN "CP_CACHE_TIME_DEFINED"
    ELSE "CP_NOT_FOUND"

\* Mutant: an int without bounds.
ConvertedUnbounded(n) == {n}

\* The decimal conversion overflows its int without any defined result.
Converted(n) == IF n <= IntMax THEN {n} ELSE -IntMax - 1 .. IntMax

maxAge(line) ==
    line.words[SelectInSeq(line.words, LAMBDA d : d.name = "max-age")].value

AgesAfter(line, age) ==
    IF getCacheControlTime(line) = "CP_CACHE_TIME_DEFINED"
    THEN Converted(maxAge(line)) ELSE {age}

-----------------------------------------------------------------------------
(***************************************************************************)
(* handleCache: the time for which a response is stored, or NotStored.     *)
(***************************************************************************)
NotStored == -IntMax - 2

\* Mutant: a response without any policy is not excluded.
NotCacheableIncomplete(policy, time) ==
    \/ policy \in {"CP_NO_STORE", "CP_MAX_AGE_ZERO", "CP_PRIVATE"}
    \/ policy = "CP_CACHE_TIME_DEFINED" /\ time = 0

NotCacheable(policy, time) ==
    \/ policy \in {"CP_NO_STORE", "CP_MAX_AGE_ZERO", "CP_PRIVATE",
               "CP_NO_CACHE_POLICY", "CP_NOT_FOUND"}
    \/ policy = "CP_CACHE_TIME_DEFINED" /\ time = 0

handleCache(policy, time) ==
    IF NotCacheable(policy, time) THEN NotStored
    ELSE IF policy = "CP_NEVER_EXPIRED" THEN YEAR_IN_SECOND ELSE time

-----------------------------------------------------------------------------
VARIABLES
    seen,           \* the lines read and relayed to the client
    cp, cacheTime, isChunked, contentLength,
    phase,          \* "header", "body", "stored" or "discarded"
    validTime       \* of the entry in the cache, or NotStored

vars == <<seen, cp, cacheTime, isChunked, contentLength, phase, validTime>>

Policies == {"CP_NO_STORE", "CP_NEED_REVALIDATE", "CP_CACHE_TIME_DEFINED",
             "CP_NOT_FOUND", "CP_PRIVATE", "CP_NEVER_EXPIRED"}

TypeOK ==
    /\ seen \in Seq(Lines) /\ Len(seen) <= MaxLines
    /\ cp \in Policies
    /\ cacheTime \in -IntMax - 1 .. IntMax
    /\ isChunked \in BOOLEAN
    /\ contentLength \in Lengths \cup {0}
    /\ phase \in {"header", "body", "stored", "discarded"}
    /\ validTime \in -IntMax - 2 .. IntMax

Init ==
    /\ seen = <<>>
    /\ cp = "CP_NOT_FOUND"
    /\ cacheTime = 0
    /\ isChunked = FALSE
    /\ contentLength = 0
    /\ phase = "header"
    /\ validTime = NotStored

\* One round of the loop: the line is relayed, then looked at.
ReadLine ==
    /\ phase = "header" /\ Len(seen) < MaxLines
    /\ \E line \in Lines :
          /\ seen' = Append(seen, line)
          /\ IF line.kind = "control"
             THEN cp' = getCacheControlTime(line) /\ cacheTime' \in AgesAfter(line, cacheTime)
             ELSE UNCHANGED <<cp, cacheTime>>
          /\ isChunked' = (isChunked \/ line.kind = "chunked")
          /\ contentLength' = IF line.kind = "length" THEN line.length ELSE contentLength
    /\ UNCHANGED <<phase, validTime>>

\* The separator, or the server has closed the connection.
EndHeader ==
    /\ phase = "header"
    /\ phase' = IF isChunked /\ contentLength # 0 THEN "discarded" ELSE "body"
    /\ UNCHANGED <<seen, cp, cacheTime, isChunked, contentLength, validTime>>

Store ==
    /\ phase = "body"
    /\ phase' = "stored"
    /\ validTime' = handleCache(cp, cacheTime)
    /\ UNCHANGED <<seen, cp, cacheTime, isChunked, contentLength>>

Done == phase \in {"stored", "discarded"} /\ UNCHANGED vars

Next == ReadLine \/ EndHeader \/ Store \/ Done

Spec == Init /\ [][Next]_vars

-----------------------------------------------------------------------------
(***************************************************************************)
(* Properties.                                                             *)
(***************************************************************************)
HasControl == \E i \in DOMAIN seen : seen[i].kind = "control"

\* What a line permits at most, as a time for which the response may be
\* served from the cache without asking the origin: a reading of the
\* directives that does not depend on how the code searches for them.
Permitted(line) ==
    IF Names(line) \cap {"must-revalidate", "no-cache", "no-store", "private"} # {} THEN 0
    ELSE IF "immutable" \in Names(line) THEN YEAR_IN_SECOND
    ELSE IF "max-age" \in Names(line) THEN maxAge(line) ELSE 0

\* A line of the header says `private', and not as its first directive.
PrivateBehind(line) ==
    line.kind = "control" /\ "private" \in Names(line) /\ line.words[1].name # "private"

\* A response is never valid in the cache for longer than one of its
\* Cache-Control lines permits, in whatever order the lines and their
\* directives come, however large a max-age, and although the policy of one
\* line may come to stand with the age of another.  The exception is named: a
\* header with a line that says `private' behind another directive.
ValidNoLongerThanPermitted ==
    phase = "stored" /\ HasControl /\ (\A i \in DOMAIN seen : ~PrivateBehind(seen[i])) =>
        \E i \in DOMAIN seen : seen[i].kind = "control" /\ validTime <= Permitted(seen[i])

\* The same without the exception: README.md:206 lists `private' among the
\* key words that are recognised, and GetHandler.cpp:287 gives the reason
\* "cache needs to stay private" for which such a response is not cached.
PrivateRespected ==
    phase = "stored" /\ HasControl =>
        \E i \in DOMAIN seen : seen[i].kind = "control" /\ validTime <= Permitted(seen[i])

\* Nothing is stored on the proxy's own initiative: a response without a
\* Cache-Control line stays out of the cache, and so does one whose framing
\* contradicts itself.
StoredOnRequestOnly ==
    validTime # NotStored => HasControl /\ ~(isChunked /\ contentLength # 0)
=============================================================================
