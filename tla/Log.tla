---------------------------------- MODULE Log ----------------------------------
(***************************************************************************)
(* The log of utilities.cpp, which all threads write to, and the time      *)
(* stamps they take.  A worker writes lines of its own and, with the       *)
(* cache's W held, one in writeToCache and one for each node that          *)
(* clearAllInvalidCache deletes.                                           *)
(*                                                                         *)
(* localtime and asctime answer in memory that all threads share.          *)
(* Log::write calls them with WriteLock held; main stamps the arrival of a *)
(* connection with currentTimeNoBracket, without it.  A stamp that another *)
(* thread's calls have run into may show anything.                         *)
(***************************************************************************)
EXTENDS Integers

CONSTANTS
    Workers,    \* the threads running targetFunc
    Main,       \* the master thread
    MaxTime,    \* bound of the model: the clock stops there
    MaxLines    \* bound of the model: lines that are written, and clears

ASSUME LogAssumption ==
    /\ Main \notin Workers
    /\ MaxTime \in Nat /\ MaxLines \in Nat

Threads == Workers \cup {Main}

VARIABLES
    now,          \* the clock
    WriteLock,
    W,            \* the cache's
    pc,           \* the statement each thread runs next
    caching,      \* the workers in writeToCache or clearAllInvalidCache
    clearing,     \* those of them in clearAllInvalidCache
    time,         \* each thread's current_time
    stamping,     \* the threads between localtime and their copy of the text
    raced,        \* those of them whose text another thread may have changed
    stamp,        \* the latest stamp in the file that nobody has run into
    lines

cache == <<caching, clearing>>
vars == <<now, WriteLock, W, pc, cache, time, stamping, raced, stamp, lines>>

Places == {"out", "cache", "lock", "time", "stamp", "put", "unlock", "release"}

TypeOK ==
    /\ now \in 0 .. MaxTime
    /\ WriteLock \in {0, 1} /\ W \in {0, 1}
    /\ pc \in [Threads -> Places]
    /\ clearing \subseteq caching /\ caching \subseteq Workers
    /\ time \in [Threads -> 0 .. MaxTime]
    /\ raced \subseteq stamping /\ stamping \subseteq Threads
    /\ stamp \in 0 .. MaxTime
    /\ lines \in 0 .. MaxLines

\* Log's constructor has run in main, before there is a second thread.
Init ==
    /\ now = 0
    /\ WriteLock = 1
    /\ W = 1
    /\ pc = [t \in Threads |-> "out"]
    /\ caching = {} /\ clearing = {}
    /\ time = [t \in Threads |-> 0]
    /\ stamping = {}
    /\ raced = {}
    /\ stamp = 0
    /\ lines = 0

-----------------------------------------------------------------------------
Go(t, from, to) == pc[t] = from /\ pc' = [pc EXCEPT ![t] = to]
NoStamp == UNCHANGED <<stamping, raced, stamp>>

\* currentTime: localtime, and later the copy of what asctime has made.
EnterStamp(t) ==
    /\ stamping' = stamping \cup {t}
    /\ raced' = IF stamping = {} THEN raced ELSE stamping'

LeaveStamp(t) ==
    /\ stamping' = stamping \ {t}
    /\ raced' = raced \ {t}

Call(t) ==
    /\ lines < MaxLines /\ t \notin stamping
    /\ Go(t, "out", "lock")
    /\ lines' = lines + 1
    /\ NoStamp /\ UNCHANGED <<now, WriteLock, W, cache, time>>

\* Mutant: the line is written without P(&WriteLock).
LockMissing(t) ==
    /\ Go(t, "lock", "time")
    /\ WriteLock' = 0
    /\ NoStamp /\ UNCHANGED <<now, W, cache, time, lines>>

Lock(t) ==
    /\ Go(t, "lock", "time")
    /\ WriteLock = 1
    /\ WriteLock' = 0
    /\ NoStamp /\ UNCHANGED <<now, W, cache, time, lines>>

ReadTime(t) ==
    /\ Go(t, "time", "stamp")
    /\ time' = [time EXCEPT ![t] = now]
    /\ NoStamp /\ UNCHANGED <<now, WriteLock, W, cache, lines>>

Stamp(t) ==
    /\ Go(t, "stamp", "put")
    /\ EnterStamp(t)
    /\ UNCHANGED <<now, WriteLock, W, cache, time, stamp, lines>>

Put(t) ==
    /\ Go(t, "put", "unlock")
    /\ stamp' = IF t \in raced THEN stamp ELSE time[t]
    /\ LeaveStamp(t)
    /\ UNCHANGED <<now, WriteLock, W, cache, time, lines>>

\* Mutant: V twice.
UnlockTwice(t) ==
    /\ Go(t, "unlock", IF t \in caching THEN "release" ELSE "out")
    /\ WriteLock' = WriteLock + 2
    /\ NoStamp /\ UNCHANGED <<now, W, cache, time, lines>>

Unlock(t) ==
    /\ Go(t, "unlock", IF t \in caching THEN "release" ELSE "out")
    /\ WriteLock' = WriteLock + 1
    /\ NoStamp /\ UNCHANGED <<now, W, cache, time, lines>>

write(t) == Lock(t) \/ ReadTime(t) \/ Stamp(t) \/ Put(t) \/ Unlock(t)

-----------------------------------------------------------------------------
CallCache(w) ==
    /\ lines < MaxLines
    /\ Go(w, "out", "cache")
    /\ lines' = lines + 1
    /\ caching' = caching \cup {w}
    /\ NoStamp /\ UNCHANGED <<now, WriteLock, W, clearing, time>>

\* P(&W), and the line for a response that is stored or is too large.
LockCache(w) ==
    /\ w \notin clearing
    /\ Go(w, "cache", "lock")
    /\ W = 1
    /\ W' = 0
    /\ NoStamp /\ UNCHANGED <<now, WriteLock, cache, time, lines>>

\* Mutant: the early return of a response that is too large, without V(&W).
ReturnLocked(w) ==
    /\ Go(w, "release", "out")
    /\ caching' = caching \ {w}
    /\ clearing' = clearing \ {w}
    /\ NoStamp /\ UNCHANGED <<now, WriteLock, W, time, lines>>

Release(w) ==
    /\ Go(w, "release", "out")
    /\ W' = W + 1
    /\ caching' = caching \ {w}
    /\ clearing' = clearing \ {w}
    /\ NoStamp /\ UNCHANGED <<now, WriteLock, time, lines>>

writeToCache(w) == LockCache(w) \/ Release(w)

CallClear(w) ==
    /\ lines < MaxLines
    /\ Go(w, "out", "cache")
    /\ lines' = lines + 1
    /\ caching' = caching \cup {w}
    /\ clearing' = clearing \cup {w}
    /\ NoStamp /\ UNCHANGED <<now, WriteLock, W, time>>

LockClear(w) ==
    /\ w \in clearing
    /\ Go(w, "cache", "release")
    /\ W = 1
    /\ W' = 0
    /\ NoStamp /\ UNCHANGED <<now, WriteLock, cache, time, lines>>

\* The line for one more node, before V(&W).
deleteNode(w) ==
    /\ w \in clearing /\ lines < MaxLines
    /\ Go(w, "release", "lock")
    /\ lines' = lines + 1
    /\ NoStamp /\ UNCHANGED <<now, WriteLock, W, cache, time>>

clearAllInvalidCache(w) == LockClear(w) \/ deleteNode(w)

\* main, between two accepts.
ArrivalBegin ==
    /\ pc[Main] = "out" /\ Main \notin stamping
    /\ EnterStamp(Main)
    /\ UNCHANGED <<now, WriteLock, W, pc, cache, time, stamp, lines>>

ArrivalEnd ==
    /\ pc[Main] = "out" /\ Main \in stamping
    /\ LeaveStamp(Main)
    /\ UNCHANGED <<now, WriteLock, W, pc, cache, time, stamp, lines>>

main == Call(Main) \/ write(Main) \/ ArrivalBegin \/ ArrivalEnd

\* A clock that is not set back.
Tick ==
    /\ now < MaxTime
    /\ now' = now + 1
    /\ NoStamp /\ UNCHANGED <<WriteLock, W, pc, cache, time, lines>>

CallStep(w) == Call(w) \/ CallCache(w) \/ CallClear(w)
Body(w) == write(w) \/ writeToCache(w) \/ clearAllInvalidCache(w)

Next == main \/ Tick \/ \E w \in Workers : CallStep(w) \/ Body(w)

\* The scheduler runs every thread; none needs to have something to log.
SafeSpec == Init /\ [][Next]_vars
Spec ==
    /\ SafeSpec
    /\ WF_vars(ArrivalEnd) /\ WF_vars(write(Main))
    /\ \A w \in Workers : WF_vars(Body(w))

-----------------------------------------------------------------------------
(***************************************************************************)
(* Properties.                                                             *)
(***************************************************************************)
\* The stamps of two lines never meet: where one is spoilt, main's stamp of
\* an arrival is the other.
OnlyMainSpoils == \A s, t \in stamping : pc[s] = "put" /\ pc[t] = "put" => s = t

\* The lines stand in the log in the order of their times, except those
\* whose stamp main has spoilt, as long as the clock is not set back: a time
\* is read only after the lines before are written.
LogInOrder == [][stamp' >= stamp]_vars

\* No thread waits for ever for the log or, in front of it, for the cache:
\* whoever holds W, to store or to clear, waits for WriteLock, and nobody the
\* other way round.
WritesReturn == \A t \in Threads : pc[t] # "out" ~> pc[t] = "out"
=============================================================================
