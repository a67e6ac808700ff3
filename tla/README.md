# HTTPWebProxy in TLA+

A verification project for the caching, multi-threaded HTTP proxy of this
repository. The modules model the program's C++ sources (`src/*.cpp`, `src/*.h`),
TLC checks them on small instances, and TLAPS checks the theorems in the modules
whose names end in `Proofs`. `PROJECT.json` maps every definition to the lines it
translates.

## 1. Inventory of the system

One process: a master thread accepts connections and hands them to a fixed
number of detached worker threads; the workers share one cache and one log.

| Component | State it keeps | Operations | Interacts with |
|---|---|---|---|
| **SodaMachine** (`WorkBuffer.cpp`), thread pool (`proxy.cpp`) | ring of `ClientInfo`, `front`, `rear`, semaphores `mutex`, `slots`, `items`; main's counter `requestUUID` | `insertFd` (master), `removeFd` (workers), the loops of `main` and `targetFunc` | everything a worker does happens between two `removeFd` |
| **Cache** (`Cache.cpp`) | doubly linked list between two sentinels, `numReader`, semaphores `mutex`, `W`, `totalSize` | `ReadFromCache`, `writeToCache`, `clearAllInvalidCache` (`addNode`, `deleteNode`) | called by GET handlers of all workers at once; writes the log with `W` held |
| **Cache policy** (`GetHandler.cpp:216-363`) | policy and `cacheTime` of the response being relayed | header loop, `getCacheControlTime`, `handleCache` | decides what the GET handler stores, and for how long |
| **GET handler** (`GetHandler.cpp`) | per request: result of the lookup, rewritten request, response | lookup, `handleETag`, clear, fetch, relay, store | cache, origin server, client |
| **Relay loops** (`RequestHandler.cpp`) | per request: the Rio buffers of two connections, bytes left | `processHeader`, `readAndWriteChunkedData`, `readAndWriteContentLengthData` | GET and POST handlers; both connections may stay open |
| **Rio** (`Rio.cpp`) | `rio_buf`, `rio_bufptr`, `rio_cnt` per connection | `rio_read`, `Rio_readlineb`, `Rio_readnb`, `Rio_writen` | all handlers |
| **POST handler** (`PostHandler.cpp`) | per request: request body, then response | read the announced body, forward, relay | relay loops |
| **CONNECT tunnel** (`ConnectHandler.cpp`) | two descriptors | `select` loop, `transferData` | client and server, both ways |
| **Dispatch** (`proxy.cpp:43-80`), sockets (`utilities.cpp:160-250`) | the table of descriptors of the process | `handleRequest` by method, `createListenFd`, `Accept`, `createClientFd`, `close` | all handlers |
| **Log** (`utilities.cpp`) | an output file, a semaphore, libc's buffers for time stamps | `write`, main's stamp of an arrival | all threads |

What is hard in it, and what makes each component correct:

* *SodaMachine.* Three threads and more move two cursors that only grow; the
  counting of `slots` and `items` is all that keeps the ring from being
  overrun or read empty. Correct: it is a bounded FIFO queue that loses,
  duplicates and reorders nothing, and every accepted connection reaches a
  worker although some workers hang on servers that never answer.
* *Cache.* Readers traverse the list while writers wait; deletion follows `prev`
  from behind its own cursor; freed addresses are reused by `new`. Correct: a
  writer is alone, no freed node is reached, both directions of the list agree,
  each call looks as if it happened at one instant, and each call returns.
* *Policy.* Eight directives in any order, on several lines, combined with a
  value that survives from one line to the next. Correct: a response is kept
  only on request and no longer than its header permits.
* *GET handler.* Between lookup, revalidation, clear, fetch and store, other
  workers, the origin and the clock move on. Correct: bounded staleness, bounded
  duplicates, no answer to a condition the client has not set; lookups find the
  freshest, whole, confirmed response (the code does not achieve these last
  three, see section 6).
* *Relay, Rio, POST.* Bodies end by a count, by a chunk of size 0 or by the
  peer's close, and a wrong end makes the worker wait for ever. Correct: what
  reached one side reaches the other in order, and a finished exchange ends.
* *Tunnel.* `select` decides by one descriptor, `transferData` reads until a
  short read. Correct: bytes are forwarded in order; neither direction blocks
  the other; what one side sent before its end reaches the other.
* *Dispatch.* The kernel reuses a number as soon as it is closed, and the table
  runs out. Correct: no thread touches another's descriptor, and every client's
  connection is closed once (the origin's is not, see section 6).
* *Log.* Taken with and without the cache's `W` held. Correct: the semaphore is a
  leaf in the order of locks, and the lines are in the order of their times.

`PROJECT.json` lists the hazards at their lines, with the property that guards each
or the reason why none does. Those the design accepts (readers may starve a writer,
a half-closed tunnel ends, a clear takes fresh entries along) or that no run can
reach are in sections 3, 5 and 6.

## 2. Modules

```
WorkBuffer ── WorkBufferRefinement ── WorkBufferProofs         (TLAPS)
                 │ (TLC)
                 └── INSTANCE RequestQueue
Cache ── CacheRefinement ── CacheProofs                        (TLAPS)
           │    │ (TLC)
           │    └── INSTANCE ResponseCache
           └── Entries (also under ResponseCache, GetHandler)
CachePolicy (TLC) ── CachePolicyProofs                         (TLAPS)
GetHandler ── MCGetHandler                                     (TLC)
  └── GetHandlerProofs                                         (TLAPS)
Tunnel (TLC) ── TunnelProofs                                   (TLAPS)
Rio ── Relay ── MCRelay                                        (TLC)
         └── RelayProofs                                       (TLAPS)
Proxy (TLC) ── ProxyProofs                                     (TLAPS)
Log   (TLC) ── LogProofs                                       (TLAPS)
```

How they stand for one program: Proxy takes the SodaMachine as the queue that
WorkBufferRefinement shows it to be, and GetHandler the cache as the atomic calls
that CacheRefinement shows its three functions to be. GetHandler has one step for
each exchange with an origin or a client; Relay is what happens within that step,
line by line. Log has of the cache only `W`.

**WorkBuffer** has one action per semaphore operation and per access to the ring
or a cursor. The only read-modify-write that two threads can be in at once,
`++this->front`, is two actions (`RemoveLoad`, `RemoveTake`). A `ClientInfo` is
its UUID. A worker's handler is one step `Finish`, or none at all for the
requests in `Hanging`. **RequestQueue** is the abstract specification: a
sequence of waiting requests of at most `Capacity`, and a record per worker of
what it serves. **WorkBufferRefinement** maps the places `front+1 .. rear` of
the ring to that sequence.

**Cache** has one action per semaphore operation, per access to `numReader` and
per pointer that `addNode` and `deleteNode` assign. A worker's `pc` names the
statement it runs next; `ReadLock`, `ReadCount` and `ReadUnlock` each stand for
the two places of `ReadFromCache` where that statement occurs. Nodes are
addresses: `new Node` returns any that is not allocated, so freed memory is
reused at once. A call that returns takes its locals with it (`LocalsGone`). A key stands for the pair of host and uri. **ResponseCache** is
the cache as its callers see it: a sequence of responses, newest first, and a
lookup that is asked, answered at one instant and returned.
**CacheRefinement** reads that sequence off the list. A write takes effect when
`head->next` is assigned; a lookup when its search ends; a clear when it gets
`W` (the mapping hides what it is about to delete). **Entries** has what a clear
leaves of such a sequence.

**CachePolicy** is the path of a response's header through the line loop of
`handleResponseHeader`, `getCacheControlTime` and `handleCache`. A header is a
sequence of lines; a Cache-Control line is a sequence of distinct directives.
`getCacheControlTime` searches for substrings, so only the set of directives
matters, except that the constant it uses for `private` contains the colon and
the blank that come before the first directive: `private` is recognised only
there. `Permitted`, the yardstick of the properties, reads the directives without
that constant. The digits of `max-age` go into an `int`; once that would overflow any
value is possible (undefined behaviour), in the model any `int`.

**GetHandler** composes workers, a cache whose calls are atomic (what
`ImplementsResponseCache` shows of the real one), an origin whose resources
change, the time that passes (`now`) and the clock of the host (`clock`, what
`time(NULL)` returns), which anyone may set (`SetClock`): `setBack` adds up by how
much it has been set back. Each step is one exchange: a call of the cache, a request
sent, a header or a body relayed. A response is the version it carries plus what
the decisions of the code depend on. The ETag is kept with its quotes by
`getETagIfAny` and put between another pair by `handleETag`: `Quoted` says so.
The policy's outcome is a choice from `Lifetimes` or "not stored", whatever the
status: `handleCache` does not look at it, so a 304 or a 400 is stored like a 200.
`asked` is a
history variable in the request: the client has set a condition of its own.

**Tunnel** is the worker of a CONNECT request between two sides that send,
receive, shut down, close and reset their connections whenever they like. A
connection is what has arrived and is unread (`in`), what the proxy has written
and the side has not received (`out`, at most `Window` bytes) and what the side
has received (`got`); the bytes of a side are numbered, so that their order can
be seen. `Select` looks at the client's descriptor first. `transferData` is the
loop of reads (`Read`, left by a short one, by the end of input or by an error)
and a write that blocks while the receiver's window is full (`Write`, in parts)
or fails (`WriteLost`). `early` counts the bytes that came with the client's
header and stay in `rio_buf`, which the tunnel never looks at.

**Rio** is one connection as `rio_read` sees it: what has arrived, the
sender's end (a close, or a reset that loses nothing that is already in `in`),
`rio_buf`, `rio_bufptr` and the unsigned `rio_cnt`. A call of `Rio_readlineb` or
`Rio_readnb` copies one token per step; a token is a byte or a word its callers
search for, and the two bytes of a line's end are one. `FillFailed` is `read`
returning -1, which becomes `SIZE_MAX` in `rio_cnt`: the calls then go on
copying what is in `rio_buf` and behind it, until the pointer leaves the stack
(`CopyCrash`) or their caller has enough. `taken` is a history variable.

**Relay** is the handlers on top of it, for one message: `task` says which.
`GetRequest` and `PostRequest` are `processHeader` and what `handlePost` does
up to forwarding the request; `GetResponse` is `handleResponseHeader` and
`handleResponseBody`; `PostResponse` is PostHandler's `handleResponse`;
`ETagAnswer` is `handleETag`'s loop. The message is any of a set of headers with
each body that fits it, and the sender may stop, close or reset anywhere in it.
`data` is the string or array the handler collects, cut at zero bytes where the
code goes through C strings (`CStr`); `out` is what `Rio_writen` was given.
A request is collected by `strcat` in `clientRequest`, the header of the answer to a
POST in `serverResponse`, arrays of `MAXLINE` bytes that nobody measures:
`RequestRoom` is what they hold. Beyond it the process dies (`Overrun`), or goes on,
and what it sends to the origin may have been overwritten from there on (`Damaged`).
What `setupHostAndPort` parses is an outcome, a host or none.

**Proxy** has the table of descriptors and one action per system call that
changes it: `socket`, `accept`, `close`, in `createListenFd`, `createClientFd`,
`main` and the worker loop. `Open` gives the lowest free number. An exchange
with a client or an origin is one step. `table` says whose connection is behind a
number, which the program cannot see: that is what lets a property speak of
somebody else's descriptor.

**Log** has the statements of `Log::write`, `writeToCache` and
`clearAllInvalidCache` around it as far as `W` goes (a store writes one line with `W`
held, a clear one for each node it deletes), and main's stamp of an arrival. Between `localtime` and the copy of
its text a thread is in `stamping`; a thread that enters while another is
there spoils both stamps (`raced`).

## 3. What is checked

| Run | Question | Bounds |
|---|---|---|
| `workbuffer` | `ImplementsQueue`, `NoWaitingRequestOverwritten`, `TakeFindsRequest`, `ServedByOneWorker`; under fairness `AcceptedIsServed` | 3 workers, ring of 2, 7 requests of which 2 hang for ever: the cursors go round the ring three times, the ring gets full and empty, more workers than places compete, and in the end one worker serves all |
| `cache` | `WriterIsAlone`, `NoFreedNodeReached`, `ListIntact`, `ImplementsResponseCache`; under fairness `CallsReturn` | 3 workers, 2 keys, 2 addresses, 3 calls, 2 instants, one size too large to be stored: two readers and a writer at once, a write and a clear behind a reader, two nodes of one key or of two, reuse of a freed address. A node is deleted with neighbours on both sides only in longer lists; that case is left to `NoFreedNode` and `ListStaysIntact` (section 4) |
| `policy` | `ValidNoLongerThanPermitted`, `StoredOnRequestOnly` | every header of up to 2 lines, with up to 2 of 7 directives in every order, `max-age` 0, small and beyond `IntMax`. Headers that say `private` behind another directive are left out of `ValidNoLongerThanPermitted`: `policy_private` shows what becomes of them |
| `get` | `StalenessBounded`, `DuplicatesBounded`, `NoUnasked304` | 2 workers, 1 key, 2 versions, 3 instants, a clock that is set forward at will and back by 1: two misses at once, an entry that expires, one whose clock has gone back, one that is cleared while another worker revalidates |
| `tunnel` | `NothingLostInside`; under fairness of the worker `TunnelEnds`, `ServerServed` | reads of 2 bytes, windows of 2, 3 bytes a side, 1 early byte: transfers over several reads, writes in parts, every way a side can end at every point |
| `relay` | `NothingLostInRio`, `PassedOnWhole`, `StoredIsRelayed`, `OnlyWholeHeaderForwarded`; under fairness of the worker `SenderGoneEnds`, `EndsWithMessage` | `rio_buf` of 4 tokens, so that every message needs several fills and lines are cut by the buffer; headers of up to 5 lines, one of which may fill the line buffer exactly, also between the lines of two framings; bodies of 0, 4 and 5 bytes (the last more than the stack has room for), with and without a zero byte, counted, chunked, both or neither; `RequestRoom` 10: most requests fit, and the longest headers, and some headers with their body, do not |
| `proxy` | `NoForeignDescriptor`, `OnlyOneOriginLeaks`; under fairness `EveryClientClosed` | 2 workers, queue of 1, 3 requests of which the first may hang, up to 2 addresses a host, 4 descriptors: fewer than the requests, their origins and the listener need, so the table runs out and numbers are reused |
| `log` | `OnlyMainSpoils`, `LogInOrder`; under fairness `WritesReturn` | 3 workers and main, 4 lines or clears, 3 instants: one thread in the log, one waiting for it with `W` to store or to clear, one waiting for `W`, main in between |
| `get_fresh_at_head`, `policy_private`, `relay_chunked`, `post_short_body` | statements of the docs, comments and test descriptions that the code contradicts (section 6) | `GetFreshAtHead.cfg` as `get`, `PolicyPrivate.cfg` as `policy`; the other two as `relay` |

Each module has one type invariant, checked by its first run.

*Bounds.* `MaxRequests`, `MaxCalls`, `MaxTime`, `MaxSetBack`, `MaxVersion`, `MaxWords`,
`MaxLines`, `MaxBytes`, `MaxAddresses`, `Headers` and `Lengths` bound what the
environment does; each appears in a guard or in a set of inputs and is commented as
a bound of the model. `MAXLINE`, `SIZE_MAX`, `StackAbove`, `StackRoom`, `RequestRoom` and
`MaxFds` are the program's and the machine's own limits, made small enough to be
met. `RoomForNode` assumes that `new` succeeds. Two
keys are enough for the cache: a call distinguishes its own key from others. One
key is enough for the GET handler, since requests for different keys share
nothing there but the list, whose isolation per key the run `cache` checks. One
message is enough for Relay: a handler reads one message per Rio buffer. The
reads of Rio are cut wherever `Send` and `Fill` interleave, so that every split of
a message is met.
*The clock* can be set back in Cache (`ClockStep`) and in GetHandler (`SetClock`);
`timeDifference` then yields 0. `StalenessBounded` counts time as it passes and
the lifetime by the clock, so what the clock has been set back by since the store
is part of its bound. In Log the clock only advances: no statement there compares
two times, and the order of the lines is promised for such a clock only.

*Ends.* Where a process can die, the liveness properties keep that apart from a
return. `SenderGoneEnds` lets the process die only of a read that failed, or of a
message that is `Deadly`: a Content-Length for which the stack has no room, or a
request, or a header of an answer, for which its array has none. `EndsWithMessage`
leaves deadly messages out. `TunnelEnds` lets it die only of a failed read, and
`EveryClientClosed` of a failed `getaddrinfo`.

*Symmetry* is used in the run `get` only, over workers, which the model neither
orders nor chooses among.

*Deadlock* is checked in every run. Where a program can come to rest, one action
(`Quiescent`, `Rest`, `Over`, `Done`) says exactly where it does once the bound on its
inputs is reached, so a thread stuck anywhere else is reported. In Relay a worker may
wait for a sender that is silent, but the sender can always close; in Log and
Proxy main goes round for ever. What may not wait there is said by the liveness
properties.

*Fairness.* Weak fairness of every thread's next step: the threads are POSIX
threads that the scheduler runs when they can. `sem_wait` is an action enabled
while the semaphore is positive; weak fairness does not promise that a thread
wins a semaphore that others keep taking. `AcceptedIsServed` needs no more,
because each worker takes `mutex` boundedly often per request; `CallsReturn`
because the number of calls is finite, as `WritesReturn` in Log does of lines. In Tunnel only the
worker's own steps (`handleConn`) are fair; that `select` runs into its timeout
is not relied on. In Relay only `Handler` is fair: the sender need not send
another byte, so `EndsWithMessage` says that what has come suffices. In Proxy
each worker is fair except inside an exchange of a request in `Hanging`, which
may never end, and main is fair in `insertFd`, the one step it owes a
connection it has accepted. In Log whoever has begun a line goes on with it. No fairness is
assumed of clients, origin servers or the clock, nor that a worker makes another
call. A stream of overlapping readers can keep a writer out for ever: the lock is described as
favoring readers, and no property claims otherwise.

## 4. What is proved

Every safety property that a passing run checks, every type invariant and both
refinements are theorems, about any values of the constants that satisfy the named
assumptions:

* `WorkBufferAssumption`: finitely many workers, capacity at least 1;
* `CacheAssumption`: finitely many workers and addresses, sentinels that are no nodes;
* `CachePolicyAssumption`: a year fits an `int`;
* `GetHandlerAssumption`: finitely many workers;
* `TunnelAssumption`: a read asks for at least 2 bytes (8192 in the code);
* `RioAssumption`: a line buffer holds a word and the end of its line (`MAXLINE > 2`,
  8192 in the code), and `SIZE_MAX` is beyond the buffer and the stack above it;
* `LogAssumption`, `ProxyAssumption`: main is not a worker, capacities of at least 1.

The rest of each says only that sizes, times and bounds are numbers. `SafeSpec` in a
theorem is the specification without its fairness, which `Spec` implies.

Of these properties hardly any is inductive. Each proof module begins with a
strengthening `IInv` that is, a conjunction of named parts; TLC can check each as an
invariant of the component's run, the cache's with numbers `0 .. 4` for the `Int` of `Ordered`.

*WorkBufferProofs.* What
each semaphore stands for must be said: `MutexInv` (mutex is 0 exactly while one
thread is inside), `CountInv` (`slots` and `items` are the free and the filled
places, corrected by the threads that are between a P and their cursor step or
between that step and their V), `OrderInv` (the n-th stored is the n-th
accepted), `RingInv` (the place of cursor value i holds request i-1) and
`RecordInv` (what the workers' locals hold).
`NothingOverwritten` follows from `CountInv` alone: a master about to store has
taken one of the free places. The arithmetic it all rests on is the lemma
`PlacesDiffer`: cursor values less than a turn apart name different places.
`Refinement` then maps every step to a step of the queue or a stutter:
`InsertStore` is Put, `RemoveTake` is Take, `Finish` is Done.

*CacheProofs, the list.* The lock and the list need each other: the list keeps its shape
because a writer is alone, and what a writer does next depends on the shape.
`LockInv` says what the two semaphores and the count of readers stand for:
`MutexInv` (`mutex` is 0 while a worker is between its P and V, and at most one
is), `CountInv` (`numReader` is the number of workers between their increment and
their decrement) and `WInv` (`W` is 0 while a reader or a writer is at the list,
and a writer there is alone; the readers hold `W` as a body, through the first
that came, which is why the count must be exact). `ListInv` says of the nodes: every pointer of a
listed node leads to a listed node or a sentinel (`Closed`); the nodes can be
numbered so that `next` ascends (`Ordered`, which excludes cycles without a
recursive definition of "reachable"); and `next` and `prev` undo each other
(`Linked`), except for the one or two pointers that are loose at the statement
of `addNode` or `deleteNode` at which a writer is (`LooseNext`, `LoosePrev`). What the
writer's and the readers' locals point to is `Stage` and `Cursor`. The proof has
a lemma for each pointer assignment (`LinkBackStep` to `DeleteStep`) and one for
all steps that leave the list alone (`QuietStep`). From the invariant follow
`WriterAlone` and `NoFreedNode`.

`ListStaysIntact` says that no node is leaked. `Ordered` gives any integers; as there
are finitely many pointers, small numbers will do (`SmallRanks`), so the walk from
head ends at tail (`ListExists`) and meets no node twice (`StopsDiffer`). A node
outside the walk would have a predecessor outside it with a smaller number, and so on
without end (`ListWhole`).

*CacheProofs, the refinement.* `ListOf(q, next, alive)` says that following `next`
visits the nodes of the sequence q, and `Meets` that the refinement mapping reads
q. A write puts a node in front of q (`PutInFront`), `deleteNode` takes one out
(`TakenOff`, `UnlinkFrontList`), a new node is on no list yet (`NewNodeLists`). Two facts about the
calls complete the argument: `CallInv` (what arguments and answer are at each
statement) and `SearchInv`: a search has come to some place of q, and nothing before
that place is of its key. For a clear, `SearchInv` holds on after a node has been
taken out in front of its cursor. So a search that ends has found the newest entry
(`HitAnswers`) or has missed none (`MissAnswers`), and a clear that ends leaves
nothing that the mapping would have to hide (`ClearingStutters`). What remains are laws of `Without`:
no entry of these keys, nothing taken (`NothingTaken`); an entry that is hidden anyway
may go (`AlreadyTaken`). `SameStatus` says that the code's test of the age is the
specified one, also when the clock has been set back. `Refinement` is the theorem.

*GetHandlerProofs.* Staleness is a statement about the past: `Current` says that a
response carries the version that was current when the origin answered, in terms
of the history of changes, and it must hold of every entry (`EntryInv`), of the
response in a worker's hands (`ResponseInv`), at any later time, since histories
only grow (`CurrentStays`). What a lookup compares is another matter: `time(NULL)` and
the `writeTime` of an entry. `Ahead` is how far the clock would be ahead of the time
that has passed, had it never been set back; it never falls, so the age by the clock is
too small by at most what the clock was set back by since the store (`StoredOf`).
`DuplicatesBounded` is a
counting argument over `OwnInv`: no two entries for a key are of the same worker, and a
worker on its way to another store has none, because it has found none of the key, or has
cleared the key. The field `by`, the worker that stored an entry, is there for this
argument only. `NoUnasked304` needs `ConditionInv`: a condition the
client has not set carries two pairs of quotes, so it equals no tag of the origin
(`QuotedNamesNone`). It is about the origin's answer to a fetch, not about what the
cache sends (section 6).

*CachePolicyProofs.* The policy is that of one of the lines read (`PolicyInv`),
and the age is allowed by one of them (`AgeInv`) — not necessarily by the same one,
which is why `ValidNoLongerThanPermitted` claims that *some* Cache-Control line permits
the lifetime. `PhaseInv` ties what is stored to what the two say. `Allowed` is what
the code takes a line to permit, `private` as the first directive only; it agrees with
`Permitted` except on the lines of `PrivateBehind`, which the theorem names. It
holds for headers of any length and any width of `int`.

*TunnelProofs.* What is kept of a direction is the concatenation of what has been
received, is in the window, in `buf` and unread. The proof says that each step cuts
and joins that sequence without changing it (`Cut`, `HeadMoves`, `AppendAfter`), for
any sizes of reads and windows. It needs that `buf` is empty between two transfers
(`BufferInv`), since both directions share it, and where the early bytes stand (`EarlyInv`).

*RelayProofs.* `RioInv` is about Rio: what is buffered lies within `rio_buf`
(`BufferInv`) and taken, buffered, arrived and unsent bytes are the message. `HandlerInv` is
about its callers: `CallInv` says which call each place of a handler makes, and what
its return value implies (a short result only if the sender is gone and all has been read);
`PassInv` relates `data` and `out` to what has been taken; `HeaderInv` says where in the header the reader
stands (without a line that fills the buffer exactly, each call begins at a word, so
the blank line is recognised if and only if it is the end); `CountInv` that a
counted body ends where its count says. From these, `WholeInv`: a handler that ends has
taken all of a complete message. What is forwarded of a request is `data`, or `data` is
longer than `RequestRoom`, which `Fits` excludes. `StoredAsRelayed` holds under `FramingSeen` only. Without it the
proof does not go through, and TLC has the counterexample: a response with both
framings and, between them, a line whose end is taken for the blank line; the handler then
counts, in an array that ends at a zero byte, what another would read as chunks.

*LogProofs.* That two lines' stamps never meet and that the log is in order rest
on what `WriteLock` stands for: `MutexInv` (it is 0 exactly while one thread is
inside `write`, and at most one is), `WInv` (the same of `W` for the workers in
`writeToCache` or `clearAllInvalidCache`), `StampInv` (only that thread, and main outside `write`, are
between `localtime` and their copy) and `TimeInv` (the time the thread inside has
read is not before the last stamp in the file, and not after `now`).
`OnlyMainSpoils` follows from `MutexInv`; `LogInOrder` is `TimeInv` at `Put`, the one
step that changes `stamp`.

*ProxyProofs.* That a `close` leaves
everyone else's connection open needs that nobody else holds the number. `RecordInv`
says that a request's record is in one place only (main before `insertFd`, one place of the
queue, or one worker) and that uuids below `requestUUID` are used once, so two
records that name one open client's connection are the same; whoever closes a number
forgets it in the same step. `PlaceInv` says which threads can be where.
`OriginInv` says that a request has no open connection to its origin while its
record waits, nor while its worker is anywhere before `socket()`: in the loop over
addresses because each that failed was closed, after a revalidation because
`handleETag` closes its own. So `OnlyOneOriginLeaks` is preserved by each
`socket()`: the request that opens one has none. The
proof has one lemma for each part of the invariant, and lemmas for what `Open` and
`close` do to every other number (`OpenKeeps`, `CloseKeeps`, `OpenNoOrigin`,
`CloseNoOrigin`).

*Induction.* Where an argument runs along a sequence or a list, it is made on a set
of numbers: a set that is not empty has a least element (`LeastExists`, from the
library's theorem about well-founded relations), so what holds of 0 and is handed on
holds up to n (`CountUp`). A recursive function is first shown to exist that way
(`LoopExists`, `WalkExists`). That is why `Without` is such a function and not
`SelectSeq`, which the prover cannot expand.

*Only model-checked:* the liveness properties `AcceptedIsServed`, `CallsReturn`,
`TunnelEnds`, `ServerServed`, `SenderGoneEnds`, `EndsWithMessage`, `EveryClientClosed`
and `WritesReturn`: fairness and ENABLED are out of the prover's reach.

## 5. Not modelled

* `Cache::printCache`, a debugging aid that nothing calls.
* `Rio_writen` failing: no caller looks at its result, so the program goes on as if
  it had succeeded; in Relay it is the append to `out`.
* What is done with the variables of `handleRequest` or of PostHandler's
  `handleResponse` that `strcat` behind the end of an array has overwritten: Relay has
  that it happens and where (`Overrun`, `Damaged`), and lets the process die or what is
  sent be damaged, but follows no further effect. The other arrays of fixed size: the
  first line of a rewritten request, which `sprintf` lays out, and the line that
  `handleETag` adds to `clientRequest` (`GetHandler.cpp:148-160`).
  A Content-Length beyond an `int`.
* `getaddrinfo` failing in `createListenFd`: the host is the machine itself.
  `getaddrinfo` in `createClientFd` is modelled with its failure.
* `Getnameinfo`, `getHostName`, `formatErrorHTML`, `getFirstLine`, `generateUUID`
  and the formatting of times: single library calls or layout.
* The overflow of `front` and `rear` after 2^31 requests: undefined behaviour outside
  what the models reach.
* A thread that dies with a semaphore held: threads die with the process only.

## 6. Where the code and its documentation disagree

With a run that shows it:

1. **The freshest entry is not always at the head** (`get_fresh_at_head`). Two
   workers that miss together store in the order they finish, so the older
   version can come to stand in front; `README.md:240`.
2. **The end of a chunked body is not seen** (`relay_chunked`).
   `RequestHandler.cpp:171` looks for `0\r\n\r\n` within one line of
   `Rio_readlineb`, which ends at the first newline. The loop ends only when the
   sender closes; `GetHandler.cpp:258` says "it will be ended by 0\r\n\r\n". For a
   chunked POST it is the client that would have to close.
3. **`private` is not always respected** (`policy_private`). `CACHE_PRIVATE` is
   `"Cache-Control: private"`, so `GetHandler.cpp:329` finds `private` as the first
   directive of its line only. A response with `max-age=2, private` is stored;
   `README.md:206` lists `private` as recognised, and `GetHandler.cpp:287` has
   "cache needs to stay private" as a reason not to store. `ValidNoLongerThanPermitted`
   holds of all other headers.
4. **A shortened POST is forwarded** (`post_short_body`). Nobody compares what
   `readAndWriteContentLengthData` has read with what was announced;
   `scriptdir/testCases.txt:12-26` wants a bad request.

Read off the code or met while modelling, without a run:

* *Cache.* `Cache.cpp:100` adds `totalSize`, which nothing ever changes from 0;
  `Cache.h:59` and `README.md:215` promise a limit of the whole.
  `clearAllInvalidCache` removes fresh entries of the key too (`Cache.cpp:169`
  against the comment above it).
* *Policy.* must-revalidate is not max-age=0 (`README.md:208-209`): a second
  Cache-Control line undoes the first, and the age an earlier line has set is
  used with the policy of a later one. `no-cache` and `must-revalidate` responses
  are stored with a lifetime of 0 or of an earlier line (`GetHandler.cpp:332`).
  `handleCache` does not look at the status, while `Cache.cpp:29` speaks of the full
  file: a 400 can be stored, and a 304 that answers one client's own condition can be
  stored and sent from the cache to clients that set none. `NoUnasked304` is about what
  the origin answers, and does not cover that.
* *Clock.* An entry whose `writeTime` is ahead of the clock counts as just stored
  (`utilities.cpp:290`): while the clock stands back, it does not age.
* *GET.* `GetHandler.cpp:146` keeps the client's condition, so that a 304 about the
  client's version confirms the proxy's (`GetHandler.cpp:199`). The tag the proxy
  sends of its own is quoted twice, so no origin confirms it
  (`GetHandler.cpp:149`). The `strcat` that ends this line starts at the next zero byte of
  an array that has not been initialised (`GetHandler.cpp:159`), so that other bytes may come
  in between and the origin reject the request (`garbled`). After another status than 304, `handleETag` reads until the
  origin closes (`GetHandler.cpp:179`). A body that ends with the origin's close
  alone, without Content-Length or chunks, is not relayed (`CountBody` with 0).
* *Requests.* `clientRequest` has `MAXLINE` bytes (`proxy.cpp:42`); the header of any
  request (`RequestHandler.cpp:15`) and the body of a POST (`PostHandler.cpp:49`, `:55`) are
  added to it with `strcat`, whatever their length. The same goes for the header of
  an answer in `serverResponse` (`PostHandler.cpp:93`). An announced length becomes an
  array on the stack (`PostHandler.cpp:52`), whatever it is. The properties of Relay
  exclude both by name (`Fits`, `Deadly`).
* *POST.* The body of a chunked answer is dropped (`PostHandler.cpp:102-105`).
* *Rio.* `rio_cnt` is a `size_t` (`Rio.h:18`): the test for a failed read at
  `Rio.cpp:85` never holds, and the calls go on with what the buffer and the memory
  behind it hold. A line of exactly `MAXLINE - 1` bytes leaves its end for the
  next call, which takes it for the blank line after the header.
* *Tunnel.* After a read of exactly `MAXLINE` bytes `ConnectHandler.cpp:106` reads the
  same descriptor again and blocks until that side sends more or ends;
  `README.md:151` says that events are handled as they come, and `ServerServed` how
  far that goes. A failed read adds -1 to `total`, so that `resize` throws or the
  last byte read before is dropped (`ConnectHandler.cpp:111`, against the comment
  at line 97). Bytes that came with a CONNECT header are never forwarded
  (`ConnectHandler.cpp:73`). The end of one direction closes both.
* *Descriptors.* The connection to the origin of a fetch, a POST or a tunnel stays
  open (`GetHandler.cpp:129`); `OnlyOneOriginLeaks` says that no more than that
  does. After a failed `getaddrinfo`, `listp` is followed without having been
  initialised (`utilities.cpp:167`).
* *Log.* main stamps arrivals without the lock (`proxy.cpp:135`,
  `utilities.cpp:259`), and can spoil the stamp of a line being written.

## 7. Plan

Every component with state is modelled, and every safety property that a run checks
is proved. What is left, in this order:

1. GetHandler uses the cache as atomic calls on a sequence of entries. Stating that
   its lookups, clears and stores are steps of ResponseCache would join its
   theorems with `Refinement` of CacheProofs formally; now the two modules share `Entries`
   only.
2. Two independent FIFO pipes as the abstract specification of Tunnel, and one for
   Rio, so that `NothingLostInside` and `NothingLostInRio` become consequences of
   refinements that also bound what is in between.
3. The safety part of what the liveness properties rest on: that no thread
   waits while what it waits for is there (as `CountInv` says of the ring), for Log and
   Cache.
