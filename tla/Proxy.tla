--------------------------------- MODULE Proxy ---------------------------------
(***************************************************************************)
(* main, targetFunc and handleRequest of proxy.cpp with the descriptors of *)
(* the process: createListenFd, Accept, createClientFd and every close.    *)
(* The kernel hands out the lowest number that is free, so a number that   *)
(* one worker closes is the next connection's, of whatever thread.         *)
(*                                                                         *)
(* The SodaMachine is the queue that WorkBufferRefinement shows it to be.  *)
(* Of a handler there is what it does to descriptors; an exchange with the *)
(* client or the origin is one step, which a request in Hanging may never  *)
(* come to.                                                                *)
(***************************************************************************)
EXTENDS Integers, Sequences

CONSTANTS
    Workers,       \* the threads running targetFunc
    Main,          \* the master thread
    Capacity,      \* NUM_BUFFER
    MaxFds,        \* the size of the process's table of descriptors
    MaxAddresses,  \* bound of the model: the length of getaddrinfo's lists
    MaxRequests,   \* bound of the model: connections accepted
    Hanging        \* requests whose exchanges never end

ASSUME ProxyAssumption ==
    /\ Main \notin Workers
    /\ Capacity \in Nat \ {0} /\ MaxFds \in Nat \ {0}
    /\ MaxAddresses \in Nat /\ MaxRequests \in Nat
    /\ Hanging \subseteq Nat

Threads == Workers \cup {Main}
Fds == 0 .. MaxFds - 1
NoFd == -1
Files == [kind : {"closed", "listener", "client", "origin"}, of : Nat]
File(kind, of) == [kind |-> kind, of |-> of]
Closed == File("closed", 0)
Listening == File("listener", 0)
Infos == [uuid : Nat, fd : Fds]
NoInfo == [uuid |-> 0, fd |-> 0]

VARIABLES
    table,         \* what the kernel has behind each descriptor
    crashed,       \* the process is gone
    pc,            \* the place of each thread
    cur,           \* the addresses its loop has left
    clientfd,      \* its socket; in main, listenfd
    caller,        \* where a worker's createClientFd returns to
    info,          \* each thread's ClientInfo
    queue,         \* the SodaMachine
    requestUUID

vars == <<table, crashed, pc, cur, clientfd, caller, info, queue, requestUUID>>

Callers == {"handleETag", "fetch", "handlePost", "handleConn"}
Places ==
    Callers \cup {"socket", "bind", "listen", "accept", "insert",
                  "remove", "request", "resolve", "connect", "close"}

TypeOK ==
    /\ table \in [Fds -> Files]
    /\ crashed \in BOOLEAN
    /\ pc \in [Threads -> Places]
    /\ cur \in [Threads -> 0 .. MaxAddresses]
    /\ clientfd \in [Threads -> Fds \cup {NoFd}]
    /\ caller \in [Workers -> Callers]
    /\ info \in [Threads -> Infos]
    /\ queue \in Seq(Infos) /\ Len(queue) <= Capacity
    /\ requestUUID \in 0 .. MaxRequests

Init ==
    /\ table = [f \in Fds |-> Closed]
    /\ crashed = FALSE
    /\ pc = [t \in Threads |-> IF t = Main THEN "socket" ELSE "remove"]
    /\ cur \in [Threads -> 0 .. MaxAddresses] /\ \A w \in Workers : cur[w] = 0
    /\ clientfd = [t \in Threads |-> NoFd]
    /\ caller = [w \in Workers |-> "fetch"]
    /\ info = [t \in Threads |-> NoInfo]
    /\ queue = <<>>
    /\ requestUUID = 0

-----------------------------------------------------------------------------
At(t, p) == ~crashed /\ pc[t] = p
Go(t, p) == pc' = [pc EXCEPT ![t] = p]

\* The kernel answers with the lowest number that is free.
Open(f, file) ==
    /\ table[f] = Closed
    /\ \A g \in Fds : table[g] = Closed => f <= g
    /\ table' = [table EXCEPT ![f] = file]

close(f) == table' = [table EXCEPT ![f] = Closed]

SocketFrame == UNCHANGED <<crashed, caller, info, queue, requestUUID>>

\* The next address of the list of getaddrinfo.  The next socket() may fail
\* for want of a descriptor, or because the family is not supported.
Socket(t, file, then) ==
    /\ At(t, "socket") /\ cur[t] > 0
    /\ \E f \in Fds : Open(f, file) /\ clientfd' = [clientfd EXCEPT ![t] = f]
    /\ Go(t, then)
    /\ UNCHANGED cur /\ SocketFrame

\* Mutant: the end of the list is not looked for.
SocketFailsOn(t) ==
    /\ At(t, "socket")
    /\ cur' = [cur EXCEPT ![t] = @ - 1]
    /\ UNCHANGED <<table, pc, clientfd>> /\ SocketFrame

SocketFails(t) ==
    /\ At(t, "socket") /\ cur[t] > 0
    /\ cur' = [cur EXCEPT ![t] = @ - 1]
    /\ UNCHANGED <<table, pc, clientfd>> /\ SocketFrame

\* Mutant: the socket that could not be connected stays open.
NextAddressOpen(t, from) ==
    /\ At(t, from)
    /\ cur' = [cur EXCEPT ![t] = @ - 1]
    /\ Go(t, "socket")
    /\ UNCHANGED <<table, clientfd>> /\ SocketFrame

\* bind or connect fails: the socket is closed.
NextAddress(t, from) ==
    /\ At(t, from)
    /\ close(clientfd[t])
    /\ cur' = [cur EXCEPT ![t] = @ - 1]
    /\ Go(t, "socket")
    /\ UNCHANGED clientfd /\ SocketFrame

-----------------------------------------------------------------------------
(***************************************************************************)
(* The master thread.                                                      *)
(***************************************************************************)
Bind ==
    /\ At(Main, "bind")
    /\ Go(Main, "listen")
    /\ UNCHANGED <<table, cur, clientfd>> /\ SocketFrame

Listen ==
    /\ At(Main, "listen")
    /\ Go(Main, "accept")
    /\ \/ UNCHANGED <<table, clientfd>>
       \/ close(clientfd[Main]) /\ clientfd' = [clientfd EXCEPT ![Main] = NoFd]
    /\ UNCHANGED cur /\ SocketFrame

NoListenAddress ==
    /\ At(Main, "socket") /\ cur[Main] = 0
    /\ clientfd' = [clientfd EXCEPT ![Main] = NoFd]
    /\ Go(Main, "accept")
    /\ UNCHANGED <<table, cur>> /\ SocketFrame

createListenFd ==
    \/ Socket(Main, Listening, "bind") \/ SocketFails(Main)
    \/ NextAddress(Main, "bind") \/ Bind \/ Listen \/ NoListenAddress

MainFrame == UNCHANGED <<crashed, cur, caller>>

\* main does not look at what createListenFd returned: accept does.
Accept ==
    /\ At(Main, "accept") /\ clientfd[Main] # NoFd /\ requestUUID < MaxRequests
    /\ \E f \in Fds :
          /\ Open(f, File("client", requestUUID))
          /\ info' = [info EXCEPT ![Main] = [uuid |-> requestUUID, fd |-> f]]
    /\ requestUUID' = requestUUID + 1
    /\ Go(Main, "insert")
    /\ UNCHANGED <<clientfd, queue>> /\ MainFrame

\* Without a descriptor, or for another reason; main tries again.
AcceptFails == At(Main, "accept") /\ UNCHANGED vars

insertFd ==
    /\ At(Main, "insert") /\ Len(queue) < Capacity
    /\ queue' = Append(queue, info[Main])
    /\ Go(Main, "accept")
    /\ UNCHANGED <<table, clientfd, info, requestUUID>> /\ MainFrame

main == Accept \/ AcceptFails \/ insertFd

-----------------------------------------------------------------------------
(***************************************************************************)
(* createClientFd.                                                         *)
(***************************************************************************)
\* A failed getaddrinfo leaves listp as it is, which is not initialised:
\* a null pointer by chance, or none.
Resolve(w) ==
    /\ At(w, "resolve")
    /\ \E n \in 0 .. MaxAddresses : cur' = [cur EXCEPT ![w] = n]
    /\ Go(w, "socket")
    /\ UNCHANGED <<table, clientfd>> /\ SocketFrame

ResolveCrash(w) ==
    /\ At(w, "resolve")
    /\ crashed' = TRUE
    /\ UNCHANGED <<table, pc, cur, clientfd, caller, info, queue, requestUUID>>

Connected(w) ==
    /\ At(w, "connect")
    /\ Go(w, caller[w])
    /\ UNCHANGED <<table, cur, clientfd>> /\ SocketFrame

\* Mutant: `cur == NULL' is not looked at.
NoAddressReturned(w) ==
    /\ At(w, "socket") /\ cur[w] = 0
    /\ Go(w, caller[w])
    /\ UNCHANGED <<table, cur, clientfd>> /\ SocketFrame

NoAddress(w) ==
    /\ At(w, "socket") /\ cur[w] = 0
    /\ clientfd' = [clientfd EXCEPT ![w] = NoFd]
    /\ Go(w, caller[w])
    /\ UNCHANGED <<table, cur>> /\ SocketFrame

createClientFd(w) ==
    \/ Resolve(w) \/ ResolveCrash(w)
    \/ Socket(w, File("origin", info[w].uuid), "connect") \/ SocketFails(w)
    \/ Connected(w) \/ NextAddress(w, "connect") \/ NoAddress(w)

-----------------------------------------------------------------------------
(***************************************************************************)
(* A worker.                                                               *)
(***************************************************************************)
WorkerFrame == UNCHANGED <<crashed, cur, requestUUID>>
Call(w, c) == caller' = [caller EXCEPT ![w] = c] /\ Go(w, "resolve")

removeFd(w) ==
    /\ At(w, "remove") /\ queue # <<>>
    /\ info' = [info EXCEPT ![w] = Head(queue)]
    /\ queue' = Tail(queue)
    /\ Go(w, "request")
    /\ UNCHANGED <<table, clientfd, caller>> /\ WorkerFrame

\* handleRequest, by the first line and by method.  All that is answered
\* without an origin ends at once: no line, 501, a bad request, a response
\* from the cache.
Dispatch(w) ==
    /\ At(w, "request")
    /\ \/ Go(w, "close") /\ UNCHANGED caller
       \/ \E c \in Callers : Call(w, c)
    /\ UNCHANGED <<table, clientfd, info, queue>> /\ WorkerFrame

\* The entry is confirmed and sent, or the request goes on as a fetch.
handleETag(w) ==
    /\ At(w, "handleETag")
    /\ IF clientfd[w] = NoFd THEN UNCHANGED table ELSE close(clientfd[w])
    /\ \/ clientfd[w] # NoFd /\ Go(w, "close") /\ UNCHANGED caller
       \/ Call(w, "fetch")
    /\ UNCHANGED <<clientfd, info, queue>> /\ WorkerFrame

\* 504 without a connection; with one, the exchange, after which clientfd
\* goes out of scope and stays open.
Exchange(w) ==
    /\ pc[w] \in Callers \ {"handleETag"} /\ At(w, pc[w])
    /\ Go(w, "close")
    /\ UNCHANGED <<table, clientfd, caller, info, queue>> /\ WorkerFrame

\* Mutant: the connection to the origin is closed in its place.
CloseOrigin(w) ==
    /\ At(w, "close")
    /\ IF clientfd[w] = NoFd THEN UNCHANGED table ELSE close(clientfd[w])
    /\ Go(w, "remove")
    /\ clientfd' = [clientfd EXCEPT ![w] = NoFd]
    /\ info' = [info EXCEPT ![w] = NoInfo]
    /\ UNCHANGED <<caller, queue>> /\ WorkerFrame

CloseClient(w) ==
    /\ At(w, "close")
    /\ close(info[w].fd)
    /\ Go(w, "remove")
    /\ clientfd' = [clientfd EXCEPT ![w] = NoFd]
    /\ info' = [info EXCEPT ![w] = NoInfo]
    /\ UNCHANGED <<caller, queue>> /\ WorkerFrame

targetFunc(w) ==
    \/ removeFd(w) \/ Dispatch(w) \/ createClientFd(w)
    \/ handleETag(w) \/ Exchange(w) \/ CloseClient(w)

-----------------------------------------------------------------------------
\* No request is left.
Rest ==
    /\ crashed \/ (pc[Main] = "accept" /\ queue = <<>> /\ \A w \in Workers : pc[w] = "remove")
    /\ UNCHANGED vars

Next == createListenFd \/ main \/ Rest \/ \E w \in Workers : targetFunc(w)

\* The scheduler runs every thread.  Clients need not come, and neither they
\* nor an origin need end an exchange of a request in Hanging.
Due(w) ==
    /\ pc[w] \in Callers \cup {"request"} => info[w].uuid \notin Hanging
    /\ targetFunc(w)

SafeSpec == Init /\ [][Next]_vars
Spec == SafeSpec /\ WF_vars(insertFd) /\ \A w \in Workers : WF_vars(Due(w))

-----------------------------------------------------------------------------
(***************************************************************************)
(* Properties.                                                             *)
(***************************************************************************)
Uses(w) == pc[w] \in Callers \cup {"connect"} /\ clientfd[w] # NoFd

\* The descriptor that main, the queue or a worker holds for a request is
\* open and that request's, although numbers are reused as soon as anyone
\* closes them: none is kept beyond its close, and none is closed twice.
NoForeignDescriptor ==
    LET Owned(i) == table[i.fd] = File("client", i.uuid)
    IN  /\ pc[Main] = "insert" => Owned(info[Main])
        /\ \A i \in DOMAIN queue : Owned(queue[i])
        /\ \A w \in Workers :
              /\ pc[w] # "remove" => Owned(info[w])
              /\ Uses(w) => table[clientfd[w]] = File("origin", info[w].uuid)

\* What stays open behind the back of everyone is the connection to the
\* origin of a fetch, a POST or a tunnel, one for a request at most:
\* neither a failed address nor a revalidation leaves another.
OnlyOneOriginLeaks ==
    \A f \in Fds : table[f].kind = "origin" =>
        \A g \in Fds \ {f} : table[g] # table[f]

\* Every accepted connection is closed, also when the descriptors have run
\* out, addresses fail and another request hangs; unless the process has
\* died of a pointer that a failed getaddrinfo did not set.
EveryClientClosed ==
    \A r \in 0 .. MaxRequests - 1 : r \notin Hanging =>
        (requestUUID > r ~> crashed \/ \A f \in Fds : table[f] # File("client", r))
=============================================================================
