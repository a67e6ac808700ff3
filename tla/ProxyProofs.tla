------------------------------ MODULE ProxyProofs ------------------------------
(***************************************************************************)
(* Proofs about the descriptors of the process, for any number of workers, *)
(* requests and descriptors.                                               *)
(*                                                                         *)
(* A number says nothing about whose it is, since it is reused as soon as  *)
(* it is closed.  What keeps the threads off each other's connections is   *)
(* that no two hold a record of the same request, and that whoever closes  *)
(* forgets: the invariant relates each record to what the kernel has       *)
(* behind its number.                                                      *)
(***************************************************************************)
EXTENDS Proxy, TLAPS

MasterPlaces == {"socket", "bind", "listen", "accept", "insert"}
WorkerPlaces == Callers \cup {"remove", "request", "resolve", "socket", "connect", "close"}

Serving(w) == pc[w] # "remove"

PlaceInv ==
    /\ pc[Main] \in MasterPlaces
    /\ \A w \in Workers : pc[w] \in WorkerPlaces
    /\ pc[Main] = "bind" => cur[Main] > 0
    /\ \A w \in Workers : pc[w] = "connect" => cur[w] > 0 /\ clientfd[w] \in Fds
    /\ pc[Main] \in {"bind", "listen"} =>
          clientfd[Main] \in Fds /\ table[clientfd[Main]] = Listening

\* No two hold the record of one request: main, the queue or a worker.
RecordInv ==
    /\ pc[Main] = "insert" => info[Main].uuid < requestUUID
    /\ \A i \in DOMAIN queue :
          /\ queue[i].uuid < requestUUID
          /\ pc[Main] = "insert" => queue[i].uuid # info[Main].uuid
          /\ \A j \in DOMAIN queue : i # j => queue[i].uuid # queue[j].uuid
    /\ \A w \in Workers : Serving(w) =>
          /\ info[w].uuid < requestUUID
          /\ pc[Main] = "insert" => info[w].uuid # info[Main].uuid
          /\ \A i \in DOMAIN queue : info[w].uuid # queue[i].uuid
          /\ \A v \in Workers : v # w /\ Serving(v) => info[w].uuid # info[v].uuid

\* The connection to the origin has been opened for request u.
HasOrigin(u) == \E f \in Fds : table[f] = File("origin", u)

\* w has not come to a socket, or has lost its number.
Without(w) ==
    \/ pc[w] \in {"request", "resolve", "socket"}
    \/ pc[w] = "handleETag" /\ clientfd[w] = NoFd

\* A request for which nobody knows of a connection to an origin has none,
\* unless it has been served.
OriginInv ==
    /\ \A f \in Fds : table[f].kind = "origin" => table[f].of < requestUUID
    /\ pc[Main] = "insert" => ~HasOrigin(info[Main].uuid)
    /\ \A i \in DOMAIN queue : ~HasOrigin(queue[i].uuid)
    /\ \A w \in Workers : Without(w) => ~HasOrigin(info[w].uuid)

IInv ==
    /\ TypeOK /\ PlaceInv /\ RecordInv /\ OriginInv
    /\ NoForeignDescriptor /\ OnlyOneOriginLeaks

-----------------------------------------------------------------------------
(***************************************************************************)
(* What the kernel can have behind a number, and what a record can be.     *)
(***************************************************************************)
LEMMA FilesType ==
    /\ Closed \in Files /\ Listening \in Files
    /\ \A n \in Nat : File("client", n) \in Files /\ File("origin", n) \in Files
BY DEF Files, File, Closed, Listening

LEMMA FilesDiffer ==
    /\ \A n \in Nat :
          /\ File("client", n) \notin {Closed, Listening}
          /\ File("origin", n) \notin {Closed, Listening}
    /\ \A m, n \in Nat :
          /\ File("client", m) # File("origin", n)
          /\ m # n => File("client", m) # File("client", n)
          /\ m # n => File("origin", m) # File("origin", n)
    /\ \A file \in Files : file.kind = "origin" => file.of \in Nat /\ file = File("origin", file.of)
    /\ \A n \in Nat : File("origin", n).kind = "origin" /\ File("origin", n).of = n
    /\ \A n \in Nat : File("client", n).kind # "origin"
    /\ Closed.kind # "origin" /\ Listening.kind # "origin" /\ Closed # Listening
BY DEF Files, File, Closed, Listening

LEMMA InfosType ==
    /\ NoInfo \in Infos
    /\ \A n \in Nat, f \in Fds : [uuid |-> n, fd |-> f] \in Infos
    /\ \A i \in Infos : i.uuid \in Nat /\ i.fd \in Fds
BY ProxyAssumption DEF Infos, NoInfo, Fds

\* What insertFd and removeFd make of the queue.
LEMMA AppendParts ==
    ASSUME NEW i \in Infos, queue \in Seq(Infos), queue' = Append(queue, i)
    PROVE  /\ DOMAIN queue' = DOMAIN queue \cup {Len(queue) + 1}
           /\ \A j \in DOMAIN queue : j # Len(queue) + 1 /\ queue'[j] = queue[j]
           /\ queue'[Len(queue) + 1] = i
OBVIOUS

LEMMA TailParts ==
    ASSUME queue \in Seq(Infos), queue # <<>>, queue' = Tail(queue)
    PROVE  /\ \A i \in DOMAIN queue' :
                 /\ i \in Nat /\ i + 1 \in DOMAIN queue /\ i + 1 # 1
                 /\ queue'[i] = queue[i + 1]
           /\ 1 \in DOMAIN queue /\ Head(queue) = queue[1]
OBVIOUS

LEMMA InitInv == Init => IInv
<1> SUFFICES ASSUME Init PROVE IInv
  OBVIOUS
<1> USE ProxyAssumption DEF Init, Threads
<1>1. TypeOK
  <2>1. table \in [Fds -> Files]
    BY FilesType
  <2>2. info \in [Threads -> Infos]
    BY InfosType
  <2>3. /\ pc \in [Threads -> Places] /\ clientfd \in [Threads -> Fds \cup {NoFd}]
        /\ caller \in [Workers -> Callers]
    BY DEF Places, Callers
  <2>4. crashed \in BOOLEAN
    BY Zenon
  <2>7. requestUUID \in 0 .. MaxRequests
    OBVIOUS
  <2>5. queue \in Seq(Infos) /\ Len(queue) <= Capacity
    OBVIOUS
  <2>6. cur \in [Threads -> 0 .. MaxAddresses]
    OBVIOUS
  <2> QED BY <2>1, <2>2, <2>3, <2>4, <2>5, <2>6, <2>7 DEF TypeOK
<1>2. PlaceInv
  BY DEF PlaceInv, MasterPlaces, WorkerPlaces
<1>3. RecordInv
  BY DEF RecordInv, Serving
<1>4. OriginInv
  BY FilesDiffer DEF OriginInv, HasOrigin, Without
<1>5. NoForeignDescriptor
  BY DEF NoForeignDescriptor, Uses, Callers
<1>6. OnlyOneOriginLeaks
  BY FilesDiffer DEF OnlyOneOriginLeaks
<1> QED BY <1>1, <1>2, <1>3, <1>4, <1>5, <1>6 DEF IInv

-----------------------------------------------------------------------------
(***************************************************************************)
(* Types and places, action by action.                                     *)
(***************************************************************************)
LEMMA TypeStep == TypeOK /\ PlaceInv /\ [Next]_vars => TypeOK'
<1> SUFFICES ASSUME TypeOK, PlaceInv, [Next]_vars PROVE TypeOK'
  OBVIOUS
<1> USE ProxyAssumption, FilesType, InfosType
    DEF TypeOK, At, Go, SocketFrame, MainFrame, WorkerFrame
<1>a. /\ Main \in Threads /\ Workers \subseteq Threads
      /\ Callers \subseteq Places
      /\ {"socket", "bind", "listen", "accept", "insert",
          "remove", "request", "resolve", "connect", "close"} \subseteq Places
  BY DEF Threads, Places
<1>b. \A t \in Threads, p \in Places :
         pc' = [pc EXCEPT ![t] = p] => pc' \in [Threads -> Places]
  OBVIOUS
<1>c. \A w \in Workers, c \in Callers :
         caller' = [caller EXCEPT ![w] = c] => caller' \in [Workers -> Callers]
  OBVIOUS
<1>d. \A t \in Threads : /\ clientfd' = [clientfd EXCEPT ![t] = NoFd]
                         => clientfd' \in [Threads -> Fds \cup {NoFd}]
  OBVIOUS
<1>1. ASSUME NEW t \in Threads, NEW file \in Files, NEW then \in Places, Socket(t, file, then)
      PROVE  TypeOK'
  BY <1>1, <1>a DEF Socket, Open
<1>2. ASSUME NEW t \in Threads, SocketFails(t) PROVE TypeOK'
  BY <1>2, <1>a DEF SocketFails
<1>3. ASSUME NEW t \in Threads, NEW from, NextAddress(t, from), cur[t] > 0
      PROVE TypeOK'
  <2>1. table' \in [Fds -> Files]
    BY <1>3 DEF NextAddress, close
  <2>2. pc' \in [Threads -> Places] /\ cur' \in [Threads -> 0 .. MaxAddresses]
    BY <1>3, <1>a DEF NextAddress
  <2> QED BY <1>3, <2>1, <2>2 DEF NextAddress
<1>4. CASE Bind \/ Listen \/ NoListenAddress
  <2>1. table' \in [Fds -> Files]
    BY <1>4 DEF Bind, Listen, NoListenAddress, close
  <2>2. /\ pc' \in [Threads -> Places]
        /\ clientfd' \in [Threads -> Fds \cup {NoFd}]
    BY <1>4, <1>a, <1>b, <1>d DEF Bind, Listen, NoListenAddress
  <2> QED BY <1>4, <2>1, <2>2 DEF Bind, Listen, NoListenAddress
<1>5. CASE Accept
  BY <1>5, <1>a DEF Accept, Open
<1>6. CASE insertFd
  BY <1>6, <1>a DEF insertFd
<1>7. ASSUME NEW w \in Workers, Resolve(w) \/ ResolveCrash(w)
      PROVE  TypeOK'
  <2>1. CASE Resolve(w)
    <3>1. cur' \in [Threads -> 0 .. MaxAddresses]
      BY <2>1, <1>a DEF Resolve
    <3>2. pc' \in [Threads -> Places]
      BY <2>1, <1>a DEF Resolve
    <3> QED BY <2>1, <3>1, <3>2 DEF Resolve
  <2>2. CASE ResolveCrash(w)
    BY <2>2 DEF ResolveCrash
  <2> QED BY <1>7, <2>1, <2>2
<1>8. ASSUME NEW w \in Workers, Connected(w) \/ NoAddress(w) PROVE TypeOK'
  BY <1>8, <1>a DEF Connected, NoAddress
<1>9. ASSUME NEW w \in Workers, removeFd(w) PROVE TypeOK'
  BY <1>9, <1>a DEF removeFd
<1>10. ASSUME NEW w \in Workers, Dispatch(w) PROVE TypeOK'
  <2>1. pc' \in [Threads -> Places] /\ caller' \in [Workers -> Callers]
    BY <1>10, <1>a, <1>b, <1>c DEF Dispatch, Call
  <2> QED BY <1>10, <2>1 DEF Dispatch
<1>11. ASSUME NEW w \in Workers, handleETag(w) PROVE TypeOK'
  <2>1. pc' \in [Threads -> Places] /\ caller' \in [Workers -> Callers]
    BY <1>11, <1>a, <1>b, <1>c DEF handleETag, Call, Callers
  <2>2. table' \in [Fds -> Files]
    BY <1>11 DEF handleETag, close
  <2> QED BY <1>11, <2>1, <2>2 DEF handleETag
<1>12. ASSUME NEW w \in Workers, Exchange(w) PROVE TypeOK'
  BY <1>12, <1>a DEF Exchange
<1>13. ASSUME NEW w \in Workers, CloseClient(w) PROVE TypeOK'
  BY <1>13, <1>a DEF CloseClient, close
<1>14. CASE UNCHANGED vars
  BY <1>14 DEF vars
<1>15. CASE createListenFd
  BY <1>15, <1>1, <1>2, <1>3, <1>4, <1>a DEF createListenFd, PlaceInv, NextAddress
<1>16. ASSUME NEW w \in Workers, createClientFd(w) PROVE TypeOK'
  BY <1>16, <1>1, <1>2, <1>3, <1>7, <1>8, <1>a DEF createClientFd, PlaceInv, NextAddress
<1> QED
  BY <1>5, <1>6, <1>9, <1>10, <1>11, <1>12, <1>13, <1>14, <1>15, <1>16
     DEF Next, main, AcceptFails, Rest, targetFunc

LEMMA PlaceStep == TypeOK /\ PlaceInv /\ NoForeignDescriptor /\ [Next]_vars => PlaceInv'
<1> SUFFICES ASSUME TypeOK, PlaceInv, NoForeignDescriptor, [Next]_vars PROVE PlaceInv'
  OBVIOUS
<1> USE ProxyAssumption, FilesDiffer
    DEF TypeOK, PlaceInv, MasterPlaces, WorkerPlaces, Callers, At, Go,
        SocketFrame, MainFrame, WorkerFrame
<1>a. Main \in Threads /\ Workers \subseteq Threads /\ Main \notin Workers
  BY DEF Threads
<1>b. \A w \in Workers :
         /\ pc[w] = "connect" => table[clientfd[w]] = File("origin", info[w].uuid)
         /\ pc[w] = "close" => table[info[w].fd] = File("client", info[w].uuid)
         /\ pc[w] = "handleETag" /\ clientfd[w] # NoFd =>
               table[clientfd[w]] = File("origin", info[w].uuid)
  BY DEF NoForeignDescriptor, Uses, NoFd, Fds
<1>c. \A w \in Workers : info[w].uuid \in Nat
  BY <1>a, InfosType
<1>1. CASE createListenFd
  <2>1. CASE Socket(Main, Listening, "bind")
    BY <1>a, <2>1 DEF Socket, Open
  <2>2. CASE SocketFails(Main)
    BY <1>a, <2>2 DEF SocketFails
  <2>3. CASE NextAddress(Main, "bind")
    BY <1>a, <2>3 DEF NextAddress
  <2>4. CASE Bind
    BY <1>a, <2>4 DEF Bind
  <2>6. CASE NoListenAddress
    BY <1>a, <2>6 DEF NoListenAddress
  <2>5. CASE Listen
    BY <1>a, <2>5 DEF Listen, close
  <2> QED BY <1>1, <2>1, <2>2, <2>3, <2>4, <2>5, <2>6 DEF createListenFd
<1>2. CASE main
  <2>1. CASE Accept
    BY <2>1, <1>a DEF Accept
  <2>2. CASE insertFd
    BY <2>2, <1>a DEF insertFd
  <2>3. CASE AcceptFails
    BY <2>3 DEF AcceptFails, vars
  <2> QED BY <1>2, <2>1, <2>2, <2>3 DEF main
<1>3. ASSUME NEW w \in Workers, createClientFd(w) PROVE PlaceInv'
  <2>1. CASE Resolve(w)
    BY <1>a, <2>1 DEF Resolve
  <2>2. CASE ResolveCrash(w)
    BY <1>a, <2>2 DEF ResolveCrash
  <2>3. CASE Socket(w, File("origin", info[w].uuid), "connect")
    BY <1>a, <1>c, <2>3 DEF Socket, Open
  <2>4. CASE SocketFails(w)
    BY <1>a, <2>4 DEF SocketFails
  <2>5. CASE Connected(w)
    BY <1>a, <2>5 DEF Connected
  <2>6. CASE NextAddress(w, "connect")
    BY <1>a, <1>b, <1>c, <2>6 DEF NextAddress, close
  <2>7. CASE NoAddress(w)
    BY <1>a, <2>7 DEF NoAddress
  <2> QED BY <1>3, <2>1, <2>2, <2>3, <2>4, <2>5, <2>6, <2>7 DEF createClientFd
<1>4. ASSUME NEW w \in Workers, removeFd(w) PROVE PlaceInv'
  BY <1>4, <1>a DEF removeFd
<1>5. ASSUME NEW w \in Workers, Dispatch(w) PROVE PlaceInv'
  <2>1. pc'[w] \in {"close", "resolve"} /\ \A v \in Threads \ {w} : pc'[v] = pc[v]
    BY <1>5, <1>a DEF Dispatch, Call
  <2> QED BY <1>5, <1>a, <2>1 DEF Dispatch
<1>6. ASSUME NEW w \in Workers, handleETag(w) PROVE PlaceInv'
  <2>1. pc'[w] \in {"close", "resolve"} /\ \A v \in Threads \ {w} : pc'[v] = pc[v]
    BY <1>6, <1>a DEF handleETag, Call
  <2>2. pc[Main] \in {"bind", "listen"} => table'[clientfd[Main]] = Listening
    BY <1>6, <1>a, <1>b, <1>c DEF handleETag, close
  <2> QED BY <1>6, <1>a, <2>1, <2>2 DEF handleETag
<1>7. ASSUME NEW w \in Workers, Exchange(w) PROVE PlaceInv'
  BY <1>7, <1>a DEF Exchange
<1>8. ASSUME NEW w \in Workers, CloseClient(w) PROVE PlaceInv'
  BY <1>8, <1>a, <1>b, <1>c DEF CloseClient, close
<1>9. CASE UNCHANGED vars
  BY <1>9 DEF vars
<1> QED
  BY <1>1, <1>2, <1>3, <1>4, <1>5, <1>6, <1>7, <1>8, <1>9 DEF Next, Rest, targetFunc

-----------------------------------------------------------------------------
(***************************************************************************)
(* Records.  All but four actions leave every record with its holder.      *)
(***************************************************************************)
RecordsKept ==
    /\ info' = info /\ queue' = queue /\ requestUUID' = requestUUID
    /\ pc'[Main] = "insert" <=> pc[Main] = "insert"
    /\ \A w \in Workers : pc'[w] = "remove" <=> pc[w] = "remove"

LEMMA KeptStep ==
    ASSUME TypeOK, PlaceInv, [Next]_vars
    PROVE  \/ RecordsKept \/ Accept \/ insertFd
           \/ \E w \in Workers : removeFd(w) \/ CloseClient(w)
<1> USE ProxyAssumption DEF RecordsKept, TypeOK, At, Go, SocketFrame, MainFrame, WorkerFrame
<1>a. Main \in Threads /\ Workers \subseteq Threads /\ Main \notin Workers
  BY DEF Threads
<1>1. CASE createListenFd
  <2>1. UNCHANGED <<info, queue, requestUUID>>
    BY <1>1 DEF createListenFd, Socket, SocketFails, NextAddress, Bind, Listen, NoListenAddress
  <2>2. pc[Main] # "insert" /\ pc'[Main] # "insert" /\ \A w \in Workers : pc'[w] = pc[w]
    BY <1>1, <1>a
       DEF createListenFd, Socket, SocketFails, NextAddress, Bind, Listen, NoListenAddress
  <2> QED BY <2>1, <2>2
<1>2. ASSUME NEW w \in Workers, createClientFd(w) PROVE RecordsKept
  <2>1. UNCHANGED <<info, queue, requestUUID>>
    BY <1>2 DEF createClientFd, Resolve, ResolveCrash, Socket, SocketFails, Connected,
         NextAddress, NoAddress
  <2>2. /\ pc[w] # "remove" /\ pc'[w] # "remove"
        /\ \A t \in Threads \ {w} : pc'[t] = pc[t]
    BY <1>2, <1>a DEF createClientFd, Resolve, ResolveCrash, Socket, SocketFails, Connected,
         NextAddress, NoAddress, Callers
  <2> QED BY <1>a, <2>1, <2>2
<1>3. ASSUME NEW w \in Workers, Dispatch(w) \/ handleETag(w) \/ Exchange(w)
      PROVE  RecordsKept
  <2>1. UNCHANGED <<info, queue, requestUUID>>
    BY <1>3 DEF Dispatch, handleETag, Exchange
  <2>2. /\ pc[w] # "remove" /\ pc'[w] # "remove"
        /\ \A t \in Threads \ {w} : pc'[t] = pc[t]
    BY <1>3, <1>a DEF Dispatch, handleETag, Exchange, Call, Callers
  <2> QED BY <1>a, <2>1, <2>2
<1>4. CASE UNCHANGED vars
  BY <1>4 DEF vars
<1> QED
  BY <1>1, <1>2, <1>3, <1>4 DEF Next, main, AcceptFails, Rest, targetFunc

LEMMA RecordStep == TypeOK /\ PlaceInv /\ RecordInv /\ [Next]_vars => RecordInv'
<1> SUFFICES ASSUME TypeOK, PlaceInv, RecordInv, [Next]_vars PROVE RecordInv'
  OBVIOUS
<1> USE ProxyAssumption DEF TypeOK, RecordInv, Serving, At, Go, MainFrame, WorkerFrame
<1>a. Main \in Threads /\ Workers \subseteq Threads /\ Main \notin Workers
  BY DEF Threads
<1>b. \A i \in DOMAIN queue : queue[i] \in Infos /\ queue[i].uuid \in Nat
  BY InfosType
<1>1. CASE RecordsKept
  BY <1>1 DEF RecordsKept
<1>2. CASE Accept
  <2>1. /\ info'[Main].uuid = requestUUID /\ requestUUID' = requestUUID + 1
        /\ queue' = queue
        /\ \A w \in Workers : info'[w] = info[w] /\ pc'[w] = pc[w]
    BY <1>2, <1>a DEF Accept
  <2>2. requestUUID \in Nat /\ \A w \in Workers : info[w].uuid \in Nat
    BY <1>a, InfosType
  <2>3. \A i \in DOMAIN queue : queue[i].uuid < requestUUID
    OBVIOUS
  <2>4. /\ \A i \in DOMAIN queue' :
              /\ queue'[i].uuid < requestUUID'
              /\ queue'[i].uuid # info'[Main].uuid
              /\ \A j \in DOMAIN queue' : i # j => queue'[i].uuid # queue'[j].uuid
        /\ info'[Main].uuid < requestUUID'
    BY <1>b, <2>1, <2>2, <2>3
  <2>5. ASSUME NEW w \in Workers, pc'[w] # "remove"
        PROVE  /\ info'[w].uuid < requestUUID'
               /\ info'[w].uuid # info'[Main].uuid
               /\ \A i \in DOMAIN queue' : info'[w].uuid # queue'[i].uuid
               /\ \A v \in Workers : v # w /\ pc'[v] # "remove" => info'[w].uuid # info'[v].uuid
    <3>1. info[w].uuid < requestUUID /\ info'[w] = info[w]
      BY <2>1, <2>5
    <3>2. \A i \in DOMAIN queue : info[w].uuid # queue[i].uuid
      BY <2>1, <2>5
    <3>3. \A v \in Workers : v # w /\ pc[v] # "remove" => info[w].uuid # info[v].uuid
      BY <2>1, <2>5
    <3> QED BY <2>1, <2>2, <3>1, <3>2, <3>3
  <2> QED BY <2>4, <2>5
<1>3. CASE insertFd
  <2>1. /\ info' = info /\ requestUUID' = requestUUID /\ pc[Main] = "insert"
        /\ queue' = Append(queue, info[Main])
        /\ pc'[Main] = "accept" /\ \A w \in Workers : pc'[w] = pc[w]
    BY <1>3, <1>a DEF insertFd
  <2>2. /\ DOMAIN queue' = DOMAIN queue \cup {Len(queue) + 1}
        /\ \A i \in DOMAIN queue : i # Len(queue) + 1 /\ queue'[i] = queue[i]
        /\ queue'[Len(queue) + 1] = info[Main]
    <3>1. info[Main] \in Infos
      BY <1>a
    <3> QED BY <2>1, <3>1, AppendParts
  <2> QED BY <2>1, <2>2
<1>4. ASSUME NEW w \in Workers, removeFd(w) PROVE RecordInv'
  <2>1. /\ requestUUID' = requestUUID /\ info'[w] = Head(queue) /\ queue # <<>>
        /\ queue' = Tail(queue) /\ info'[Main] = info[Main] /\ pc'[Main] = pc[Main]
        /\ \A v \in Workers \ {w} : info'[v] = info[v] /\ pc'[v] = pc[v]
    BY <1>4, <1>a DEF removeFd
  <2>2. /\ \A i \in DOMAIN queue' :
              /\ i \in Nat /\ i + 1 \in DOMAIN queue /\ i + 1 # 1
              /\ queue'[i] = queue[i + 1]
        /\ 1 \in DOMAIN queue /\ Head(queue) = queue[1]
    BY <2>1, TailParts
  <2>3. \A i, j \in DOMAIN queue' : i # j => i + 1 # j + 1
    BY <2>2
  <2>4. \A i \in DOMAIN queue' :
          /\ queue'[i].uuid < requestUUID'
          /\ pc'[Main] = "insert" => queue'[i].uuid # info'[Main].uuid
          /\ \A j \in DOMAIN queue' : i # j => queue'[i].uuid # queue'[j].uuid
    BY <2>1, <2>2, <2>3
  <2>5. /\ info'[w].uuid < requestUUID'
        /\ pc'[Main] = "insert" => info'[w].uuid # info'[Main].uuid
        /\ \A i \in DOMAIN queue' : info'[w].uuid # queue'[i].uuid
        /\ \A v \in Workers \ {w} : pc[v] # "remove" => info'[w].uuid # info[v].uuid
    BY <2>1, <2>2
  <2>6. pc'[Main] = "insert" => info'[Main].uuid < requestUUID'
    BY <2>1
  <2>7. ASSUME NEW v \in Workers \ {w}, pc'[v] # "remove"
        PROVE  /\ info'[v].uuid < requestUUID'
               /\ pc'[Main] = "insert" => info'[v].uuid # info'[Main].uuid
               /\ \A i \in DOMAIN queue' : info'[v].uuid # queue'[i].uuid
               /\ \A u \in Workers : u # v /\ pc'[u] # "remove" => info'[v].uuid # info'[u].uuid
    <3>1. info[v].uuid < requestUUID /\ info'[v] = info[v] /\ pc[v] # "remove"
      BY <2>1, <2>7
    <3>2. pc[Main] = "insert" => info[v].uuid # info[Main].uuid
      BY <3>1
    <3>3. \A i \in DOMAIN queue : info[v].uuid # queue[i].uuid
      BY <3>1
    <3>4. \A u \in Workers : u # v /\ pc[u] # "remove" => info[v].uuid # info[u].uuid
      BY <3>1
    <3>5. info'[v].uuid # info'[w].uuid
      BY <2>5, <3>1
    <3>6. \A i \in DOMAIN queue' : info'[v].uuid # queue'[i].uuid
      BY <2>2, <3>1, <3>3
    <3> QED BY <2>1, <3>1, <3>2, <3>4, <3>5, <3>6
  <2>8. \A v \in Workers : v # w /\ pc'[v] # "remove" => info'[w].uuid # info'[v].uuid
    BY <2>1, <2>5
  <2>9. \A v \in Workers : v = w \/ v \in Workers \ {w}
    OBVIOUS
  <2> HIDE DEF TypeOK
  <2> QED BY <2>4, <2>5, <2>6, <2>7, <2>8, <2>9
<1>5. ASSUME NEW w \in Workers, CloseClient(w) PROVE RecordInv'
  <2>1. /\ requestUUID' = requestUUID /\ queue' = queue /\ pc'[w] = "remove"
        /\ info'[Main] = info[Main] /\ pc'[Main] = pc[Main]
        /\ \A v \in Workers \ {w} : info'[v] = info[v] /\ pc'[v] = pc[v]
    BY <1>5, <1>a DEF CloseClient
  <2> QED BY <2>1
<1> QED BY <1>1, <1>2, <1>3, <1>4, <1>5, KeptStep

-----------------------------------------------------------------------------
(***************************************************************************)
(* Descriptors.  A step that moves no record need only leave the clients'  *)
(* connections alone and give nobody else's number to an exchange.         *)
(***************************************************************************)
Owned(i) == table[i.fd] = File("client", i.uuid)
ClientsKept == \A g \in Fds, n \in Nat : table[g] = File("client", n) => table'[g] = table[g]
UsesOwn(w) == Uses(w) => table[clientfd[w]] = File("origin", info[w].uuid)

LEMMA ForeignParts ==
    NoForeignDescriptor <=>
        /\ pc[Main] = "insert" => Owned(info[Main])
        /\ \A i \in DOMAIN queue : Owned(queue[i])
        /\ \A w \in Workers : (Serving(w) => Owned(info[w])) /\ UsesOwn(w)
BY DEF NoForeignDescriptor, Owned, UsesOwn, Serving

LEMMA ForeignKept ==
    ASSUME TypeOK, NoForeignDescriptor, RecordsKept, ClientsKept,
           \A w \in Workers : UsesOwn(w)'
    PROVE  NoForeignDescriptor'
<1>1. \A i \in Infos : Owned(i) => table'[i.fd] = File("client", i.uuid)
  BY InfosType DEF Owned, ClientsKept
<1>2. /\ info[Main] \in Infos /\ \A w \in Workers : info[w] \in Infos
      /\ \A i \in DOMAIN queue : queue[i] \in Infos
  BY DEF TypeOK, Threads
<1>3. /\ pc'[Main] = "insert" => table'[info'[Main].fd] = File("client", info'[Main].uuid)
      /\ \A i \in DOMAIN queue' : table'[queue'[i].fd] = File("client", queue'[i].uuid)
      /\ \A w \in Workers : pc'[w] # "remove" =>
            table'[info'[w].fd] = File("client", info'[w].uuid)
  BY <1>1, <1>2, ForeignParts DEF RecordsKept, Serving
<1> QED BY <1>3 DEF NoForeignDescriptor, UsesOwn

\* Opening a free number and closing one that is not a client's disturb no
\* client's connection, and no origin's but the one closed.
LEMMA OpenKeeps ==
    ASSUME TypeOK, NEW f \in Fds, NEW file, Open(f, file)
    PROVE  /\ ClientsKept
           /\ \A g \in Fds, n \in Nat : table[g] = File("origin", n) => table'[g] = table[g]
BY FilesDiffer DEF Open, ClientsKept, TypeOK

LEMMA CloseKeeps ==
    ASSUME TypeOK, NEW f \in Fds, close(f)
    PROVE  \A g \in Fds : table[g] # table[f] => table'[g] = table[g]
BY DEF close, TypeOK

\* The workers that do not move keep what they use.
LEMMA OthersUseOwn ==
    ASSUME TypeOK, RecordInv, NoForeignDescriptor, NEW S \in SUBSET Workers, info' = info,
           \A w \in S : pc'[w] = pc[w] /\ clientfd'[w] = clientfd[w],
           \A g \in Fds, w \in S :
              Serving(w) /\ table[g] = File("origin", info[w].uuid) => table'[g] = table[g]
    PROVE  \A w \in S : UsesOwn(w)'
<1> TAKE w \in S
<1>1. w \in Workers /\ w \in Threads
  BY DEF Threads
<1>2. Uses(w)' => Uses(w) /\ Serving(w) /\ clientfd[w] \in Fds
  BY <1>1 DEF Uses, TypeOK, Serving, Callers
<1>3. UsesOwn(w)
  BY <1>1, ForeignParts
<1> QED BY <1>2, <1>3 DEF UsesOwn

\* A worker's own steps outside removeFd and CloseClient.
LEMMA ForeignWorker ==
    ASSUME TypeOK, PlaceInv, RecordInv, NoForeignDescriptor, NEW w \in Workers, RecordsKept,
           \/ createClientFd(w) \/ Dispatch(w) \/ handleETag(w) \/ Exchange(w)
    PROVE  NoForeignDescriptor'
<1> USE DEF At, Go, SocketFrame, WorkerFrame
<1>a. w \in Threads /\ info[w].uuid \in Nat /\ info' = info /\ pc \in [Threads -> Places]
      /\ clientfd \in [Threads -> Fds \cup {NoFd}] /\ info[w] \in Infos
      /\ Workers \subseteq Threads
  BY InfosType DEF TypeOK, Threads, RecordsKept
<1>b. UsesOwn(w)
  BY ForeignParts
<1>0. \A v \in Workers \ {w} : pc'[v] = pc[v] /\ clientfd'[v] = clientfd[v]
  BY <1>a DEF createClientFd, Resolve, ResolveCrash, Socket, SocketFails, Connected,
     NextAddress, NoAddress, Dispatch, handleETag, Exchange, Call
<1>1. CASE table' = table
  <2>1. UsesOwn(w)'
    <3>1. CASE Resolve(w) \/ Dispatch(w) \/ handleETag(w) \/ Exchange(w) \/ SocketFails(w)
      <4>1. pc'[w] \notin Callers \cup {"connect"}
        BY <1>a, <3>1 DEF Resolve, Dispatch, handleETag, Exchange, SocketFails, Call, Callers
      <4> QED BY <4>1 DEF UsesOwn, Uses
    <3>2. CASE ResolveCrash(w)
      BY <3>2, <1>1, <1>a, <1>b DEF ResolveCrash, UsesOwn, Uses
    <3>3. CASE Connected(w)
      BY <3>3, <1>1, <1>a, <1>b DEF Connected, UsesOwn, Uses
    <3>4. CASE NoAddress(w)
      BY <3>4, <1>a DEF NoAddress, UsesOwn, Uses
    <3>5. CASE Socket(w, File("origin", info[w].uuid), "connect")
      BY <3>5, <1>1, <1>a, FilesDiffer DEF Socket, Open, TypeOK
    <3>6. CASE NextAddress(w, "connect")
      BY <3>6, <1>a DEF NextAddress, UsesOwn, Uses, Callers
    <3> QED BY <3>1, <3>2, <3>3, <3>4, <3>5, <3>6 DEF createClientFd
  <2>2. \A v \in Workers \ {w} : UsesOwn(v)'
    BY <1>1, <1>0, <1>a, OthersUseOwn
  <2> QED BY <2>1, <2>2, <1>1, ForeignKept DEF ClientsKept
<1>2. CASE Socket(w, File("origin", info[w].uuid), "connect")
  <2>1. PICK f \in Fds : Open(f, File("origin", info[w].uuid))
                         /\ clientfd' = [clientfd EXCEPT ![w] = f]
    BY <1>2 DEF Socket
  <2>2. UsesOwn(w)'
    BY <2>1, <1>a DEF UsesOwn, Open, TypeOK
  <2>3. \A v \in Workers \ {w} : UsesOwn(v)'
    <3>1. \A g \in Fds, v \in Workers \ {w} :
            table[g] = File("origin", info[v].uuid) => table'[g] = table[g]
      BY <2>1, OpenKeeps, <1>a, InfosType DEF TypeOK
    <3> QED BY <3>1, <1>0, <1>a, OthersUseOwn
  <2> QED BY <2>1, <2>2, <2>3, OpenKeeps, ForeignKept
<1>3. CASE pc[w] \in {"connect", "handleETag"} /\ clientfd[w] \in Fds /\ close(clientfd[w])
           /\ pc'[w] \notin Callers \cup {"connect"}
  <2>1. table[clientfd[w]] = File("origin", info[w].uuid)
    BY <1>3, <1>b, ProxyAssumption DEF UsesOwn, Uses, Callers, Fds, NoFd
  <2>2. \A g \in Fds : table[g] # File("origin", info[w].uuid) => table'[g] = table[g]
    BY <1>3, <2>1, CloseKeeps
  <2>3. ClientsKept
    BY <2>2, <1>a, FilesDiffer DEF ClientsKept
  <2>4. \A v \in Workers \ {w} : UsesOwn(v)'
    <3>1. \A v \in Workers \ {w} : Serving(v) =>
            info[v].uuid \in Nat /\ File("origin", info[v].uuid) # File("origin", info[w].uuid)
      <4>1. Serving(w)
        BY <1>3 DEF Serving
      <4>2. \A v \in Workers \ {w} : Serving(v) => info[v].uuid # info[w].uuid
        BY <4>1 DEF RecordInv
      <4>3. \A v \in Workers : info[v].uuid \in Nat
        BY InfosType, <1>a DEF TypeOK
      <4> QED BY <4>2, <4>3, <1>a, FilesDiffer
    <3> QED BY <2>2, <3>1, <1>0, <1>a, OthersUseOwn
  <2>5. UsesOwn(w)'
    BY <1>3 DEF UsesOwn, Uses
  <2> QED BY <2>3, <2>4, <2>5, ForeignKept
<1>4. CASE NextAddress(w, "connect")
  <2>1. clientfd[w] \in Fds /\ pc'[w] = "socket"
    BY <1>4, <1>a DEF NextAddress, PlaceInv
  <2> QED BY <1>3, <1>4, <2>1 DEF NextAddress, Callers
<1>5. CASE handleETag(w)
  <2>1. pc'[w] \in {"close", "resolve"}
    BY <1>5, <1>a DEF handleETag, Call
  <2>2. CASE clientfd[w] = NoFd
    BY <1>1, <1>5, <2>2 DEF handleETag
  <2>3. CASE clientfd[w] # NoFd
    BY <1>3, <1>5, <2>1, <2>3, <1>a DEF handleETag, Callers
  <2> QED BY <2>2, <2>3
<1> QED
  BY <1>1, <1>2, <1>4, <1>5 DEF createClientFd, Resolve, ResolveCrash, SocketFails, Connected,
     NoAddress, Dispatch, Exchange

LEMMA ForeignListen ==
    ASSUME TypeOK, PlaceInv, RecordInv, NoForeignDescriptor, RecordsKept, createListenFd
    PROVE  NoForeignDescriptor'
<1> USE DEF At, Go, SocketFrame
<1>a. /\ info' = info /\ Workers \subseteq Threads /\ pc \in [Threads -> Places]
      /\ \A w \in Workers : info[w].uuid \in Nat
      /\ clientfd \in [Threads -> Fds \cup {NoFd}] /\ Main \in Threads /\ Main \notin Workers
  BY ProxyAssumption, InfosType DEF TypeOK, Threads, RecordsKept
<1>0. \A w \in Workers : pc'[w] = pc[w] /\ clientfd'[w] = clientfd[w]
  BY <1>a DEF createListenFd, Socket, SocketFails, NextAddress, Bind, Listen, NoListenAddress
<1>1. ASSUME ClientsKept,
             \A g \in Fds, w \in Workers :
                table[g] = File("origin", info[w].uuid) => table'[g] = table[g]
      PROVE  NoForeignDescriptor'
  BY <1>1, <1>0, <1>a, OthersUseOwn, ForeignKept
<1>2. CASE Socket(Main, Listening, "bind")
  BY <1>1, <1>2, <1>a, OpenKeeps DEF Socket
<1>3. CASE table' = table
  BY <1>1, <1>3 DEF ClientsKept
<1>4. CASE clientfd[Main] \in Fds /\ table[clientfd[Main]] = Listening /\ close(clientfd[Main])
  <2>1. \A g \in Fds : table[g] # Listening => table'[g] = table[g]
    BY <1>4, CloseKeeps
  <2>2. ClientsKept
    BY <2>1, FilesDiffer DEF ClientsKept
  <2>3. \A g \in Fds, w \in Workers :
          table[g] = File("origin", info[w].uuid) => table'[g] = table[g]
    BY <2>1, <1>a, FilesDiffer
  <2> QED BY <1>1, <2>2, <2>3
<1> QED
  BY <1>2, <1>3, <1>4 DEF createListenFd, SocketFails, NextAddress, Bind, Listen,
     NoListenAddress, PlaceInv

LEMMA ForeignStep ==
    TypeOK /\ PlaceInv /\ RecordInv /\ NoForeignDescriptor /\ [Next]_vars => NoForeignDescriptor'
<1> SUFFICES ASSUME TypeOK, PlaceInv, RecordInv, NoForeignDescriptor, [Next]_vars
             PROVE  NoForeignDescriptor'
  OBVIOUS
<1> USE DEF At, Go, MainFrame, WorkerFrame
<1>a. /\ Workers \subseteq Threads /\ Main \in Threads /\ Main \notin Workers
      /\ \A t \in Threads : info[t] \in Infos /\ info[t].uuid \in Nat /\ info[t].fd \in Fds
      /\ \A i \in DOMAIN queue : queue[i] \in Infos /\ queue[i].uuid \in Nat /\ queue[i].fd \in Fds
      /\ pc \in [Threads -> Places] /\ info \in [Threads -> Infos] /\ table \in [Fds -> Files]
      /\ requestUUID \in Nat /\ clientfd \in [Threads -> Fds \cup {NoFd}]
      /\ queue \in Seq(Infos)
  BY ProxyAssumption, InfosType DEF TypeOK, Threads
<1>b. /\ pc[Main] = "insert" => Owned(info[Main])
      /\ \A i \in DOMAIN queue : Owned(queue[i])
      /\ \A w \in Workers : (Serving(w) => Owned(info[w])) /\ UsesOwn(w)
  BY ForeignParts
<1>1. CASE RecordsKept
  <2>1. CASE UNCHANGED vars
    BY <2>1 DEF vars, NoForeignDescriptor, Uses
  <2>2. CASE createListenFd
    BY <1>1, <2>2, ForeignListen
  <2>3. ASSUME NEW w \in Workers, targetFunc(w) PROVE NoForeignDescriptor'
    <3>1. ~removeFd(w) /\ ~CloseClient(w)
      BY <1>1, <1>a DEF RecordsKept, removeFd, CloseClient
    <3> QED BY <1>1, <2>3, <3>1, ForeignWorker DEF targetFunc
  <2>4. ~Accept /\ ~insertFd
    BY <1>1, <1>a DEF RecordsKept, Accept, insertFd
  <2> QED BY <2>1, <2>2, <2>3, <2>4 DEF Next, main, AcceptFails, Rest
<1>2. CASE Accept
  <2>1. PICK f \in Fds : /\ Open(f, File("client", requestUUID))
                         /\ info' = [info EXCEPT ![Main] = [uuid |-> requestUUID, fd |-> f]]
    BY <1>2 DEF Accept
  <2>2. /\ queue' = queue /\ clientfd' = clientfd
        /\ \A w \in Workers : info'[w] = info[w] /\ pc'[w] = pc[w]
    BY <1>2, <2>1, <1>a DEF Accept
  <2>3. Owned(info[Main])'
    BY <2>1, <1>a DEF Owned, Open
  <2>4. /\ ClientsKept
        /\ \A g \in Fds, n \in Nat : table[g] = File("origin", n) => table'[g] = table[g]
    BY <2>1, OpenKeeps
  <2>5. \A i \in DOMAIN queue' : table'[queue'[i].fd] = File("client", queue'[i].uuid)
    BY <2>2, <2>4, <1>a, <1>b DEF Owned, ClientsKept
  <2>6. \A w \in Workers : pc'[w] # "remove" => table'[info'[w].fd] = File("client", info'[w].uuid)
    BY <2>2, <2>4, <1>a, <1>b DEF Owned, ClientsKept, Serving
  <2>7. \A w \in Workers : UsesOwn(w)'
    BY <2>2, <2>4, <1>a, <1>b DEF UsesOwn, Uses
  <2> QED BY <2>3, <2>5, <2>6, <2>7 DEF NoForeignDescriptor, Owned, UsesOwn
<1>3. CASE insertFd
  <2>1. /\ queue' = Append(queue, info[Main]) /\ table' = table /\ info' = info
        /\ clientfd' = clientfd /\ pc[Main] = "insert" /\ pc'[Main] = "accept"
        /\ \A w \in Workers : pc'[w] = pc[w]
    BY <1>3, <1>a DEF insertFd
  <2>2. \A i \in DOMAIN queue' :
          queue'[i] = info[Main] \/ (i \in DOMAIN queue /\ queue'[i] = queue[i])
    BY <2>1, <1>a, AppendParts
  <2> QED BY <2>1, <2>2, <1>a, <1>b DEF NoForeignDescriptor, Owned, UsesOwn, Uses, Serving
<1>4. ASSUME NEW w \in Workers, removeFd(w) PROVE NoForeignDescriptor'
  <2>1. /\ queue' = Tail(queue) /\ table' = table /\ queue # <<>>
        /\ clientfd' = clientfd /\ pc'[w] = "request" /\ info'[w] = Head(queue)
        /\ \A v \in Threads \ {w} : pc'[v] = pc[v] /\ info'[v] = info[v]
    BY <1>4, <1>a DEF removeFd
  <2>2. /\ \A i \in DOMAIN queue' : i + 1 \in DOMAIN queue /\ queue'[i] = queue[i + 1]
        /\ 1 \in DOMAIN queue /\ Head(queue) = queue[1]
    BY <2>1, <1>a, TailParts
  <2>3. Owned(info[w])' /\ ~Uses(w)'
    BY <2>1, <2>2, <1>b DEF Owned, Uses, Callers
  <2>4. \A v \in Workers \ {w} : (Serving(v)' => Owned(info[v])') /\ UsesOwn(v)'
    BY <2>1, <1>a, <1>b DEF Owned, UsesOwn, Uses, Serving
  <2>5. /\ pc'[Main] = "insert" => Owned(info[Main])'
        /\ \A i \in DOMAIN queue' : table'[queue'[i].fd] = File("client", queue'[i].uuid)
    BY <2>1, <2>2, <1>a, <1>b DEF Owned
  <2> QED BY <2>3, <2>4, <2>5 DEF NoForeignDescriptor, Owned, UsesOwn, Serving
<1>5. ASSUME NEW w \in Workers, CloseClient(w) PROVE NoForeignDescriptor'
  <2>1. /\ queue' = queue /\ close(info[w].fd) /\ pc[w] = "close" /\ pc'[w] = "remove"
        /\ \A v \in Threads \ {w} :
              pc'[v] = pc[v] /\ info'[v] = info[v] /\ clientfd'[v] = clientfd[v]
    BY <1>5, <1>a DEF CloseClient
  <2>2. table[info[w].fd] = File("client", info[w].uuid) /\ Serving(w)
    BY <2>1, <1>b DEF Owned, Serving
  <2>3. \A g \in Fds : table[g] # File("client", info[w].uuid) => table'[g] = table[g]
    BY <2>1, <2>2, <1>a, CloseKeeps
  <2>4. \A n \in Nat : n # info[w].uuid => File("client", n) # File("client", info[w].uuid)
    BY <1>a, FilesDiffer
  <2>5. pc'[Main] = "insert" => Owned(info[Main])'
    <3>1. pc[Main] = "insert" => info[Main].uuid # info[w].uuid
      BY <2>2 DEF RecordInv
    <3> QED BY <3>1, <2>1, <2>3, <2>4, <1>a, <1>b DEF Owned
  <2>6. \A i \in DOMAIN queue' : table'[queue'[i].fd] = File("client", queue'[i].uuid)
    <3>1. \A i \in DOMAIN queue : queue[i].uuid # info[w].uuid
      BY <2>2 DEF RecordInv
    <3> QED BY <3>1, <2>1, <2>3, <2>4, <1>a, <1>b DEF Owned
  <2>7. \A v \in Workers \ {w} : pc'[v] # "remove" => Owned(info[v])'
    <3>1. \A v \in Workers \ {w} : Serving(v) => info[v].uuid # info[w].uuid
      BY <2>2 DEF RecordInv
    <3> QED BY <3>1, <2>1, <2>3, <2>4, <1>a, <1>b DEF Owned, Serving
  <2>8. \A v \in Workers \ {w} : UsesOwn(v)'
    <3>1. \A n \in Nat : File("origin", n) # File("client", info[w].uuid)
      BY <1>a, FilesDiffer
    <3> QED BY <3>1, <2>1, <2>3, <1>a, <1>b DEF UsesOwn, Uses
  <2> QED BY <2>1, <2>5, <2>6, <2>7, <2>8 DEF NoForeignDescriptor, Owned, UsesOwn, Uses, Callers
<1> QED BY <1>1, <1>2, <1>3, <1>4, <1>5, KeptStep

-----------------------------------------------------------------------------
(***************************************************************************)
(* Connections to origins.                                                 *)
(***************************************************************************)
LEMMA LeakParts ==
    ASSUME TypeOK
    PROVE  OnlyOneOriginLeaks <=>
              \A f, g \in Fds, n \in Nat :
                 table[f] = File("origin", n) /\ table[g] = File("origin", n) => f = g
<1>1. \A f \in Fds : table[f] \in Files
  BY DEF TypeOK
<1>2. ASSUME OnlyOneOriginLeaks, NEW f \in Fds, NEW g \in Fds, NEW n \in Nat,
             table[f] = File("origin", n), table[g] = File("origin", n)
      PROVE  f = g
  BY <1>2, FilesDiffer DEF OnlyOneOriginLeaks
<1>3. ASSUME \A f, g \in Fds, n \in Nat :
                table[f] = File("origin", n) /\ table[g] = File("origin", n) => f = g,
             NEW f \in Fds, table[f].kind = "origin", NEW g \in Fds \ {f}
      PROVE  table[g] # table[f]
  <2>1. table[f].of \in Nat /\ table[f] = File("origin", table[f].of)
    BY <1>1, <1>3, FilesDiffer
  <2> QED BY <1>3, <2>1
<1> QED BY <1>2, <1>3 DEF OnlyOneOriginLeaks

HasOriginNext(u) == \E f \in Fds : table'[f] = File("origin", u)

NoNewOrigin ==
    /\ \A f \in Fds, n \in Nat : table'[f] = File("origin", n) => table[f] = File("origin", n)
    /\ requestUUID' >= requestUUID

LEMMA NoNewOriginKeeps ==
    ASSUME TypeOK, TypeOK', OriginInv, OnlyOneOriginLeaks, NoNewOrigin
    PROVE  /\ OnlyOneOriginLeaks'
           /\ \A f \in Fds : table'[f].kind = "origin" => table'[f].of < requestUUID'
           /\ \A n \in Nat : ~HasOrigin(n) => ~HasOriginNext(n)
<1>1. \A f, g \in Fds, n \in Nat :
        table'[f] = File("origin", n) /\ table'[g] = File("origin", n) => f = g
  BY LeakParts DEF NoNewOrigin
<1>2. OnlyOneOriginLeaks'
  <2>1. \A f \in Fds : table'[f] \in Files
    BY DEF TypeOK
  <2>2. ASSUME NEW f \in Fds, table'[f].kind = "origin", NEW g \in Fds \ {f}
        PROVE  table'[g] # table'[f]
    <3>1. table'[f].of \in Nat /\ table'[f] = File("origin", table'[f].of)
      BY <2>1, <2>2, FilesDiffer
    <3> QED BY <1>1, <2>2, <3>1
  <2> QED BY <2>2 DEF OnlyOneOriginLeaks
<1>3. ASSUME NEW f \in Fds, table'[f].kind = "origin"
      PROVE  table'[f].of < requestUUID'
  <2>1. table'[f].of \in Nat /\ table'[f] = File("origin", table'[f].of)
    BY <1>3, FilesDiffer DEF TypeOK
  <2>2. table[f] = table'[f]
    BY <2>1 DEF NoNewOrigin
  <2>3. table[f].of < requestUUID
    BY <1>3, <2>2 DEF OriginInv
  <2>4. requestUUID \in Nat /\ requestUUID' \in Nat
    BY ProxyAssumption DEF TypeOK
  <2> QED BY <2>1, <2>2, <2>3, <2>4 DEF NoNewOrigin
<1>4. \A n \in Nat : ~HasOrigin(n) => ~HasOriginNext(n)
  BY DEF HasOrigin, HasOriginNext, NoNewOrigin
<1> QED BY <1>2, <1>3, <1>4

\* Closing the only one leaves none.
LEMMA CloseLast ==
    ASSUME TypeOK, OnlyOneOriginLeaks, NEW n \in Nat, NEW f \in Fds,
           table[f] = File("origin", n), close(f)
    PROVE  ~HasOriginNext(n)
<1>1. \A g \in Fds : g # f => table[g] # File("origin", n)
  BY LeakParts
<1>2. table'[f] = Closed /\ \A g \in Fds : g # f => table'[g] = table[g]
  BY DEF close, TypeOK
<1> QED BY <1>1, <1>2, FilesDiffer DEF HasOriginNext

LEMMA OpenNoOrigin ==
    ASSUME TypeOK, NEW f \in Fds, NEW file, Open(f, file), \A n \in Nat : file # File("origin", n)
    PROVE  \A g \in Fds, n \in Nat : table'[g] = File("origin", n) => table[g] = File("origin", n)
BY DEF Open, TypeOK

LEMMA CloseNoOrigin ==
    ASSUME TypeOK, NEW f, close(f)
    PROVE  \A g \in Fds, n \in Nat : table'[g] = File("origin", n) => table[g] = File("origin", n)
BY FilesDiffer DEF close, TypeOK

\* Where no connection to an origin is opened, it is enough to look at the
\* workers that come to be without one.
LEMMA OriginKept ==
    ASSUME TypeOK, TypeOK', OriginInv, OnlyOneOriginLeaks, RecordsKept, NoNewOrigin,
           \A v \in Workers : Without(v)' => Without(v) \/ ~HasOriginNext(info[v].uuid)
    PROVE  OriginInv' /\ OnlyOneOriginLeaks'
<1>1. /\ OnlyOneOriginLeaks'
      /\ \A f \in Fds : table'[f].kind = "origin" => table'[f].of < requestUUID'
      /\ \A n \in Nat : ~HasOrigin(n) => ~HasOriginNext(n)
  BY NoNewOriginKeeps
<1>2. /\ \A t \in Threads : info[t].uuid \in Nat
      /\ \A i \in DOMAIN queue : queue[i].uuid \in Nat
      /\ Workers \subseteq Threads /\ Main \in Threads
  BY InfosType DEF TypeOK, Threads
<1>4. /\ pc'[Main] = "insert" => ~HasOriginNext(info[Main].uuid)
      /\ \A i \in DOMAIN queue : ~HasOriginNext(queue[i].uuid)
  BY <1>1, <1>2 DEF OriginInv, RecordsKept
<1>5. \A v \in Workers : Without(v)' => ~HasOriginNext(info[v].uuid)
  <2> SUFFICES ASSUME NEW v \in Workers, Without(v)' PROVE ~HasOriginNext(info[v].uuid)
    OBVIOUS
  <2> QED BY <1>1, <1>2 DEF OriginInv
<1> QED BY <1>1, <1>4, <1>5 DEF OriginInv, RecordsKept, HasOrigin, HasOriginNext

LEMMA OriginWorker ==
    ASSUME TypeOK, TypeOK', PlaceInv, RecordInv, OriginInv, NoForeignDescriptor,
           OnlyOneOriginLeaks, NEW w \in Workers, RecordsKept,
           \/ createClientFd(w) \/ Dispatch(w) \/ handleETag(w) \/ Exchange(w)
    PROVE  OriginInv' /\ OnlyOneOriginLeaks'
<1> USE DEF At, Go, SocketFrame, WorkerFrame
<1>a. w \in Threads /\ info[w].uuid \in Nat /\ info' = info /\ pc \in [Threads -> Places]
      /\ clientfd \in [Threads -> Fds \cup {NoFd}] /\ Workers \subseteq Threads
      /\ requestUUID' = requestUUID /\ requestUUID \in Nat
  BY ProxyAssumption, InfosType DEF TypeOK, Threads, RecordsKept
<1>b. UsesOwn(w)
  BY ForeignParts
<1>c. \A v \in Workers \ {w} : pc'[v] = pc[v] /\ clientfd'[v] = clientfd[v]
  BY <1>a DEF createClientFd, Resolve, ResolveCrash, Socket, SocketFails, Connected,
     NextAddress, NoAddress, Dispatch, handleETag, Exchange, Call
<1>0. ASSUME NoNewOrigin, Without(w)' => Without(w) \/ ~HasOriginNext(info[w].uuid)
      PROVE  OriginInv' /\ OnlyOneOriginLeaks'
  <2>1. \A v \in Workers \ {w} : Without(v)' => Without(v)
    BY <1>c DEF Without
  <2> QED BY <1>0, <2>1, OriginKept
<1>1. CASE /\ table' = table
           /\ \/ Resolve(w) \/ ResolveCrash(w) \/ SocketFails(w) \/ Connected(w)
              \/ NoAddress(w) \/ Dispatch(w) \/ handleETag(w) \/ Exchange(w)
  <2>1. NoNewOrigin
    BY <1>1, <1>a DEF NoNewOrigin
  <2>2. Without(w)' => Without(w)
    <3>1. CASE Connected(w)
      <4>1. clientfd'[w] # NoFd /\ pc'[w] \in Callers
        BY <3>1, <1>a, ProxyAssumption DEF Connected, PlaceInv, TypeOK, Fds, NoFd
      <4> QED BY <4>1 DEF Without, Callers
    <3>2. CASE handleETag(w)
      <4>1. clientfd[w] # NoFd => table'[clientfd[w]] = Closed
        BY <3>2, <1>a DEF handleETag, close, TypeOK
      <4>2. clientfd[w] # NoFd => table[clientfd[w]] = File("origin", info[w].uuid)
        BY <3>2, <1>b DEF handleETag, UsesOwn, Uses, Callers
      <4>3. clientfd[w] = NoFd
        BY <4>1, <4>2, <1>1, <1>a, FilesDiffer
      <4> QED BY <4>3, <3>2 DEF handleETag, Without
    <3>3. CASE Resolve(w) \/ ResolveCrash(w) \/ SocketFails(w) \/ NoAddress(w) \/ Dispatch(w)
      BY <3>3, <1>a DEF Resolve, ResolveCrash, SocketFails, NoAddress, Dispatch, Without
    <3>4. CASE Exchange(w)
      BY <3>4, <1>a DEF Exchange, Without
    <3> QED BY <1>1, <3>1, <3>2, <3>3, <3>4
  <2> QED BY <1>0, <2>1, <2>2
<1>2. CASE Socket(w, File("origin", info[w].uuid), "connect")
  <2>1. PICK f \in Fds : Open(f, File("origin", info[w].uuid))
    BY <1>2 DEF Socket
  <2>2. /\ table' = [table EXCEPT ![f] = File("origin", info[w].uuid)]
        /\ table \in [Fds -> Files] /\ table[f] = Closed
    BY <2>1 DEF Open, TypeOK
  <2>3. ~HasOrigin(info[w].uuid) /\ info[w].uuid < requestUUID /\ Serving(w)
    BY <1>2 DEF Socket, OriginInv, Without, RecordInv, Serving
  <2>4. \A n \in Nat : n # info[w].uuid => (HasOriginNext(n) => HasOrigin(n))
    BY <2>2, <1>a, FilesDiffer DEF HasOrigin, HasOriginNext
  <2>5. OnlyOneOriginLeaks'
    <3>1. ASSUME NEW g \in Fds, NEW h \in Fds, g # h, table'[g].kind = "origin"
          PROVE  table'[h] # table'[g]
      <4>1. CASE g = f
        BY <4>1, <3>1, <2>2, <2>3 DEF HasOrigin
      <4>2. CASE h = f
        BY <4>2, <3>1, <2>2, <2>3 DEF HasOrigin
      <4>3. CASE g # f /\ h # f
        BY <4>3, <3>1, <2>2 DEF OnlyOneOriginLeaks
      <4> QED BY <4>1, <4>2, <4>3
    <3> QED BY <3>1 DEF OnlyOneOriginLeaks
  <2>6. \A g \in Fds : table'[g].kind = "origin" => table'[g].of < requestUUID'
    BY <2>2, <2>3, <1>a, FilesDiffer DEF OriginInv
  <2>7. /\ pc'[Main] = "insert" => ~HasOriginNext(info[Main].uuid)
        /\ \A i \in DOMAIN queue : ~HasOriginNext(queue[i].uuid)
    <3>1. /\ pc[Main] = "insert" => info[Main].uuid # info[w].uuid
          /\ \A i \in DOMAIN queue : queue[i].uuid # info[w].uuid
      BY <2>3 DEF RecordInv
    <3>2. /\ info[Main].uuid \in Nat /\ \A i \in DOMAIN queue : queue[i].uuid \in Nat
      BY InfosType DEF TypeOK, Threads
    <3> QED BY <3>1, <3>2, <2>4 DEF OriginInv, RecordsKept
  <2>8. \A v \in Workers : Without(v)' => ~HasOriginNext(info[v].uuid)
    <3>1. ~Without(w)'
      BY <1>2, <1>a DEF Socket, Without
    <3>2. ASSUME NEW v \in Workers \ {w}, Without(v)' PROVE ~HasOriginNext(info[v].uuid)
      <4>1. Without(v) /\ Serving(v)
        BY <3>2, <1>c DEF Without, Serving
      <4>2. info[v].uuid # info[w].uuid /\ info[v].uuid \in Nat
        BY <4>1, <2>3, <1>a, InfosType DEF RecordInv, TypeOK
      <4> QED BY <4>1, <4>2, <2>4 DEF OriginInv
    <3> QED BY <3>1, <3>2
  <2> QED BY <2>5, <2>6, <2>7, <2>8 DEF OriginInv, RecordsKept, HasOrigin, HasOriginNext
<1>3. CASE pc[w] \in {"connect", "handleETag"} /\ clientfd[w] \in Fds /\ close(clientfd[w])
  <2>1. table[clientfd[w]] = File("origin", info[w].uuid)
    BY <1>3, <1>b, ProxyAssumption DEF UsesOwn, Uses, Callers, Fds, NoFd
  <2>2. NoNewOrigin
    BY <1>3, <1>a, CloseNoOrigin DEF NoNewOrigin
  <2>3. ~HasOriginNext(info[w].uuid)
    BY <1>3, <1>a, <2>1, CloseLast
  <2> QED BY <1>0, <2>2, <2>3
<1>4. CASE NextAddress(w, "connect")
  BY <1>3, <1>4 DEF NextAddress, PlaceInv
<1>5. CASE handleETag(w) /\ table' # table
  BY <1>3, <1>5, <1>a DEF handleETag
<1> QED
  BY <1>1, <1>2, <1>4, <1>5 DEF createClientFd, Resolve, ResolveCrash, SocketFails, Connected,
     NoAddress, Dispatch, Exchange

LEMMA OriginStep ==
    ASSUME TypeOK, TypeOK', PlaceInv, RecordInv, OriginInv, NoForeignDescriptor,
           OnlyOneOriginLeaks, [Next]_vars
    PROVE  OriginInv' /\ OnlyOneOriginLeaks'
<1> USE DEF At, Go, MainFrame, WorkerFrame, SocketFrame
<1>a. /\ Workers \subseteq Threads /\ Main \in Threads /\ Main \notin Workers
      /\ \A t \in Threads : info[t].uuid \in Nat /\ info[t].fd \in Fds
      /\ \A i \in DOMAIN queue : queue[i].uuid \in Nat
      /\ pc \in [Threads -> Places] /\ info \in [Threads -> Infos] /\ table \in [Fds -> Files]
      /\ requestUUID \in Nat /\ clientfd \in [Threads -> Fds \cup {NoFd}]
      /\ queue \in Seq(Infos)
  BY ProxyAssumption, InfosType DEF TypeOK, Threads
<1>1. CASE RecordsKept
  <2>1. CASE UNCHANGED vars
    BY <2>1 DEF vars, OriginInv, OnlyOneOriginLeaks, Without, HasOrigin
  <2>2. CASE createListenFd
    <3>1. \A v \in Workers : Without(v)' => Without(v)
      BY <2>2, <1>a DEF createListenFd, Socket, SocketFails, NextAddress, Bind, Listen,
         NoListenAddress, Without
    <3>2. CASE Socket(Main, Listening, "bind")
      BY <1>1, <3>1, <3>2, <1>a, OpenNoOrigin, FilesDiffer, OriginKept
         DEF Socket, NoNewOrigin, RecordsKept
    <3>3. CASE ~Socket(Main, Listening, "bind")
      <4>1. table' = table \/ close(clientfd[Main])
        BY <2>2, <3>3 DEF createListenFd, SocketFails, NextAddress, Bind, Listen,
           NoListenAddress
      <4>2. NoNewOrigin
        BY <1>1, <4>1, <1>a, CloseNoOrigin DEF NoNewOrigin, RecordsKept
      <4> QED BY <1>1, <3>1, <4>2, OriginKept
    <3> QED BY <3>2, <3>3
  <2>3. ASSUME NEW w \in Workers, targetFunc(w)
        PROVE  OriginInv' /\ OnlyOneOriginLeaks'
    <3>1. ~removeFd(w) /\ ~CloseClient(w)
      BY <1>1, <1>a DEF RecordsKept, removeFd, CloseClient
    <3> QED BY <1>1, <2>3, <3>1, OriginWorker DEF targetFunc
  <2>4. ~Accept /\ ~insertFd
    BY <1>1, <1>a DEF RecordsKept, Accept, insertFd
  <2> QED BY <2>1, <2>2, <2>3, <2>4 DEF Next, main, AcceptFails, Rest
<1>2. CASE Accept
  <2>1. PICK f \in Fds : /\ Open(f, File("client", requestUUID))
                         /\ info' = [info EXCEPT ![Main] = [uuid |-> requestUUID, fd |-> f]]
    BY <1>2 DEF Accept
  <2>2. /\ queue' = queue /\ clientfd' = clientfd /\ requestUUID' = requestUUID + 1
        /\ info'[Main].uuid = requestUUID
        /\ \A w \in Workers : info'[w] = info[w] /\ pc'[w] = pc[w]
    BY <1>2, <2>1, <1>a DEF Accept
  <2>3. NoNewOrigin
    BY <2>1, <2>2, <1>a, OpenNoOrigin, FilesDiffer DEF NoNewOrigin
  <2>4. ~HasOrigin(requestUUID)
    <3>1. \A g \in Fds : table[g] = File("origin", requestUUID) => requestUUID < requestUUID
      BY <1>a, FilesDiffer DEF OriginInv
    <3> QED BY <3>1, <1>a DEF HasOrigin
  <2>5. /\ ~HasOriginNext(requestUUID)
        /\ \A i \in DOMAIN queue : ~HasOriginNext(queue[i].uuid)
        /\ \A w \in Workers : Without(w) => ~HasOriginNext(info[w].uuid)
    BY <2>3, <2>4, <1>a, NoNewOriginKeeps DEF OriginInv
  <2>6. \A w \in Workers : Without(w)' => Without(w)
    BY <2>2 DEF Without
  <2> QED BY <2>2, <2>3, <2>5, <2>6, NoNewOriginKeeps DEF OriginInv, HasOrigin, HasOriginNext
<1>3. CASE insertFd
  <2>1. /\ queue' = Append(queue, info[Main]) /\ table' = table /\ info' = info
        /\ clientfd' = clientfd /\ pc[Main] = "insert" /\ pc'[Main] = "accept"
        /\ requestUUID' = requestUUID /\ \A w \in Workers : pc'[w] = pc[w]
    BY <1>3, <1>a DEF insertFd
  <2>2. \A i \in DOMAIN queue' :
          queue'[i] = info[Main] \/ (i \in DOMAIN queue /\ queue'[i] = queue[i])
    BY <2>1, <1>a, AppendParts
  <2> QED BY <2>1, <2>2, <1>a DEF OriginInv, OnlyOneOriginLeaks, HasOrigin, Without
<1>4. ASSUME NEW w \in Workers, removeFd(w) PROVE OriginInv' /\ OnlyOneOriginLeaks'
  <2>1. /\ queue' = Tail(queue) /\ table' = table /\ queue # <<>> /\ requestUUID' = requestUUID
        /\ clientfd' = clientfd /\ pc'[w] = "request" /\ info'[w] = Head(queue)
        /\ \A v \in Threads \ {w} : pc'[v] = pc[v] /\ info'[v] = info[v]
    BY <1>4, <1>a DEF removeFd
  <2>2. /\ \A i \in DOMAIN queue' : i + 1 \in DOMAIN queue /\ queue'[i] = queue[i + 1]
        /\ 1 \in DOMAIN queue /\ Head(queue) = queue[1]
    BY <2>1, <1>a, TailParts
  <2>3. /\ \A i \in DOMAIN queue' : ~HasOriginNext(queue'[i].uuid)
        /\ ~HasOriginNext(info'[w].uuid)
        /\ \A v \in Workers \ {w} : Without(v)' => ~HasOriginNext(info'[v].uuid)
    BY <2>1, <2>2, <1>a DEF OriginInv, HasOrigin, HasOriginNext, Without
  <2> QED BY <2>1, <2>3, <1>a DEF OriginInv, OnlyOneOriginLeaks, HasOrigin, HasOriginNext
<1>5. ASSUME NEW w \in Workers, CloseClient(w) PROVE OriginInv' /\ OnlyOneOriginLeaks'
  <2>1. /\ queue' = queue /\ close(info[w].fd) /\ pc'[w] = "remove" /\ requestUUID' = requestUUID
        /\ \A v \in Threads \ {w} :
              pc'[v] = pc[v] /\ info'[v] = info[v] /\ clientfd'[v] = clientfd[v]
    BY <1>5, <1>a DEF CloseClient
  <2>2. NoNewOrigin
    BY <2>1, <1>a, CloseNoOrigin DEF NoNewOrigin
  <2>3. /\ pc'[Main] = "insert" => ~HasOriginNext(info'[Main].uuid)
        /\ \A i \in DOMAIN queue' : ~HasOriginNext(queue'[i].uuid)
        /\ ~Without(w)'
        /\ \A v \in Workers \ {w} : Without(v)' => ~HasOriginNext(info'[v].uuid)
    BY <2>1, <2>2, <1>a, NoNewOriginKeeps DEF OriginInv, Without
  <2> QED BY <2>2, <2>3, NoNewOriginKeeps DEF OriginInv, HasOrigin, HasOriginNext
<1> QED BY <1>1, <1>2, <1>3, <1>4, <1>5, KeptStep

-----------------------------------------------------------------------------
(***************************************************************************)
(* The properties.                                                         *)
(***************************************************************************)
THEOREM Invariance == SafeSpec => []IInv
<1>1. IInv /\ [Next]_vars => IInv'
  BY TypeStep, PlaceStep, RecordStep, ForeignStep, OriginStep DEF IInv
<1> QED BY InitInv, <1>1, PTL DEF SafeSpec

\* The variables stay in their types: nothing but -1 or a number of the
\* table is ever used as a descriptor.
THEOREM TypeCorrect == SafeSpec => []TypeOK
BY Invariance, PTL DEF IInv

\* Nobody reads, writes or closes a connection that is not the one of the
\* request it serves, however many threads open and close at once.
THEOREM OwnDescriptors == SafeSpec => []NoForeignDescriptor
BY Invariance, PTL DEF IInv

\* A request leaves at most one connection to an origin open behind it, for
\* any number of addresses and any order of failures.
THEOREM OneOriginLeaks == SafeSpec => []OnlyOneOriginLeaks
BY Invariance, PTL DEF IInv
=============================================================================
