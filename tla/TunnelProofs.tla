------------------------------ MODULE TunnelProofs ------------------------------
(***************************************************************************)
(* Proofs about the CONNECT tunnel, for any number of bytes, any size of a *)
(* read and any window: no byte is lost, doubled or overtaken inside.      *)
(***************************************************************************)
EXTENDS Tunnel, TLAPS, SequenceTheorems

Bytes == 1 .. MaxBytes

\* Between two transfers buf is empty.
BufferInv == pc \in {"connect", "select"} => buf = <<>>

\* The bytes in rio_buf are the first the client has sent.
EarlyInv == early <= sent["client"]

IInv == TypeOK /\ BufferInv /\ EarlyInv /\ NothingLostInside

-----------------------------------------------------------------------------
(***************************************************************************)
(* Sequences that are cut and joined.                                      *)
(***************************************************************************)
LEMMA Cut ==
    ASSUME NEW S, NEW q \in Seq(S), NEW n \in 0 .. Len(q)
    PROVE  /\ SubSeq(q, 1, n) \in Seq(S) /\ SubSeq(q, n + 1, Len(q)) \in Seq(S)
           /\ SubSeq(q, 1, n) \o SubSeq(q, n + 1, Len(q)) = q
           /\ Len(SubSeq(q, 1, n)) = n
           /\ Len(SubSeq(q, n + 1, Len(q))) = Len(q) - n
<1>1. Len(q) \in Nat /\ \A i \in 1 .. Len(q) : q[i] \in S
  BY LenProperties, ElementOfSeq
<1>2. \A i \in 1 .. n : q[i] \in S
  BY <1>1
<1>3. SubSeq(q, 1, n) \in Seq(S) /\ Len(SubSeq(q, 1, n)) = n
  BY <1>2, SubSeqProperties
<1>4. \A i \in n + 1 .. Len(q) : q[i] \in S
  BY <1>1
<1>5. SubSeq(q, n + 1, Len(q)) \in Seq(S) /\ Len(SubSeq(q, n + 1, Len(q))) = Len(q) - n
  BY <1>1, <1>4, SubSeqProperties
<1>6. SubSeq(q, 1, n) \o SubSeq(q, n + 1, Len(q)) = q
  <2>1. 1 \in 1 .. Len(q) + 1 /\ n \in 1 - 1 .. Len(q) /\ Len(q) \in n .. Len(q)
    BY <1>1
  <2> QED BY <2>1, ConcatAdjacentSubSeq, SubSeqFull
<1> QED BY <1>3, <1>5, <1>6

\* Taking the first element of o to the end of g.
LEMMA HeadMoves ==
    ASSUME NEW S, NEW g \in Seq(S), NEW o \in Seq(S), o # <<>>
    PROVE  /\ Append(g, Head(o)) \in Seq(S) /\ Tail(o) \in Seq(S)
           /\ Append(g, Head(o)) \o Tail(o) = g \o o
           /\ Len(Tail(o)) = Len(o) - 1
<1>1. Head(o) \in S /\ Tail(o) \in Seq(S) /\ Len(Tail(o)) = Len(o) - 1
  BY HeadTailProperties
<1>2. o = <<Head(o)>> \o Tail(o)
  <2>1. Len(o) \in Nat \ {0}
    BY EmptySeq
  <2>2. 1 \in 1 .. Len(o) /\ Len(o) \in 1 .. Len(o)
    BY <2>1
  <2>3. SubSeq(o, 1, Len(o)) = <<o[1]>> \o SubSeq(o, 1 + 1, Len(o))
    BY <2>2, SubSeqRecursiveFirst
  <2> QED BY <2>1, <2>3, SubSeqFull, TailIsSubSeq
<1>3. Append(g, Head(o)) = g \o <<Head(o)>> /\ Append(g, Head(o)) \in Seq(S)
  BY <1>1, AppendIsConcat, AppendProperties
<1>4. <<Head(o)>> \in Seq(S)
  BY <1>1
<1>5. (g \o <<Head(o)>>) \o Tail(o) = g \o (<<Head(o)>> \o Tail(o))
  BY <1>1, <1>4, ConcatAssociative
<1> QED BY <1>1, <1>2, <1>3, <1>5

LEMMA AppendAfter ==
    ASSUME NEW S, NEW x \in Seq(S), NEW q \in Seq(S), NEW e \in S
    PROVE  x \o Append(q, e) = Append(x \o q, e)
<1>1. Append(q, e) = q \o <<e>> /\ <<e>> \in Seq(S)
  BY AppendIsConcat
<1>2. x \o q \in Seq(S)
  BY ConcatProperties
<1>3. Append(x \o q, e) = (x \o q) \o <<e>>
  BY <1>2, AppendIsConcat
<1> QED BY <1>1, <1>3, ConcatAssociative

\* The bytes from the one after `first' to the n-th.
UpTo(first, n) == [i \in 1 .. n - first |-> first + i]

LEMMA OneMore ==
    ASSUME NEW first \in Nat, NEW n \in Nat, first <= n
    PROVE  UpTo(first, n + 1) = Append(UpTo(first, n), n + 1)
<1> DEFINE u == UpTo(first, n)
<1>1. u \in Seq(Nat) /\ Len(u) = n - first /\ \A i \in 1 .. n - first : u[i] = first + i
  BY DEF UpTo
<1>2. n + 1 - first = (n - first) + 1 /\ n - first \in Nat
  OBVIOUS
<1> HIDE DEF u
<1>3. /\ Append(u, n + 1) \in Seq(Nat) /\ Len(Append(u, n + 1)) = (n - first) + 1
      /\ \A i \in 1 .. n - first : Append(u, n + 1)[i] = first + i
      /\ Append(u, n + 1)[(n - first) + 1] = n + 1
  BY <1>1, <1>2, AppendProperties
<1>4. /\ UpTo(first, n + 1) \in Seq(Nat) /\ Len(UpTo(first, n + 1)) = (n - first) + 1
      /\ \A i \in 1 .. (n - first) + 1 : UpTo(first, n + 1)[i] = first + i
  BY <1>2 DEF UpTo
<1>5. \A i \in 1 .. (n - first) + 1 : UpTo(first, n + 1)[i] = Append(u, n + 1)[i]
  BY <1>2, <1>3, <1>4
<1>6. UpTo(first, n + 1) = Append(u, n + 1)
  BY <1>3, <1>4, <1>5, SeqEqual
<1> QED BY <1>6 DEF u

-----------------------------------------------------------------------------
(***************************************************************************)
(* The invariant of one side.                                              *)
(***************************************************************************)
First(s) == IF s = "client" THEN early ELSE 0
Whole(s) == state[s] \notin {"reset", "failed"} /\ Reads(Peer(s))
All(s) == Forwarded(s) \o in[s]
Kept(s) == Whole(s) => All(s) = UpTo(First(s), sent[s])

LEMMA KeptAll == NothingLostInside <=> \A s \in Sides : Kept(s)
BY DEF NothingLostInside, Kept, Whole, All, UpTo, First

LEMMA KeptAllNext == NothingLostInside' <=> \A s \in Sides : Kept(s)'
BY DEF NothingLostInside, Kept, Whole, All, UpTo, First

LEMMA Joined ==
    ASSUME NEW a \in Seq(Bytes), NEW b \in Seq(Bytes), NEW c \in Seq(Bytes)
    PROVE  (a \o b) \o c = a \o (b \o c)
BY ConcatAssociative

LEMMA Peers ==
    \A s \in Sides : /\ Peer(s) \in Sides /\ Peer(s) # s /\ Peer(Peer(s)) = s
                     /\ \A r \in Sides : r # s => r = Peer(s)
BY DEF Sides, Peer

LEMMA Types ==
    ASSUME TypeOK
    PROVE  /\ MaxBytes \in Nat /\ Window \in Nat \ {0} /\ MAXLINE \in Nat \ {0}
           /\ early \in Nat /\ buf \in Seq(Bytes)
           /\ \A s \in Sides :
                /\ sent[s] \in 0 .. MaxBytes /\ First(s) \in Nat
                /\ in[s] \in Seq(Bytes) /\ out[s] \in Seq(Bytes) /\ got[s] \in Seq(Bytes)
                /\ Forwarded(s) \in Seq(Bytes) /\ Len(out[s]) \in 0 .. Window
<1>1. MaxBytes \in Nat /\ MaxEarly \in Nat /\ Window \in Nat \ {0} /\ MAXLINE \in Nat \ {0}
  BY TunnelAssumption
<1>2. early \in Nat /\ buf \in Seq(Bytes)
  BY <1>1 DEF TypeOK, Bytes
<1>3. ASSUME NEW s \in Sides
      PROVE  /\ sent[s] \in 0 .. MaxBytes /\ First(s) \in Nat
             /\ in[s] \in Seq(Bytes) /\ out[s] \in Seq(Bytes) /\ got[s] \in Seq(Bytes)
             /\ Len(out[s]) \in 0 .. Window
  <2>1. /\ sent[s] \in 0 .. MaxBytes /\ in[s] \in Seq(Bytes) /\ out[s] \in Seq(Bytes)
        /\ got[s] \in Seq(Bytes) /\ Len(out[s]) <= Window
    BY DEF TypeOK, Bytes
  <2>2. Len(out[s]) \in Nat
    BY <2>1, LenProperties
  <2> QED BY <1>1, <1>2, <2>1, <2>2 DEF First
<1>4. ASSUME NEW s \in Sides PROVE Forwarded(s) \in Seq(Bytes)
  <2>1. got[Peer(s)] \in Seq(Bytes) /\ out[Peer(s)] \in Seq(Bytes)
    BY <1>3, Peers
  <2>2. got[Peer(s)] \o out[Peer(s)] \in Seq(Bytes)
    BY <2>1, ConcatProperties
  <2>3. (IF sender = s THEN buf ELSE <<>>) \in Seq(Bytes)
    BY <1>2
  <2> QED BY <2>2, <2>3, ConcatProperties DEF Forwarded
<1> QED BY <1>1, <1>2, <1>3, <1>4

\* A step that keeps the bytes of s together, or after which one of the
\* connections is broken, keeps the invariant of s.
LEMMA KeepTogether ==
    ASSUME NEW s \in Sides, Kept(s), early' = early, sent'[s] = sent[s],
           Whole(s)' => Whole(s) /\ All(s)' = All(s)
    PROVE  Kept(s)'
BY DEF Kept, UpTo, First

LEMMA InitInv == Init => IInv
<1> SUFFICES ASSUME Init PROVE IInv
  OBVIOUS
<1>1. TypeOK
  <2>1. MaxBytes \in Nat /\ MaxEarly \in 0 .. MaxBytes /\ Window \in Nat \ {0}
    BY TunnelAssumption
  <2>2. early \in 0 .. MaxEarly /\ early \in 0 .. MaxBytes
    BY <2>1 DEF Init
  <2>3. sent \in [Sides -> 0 .. MaxBytes]
    BY <2>1, <2>2 DEF Init
  <2>4. \A s \in Sides : out[s] = <<>> /\ Len(out[s]) = 0
    BY DEF Init
  <2> QED BY <2>1, <2>2, <2>3, <2>4 DEF Init, TypeOK, States, Sides
<1>2. EarlyInv /\ BufferInv
  BY TunnelAssumption DEF Init, EarlyInv, BufferInv, Sides
<1>3. ASSUME NEW s \in Sides PROVE Kept(s)
  <2>1. All(s) = <<>>
    BY Peers DEF Init, All, Forwarded
  <2>2. sent[s] = First(s) /\ First(s) \in Int
    BY <1>1, Types DEF Init, First
  <2>3. UpTo(First(s), sent[s]) = <<>>
    BY <2>2 DEF UpTo
  <2> QED BY <2>1, <2>3 DEF Kept
<1> QED BY <1>1, <1>2, <1>3, KeptAll DEF IInv

-----------------------------------------------------------------------------
(***************************************************************************)
(* The steps of the two sides.                                             *)
(***************************************************************************)
LEMMA SendStep ==
    ASSUME IInv, NEW s \in Sides, Send(s)
    PROVE  IInv'
<1> DEFINE e == sent[s] + 1
<1>a. /\ TypeOK /\ e \in Bytes /\ sent[s] \in Nat
      /\ sent' = [sent EXCEPT ![s] = e] /\ in' = [in EXCEPT ![s] = Append(in[s], e)]
      /\ UNCHANGED <<got, state, out, early, pc, sender, buf>>
  <2>1. TypeOK /\ sent[s] \in 0 .. MaxBytes /\ sent[s] < MaxBytes /\ MaxBytes \in Nat
    BY Types DEF IInv, Send
  <2>2. e \in Bytes /\ sent[s] \in Nat
    BY <2>1 DEF Bytes
  <2>3. sent' = [sent EXCEPT ![s] = e] /\ sent'[s] = e
    BY <2>1 DEF Send, TypeOK
  <2> QED BY <2>1, <2>2, <2>3 DEF Send
<1> HIDE DEF e
<1>b. in[s] \in Seq(Bytes) /\ Append(in[s], e) \in Seq(Bytes)
  BY <1>a, Types, AppendProperties
<1>1. TypeOK'
  <2>1. sent' \in [Sides -> 0 .. MaxBytes]
    BY <1>a DEF TypeOK, Bytes
  <2>2. in' \in [Sides -> Seq(1 .. MaxBytes)]
    BY <1>a, <1>b DEF TypeOK, Bytes
  <2> QED BY <1>a, <2>1, <2>2 DEF TypeOK
<1>2. BufferInv' /\ EarlyInv'
  <2>1. early' = early /\ (sent'["client"] = sent["client"] \/ sent'["client"] = sent["client"] + 1)
    BY <1>a DEF TypeOK, e
  <2>2. early \in Nat /\ sent["client"] \in Nat
    <3>1. early \in Nat /\ sent["client"] \in 0 .. MaxBytes
      BY <1>a, Types DEF Sides
    <3> QED BY <3>1
  <2> QED BY <1>a, <2>1, <2>2 DEF IInv, BufferInv, EarlyInv
<1>3. ASSUME NEW r \in Sides PROVE Kept(r)'
  <2>1. Kept(r)
    BY KeptAll DEF IInv
  <2>2. CASE r # s
    <3>1. sent'[r] = sent[r] /\ in'[r] = in[r]
      BY <1>a, <2>2 DEF TypeOK
    <3> QED BY <1>a, <2>1, <3>1, KeepTogether DEF Whole, Reads, All, Forwarded
  <2>3. CASE r = s
    <3>1. sent'[r] = e /\ in'[r] = Append(in[r], e)
      BY <1>a, <2>3 DEF TypeOK
    <3>2. Forwarded(r) \in Seq(Bytes) /\ in[r] \in Seq(Bytes) /\ First(r) \in Nat
      BY <1>a, Types
    <3>3. First(r) <= sent[r]
      BY <1>a, <2>3 DEF First, IInv, EarlyInv
    <3>4. All(r)' = Append(All(r), e)
      <4>1. Forwarded(r) \o Append(in[r], e) = Append(Forwarded(r) \o in[r], e)
        BY <1>a, <3>2, AppendAfter
      <4> QED BY <1>a, <3>1, <4>1 DEF All, Forwarded
    <3>5. UpTo(First(r), sent[r] + 1) = Append(UpTo(First(r), sent[r]), sent[r] + 1)
      BY <1>a, <2>3, <3>2, <3>3, OneMore
    <3>6. Whole(r)' => Whole(r)
      BY <1>a DEF Whole, Reads
    <3>7. First(r)' = First(r)
      BY <1>a DEF First
    <3>8. UpTo(First(r), sent[r])' = UpTo(First(r), e)
      BY <3>1, <3>7 DEF UpTo
    <3> QED BY <2>1, <2>3, <3>4, <3>5, <3>6, <3>8 DEF Kept, e
  <2> QED BY <2>2, <2>3
<1> QED BY <1>1, <1>2, <1>3, KeptAllNext DEF IInv

LEMMA ReceiveStep ==
    ASSUME IInv, NEW s \in Sides, Receive(s)
    PROVE  IInv'
<1>a. /\ TypeOK /\ out[s] # <<>> /\ out[s] \in Seq(Bytes) /\ got[s] \in Seq(Bytes)
      /\ got' = [got EXCEPT ![s] = Append(got[s], Head(out[s]))]
      /\ out' = [out EXCEPT ![s] = Tail(out[s])]
      /\ UNCHANGED <<sent, state, in, early, pc, sender, buf>>
  BY Types DEF IInv, Receive
<1>b. /\ Append(got[s], Head(out[s])) \in Seq(Bytes) /\ Tail(out[s]) \in Seq(Bytes)
      /\ Append(got[s], Head(out[s])) \o Tail(out[s]) = got[s] \o out[s]
      /\ Len(Tail(out[s])) = Len(out[s]) - 1
  BY <1>a, HeadMoves
<1>1. TypeOK'
  <2>1. got' \in [Sides -> Seq(1 .. MaxBytes)] /\ out' \in [Sides -> Seq(1 .. MaxBytes)]
    BY <1>a, <1>b DEF TypeOK, Bytes
  <2>2. ASSUME NEW r \in Sides PROVE Len(out'[r]) <= Window
    <3>1. Len(out[s]) \in 0 .. Window /\ Len(out[r]) \in 0 .. Window /\ Window \in Nat
      BY <1>a, Types
    <3>2. Len(Tail(out[s])) <= Window
      BY <1>b, <3>1
    <3>3. CASE r = s
      <4>1. out'[r] = Tail(out[s])
        BY <1>a, <3>3 DEF TypeOK
      <4> QED BY <3>2, <4>1, Zenon
    <3>4. CASE r # s
      <4>1. out'[r] = out[r]
        BY <1>a, <3>4 DEF TypeOK
      <4> QED BY <4>1 DEF IInv, TypeOK
    <3> QED BY <3>3, <3>4
  <2> QED BY <1>a, <2>1, <2>2 DEF TypeOK
<1>2. BufferInv' /\ EarlyInv'
  BY <1>a DEF IInv, BufferInv, EarlyInv
<1>3. ASSUME NEW r \in Sides PROVE Kept(r)'
  <2>1. Kept(r) /\ Peer(r) \in Sides
    BY KeptAll, Peers DEF IInv
  <2>2. got'[Peer(r)] \o out'[Peer(r)] = got[Peer(r)] \o out[Peer(r)]
    BY <1>a, <1>b, <2>1 DEF TypeOK
  <2>3. All(r)' = All(r)
    BY <1>a, <2>2 DEF All, Forwarded
  <2> QED BY <1>a, <2>1, <2>3, KeepTogether DEF Whole, Reads
<1> QED BY <1>1, <1>2, <1>3, KeptAllNext DEF IInv

\* A side that goes takes with it what is on its way to it.
LEMMA LeaveStep ==
    ASSUME IInv, NEW s \in Sides, ShutDown(s) \/ Close(s) \/ Reset(s)
    PROVE  IInv'
<1>a. /\ TypeOK /\ state \in [Sides -> States]
      /\ UNCHANGED <<sent, got, early, pc, sender, buf>>
      /\ \A r \in Sides : r # s =>
            state'[r] = state[r] /\ in'[r] = in[r] /\ out'[r] = out[r]
  BY DEF IInv, TypeOK, ShutDown, Close, Reset
<1>b. \/ /\ state[s] = "open" /\ state'[s] = "shut" /\ in' = in /\ out' = out
      \/ /\ Reads(s) /\ state'[s] = "closed" /\ in' = in /\ out'[s] = <<>>
      \/ state'[s] = "reset" /\ in'[s] = <<>> /\ out'[s] = <<>>
  BY <1>a DEF TypeOK, ShutDown, Close, Reset
<1>1. TypeOK'
  <2>1. /\ state' \in [Sides -> States] /\ in' \in [Sides -> Seq(1 .. MaxBytes)]
        /\ out' \in [Sides -> Seq(1 .. MaxBytes)]
    <3>1. state' = [state EXCEPT ![s] = state'[s]] /\ state'[s] \in States
      BY <1>a, <1>b DEF States, ShutDown, Close, Reset
    <3>2. in' = in \/ in' = [in EXCEPT ![s] = <<>>]
      BY DEF ShutDown, Close, Reset
    <3>3. out' = out \/ out' = [out EXCEPT ![s] = <<>>]
      BY DEF ShutDown, Close, Reset
    <3>4. state' \in [Sides -> States]
      BY <1>a, <3>1
    <3>5. in \in [Sides -> Seq(Bytes)] /\ out \in [Sides -> Seq(Bytes)] /\ <<>> \in Seq(Bytes)
      BY <1>a DEF TypeOK, Bytes
    <3>6. in' \in [Sides -> Seq(Bytes)] /\ out' \in [Sides -> Seq(Bytes)]
      BY <3>2, <3>3, <3>5
    <3> QED BY <3>4, <3>6 DEF Bytes
  <2>2. ASSUME NEW r \in Sides PROVE Len(out'[r]) <= Window
    <3>1. Len(out[r]) <= Window /\ 0 <= Window
      BY <1>a, Types DEF TypeOK
    <3>2. out'[r] = out[r] \/ out'[r] = <<>>
      BY <1>a, <1>b
    <3>3. Len(<<>>) = 0
      OBVIOUS
    <3> QED BY <3>1, <3>2, <3>3
  <2> QED BY <1>a, <2>1, <2>2 DEF TypeOK
<1>2. BufferInv' /\ EarlyInv'
  BY <1>a DEF IInv, BufferInv, EarlyInv
<1>3. ASSUME NEW r \in Sides PROVE Kept(r)'
  <2>1. Kept(r) /\ Peer(r) \in Sides /\ Peer(r) # r /\ (r = s \/ Peer(r) = s)
    BY KeptAll, Peers DEF IInv
  <2>2. SUFFICES Whole(r)' => Whole(r) /\ All(r)' = All(r)
    BY <1>a, <2>1, KeepTogether
  <2>3. CASE r = s
    BY <1>a, <1>b, <2>1, <2>3 DEF Whole, Reads, All, Forwarded
  <2>4. CASE Peer(r) = s
    BY <1>a, <1>b, <2>1, <2>4 DEF Whole, Reads, All, Forwarded
  <2> QED BY <2>1, <2>3, <2>4
<1> QED BY <1>1, <1>2, <1>3, KeptAllNext DEF IInv

-----------------------------------------------------------------------------
(***************************************************************************)
(* The steps of the tunnel.                                                *)
(***************************************************************************)
LEMMA ReadStep ==
    ASSUME IInv, Read
    PROVE  IInv'
<1> DEFINE n == IF Len(in[sender]) < MAXLINE THEN Len(in[sender]) ELSE MAXLINE
           taken == SubSeq(in[sender], 1, n)
           left == SubSeq(in[sender], n + 1, Len(in[sender]))
<1>a. /\ TypeOK /\ sender \in Sides /\ in[sender] \in Seq(Bytes) /\ buf \in Seq(Bytes)
      /\ pc = "read" /\ pc' \in {"read", "write"}
      /\ buf' = buf \o taken /\ in' = [in EXCEPT ![sender] = left]
      /\ UNCHANGED <<sent, got, state, out, early, sender>>
  BY Types DEF IInv, TypeOK, Read, world
<1>b. n \in 0 .. Len(in[sender])
  <2>1. Len(in[sender]) \in Nat /\ MAXLINE \in Nat
    BY <1>a, Types, LenProperties
  <2> QED BY <2>1
<1> HIDE DEF n
<1>c. taken \in Seq(Bytes) /\ left \in Seq(Bytes) /\ taken \o left = in[sender]
  BY <1>a, <1>b, Cut
<1> HIDE DEF taken, left
<1>d. buf \o taken \in Seq(Bytes)
  BY <1>a, <1>c, ConcatProperties
<1>1. TypeOK'
  <2>1. in \in [Sides -> Seq(Bytes)]
    BY <1>a DEF TypeOK, Bytes
  <2>2. in' \in [Sides -> Seq(Bytes)]
    BY <1>a, <1>c, <2>1
  <2> QED BY <1>a, <1>d, <2>2 DEF TypeOK, Bytes
<1>2. BufferInv' /\ EarlyInv'
  BY <1>a DEF IInv, BufferInv, EarlyInv
<1>3. ASSUME NEW s \in Sides PROVE Kept(s)'
  <2>1. Kept(s)
    BY KeptAll DEF IInv
  <2>2. SUFFICES All(s)' = All(s)
    BY <1>a, <2>1, KeepTogether DEF Whole, Reads
  <2>3. CASE s # sender
    <3>1. in'[s] = in[s]
      BY <1>a, <2>3 DEF TypeOK
    <3> QED BY <1>a, <2>3, <3>1 DEF All, Forwarded
  <2>4. CASE s = sender
    <3> DEFINE g == got[Peer(s)] \o out[Peer(s)]
    <3>1. g \in Seq(Bytes)
      <4>1. got[Peer(s)] \in Seq(Bytes) /\ out[Peer(s)] \in Seq(Bytes)
        BY <1>a, Types, Peers
      <4> QED BY <4>1, ConcatProperties
    <3>2. in'[s] = left
      BY <1>a, <2>4 DEF TypeOK
    <3>3. All(s) = (g \o buf) \o in[s] /\ All(s)' = (g \o (buf \o taken)) \o left
      BY <1>a, <2>4, <3>2 DEF All, Forwarded
    <3> HIDE DEF g
    <3>4. g \o (buf \o taken) = (g \o buf) \o taken
      BY <1>a, <1>c, <3>1, Joined
    <3>5. g \o buf \in Seq(Bytes)
      BY <1>a, <3>1, ConcatProperties
    <3>6. ((g \o buf) \o taken) \o left = (g \o buf) \o (taken \o left)
      BY <1>c, <3>5, Joined
    <3> QED BY <1>c, <2>4, <3>3, <3>4, <3>6
  <2> QED BY <2>3, <2>4
<1> QED BY <1>1, <1>2, <1>3, KeptAllNext DEF IInv

\* A read that fails drops a byte of a connection that is broken.
LEMMA ReadErrorStep ==
    ASSUME IInv, ReadError
    PROVE  IInv'
<1>a. /\ TypeOK /\ sender \in Sides /\ buf \in Seq(Bytes) /\ state[sender] = "reset"
      /\ pc = "read" /\ pc' \in {"terminated", "write"}
      /\ state' = [state EXCEPT ![sender] = "failed"]
      /\ buf' = buf \/ (buf # <<>> /\ buf' = Front(buf))
      /\ UNCHANGED <<sent, got, in, out, early, sender>>
  BY Types DEF IInv, TypeOK, ReadError
<1>1. TypeOK'
  <2>1. buf # <<>> => Front(buf) \in Seq(Bytes)
    <3>1. buf # <<>> => Len(buf) \in Nat \ {0}
      BY <1>a, EmptySeq
    <3>2. buf # <<>> => Len(buf) - 1 \in 0 .. Len(buf)
      BY <3>1
    <3> QED BY <1>a, <3>2, Cut DEF Front
  <2>2. buf' \in Seq(Bytes)
    BY <1>a, <2>1
  <2> QED BY <1>a, <2>2 DEF TypeOK, States, Bytes
<1>2. BufferInv' /\ EarlyInv'
  BY <1>a DEF IInv, BufferInv, EarlyInv
<1>3. ASSUME NEW s \in Sides PROVE Kept(s)'
  <2>1. Kept(s) /\ Peer(s) \in Sides /\ Peer(s) # s /\ (s = sender \/ Peer(s) = sender)
    BY <1>a, KeptAll, Peers DEF IInv
  <2>2. ~Whole(s)'
    <3>1. state'[sender] = "failed"
      BY <1>a DEF TypeOK
    <3> QED BY <2>1, <3>1 DEF Whole, Reads
  <2> QED BY <2>2 DEF Kept
<1> QED BY <1>1, <1>2, <1>3, KeptAllNext DEF IInv

LEMMA WriteStep ==
    ASSUME IInv, Write
    PROVE  IInv'
<1> DEFINE r == Peer(sender)
           n == IF Len(buf) < Window - Len(out[r]) THEN Len(buf) ELSE Window - Len(out[r])
           written == SubSeq(buf, 1, n)
           left == SubSeq(buf, n + 1, Len(buf))
<1>a. /\ TypeOK /\ sender \in Sides /\ r \in Sides /\ r # sender /\ Peer(r) = sender
      /\ buf \in Seq(Bytes) /\ out[r] \in Seq(Bytes)
      /\ pc = "write" /\ pc' = (IF n = Len(buf) THEN "select" ELSE "write") /\ n > 0
      /\ out' = [out EXCEPT ![r] = out[r] \o written] /\ buf' = left
      /\ UNCHANGED <<sent, got, state, in, early, sender>>
  BY Types, Peers DEF IInv, TypeOK, Write, world
<1>b. /\ Len(buf) \in Nat /\ Len(out[r]) \in 0 .. Window /\ Window \in Nat
      /\ n \in 0 .. Len(buf) /\ Len(out[r]) + n <= Window
  <2>1. Len(buf) \in Nat /\ Len(out[r]) \in 0 .. Window /\ Window \in Nat
    BY <1>a, Types, LenProperties
  <2>2. n > 0 /\ n = IF Len(buf) < Window - Len(out[r]) THEN Len(buf) ELSE Window - Len(out[r])
    BY <1>a
  <2> HIDE DEF n, r
  <2>3. CASE Len(buf) < Window - Len(out[r])
    BY <2>1, <2>2, <2>3
  <2>4. CASE ~(Len(buf) < Window - Len(out[r]))
    <3>1. n = Window - Len(out[r])
      BY <2>2, <2>4
    <3> QED BY <2>1, <2>2, <2>4, <3>1
  <2> QED BY <2>1, <2>3, <2>4
<1> HIDE DEF n, r
<1>c. /\ written \in Seq(Bytes) /\ left \in Seq(Bytes) /\ written \o left = buf
      /\ Len(written) = n /\ Len(left) = Len(buf) - n
  BY <1>a, <1>b, Cut
<1> HIDE DEF written, left
<1>d. out[r] \o written \in Seq(Bytes) /\ Len(out[r] \o written) = Len(out[r]) + n
  BY <1>a, <1>c, ConcatProperties
<1>1. TypeOK'
  <2>1. out \in [Sides -> Seq(Bytes)]
    BY <1>a DEF TypeOK, Bytes
  <2>2. out' \in [Sides -> Seq(Bytes)]
    BY <1>a, <1>d, <2>1
  <2>3. ASSUME NEW s \in Sides PROVE Len(out'[s]) <= Window
    <3>1. CASE s = r
      <4>1. out'[s] = out[r] \o written
        BY <1>a, <2>1, <3>1
      <4>2. Len(out[r] \o written) <= Window
        BY <1>b, <1>d
      <4> QED BY <4>1, <4>2, Zenon
    <3>2. CASE s # r
      <4>1. out'[s] = out[s]
        BY <1>a, <2>1, <3>2
      <4> QED BY <1>a, <4>1 DEF TypeOK
    <3> QED BY <3>1, <3>2
  <2> QED BY <1>a, <1>c, <2>2, <2>3 DEF TypeOK, Bytes
<1>2. BufferInv' /\ EarlyInv'
  <2>1. pc' \in {"connect", "select"} => buf' = <<>>
    <3>1. ASSUME n = Len(buf) PROVE left = <<>>
      <4>1. Len(left) = 0
        BY <1>b, <1>c, <3>1
      <4> QED BY <1>c, <4>1, EmptySeq
    <3> QED BY <1>a, <3>1
  <2> QED BY <1>a, <2>1 DEF IInv, BufferInv, EarlyInv
<1>3. ASSUME NEW s \in Sides PROVE Kept(s)'
  <2>1. Kept(s) /\ Peer(s) \in Sides /\ Peer(s) # s /\ (s = sender \/ Peer(s) = sender)
    BY <1>a, KeptAll, Peers DEF IInv
  <2>2. SUFFICES All(s)' = All(s)
    BY <1>a, <2>1, KeepTogether DEF Whole, Reads
  <2>3. CASE s # sender
    <3>1. Peer(s) # r
      BY <1>a, <2>1, <2>3
    <3>2. out'[Peer(s)] = out[Peer(s)]
      BY <1>a, <2>1, <3>1 DEF TypeOK
    <3> QED BY <1>a, <2>3, <3>2 DEF All, Forwarded
  <2>4. CASE s = sender
    <3>1. Peer(s) = r /\ out'[r] = out[r] \o written
      <4>1. out'[r] = out[r] \o written
        BY <1>a DEF TypeOK
      <4> QED BY <2>4, <4>1 DEF r
    <3>2. /\ All(s) = ((got[r] \o out[r]) \o buf) \o in[s]
          /\ All(s)' = ((got[r] \o (out[r] \o written)) \o left) \o in[s]
      BY <1>a, <2>4, <3>1 DEF All, Forwarded
    <3>3. got[r] \in Seq(Bytes)
      BY <1>a, Types
    <3>4. got[r] \o (out[r] \o written) = (got[r] \o out[r]) \o written
      BY <1>a, <1>c, <3>3, Joined
    <3>5. got[r] \o out[r] \in Seq(Bytes)
      BY <1>a, <3>3, ConcatProperties
    <3>6. ((got[r] \o out[r]) \o written) \o left = (got[r] \o out[r]) \o (written \o left)
      BY <1>c, <3>5, Joined
    <3> QED BY <1>c, <3>2, <3>4, <3>6, Zenon
  <2> QED BY <2>3, <2>4
<1> QED BY <1>1, <1>2, <1>3, KeptAllNext DEF IInv

\* Bytes written to a side that is gone are lost with its connection.
LEMMA WriteLostStep ==
    ASSUME IInv, WriteLost
    PROVE  IInv'
<1>a. /\ TypeOK /\ sender \in Sides /\ ~Reads(Peer(sender)) /\ buf' = <<>>
      /\ pc' \in {"select", "done"}
      /\ UNCHANGED <<sent, got, state, in, out, early, sender>>
  BY DEF IInv, TypeOK, WriteLost, world
<1>1. TypeOK' /\ BufferInv' /\ EarlyInv'
  BY <1>a DEF IInv, TypeOK, BufferInv, EarlyInv
<1>2. ASSUME NEW s \in Sides PROVE Kept(s)'
  <2>1. Kept(s)
    BY KeptAll DEF IInv
  <2>2. Whole(s)' => Whole(s) /\ s # sender
    BY <1>a DEF Whole, Reads
  <2> QED BY <1>a, <2>1, <2>2, KeepTogether DEF All, Forwarded
<1> QED BY <1>1, <1>2, KeptAllNext DEF IInv

\* The steps that move no byte: buf is empty when the sender changes.
LEMMA NothingMoves ==
    ASSUME IInv, \/ Connect \/ Select \/ SelectTimeout \/ ReadEnd \/ UNCHANGED vars
    PROVE  IInv'
<1>a. /\ TypeOK /\ UNCHANGED <<sent, got, state, in, out, early>>
      /\ buf' = buf /\ (sender' = sender \/ buf = <<>>) /\ sender' \in Sides
      /\ pc' \in {"connect", "select", "read", "write", "done", "terminated"}
  BY DEF IInv, TypeOK, BufferInv, Connect, Select, SelectTimeout, ReadEnd, vars, world
<1>1. TypeOK' /\ EarlyInv'
  BY <1>a DEF IInv, TypeOK, EarlyInv
<1>2. BufferInv'
  BY DEF IInv, BufferInv, Connect, Select, SelectTimeout, ReadEnd, vars
<1>3. ASSUME NEW s \in Sides PROVE Kept(s)'
  <2>1. Kept(s)
    BY KeptAll DEF IInv
  <2>2. All(s)' = All(s)
    BY <1>a DEF All, Forwarded
  <2> QED BY <1>a, <2>1, <2>2, KeepTogether DEF Whole, Reads
<1> QED BY <1>1, <1>2, <1>3, KeptAllNext DEF IInv

\* The inductive invariant holds throughout.
THEOREM Invariance == Spec => []IInv
<1>1. IInv /\ [Next]_vars => IInv'
  BY SendStep, ReceiveStep, LeaveStep, ReadStep, ReadErrorStep, WriteStep, WriteLostStep,
     NothingMoves DEF Next, handleConn, transferData, Side, Over
<1> QED BY InitInv, <1>1, PTL DEF Spec

-----------------------------------------------------------------------------
(***************************************************************************)
(* The properties.                                                         *)
(***************************************************************************)
\* The variables stay in their types: no connection is written more than it
\* buffers, and only bytes that were sent go on.
THEOREM TypeCorrect == Spec => []TypeOK
BY Invariance, PTL DEF IInv

\* However reads are cut, joined and answered with partial writes, and
\* whenever the sides come and go, the bytes of a direction neither of whose
\* ends is broken are all there, once and in order.
THEOREM NoByteLostInside == Spec => []NothingLostInside
BY Invariance, PTL DEF IInv
=============================================================================
