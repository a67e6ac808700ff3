-------------------------------- MODULE Tunnel --------------------------------
(***************************************************************************)
(* The CONNECT tunnel of ConnectHandler.cpp: one worker thread that waits  *)
(* for either connection to become readable, reads from it until a read    *)
(* comes up short, and writes what it has read to the other.               *)
(*                                                                         *)
(* The bytes a side sends are numbered from 1.  A connection is what has   *)
(* arrived at the proxy and is unread, what the proxy has written and the  *)
(* side has not received, and what the side has done to it.                *)
(***************************************************************************)
EXTENDS Integers, Sequences, FiniteSets, SequencesExt

CONSTANTS
    MAXLINE,     \* the size of a read
    Window,      \* how many written bytes a connection buffers
    MaxEarly,    \* bytes of the client that arrive together with its header
    MaxBytes     \* bound of the model: bytes a side sends

ASSUME TunnelAssumption ==
    /\ MAXLINE \in Nat \ {0, 1} /\ Window \in Nat \ {0}
    /\ MaxBytes \in Nat /\ MaxEarly \in 0 .. MaxBytes

Sides == {"client", "server"}
Peer(s) == IF s = "client" THEN "server" ELSE "client"

VARIABLES
    sent,     \* how many bytes a side has sent
    in,       \* those that have arrived and are unread
    out,      \* bytes written to a side that it has not received
    got,      \* the bytes it has received
    state,    \* its end of the connection
    early,    \* how many bytes of the client are left in rio_buf
    pc,       \* the worker's place
    sender,   \* transferData's sender
    buf       \* transferData's buf, up to total

world == <<sent, got, state>>
vars == <<world, in, out, early, pc, sender, buf>>

\* A side has shut down its direction, has closed, or has reset the
\* connection; `failed' is a reset one whose error has been read.
States == {"open", "shut", "closed", "reset", "failed"}
Reads(s) == state[s] \in {"open", "shut"}
Ended == pc \in {"done", "terminated"}

TypeOK ==
    /\ sent \in [Sides -> 0 .. MaxBytes]
    /\ in \in [Sides -> Seq(1 .. MaxBytes)]
    /\ got \in [Sides -> Seq(1 .. MaxBytes)]
    /\ out \in [Sides -> Seq(1 .. MaxBytes)] /\ \A s \in Sides : Len(out[s]) <= Window
    /\ state \in [Sides -> States]
    /\ early \in 0 .. MaxEarly
    /\ pc \in {"connect", "select", "read", "write", "done", "terminated"}
    /\ sender \in Sides
    /\ buf \in Seq(1 .. MaxBytes)

\* processHeader has returned.  Rio_readlineb has moved to rio_buf whatever
\* had arrived by then.
Init ==
    /\ early \in 0 .. MaxEarly
    /\ sent = [s \in Sides |-> IF s = "client" THEN early ELSE 0]
    /\ in = [s \in Sides |-> <<>>]
    /\ out = [s \in Sides |-> <<>>]
    /\ got = [s \in Sides |-> <<>>]
    /\ state = [s \in Sides |-> "open"]
    /\ pc = "connect"
    /\ sender = "client"
    /\ buf = <<>>

-----------------------------------------------------------------------------
(***************************************************************************)
(* The two sides.  The server takes part once it is connected.             *)
(***************************************************************************)
Takes(s) == s = "client" \/ pc # "connect"

Send(s) ==
    /\ Takes(s) /\ state[s] = "open" /\ sent[s] < MaxBytes
    /\ sent' = [sent EXCEPT ![s] = @ + 1]
    /\ in' = [in EXCEPT ![s] = Append(@, sent'[s])]
    /\ UNCHANGED <<got, state, out, early, pc, sender, buf>>

Receive(s) ==
    /\ Reads(s) /\ out[s] # <<>>
    /\ got' = [got EXCEPT ![s] = Append(@, Head(out[s]))]
    /\ out' = [out EXCEPT ![s] = Tail(@)]
    /\ UNCHANGED <<sent, state, in, early, pc, sender, buf>>

ShutDown(s) ==
    /\ Takes(s) /\ state[s] = "open"
    /\ state' = [state EXCEPT ![s] = "shut"]
    /\ UNCHANGED <<sent, got, in, out, early, pc, sender, buf>>

\* What has arrived from a side that closes can still be read.
Close(s) ==
    /\ Takes(s) /\ Reads(s)
    /\ state' = [state EXCEPT ![s] = "closed"]
    /\ out' = [out EXCEPT ![s] = <<>>]
    /\ UNCHANGED <<sent, got, in, early, pc, sender, buf>>

Reset(s) ==
    /\ Takes(s) /\ Reads(s)
    /\ state' = [state EXCEPT ![s] = "reset"]
    /\ in' = [in EXCEPT ![s] = <<>>]
    /\ out' = [out EXCEPT ![s] = <<>>]
    /\ UNCHANGED <<sent, got, early, pc, sender, buf>>

Side(s) == Send(s) \/ Receive(s) \/ ShutDown(s) \/ Close(s) \/ Reset(s)

-----------------------------------------------------------------------------
(***************************************************************************)
(* handleConn and monitorSocketSet.                                        *)
(***************************************************************************)

\* The server is reached and the client sent a 200, or the client is sent a
\* 400 or a 504.
Connect ==
    /\ pc = "connect"
    /\ pc' \in {"select", "done"}
    /\ UNCHANGED <<world, in, out, early, sender, buf>>

Readable(s) == in[s] # <<>> \/ state[s] # "open"

\* Mutant: the server's descriptor is not looked at.
SelectClient ==
    /\ pc = "select" /\ Readable("client")
    /\ sender' = "client"
    /\ buf' = <<>>
    /\ pc' = "read"
    /\ UNCHANGED <<world, in, out, early>>

\* The client's descriptor is looked at first.
Select ==
    /\ pc = "select"
    /\ \E s \in Sides :
          /\ Readable(s)
          /\ s = "server" => ~Readable("client")
          /\ sender' = s
    /\ buf' = <<>>
    /\ pc' = "read"
    /\ UNCHANGED <<world, in, out, early>>

\* select returns 0 or -1.
SelectTimeout ==
    /\ pc = "select"
    /\ \A s \in Sides : ~Readable(s)
    /\ pc' = "done"
    /\ UNCHANGED <<world, in, out, early, sender, buf>>

-----------------------------------------------------------------------------
(***************************************************************************)
(* transferData.                                                           *)
(***************************************************************************)

\* Mutant: `total += n' is missing in the loop.
ReadOver ==
    /\ pc = "read" /\ in[sender] # <<>>
    /\ LET n == IF Len(in[sender]) < MAXLINE THEN Len(in[sender]) ELSE MAXLINE
       IN  /\ buf' = SubSeq(in[sender], 1, n)
           /\ in' = [in EXCEPT ![sender] = SubSeq(@, n + 1, Len(@))]
           /\ pc' = IF n = MAXLINE THEN "read" ELSE "write"
    /\ UNCHANGED <<world, out, early, sender>>

\* A read that fills its MAXLINE bytes is followed by another one, which
\* blocks until the sender sends more or its connection ends.
Read ==
    /\ pc = "read" /\ in[sender] # <<>>
    /\ LET n == IF Len(in[sender]) < MAXLINE THEN Len(in[sender]) ELSE MAXLINE
       IN  /\ buf' = buf \o SubSeq(in[sender], 1, n)
           /\ in' = [in EXCEPT ![sender] = SubSeq(@, n + 1, Len(@))]
           /\ pc' = IF n = MAXLINE THEN "read" ELSE "write"
    /\ UNCHANGED <<world, out, early, sender>>

\* Mutant: an empty buffer is not taken for the end of the tunnel.
ReadEndUnnoticed ==
    /\ pc = "read" /\ in[sender] = <<>> /\ state[sender] \in {"shut", "closed", "failed"}
    /\ pc' = IF buf = <<>> THEN "select" ELSE "write"
    /\ UNCHANGED <<world, in, out, early, sender, buf>>

\* End of input: read returns 0.
ReadEnd ==
    /\ pc = "read" /\ in[sender] = <<>> /\ state[sender] \in {"shut", "closed", "failed"}
    /\ pc' = IF buf = <<>> THEN "done" ELSE "write"
    /\ UNCHANGED <<world, in, out, early, sender, buf>>

\* Mutant: the error is counted as one more byte.
ReadErrorCounted ==
    /\ pc = "read" /\ state[sender] = "reset"
    /\ state' = [state EXCEPT ![sender] = "failed"]
    /\ pc' = "write"
    /\ buf' = Append(buf, 0)
    /\ UNCHANGED <<sent, got, in, out, early, sender>>

\* An error: read returns -1, which is added to total like a count.  The
\* last byte read before is dropped; if there is none, resize(-1) throws
\* what no caller catches, and the process terminates.
ReadError ==
    /\ pc = "read" /\ state[sender] = "reset"
    /\ state' = [state EXCEPT ![sender] = "failed"]
    /\ IF buf = <<>>
       THEN pc' = "terminated" /\ UNCHANGED buf
       ELSE pc' = "write" /\ buf' = Front(buf)
    /\ UNCHANGED <<sent, got, in, out, early, sender>>

\* write blocks until the connection has taken everything.
Write ==
    LET r == Peer(sender)
        room == Window - Len(out[r])
        n == IF Len(buf) < room THEN Len(buf) ELSE room
    IN  /\ pc = "write" /\ n > 0 /\ Reads(r)
        /\ out' = [out EXCEPT ![r] = @ \o SubSeq(buf, 1, n)]
        /\ buf' = SubSeq(buf, n + 1, Len(buf))
        /\ pc' = IF n = Len(buf) THEN "select" ELSE "write"
        /\ UNCHANGED <<world, in, early, sender>>

\* Writing to a side that is gone fails, or the bytes vanish on the way.
WriteLost ==
    /\ pc = "write" /\ buf # <<>> /\ ~Reads(Peer(sender))
    /\ pc' \in {"select", "done"}
    /\ buf' = <<>>
    /\ UNCHANGED <<world, in, out, early, sender>>

transferData ==
    Read \/ ReadEnd \/ ReadError \/ Write \/ WriteLost

handleConn == Connect \/ Select \/ transferData

-----------------------------------------------------------------------------
Over == Ended /\ UNCHANGED vars

Next ==
    \/ handleConn
    \/ SelectTimeout
    \/ \E s \in Sides : Side(s)
    \/ Over

\* The scheduler runs the worker; a side is not obliged to do anything.
Spec == Init /\ [][Next]_vars /\ WF_vars(handleConn)

-----------------------------------------------------------------------------
(***************************************************************************)
(* Properties.                                                             *)
(***************************************************************************)

\* What the bytes of s have become: received, written, or in buf.
Forwarded(s) ==
    got[Peer(s)] \o out[Peer(s)] \o (IF sender = s THEN buf ELSE <<>>)

\* As long as neither side has broken its connection, every byte the tunnel
\* can read is either unread or has gone towards the other side, once and in
\* order, however reads and writes were cut: only the bytes that came with
\* the header are missing, which stay in rio_buf.
NothingLostInside ==
    \A s \in Sides :
        state[s] \notin {"reset", "failed"} /\ Reads(Peer(s)) =>
            LET first == IF s = "client" THEN early ELSE 0
            IN  Forwarded(s) \o in[s] = [i \in 1 .. sent[s] - first |-> first + i]

\* A tunnel neither of whose sides is there any more does not keep its
\* worker, wherever it is blocked: it returns to the pool, unless one side
\* has reset its connection and the failed read has ended the process.
TunnelEnds ==
    (pc # "connect" /\ \A s \in Sides : ~Reads(s)) ~>
        pc = "done" \/ (pc = "terminated" /\ \E s \in Sides : state[s] = "failed")

\* What the server has sent is taken, unless the client does not receive or
\* has sent enough to fill a read, after which transferData reads from it
\* again, outside select.
ServerServed ==
    pc = "select" /\ in["server"] # <<>> ~>
        \/ in["server"] = <<>> \/ Ended
        \/ Len(out["client"]) = Window \/ sent["client"] - early >= MAXLINE
=============================================================================
