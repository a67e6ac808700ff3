---------------------------------- MODULE Rio ----------------------------------
(***************************************************************************)
(* The buffered reads of Rio.cpp on one connection, while its bytes arrive *)
(* in pieces of any size and the sender closes or resets it at any point.  *)
(*                                                                         *)
(* A token is a byte or a word that the callers look for; the two bytes    *)
(* that end a line are one token.  A call of Rio_readlineb or Rio_readnb   *)
(* copies token by token, which nothing outside can tell from memcpy.      *)
(***************************************************************************)
EXTENDS Integers, Sequences, SequencesExt

CONSTANTS
    MAXLINE,     \* the size of rio_buf and of the callers' line buffers
    SIZE_MAX,    \* the largest size_t, what -1 becomes in rio_cnt
    StackAbove   \* the readable bytes between rio_buf and the stack's end

ASSUME RioAssumption ==
    /\ MAXLINE \in Nat /\ MAXLINE > 2   \* a word and the end of its line fit a line buffer
    /\ StackAbove \in Nat
    /\ SIZE_MAX \in Nat /\ SIZE_MAX > MAXLINE + StackAbove

CRLF == "CRLF"
Junk == "junk"   \* whatever uninitialised memory holds, unless it ends a line
Tokens == {CRLF, Junk, "text", "nul", "length", "chunked", "304", "last"}

VARIABLES
    in,          \* what has arrived and is unread
    conn,        \* the sender's end; "failed" is a reset that has been read
    rio_buf, rio_bufptr, rio_cnt,
    taken,       \* everything that has been copied out of rio_buf
    call,        \* the call in progress: its kind and its length
    usrbuf,      \* the caller's buffer
    ret          \* "busy", or how the call ended

buffer == <<rio_buf, rio_bufptr, rio_cnt, taken>>
rioVars == <<in, conn, buffer, call, usrbuf, ret>>

Calls == [kind : {"line", "count"}, n : Nat]

RioTypeOK ==
    /\ in \in Seq(Tokens)
    /\ conn \in {"open", "closed", "reset", "failed"}
    /\ rio_buf \in [1 .. MAXLINE -> Tokens]
    /\ rio_bufptr \in 1 .. MAXLINE + StackAbove + 1
    /\ rio_cnt \in 0 .. SIZE_MAX
    /\ taken \in Seq(Tokens)
    /\ call \in Calls
    /\ usrbuf \in Seq(Tokens) /\ Len(usrbuf) <= call.n
    /\ ret \in {"busy", "some", "zero", "crash"}

Line == [kind |-> "line", n |-> MAXLINE - 1]
Count(n) == [kind |-> "count", n |-> n]

RioInit ==
    /\ in = <<>>
    /\ conn = "open"
    /\ rio_buf = [i \in 1 .. MAXLINE |-> Junk]
    /\ rio_bufptr = 1
    /\ rio_cnt = 0
    /\ taken = <<>>
    /\ call = Line
    /\ usrbuf = <<>>
    /\ ret = "busy"

\* A caller makes its next call.
Start(c) == call' = c /\ usrbuf' = <<>> /\ ret' = "busy"

-----------------------------------------------------------------------------
(***************************************************************************)
(* rio_read: its system call, when the buffer is used up.                  *)
(***************************************************************************)
Empty == ret = "busy" /\ rio_cnt = 0

\* read fills the buffer with what has arrived, as far as it goes.
ReadSome ==
    /\ Empty /\ in # <<>>
    /\ rio_cnt' = Min({Len(in), MAXLINE})
    /\ rio_buf' = SubSeq(in, 1, rio_cnt') \o SubSeq(rio_buf, rio_cnt' + 1, MAXLINE)
    /\ in' = SubSeq(in, rio_cnt' + 1, Len(in))
    /\ UNCHANGED <<conn, taken, call, usrbuf, ret>>

\* Mutant: rio_bufptr is not set back.
FillOn == ReadSome /\ UNCHANGED rio_bufptr
Fill == ReadSome /\ rio_bufptr' = 1

\* read returns -1.  In a size_t that is not below 0, so it passes for a
\* count of SIZE_MAX bytes in a buffer that holds what it held before.
FillFailed ==
    /\ Empty /\ in = <<>> /\ conn = "reset"
    /\ conn' = "failed"
    /\ rio_cnt' = SIZE_MAX
    /\ rio_bufptr' = 1
    /\ UNCHANGED <<in, rio_buf, taken, call, usrbuf, ret>>

\* End of input: the call returns what it has.
FillEnd ==
    /\ Empty /\ in = <<>> /\ conn = "closed"
    /\ ret' = IF usrbuf = <<>> THEN "zero" ELSE "some"
    /\ UNCHANGED <<in, conn, buffer, call, usrbuf>>

-----------------------------------------------------------------------------
(***************************************************************************)
(* Rio_readlineb and Rio_readnb.                                           *)
(***************************************************************************)
Full(u) == Len(u) = call.n \/ (call.kind = "line" /\ Last(u) = CRLF)

\* What the pointer points at: behind what was ever read, anything.
Pointed ==
    IF rio_bufptr <= MAXLINE /\ rio_buf[rio_bufptr] # Junk
    THEN {rio_buf[rio_bufptr]} ELSE {Junk, CRLF}

Copy ==
    /\ ret = "busy" /\ rio_cnt > 0
    /\ rio_bufptr <= MAXLINE + StackAbove
    /\ \E b \in Pointed :
          /\ usrbuf' = Append(usrbuf, b)
          /\ taken' = Append(taken, b)
    /\ ret' = IF Full(usrbuf') THEN "some" ELSE "busy"
    /\ rio_bufptr' = rio_bufptr + 1
    /\ rio_cnt' = rio_cnt - 1
    /\ UNCHANGED <<in, conn, rio_buf, call>>

\* The pointer has left the memory of the stack.
CopyCrash ==
    /\ ret = "busy" /\ rio_cnt > 0
    /\ rio_bufptr > MAXLINE + StackAbove
    /\ ret' = "crash"
    /\ UNCHANGED <<in, conn, buffer, call, usrbuf>>

rio_read == Fill \/ FillFailed \/ FillEnd \/ Copy \/ CopyCrash
=============================================================================
