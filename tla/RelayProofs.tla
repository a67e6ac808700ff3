------------------------------ MODULE RelayProofs ------------------------------
(***************************************************************************)
(* Proofs about the reading and passing on of messages, for headers of any *)
(* number of lines, bodies and line buffers of any length, and bytes that  *)
(* arrive in pieces of any size.                                           *)
(***************************************************************************)
EXTENDS Relay, TLAPS, SequenceTheorems, WellFoundedInduction

\* No read has failed.
Ok == conn # "failed"

\* Nothing more will be read from the sender.
Dry == conn # "open" /\ in = <<>> /\ rio_cnt = 0

\* The sender is gone and has not sent all.
Broken == conn # "open" /\ unsent # <<>>

Responses == {"GetResponse", "PostResponse"}
AfterBody == {"bodyEnd", "relayed", "forwarded"}
AfterHeader == {"headerEnd", "connect", "chunked", "count"} \cup AfterBody

Places(t) ==
    CASE t = "ETagAnswer" -> {"status", "drain", "confirmed", "unconfirmed", "terminated"}
      [] t = "GetRequest" -> {"header", "headerEnd", "connect", "bodyEnd", "forwarded",
                              "badRequest", "gatewayTimeout", "terminated"}
      [] t = "PostRequest" -> {"header", "headerEnd", "connect", "chunked", "count", "bodyEnd",
                               "forwarded", "badRequest", "gatewayTimeout", "terminated"}
      [] t = "GetResponse" -> {"header", "headerEnd", "chunked", "count", "bodyEnd", "relayed",
                               "discarded", "terminated"}
      [] t = "PostResponse" -> {"header", "headerEnd", "count", "bodyEnd", "relayed",
                                "terminated"}

TaskInv == pc \in Places(task) /\ (task = "ETagAnswer" => out = <<>>)

\* The call in progress is the one its place makes, and ends as it may end.
CallInv ==
    /\ pc \in {"header", "status", "drain", "chunked"} => call = Line
    /\ pc = "count" => call = Count(remains) /\ remains > 0
    /\ ret = "busy" /\ pc \in {"header", "status", "drain", "chunked", "count"} =>
          Len(usrbuf) < call.n
    /\ call.kind = "line" =>
          \A i \in 1 .. Len(usrbuf) : usrbuf[i] = CRLF => i = Len(usrbuf) /\ ret # "busy"
    /\ Ok /\ ret = "zero" => Dry /\ usrbuf = <<>>
    /\ Ok /\ ret = "some" => usrbuf # <<>> /\ (Full(usrbuf) \/ Dry)
    /\ ret = "crash" => ~Ok

\* What is buffered lies within rio_buf.
BufferInv == Ok => rio_bufptr + rio_cnt - 1 <= MAXLINE

\* What has been read is in data and out, but for the line or part in usrbuf.
Pending == IF pc \in {"header", "chunked", "count", "terminated"} THEN usrbuf ELSE <<>>

PassInv == Ok =>
    /\ task \in Responses => out \o Pending = taken
    /\ pc = "forwarded" => out = data \/ Len(data) > RequestRoom
    /\ pc \in {"header", "headerEnd", "connect"} => data \o Pending = taken
    /\ pc \in {"chunked", "count"} /\ Text => data \o Pending = taken
    /\ pc \in AfterBody /\ Text /\ FramingSeen /\ task # "PostResponse" =>
          data = taken \/ Broken

\* Where the reader is when the call in progress began.
Begun == Len(taken) - Len(usrbuf)

\* No line is read across the end of the header.  If there is no false blank
\* each line is of one word, and the call begins before a word.
HeaderInv == Ok =>
    /\ pc \in {"headerEnd", "connect"} => Len(taken) <= Len(Header)
    /\ pc = "header" =>
          \/ Len(taken) < Len(Header)
          \/ Len(taken) = Len(Header) /\ usrbuf = Blank /\ ret = "some"
    /\ NoFalseBlank /\ pc = "header" => Begun % 2 = 0 \/ (Dry /\ usrbuf = <<>>)
    /\ NoFalseBlank /\ pc \in AfterHeader =>
          Len(taken) >= Len(Header) \/ (task \notin Requests /\ Broken)

\* A counted body ends where its count says.
CountInv == Ok /\ pc = "count" =>
    /\ CountedHeader(message.header)
    /\ remains + Begun <= Len(Header) + message.n
    /\ NoFalseBlank => remains + Begun = Len(Header) + message.n \/ Broken
    /\ NoFalseBlank /\ task # "PostResponse" => ~ChunkedHeader(message.header) \/ Broken

WholeInv == Ok /\ pc \in AfterBody /\ Framed /\ NoFalseBlank => taken = Sent \/ Broken

RioInv == BufferInv /\ NothingLostInRio
HandlerInv == TaskInv /\ CallInv /\ PassInv /\ HeaderInv /\ CountInv /\ WholeInv
IInv == TypeOK /\ RioInv /\ HandlerInv

-----------------------------------------------------------------------------
(***************************************************************************)
(* Numbers and sequences.                                                  *)
(***************************************************************************)
LEMMA LeastExists ==
    ASSUME NEW S \in SUBSET Nat, S # {}
    PROVE  \E m \in S : \A n \in S : m <= n
<1>1. PICK m \in S : \A n \in S : ~(<<n, m>> \in OpToRel(<, Nat))
  BY NatLessThanWellFounded, WFMin
<1>2. \A n \in Nat : <<n, m>> \in OpToRel(<, Nat) <=> n < m
  BY DEF OpToRel
<1>3. \A n \in S : ~(n < m) /\ n \in Nat
  BY <1>1, <1>2
<1> QED BY <1>3

LEMMA MinIsIn ==
    ASSUME NEW S \in SUBSET Nat, S # {}
    PROVE  Min(S) \in S /\ \A n \in S : Min(S) <= n
BY LeastExists DEF Min

\* Induction up to n, over the set of the numbers for which it holds.
LEMMA CountUp ==
    ASSUME NEW n \in Nat, NEW S, 0 \in S, \A i \in 1 .. n : i - 1 \in S => i \in S
    PROVE  n \in S
<1> DEFINE T == {i \in 0 .. n : i \notin S}
<1>1. SUFFICES ASSUME T # {} PROVE FALSE
  BY n \in 0 .. n
<1>2. T \in SUBSET Nat
  OBVIOUS
<1> HIDE DEF T
<1>3. PICK m \in T : \A i \in T : m <= i
  BY <1>1, <1>2, LeastExists
<1>4. m \in 1 .. n /\ m - 1 \notin T
  BY <1>2, <1>3 DEF T
<1> QED BY <1>4, <1>3 DEF T

LEMMA Joined ==
    ASSUME NEW a \in Seq(Tokens), NEW b \in Seq(Tokens), NEW c \in Seq(Tokens)
    PROVE  (a \o b) \o c = a \o (b \o c)
BY ConcatAssociative

LEMMA JoinElements ==
    ASSUME NEW S, NEW a \in Seq(S), NEW b \in Seq(S)
    PROVE  /\ a \o b \in Seq(S) /\ Len(a \o b) = Len(a) + Len(b)
           /\ Len(a) \in Nat /\ Len(b) \in Nat
           /\ \A i \in 1 .. Len(a) : i \in 1 .. Len(a) + Len(b) /\ (a \o b)[i] = a[i]
           /\ \A i \in 1 .. Len(b) :
                 Len(a) + i \in 1 .. Len(a) + Len(b) /\ (a \o b)[Len(a) + i] = b[i]
<1> DEFINE c == a \o b
<1>1. /\ c \in Seq(S) /\ Len(c) = Len(a) + Len(b) /\ Len(a) \in Nat /\ Len(b) \in Nat
      /\ \A i \in 1 .. Len(a) + Len(b) : c[i] = IF i <= Len(a) THEN a[i] ELSE b[i - Len(a)]
  BY ConcatProperties, LenProperties
<1> HIDE DEF c
<1>2. ASSUME NEW i \in 1 .. Len(a) PROVE i \in 1 .. Len(a) + Len(b) /\ c[i] = a[i]
  BY <1>1
<1>3. ASSUME NEW i \in 1 .. Len(b)
      PROVE  Len(a) + i \in 1 .. Len(a) + Len(b) /\ c[Len(a) + i] = b[i]
  <2> DEFINE k == Len(a) + i
  <2>1. k \in 1 .. Len(a) + Len(b) /\ ~(k <= Len(a)) /\ k - Len(a) = i
    BY <1>1
  <2> HIDE DEF k
  <2>2. c[k] = b[i]
    BY <1>1, <2>1
  <2> QED BY <2>1, <2>2 DEF k
<1> QED BY <1>1, <1>2, <1>3 DEF c

\* The beginning of a whole that is all there is the whole.
LEMMA AllOfIt ==
    ASSUME NEW a \in Seq(Tokens), NEW b \in Seq(Tokens), Len(a) >= Len(a \o b)
    PROVE  a = a \o b
<1>1. Len(a) \in Nat /\ Len(b) \in Nat /\ Len(a \o b) = Len(a) + Len(b)
  BY LenProperties, ConcatProperties
<1>2. b = <<>>
  BY <1>1, EmptySeq
<1> QED BY <1>2, ConcatEmptySeq

\* Strings that hold no zero byte are passed on as they are.
LEMMA CStrType ==
    ASSUME NEW s \in Seq(Tokens)
    PROVE  /\ CStr(s) \in Seq(Tokens)
           /\ (\A i \in 1 .. Len(s) : s[i] # "nul") => CStr(s) = s
<1> DEFINE I == {i \in 1 .. Len(s) : s[i] = "nul"}
<1>1. I \in SUBSET Nat
  OBVIOUS
<1>2. CStr(s) = IF I = {} \/ Min(I) = 0 THEN s ELSE SubSeq(s, 1, Min(I) - 1)
  BY DEF CStr, SelectInSeq
<1>3. I # {} => Min(I) \in I
  <2> HIDE DEF I
  <2> QED BY <1>1, MinIsIn
<1>4. I # {} => SubSeq(s, 1, Min(I) - 1) \in Seq(Tokens)
  <2>1. SUFFICES ASSUME I # {} PROVE SubSeq(s, 1, Min(I) - 1) \in Seq(Tokens)
    OBVIOUS
  <2>2. Min(I) \in 1 .. Len(s) /\ Len(s) \in Nat
    BY <1>3, <2>1, LenProperties
  <2> HIDE DEF I
  <2>3. \A i \in 1 .. Min(I) - 1 : s[i] \in Tokens
    BY <2>2, ElementOfSeq
  <2> QED BY <2>2, <2>3, SubSeqProperties
<1>5. (\A i \in 1 .. Len(s) : s[i] # "nul") => I = {}
  OBVIOUS
<1> HIDE DEF I
<1> QED BY <1>2, <1>4, <1>5

-----------------------------------------------------------------------------
(***************************************************************************)
(* Headers.                                                                *)
(***************************************************************************)
Words == {CRLF, "text", "length", "chunked", "304"}
Lines == HeaderLines \cup {<<"304", CRLF>>}

LEMMA LineFacts ==
    ASSUME NEW s \in Lines
    PROVE  /\ s \in Seq(Words) /\ Len(s) \in Nat /\ Len(s) >= 2
           /\ \A i \in 1 .. Len(s) : s[i] = CRLF <=> i = Len(s)
           /\ s # Plain(MAXLINE) => Len(s) = 2
           /\ (\E i \in 1 .. Len(s) : s[i] = "length") <=> s = <<"length", CRLF>>
           /\ (\E i \in 1 .. Len(s) : s[i] = "chunked") <=> s = <<"chunked", CRLF>>
<1>1. MAXLINE \in Nat /\ MAXLINE > 2
  BY RioAssumption
<1>2. ASSUME NEW k \in Nat, k >= 2, s = Plain(k)
      PROVE  /\ s \in Seq(Words) /\ Len(s) = k
             /\ \A i \in 1 .. Len(s) : s[i] = IF i = k THEN CRLF ELSE "text"
  BY <1>2 DEF Plain, Words, CRLF
<1>3. ASSUME NEW w \in {"length", "chunked", "304"}, s = <<w, CRLF>>
      PROVE  /\ s \in Seq(Words) /\ Len(s) = 2 /\ s[1] = w /\ s[2] = CRLF
  BY <1>3 DEF Words, CRLF
<1>4. CASE \E k \in {2, MAXLINE} : s = Plain(k)
  <2>1. PICK k \in {2, MAXLINE} : s = Plain(k)
    BY <1>4
  <2>2. k \in Nat /\ k >= 2
    BY <1>1
  <2>3. /\ s \in Seq(Words) /\ Len(s) = k
        /\ \A i \in 1 .. Len(s) : s[i] = IF i = k THEN CRLF ELSE "text"
    BY <1>2, <2>1, <2>2
  <2>4. s # <<"length", CRLF>> /\ s # <<"chunked", CRLF>>
    <3>1. s[1] = "text"
      BY <2>2, <2>3
    <3> QED BY <3>1
  <2> QED BY <2>1, <2>2, <2>3, <2>4 DEF CRLF
<1>5. CASE \E w \in {"length", "chunked", "304"} : s = <<w, CRLF>>
  <2>1. PICK w \in {"length", "chunked", "304"} : s = <<w, CRLF>>
    BY <1>5
  <2>2. s \in Seq(Words) /\ Len(s) = 2 /\ s[1] = w /\ s[2] = CRLF
    BY <1>3, <2>1
  <2>3. \A i \in 1 .. Len(s) : i = 1 \/ i = 2
    BY <2>2
  <2> QED BY <2>1, <2>2, <2>3 DEF CRLF
<1> QED BY <1>4, <1>5 DEF Lines, HeaderLines

\* g is the first n lines of the header h, one after the other.
Flat(g, h, n) ==
    /\ g \in Seq(Words)
    /\ n > 0 => Len(g) > 0 /\ g[Len(g)] = CRLF
    /\ \A i \in 1 .. Len(g) : \E j \in 1 .. n : \E m \in 1 .. Len(h[j]) : g[i] = h[j][m]
    /\ \A j \in 1 .. n : \A m \in 1 .. Len(h[j]) : \E i \in 1 .. Len(g) : g[i] = h[j][m]
    /\ (\A j \in 1 .. n : Len(h[j]) = 2) =>
          Len(g) = 2 * n /\ \A i \in 1 .. Len(g) : g[i] = CRLF <=> i % 2 = 0

LEMMA FlatMore ==
    ASSUME NEW h \in Seq(Lines), NEW n \in 1 .. Len(h), NEW g, Flat(g, h, n - 1)
    PROVE  Flat(g \o h[n], h, n)
<1> DEFINE s == h[n]
           f == g \o s
<1>1. /\ s \in Seq(Words) /\ Len(s) \in Nat /\ Len(s) >= 2
      /\ \A i \in 1 .. Len(s) : s[i] = CRLF <=> i = Len(s)
  <2>1. h[n] \in Lines
    BY ElementOfSeq
  <2> QED BY <2>1, LineFacts
<1>2. g \in Seq(Words) /\ Len(g) \in Nat
  BY LenProperties DEF Flat
<1> HIDE DEF s
<1>3. f \in Seq(Words) /\ Len(f) = Len(g) + Len(s)
  BY <1>1, <1>2, JoinElements
<1>4. /\ \A i \in 1 .. Len(g) : i \in 1 .. Len(f) /\ f[i] = g[i]
      /\ \A i \in 1 .. Len(s) : Len(g) + i \in 1 .. Len(f) /\ f[Len(g) + i] = s[i]
  <2>1. /\ \A i \in 1 .. Len(g) : i \in 1 .. Len(g) + Len(s) /\ f[i] = g[i]
        /\ \A i \in 1 .. Len(s) :
              Len(g) + i \in 1 .. Len(g) + Len(s) /\ f[Len(g) + i] = s[i]
    BY <1>1, <1>2, JoinElements
  <2> HIDE DEF f
  <2> QED BY <1>3, <2>1, Zenon
<1> HIDE DEF f
<1>5. Len(f) > 0 /\ f[Len(f)] = CRLF
  <2>1. Len(s) \in 1 .. Len(s) /\ s[Len(s)] = CRLF
    BY <1>1
  <2> QED BY <1>1, <1>2, <1>3, <1>4, <2>1
<1>6. ASSUME NEW i \in 1 .. Len(f)
      PROVE  \E j \in 1 .. n : \E m \in 1 .. Len(h[j]) : f[i] = h[j][m]
  <2>1. CASE i <= Len(g)
    <3>1. i \in 1 .. Len(g) /\ f[i] = g[i]
      BY <1>2, <1>3, <1>4, <1>6, <2>1
    <3>2. PICK j \in 1 .. n - 1 : \E m \in 1 .. Len(h[j]) : g[i] = h[j][m]
      BY <3>1 DEF Flat
    <3>3. j \in 1 .. n
      OBVIOUS
    <3> QED BY <3>1, <3>2, <3>3, Zenon
  <2>2. CASE i > Len(g)
    <3> DEFINE m == i - Len(g)
    <3>1. m \in 1 .. Len(s) /\ Len(g) + m = i
      BY <1>1, <1>2, <1>3, <1>6, <2>2
    <3> HIDE DEF m
    <3>2. f[i] = s[m]
      BY <1>4, <3>1
    <3>3. n \in 1 .. n
      OBVIOUS
    <3> QED BY <3>1, <3>2, <3>3 DEF s
  <2> QED BY <1>2, <1>3, <1>6, <2>1, <2>2
<1>7. ASSUME NEW j \in 1 .. n, NEW m \in 1 .. Len(h[j])
      PROVE  \E i \in 1 .. Len(f) : f[i] = h[j][m]
  <2>1. CASE j < n
    <3>1. j \in 1 .. n - 1
      BY <2>1
    <3>2. PICK i \in 1 .. Len(g) : g[i] = h[j][m]
      BY <1>7, <3>1 DEF Flat
    <3> QED BY <1>4, <3>2
  <2>2. CASE j = n
    <3>1. m \in 1 .. Len(s) /\ h[j][m] = s[m]
      BY <1>7, <2>2 DEF s
    <3> QED BY <1>4, <3>1
  <2> QED BY <2>1, <2>2
<1>8. ASSUME \A j \in 1 .. n : Len(h[j]) = 2
      PROVE  Len(f) = 2 * n /\ \A i \in 1 .. Len(f) : f[i] = CRLF <=> i % 2 = 0
  <2>1. Len(s) = 2
    BY <1>8 DEF s
  <2>2. \A j \in 1 .. n - 1 : Len(h[j]) = 2
    BY <1>8
  <2>3. Len(g) = 2 * (n - 1) /\ \A i \in 1 .. Len(g) : g[i] = CRLF <=> i % 2 = 0
    BY <2>2 DEF Flat
  <2>4. Len(f) = 2 * n
    BY <1>3, <2>1, <2>3
  <2>5. ASSUME NEW i \in 1 .. Len(f) PROVE f[i] = CRLF <=> i % 2 = 0
    <3>1. CASE i <= Len(g)
      <4>1. i \in 1 .. Len(g)
        BY <1>2, <3>1
      <4>2. f[i] = g[i]
        BY <1>4, <4>1
      <4> QED BY <2>3, <4>1, <4>2
    <3>2. CASE i = Len(g) + 1
      <4>1. f[i] = s[1] /\ s[1] # CRLF
        BY <1>1, <1>4, <2>1, <3>2
      <4>2. i % 2 # 0
        BY <2>3, <3>2
      <4> QED BY <4>1, <4>2
    <3>3. CASE i = Len(g) + 2
      <4>1. f[i] = s[2] /\ s[2] = CRLF
        BY <1>1, <1>4, <2>1, <3>3
      <4>2. i % 2 = 0
        BY <2>3, <3>3
      <4> QED BY <4>1, <4>2
    <3>4. i <= Len(g) \/ i = Len(g) + 1 \/ i = Len(g) + 2
      BY <1>2, <1>3, <2>1
    <3> QED BY <3>1, <3>2, <3>3, <3>4
  <2> QED BY <2>4, <2>5
<1>9. n > 0 => Len(f) > 0 /\ f[Len(f)] = CRLF
  BY <1>5
<1> QED BY <1>3, <1>6, <1>7, <1>8, <1>9 DEF Flat, f, s

\* The function in FlattenSeq exists, for a header of any length.
LoopOf(h, f, n) == f = [i \in 1 .. n |-> IF i = 1 THEN h[i] ELSE f[i - 1] \o h[i]]

LEMMA LoopExists ==
    ASSUME NEW h \in Seq(Lines)
    PROVE  \E f : LoopOf(h, f, Len(h))
<1> DEFINE S == {n \in 0 .. Len(h) : \E f : LoopOf(h, f, n)}
<1>1. 0 \in S
  <2>1. LoopOf(h, <<>>, 0)
    BY DEF LoopOf
  <2>2. Len(h) \in Nat
    BY LenProperties
  <2> QED BY <2>1, <2>2
<1>2. ASSUME NEW n \in 1 .. Len(h), n - 1 \in S PROVE n \in S
  <2>1. PICK f : LoopOf(h, f, n - 1)
    BY <1>2
  <2> DEFINE e == [i \in 1 .. n |->
                     IF i = n THEN IF n = 1 THEN h[n] ELSE f[n - 1] \o h[n] ELSE f[i]]
  <2>2. \A i \in 1 .. n - 1 : e[i] = f[i]
    OBVIOUS
  <2>3. e[n] = IF n = 1 THEN h[n] ELSE e[n - 1] \o h[n]
    BY <2>2
  <2>4. \A i \in 1 .. n - 1 : f[i] = IF i = 1 THEN h[i] ELSE f[i - 1] \o h[i]
    BY <2>1 DEF LoopOf
  <2>5. \A i \in 1 .. n - 1 : e[i] = IF i = 1 THEN h[i] ELSE e[i - 1] \o h[i]
    BY <2>2, <2>4
  <2>6. e = [i \in 1 .. n |-> e[i]]
    OBVIOUS
  <2> HIDE DEF e
  <2>7. \A i \in 1 .. n : e[i] = IF i = 1 THEN h[i] ELSE e[i - 1] \o h[i]
    BY <2>3, <2>5
  <2>8. LoopOf(h, e, n)
    BY <2>6, <2>7 DEF LoopOf
  <2> QED BY <2>8
<1> HIDE DEF S
<1>3. Len(h) \in S
  <2>1. Len(h) \in Nat /\ \A n \in 1 .. Len(h) : n - 1 \in S => n \in S
    BY <1>2, LenProperties
  <2> QED BY <1>1, <2>1, CountUp
<1> QED BY <1>3 DEF S

LEMMA FlattenIsFlat ==
    ASSUME NEW h \in Seq(Lines)
    PROVE  Flat(FlattenSeq(h), h, Len(h))
<1> DEFINE f == CHOOSE f : LoopOf(h, f, Len(h))
           S == {n \in 0 .. Len(h) : n = 0 \/ Flat(f[n], h, n)}
<1>a. Len(h) \in Nat
  BY LenProperties
<1>1. FlattenSeq(h) = IF Len(h) = 0 THEN h ELSE f[Len(h)]
  BY DEF FlattenSeq, LoopOf
<1>2. LoopOf(h, f, Len(h))
  BY LoopExists
<1> HIDE DEF f
<1>3. \A i \in 1 .. Len(h) : f[i] = IF i = 1 THEN h[i] ELSE f[i - 1] \o h[i]
  BY <1>2 DEF LoopOf
<1>4. Flat(<<>>, h, 0)
  <2>1. <<>> \in Seq(Words) /\ Len(<<>>) = 0
    OBVIOUS
  <2> QED BY <2>1 DEF Flat
<1>5. 0 \in S
  BY <1>a
<1>6. ASSUME NEW n \in 1 .. Len(h), n - 1 \in S PROVE n \in S
  <2>1. CASE n = 1
    <3>1. Flat(<<>> \o h[n], h, n)
      <4>1. Flat(<<>>, h, n - 1)
        BY <1>4, <2>1
      <4> QED BY <4>1, FlatMore
    <3>2. <<>> \o h[1] = f[1]
      <4>1. h[1] \in Seq(Words)
        BY <1>6, <2>1, ElementOfSeq, LineFacts
      <4>2. <<>> \o h[1] = h[1]
        BY <4>1, ConcatEmptySeq
      <4> QED BY <1>3, <1>6, <2>1, <4>2
    <3> QED BY <1>6, <2>1, <3>1, <3>2
  <2>2. CASE n # 1
    <3>1. Flat(f[n - 1], h, n - 1)
      BY <1>6, <2>2
    <3>2. Flat(f[n - 1] \o h[n], h, n)
      BY <3>1, FlatMore
    <3>3. f[n] = f[n - 1] \o h[n]
      BY <1>3, <2>2
    <3>4. Flat(f[n], h, n)
      BY <3>2, <3>3, Zenon
    <3> QED BY <3>4
  <2> QED BY <2>1, <2>2
<1> HIDE DEF S
<1>7. Len(h) \in S
  <2>1. \A n \in 1 .. Len(h) : n - 1 \in S => n \in S
    BY <1>6
  <2> QED BY <1>a, <1>5, <2>1, CountUp
<1>8. CASE Len(h) = 0
  BY <1>1, <1>4, <1>8, EmptySeq
<1>9. CASE Len(h) # 0
  BY <1>1, <1>7, <1>9 DEF S
<1> QED BY <1>8, <1>9

-----------------------------------------------------------------------------
(***************************************************************************)
(* Messages.                                                               *)
(***************************************************************************)
Sendable == Tokens \ {Junk}

LEMMA BodyFacts ==
    ASSUME NEW h, NEW n \in Nat, NEW b \in Bodies(h, n)
    PROVE  /\ b \in Seq(Sendable)
           /\ CountedHeader(h) => Len(b) <= n
           /\ CountedHeader(h) /\ ~ChunkedHeader(h) => Len(b) = n
<1>1. CASE CountedHeader(h) /\ ChunkedHeader(h)
  <2>1. b = <<>>
    BY <1>1 DEF Bodies
  <2> QED BY <1>1, <2>1
<1>2. CASE CountedHeader(h) /\ ~ChunkedHeader(h)
  <2>1. b \in [1 .. n -> {"text", "nul"}]
    BY <1>2 DEF Bodies
  <2>2. "text" \in Sendable /\ "nul" \in Sendable
    BY DEF Sendable, Tokens, Junk
  <2> QED BY <1>2, <2>1, <2>2
<1>3. CASE ~CountedHeader(h) /\ ChunkedHeader(h)
  <2>1. PICK c \in {"text", "nul"} : b = <<"text", CRLF, c, CRLF, "last", CRLF, CRLF>>
    BY <1>3 DEF Bodies
  <2>2. {"text", CRLF, c, "last"} \subseteq Sendable
    BY DEF Sendable, Tokens, Junk, CRLF
  <2> QED BY <1>3, <2>1, <2>2
<1>4. CASE ~CountedHeader(h) /\ ~ChunkedHeader(h)
  <2>1. b \in {<<>>, <<"text">>}
    BY <1>4 DEF Bodies
  <2>2. "text" \in Sendable
    BY DEF Sendable, Tokens, Junk
  <2>3. <<>> \in Seq(Sendable) /\ <<"text">> \in Seq(Sendable)
    BY <2>2
  <2> QED BY <1>4, <2>1, <2>3
<1> QED BY <1>1, <1>2, <1>3, <1>4

LEMMA MessageFacts ==
    ASSUME NEW t \in Tasks, message \in Messages(t)
    PROVE  /\ message.header \in Seq(Lines) /\ message.n \in Nat
           /\ message.body \in Seq(Sendable)
           /\ CountedHeader(message.header) => Len(message.body) <= message.n
           /\ CountedHeader(message.header) /\ ~ChunkedHeader(message.header) =>
                 Len(message.body) = message.n
<1>1. \E h \in Seq(Lines), n \in Nat : message \in Message(h, n)
  <2>1. CASE t = "ETagAnswer"
    <3>1. PICK s \in {<<"304", CRLF>>, Plain(2)} : message \in Message(<<s>>, 0)
      BY <2>1 DEF Messages
    <3>2. s \in Lines
      BY DEF Lines, HeaderLines
    <3>3. <<s>> \in Seq(Lines)
      BY <3>2
    <3> QED BY <3>1, <3>3
  <2>2. CASE t # "ETagAnswer"
    <3>1. PICK h \in Headers, n \in Lengths \cup {0} : message \in Message(h, n)
      BY <2>2 DEF Messages
    <3>2. n \in Nat
      <4>1. Lengths \subseteq Nat /\ 0 \in Nat
        BY RelayAssumption
      <4> QED BY <4>1, Zenon
    <3>3. h \in Seq(HeaderLines)
      BY RelayAssumption
    <3>4. h \in Seq(Lines)
      <4>1. HeaderLines \subseteq Lines
        BY DEF Lines
      <4> HIDE DEF Lines, HeaderLines
      <4> QED BY <3>3, <4>1, SeqMonotonic
    <3> QED BY <3>1, <3>2, <3>4
  <2> QED BY <2>1, <2>2
<1>2. PICK h \in Seq(Lines), n \in Nat : message \in Message(h, n)
  BY <1>1
<1>3. PICK b \in Bodies(h, n) : message = [header |-> h, n |-> n, body |-> b]
  BY <1>2 DEF Message
<1>4. message.header = h /\ message.n = n /\ message.body = b
  BY <1>3
<1> QED BY <1>4, BodyFacts

LEMMA HeaderFacts ==
    ASSUME message.header \in Seq(Lines)
    PROVE  /\ Header \in Seq(Words) /\ Len(Header) \in Nat /\ Len(Header) > 0
           /\ \A i \in 1 .. Len(Header) : Header[i] # "nul"
           /\ Header[Len(Header)] = CRLF
           /\ Len(Header) > 1 => Header[Len(Header) - 1] = CRLF
           /\ Contains(Header, "length") <=> CountedHeader(message.header)
           /\ Contains(Header, "chunked") <=> ChunkedHeader(message.header)
           /\ NoFalseBlank => \A i \in 1 .. Len(Header) - 1 : Header[i] = CRLF <=> i % 2 = 0
           /\ NoFalseBlank => Len(Header) % 2 = 1
<1> DEFINE h == message.header
           g == FlattenSeq(h)
           n == Len(h)
<1>1. Flat(g, h, n) /\ h \in Seq(Lines) /\ n \in Nat
  BY FlattenIsFlat, LenProperties
<1>2. Header = g \o Blank
  BY DEF Header, Blank
<1>a. \A j \in 1 .. n : h[j] \in Lines
  BY <1>1, ElementOfSeq
<1>b. /\ CountedHeader(h) <=> \E j \in 1 .. n : h[j] = <<"length", CRLF>>
      /\ ChunkedHeader(h) <=> \E j \in 1 .. n : h[j] = <<"chunked", CRLF>>
      /\ NoFalseBlank <=> \A j \in 1 .. n : h[j] # Plain(MAXLINE)
  BY DEF CountedHeader, ChunkedHeader, NoFalseBlank, Contains
<1> HIDE DEF g, n, h
<1>3. g \in Seq(Words) /\ Len(g) \in Nat
  BY <1>1, LenProperties DEF Flat
<1>4. Blank \in Seq(Words) /\ Len(Blank) = 1 /\ Blank[1] = CRLF
  BY DEF Blank, Words
<1>5. /\ Header \in Seq(Words) /\ Len(Header) = Len(g) + 1
      /\ \A i \in 1 .. Len(g) : i \in 1 .. Len(Header) /\ Header[i] = g[i]
      /\ Header[Len(g) + 1] = CRLF
  <2>1. /\ g \o Blank \in Seq(Words) /\ Len(g \o Blank) = Len(g) + Len(Blank)
        /\ \A i \in 1 .. Len(g) : i \in 1 .. Len(g) + Len(Blank) /\ (g \o Blank)[i] = g[i]
        /\ (g \o Blank)[Len(g) + 1] = Blank[1]
    <3>1. /\ g \o Blank \in Seq(Words) /\ Len(g \o Blank) = Len(g) + Len(Blank)
          /\ \A i \in 1 .. Len(g) : i \in 1 .. Len(g) + Len(Blank) /\ (g \o Blank)[i] = g[i]
          /\ \A i \in 1 .. Len(Blank) : (g \o Blank)[Len(g) + i] = Blank[i]
      <4>1. g \in Seq(Words) /\ Blank \in Seq(Words)
        BY <1>3, <1>4
      <4> HIDE DEF Words, Blank
      <4> QED BY <4>1, JoinElements
    <3>2. 1 \in 1 .. Len(Blank)
      BY <1>4
    <3> QED BY <3>1, <3>2, Zenon
  <2> QED BY <1>2, <1>4, <2>1
<1>6. Len(Header) > 1 => Header[Len(Header) - 1] = CRLF
  <2>1. SUFFICES ASSUME Len(Header) > 1 PROVE Header[Len(g)] = CRLF
    BY <1>3, <1>5
  <2>2. Len(g) \in 1 .. Len(g)
    BY <1>3, <1>5, <2>1
  <2>3. n > 0
    <3>1. ~(n = 0)
      BY <1>1, <2>2 DEF Flat
    <3> QED BY <1>1, <3>1
  <2> QED BY <1>1, <1>5, <2>2, <2>3 DEF Flat
<1>7. ASSUME NEW w, w # CRLF
      PROVE  Contains(Header, w) <=> \E j \in 1 .. n : \E m \in 1 .. Len(h[j]) : h[j][m] = w
  <2>1. Contains(Header, w) <=> \E i \in 1 .. Len(g) : g[i] = w
    <3>1. \A i \in 1 .. Len(Header) : i \in 1 .. Len(g) \/ i = Len(g) + 1
      BY <1>3, <1>5
    <3> QED BY <1>5, <1>7, <3>1 DEF Contains
  <2>2. /\ \A i \in 1 .. Len(g) : \E j \in 1 .. n : \E m \in 1 .. Len(h[j]) : g[i] = h[j][m]
        /\ \A j \in 1 .. n : \A m \in 1 .. Len(h[j]) : \E i \in 1 .. Len(g) : g[i] = h[j][m]
    BY <1>1 DEF Flat
  <2>3. (\E i \in 1 .. Len(g) : g[i] = w) <=>
           \E j \in 1 .. n : \E m \in 1 .. Len(h[j]) : h[j][m] = w
    <3>1. ASSUME NEW i \in 1 .. Len(g), g[i] = w
          PROVE  \E j \in 1 .. n : \E m \in 1 .. Len(h[j]) : h[j][m] = w
      <4>1. PICK j \in 1 .. n : \E m \in 1 .. Len(h[j]) : g[i] = h[j][m]
        BY <2>2
      <4> QED BY <3>1, <4>1
    <3>2. ASSUME NEW j \in 1 .. n, NEW m \in 1 .. Len(h[j]), h[j][m] = w
          PROVE  \E i \in 1 .. Len(g) : g[i] = w
      <4>1. PICK i \in 1 .. Len(g) : g[i] = h[j][m]
        BY <2>2
      <4> QED BY <3>2, <4>1
    <3> QED BY <3>1, <3>2
  <2> QED BY <2>1, <2>3, Zenon
<1>8. Contains(Header, "length") <=> CountedHeader(h)
  <2>1. "length" # CRLF
    BY DEF CRLF
  <2>2. \A j \in 1 .. n :
           (\E m \in 1 .. Len(h[j]) : h[j][m] = "length") <=> h[j] = <<"length", CRLF>>
    BY <1>a, LineFacts
  <2>3. Contains(Header, "length") <=>
           \E j \in 1 .. n : \E m \in 1 .. Len(h[j]) : h[j][m] = "length"
    BY <1>7, <2>1
  <2> QED BY <1>b, <2>2, <2>3
<1>9. Contains(Header, "chunked") <=> ChunkedHeader(h)
  <2>1. "chunked" # CRLF
    BY DEF CRLF
  <2>2. \A j \in 1 .. n :
           (\E m \in 1 .. Len(h[j]) : h[j][m] = "chunked") <=> h[j] = <<"chunked", CRLF>>
    BY <1>a, LineFacts
  <2>3. Contains(Header, "chunked") <=>
           \E j \in 1 .. n : \E m \in 1 .. Len(h[j]) : h[j][m] = "chunked"
    BY <1>7, <2>1
  <2> QED BY <1>b, <2>2, <2>3
<1>10. ASSUME NoFalseBlank
       PROVE  /\ \A i \in 1 .. Len(Header) - 1 : Header[i] = CRLF <=> i % 2 = 0
              /\ Len(Header) % 2 = 1
  <2>1. \A j \in 1 .. n : Len(h[j]) = 2
    BY <1>a, <1>b, <1>10, LineFacts
  <2>2. Len(g) = 2 * n /\ \A i \in 1 .. Len(g) : g[i] = CRLF <=> i % 2 = 0
    BY <1>1, <2>1 DEF Flat
  <2>3. Len(Header) - 1 = Len(g) /\ Len(Header) % 2 = 1
    BY <1>1, <1>5, <2>2
  <2> QED BY <1>5, <2>2, <2>3
<1>11. \A i \in 1 .. Len(Header) : Header[i] # "nul"
  <2>1. \A i \in 1 .. Len(Header) : Header[i] \in Words
    BY <1>5, ElementOfSeq
  <2>2. "nul" \notin Words
    BY DEF Words, CRLF
  <2> QED BY <2>1, <2>2
<1> QED BY <1>3, <1>5, <1>6, <1>8, <1>9, <1>10, <1>11 DEF h

LEMMA SentFacts ==
    ASSUME NEW t \in Tasks, message \in Messages(t)
    PROVE  /\ Sent \in Seq(Sendable) /\ Len(Sent) = Len(Header) + Len(message.body)
           /\ Len(Header) \in Nat /\ Len(message.body) \in Nat
           /\ \A i \in 1 .. Len(Header) : i \in 1 .. Len(Sent) /\ Sent[i] = Header[i]
           /\ Text => \A i \in 1 .. Len(Sent) : Sent[i] # "nul"
<1> DEFINE b == message.body
<1>1. b \in Seq(Sendable) /\ message.header \in Seq(Lines)
  BY MessageFacts
<1>2. Header \in Seq(Words) /\ \A i \in 1 .. Len(Header) : Header[i] # "nul"
  BY <1>1, HeaderFacts
<1>3. Header \in Seq(Sendable)
  <2>1. Words \subseteq Sendable
    BY DEF Words, Sendable, Tokens, CRLF, Junk
  <2> HIDE DEF Words, Sendable
  <2> QED BY <1>2, <2>1, SeqMonotonic
<1>4. Sent = Header \o b
  BY DEF Sent, Header
<1>5. Text => \A i \in 1 .. Len(b) : b[i] # "nul"
  BY DEF Text, Contains
<1> HIDE DEF b, Sendable
<1>6. /\ Header \o b \in Seq(Sendable) /\ Len(Header \o b) = Len(Header) + Len(b)
      /\ Len(Header) \in Nat /\ Len(b) \in Nat
      /\ \A i \in 1 .. Len(Header) :
            i \in 1 .. Len(Header) + Len(b) /\ (Header \o b)[i] = Header[i]
      /\ \A i \in 1 .. Len(b) : (Header \o b)[Len(Header) + i] = b[i]
  BY <1>1, <1>3, JoinElements
<1>7. ASSUME Text, NEW i \in 1 .. Len(Sent) PROVE Sent[i] # "nul"
  <2>1. CASE i <= Len(Header)
    <3>1. i \in 1 .. Len(Header)
      BY <1>6, <2>1
    <3> QED BY <1>2, <1>4, <1>6, <3>1
  <2>2. CASE i > Len(Header)
    <3> DEFINE k == i - Len(Header)
    <3>1. k \in 1 .. Len(b) /\ Len(Header) + k = i
      BY <1>4, <1>6, <1>7, <2>2
    <3> HIDE DEF k
    <3>2. (Header \o b)[i] = b[k]
      BY <1>6, <3>1
    <3> QED BY <1>4, <1>5, <1>7, <3>1, <3>2
  <2> QED BY <1>4, <1>6, <1>7, <2>1, <2>2
<1> QED BY <1>4, <1>6, <1>7 DEF b

-----------------------------------------------------------------------------
(***************************************************************************)
(* Types.                                                                  *)
(***************************************************************************)
CallPlaces == {"header", "status", "drain", "chunked", "count"}

LEMMA CallTypes ==
    Line \in Calls /\ Line.n \in Nat /\ \A n \in Nat : Count(n) \in Calls /\ Count(n).n = n
BY RioAssumption DEF Line, Count, Calls

\* A step of a handler keeps the types, if it makes a call or none and adds
\* sequences of tokens to data and out.
LEMMA HandlerTypes ==
    ASSUME TypeOK, Elsewhere,
           NoCall \/ \E c \in Calls : Start(c),
           pc' \in {"header", "headerEnd", "status", "drain", "chunked", "count", "connect", "bodyEnd",
                    "relayed", "forwarded", "badRequest", "gatewayTimeout", "discarded",
                    "confirmed", "unconfirmed", "terminated"},
           remains' \in Nat, data' \in Seq(Tokens), out' \in Seq(Tokens)
    PROVE  TypeOK'
<1>1. call' \in Calls /\ usrbuf' \in Seq(Tokens) /\ Len(usrbuf') <= call'.n
      /\ ret' \in {"busy", "some", "zero", "crash"}
  <2>1. CASE NoCall
    BY <2>1 DEF NoCall, TypeOK, RioTypeOK
  <2>2. CASE \E c \in Calls : Start(c)
    <3>1. PICK c \in Calls : Start(c)
      BY <2>2
    <3>2. c.n \in Nat /\ <<>> \in Seq(Tokens) /\ Len(<<>>) = 0
      BY DEF Calls
    <3> QED BY <3>1, <3>2 DEF Start
  <2> QED BY <2>1, <2>2
<1>2. RioTypeOK'
  BY <1>1 DEF TypeOK, RioTypeOK, Elsewhere, buffer
<1> QED BY <1>2 DEF TypeOK, Elsewhere, Ended, Returned

\* What the handlers add.
LEMMA Additions ==
    ASSUME TypeOK
    PROVE  /\ usrbuf \in Seq(Tokens) /\ CStr(usrbuf) \in Seq(Tokens)
           /\ data \o CStr(usrbuf) \in Seq(Tokens)
           /\ Relayed(usrbuf) \in Seq(Tokens) /\ Relayed(CStr(usrbuf)) \in Seq(Tokens)
<1>1. usrbuf \in Seq(Tokens) /\ data \in Seq(Tokens) /\ out \in Seq(Tokens)
  BY DEF TypeOK, RioTypeOK
<1>2. CStr(usrbuf) \in Seq(Tokens)
  BY <1>1, CStrType
<1> QED BY <1>1, <1>2, ConcatProperties DEF Relayed

LEMMA InitType == Init => TypeOK
<1> SUFFICES ASSUME Init PROVE TypeOK
  OBVIOUS
<1>1. RioTypeOK
  <2>1. MAXLINE \in Nat /\ StackAbove \in Nat /\ SIZE_MAX \in Nat
    BY RioAssumption
  <2>2. rio_buf \in [1 .. MAXLINE -> Tokens]
    BY DEF Init, RioInit, Tokens, Junk
  <2>3. rio_bufptr \in 1 .. MAXLINE + StackAbove + 1 /\ rio_cnt \in 0 .. SIZE_MAX
    BY <2>1 DEF Init, RioInit
  <2>4. call \in Calls /\ Len(<<>>) = 0 /\ 0 <= call.n
    BY CallTypes DEF Init, RioInit
  <2> QED BY <2>2, <2>3, <2>4 DEF Init, RioInit, RioTypeOK
<1>2. unsent \in Seq(Tokens)
  <2>1. Sent \in Seq(Sendable)
    BY SentFacts DEF Init
  <2>2. Sendable \subseteq Tokens
    BY DEF Sendable
  <2> HIDE DEF Sendable
  <2>3. Sent \in Seq(Tokens)
    BY <2>1, <2>2, SeqMonotonic
  <2> QED BY <2>3 DEF Init
<1> QED BY <1>1, <1>2 DEF Init, TypeOK, Ended, Returned

LEMMA SenderType ==
    ASSUME TypeOK, Sender
    PROVE  TypeOK'
<1>1. ASSUME Send PROVE TypeOK'
  <2>1. unsent \in Seq(Tokens) /\ in \in Seq(Tokens) /\ unsent # <<>>
    BY <1>1 DEF TypeOK, RioTypeOK, Send
  <2>2. Append(in, Head(unsent)) \in Seq(Tokens) /\ Tail(unsent) \in Seq(Tokens)
    BY <2>1, HeadTailProperties, AppendProperties
  <2>3. RioTypeOK'
    BY <1>1, <2>2 DEF TypeOK, RioTypeOK, Send, buffer
  <2> QED BY <1>1, <2>2, <2>3 DEF TypeOK, Send, handlerVars, Ended, Returned
<1>2. ASSUME Close \/ Reset PROVE TypeOK'
  <2>1. RioTypeOK'
    BY <1>2 DEF TypeOK, RioTypeOK, Close, Reset, buffer
  <2> QED BY <1>2, <2>1 DEF TypeOK, Close, Reset, handlerVars, Ended, Returned
<1> QED BY <1>1, <1>2 DEF Sender

\* What has arrived fills the beginning of rio_buf.
LEMMA Filled ==
    ASSUME TypeOK, Fill
    PROVE  /\ rio_cnt' \in 1 .. Len(in) /\ rio_cnt' <= MAXLINE
           /\ rio_buf' \in [1 .. MAXLINE -> Tokens]
           /\ SubSeq(rio_buf', 1, rio_cnt') = SubSeq(in, 1, rio_cnt')
<1> DEFINE n == rio_cnt'
           a == SubSeq(in, 1, n)
           b == SubSeq(rio_buf, n + 1, MAXLINE)
<1>1. /\ in \in Seq(Tokens) /\ in # <<>> /\ Len(in) \in Nat \ {0}
      /\ MAXLINE \in Nat /\ MAXLINE > 2 /\ rio_buf \in [1 .. MAXLINE -> Tokens]
      /\ n = Min({Len(in), MAXLINE}) /\ rio_buf' = a \o b
  BY EmptySeq, RioAssumption DEF TypeOK, RioTypeOK, Fill, ReadSome
<1>2. n \in 1 .. Len(in) /\ n <= MAXLINE /\ n \in Nat
  <2> DEFINE S == {Len(in), MAXLINE}
  <2>1. S \in SUBSET Nat /\ S # {} /\ n = Min(S)
    BY <1>1
  <2> HIDE DEF S
  <2>2. n \in S /\ \A i \in S : n <= i
    <3> HIDE DEF n
    <3> QED BY <2>1, MinIsIn
  <2> QED BY <1>1, <2>2 DEF S
<1> HIDE DEF n
<1>3. a \in Seq(Tokens) /\ Len(a) = n /\ \A i \in 1 .. n : a[i] = in[i]
  <2>1. \A i \in 1 .. n : in[i] \in Tokens
    BY <1>1, <1>2, ElementOfSeq
  <2> QED BY <1>2, <2>1, SubSeqProperties
<1>4. b \in Seq(Tokens) /\ Len(b) = MAXLINE - n
  <2>1. \A i \in n + 1 .. MAXLINE : rio_buf[i] \in Tokens
    BY <1>1, <1>2
  <2>2. n + 1 \in Int /\ MAXLINE \in Int
    BY <1>1, <1>2
  <2>3. b \in Seq(Tokens) /\ Len(b) = IF n + 1 <= MAXLINE THEN MAXLINE - (n + 1) + 1 ELSE 0
    BY <2>1, <2>2, SubSeqProperties
  <2> HIDE DEF b
  <2>4. (IF n + 1 <= MAXLINE THEN MAXLINE - (n + 1) + 1 ELSE 0) = MAXLINE - n
    BY <1>1, <1>2
  <2> QED BY <2>3, <2>4
<1> HIDE DEF a, b
<1>5. a \o b \in Seq(Tokens) /\ Len(a \o b) = MAXLINE
      /\ \A i \in 1 .. n : (a \o b)[i] = a[i]
  <2>1. /\ a \o b \in Seq(Tokens) /\ Len(a \o b) = Len(a) + Len(b)
        /\ \A i \in 1 .. Len(a) : (a \o b)[i] = a[i]
    BY <1>3, <1>4, JoinElements
  <2>2. n + (MAXLINE - n) = MAXLINE
    BY <1>1, <1>2
  <2> QED BY <1>3, <1>4, <2>1, <2>2, Zenon
<1>6. rio_buf' \in [1 .. MAXLINE -> Tokens]
  BY <1>1, <1>5, LenProperties
<1>7. SubSeq(rio_buf', 1, n) = a
  <2> DEFINE c == SubSeq(rio_buf', 1, n)
  <2>1. \A i \in 1 .. n : rio_buf'[i] = a[i] /\ rio_buf'[i] \in Tokens
    <3>1. \A i \in 1 .. n : a[i] \in Tokens
      BY <1>3, ElementOfSeq
    <3> QED BY <1>1, <1>5, <3>1
  <2>2. c \in Seq(Tokens) /\ Len(c) = n /\ \A i \in 1 .. n : c[i] = rio_buf'[i]
    BY <1>2, <2>1, SubSeqProperties
  <2> HIDE DEF c
  <2>3. c = a
    BY <1>2, <1>3, <2>1, <2>2, SeqEqual
  <2> QED BY <2>3 DEF c
<1> QED BY <1>1, <1>2, <1>6, <1>7 DEF n, a

LEMMA Cut ==
    ASSUME NEW q \in Seq(Tokens), NEW n \in 0 .. Len(q)
    PROVE  /\ SubSeq(q, 1, n) \in Seq(Tokens) /\ SubSeq(q, n + 1, Len(q)) \in Seq(Tokens)
           /\ SubSeq(q, 1, n) \o SubSeq(q, n + 1, Len(q)) = q
           /\ Len(SubSeq(q, 1, n)) = n
<1>1. Len(q) \in Nat /\ \A i \in 1 .. Len(q) : q[i] \in Tokens
  BY LenProperties, ElementOfSeq
<1>2. \A i \in 1 .. n : q[i] \in Tokens
  BY <1>1
<1>3. SubSeq(q, 1, n) \in Seq(Tokens) /\ Len(SubSeq(q, 1, n)) = n
  BY <1>2, SubSeqProperties
<1>4. \A i \in n + 1 .. Len(q) : q[i] \in Tokens
  BY <1>1
<1>5. SubSeq(q, n + 1, Len(q)) \in Seq(Tokens)
  BY <1>1, <1>4, SubSeqProperties
<1>6. SubSeq(q, 1, n) \o SubSeq(q, n + 1, Len(q)) = q
  <2>1. 1 \in 1 .. Len(q) + 1 /\ n \in 1 - 1 .. Len(q) /\ Len(q) \in n .. Len(q)
    BY <1>1
  <2> QED BY <2>1, ConcatAdjacentSubSeq, SubSeqFull
<1> QED BY <1>3, <1>5, <1>6

LEMMA ReadingType ==
    ASSUME TypeOK, CallInv, Reading
    PROVE  TypeOK'
<1>a. /\ UNCHANGED <<task, message, unsent, pc, remains, data, out>>
      /\ pc \in CallPlaces
      /\ MAXLINE \in Nat /\ MAXLINE > 2 /\ StackAbove \in Nat /\ SIZE_MAX \in Nat
      /\ SIZE_MAX > MAXLINE + StackAbove
  BY RioAssumption DEF Reading, handlerVars, CallPlaces
<1>1. SUFFICES RioTypeOK'
  BY <1>a DEF TypeOK, Ended, Returned
<1>2. ASSUME Fill PROVE RioTypeOK'
  <2>1. rio_cnt' \in 1 .. Len(in) /\ rio_cnt' <= MAXLINE /\ rio_buf' \in [1 .. MAXLINE -> Tokens]
    BY <1>2, Filled
  <2>2. in \in Seq(Tokens) /\ in' = SubSeq(in, rio_cnt' + 1, Len(in)) /\ Len(in) \in Nat
    BY <1>2, LenProperties DEF TypeOK, RioTypeOK, Fill, ReadSome
  <2>3. in' \in Seq(Tokens)
    <3>1. rio_cnt' \in 0 .. Len(in)
      BY <2>1, <2>2
    <3> QED BY <2>2, <3>1, Cut
  <2>4. rio_cnt' \in 0 .. SIZE_MAX /\ rio_bufptr' \in 1 .. MAXLINE + StackAbove + 1
    BY <1>a, <1>2, <2>1, <2>2 DEF Fill
  <2> QED BY <1>2, <2>1, <2>3, <2>4 DEF TypeOK, RioTypeOK, Fill, ReadSome
<1>3. ASSUME FillFailed PROVE RioTypeOK'
  BY <1>a, <1>3 DEF TypeOK, RioTypeOK, FillFailed
<1>4. ASSUME FillEnd \/ CopyCrash PROVE RioTypeOK'
  BY <1>4 DEF TypeOK, RioTypeOK, FillEnd, CopyCrash, buffer
<1>5. ASSUME Copy PROVE RioTypeOK'
  <2>1. PICK b \in Pointed : usrbuf' = Append(usrbuf, b) /\ taken' = Append(taken, b)
    BY <1>5 DEF Copy
  <2>2. b \in Tokens
    <3>1. Junk \in Tokens /\ CRLF \in Tokens
      BY DEF Tokens
    <3>2. rio_bufptr <= MAXLINE => rio_buf[rio_bufptr] \in Tokens
      BY <1>a DEF TypeOK, RioTypeOK
    <3> QED BY <2>1, <3>1, <3>2 DEF Pointed
  <2>3. usrbuf \in Seq(Tokens) /\ taken \in Seq(Tokens) /\ call \in Calls
    BY DEF TypeOK, RioTypeOK
  <2>4. usrbuf' \in Seq(Tokens) /\ taken' \in Seq(Tokens) /\ Len(usrbuf') = Len(usrbuf) + 1
    BY <2>1, <2>2, <2>3, AppendProperties
  <2>5. Len(usrbuf') <= call.n
    <3>1. Len(usrbuf) < call.n
      BY <1>a, <1>5 DEF Copy, CallInv, CallPlaces
    <3>2. Len(usrbuf) \in Nat /\ call.n \in Nat
      BY <2>3, LenProperties DEF Calls
    <3> QED BY <2>4, <3>1, <3>2
  <2>6. rio_cnt' \in 0 .. SIZE_MAX /\ rio_bufptr' \in 1 .. MAXLINE + StackAbove + 1
    BY <1>a, <1>5 DEF Copy, TypeOK, RioTypeOK
  <2> QED BY <1>5, <2>4, <2>5, <2>6 DEF TypeOK, RioTypeOK, Copy
<1> QED BY <1>2, <1>3, <1>4, <1>5 DEF Reading, rio_read

\* What reaches the origin of a request that was too long is still of tokens.
LEMMA DamagedType ==
    ASSUME data \in Seq(Tokens), Damaged(data)
    PROVE  out' \in Seq(Tokens)
<1> DEFINE a == SubSeq(data, 1, RequestRoom)
<1>1. RequestRoom \in Nat /\ Len(data) \in Nat /\ Len(data) > RequestRoom
  BY RelayAssumption, LenProperties DEF Damaged
<1>2. a \in Seq(Tokens)
  <2>1. \A i \in 1 .. RequestRoom : data[i] \in Tokens
    BY <1>1, ElementOfSeq
  <2> QED BY <1>1, <2>1, SubSeqProperties
<1>3. <<Junk>> \in Seq(Tokens) /\ out' = a \o <<Junk>>
  BY DEF Tokens, Damaged
<1> HIDE DEF a
<1> QED BY <1>2, <1>3, ConcatProperties

LEMMA HandlerType ==
    ASSUME TypeOK, CallInv,
           \/ BodyEnd \/ Overrun \/ handleHeader \/ Crash \/ handleETag
           \/ readAndWriteChunkedData \/ readAndWriteContentLengthData
    PROVE  TypeOK'
<1>a. /\ usrbuf \in Seq(Tokens) /\ CStr(usrbuf) \in Seq(Tokens)
      /\ data \o CStr(usrbuf) \in Seq(Tokens)
      /\ Relayed(usrbuf) \in Seq(Tokens) /\ Relayed(CStr(usrbuf)) \in Seq(Tokens)
      /\ data \in Seq(Tokens) /\ out \in Seq(Tokens) /\ remains \in Nat
      /\ Line \in Calls
  BY Additions, CallTypes DEF TypeOK
<1>1. ASSUME HeaderLine \/ ChunkedLine PROVE TypeOK'
  <2>1. /\ Elsewhere /\ remains' = remains
        /\ NoCall \/ \E c \in Calls : Start(c)
        /\ pc' \in {"header", "headerEnd", "chunked", "bodyEnd"}
    BY <1>a, <1>1 DEF HeaderLine, ChunkedLine
  <2>2. data' \in Seq(Tokens) /\ out' \in Seq(Tokens)
    BY <1>a, <1>1 DEF HeaderLine, ChunkedLine
  <2> QED BY <1>a, <2>1, <2>2, HandlerTypes
<1>2. ASSUME \/ HeaderCut \/ RequestHeaderEnd \/ ChunkedCut \/ BodyEnd \/ StatusLine
             \/ DrainLine \/ DrainCut \/ Overrun \/ Crash
      PROVE  TypeOK'
  <2>1. /\ Elsewhere /\ remains' = remains /\ data' = data
        /\ out' = out \/ out' = data \/ Damaged(data)
        /\ NoCall \/ \E c \in Calls : Start(c)
        /\ pc' = pc \/ pc' \in {"headerEnd", "connect", "badRequest", "bodyEnd", "forwarded",
                                "relayed", "confirmed", "drain", "unconfirmed", "terminated"}
    BY <1>a, <1>2 DEF HeaderCut, RequestHeaderEnd, ChunkedCut, BodyEnd, StatusLine, DrainLine,
                      DrainCut, Overrun, Crash, handlerVars
  <2>2. Damaged(data) => out' \in Seq(Tokens)
    BY <1>a, DamagedType
  <2> QED BY <1>a, <2>1, <2>2, HandlerTypes DEF TypeOK, Ended, Returned
<1>b. getContentLength \in Nat
  BY MessageFacts DEF TypeOK, getContentLength
<1>3. ASSUME GetHeaderEnd \/ PostHeaderEnd \/ Connect PROVE TypeOK'
  <2>1. ASSUME CountBody
        PROVE  /\ remains' \in Nat /\ (\E c \in Calls : Start(c))
               /\ pc' \in {"terminated", "bodyEnd", "count"}
    BY <1>b, <2>1, CallTypes DEF CountBody
  <2>2. ASSUME ChunkedBody
        PROVE  remains' = remains /\ (\E c \in Calls : Start(c)) /\ pc' = "chunked"
    BY <1>a, <2>2 DEF ChunkedBody
  <2>3. Elsewhere /\ data' = data /\ out' = out
    BY <1>3 DEF GetHeaderEnd, PostHeaderEnd, Connect
  <2>4. /\ remains' \in Nat /\ (NoCall \/ \E c \in Calls : Start(c))
        /\ pc' \in {"discarded", "terminated", "bodyEnd", "count", "chunked", "gatewayTimeout"}
    BY <1>3, <1>a, <2>1, <2>2 DEF GetHeaderEnd, PostHeaderEnd, Connect
  <2> QED BY <1>a, <2>3, <2>4, HandlerTypes
<1>4. ASSUME CountPart PROVE TypeOK'
  <2>1. remains - Len(usrbuf) \in Nat
    <3>1. call = Count(remains) /\ Len(usrbuf) <= call.n
      BY <1>4 DEF CountPart, CallInv, TypeOK, RioTypeOK
    <3>2. call.n = remains /\ Len(usrbuf) \in Nat
      BY <1>a, <3>1, CallTypes, LenProperties
    <3> QED BY <1>a, <3>1, <3>2
  <2>2. Elsewhere /\ (NoCall \/ \E c \in Calls : Start(c)) /\ pc' \in {"bodyEnd", "count"}
    BY <1>4, <2>1, CallTypes DEF CountPart
  <2>3. data' \in Seq(Tokens) /\ out' \in Seq(Tokens) /\ remains' \in Nat
    BY <1>a, <1>4, <2>1 DEF CountPart
  <2> QED BY <2>2, <2>3, HandlerTypes
<1>5. ASSUME CountCut PROVE TypeOK'
  <2>1. PICK g \in {<<>>, <<Junk>>} : data' = data \o g
    BY <1>5 DEF CountCut
  <2>2. <<Junk>> \in Seq(Tokens) /\ <<>> \in Seq(Tokens)
    BY DEF Tokens
  <2>3. data' \in Seq(Tokens)
    BY <1>a, <2>1, <2>2, ConcatProperties
  <2> QED BY <1>a, <1>5, <2>3, HandlerTypes DEF CountCut
<1> QED BY <1>1, <1>2, <1>3, <1>4, <1>5
     DEF handleHeader, readAndWriteChunkedData, readAndWriteContentLengthData, handleETag

LEMMA TypeStep ==
    ASSUME TypeOK, CallInv, [Next]_vars
    PROVE  TypeOK'
<1>1. ASSUME UNCHANGED vars PROVE TypeOK'
  <2>1. RioTypeOK'
    BY <1>1 DEF TypeOK, RioTypeOK, vars, rioVars, buffer
  <2> QED BY <1>1, <2>1 DEF TypeOK, vars, rioVars, handlerVars, Ended, Returned
<1> QED BY <1>1, SenderType, ReadingType, HandlerType DEF Next, Handler, Over

-----------------------------------------------------------------------------
(***************************************************************************)
(* The bytes on their way through rio_buf.                                 *)
(***************************************************************************)
Buffered == SubSeq(rio_buf, rio_bufptr, rio_bufptr + rio_cnt - 1)

LEMMA BufferTypes ==
    ASSUME TypeOK, BufferInv, Ok
    PROVE  /\ Buffered \in Seq(Tokens) /\ in \in Seq(Tokens) /\ unsent \in Seq(Tokens)
           /\ taken \in Seq(Tokens) /\ rio_cnt \in Nat
           /\ rio_cnt = 0 => Buffered = <<>>
           /\ rio_cnt > 0 =>
                 /\ rio_bufptr \in 1 .. MAXLINE
                 /\ Len(Buffered) > 0 /\ Buffered[1] = rio_buf[rio_bufptr]
                 /\ rio_buf[rio_bufptr] \in Tokens
                 /\ Buffered = <<rio_buf[rio_bufptr]>>
                               \o SubSeq(rio_buf, rio_bufptr + 1, rio_bufptr + rio_cnt - 1)
                 /\ SubSeq(rio_buf, rio_bufptr + 1, rio_bufptr + rio_cnt - 1) \in Seq(Tokens)
<1> DEFINE p == rio_bufptr
           e == rio_bufptr + rio_cnt - 1
<1>1. /\ in \in Seq(Tokens) /\ unsent \in Seq(Tokens) /\ taken \in Seq(Tokens)
      /\ rio_buf \in [1 .. MAXLINE -> Tokens] /\ MAXLINE \in Nat
      /\ p \in Nat /\ p >= 1 /\ rio_cnt \in Nat /\ e <= MAXLINE /\ e \in Int
  BY RioAssumption DEF TypeOK, RioTypeOK, BufferInv
<1>2. \A i \in p .. e : rio_buf[i] \in Tokens
  BY <1>1
<1>3. /\ Buffered \in Seq(Tokens) /\ Len(Buffered) = IF p <= e THEN e - p + 1 ELSE 0
      /\ \A i \in 1 .. e - p + 1 : Buffered[i] = rio_buf[p + i - 1]
  BY <1>1, <1>2, SubSeqProperties DEF Buffered
<1>4. rio_cnt = 0 => Buffered = <<>>
  BY <1>1, SubSeqEmpty DEF Buffered
<1>5. ASSUME rio_cnt > 0
      PROVE  /\ p \in 1 .. MAXLINE /\ Len(Buffered) > 0 /\ Buffered[1] = rio_buf[p]
             /\ rio_buf[p] \in Tokens
             /\ Buffered = <<rio_buf[p]>> \o SubSeq(rio_buf, p + 1, e)
             /\ SubSeq(rio_buf, p + 1, e) \in Seq(Tokens)
  <2>1. p \in 1 .. MAXLINE /\ p <= e /\ e \in p .. MAXLINE /\ 1 \in 1 .. e - p + 1 /\ p + 1 - 1 = p
    BY <1>1, <1>5
  <2> HIDE DEF e, p
  <2>2. Len(Buffered) = e - p + 1 /\ Buffered[1] = rio_buf[p] /\ rio_buf[p] \in Tokens
    BY <1>1, <1>3, <2>1
  <2>3. rio_buf \in Seq(Tokens) /\ Len(rio_buf) = MAXLINE
    BY <1>1
  <2>4. SubSeq(rio_buf, p, e) = <<rio_buf[p]>> \o SubSeq(rio_buf, p + 1, e)
    BY <2>1, <2>3, SubSeqRecursiveFirst
  <2>5. \A i \in p + 1 .. e : rio_buf[i] \in Tokens
    BY <1>1, <2>1
  <2>6. SubSeq(rio_buf, p + 1, e) \in Seq(Tokens)
    BY <1>1, <2>1, <2>5, SubSeqProperties
  <2> QED BY <1>1, <2>1, <2>2, <2>4, <2>6 DEF Buffered, e, p
<1> QED BY <1>1, <1>3, <1>4, <1>5

LEMMA RioFacts ==
    ASSUME TypeOK, RioInv, Ok
    PROVE  /\ taken \in Seq(Tokens) /\ Len(taken) \in Nat /\ Len(taken) <= Len(Sent)
           /\ Sent \in Seq(Tokens) /\ Len(Sent) \in Nat
           /\ \A i \in 1 .. Len(taken) : i \in 1 .. Len(Sent) /\ taken[i] = Sent[i]
           /\ rio_cnt > 0 =>
                 /\ Len(taken) < Len(Sent) /\ rio_bufptr \in 1 .. MAXLINE
                 /\ rio_buf[rio_bufptr] = Sent[Len(taken) + 1] /\ rio_buf[rio_bufptr] # Junk
           /\ Dry => taken = Sent \/ Broken
<1> DEFINE B == Buffered
           rest == B \o (in \o unsent)
           n == Len(taken)
<1>1. /\ BufferInv /\ ((taken \o B) \o in) \o unsent = Sent
  BY DEF RioInv, NothingLostInRio, Ok, Buffered
<1>2. /\ B \in Seq(Tokens) /\ in \in Seq(Tokens) /\ unsent \in Seq(Tokens)
      /\ taken \in Seq(Tokens) /\ rio_cnt \in Nat
      /\ rio_cnt = 0 => B = <<>>
      /\ rio_cnt > 0 =>
            rio_bufptr \in 1 .. MAXLINE /\ Len(B) > 0 /\ B[1] = rio_buf[rio_bufptr]
  BY <1>1, BufferTypes
<1> HIDE DEF B
<1>3. Sent = taken \o rest /\ in \o unsent \in Seq(Tokens) /\ rest \in Seq(Tokens)
  <2>1. taken \o B \in Seq(Tokens) /\ in \o unsent \in Seq(Tokens)
    BY <1>2, ConcatProperties
  <2>2. ((taken \o B) \o in) \o unsent = (taken \o B) \o (in \o unsent)
    <3> DEFINE l == taken \o B
    <3>1. l \in Seq(Tokens)
      BY <2>1
    <3> HIDE DEF l
    <3>2. (l \o in) \o unsent = l \o (in \o unsent)
      BY <1>2, <3>1, Joined
    <3> QED BY <3>2 DEF l
  <2>3. (taken \o B) \o (in \o unsent) = taken \o rest
    <3> DEFINE r == in \o unsent
    <3>1. r \in Seq(Tokens)
      BY <2>1
    <3> HIDE DEF r
    <3>2. (taken \o B) \o r = taken \o (B \o r)
      BY <1>2, <3>1, Joined
    <3> QED BY <3>2 DEF r
  <2>4. rest \in Seq(Tokens)
    BY <1>2, <2>1, ConcatProperties
  <2> HIDE DEF rest
  <2> QED BY <1>1, <2>1, <2>2, <2>3, <2>4
<1> HIDE DEF rest
<1>4. /\ taken \o rest \in Seq(Tokens) /\ Len(taken \o rest) = n + Len(rest)
      /\ n \in Nat /\ Len(rest) \in Nat
      /\ \A i \in 1 .. n : i \in 1 .. n + Len(rest) /\ (taken \o rest)[i] = taken[i]
      /\ \A i \in 1 .. Len(rest) : (taken \o rest)[n + i] = rest[i]
  <2> HIDE DEF n
  <2> QED BY <1>2, <1>3, JoinElements DEF n
<1> HIDE DEF n
<1>5. ASSUME rio_cnt > 0
      PROVE  n < Len(Sent) /\ rio_buf[rio_bufptr] = Sent[n + 1] /\ Sent[n + 1] # Junk
  <2>1. Len(B) > 0 /\ B[1] = rio_buf[rio_bufptr] /\ Len(B) \in Nat
    BY <1>2, <1>5, LenProperties
  <2>2. /\ Len(rest) = Len(B) + Len(in \o unsent) /\ Len(in \o unsent) \in Nat
        /\ \A i \in 1 .. Len(B) : rest[i] = B[i]
    <3> HIDE DEF rest
    <3> QED BY <1>2, <1>3, JoinElements DEF rest
  <2>3. 1 \in 1 .. Len(B) /\ 1 \in 1 .. Len(rest)
    BY <2>1, <2>2
  <2>4. rest[1] = rio_buf[rio_bufptr]
    BY <2>1, <2>2, <2>3
  <2>5. Sent[n + 1] = rest[1] /\ n < Len(Sent)
    BY <1>3, <1>4, <2>3
  <2>6. Sent[n + 1] \in Sendable
    <3>1. Sent \in Seq(Sendable)
      BY SentFacts DEF TypeOK
    <3>2. n + 1 \in 1 .. Len(Sent)
      BY <1>3, <1>4, <2>5
    <3> QED BY <3>1, <3>2, ElementOfSeq
  <2> QED BY <2>4, <2>5, <2>6 DEF Sendable
<1>6. ASSUME Dry PROVE taken = Sent \/ Broken
  <2>1. SUFFICES ASSUME unsent = <<>> PROVE taken = Sent
    BY <1>6 DEF Dry, Broken
  <2>2. B = <<>> /\ in = <<>>
    BY <1>2, <1>6 DEF Dry
  <2>3. rest = <<>>
    BY <2>1, <2>2 DEF rest
  <2> QED BY <1>2, <1>3, <2>3, ConcatEmptySeq
<1> QED BY <1>2, <1>3, <1>4, <1>5, <1>6 DEF n

\* Taking the first token of q to the end of g.
LEMMA HeadMoves ==
    ASSUME NEW g \in Seq(Tokens), NEW q \in Seq(Tokens), q # <<>>
    PROVE  Append(g, Head(q)) \in Seq(Tokens) /\ Tail(q) \in Seq(Tokens)
           /\ Append(g, Head(q)) \o Tail(q) = g \o q
<1>1. Head(q) \in Tokens /\ Tail(q) \in Seq(Tokens) /\ <<Head(q)>> \in Seq(Tokens)
  BY HeadTailProperties
<1>2. q = <<Head(q)>> \o Tail(q)
  <2>1. Len(q) \in Nat \ {0}
    BY EmptySeq
  <2>2. 1 \in 1 .. Len(q) /\ Len(q) \in 1 .. Len(q)
    BY <2>1
  <2>3. SubSeq(q, 1, Len(q)) = <<q[1]>> \o SubSeq(q, 1 + 1, Len(q))
    BY <2>2, SubSeqRecursiveFirst
  <2> QED BY <2>1, <2>3, SubSeqFull, TailIsSubSeq
<1>3. Append(g, Head(q)) = g \o <<Head(q)>> /\ Append(g, Head(q)) \in Seq(Tokens)
  BY <1>1, AppendIsConcat, AppendProperties
<1> QED BY <1>1, <1>2, <1>3, Joined

LEMMA SentStays == UNCHANGED message => Sent' = Sent /\ Header' = Header
BY DEF Sent, Header

\* Who moves bytes.
LEMMA Movers ==
    ASSUME [Next]_vars
    PROVE  /\ UNCHANGED <<task, message>>
           /\ \/ Send
              \/ (Fill \/ Copy \/ FillFailed) /\ UNCHANGED unsent
              \/ /\ UNCHANGED <<in, rio_buf, rio_bufptr, rio_cnt, taken, unsent>>
                 /\ conn' = conn \/ (conn # "failed" /\ conn' \in {"closed", "reset"})
<1>1. ASSUME Sender PROVE message' = message /\ task' = task
  BY <1>1 DEF Sender, Send, Close, Reset
<1>2. ASSUME Close \/ Reset
      PROVE  /\ UNCHANGED <<in, rio_buf, rio_bufptr, rio_cnt, taken, unsent>>
             /\ conn # "failed" /\ conn' \in {"closed", "reset"}
  BY <1>2 DEF Close, Reset, buffer
<1>3. ASSUME Reading
      PROVE  /\ UNCHANGED <<task, message, unsent>>
             /\ \/ Fill \/ Copy \/ FillFailed
                \/ UNCHANGED <<in, rio_buf, rio_bufptr, rio_cnt, taken, conn>>
  BY <1>3 DEF Reading, rio_read, FillEnd, CopyCrash, buffer
<1>4. ASSUME \/ BodyEnd \/ Overrun \/ handleHeader \/ Crash \/ handleETag
             \/ readAndWriteChunkedData \/ readAndWriteContentLengthData
      PROVE  Elsewhere
  BY <1>4 DEF BodyEnd, Overrun, Crash, handleHeader, HeaderLine, HeaderCut, GetHeaderEnd, PostHeaderEnd,
              RequestHeaderEnd, Connect, readAndWriteChunkedData, ChunkedLine, ChunkedCut,
              readAndWriteContentLengthData, CountPart, CountCut,
              handleETag, StatusLine, DrainLine, DrainCut
<1>5. ASSUME Elsewhere \/ UNCHANGED vars
      PROVE  UNCHANGED <<in, rio_buf, rio_bufptr, rio_cnt, taken, conn, task, message, unsent>>
  BY <1>5 DEF Elsewhere, buffer, vars, rioVars
<1> QED BY <1>1, <1>2, <1>3, <1>4, <1>5 DEF Next, Sender, Handler, Over

LEMMA InitRio == Init => RioInv
<1> SUFFICES ASSUME Init PROVE RioInv
  OBVIOUS
<1>1. BufferInv
  BY RioAssumption DEF Init, RioInit, BufferInv
<1>2. TypeOK /\ Ok
  BY InitType DEF Init, RioInit, Ok
<1>3. Buffered = <<>> /\ unsent \in Seq(Tokens)
  BY <1>1, <1>2, BufferTypes DEF Init, RioInit
<1>4. ((<<>> \o <<>>) \o <<>>) \o unsent = unsent
  BY <1>3, ConcatEmptySeq
<1> QED BY <1>1, <1>3, <1>4 DEF Init, RioInit, RioInv, NothingLostInRio, Buffered

LEMMA RioStep ==
    ASSUME TypeOK, RioInv, [Next]_vars
    PROVE  RioInv'
<1> DEFINE kept == ((taken \o Buffered) \o in) \o unsent
<1>a. /\ Ok' => Ok
      /\ message' = message
      /\ \/ Send
         \/ (Fill \/ Copy \/ FillFailed) /\ UNCHANGED unsent
         \/ UNCHANGED <<in, rio_buf, rio_bufptr, rio_cnt, taken, unsent>>
  BY Movers DEF Ok, Send, Fill, ReadSome, Copy, FillFailed
<1>1. SUFFICES ASSUME Ok, Ok' PROVE BufferInv' /\ kept' = kept
  <2>1. Ok => kept = Sent
    BY DEF RioInv, NothingLostInRio, Ok, Buffered
  <2>2. (Ok' => kept' = Sent') => NothingLostInRio'
    BY DEF NothingLostInRio, Ok, Buffered
  <2>3. Sent' = Sent
    BY <1>a, SentStays
  <2>4. ~Ok' => BufferInv'
    BY DEF BufferInv
  <2> HIDE DEF kept
  <2> QED BY <1>a, <2>1, <2>2, <2>3, <2>4 DEF RioInv
<1>b. /\ BufferInv /\ Buffered \in Seq(Tokens) /\ in \in Seq(Tokens)
      /\ unsent \in Seq(Tokens) /\ taken \in Seq(Tokens) /\ rio_cnt \in Nat
      /\ rio_cnt = 0 => Buffered = <<>>
  BY <1>1, BufferTypes DEF RioInv
<1>2. CASE Send
  <2>1. /\ UNCHANGED <<rio_buf, rio_bufptr, rio_cnt, taken, conn>> /\ unsent # <<>>
        /\ in' = Append(in, Head(unsent)) /\ unsent' = Tail(unsent)
    BY <1>2 DEF Send, buffer
  <2>2. BufferInv' /\ Buffered' = Buffered
    BY <1>b, <2>1 DEF BufferInv, Ok, Buffered
  <2> DEFINE f == taken \o Buffered
  <2>3. f \in Seq(Tokens) /\ f' = f
    BY <1>b, <2>1, <2>2, ConcatProperties
  <2> HIDE DEF f
  <2>4. in' \in Seq(Tokens) /\ unsent' \in Seq(Tokens) /\ in' \o unsent' = in \o unsent
    BY <1>b, <2>1, HeadMoves
  <2>5. (f \o in') \o unsent' = f \o (in' \o unsent')
    BY <2>3, <2>4, Joined
  <2>6. (f \o in) \o unsent = f \o (in \o unsent)
    BY <1>b, <2>3, Joined
  <2>7. kept = (f \o in) \o unsent /\ kept' = (f' \o in') \o unsent'
    BY DEF f
  <2> HIDE DEF kept
  <2> QED BY <2>2, <2>3, <2>4, <2>5, <2>6, <2>7
<1>3. CASE Fill /\ UNCHANGED unsent
  <2> DEFINE n == rio_cnt'
  <2>1. /\ rio_cnt = 0 /\ rio_bufptr' = 1 /\ taken' = taken /\ unsent' = unsent
        /\ in' = SubSeq(in, n + 1, Len(in))
    BY <1>3 DEF Fill, ReadSome, Empty
  <2>2. n \in 1 .. Len(in) /\ n <= MAXLINE /\ SubSeq(rio_buf', 1, n) = SubSeq(in, 1, n)
    BY <1>3, Filled
  <2>3. n \in 0 .. Len(in) /\ n \in Nat /\ 1 + n - 1 = n
    <3>1. Len(in) \in Nat
      BY <1>b, LenProperties
    <3> HIDE DEF n
    <3> QED BY <2>2, <3>1
  <2>4. BufferInv'
    BY <2>1, <2>2, <2>3 DEF BufferInv
  <2>5. Buffered' = SubSeq(in, 1, n) /\ Buffered = <<>>
    BY <1>b, <2>1, <2>2, <2>3 DEF Buffered
  <2> HIDE DEF n
  <2>6. SubSeq(in, 1, n) \in Seq(Tokens) /\ in' \in Seq(Tokens) /\ SubSeq(in, 1, n) \o in' = in
    BY <1>b, <2>1, <2>3, Cut
  <2>7. (taken \o Buffered') \o in' = taken \o in
    <3>1. (taken \o SubSeq(in, 1, n)) \o in' = taken \o (SubSeq(in, 1, n) \o in')
      BY <1>b, <2>6, Joined
    <3> QED BY <2>5, <2>6, <3>1
  <2>8. taken \o Buffered = taken
    BY <1>b, <2>5, ConcatEmptySeq
  <2> QED BY <2>1, <2>4, <2>7, <2>8
<1>4. CASE Copy /\ UNCHANGED unsent
  <2> DEFINE b == rio_buf[rio_bufptr]
             left == SubSeq(rio_buf, rio_bufptr + 1, rio_bufptr + rio_cnt - 1)
  <2>1. /\ rio_cnt > 0 /\ rio_bufptr' = rio_bufptr + 1 /\ rio_cnt' = rio_cnt - 1
        /\ UNCHANGED <<in, conn, rio_buf, unsent>>
        /\ \E c \in Pointed : taken' = Append(taken, c)
    BY <1>4 DEF Copy
  <2>2. rio_bufptr \in 1 .. MAXLINE /\ b # Junk
    BY <1>1, <2>1, RioFacts
  <2>3. b \in Tokens /\ Buffered = <<b>> \o left /\ left \in Seq(Tokens)
    BY <1>1, <1>b, <2>1, BufferTypes
  <2>4. taken' = Append(taken, b)
    <3>1. rio_bufptr <= MAXLINE
      BY <2>2, RioAssumption
    <3> QED BY <2>1, <2>2, <3>1 DEF Pointed
  <2>5. rio_bufptr' + rio_cnt' - 1 = rio_bufptr + rio_cnt - 1
    BY <1>b, <2>1, <2>2, RioAssumption
  <2>6. BufferInv' /\ Buffered' = left
    BY <1>1, <1>b, <2>1, <2>5 DEF BufferInv, Ok, Buffered
  <2> HIDE DEF b, left
  <2>7. taken' \o left = taken \o Buffered
    <3>1. taken' = taken \o <<b>> /\ <<b>> \in Seq(Tokens)
      BY <1>b, <2>3, <2>4, AppendIsConcat
    <3> QED BY <1>b, <2>3, <3>1, Joined
  <2> QED BY <2>1, <2>6, <2>7
<1>5. CASE UNCHANGED <<in, rio_buf, rio_bufptr, rio_cnt, taken, unsent>>
  BY <1>1, <1>b, <1>5 DEF BufferInv, Buffered
<1> QED BY <1>1, <1>a, <1>2, <1>3, <1>4, <1>5 DEF FillFailed, Ok

-----------------------------------------------------------------------------
(***************************************************************************)
(* The invariant of the handlers, while bytes move.                        *)
(***************************************************************************)
LEMMA InitHandler == Init => HandlerInv
<1> SUFFICES ASSUME Init PROVE HandlerInv
  OBVIOUS
<1>1. TypeOK
  BY InitType
<1>2. /\ taken = <<>> /\ usrbuf = <<>> /\ data = <<>> /\ out = <<>> /\ call = Line /\ ret = "busy"
      /\ task \in Tasks /\ pc = IF task = "ETagAnswer" THEN "status" ELSE "header"
  BY DEF Init, RioInit
<1>3. Len(<<>>) = 0 /\ (<<>> \o <<>>) = <<>>
  OBVIOUS
<1>4. TaskInv
  BY <1>2 DEF TaskInv, Places, Tasks
<1>5. CallInv
  BY <1>2, <1>3, RioAssumption DEF CallInv, Line
<1>6. PassInv
  BY <1>2, <1>3 DEF PassInv, Pending, AfterBody
<1>7. HeaderInv
  <2>1. Len(Header) > 0
    BY <1>1, MessageFacts, HeaderFacts DEF TypeOK
  <2>2. Begun = 0 /\ 0 % 2 = 0
    BY <1>2, <1>3 DEF Begun
  <2> QED BY <1>2, <1>3, <2>1, <2>2 DEF HeaderInv, AfterHeader, AfterBody
<1> QED BY <1>2, <1>4, <1>5, <1>6, <1>7 DEF HandlerInv, CountInv, WholeInv, AfterBody

\* Of the message nothing changes.
LEMMA MessageStays ==
    ASSUME UNCHANGED <<task, message>>
    PROVE  /\ Sent' = Sent /\ Header' = Header
           /\ (NoFalseBlank' <=> NoFalseBlank) /\ (Text' <=> Text)
           /\ (FramingSeen' <=> FramingSeen) /\ (Framed' <=> Framed)
BY SentStays DEF NoFalseBlank, Text, FramingSeen, Framed

\* A step that touches neither the handler nor its call keeps the invariant,
\* if it ends no reading and no sending that had ended.
LEMMA Carried ==
    ASSUME HandlerInv, UNCHANGED <<task, message, handlerVars, taken, call, usrbuf, ret>>,
           Ok' => Ok /\ (Dry => Dry') /\ (Broken => Broken')
    PROVE  HandlerInv'
<1>a. /\ UNCHANGED <<task, message, pc, remains, data, out, taken, call, usrbuf, ret>>
      /\ Sent' = Sent /\ Header' = Header
      /\ (NoFalseBlank' <=> NoFalseBlank) /\ (Text' <=> Text)
      /\ (FramingSeen' <=> FramingSeen) /\ (Framed' <=> Framed)
      /\ Begun' = Begun /\ Pending' = Pending
  BY MessageStays DEF handlerVars, Begun, Pending
<1>1. TaskInv'
  BY <1>a DEF HandlerInv, TaskInv
<1>2. CallInv'
  BY <1>a DEF HandlerInv, CallInv, Full
<1>3. PassInv'
  BY <1>a DEF HandlerInv, PassInv
<1>4. HeaderInv'
  BY <1>a DEF HandlerInv, HeaderInv
<1>5. CountInv'
  BY <1>a DEF HandlerInv, CountInv
<1>6. WholeInv'
  BY <1>a DEF HandlerInv, WholeInv
<1> QED BY <1>1, <1>2, <1>3, <1>4, <1>5, <1>6 DEF HandlerInv

LEMMA MoveStep ==
    ASSUME IInv,
           \/ Sender \/ UNCHANGED vars
           \/ (Fill \/ FillFailed) /\ UNCHANGED <<task, message, unsent, handlerVars>>
    PROVE  HandlerInv'
<1>1. UNCHANGED <<task, message, handlerVars, taken, call, usrbuf, ret>>
  BY DEF Sender, Send, Close, Reset, Fill, ReadSome, FillFailed, buffer, vars, rioVars
<1>2. Ok' => Ok /\ (Dry => Dry') /\ (Broken => Broken')
  <2>1. CASE Send
    BY <2>1 DEF Send, buffer, Ok, Dry, Broken
  <2>2. CASE Close \/ Reset
    BY <2>2 DEF Close, Reset, buffer, Ok, Dry, Broken
  <2>3. CASE UNCHANGED vars
    BY <2>3 DEF vars, rioVars, buffer, Ok, Dry, Broken
  <2>4. CASE Fill /\ UNCHANGED unsent
    BY <2>4 DEF Fill, ReadSome, Ok, Dry, Broken
  <2>5. CASE FillFailed
    BY <2>5 DEF FillFailed, Ok
  <2> QED BY <2>1, <2>2, <2>3, <2>4, <2>5 DEF Sender
<1> QED BY <1>1, <1>2, Carried DEF IInv

\* While a header is read, the line in usrbuf is where the reader is in it.
LEMMA InHeader ==
    ASSUME IInv, Ok, pc = "header"
    PROVE  /\ Len(taken) \in Nat /\ Len(taken) <= Len(Header) /\ Len(usrbuf) \in Nat
           /\ Begun \in Nat
           /\ \A i \in 1 .. Len(usrbuf) :
                 Begun + i \in 1 .. Len(Header) /\ usrbuf[i] = Header[Begun + i]
           /\ CStr(usrbuf) = usrbuf
           /\ task # "ETagAnswer"
<1>1. /\ data \in Seq(Tokens) /\ usrbuf \in Seq(Tokens) /\ data \o usrbuf = taken
      /\ Len(taken) <= Len(Header) /\ task # "ETagAnswer" /\ TypeOK /\ RioInv
  <2>1. Len(taken) <= Len(Header)
    <3>1. Len(Header) \in Nat
      BY SentFacts DEF IInv, TypeOK
    <3> QED BY <3>1, RioFacts DEF IInv, HandlerInv, HeaderInv
  <2> QED BY <2>1 DEF IInv, TypeOK, RioTypeOK, HandlerInv, PassInv, Pending, TaskInv, Places
<1>2. /\ Len(taken) \in Nat /\ Len(Header) \in Nat
      /\ \A i \in 1 .. Len(taken) : taken[i] = Sent[i]
      /\ \A i \in 1 .. Len(Header) : Sent[i] = Header[i]
  BY <1>1, RioFacts, SentFacts DEF TypeOK
<1>3. /\ Len(taken) = Len(data) + Len(usrbuf) /\ Len(data) \in Nat /\ Len(usrbuf) \in Nat
      /\ \A i \in 1 .. Len(usrbuf) :
            Len(data) + i \in 1 .. Len(data) + Len(usrbuf) /\ taken[Len(data) + i] = usrbuf[i]
  BY <1>1, JoinElements
<1>4. Begun = Len(data)
  BY <1>3 DEF Begun
<1>5. ASSUME NEW i \in 1 .. Len(usrbuf)
      PROVE  Begun + i \in 1 .. Len(Header) /\ usrbuf[i] = Header[Begun + i]
  <2> DEFINE k == Begun + i
  <2>1. k \in 1 .. Len(taken) /\ taken[k] = usrbuf[i]
    BY <1>3, <1>4
  <2> HIDE DEF k
  <2>2. k \in 1 .. Len(Header)
    BY <1>1, <1>2, <2>1
  <2> QED BY <1>2, <2>1, <2>2 DEF k
<1>6. CStr(usrbuf) = usrbuf
  <2>1. \A i \in 1 .. Len(Header) : Header[i] # "nul"
    BY <1>1, MessageFacts, HeaderFacts DEF TypeOK
  <2>2. \A i \in 1 .. Len(usrbuf) : usrbuf[i] # "nul"
    BY <1>5, <2>1
  <2> QED BY <1>1, <2>2, CStrType
<1> QED BY <1>1, <1>2, <1>3, <1>4, <1>5, <1>6

LEMMA CopyStep ==
    ASSUME IInv, Copy, pc \in CallPlaces, UNCHANGED <<task, message, unsent, handlerVars>>
    PROVE  HandlerInv'
<1>1. PICK b \in Pointed : usrbuf' = Append(usrbuf, b) /\ taken' = Append(taken, b)
  BY DEF Copy
<1>a. /\ TypeOK /\ RioInv /\ TypeOK'
      /\ UNCHANGED <<task, message, unsent, pc, remains, data, out, conn, call>>
      /\ ret = "busy" /\ rio_cnt > 0 /\ ret' = IF Full(usrbuf') THEN "some" ELSE "busy"
      /\ Sent' = Sent /\ Header' = Header /\ (NoFalseBlank' <=> NoFalseBlank) /\ (Text' <=> Text)
  <2>1. Reading
    BY DEF Reading, rio_read, CallPlaces
  <2>2. TypeOK'
    BY <2>1, ReadingType DEF IInv, HandlerInv
  <2> QED BY <2>2, MessageStays DEF IInv, Copy, handlerVars
<1>b. /\ usrbuf \in Seq(Tokens) /\ taken \in Seq(Tokens) /\ out \in Seq(Tokens)
      /\ data \in Seq(Tokens) /\ b \in Tokens
      /\ Len(usrbuf) \in Nat /\ Len(taken) \in Nat
      /\ Len(usrbuf') = Len(usrbuf) + 1 /\ Len(taken') = Len(taken) + 1
      /\ usrbuf'[Len(usrbuf) + 1] = b /\ usrbuf' # <<>>
      /\ \A i \in 1 .. Len(usrbuf) : usrbuf'[i] = usrbuf[i]
  <2>1. b \in Tokens
    <3>1. Junk \in Tokens /\ CRLF \in Tokens
      BY DEF Tokens
    <3>2. rio_bufptr <= MAXLINE => rio_buf[rio_bufptr] \in Tokens
      BY <1>a, RioAssumption DEF TypeOK, RioTypeOK
    <3> QED BY <1>1, <3>1, <3>2 DEF Pointed
  <2>2. usrbuf \in Seq(Tokens) /\ taken \in Seq(Tokens) /\ out \in Seq(Tokens) /\ data \in Seq(Tokens)
    BY <1>a DEF TypeOK, RioTypeOK
  <2> QED BY <1>1, <2>1, <2>2, AppendProperties, LenProperties
<1>c. Begun' = Begun /\ Begun \in Int
  BY <1>b DEF Begun
<1>d. Ok => b = Sent[Len(taken) + 1] /\ ~Dry
  <2>1. rio_cnt > 0
    BY <1>a
  <2>2. ASSUME Ok PROVE b = Sent[Len(taken) + 1]
    <3>1. /\ rio_bufptr \in 1 .. MAXLINE /\ rio_buf[rio_bufptr] = Sent[Len(taken) + 1]
          /\ rio_buf[rio_bufptr] # Junk
      BY <1>a, <2>1, <2>2, RioFacts
    <3>2. rio_bufptr <= MAXLINE
      BY <3>1, RioAssumption
    <3> QED BY <1>1, <3>1, <3>2 DEF Pointed
  <2> QED BY <2>1, <2>2 DEF Dry
<1>e. (Ok' <=> Ok) /\ (Broken' <=> Broken)
  BY <1>a DEF Ok, Broken
<1>2. TaskInv'
  BY <1>a DEF IInv, HandlerInv, TaskInv
<1>3. CallInv'
  <2>1. CallInv /\ (call.kind = "line" => \A i \in 1 .. Len(usrbuf) : usrbuf[i] # CRLF)
    BY <1>a DEF IInv, HandlerInv, CallInv
  <2>2. ret' = "busy" => Len(usrbuf') < call.n
    <3>1. Len(usrbuf') <= call.n /\ call.n \in Nat
      BY <1>a DEF TypeOK, RioTypeOK, Calls
    <3>2. ret' = "busy" => Len(usrbuf') # call.n
      BY <1>a DEF Full
    <3> QED BY <1>b, <3>1, <3>2
  <2>3. call.kind = "line" =>
           \A i \in 1 .. Len(usrbuf') : usrbuf'[i] = CRLF => i = Len(usrbuf') /\ ret' # "busy"
    <3>1. SUFFICES ASSUME call.kind = "line", NEW i \in 1 .. Len(usrbuf'), usrbuf'[i] = CRLF
                   PROVE  i = Len(usrbuf') /\ ret' # "busy"
      OBVIOUS
    <3>2. i = Len(usrbuf) + 1
      <4>1. i \in 1 .. Len(usrbuf) \/ i = Len(usrbuf) + 1
        BY <1>b, <3>1
      <4> QED BY <1>b, <2>1, <3>1, <4>1
    <3>3. Full(usrbuf')
      <4>1. Last(usrbuf') = CRLF
        BY <1>b, <3>1, <3>2 DEF Last
      <4> QED BY <1>a, <3>1, <4>1 DEF Full
    <3> QED BY <1>a, <1>b, <3>2, <3>3
  <2>4. ret' = "some" => usrbuf' # <<>> /\ Full(usrbuf')
    BY <1>a, <1>b
  <2>5. ret' # "zero" /\ ret' # "crash" /\ Full(usrbuf)' = Full(usrbuf')
    BY <1>a DEF Full
  <2> QED BY <1>a, <2>1, <2>2, <2>3, <2>4, <2>5 DEF CallInv
<1>4. PassInv'
  <2>1. SUFFICES ASSUME Ok PROVE PassInv'
    BY <1>e DEF PassInv
  <2>2. ASSUME NEW s \in Seq(Tokens), s \o usrbuf = taken PROVE s \o usrbuf' = taken'
    <3> DEFINE c == <<b>>
    <3>1. usrbuf' = usrbuf \o c /\ taken' = taken \o c /\ c \in Seq(Tokens)
      BY <1>1, <1>b, AppendIsConcat
    <3>2. usrbuf \in Seq(Tokens) /\ s \in Seq(Tokens)
      BY <1>b, <2>2
    <3> HIDE DEF c
    <3>3. (s \o usrbuf) \o c = s \o (usrbuf \o c)
      BY <3>1, <3>2, Joined
    <3> QED BY <2>2, <3>1, <3>3, Zenon
  <2>3. CASE pc \in {"header", "chunked", "count"}
    <3>1. Pending = usrbuf /\ Pending' = usrbuf'
      BY <1>a, <2>3 DEF Pending
    <3>2. /\ task \in Responses => out \o usrbuf = taken
          /\ pc = "header" => data \o usrbuf = taken
          /\ pc # "header" /\ Text => data \o usrbuf = taken
      BY <2>1, <2>3, <3>1 DEF IInv, HandlerInv, PassInv
    <3>3. /\ task \in Responses => out \o usrbuf' = taken'
          /\ pc = "header" => data \o usrbuf' = taken'
          /\ pc # "header" /\ Text => data \o usrbuf' = taken'
      BY <1>b, <2>2, <3>2
    <3> QED BY <1>a, <2>3, <3>1, <3>3 DEF PassInv, AfterBody
  <2>4. CASE pc \notin {"header", "chunked", "count"}
    <3>1. pc \in {"status", "drain"} /\ task = "ETagAnswer"
      BY <1>a, <2>4 DEF CallPlaces, IInv, HandlerInv, TaskInv, Places, TypeOK, Tasks
    <3> QED BY <1>a, <3>1 DEF PassInv, AfterBody, Responses
  <2> QED BY <2>3, <2>4
<1>5. HeaderInv'
  <2>1. SUFFICES ASSUME Ok PROVE HeaderInv'
    BY <1>e DEF HeaderInv
  <2>a. Len(Header) \in Nat
    BY <1>a, SentFacts DEF TypeOK
  <2>2. CASE pc = "header"
    <3>1. Len(taken) < Len(Header)
      BY <1>a, <2>1, <2>2 DEF IInv, HandlerInv, HeaderInv
    <3>2. ASSUME Len(taken) + 1 = Len(Header) PROVE usrbuf' = Blank /\ ret' = "some"
      <4>1. /\ Header[Len(Header)] = CRLF
            /\ Len(Header) > 1 => Header[Len(Header) - 1] = CRLF
        BY <1>a, MessageFacts, HeaderFacts DEF TypeOK
      <4>2. usrbuf = <<>>
        <5>1. SUFFICES ASSUME usrbuf # <<>> PROVE FALSE
          OBVIOUS
        <5>2. Len(usrbuf) > 0 /\ Len(usrbuf) \in 1 .. Len(usrbuf)
          BY <1>b, <5>1, EmptySeq
        <5>3. Begun + Len(usrbuf) = Len(taken)
          BY <1>b DEF Begun
        <5>4. Begun + Len(usrbuf) \in 1 .. Len(Header)
              /\ usrbuf[Len(usrbuf)] = Header[Begun + Len(usrbuf)]
          BY <2>1, <2>2, <5>2, InHeader
        <5>5. Len(taken) = Len(Header) - 1 /\ Len(taken) >= 1
          BY <1>b, <2>a, <3>2, <5>3, <5>4
        <5>6. usrbuf[Len(usrbuf)] = CRLF
          BY <2>a, <4>1, <5>3, <5>4, <5>5
        <5>7. call.kind = "line"
          BY <2>2 DEF IInv, HandlerInv, CallInv, Line
        <5> QED BY <1>a, <5>2, <5>6, <5>7 DEF IInv, HandlerInv, CallInv
      <4>3. b = CRLF
        <5>1. Len(Header) \in 1 .. Len(Header)
          BY <2>a, <3>1, <1>b
        <5>2. Sent[Len(Header)] = Header[Len(Header)]
          BY <1>a, <5>1, SentFacts DEF TypeOK
        <5> QED BY <1>d, <2>1, <3>2, <4>1, <5>2
      <4>4. usrbuf' = Blank
        BY <1>1, <4>2, <4>3 DEF Blank
      <4>5. Full(usrbuf')
        <5>1. call.kind = "line"
          BY <2>2 DEF IInv, HandlerInv, CallInv, Line
        <5>2. Last(Blank) = CRLF
          BY DEF Blank, Last
        <5> QED BY <1>a, <4>4, <5>1, <5>2 DEF Full
      <4> QED BY <1>a, <4>4, <4>5
    <3>3. \/ Len(taken') < Len(Header)
          \/ Len(taken') = Len(Header) /\ usrbuf' = Blank /\ ret' = "some"
      <4>1. CASE Len(taken) + 1 < Len(Header)
        BY <1>b, <4>1
      <4>2. CASE Len(taken) + 1 = Len(Header)
        BY <1>b, <3>2, <4>2
      <4> QED BY <1>b, <2>a, <3>1, <4>1, <4>2
    <3>4. NoFalseBlank => Begun % 2 = 0
      BY <1>d, <2>1, <2>2 DEF IInv, HandlerInv, HeaderInv
    <3>5. pc \notin AfterHeader /\ pc # "headerEnd" /\ pc # "connect"
      BY <2>2 DEF AfterHeader, AfterBody
    <3> QED BY <1>a, <1>c, <2>2, <3>3, <3>4, <3>5 DEF HeaderInv
  <2>3. CASE pc # "header"
    <3>1. pc \notin {"headerEnd", "connect"}
      BY <2>3 DEF CallPlaces
    <3>2. NoFalseBlank /\ pc \in AfterHeader =>
             Len(taken') >= Len(Header) \/ (task \notin Requests /\ Broken)
      <4>1. NoFalseBlank /\ pc \in AfterHeader =>
               Len(taken) >= Len(Header) \/ (task \notin Requests /\ Broken)
        BY <2>1 DEF IInv, HandlerInv, HeaderInv
      <4> QED BY <1>b, <2>a, <4>1
    <3> QED BY <1>a, <1>e, <2>3, <3>1, <3>2 DEF HeaderInv
  <2> QED BY <2>2, <2>3
<1>6. CountInv'
  BY <1>a, <1>c, <1>e DEF IInv, HandlerInv, CountInv
<1>7. WholeInv'
  BY <1>a DEF WholeInv, AfterBody, CallPlaces
<1> QED BY <1>2, <1>3, <1>4, <1>5, <1>6, <1>7 DEF HandlerInv

\* A call that ends without a byte more.
LEMMA CallEnds ==
    ASSUME IInv, FillEnd \/ CopyCrash, pc \in CallPlaces,
           UNCHANGED <<task, message, unsent, handlerVars>>
    PROVE  HandlerInv'
<1>a. /\ UNCHANGED <<task, message, unsent, pc, remains, data, out, conn, call, taken, usrbuf,
                     in, rio_cnt>>
      /\ ret = "busy"
      /\ Sent' = Sent /\ Header' = Header /\ (NoFalseBlank' <=> NoFalseBlank) /\ (Text' <=> Text)
  BY MessageStays DEF FillEnd, CopyCrash, Empty, buffer, handlerVars
<1>b. /\ ret' \in {"zero", "some"} => Dry
      /\ ret' = "zero" => usrbuf = <<>>
      /\ ret' = "some" => usrbuf # <<>>
      /\ ret' = "crash" => ~Ok
      /\ ret' \in {"zero", "some", "crash"}
  <2>1. ASSUME FillEnd PROVE Dry /\ ret' = IF usrbuf = <<>> THEN "zero" ELSE "some"
    BY <2>1 DEF FillEnd, Empty, Dry
  <2>2. ASSUME CopyCrash PROVE ret' = "crash" /\ ~Ok
    <3>1. ret' = "crash" /\ rio_cnt > 0 /\ rio_bufptr > MAXLINE + StackAbove
      BY <2>2 DEF CopyCrash
    <3>2. Ok => rio_bufptr \in 1 .. MAXLINE
      BY <3>1, RioFacts DEF IInv
    <3> QED BY <3>1, <3>2, RioAssumption
  <2> QED BY <2>1, <2>2
<1>c. (Ok' <=> Ok) /\ (Broken' <=> Broken) /\ (Dry' <=> Dry) /\ Begun' = Begun /\ Pending' = Pending
  BY <1>a DEF Ok, Broken, Dry, Begun, Pending
<1>1. TaskInv'
  BY <1>a DEF IInv, HandlerInv, TaskInv
<1>2. CallInv'
  BY <1>a, <1>b, <1>c DEF IInv, HandlerInv, CallInv
<1>3. PassInv'
  BY <1>a, <1>c DEF IInv, HandlerInv, PassInv, CallPlaces, AfterBody
<1>4. HeaderInv'
  BY <1>a, <1>c DEF IInv, HandlerInv, HeaderInv
<1>5. CountInv'
  BY <1>a, <1>c DEF IInv, HandlerInv, CountInv
<1>6. WholeInv'
  BY <1>a DEF WholeInv, CallPlaces, AfterBody
<1> QED BY <1>1, <1>2, <1>3, <1>4, <1>5, <1>6 DEF HandlerInv

LEMMA ReadingStep ==
    ASSUME IInv, Reading
    PROVE  HandlerInv'
BY MoveStep, CopyStep, CallEnds DEF Reading, rio_read, CallPlaces

-----------------------------------------------------------------------------
(***************************************************************************)
(* The invariant of the handlers, while they step.                         *)
(***************************************************************************)
LEMMA StepStays ==
    ASSUME Elsewhere
    PROVE  /\ UNCHANGED <<task, message, unsent, conn, in, rio_cnt, taken>>
           /\ (Ok' <=> Ok) /\ (Dry' <=> Dry) /\ (Broken' <=> Broken)
           /\ Sent' = Sent /\ Header' = Header
           /\ (NoFalseBlank' <=> NoFalseBlank) /\ (Text' <=> Text)
           /\ (FramingSeen' <=> FramingSeen) /\ (Framed' <=> Framed)
<1>1. UNCHANGED <<task, message, unsent, conn, in, rio_cnt, taken>>
  BY DEF Elsewhere, buffer
<1> QED BY <1>1, MessageStays DEF Ok, Dry, Broken

\* A handler makes the call of its place, or none where it makes none.
LEMMA CallMade ==
    ASSUME TypeOK, CallInv, Elsewhere,
           \/ NoCall /\ pc' \notin CallPlaces
           \/ Start(Line) /\ pc' \in {"header", "status", "drain", "chunked"}
           \/ Start(Count(remains')) /\ pc' = "count" /\ remains' \in Nat \ {0}
           \/ pc' \notin CallPlaces /\ \E n \in Nat : Start(Count(n))
    PROVE  CallInv'
<1>1. (Ok' <=> Ok) /\ (Dry' <=> Dry)
  BY StepStays
<1>2. Len(<<>>) = 0 /\ \A i \in 1 .. Len(<<>>) : FALSE
  OBVIOUS
<1>3. CASE NoCall /\ pc' \notin CallPlaces
  BY <1>1, <1>3 DEF NoCall, CallInv, CallPlaces, Full
<1>4. CASE Start(Line) /\ pc' \in {"header", "status", "drain", "chunked"}
  <2>1. call' = Line /\ usrbuf' = <<>> /\ ret' = "busy" /\ Line.n = MAXLINE - 1 /\ 0 < MAXLINE - 1
    BY <1>4, RioAssumption DEF Start, Line
  <2> QED BY <1>2, <1>4, <2>1 DEF CallInv
<1>5. CASE Start(Count(remains')) /\ pc' = "count" /\ remains' \in Nat \ {0}
  <2>1. /\ call' = Count(remains') /\ usrbuf' = <<>> /\ ret' = "busy"
        /\ Count(remains').n = remains' /\ remains' > 0
    BY <1>5, CallTypes DEF Start
  <2> QED BY <1>2, <1>5, <2>1 DEF CallInv
<1>6. CASE pc' \notin CallPlaces /\ \E n \in Nat : Start(Count(n))
  <2>1. usrbuf' = <<>> /\ ret' = "busy"
    BY <1>6 DEF Start
  <2> QED BY <1>2, <1>6, <2>1 DEF CallInv, CallPlaces
<1> QED BY <1>3, <1>4, <1>5, <1>6

\* Nothing is pending: data and out are what they add up to.
LEMMA Plainly ==
    ASSUME TypeOK
    PROVE  out \o <<>> = out /\ data \o <<>> = data
BY ConcatEmptySeq DEF TypeOK

\* Places that end the handling, and those of handleETag.
LEMMA OverStep ==
    ASSUME IInv, Elsewhere, TypeOK', TaskInv', CallInv',
           pc' \in {"badRequest", "gatewayTimeout", "discarded", "confirmed", "unconfirmed",
                    "terminated", "status", "drain"},
           Ok /\ task \in Responses => out' \o Pending' = taken
    PROVE  HandlerInv'
<1>1. /\ taken' = taken /\ task' = task /\ (Ok' <=> Ok)
      /\ pc' \notin AfterHeader /\ pc' # "header" /\ pc' # "count"
  BY StepStays DEF AfterHeader, AfterBody
<1>2. PassInv'
  BY <1>1 DEF PassInv, AfterHeader, AfterBody
<1>3. HeaderInv' /\ CountInv' /\ WholeInv'
  BY <1>1 DEF HeaderInv, CountInv, WholeInv, AfterHeader, AfterBody
<1> QED BY <1>2, <1>3 DEF HandlerInv

LEMMA EndingSteps ==
    ASSUME IInv, TypeOK', Crash \/ handleETag
    PROVE  HandlerInv'
<1>a. TypeOK /\ CallInv /\ TaskInv /\ Elsewhere /\ task' = task /\ out' = out
  <2>1. Elsewhere
    BY DEF Crash, handleETag, StatusLine, DrainLine, DrainCut
  <2> QED BY <2>1 DEF IInv, HandlerInv, Crash, handleETag, StatusLine, DrainLine, DrainCut,
                      Elsewhere, handlerVars
<1>1. CASE Crash
  <2>1. pc' = "terminated" /\ NoCall /\ ~Ok
    BY <1>a, <1>1 DEF Crash, CallInv
  <2>2. CallInv'
    BY <1>a, <2>1, CallMade DEF CallPlaces
  <2>3. TaskInv'
    BY <1>a, <2>1 DEF TaskInv, Places, TypeOK, Tasks
  <2> QED BY <1>a, <2>1, <2>2, <2>3, OverStep
<1>2. CASE handleETag
  <2>1. /\ pc \in {"status", "drain"}
        /\ \/ pc' \in {"confirmed", "unconfirmed"} /\ NoCall
           \/ pc' = "drain" /\ Start(Line)
    BY <1>2 DEF handleETag, StatusLine, DrainLine, DrainCut, handlerVars
  <2>2. task = "ETagAnswer"
    BY <1>a, <2>1 DEF TaskInv, Places, TypeOK, Tasks
  <2>3. CallInv'
    BY <1>a, <2>1, CallMade DEF CallPlaces
  <2>4. TaskInv'
    BY <1>a, <2>1, <2>2 DEF TaskInv, Places
  <2> QED BY <1>a, <2>1, <2>2, <2>3, <2>4, OverStep DEF Responses
<1> QED BY <1>1, <1>2

LEMMA HeaderLineStep ==
    ASSUME IInv, TypeOK', HeaderLine
    PROVE  HandlerInv'
<1>a. /\ TypeOK /\ CallInv /\ TaskInv /\ Elsewhere
      /\ pc = "header" /\ ret = "some"
      /\ data' = data \o CStr(usrbuf)
      /\ out' = Relayed(IF task = "GetResponse" THEN CStr(usrbuf) ELSE usrbuf)
      /\ \/ usrbuf = Blank /\ pc' = "headerEnd" /\ NoCall
         \/ usrbuf # Blank /\ pc' = "header" /\ Start(Line)
  BY DEF IInv, HandlerInv, HeaderLine
<1>b. /\ task' = task /\ taken' = taken /\ (Ok' <=> Ok) /\ (Dry' <=> Dry) /\ (Broken' <=> Broken)
      /\ Header' = Header /\ (NoFalseBlank' <=> NoFalseBlank)
  BY <1>a, StepStays
<1>c. Pending' = <<>>
  BY <1>a DEF Pending, Start
<1>d. task \in Tasks /\ task # "ETagAnswer"
  BY <1>a DEF TaskInv, Places, TypeOK
<1>1. TaskInv'
  BY <1>a, <1>b, <1>d DEF TaskInv, Places, Tasks
<1>2. CallInv'
  BY <1>a, CallMade DEF CallPlaces
<1>3. PassInv'
  <2>1. SUFFICES ASSUME Ok PROVE PassInv'
    BY <1>b DEF PassInv
  <2>2. CStr(usrbuf) = usrbuf
    BY <1>a, <2>1, InHeader
  <2>3. data \o usrbuf = taken /\ (task \in Responses => out \o usrbuf = taken)
    BY <1>a, <2>1 DEF IInv, HandlerInv, PassInv, Pending
  <2>4. data' = taken /\ (task \in Responses => out' = taken)
    BY <1>a, <2>2, <2>3 DEF Relayed, Responses, Requests
  <2>5. data' \o <<>> = data' /\ out' \o <<>> = out'
    BY ConcatEmptySeq DEF TypeOK
  <2> QED BY <1>a, <1>b, <1>c, <2>4, <2>5 DEF PassInv, AfterBody
<1>4. HeaderInv'
  <2>1. SUFFICES ASSUME Ok PROVE HeaderInv'
    BY <1>b DEF HeaderInv
  <2>2. /\ Len(taken) \in Nat /\ Len(taken) <= Len(Header) /\ Len(usrbuf) \in Nat /\ Begun \in Nat
        /\ \A i \in 1 .. Len(usrbuf) :
              Begun + i \in 1 .. Len(Header) /\ usrbuf[i] = Header[Begun + i]
    BY <1>a, <2>1, InHeader
  <2>3. Len(Header) \in Nat
    BY <1>a, SentFacts DEF TypeOK
  <2>4. usrbuf # <<>> /\ (Full(usrbuf) \/ Dry)
    BY <1>a, <2>1 DEF CallInv
  <2>5. /\ Len(usrbuf) > 0 /\ call = Line
        /\ \A i \in 1 .. Len(usrbuf) : usrbuf[i] = CRLF => i = Len(usrbuf)
    <3>1. usrbuf \in Seq(Tokens)
      BY <1>a DEF TypeOK, RioTypeOK
    <3> QED BY <1>a, <2>4, <3>1, EmptySeq DEF CallInv, Line
  <2>6. ASSUME NoFalseBlank
        PROVE  /\ \A i \in 1 .. Len(Header) - 1 : Header[i] = CRLF <=> i % 2 = 0
               /\ Len(Header) % 2 = 1 /\ Begun % 2 = 0
    <3>1. Begun % 2 = 0
      BY <1>a, <2>1, <2>4, <2>6 DEF IInv, HandlerInv, HeaderInv
    <3> QED BY <1>a, <2>6, <3>1, MessageFacts, HeaderFacts DEF TypeOK
  <2>7. CASE usrbuf = Blank
    <3>1. ASSUME NoFalseBlank PROVE Len(taken) >= Len(Header)
      <4>1. SUFFICES ASSUME Len(taken) < Len(Header) PROVE FALSE
        BY <2>2, <2>3
      <4>2. Len(usrbuf) = 1 /\ usrbuf[1] = CRLF /\ 1 \in 1 .. Len(usrbuf)
        BY <2>7 DEF Blank
      <4>3. Len(taken) = Begun + 1
        BY <2>2, <4>2 DEF Begun
      <4>4. Header[Begun + 1] = CRLF /\ Begun + 1 \in 1 .. Len(Header) - 1
        BY <2>2, <2>3, <4>1, <4>2, <4>3
      <4>5. (Begun + 1) % 2 # 0
        <5>1. Begun \in Nat /\ Begun % 2 = 0
          BY <2>2, <2>6, <3>1
        <5> QED BY <5>1
      <4> QED BY <2>6, <3>1, <4>4, <4>5
    <3>2. pc' = "headerEnd"
      BY <1>a, <2>7
    <3> QED BY <1>b, <2>2, <3>1, <3>2 DEF HeaderInv
  <2>8. CASE usrbuf # Blank
    <3>1. pc' = "header" /\ usrbuf' = <<>> /\ Len(taken) < Len(Header)
      BY <1>a, <2>1, <2>8 DEF Start, IInv, HandlerInv, HeaderInv
    <3>2. Begun' = Len(taken)
      BY <1>b, <2>2, <3>1 DEF Begun
    <3>3. ASSUME NoFalseBlank, ~Dry PROVE Len(taken) % 2 = 0
      <4>1. Len(taken) = Begun + Len(usrbuf) /\ Len(taken) <= Len(Header) - 1
        BY <2>2, <2>3, <3>1 DEF Begun
      <4>2. Len(usrbuf) <= 2
        <5>1. SUFFICES ASSUME Len(usrbuf) > 2 PROVE FALSE
          BY <2>2
        <5>2. 2 \in 1 .. Len(usrbuf) /\ Begun + 2 \in 1 .. Len(Header) - 1 /\ (Begun + 2) % 2 = 0
          <6>1. 2 \in 1 .. Len(usrbuf) /\ Begun + 2 \in 1 .. Len(Header) - 1
            BY <2>2, <2>3, <4>1, <5>1
          <6>2. Begun \in Nat /\ Begun % 2 = 0
            BY <2>2, <2>6, <3>3
          <6>3. (Begun + 2) % 2 = 0
            BY <6>2
          <6> QED BY <6>1, <6>3
        <5>3. usrbuf[2] = CRLF
          BY <2>2, <2>6, <3>3, <5>2
        <5> QED BY <2>2, <2>5, <5>1, <5>2, <5>3
      <4>3. Len(usrbuf) # 1
        <5>1. SUFFICES ASSUME Len(usrbuf) = 1 PROVE FALSE
          OBVIOUS
        <5>2. 1 \in 1 .. Len(usrbuf) /\ Begun + 1 \in 1 .. Len(Header) - 1 /\ (Begun + 1) % 2 # 0
          <6>1. 1 \in 1 .. Len(usrbuf) /\ Begun + 1 \in 1 .. Len(Header) - 1
            BY <2>2, <2>3, <4>1, <5>1
          <6>2. Begun \in Nat /\ Begun % 2 = 0
            BY <2>2, <2>6, <3>3
          <6>3. (Begun + 1) % 2 # 0
            BY <6>2
          <6> QED BY <6>1, <6>3
        <5>3. usrbuf[1] # CRLF
          BY <2>2, <2>6, <3>3, <5>2
        <5>4. ~Full(usrbuf)
          <6>1. Line.n = MAXLINE - 1 /\ MAXLINE - 1 # 1
            BY RioAssumption DEF Line
          <6> QED BY <2>5, <5>1, <5>3, <6>1 DEF Full, Last
        <5> QED BY <2>4, <3>3, <5>4
      <4>4. Len(usrbuf) = 2
        <5>1. Len(usrbuf) \in Nat /\ Len(usrbuf) > 0
          BY <2>2, <2>5
        <5>2. \A n \in Nat : n > 0 /\ n <= 2 /\ n # 1 => n = 2
          OBVIOUS
        <5> QED BY <4>2, <4>3, <5>1, <5>2
      <4>5. Begun % 2 = 0
        BY <2>6, <3>3
      <4>6. (Begun + 2) % 2 = 0
        BY <2>2, <4>5
      <4> QED BY <4>1, <4>4, <4>6
    <3>4. pc' \notin AfterHeader /\ pc' \notin {"headerEnd", "connect"}
      BY <3>1 DEF AfterHeader, AfterBody
    <3> QED BY <1>b, <3>1, <3>2, <3>3, <3>4 DEF HeaderInv
  <2> QED BY <2>7, <2>8
<1>5. CountInv' /\ WholeInv'
  BY <1>a DEF CountInv, WholeInv, AfterBody
<1> QED BY <1>1, <1>2, <1>3, <1>4, <1>5 DEF HandlerInv

LEMMA HeaderCutStep ==
    ASSUME IInv, TypeOK', HeaderCut
    PROVE  HandlerInv'
<1>a. /\ TypeOK /\ CallInv /\ TaskInv /\ Elsewhere /\ NoCall
      /\ pc = "header" /\ ret = "zero" /\ data' = data /\ out' = out
      /\ pc' = IF task \in Requests THEN "badRequest" ELSE "headerEnd"
  BY DEF IInv, HandlerInv, HeaderCut
<1>b. /\ task' = task /\ taken' = taken /\ (Ok' <=> Ok) /\ (Dry' <=> Dry) /\ (Broken' <=> Broken)
      /\ Header' = Header /\ (NoFalseBlank' <=> NoFalseBlank)
  BY <1>a, StepStays
<1>c. task \in Tasks /\ task # "ETagAnswer"
  BY <1>a DEF TaskInv, Places, TypeOK
<1>d. Ok => Dry /\ usrbuf = <<>>
  BY <1>a DEF CallInv
<1>1. TaskInv'
  BY <1>a, <1>b, <1>c DEF TaskInv, Places, Tasks, Requests
<1>2. CallInv'
  BY <1>a, CallMade DEF CallPlaces
<1>3. Ok => data = taken /\ (task \in Responses => out = taken)
  <2>1. Ok => data \o <<>> = taken /\ (task \in Responses => out \o <<>> = taken)
    BY <1>a, <1>d DEF IInv, HandlerInv, PassInv, Pending
  <2> QED BY <1>a, <2>1, Plainly
<1>4. CASE task \in Requests
  BY <1>1, <1>2, <1>4, <1>a, OverStep DEF Requests, Responses
<1>5. CASE task \notin Requests
  <2>1. pc' = "headerEnd"
    BY <1>a, <1>5
  <2>2. PassInv'
    <3>1. Pending' = <<>> /\ data \o <<>> = data /\ out \o <<>> = out
      BY <1>a, <2>1, Plainly DEF Pending
    <3> QED BY <1>3, <1>a, <1>b, <2>1, <3>1 DEF PassInv, AfterBody
  <2>3. HeaderInv'
    <3>1. SUFFICES ASSUME Ok PROVE Len(taken) <= Len(Header) /\ Broken
      BY <1>5, <1>b, <2>1 DEF HeaderInv
    <3>2. Len(taken) < Len(Header) /\ Len(taken) \in Nat /\ Len(Header) \in Nat
      <4>1. usrbuf # Blank
        BY <1>d, <3>1 DEF Blank
      <4>2. Len(taken) < Len(Header)
        BY <1>a, <3>1, <4>1 DEF IInv, HandlerInv, HeaderInv
      <4> QED BY <1>a, <3>1, <4>2, RioFacts, SentFacts DEF IInv, TypeOK
    <3>3. taken # Sent
      <4>1. Len(Sent) = Len(Header) + Len(message.body) /\ Len(message.body) \in Nat
        BY <1>a, SentFacts DEF TypeOK
      <4> QED BY <3>2, <4>1
    <3> QED BY <1>d, <3>1, <3>2, <3>3, RioFacts DEF IInv
  <2> QED BY <1>1, <1>2, <2>1, <2>2, <2>3 DEF HandlerInv, CountInv, WholeInv, AfterBody
<1> QED BY <1>4, <1>5

\* When the header is over, data is what has been read, which is the header
\* if no false blank has ended it early.
LEMMA AtBody ==
    ASSUME IInv, Ok, pc \in {"headerEnd", "connect"}
    PROVE  /\ data = taken /\ Len(taken) \in Nat /\ Len(taken) <= Len(Header)
           /\ task \in Responses => out = taken
           /\ Contains(data, "length") => CountedHeader(message.header)
           /\ NoFalseBlank => Len(taken) >= Len(Header) \/ (task \notin Requests /\ Broken)
           /\ NoFalseBlank => \/ Broken
                              \/ /\ taken = Header
                                 /\ Contains(data, "length") <=> CountedHeader(message.header)
                                 /\ Contains(data, "chunked") <=> ChunkedHeader(message.header)
<1>1. TypeOK /\ Pending = <<>>
  BY DEF IInv, Pending
<1>2. data = taken /\ (task \in Responses => out = taken)
  <2>1. data \o <<>> = taken /\ (task \in Responses => out \o <<>> = taken)
    BY <1>1 DEF IInv, HandlerInv, PassInv
  <2> QED BY <1>1, <2>1, Plainly
<1>3. /\ Len(taken) <= Len(Header)
      /\ NoFalseBlank => Len(taken) >= Len(Header) \/ (task \notin Requests /\ Broken)
  BY DEF IInv, HandlerInv, HeaderInv, AfterHeader
<1>4. /\ Len(taken) \in Nat /\ Len(Header) \in Nat /\ taken \in Seq(Tokens)
      /\ \A i \in 1 .. Len(taken) : taken[i] = Sent[i]
      /\ \A i \in 1 .. Len(Header) : Sent[i] = Header[i]
  BY <1>1, RioFacts, SentFacts DEF IInv, TypeOK
<1>5. \A i \in 1 .. Len(taken) : i \in 1 .. Len(Header) /\ taken[i] = Header[i]
  BY <1>3, <1>4
<1>6. /\ Contains(Header, "length") <=> CountedHeader(message.header)
      /\ Contains(Header, "chunked") <=> ChunkedHeader(message.header)
      /\ Header \in Seq(Words)
  BY <1>1, MessageFacts, HeaderFacts DEF TypeOK
<1>7. Contains(data, "length") => CountedHeader(message.header)
  <2>1. Contains(data, "length") => Contains(Header, "length")
    BY <1>2, <1>5 DEF Contains
  <2> QED BY <1>6, <2>1
<1>8. Len(taken) >= Len(Header) => taken = Header
  <2>1. SUFFICES ASSUME Len(taken) = Len(Header) PROVE taken = Header
    BY <1>3, <1>4
  <2>2. Header \in Seq(Tokens)
    <3>1. Words \subseteq Tokens
      BY DEF Words, Tokens
    <3> HIDE DEF Words, Tokens
    <3> QED BY <1>6, <3>1, SeqMonotonic
  <2> QED BY <1>4, <1>5, <2>1, <2>2, SeqEqual
<1> QED BY <1>2, <1>3, <1>4, <1>6, <1>7, <1>8

LEMMA RequestHeaderEndStep ==
    ASSUME IInv, TypeOK', RequestHeaderEnd
    PROVE  HandlerInv'
<1>a. /\ TypeOK /\ CallInv /\ TaskInv /\ Elsewhere /\ NoCall
      /\ pc = "headerEnd" /\ task \in Requests /\ data' = data /\ out' = out
      /\ pc' \in {"connect", "badRequest"}
  BY DEF IInv, HandlerInv, RequestHeaderEnd
<1>b. /\ task' = task /\ taken' = taken /\ (Ok' <=> Ok) /\ (Broken' <=> Broken)
      /\ Header' = Header /\ (NoFalseBlank' <=> NoFalseBlank)
  BY <1>a, StepStays
<1>1. TaskInv'
  BY <1>a, <1>b DEF TaskInv, Places, Requests
<1>2. CallInv'
  BY <1>a, CallMade DEF CallPlaces
<1>3. task \notin Responses
  BY <1>a DEF Requests, Responses
<1>4. CASE pc' = "badRequest"
  BY <1>1, <1>2, <1>3, <1>4, <1>a, OverStep
<1>5. CASE pc' = "connect"
  <2>1. Pending' = <<>> /\ Pending = <<>>
    BY <1>a, <1>5 DEF Pending
  <2>2. PassInv'
    BY <1>3, <1>5, <1>a, <1>b, <2>1 DEF IInv, HandlerInv, PassInv, AfterBody
  <2>3. HeaderInv'
    BY <1>5, <1>a, <1>b DEF IInv, HandlerInv, HeaderInv, AfterHeader
  <2> QED BY <1>1, <1>2, <1>5, <2>2, <2>3 DEF HandlerInv, CountInv, WholeInv, AfterBody
<1> QED BY <1>4, <1>5, <1>a

\* What a step into the body keeps of the invariant.
LEMMA IntoBody ==
    ASSUME IInv, Elsewhere, TypeOK', pc \in {"headerEnd", "connect"}, data' = data, out' = out,
           pc' \in {"chunked", "count", "bodyEnd"}, pc' = "bodyEnd" \/ usrbuf' = <<>>
    PROVE  PassInv' /\ HeaderInv'
<1>b. /\ task' = task /\ taken' = taken /\ (Ok' <=> Ok) /\ (Broken' <=> Broken)
      /\ Header' = Header /\ (NoFalseBlank' <=> NoFalseBlank)
  BY StepStays
<1>1. Pending' = <<>> /\ data \o <<>> = data /\ out \o <<>> = out
  BY Plainly DEF Pending, IInv
<1>2. CASE ~Ok
  BY <1>2, <1>b DEF PassInv, HeaderInv
<1>3. CASE Ok
  <2>1. PassInv'
    BY <1>1, <1>3, <1>b, AtBody DEF PassInv, AfterBody
  <2>2. HeaderInv'
    BY <1>3, <1>b, AtBody DEF HeaderInv
  <2> QED BY <2>1, <2>2
<1> QED BY <1>2, <1>3

LEMMA ChunkedBodyStep ==
    ASSUME IInv, TypeOK', Elsewhere, ChunkedBody, data' = data, out' = out,
           pc \in {"headerEnd", "connect"}, task \in {"GetResponse", "PostRequest"}
    PROVE  HandlerInv'
<1>a. TypeOK /\ CallInv /\ TaskInv /\ pc' = "chunked" /\ Start(Line) /\ usrbuf' = <<>> /\ task' = task
  BY StepStays DEF IInv, HandlerInv, ChunkedBody, Start
<1>1. TaskInv'
  BY <1>a DEF TaskInv, Places
<1>2. CallInv'
  BY <1>a, CallMade
<1>3. PassInv' /\ HeaderInv'
  BY <1>a, IntoBody
<1> QED BY <1>1, <1>2, <1>3, <1>a DEF HandlerInv, CountInv, WholeInv, AfterBody

LEMMA CountBodyStep ==
    ASSUME IInv, TypeOK', Elsewhere, CountBody, data' = data, out' = out,
           pc \in {"headerEnd", "connect"},
           task \in {"GetResponse", "PostResponse", "PostRequest"},
           task # "PostResponse" => ~checkChunked
    PROVE  HandlerInv'
<1> DEFINE n == getContentLength
<1>a. /\ TypeOK /\ CallInv /\ TaskInv /\ remains' = n /\ Start(Count(n)) /\ usrbuf' = <<>>
      /\ pc' = IF n > StackRoom THEN "terminated" ELSE IF n = 0 THEN "bodyEnd" ELSE "count"
  BY DEF IInv, HandlerInv, CountBody, Start
<1>b. /\ task' = task /\ message' = message /\ taken' = taken /\ (Ok' <=> Ok)
      /\ (Broken' <=> Broken) /\ Header' = Header /\ Sent' = Sent
      /\ (NoFalseBlank' <=> NoFalseBlank) /\ (Framed' <=> Framed)
  BY StepStays
<1>c. /\ message.n \in Nat /\ n \in Nat
      /\ CountedHeader(message.header) => Len(message.body) <= message.n
      /\ Len(message.body) \in Nat /\ Len(Header) \in Nat /\ message.body \in Seq(Tokens)
  <2>1. message.body \in Seq(Tokens)
    <3>1. Sendable \subseteq Tokens
      BY DEF Sendable
    <3> HIDE DEF Sendable, Tokens
    <3> QED BY <1>a, <3>1, MessageFacts, SeqMonotonic DEF TypeOK
  <2> QED BY <1>a, <2>1, MessageFacts, SentFacts DEF TypeOK, getContentLength
<1>1. TaskInv'
  BY <1>a, <1>b DEF TaskInv, Places
<1>2. CallInv'
  <2>1. CASE pc' = "count"
    <3>1. n \in Nat \ {0}
      BY <1>a, <1>c, <2>1
    <3> QED BY <1>a, <2>1, <3>1, CallMade
  <2>2. CASE pc' # "count"
    <3>1. pc' \notin CallPlaces
      BY <1>a, <2>2 DEF CallPlaces
    <3> QED BY <1>a, <1>c, <3>1, CallMade
  <2> QED BY <2>1, <2>2
<1>3. CASE pc' = "terminated"
  <2>1. Pending' = <<>> /\ out \o <<>> = out
    BY <1>a, <1>3, Plainly DEF Pending
  <2> QED BY <1>1, <1>2, <1>3, <2>1, AtBody, OverStep
<1>4. CASE pc' = "bodyEnd"
  <2>1. n = 0
    BY <1>4, <1>a
  <2>2. WholeInv'
    <3>1. SUFFICES ASSUME Ok, Framed, NoFalseBlank, ~Broken PROVE taken = Sent
      BY <1>b DEF WholeInv
    <3>2. /\ taken = Header
          /\ Contains(data, "length") <=> CountedHeader(message.header)
          /\ Contains(data, "chunked") <=> ChunkedHeader(message.header)
      BY <3>1, AtBody
    <3>3. message.body = <<>>
      <4>1. ASSUME CountedHeader(message.header) PROVE message.body = <<>>
        <5>1. Len(message.body) = 0
          BY <1>c, <2>1, <3>2, <4>1 DEF getContentLength
        <5> QED BY <1>c, <5>1, EmptySeq
      <4>2. task # "PostResponse" => ~ChunkedHeader(message.header)
        BY <3>2 DEF checkChunked
      <4> QED BY <3>1, <4>1, <4>2 DEF Framed
    <3>4. Sent = Header \o <<>> /\ taken \in Seq(Tokens)
      BY <1>a, <3>3 DEF Sent, Header, TypeOK, RioTypeOK
    <3> QED BY <3>2, <3>4, ConcatEmptySeq
  <2>3. PassInv' /\ HeaderInv'
    BY <1>4, IntoBody
  <2> QED BY <1>1, <1>2, <1>4, <2>2, <2>3 DEF HandlerInv, CountInv
<1>5. CASE pc' = "count"
  <2>1. n # 0 /\ Contains(data, "length") /\ n = message.n
    BY <1>5, <1>a DEF getContentLength
  <2>2. CountInv'
    <3>1. SUFFICES ASSUME Ok PROVE CountInv'
      BY <1>b DEF CountInv
    <3>2. /\ Len(taken) \in Nat /\ Len(taken) <= Len(Header) /\ CountedHeader(message.header)
          /\ NoFalseBlank => Broken \/ (taken = Header /\
                (Contains(data, "chunked") <=> ChunkedHeader(message.header)))
      BY <2>1, <3>1, AtBody
    <3>3. Begun' = Len(taken)
      BY <1>a, <1>b, <3>2 DEF Begun
    <3>4. remains' + Begun' <= Len(Header) + message.n
      BY <1>a, <1>c, <2>1, <3>2, <3>3
    <3>5. NoFalseBlank => Broken \/ remains' + Begun' = Len(Header) + message.n
      BY <1>a, <1>c, <2>1, <3>2, <3>3
    <3>6. NoFalseBlank /\ task # "PostResponse" => Broken \/ ~ChunkedHeader(message.header)
      BY <3>2 DEF checkChunked
    <3> QED BY <1>5, <1>b, <3>2, <3>4, <3>5, <3>6 DEF CountInv
  <2>3. PassInv' /\ HeaderInv'
    BY <1>5, <1>a, IntoBody
  <2> QED BY <1>1, <1>2, <1>5, <2>2, <2>3 DEF HandlerInv, WholeInv, AfterBody
<1> QED BY <1>3, <1>4, <1>5, <1>a

LEMMA HeaderEndSteps ==
    ASSUME IInv, TypeOK', GetHeaderEnd \/ PostHeaderEnd
    PROVE  HandlerInv'
<1>a. /\ TypeOK /\ CallInv /\ TaskInv /\ Elsewhere
      /\ pc = "headerEnd" /\ data' = data /\ out' = out /\ task' = task
  BY DEF IInv, HandlerInv, GetHeaderEnd, PostHeaderEnd, Elsewhere
<1>1. CASE PostHeaderEnd
  <2>1. task = "PostResponse" /\ CountBody
    BY <1>1 DEF PostHeaderEnd
  <2> QED BY <1>a, <2>1, CountBodyStep
<1>2. CASE GetHeaderEnd
  <2>1. task = "GetResponse"
    BY <1>2 DEF GetHeaderEnd
  <2>2. CASE checkChunked /\ getContentLength # 0
    <3>1. pc' = "discarded" /\ NoCall
      BY <1>2, <2>2 DEF GetHeaderEnd
    <3>2. CallInv'
      BY <1>a, <3>1, CallMade DEF CallPlaces
    <3>3. TaskInv'
      BY <1>a, <2>1, <3>1 DEF TaskInv, Places
    <3>4. Ok => out \o Pending' = taken
      <4>1. Pending' = <<>> /\ out \o <<>> = out
        BY <1>a, <3>1, Plainly DEF Pending
      <4> QED BY <1>a, <2>1, <4>1, AtBody DEF Responses
    <3> QED BY <1>a, <3>1, <3>2, <3>3, <3>4, OverStep
  <2>3. CASE checkChunked /\ getContentLength = 0
    <3>1. ChunkedBody
      BY <1>2, <2>3 DEF GetHeaderEnd
    <3> QED BY <1>a, <2>1, <3>1, ChunkedBodyStep
  <2>4. CASE ~checkChunked
    <3>1. CountBody
      BY <1>2, <2>4 DEF GetHeaderEnd
    <3> QED BY <1>a, <2>1, <2>4, <3>1, CountBodyStep
  <2> QED BY <2>2, <2>3, <2>4
<1> QED BY <1>1, <1>2

LEMMA ConnectStep ==
    ASSUME IInv, TypeOK', Connect
    PROVE  HandlerInv'
<1>a. /\ TypeOK /\ CallInv /\ TaskInv /\ Elsewhere
      /\ pc = "connect" /\ data' = data /\ out' = out /\ task' = task
  BY DEF IInv, HandlerInv, Connect, Elsewhere
<1>b. task \in Requests
  BY <1>a DEF TaskInv, Places, TypeOK, Tasks, Requests
<1>1. CASE pc' = "gatewayTimeout" /\ NoCall
  <2>1. CallInv'
    BY <1>a, <1>1, CallMade DEF CallPlaces
  <2>2. TaskInv'
    BY <1>1, <1>a, <1>b DEF TaskInv, Places, Requests
  <2> QED BY <1>1, <1>a, <1>b, <2>1, <2>2, OverStep DEF Requests, Responses
<1>2. CASE task = "GetRequest" /\ pc' = "bodyEnd" /\ NoCall
  <2>1. CallInv'
    BY <1>a, <1>2, CallMade DEF CallPlaces
  <2>2. TaskInv'
    BY <1>2, <1>a DEF TaskInv, Places
  <2>3. PassInv' /\ HeaderInv'
    BY <1>2, <1>a, IntoBody
  <2>4. WholeInv'
    <3>b. /\ taken' = taken /\ (Ok' <=> Ok) /\ (Broken' <=> Broken) /\ Sent' = Sent
          /\ (NoFalseBlank' <=> NoFalseBlank) /\ (Framed' <=> Framed)
      BY <1>a, StepStays
    <3>1. SUFFICES ASSUME Ok, Framed, NoFalseBlank, ~Broken PROVE taken = Sent
      BY <3>b DEF WholeInv
    <3>2. taken = Header
      BY <1>a, <3>1, AtBody
    <3>3. message.body = <<>>
      BY <1>2, <3>1 DEF Framed
    <3>4. Sent = Header \o <<>> /\ taken \in Seq(Tokens)
      BY <1>a, <3>3 DEF Sent, Header, TypeOK, RioTypeOK
    <3> QED BY <3>2, <3>4, ConcatEmptySeq
  <2> QED BY <1>2, <2>1, <2>2, <2>3, <2>4 DEF HandlerInv, CountInv
<1>3. CASE task = "PostRequest" /\ IF checkChunked THEN ChunkedBody ELSE CountBody
  <2>1. CASE checkChunked
    BY <1>3, <1>a, <2>1, ChunkedBodyStep
  <2>2. CASE ~checkChunked
    BY <1>3, <1>a, <2>2, CountBodyStep
  <2> QED BY <2>1, <2>2
<1> QED BY <1>1, <1>2, <1>3 DEF Connect

\* The separator takes two line ends, and a line holds one.
LEMMA NoSeparator ==
    ASSUME TypeOK, CallInv, pc = "chunked"
    PROVE  CHUNKED_SEPARATOR \notin SubSeqs(usrbuf)
<1>1. SUFFICES ASSUME NEW i \in 0 .. Len(usrbuf), NEW j \in 0 .. Len(usrbuf),
                      CHUNKED_SEPARATOR = SubSeq(usrbuf, i + 1, j)
               PROVE  FALSE
  BY DEF SubSeqs
<1> DEFINE t == SubSeq(usrbuf, i + 1, j)
<1>2. usrbuf \in Seq(Tokens) /\ Len(usrbuf) \in Nat
  BY LenProperties DEF TypeOK, RioTypeOK
<1>3. /\ Len(t) = IF i + 1 <= j THEN j - (i + 1) + 1 ELSE 0
      /\ \A k \in 1 .. j - (i + 1) + 1 : t[k] = usrbuf[i + 1 + k - 1]
  <2>1. \A k \in i + 1 .. j : usrbuf[k] \in Tokens
    BY <1>2, ElementOfSeq
  <2>2. i + 1 \in Int /\ j \in Int
    BY <1>2
  <2> QED BY <2>1, <2>2, SubSeqProperties
<1>4. Len(t) = 3 /\ t[2] = CRLF
  <2>1. t = <<"last", CRLF, CRLF>>
    BY <1>1 DEF CHUNKED_SEPARATOR
  <2> HIDE DEF t
  <2> QED BY <2>1
<1> HIDE DEF t
<1>5. j = i + 3
  <2>1. (IF i + 1 <= j THEN j - (i + 1) + 1 ELSE 0) = 3
    BY <1>3, <1>4, Zenon
  <2> QED BY <1>2, <2>1
<1>6. i + 2 \in 1 .. Len(usrbuf) /\ i + 2 # Len(usrbuf) /\ 2 \in 1 .. j - (i + 1) + 1
      /\ i + 1 + 2 - 1 = i + 2
  BY <1>2, <1>5
<1>7. usrbuf[i + 2] = CRLF
  BY <1>3, <1>4, <1>6
<1>8. call.kind = "line"
  BY DEF CallInv, Line
<1> QED BY <1>6, <1>7, <1>8 DEF CallInv

\* What is pending in the body.
LEMMA InBody ==
    ASSUME IInv, Ok, pc \in {"chunked", "count"}
    PROVE  /\ Text => data \o usrbuf = taken /\ CStr(usrbuf) = usrbuf
           /\ task \in Responses => out \o usrbuf = taken
<1>1. /\ data \in Seq(Tokens) /\ usrbuf \in Seq(Tokens)
      /\ task \in Responses => out \o usrbuf = taken
      /\ Text => data \o usrbuf = taken
  BY DEF IInv, TypeOK, RioTypeOK, HandlerInv, PassInv, Pending
<1>2. ASSUME Text PROVE CStr(usrbuf) = usrbuf
  <2>1. /\ \A i \in 1 .. Len(usrbuf) : Len(data) + i \in 1 .. Len(data) + Len(usrbuf)
                                        /\ (data \o usrbuf)[Len(data) + i] = usrbuf[i]
        /\ Len(data \o usrbuf) = Len(data) + Len(usrbuf)
    BY <1>1, JoinElements
  <2>2. \A i \in 1 .. Len(taken) : i \in 1 .. Len(Sent) /\ taken[i] = Sent[i]
    BY RioFacts DEF IInv
  <2>3. \A i \in 1 .. Len(Sent) : Sent[i] # "nul"
    BY <1>2, SentFacts DEF IInv, TypeOK
  <2>4. \A i \in 1 .. Len(usrbuf) : Len(data) + i \in 1 .. Len(taken)
                                     /\ taken[Len(data) + i] = usrbuf[i]
    BY <1>1, <1>2, <2>1, Zenon
  <2>5. \A i \in 1 .. Len(usrbuf) : usrbuf[i] # "nul"
    BY <2>2, <2>3, <2>4, Zenon
  <2> QED BY <1>1, <2>5, CStrType
<1> QED BY <1>1, <1>2

LEMMA ChunkedLineStep ==
    ASSUME IInv, TypeOK', ChunkedLine
    PROVE  HandlerInv'
<1>a. /\ TypeOK /\ CallInv /\ TaskInv /\ Elsewhere /\ pc = "chunked"
      /\ out' = Relayed(usrbuf) /\ data' = data \o CStr(usrbuf)
      /\ pc' = "chunked" /\ Start(Line)
  <2>1. TypeOK /\ CallInv /\ TaskInv /\ pc = "chunked"
    BY DEF IInv, HandlerInv, ChunkedLine
  <2> QED BY <2>1, NoSeparator DEF ChunkedLine
<1>b. /\ task' = task /\ taken' = taken /\ (Ok' <=> Ok) /\ (Broken' <=> Broken)
      /\ Header' = Header /\ (NoFalseBlank' <=> NoFalseBlank) /\ (Text' <=> Text)
  BY <1>a, StepStays
<1>c. Pending' = <<>> /\ data' \o <<>> = data' /\ out' \o <<>> = out'
  BY <1>a, ConcatEmptySeq DEF Pending, Start, TypeOK
<1>1. TaskInv'
  BY <1>a, <1>b DEF TaskInv, Relayed, Requests, Places, TypeOK, Tasks
<1>2. CallInv'
  BY <1>a, CallMade
<1>3. PassInv'
  <2>1. SUFFICES ASSUME Ok PROVE PassInv'
    BY <1>b DEF PassInv
  <2>2. /\ Text => data' = taken
        /\ task \in Responses => out' = taken
    BY <1>a, <2>1, InBody DEF Relayed, Responses, Requests
  <2> QED BY <1>a, <1>b, <1>c, <2>2 DEF PassInv, AfterBody
<1>4. HeaderInv'
  BY <1>a, <1>b DEF IInv, HandlerInv, HeaderInv, AfterHeader
<1> QED BY <1>1, <1>2, <1>3, <1>4, <1>a DEF HandlerInv, CountInv, WholeInv, AfterBody

LEMMA ChunkedCutStep ==
    ASSUME IInv, TypeOK', ChunkedCut
    PROVE  HandlerInv'
<1>a. /\ TypeOK /\ CallInv /\ TaskInv /\ Elsewhere /\ NoCall
      /\ pc = "chunked" /\ ret = "zero" /\ pc' = "bodyEnd" /\ out' = out /\ data' = data
  BY DEF IInv, HandlerInv, ChunkedCut
<1>b. /\ task' = task /\ taken' = taken /\ Sent' = Sent /\ (Ok' <=> Ok) /\ (Broken' <=> Broken)
      /\ Header' = Header /\ (NoFalseBlank' <=> NoFalseBlank) /\ (Text' <=> Text)
  BY <1>a, StepStays
<1>c. Pending' = <<>> /\ data \o <<>> = data /\ out \o <<>> = out
  BY <1>a, Plainly DEF Pending
<1>d. Ok => Dry /\ usrbuf = <<>>
  BY <1>a DEF CallInv
<1>1. TaskInv'
  BY <1>a, <1>b DEF TaskInv, Places, TypeOK, Tasks
<1>2. CallInv'
  BY <1>a, CallMade DEF CallPlaces
<1>3. PassInv'
  <2>1. SUFFICES ASSUME Ok PROVE PassInv'
    BY <1>b DEF PassInv
  <2>2. /\ Text => data = taken
        /\ task \in Responses => out = taken
    BY <1>a, <1>c, <1>d, <2>1, InBody
  <2> QED BY <1>a, <1>b, <1>c, <2>2 DEF PassInv
<1>4. HeaderInv'
  BY <1>a, <1>b DEF IInv, HandlerInv, HeaderInv, AfterHeader, AfterBody
<1>5. WholeInv'
  <2>1. Ok => taken = Sent \/ Broken
    BY <1>d, RioFacts DEF IInv
  <2> QED BY <1>b, <2>1 DEF WholeInv
<1> QED BY <1>1, <1>2, <1>3, <1>4, <1>5, <1>a DEF HandlerInv, CountInv

\* Where the reader of a counted body is.
LEMMA InCount ==
    ASSUME IInv, Ok, pc = "count"
    PROVE  /\ Begun \in Int /\ remains \in Nat /\ remains > 0
           /\ Len(usrbuf) \in Nat /\ Len(usrbuf) <= remains
           /\ Len(taken) \in Nat /\ Len(taken) = Begun + Len(usrbuf)
           /\ CountedHeader(message.header)
           /\ Len(message.body) \in Nat /\ Len(Header) \in Nat /\ message.n \in Nat
           /\ Len(Sent) = Len(Header) + Len(message.body) /\ Len(message.body) <= message.n
           /\ ~ChunkedHeader(message.header) => Len(message.body) = message.n
<1>1. TypeOK /\ call = Count(remains) /\ remains > 0 /\ CountedHeader(message.header)
  BY DEF IInv, HandlerInv, CallInv, CountInv
<1>2. Len(usrbuf) \in Nat /\ Len(taken) \in Nat /\ remains \in Nat /\ Len(usrbuf) <= call.n
  BY <1>1, LenProperties DEF TypeOK, RioTypeOK
<1>3. Len(usrbuf) <= remains
  BY <1>1, <1>2, CallTypes
<1>4. Begun \in Int /\ Len(taken) = Begun + Len(usrbuf)
  BY <1>2 DEF Begun
<1>5. /\ Len(message.body) \in Nat /\ Len(Header) \in Nat
      /\ Len(Sent) = Len(Header) + Len(message.body)
  BY <1>1, SentFacts DEF TypeOK
<1>6. /\ message.n \in Nat /\ Len(message.body) <= message.n
      /\ ~ChunkedHeader(message.header) => Len(message.body) = message.n
  BY <1>1, MessageFacts DEF TypeOK
<1> QED BY <1>1, <1>2, <1>3, <1>4, <1>5, <1>6

LEMMA CountPartStep ==
    ASSUME IInv, TypeOK', CountPart
    PROVE  HandlerInv'
<1>a. /\ TypeOK /\ CallInv /\ TaskInv /\ Elsewhere /\ pc = "count" /\ call = Count(remains)
      /\ out' = Relayed(usrbuf) /\ data' = data \o CStr(usrbuf)
      /\ remains' = remains - Len(usrbuf) /\ remains' \in Nat
      /\ \/ remains' = 0 /\ pc' = "bodyEnd" /\ NoCall
         \/ remains' # 0 /\ pc' = "count" /\ Start(Count(remains')) /\ usrbuf' = <<>>
  BY DEF IInv, HandlerInv, CallInv, CountPart, TypeOK, Start
<1>b. /\ task' = task /\ message' = message /\ taken' = taken /\ Sent' = Sent
      /\ (Ok' <=> Ok) /\ (Broken' <=> Broken) /\ Header' = Header
      /\ (NoFalseBlank' <=> NoFalseBlank) /\ (Text' <=> Text) /\ (Framed' <=> Framed)
  BY <1>a, StepStays
<1>c. Pending' = <<>> /\ data' \o <<>> = data' /\ out' \o <<>> = out'
  BY <1>a, ConcatEmptySeq DEF Pending, TypeOK
<1>1. TaskInv'
  BY <1>a, <1>b DEF TaskInv, Relayed, Requests, Places, TypeOK, Tasks
<1>2. CallInv'
  BY <1>a, CallMade DEF CallPlaces
<1>3. PassInv'
  <2>1. SUFFICES ASSUME Ok PROVE PassInv'
    BY <1>b DEF PassInv
  <2>2. /\ Text => data' = taken
        /\ task \in Responses => out' = taken
    BY <1>a, <2>1, InBody DEF Relayed, Responses, Requests
  <2> QED BY <1>a, <1>b, <1>c, <2>2 DEF PassInv
<1>4. HeaderInv'
  BY <1>a, <1>b DEF IInv, HandlerInv, HeaderInv, AfterHeader, AfterBody
<1>5. CountInv'
  <2>1. SUFFICES ASSUME Ok, pc' = "count" PROVE CountInv'
    BY <1>b DEF CountInv
  <2>2. usrbuf' = <<>>
    BY <1>a, <2>1
  <2>3. remains' + Begun' = remains + Begun
    <3>1. Begun' = Len(taken)
      BY <1>b, <2>1, <2>2, InCount, <1>a DEF Begun
    <3>2. /\ Begun \in Int /\ remains \in Nat /\ Len(usrbuf) \in Nat
          /\ Len(taken) = Begun + Len(usrbuf)
      BY <1>a, <2>1, InCount
    <3> QED BY <1>a, <3>1, <3>2
  <2> QED BY <1>a, <1>b, <2>1, <2>3 DEF IInv, HandlerInv, CountInv
<1>6. WholeInv'
  <2>1. SUFFICES ASSUME Ok, pc' = "bodyEnd", NoFalseBlank, ~Broken PROVE taken = Sent
    BY <1>a, <1>b DEF WholeInv, AfterBody
  <2>2. remains + Begun = Len(Header) + message.n /\ remains - Len(usrbuf) = 0
    BY <1>a, <2>1 DEF IInv, HandlerInv, CountInv
  <2>3. Len(taken) >= Len(Sent)
    <3>1. /\ Begun \in Int /\ remains \in Nat /\ Len(usrbuf) \in Nat
          /\ Len(taken) = Begun + Len(usrbuf) /\ message.n \in Nat
          /\ Len(message.body) \in Nat /\ Len(Header) \in Nat
          /\ Len(Sent) = Len(Header) + Len(message.body) /\ Len(message.body) <= message.n
      BY <1>a, <2>1, InCount
    <3> QED BY <2>2, <3>1
  <2>4. /\ taken \in Seq(Tokens) /\ Sent \in Seq(Tokens) /\ Len(taken) = Len(Sent)
        /\ \A i \in 1 .. Len(taken) : taken[i] = Sent[i]
    BY <2>1, <2>3, RioFacts DEF IInv
  <2> QED BY <2>4, SeqEqual
<1> QED BY <1>1, <1>2, <1>3, <1>4, <1>5, <1>6 DEF HandlerInv

LEMMA CountCutStep ==
    ASSUME IInv, TypeOK', CountCut
    PROVE  HandlerInv'
<1>a. /\ TypeOK /\ CallInv /\ TaskInv /\ Elsewhere /\ NoCall
      /\ pc = "count" /\ ret = "zero" /\ pc' = "bodyEnd" /\ out' = out
  BY DEF IInv, HandlerInv, CountCut
<1>b. /\ task' = task /\ taken' = taken /\ Sent' = Sent /\ (Ok' <=> Ok) /\ (Broken' <=> Broken)
      /\ Header' = Header /\ (NoFalseBlank' <=> NoFalseBlank) /\ (FramingSeen' <=> FramingSeen)
  BY <1>a, StepStays
<1>c. Pending' = <<>> /\ out \o <<>> = out
  BY <1>a, Plainly DEF Pending
<1>d. Ok => Dry /\ usrbuf = <<>> /\ (taken = Sent \/ Broken)
  BY <1>a, RioFacts DEF CallInv, IInv
<1>1. TaskInv'
  BY <1>a, <1>b DEF TaskInv, Places, TypeOK, Tasks
<1>2. CallInv'
  BY <1>a, CallMade DEF CallPlaces
<1>3. ASSUME Ok, FramingSeen, task # "PostResponse" PROVE Broken
  <2>1. SUFFICES ASSUME ~Broken, taken = Sent PROVE FALSE
    BY <1>3, <1>d
  <2>2. remains + Begun <= Len(Header) + message.n /\ remains > 0
    BY <1>a, <1>3 DEF IInv, HandlerInv, CountInv, CallInv
  <2>3. Len(usrbuf) = 0
    BY <1>3, <1>d
  <2>4. Len(message.body) < message.n
    <3>1. /\ Begun \in Int /\ remains \in Nat /\ Len(usrbuf) \in Nat
          /\ Len(taken) = Begun + Len(usrbuf) /\ message.n \in Nat
          /\ Len(message.body) \in Nat /\ Len(Header) \in Nat
          /\ Len(Sent) = Len(Header) + Len(message.body)
      BY <1>a, <1>3, InCount
    <3>2. Len(taken) = Len(Header) + Len(message.body)
      BY <2>1, <3>1
    <3> QED BY <2>2, <2>3, <3>1, <3>2
  <2>5. CountedHeader(message.header) /\ ChunkedHeader(message.header)
    <3>1. message.n \in Nat
      BY <1>a, <1>3, InCount
    <3> QED BY <1>a, <1>3, <2>4, <3>1, InCount
  <2>6. NoFalseBlank
    BY <1>3, <2>5 DEF FramingSeen
  <2> QED BY <1>a, <1>3, <2>1, <2>5, <2>6 DEF IInv, HandlerInv, CountInv
<1>4. PassInv'
  <2>1. SUFFICES ASSUME Ok PROVE PassInv'
    BY <1>b DEF PassInv
  <2>2. task \in Responses => out = taken
    BY <1>a, <1>c, <1>d, <2>1, InBody
  <2> QED BY <1>3, <1>a, <1>b, <1>c, <2>1, <2>2 DEF PassInv
<1>5. HeaderInv'
  BY <1>a, <1>b DEF IInv, HandlerInv, HeaderInv, AfterHeader, AfterBody
<1>6. WholeInv'
  BY <1>b, <1>d DEF WholeInv
<1> QED BY <1>1, <1>2, <1>4, <1>5, <1>6, <1>a DEF HandlerInv, CountInv

LEMMA BodyEndStep ==
    ASSUME IInv, TypeOK', BodyEnd
    PROVE  HandlerInv'
<1>a. /\ TypeOK /\ CallInv /\ TaskInv /\ Elsewhere /\ NoCall /\ pc = "bodyEnd" /\ data' = data
      /\ \/ /\ task \in Requests /\ pc' = "forwarded"
            /\ out' = data \/ Len(data) > RequestRoom
         \/ task \notin Requests /\ pc' = "relayed" /\ out' = out
  BY DEF IInv, HandlerInv, BodyEnd, Damaged
<1>b. /\ task' = task /\ taken' = taken /\ Sent' = Sent /\ (Ok' <=> Ok) /\ (Broken' <=> Broken)
      /\ Header' = Header /\ (NoFalseBlank' <=> NoFalseBlank) /\ (Text' <=> Text)
      /\ (FramingSeen' <=> FramingSeen) /\ (Framed' <=> Framed)
  BY <1>a, StepStays
<1>c. Pending' = <<>> /\ Pending = <<>>
  BY <1>a DEF Pending
<1>1. TaskInv'
  BY <1>a, <1>b DEF TaskInv, Places, Requests, TypeOK, Tasks
<1>2. CallInv'
  BY <1>a, CallMade DEF CallPlaces
<1>3. PassInv'
  <2>1. SUFFICES ASSUME Ok PROVE PassInv'
    BY <1>b DEF PassInv
  <2>2. /\ task \in Responses => out \o <<>> = taken
        /\ Text /\ FramingSeen /\ task # "PostResponse" => data = taken \/ Broken
    BY <1>a, <1>c, <2>1 DEF IInv, HandlerInv, PassInv, AfterBody
  <2>3. pc' = "forwarded" => out' = data' \/ Len(data') > RequestRoom
    BY <1>a
  <2>4. task \in Responses => out' = out
    BY <1>a DEF Responses, Requests
  <2> QED BY <1>a, <1>b, <1>c, <2>2, <2>3, <2>4 DEF PassInv
<1>4. HeaderInv'
  BY <1>a, <1>b DEF IInv, HandlerInv, HeaderInv, AfterHeader, AfterBody
<1>5. WholeInv'
  BY <1>a, <1>b DEF IInv, HandlerInv, WholeInv, AfterBody
<1> QED BY <1>1, <1>2, <1>3, <1>4, <1>5, <1>a DEF HandlerInv, CountInv

\* strcat behind the end of an array: what was pending stays so.
LEMMA OverrunStep ==
    ASSUME IInv, TypeOK', Overrun
    PROVE  HandlerInv'
<1>1. /\ TypeOK /\ CallInv /\ TaskInv /\ Elsewhere /\ NoCall /\ pc' = "terminated"
      /\ out' = out
      /\ pc = "header" \/ task = "PostRequest"
  BY DEF IInv, HandlerInv, Overrun
<1>2. task' = task
  BY <1>1, StepStays
<1>3. TaskInv'
  BY <1>1, <1>2 DEF TaskInv, Places, TypeOK, Tasks
<1>4. CallInv'
  BY <1>1, CallMade DEF CallPlaces
<1>5. Ok /\ task \in Responses => out' \o Pending' = taken
  <2>1. SUFFICES ASSUME Ok, task \in Responses PROVE out' \o Pending' = taken
    OBVIOUS
  <2>2. pc = "header"
    BY <1>1, <2>1 DEF Responses
  <2>3. Pending' = Pending /\ out' = out
    BY <1>1, <2>2 DEF Pending, NoCall, Overrun
  <2> QED BY <2>1, <2>3 DEF IInv, HandlerInv, PassInv
<1> QED BY <1>1, <1>3, <1>4, <1>5, OverStep

-----------------------------------------------------------------------------
(***************************************************************************)
(* The theorems.                                                           *)
(***************************************************************************)
LEMMA Inductive == IInv /\ [Next]_vars => IInv'
<1> SUFFICES ASSUME IInv, [Next]_vars PROVE IInv'
  OBVIOUS
<1>1. TypeOK'
  BY TypeStep DEF IInv, HandlerInv
<1>2. RioInv'
  BY RioStep DEF IInv
<1>3. HandlerInv'
  <2>1. CASE Sender \/ UNCHANGED vars
    BY <2>1, MoveStep DEF IInv
  <2>2. CASE Reading
    BY <2>2, ReadingStep
  <2>3. CASE handleHeader
    BY <1>1, <2>3, HeaderLineStep, HeaderCutStep, HeaderEndSteps, RequestHeaderEndStep,
       ConnectStep DEF handleHeader
  <2>4. CASE BodyEnd \/ Overrun
    BY <1>1, <2>4, BodyEndStep, OverrunStep
  <2>5. CASE Crash \/ handleETag
    BY <1>1, <2>5, EndingSteps
  <2>6. CASE readAndWriteChunkedData
    BY <1>1, <2>6, ChunkedLineStep, ChunkedCutStep DEF readAndWriteChunkedData
  <2>7. CASE readAndWriteContentLengthData
    BY <1>1, <2>7, CountPartStep, CountCutStep DEF readAndWriteContentLengthData
  <2> QED BY <2>1, <2>2, <2>3, <2>4, <2>5, <2>6, <2>7 DEF Next, Handler, Over
<1> QED BY <1>1, <1>2, <1>3 DEF IInv

\* The inductive invariant holds throughout.
THEOREM Invariance == Spec => []IInv
<1>1. Init => IInv
  BY InitType, InitRio, InitHandler DEF IInv
<1> QED BY <1>1, Inductive, PTL DEF Spec

\* Every variable keeps its type; in particular no caller's buffer is overrun.
THEOREM TypeCorrect == Spec => []TypeOK
BY Invariance, PTL DEF IInv

\* However the bytes of a message arrive and the calls of Rio_readlineb and
\* Rio_readnb cut them, none is lost, repeated or swapped on the way through
\* rio_buf, until a read fails.
THEOREM NothingIsLostInRio == Spec => []NothingLostInRio
BY Invariance, PTL DEF IInv, RioInv

LEMMA BeginsWith ==
    ASSUME NEW s \in Seq(Tokens), NEW t \in Seq(Tokens), Len(s) <= Len(t),
           \A i \in 1 .. Len(s) : s[i] = t[i]
    PROVE  IsPrefix(s, t)
<1> DEFINE a == SubSeq(s, 1, Len(s))
           b == SubSeq(t, 1, Len(s))
<1>1. Len(s) \in Nat /\ Len(t) \in Nat
  BY LenProperties
<1>2. a \in Seq(Tokens) /\ Len(a) = Len(s) /\ \A i \in 1 .. Len(s) : a[i] = s[i]
  <2>1. \A i \in 1 .. Len(s) : s[i] \in Tokens
    BY ElementOfSeq
  <2> QED BY <1>1, <2>1, SubSeqProperties
<1>3. b \in Seq(Tokens) /\ Len(b) = Len(s) /\ \A i \in 1 .. Len(s) : b[i] = t[i]
  <2>1. \A i \in 1 .. Len(s) : t[i] \in Tokens
    BY <1>1, ElementOfSeq
  <2> QED BY <1>1, <2>1, SubSeqProperties
<1> HIDE DEF a, b
<1>4. a = b
  BY <1>2, <1>3, SeqEqual
<1> QED BY <1>4 DEF IsPrefix, a, b

LEMMA BeginningOfSent ==
    ASSUME IInv, Ok, task \in Responses \cup {"ETagAnswer"}
    PROVE  IsPrefix(out, Sent)
<1>1. /\ out \in Seq(Tokens) /\ Pending \in Seq(Tokens) /\ taken \in Seq(Tokens)
      /\ Sent \in Seq(Tokens)
      /\ \A i \in 1 .. Len(taken) : i \in 1 .. Len(Sent) /\ taken[i] = Sent[i]
      /\ Len(taken) <= Len(Sent) /\ Len(taken) \in Nat /\ Len(Sent) \in Nat
  BY RioFacts DEF IInv, TypeOK, RioTypeOK, Pending
<1>2. CASE task \in Responses
  <2>1. out \o Pending = taken
    BY <1>2 DEF IInv, HandlerInv, PassInv
  <2>2. /\ Len(out) \in Nat /\ Len(out) <= Len(out \o Pending)
        /\ \A i \in 1 .. Len(out) :
              i \in 1 .. Len(out) + Len(Pending) /\ (out \o Pending)[i] = out[i]
        /\ Len(out \o Pending) = Len(out) + Len(Pending)
    <3>1. /\ Len(out) \in Nat /\ Len(Pending) \in Nat
          /\ Len(out \o Pending) = Len(out) + Len(Pending)
          /\ \A i \in 1 .. Len(out) :
                i \in 1 .. Len(out) + Len(Pending) /\ (out \o Pending)[i] = out[i]
      BY <1>1, JoinElements
    <3> QED BY <3>1
  <2>3. Len(out) <= Len(Sent) /\ \A i \in 1 .. Len(out) : i \in 1 .. Len(taken) /\ taken[i] = out[i]
    BY <1>1, <2>1, <2>2
  <2>4. \A i \in 1 .. Len(out) : out[i] = Sent[i]
    BY <1>1, <2>3
  <2> QED BY <1>1, <2>2, <2>3, <2>4, BeginsWith
<1>3. CASE task = "ETagAnswer"
  <2>1. out = <<>> /\ Len(<<>>) = 0
    BY <1>3 DEF IInv, HandlerInv, TaskInv
  <2>2. Len(out) = 0 /\ Len(out) <= Len(Sent) /\ \A i \in 1 .. Len(out) : FALSE
    BY <1>1, <2>1
  <2>3. out \in Seq(Tokens) /\ Sent \in Seq(Tokens) /\ \A i \in 1 .. Len(out) : out[i] = Sent[i]
    BY <1>1, <2>2
  <2> QED BY <2>2, <2>3, BeginsWith
<1> QED BY <1>2, <1>3

\* A response is written to its reader from its beginning on, byte for byte,
\* and what was complete when the handler is done with it, request or
\* response, has been passed on as a whole: a request, if clientRequest has
\* room for it.
THEOREM WholeMessagePassedOn == Spec => []PassedOnWhole
<1>1. IInv => PassedOnWhole
  <2> SUFFICES ASSUME IInv, Ok PROVE PassedOnWhole
    BY DEF PassedOnWhole, Ok
  <2>a. TypeOK /\ task \in Tasks /\ taken \in Seq(Tokens)
    BY DEF IInv, TypeOK, RioTypeOK
  <2>1. task \notin Requests => IsPrefix(out, Sent)
    BY <2>a, BeginningOfSent DEF Requests, Responses, Tasks
  <2>2. ASSUME pc \in {"relayed", "forwarded"}, unsent = <<>>, Framed, NoFalseBlank,
               task \in Requests => Text /\ Fits
        PROVE  out = Sent
    <3>1. taken = Sent /\ ~Broken
      BY <2>2 DEF IInv, HandlerInv, WholeInv, AfterBody, Broken
    <3>2. CASE pc = "relayed"
      <4>1. task \in Responses
        BY <2>a, <3>2 DEF IInv, HandlerInv, TaskInv, Places, Tasks, Responses
      <4>2. out \o <<>> = taken
        BY <3>2, <4>1 DEF IInv, HandlerInv, PassInv, Pending
      <4> QED BY <2>a, <3>1, <4>2, Plainly
    <3>3. CASE pc = "forwarded"
      <4>1. task \in Requests /\ task # "PostResponse"
        BY <2>a, <3>3 DEF IInv, HandlerInv, TaskInv, Places, Tasks, Requests
      <4>2. FramingSeen
        BY <2>2 DEF FramingSeen
      <4>3. data = Sent /\ (out = data \/ Len(data) > RequestRoom)
        BY <2>2, <3>1, <3>3, <4>1, <4>2 DEF IInv, HandlerInv, PassInv, AfterBody
      <4>4. Len(Sent) <= RequestRoom /\ Len(Sent) \in Nat /\ RequestRoom \in Nat
        BY <2>2, <4>1, <2>a, <3>1, LenProperties, RelayAssumption DEF Fits
      <4> QED BY <4>3, <4>4
    <3> QED BY <2>2, <3>2, <3>3
  <2> QED BY <2>1, <2>2 DEF PassedOnWhole
<1> QED BY <1>1, Invariance, PTL

\* What handleCache is given of a complete text is what the client was sent.
THEOREM StoredAsRelayed == Spec => []StoredIsRelayed
<1>1. IInv => StoredIsRelayed
  <2> SUFFICES ASSUME IInv, task = "GetResponse", pc = "relayed", Ok, unsent = <<>>, Text,
                      FramingSeen
               PROVE  data = out
    BY DEF StoredIsRelayed, Ok
  <2>1. data = taken
    BY DEF IInv, HandlerInv, PassInv, AfterBody, Broken
  <2>2. out \o <<>> = taken
    BY DEF IInv, HandlerInv, PassInv, Pending, Responses
  <2> QED BY <2>1, <2>2, Plainly DEF IInv
<1> QED BY <1>1, Invariance, PTL

\* No origin is sent a request before its header has been read to its end.
THEOREM OnlyWholeHeadersForwarded == Spec => []OnlyWholeHeaderForwarded
<1>1. IInv => OnlyWholeHeaderForwarded
  <2> SUFFICES ASSUME IInv, task \in Requests, pc = "forwarded", Ok, NoFalseBlank
               PROVE  IsPrefix(Header, taken)
    BY DEF OnlyWholeHeaderForwarded, Ok
  <2>1. Len(taken) >= Len(Header)
    BY DEF IInv, HandlerInv, HeaderInv, AfterHeader, AfterBody
  <2>2. /\ taken \in Seq(Tokens) /\ Len(taken) \in Nat /\ Len(Header) \in Nat
        /\ \A i \in 1 .. Len(taken) : taken[i] = Sent[i]
        /\ \A i \in 1 .. Len(Header) : Sent[i] = Header[i]
    BY RioFacts, SentFacts DEF IInv, TypeOK
  <2>3. Header \in Seq(Tokens)
    <3>1. Header \in Seq(Words)
      BY MessageFacts, HeaderFacts DEF IInv, TypeOK
    <3>2. Words \subseteq Tokens
      BY DEF Words, Tokens
    <3> HIDE DEF Words, Tokens
    <3> QED BY <3>1, <3>2, SeqMonotonic
  <2>4. \A i \in 1 .. Len(Header) : Header[i] = taken[i]
    BY <2>1, <2>2
  <2> QED BY <2>1, <2>2, <2>3, <2>4, BeginsWith
<1> QED BY <1>1, Invariance, PTL
=============================================================================
