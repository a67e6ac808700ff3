--------------------------------- MODULE Relay ---------------------------------
(***************************************************************************)
(* How the handlers read one message of HTTP and pass it on: a client's    *)
(* request (processHeader, handlePost), an origin's answer to a GET or a   *)
(* POST (handleResponseHeader, handleResponseBody, PostHandler's           *)
(* handleResponse) and its answer to a revalidation (handleETag).          *)
(*                                                                         *)
(* The sender of the message keeps its connection open, closes it or       *)
(* resets it, after the message or within it.  What is written to the      *)
(* other side goes to out; that side takes it or is gone, which no caller  *)
(* of Rio_writen looks at.                                                 *)
(***************************************************************************)
EXTENDS Rio

CONSTANTS
    Headers,      \* bound of the model: the headers, as sequences of HeaderLines
    Lengths,      \* bound of the model: what Content-Length lines announce
    StackRoom,    \* the longest array a handler can have on its stack
    RequestRoom   \* what clientRequest holds behind its first line, and serverResponse

Plain(k) == [i \in 1 .. k |-> IF i = k THEN CRLF ELSE "text"]
HeaderLines == {Plain(2), Plain(MAXLINE), <<"length", CRLF>>, <<"chunked", CRLF>>}

ASSUME RelayAssumption ==
    /\ Headers \subseteq Seq(HeaderLines) /\ Lengths \subseteq Nat
    /\ StackRoom \in Nat /\ RequestRoom \in Nat

\* The message is read by one of these; GetRequest stands for CONNECT too, up to Connect.
Tasks == {"GetRequest", "PostRequest", "GetResponse", "PostResponse", "ETagAnswer"}
Requests == {"GetRequest", "PostRequest"}

VARIABLES
    task,
    message,    \* its header, the length it announces, its body
    unsent,     \* what the sender has not sent of it
    pc,         \* the place of the handler
    remains,    \* readAndWriteContentLengthData's remains
    data,       \* clientRequest, response or serverResponse, and the body read
    out         \* what has been written to the other side

handlerVars == <<pc, remains, data, out>>
vars == <<rioVars, task, message, unsent, handlerVars>>

\* strlen, strcat and string(char*) end at the first zero byte.
CStr(s) ==
    LET i == SelectInSeq(s, LAMBDA b : b = "nul")
    IN  IF i = 0 THEN s ELSE SubSeq(s, 1, i - 1)

-----------------------------------------------------------------------------
(***************************************************************************)
(* Messages.                                                               *)
(***************************************************************************)
CountedHeader(h) == Contains(h, <<"length", CRLF>>)
ChunkedHeader(h) == Contains(h, <<"chunked", CRLF>>)

Bodies(h, n) ==
    CASE CountedHeader(h) /\ ChunkedHeader(h) -> {<<>>}
      [] CountedHeader(h) /\ ~ChunkedHeader(h) -> [1 .. n -> {"text", "nul"}]
      [] ChunkedHeader(h) /\ ~CountedHeader(h) ->
            {<<"text", CRLF, b, CRLF, "last", CRLF, CRLF>> : b \in {"text", "nul"}}
      [] OTHER -> {<<>>, <<"text">>}

Message(h, n) == {[header |-> h, n |-> n, body |-> b] : b \in Bodies(h, n)}

\* A request's first line has been read by handleRequest.
Messages(t) ==
    IF t = "ETagAnswer"
    THEN UNION {Message(<<s>>, 0) : s \in {<<"304", CRLF>>, Plain(2)}}
    ELSE UNION {UNION {Message(h, n) : n \in IF CountedHeader(h) THEN Lengths ELSE {0}} :
                  h \in Headers}

Sent == FlattenSeq(message.header) \o <<CRLF>> \o message.body

Returned ==
    pc \in {"relayed", "forwarded", "badRequest", "gatewayTimeout", "discarded",
            "confirmed", "unconfirmed"}

\* The handler has returned, or the process is dead.
Ended == Returned \/ pc = "terminated"

TypeOK ==
    /\ RioTypeOK
    /\ task \in Tasks /\ message \in Messages(task)
    /\ unsent \in Seq(Tokens)
    /\ pc \in {"header", "headerEnd", "status", "drain", "chunked", "count", "connect", "bodyEnd"}
       \/ Ended
    /\ remains \in Nat
    /\ data \in Seq(Tokens) /\ out \in Seq(Tokens)

Init ==
    /\ RioInit
    /\ task \in Tasks
    /\ message \in Messages(task)
    /\ unsent = Sent
    /\ pc = IF task = "ETagAnswer" THEN "status" ELSE "header"
    /\ remains = 0
    /\ data = <<>>
    /\ out = <<>>

-----------------------------------------------------------------------------
(***************************************************************************)
(* The sender.                                                             *)
(***************************************************************************)
Send ==
    /\ conn = "open" /\ unsent # <<>> /\ ~Ended
    /\ in' = Append(in, Head(unsent))
    /\ unsent' = Tail(unsent)
    /\ UNCHANGED <<conn, buffer, call, usrbuf, ret, task, message, handlerVars>>

Close ==
    /\ conn = "open" /\ ~Ended
    /\ conn' = "closed"
    /\ UNCHANGED <<in, buffer, call, usrbuf, ret, task, message, unsent, handlerVars>>

Reset ==
    /\ conn \in {"open", "closed"} /\ ~Ended
    /\ conn' = "reset"
    /\ UNCHANGED <<in, buffer, call, usrbuf, ret, task, message, unsent, handlerVars>>

Sender == Send \/ Close \/ Reset

-----------------------------------------------------------------------------
(***************************************************************************)
(* Headers.                                                                *)
(***************************************************************************)
NoCall == UNCHANGED <<call, usrbuf, ret>>
Elsewhere == UNCHANGED <<in, conn, buffer, task, message, unsent>>

Blank == <<CRLF>>

\* What a line adds to the other side's: nothing while a request is read.
Relayed(s) == IF task \in Requests THEN out ELSE out \o s

HeaderLine ==
    /\ pc = "header" /\ ret = "some"
    /\ data' = data \o CStr(usrbuf)
    /\ out' = Relayed(IF task = "GetResponse" THEN CStr(usrbuf) ELSE usrbuf)
    /\ IF usrbuf = Blank
       THEN pc' = "headerEnd" /\ NoCall
       ELSE pc' = "header" /\ Start(Line)
    /\ UNCHANGED remains /\ Elsewhere

\* Mutant: hasSeenEnd is not looked at.
HeaderCutAccepted ==
    /\ pc = "header" /\ ret = "zero"
    /\ pc' = "headerEnd"
    /\ NoCall /\ UNCHANGED <<remains, data, out>> /\ Elsewhere

\* End of input within the header.
HeaderCut ==
    /\ pc = "header" /\ ret = "zero"
    /\ pc' = IF task \in Requests THEN "badRequest" ELSE "headerEnd"
    /\ NoCall /\ UNCHANGED <<remains, data, out>> /\ Elsewhere

checkChunked == Contains(data, "chunked")
getContentLength == IF Contains(data, "length") THEN message.n ELSE 0

\* A counted body is read into an array of its length.
CountBody ==
    /\ remains' = getContentLength
    /\ pc' = IF getContentLength > StackRoom THEN "terminated"
             ELSE IF getContentLength = 0 THEN "bodyEnd" ELSE "count"
    /\ Start(Count(getContentLength))

ChunkedBody == pc' = "chunked" /\ Start(Line) /\ UNCHANGED remains

\* handleResponseHeader's last test, and handleResponseBody.
GetHeaderEnd ==
    /\ pc = "headerEnd" /\ task = "GetResponse"
    /\ IF checkChunked /\ getContentLength # 0
       THEN pc' = "discarded" /\ NoCall /\ UNCHANGED remains
       ELSE IF checkChunked THEN ChunkedBody ELSE CountBody
    /\ UNCHANGED <<data, out>> /\ Elsewhere

\* The answer to a POST is not asked for Transfer-Encoding.
PostHeaderEnd ==
    /\ pc = "headerEnd" /\ task = "PostResponse"
    /\ CountBody
    /\ UNCHANGED <<data, out>> /\ Elsewhere

\* setupHostAndPort may find no host; handlePost wants exactly one framing.
RequestHeaderEnd ==
    /\ pc = "headerEnd" /\ task \in Requests
    /\ pc' \in {"connect", "badRequest"}
    /\ task = "PostRequest" /\ (checkChunked <=> getContentLength # 0) => pc' = "badRequest"
    /\ NoCall /\ UNCHANGED <<remains, data, out>> /\ Elsewhere

\* createClientFd, before the body of a POST is read.
Connect ==
    /\ pc = "connect"
    /\ \/ pc' = "gatewayTimeout" /\ NoCall /\ UNCHANGED remains
       \/ task = "GetRequest" /\ pc' = "bodyEnd" /\ NoCall /\ UNCHANGED remains
       \/ task = "PostRequest" /\ IF checkChunked THEN ChunkedBody ELSE CountBody
    /\ UNCHANGED <<data, out>> /\ Elsewhere

-----------------------------------------------------------------------------
(***************************************************************************)
(* Bodies.                                                                 *)
(***************************************************************************)
CHUNKED_SEPARATOR == <<"last", CRLF, CRLF>>

\* Mutant: the line is relayed and not kept.
ChunkedLineNotKept ==
    /\ pc = "chunked" /\ ret = "some"
    /\ out' = Relayed(usrbuf) /\ Start(Line)
    /\ UNCHANGED <<pc, data, remains>> /\ Elsewhere

\* The separator is looked for within one line.
ChunkedLine ==
    /\ pc = "chunked" /\ ret = "some"
    /\ out' = Relayed(usrbuf)
    /\ data' = data \o CStr(usrbuf)
    /\ IF CHUNKED_SEPARATOR \in SubSeqs(usrbuf)
       THEN pc' = "bodyEnd" /\ NoCall
       ELSE pc' = "chunked" /\ Start(Line)
    /\ UNCHANGED remains /\ Elsewhere

ChunkedCut ==
    /\ pc = "chunked" /\ ret = "zero"
    /\ pc' = "bodyEnd"
    /\ NoCall /\ UNCHANGED <<data, out, remains>> /\ Elsewhere

\* Mutant: one byte too early.
CountPartEarly ==
    /\ pc = "count" /\ ret = "some"
    /\ out' = Relayed(Front(usrbuf))
    /\ data' = data \o CStr(usrbuf)
    /\ pc' = "bodyEnd" /\ NoCall
    /\ UNCHANGED remains /\ Elsewhere

\* Mutant: the loop is not left at 0, and asks for at least one byte.
CountPartOn ==
    /\ pc = "count" /\ ret = "some"
    /\ out' = Relayed(usrbuf)
    /\ data' = data \o CStr(usrbuf)
    /\ remains' = remains - Len(usrbuf)
    /\ Start(Count(1))
    /\ UNCHANGED pc /\ Elsewhere

\* A call returns fewer bytes than asked for only at the end of input.
CountPart ==
    /\ pc = "count" /\ ret = "some"
    /\ out' = Relayed(usrbuf)
    /\ data' = data \o CStr(usrbuf)
    /\ remains' = remains - Len(usrbuf)
    /\ IF remains' = 0
       THEN pc' = "bodyEnd" /\ NoCall
       ELSE pc' = "count" /\ Start(Count(remains'))
    /\ Elsewhere

\* The array ends in a zero byte behind the announced length; what has not
\* been read in between is not initialised, and is kept as well.
CountCut ==
    /\ pc = "count" /\ ret = "zero"
    /\ pc' = "bodyEnd"
    /\ \E g \in {<<>>, <<Junk>>} :
          /\ Contains(taken, "nul") => g = <<>>
          /\ data' = data \o g
    /\ NoCall /\ UNCHANGED <<out, remains>> /\ Elsewhere

\* strcat has written behind the end of clientRequest, on the other variables
\* of handleRequest: what stands there may stay, or give way to theirs.
Damaged(s) == Len(s) > RequestRoom /\ out' = SubSeq(s, 1, RequestRoom) \o <<Junk>>

\* A request goes to the origin as a string, header and body at once.
BodyEnd ==
    /\ pc = "bodyEnd"
    /\ IF task \in Requests
       THEN pc' = "forwarded" /\ (out' = data \/ Damaged(data))
       ELSE pc' = "relayed" /\ UNCHANGED out
    /\ NoCall /\ UNCHANGED <<remains, data>> /\ Elsewhere

\* Or the process dies of it, when a header line is added to clientRequest
\* or serverResponse, or the body of a POST to clientRequest.
Overrun ==
    /\ \/ /\ pc = "header" /\ ret = "some" /\ task \in Requests \cup {"PostResponse"}
          /\ Len(data) + Len(CStr(usrbuf)) > RequestRoom
       \/ pc = "bodyEnd" /\ task = "PostRequest" /\ Len(data) > RequestRoom
    /\ pc' = "terminated"
    /\ NoCall /\ UNCHANGED <<remains, data, out>> /\ Elsewhere

-----------------------------------------------------------------------------
(***************************************************************************)
(* handleETag's loop.  All but the first line is read and thrown away.     *)
(***************************************************************************)
StatusLine ==
    /\ pc = "status" /\ ret = "some"
    /\ IF Contains(usrbuf, "304")
       THEN pc' = "confirmed" /\ NoCall
       ELSE pc' = "drain" /\ Start(Line)
    /\ UNCHANGED <<remains, data, out>> /\ Elsewhere

DrainLine ==
    /\ pc = "drain" /\ ret = "some"
    /\ Start(Line)
    /\ UNCHANGED handlerVars /\ Elsewhere

\* Mutant: the loop goes on at the end of input.
DrainOn ==
    /\ pc \in {"status", "drain"} /\ ret = "zero"
    /\ Start(Line)
    /\ UNCHANGED handlerVars /\ Elsewhere

DrainCut ==
    /\ pc \in {"status", "drain"} /\ ret = "zero"
    /\ pc' = "unconfirmed"
    /\ NoCall /\ UNCHANGED <<remains, data, out>> /\ Elsewhere

Crash ==
    /\ ret = "crash" /\ ~Ended
    /\ pc' = "terminated"
    /\ NoCall /\ UNCHANGED <<remains, data, out>> /\ Elsewhere

handleHeader ==
    HeaderLine \/ HeaderCut \/ GetHeaderEnd \/ PostHeaderEnd \/ RequestHeaderEnd \/ Connect
readAndWriteChunkedData == ChunkedLine \/ ChunkedCut
readAndWriteContentLengthData == CountPart \/ CountCut
handleETag == StatusLine \/ DrainLine \/ DrainCut

\* No call is in progress once the handler has no use for one.
Reading ==
    /\ pc \in {"header", "status", "drain", "chunked", "count"}
    /\ rio_read
    /\ UNCHANGED <<task, message, unsent, handlerVars>>

Handler ==
    \/ Reading \/ handleHeader \/ BodyEnd \/ Overrun \/ Crash
    \/ readAndWriteChunkedData \/ readAndWriteContentLengthData \/ handleETag

Over == Ended /\ UNCHANGED vars

Next == Sender \/ Handler \/ Over

\* The scheduler runs the worker; the sender owes it nothing.
Spec == Init /\ [][Next]_vars /\ WF_vars(Handler)
-----------------------------------------------------------------------------
(***************************************************************************)
(* Properties.                                                             *)
(***************************************************************************)
Header == FlattenSeq(message.header) \o <<CRLF>>

\* Framed as the handler understands it: readAndWriteChunkedData is not
\* called for the answer to a POST, and a GET has no body.
Framed ==
    \/ message.body = <<>>
    \/ CountedHeader(message.header) /\ task # "GetRequest"
    \/ ChunkedHeader(message.header) /\ task \in {"GetResponse", "PostRequest"}

\* A line of exactly MAXLINE - 1 bytes leaves its end for the next call,
\* which takes it for the blank line that ends the header.
NoFalseBlank == ~Contains(message.header, Plain(MAXLINE))

\* No such line stands between the handler and one of two framings.
FramingSeen ==
    CountedHeader(message.header) /\ ChunkedHeader(message.header) => NoFalseBlank

Text == ~Contains(message.body, "nul")

\* clientRequest has room for the whole request, header and body, and
\* serverResponse for the header of an answer.
Fits ==
    /\ task \in Requests => Len(Sent) <= RequestRoom
    /\ task = "PostResponse" => Len(Header) <= RequestRoom

\* However the bytes arrive and the calls of Rio_readlineb and Rio_readnb
\* cut them, none is lost, repeated or swapped on its way through rio_buf,
\* up to the failure of a read.
NothingLostInRio ==
    conn # "failed" =>
        taken \o SubSeq(rio_buf, rio_bufptr, rio_bufptr + rio_cnt - 1) \o in \o unsent = Sent

\* What a response's reader has been sent is the beginning of the response,
\* and a message that was complete is passed on as a whole, whether its end
\* is a count, or the sender's close behind a chunked body; a request, if
\* clientRequest has room for it, and holds no zero byte.
PassedOnWhole ==
    conn # "failed" =>
        /\ task \notin Requests => IsPrefix(out, Sent)
        /\ /\ pc \in {"relayed", "forwarded"} /\ unsent = <<>>
           /\ Framed /\ NoFalseBlank
           /\ task \in Requests => Text /\ Fits
           => out = Sent

\* What handleCache is given to store is what the client has been sent, if
\* the response was complete, holds no zero byte, and is not taken for a
\* counted one because its other framing has not been seen.
StoredIsRelayed ==
    /\ task = "GetResponse" /\ pc = "relayed" /\ conn # "failed"
    /\ unsent = <<>> /\ Text /\ FramingSeen
    => data = out

\* No origin is sent a request whose header the client has not finished
\* (testCases.txt: "return bad request").
OnlyWholeHeaderForwarded ==
    /\ task \in Requests /\ pc = "forwarded" /\ conn # "failed"
    /\ NoFalseBlank
    => IsPrefix(Header, taken)

\* What the process may die of, besides a failed read: a Content-Length that
\* no array on the stack can have, and strcat behind the end of an array.
Deadly == message.n > StackRoom \/ ~Fits

\* A worker gets away from a sender that has closed or reset its
\* connection, wherever in the message that happened.  It does so by
\* returning; the process dies instead only of a deadly message, or after a
\* reset, of the read that failed and was taken for a success.
SenderGoneEnds ==
    conn # "open" ~> Returned \/ (pc = "terminated" /\ (conn = "failed" \/ Deadly))

\* A worker returns although the sender stays: once it has all of a message
\* that is neither chunked nor deadly, or the 304 of an answer to a
\* revalidation.
EndsWithMessage ==
    /\ unsent = <<>> /\ ~ChunkedHeader(message.header) /\ ~Deadly
    /\ task = "ETagAnswer" => message.header = <<<<"304", CRLF>>>>
    ~> Returned

\* handleResponseBody: "using chunked, it will be ended by 0\r\n\r\n".
ChunkedEnds ==
    task = "GetResponse" /\ message.header = <<<<"chunked", CRLF>>>> /\ unsent = <<>> ~> Ended

\* testCases.txt, POST 2: a body shorter than its Content-Length is answered
\* with a bad request, not forwarded.
ShortBodyRefused ==
    /\ task = "PostRequest" /\ pc = "forwarded" /\ conn = "closed"
    /\ CountedHeader(message.header) /\ ~ChunkedHeader(message.header)
    => Len(out) = Len(Header) + message.n
=============================================================================
