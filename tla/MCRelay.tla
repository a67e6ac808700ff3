-------------------------------- MODULE MCRelay --------------------------------
(***************************************************************************)
(* The headers for the runs of Relay: each way to frame a body, also with  *)
(* a line before it that fits the line buffer or fills it exactly, and one *)
(* that clientRequest has no room for.                                     *)
(***************************************************************************)
EXTENDS Relay

MCHeaders ==
    {<<>>, <<Plain(2)>>, <<Plain(MAXLINE)>>,
     <<<<"length", CRLF>>>>, <<<<"chunked", CRLF>>>>,
     <<<<"length", CRLF>>, <<"chunked", CRLF>>>>,
     <<<<"length", CRLF>>, Plain(MAXLINE), <<"chunked", CRLF>>>>,
     <<<<"chunked", CRLF>>, Plain(2)>>,
     <<Plain(2), Plain(2), Plain(2), Plain(2), Plain(2)>>}
=============================================================================
