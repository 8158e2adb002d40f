---------------------------- MODULE MCHttpProxies ----------------------------
(***************************************************************************)
(* Instances of HttpProxies for TLC: messages whose options have lengths,  *)
(* deltas and values on both sides of every border of the encoding.        *)
(***************************************************************************)
EXTENDS HttpProxies

Text(n) == [i \in 1..n |-> 97]
Get(type, token) == Message(type, 1, 65535, token)
Proxy(m, n) == SetProxyUri(SetUriPath(m, <<Coap2http>>), Text(n))
Sizes == {0, 1, 12, 13, 14, 268, 269, 300}

\* Every option alone and some together, in the order of the program's calls.
Optioned(m) ==
  {m, SetUriPath(m, <<<<>>>>), SetUriPath(m, <<Text(3), Text(13)>>), SetUriQuery(SetUriPath(m, <<Text(1)>>), <<Text(2), Text(14)>>),
   SetAccept(m, 0), SetAccept(m, 40), SetAccept(m, 99), SetIfMatch(m, <<Text(8), Text(0)>>), SetIfNoneMatch(m),
   SetIfNoneMatch(SetUriPath(m, <<Text(2)>>)), SetETag(SetContentType(m, 60), <<<<200, 0, 255>>>>),
   SetMaxAge(m, 0), SetMaxAge(m, 60), SetMaxAge(m, 70000), SetLocationPath(SetLocationQuery(m, <<Text(5)>>), <<Text(2), Text(4)>>)}
  \cup {SetObserve(SetUriPath(m, <<Text(1)>>), n) : n \in {0, 1, 255, 256, 65536}}
  \cup {SetBlock(SetUriPath(m, <<Text(1)>>), n, b) : n \in {Block1No, Block2No}, b \in {<<0, 0, 16>>, <<0, 1, 64>>, <<3, 0, 1024>>, <<600, 1, 20>>}}
MCRequests ==
  {Proxy(Get(CON, Token), n) : n \in Sizes}
  \cup {[Proxy(Message(CON, c, 300, <<>>), 20) EXCEPT !.payload = Text(p)] : c \in Methods, p \in {0, 1, 30}}
  \cup {[m EXCEPT !.payload = Text(p)] : m \in Optioned(Get(1, Text(8))), p \in {0, 2}}
  \cup {Message(t, EMPTY, 7, <<>>) : t \in {ACK, RST}}

MCAnswers == UNION {Optioned(Message(ACK, c, 0, <<>>)) : c \in ResponseCodes \ {95}}

\* A header; one byte of option header, or more; the end.
H == <<64, 1, 0, 1>>
MCDatagrams ==
  {<<>>, <<64, 1, 0>>, <<0, 1, 0, 1>>, <<66, 1, 0, 1, 97>>, <<64, 9, 0, 1>>, <<64, 70, 0, 1>>, <<64, 40, 0, 1>>, H}
  \cup {H \o t : t \in {<<255>>, <<255, 1>>, <<15>>, <<240>>, <<208>>, <<13>>, <<14, 0, 0>>, <<224, 0>>, <<226, 254, 231, 7>>,
                        <<178, 97>>, <<177, 200>>, <<80, 0>>, <<16, 16, 16>>, <<144>>, <<96, 16, 16, 97>>, <<238, 0, 0, 0, 0>>,
                        <<33, 1>>, <<225, 255, 255, 1>>}}

MCHttp == [method : {"GET", "HEAD", "POST", "PUT", "DELETE", "TRACE"}, known : BOOLEAN, query : {<<>>, <<118>>}]
MCStatuses == {100, 200, 201, 204, 301, 304, 400, 401, 402, 404, 405, 406, 410, 412, 413, 415, 429,
               500, 501, 502, 503, 504, 505}
=============================================================================
