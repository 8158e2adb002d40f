----------------------------- MODULE HttpProxies -----------------------------
(***************************************************************************)
(* http_proxy/: the CoAP-HTTP proxy, which executes the HTTP request that  *)
(* the Proxy-Uri of a CoAP request names, and the HTTP-CoAP proxy, which   *)
(* sends a CoAP request for an HTTP request.  Every CoAP message goes over *)
(* the wire of Codec.  A behaviour is one request at one of the proxies.   *)
(***************************************************************************)
EXTENDS Codec

CONSTANTS CoapRequests,   \* what clients ask of the CoAP-HTTP proxy
          Datagrams,      \* what it gets besides
          HttpRequests,   \* records of method, known (the path begins with hc_path) and query
          CoapAnswers,    \* what CoAP servers answer
          Statuses        \* what HTTP servers answer

VARIABLES
  gate,     \* the proxy: "ch" or "hc"
  pc,
  http,     \* the HTTP request of "hc", or the HTTP status of "ch"
  spoken,   \* the last message that was serialized
  wire,     \* the datagram under way
  heard,    \* what was made of it
  status    \* the HTTP status that "hc" has answered

vars == <<gate, pc, http, spoken, wire, heard, status>>

Unset == -1
CON == 0
ACK == 2
RST == 3
EMPTY == 0
NoMessage == Message(RST, EMPTY, 0, <<>>)
Coap2http == <<99>>
Token == <<97, 98>>
Mid == 258

Init ==
  /\ heard = Failed("none") /\ wire = <<>> /\ status = 0 /\ http = Unset
  /\ \/ gate = "ch" /\ pc = "send" /\ spoken \in CoapRequests
     \/ gate = "hc" /\ pc = "begin" /\ spoken = NoMessage

\* A message is serialized and sent.
Speak(m, to) == spoken' = m /\ wire' = Serialize(m) /\ pc' = to
\* The thread ends with an exception.
Die == pc' = "dead"
End == pc' = "end"

-----------------------------------------------------------------------------
(* The CoAP-HTTP proxy.                                                    *)

ClientSends ==
  /\ pc = "send" /\ Speak(spoken, "arrive") /\ UNCHANGED <<gate, http, heard, status>>

\* What was not serialized here.
OtherSends ==
  /\ pc = "send"
  /\ wire' \in Datagrams /\ spoken' = NoMessage /\ pc' = "arrive"
  /\ UNCHANGED <<gate, http, heard, status>>

HeardRequest == heard'.outcome = "message" /\ IsRequest(heard'.message.code)
Proxied(m) == ProxyUri(m) \notin {<<>>, <<<<>>>>} /\ UriPath(m) = Coap2http

\* receive_datagram.  For BAD_REQUEST it takes the mid of what is no message: it
\* dies without its RST, too.
ChReceive ==
  /\ gate = "ch" /\ pc = "arrive"
  /\ heard' = Deserialize(wire)
  /\ IF heard'.outcome # "message" THEN Die
     ELSE IF HeardRequest THEN pc' = IF Proxied(heard'.message) THEN "origin" ELSE "reject"
     ELSE End
  /\ UNCHANGED <<gate, http, spoken, wire, status>>

ChReject ==
  /\ pc = "reject"
  /\ Speak(Message(RST, 128, heard.message.mid, <<>>), "back")
  /\ UNCHANGED <<gate, http, heard, status>>

\* to_coap_code, what it lists.
Listed(s, method) ==
  CASE s \in {400, 405, 409, 414, 431} -> 128
    [] s \in {401, 403} -> 131
    [] s = 404 -> 132
    [] s = 406 -> 134
    [] s = 412 -> 140
    [] s = 413 -> 141
    [] s = 415 -> 143
    [] s \in 500..504 -> 160 + (s - 500)
    [] s = 200 -> 69
    [] s = 201 -> 65
    [] s = 204 /\ method = 4 -> 66
    [] s = 204 /\ method \in {2, 3} -> 68
    [] s = 304 -> 67
    [] s = 100 -> 95
    [] OTHER -> Unset

\* With a default that is an error.
WrongToCoapCode(s, method) == IF Listed(s, method) = Unset THEN 160 ELSE Listed(s, method)
\* Any other status, and 204 for GET, comes to 0.00.
ToCoapCode(s, method) == IF Listed(s, method) = Unset THEN EMPTY ELSE Listed(s, method)

\* to_coap_response: an ACK with the mid, and without the token of the request.
ToCoapResponse(s, request, type, payload) ==
  [SetContentType(Message(ACK, ToCoapCode(s, request.code), request.mid, <<>>), type) EXCEPT !.payload = payload]

\* execute_http_request, which raises where the HTTP server cannot be reached.
ChOrigin ==
  /\ pc = "origin"
  /\ \/ \E s \in Statuses, type \in {0, 50}, payload \in {<<>>, <<104>>} :
          http' = s /\ Speak(ToCoapResponse(s, heard.message, type, payload), "back")
     \/ Die /\ UNCHANGED <<http, spoken, wire>>
  /\ UNCHANGED <<gate, heard, status>>

ClientReceives ==
  /\ gate = "ch" /\ pc = "back"
  /\ heard' = Deserialize(wire) /\ End
  /\ UNCHANGED <<gate, http, spoken, wire, status>>

-----------------------------------------------------------------------------
(* The HTTP-CoAP proxy.                                                    *)

Code(method) == CASE method \in {"GET", "HEAD"} -> 1 [] method = "POST" -> 2 [] method = "PUT" -> 3 [] OTHER -> 4

\* The request of HelperClient for the uri, whose query is its payload as well.
CoapRequest(r) ==
  LET m == SetUriPath(Message(CON, Code(r.method), Mid, Token), <<<<114>>>>) IN
  IF r.query = <<>> THEN m
  ELSE [SetUriQuery(m, <<<<107, 61>> \o r.query>>) EXCEPT !.payload = IF r.method \in {"POST", "PUT"} THEN r.query ELSE <<>>]

\* do_GET and the others.  For another path there is no client: AttributeError.
HcBegin ==
  /\ pc = "begin"
  /\ \E r \in HttpRequests :
       /\ http' = r
       /\ IF r.method \in {"CONNECT", "OPTIONS", "TRACE"}
          THEN status' = 501 /\ End /\ UNCHANGED <<spoken, wire>>
          ELSE IF ~r.known THEN Die /\ UNCHANGED <<status, spoken, wire>>
          ELSE IF r.method \in {"POST", "PUT"} /\ r.query = <<>>
          THEN status' = 400 /\ End /\ UNCHANGED <<spoken, wire>>
          ELSE Speak(CoapRequest(r), "arrive") /\ UNCHANGED status
  /\ UNCHANGED <<gate, heard>>

ServerReceives ==
  /\ gate = "hc" /\ pc = "arrive"
  /\ heard' = Deserialize(wire) /\ pc' = IF heard'.outcome = "message" THEN "server" ELSE "dead"
  /\ UNCHANGED <<gate, http, spoken, wire, status>>

\* Without an answer the client's result is None: AttributeError.
ServerAnswers ==
  /\ pc = "server"
  /\ \/ \E m \in CoapAnswers : Speak([m EXCEPT !.mid = heard.message.mid, !.token = heard.message.token], "back")
     \/ Die /\ UNCHANGED <<spoken, wire>>
  /\ UNCHANGED <<gate, http, heard, status>>

\* CoAP_HTTP, which has no entry for REQUEST_ENTITY_INCOMPLETE.
HttpCode(code) ==
  CASE code = 65 -> 201
    [] code \in {66, 68, 69} -> 200
    [] code = 67 -> 304
    [] code \in {128, 133} -> 400
    [] code = 131 -> 403
    [] code = 132 -> 404
    [] code = 134 -> 406
    [] code = 140 -> 412
    [] code = 141 -> 413
    [] code = 143 -> 415
    [] code \in 160..164 -> 500 + (code - 160)
    [] code = 165 -> 502
    [] OTHER -> Unset

\* set_http_response: KeyError for a code that has no entry.
HcRespond ==
  /\ gate = "hc" /\ pc = "back"
  /\ heard' = Deserialize(wire)
  /\ IF heard'.outcome = "message" /\ HttpCode(heard'.message.code) # Unset
     THEN status' = HttpCode(heard'.message.code) /\ End
     ELSE Die /\ UNCHANGED status
  /\ UNCHANGED <<gate, http, spoken, wire>>

Next ==
  \/ ClientSends \/ OtherSends \/ ChReceive \/ ChReject \/ ChOrigin \/ ClientReceives
  \/ HcBegin \/ ServerReceives \/ ServerAnswers \/ HcRespond

Spec == Init /\ [][Next]_vars

-----------------------------------------------------------------------------
(* Properties.                                                             *)

\* What a program reads of a message.
Reads(m) ==
  [type |-> m.type, code |-> m.code, mid |-> m.mid, token |-> m.token, payload |-> m.payload,
   path |-> UriPath(m), query |-> UriQuery(m), accept |-> Accept(m), ifMatch |-> IfMatch(m),
   ifNoneMatch |-> IfNoneMatch(m), proxyUri |-> ProxyUri(m), etag |-> ETag(m), contentType |-> ContentType(m),
   observe |-> Observe(m), block1 |-> Block(m, Block1No), block2 |-> Block(m, Block2No),
   locationPath |-> LocationPath(m), locationQuery |-> LocationQuery(m), maxAge |-> MaxAge(m)]

Spoken == spoken # NoMessage /\ pc \in {"reject", "origin", "server", "end", "dead"} /\ heard.outcome # "none"
\* An option of 269 bytes or more is read only after a delta of 269 or more.
Long(m) == \E i \in DOMAIN m.options : Length(m.options[i]) > 268

\* Who gets a datagram reads of it what who made it reads of the message: every
\* length, delta and number arrives, on both sides of the borders between the
\* forms a header has.  But a message with an option of more than 268 bytes kills
\* its reader.
ArrivesAsSet ==
  Spoken /\ ~Long(spoken) => heard.outcome = "message" /\ Reads(heard.message) = Reads(spoken)

\* The class of an answer, and what a client is told: 2 for a success, 4 and 5 for a
\* client's and a server's error, 0 for nothing, as by an ACK of 0.00, after which it
\* waits for a separate response.
ClassOf(code) == code \div 32
ClassOfStatus(s) == IF s < 400 THEN 2 ELSE s \div 100
\* Through neither proxy is anybody told of an error as a success, of a success as an
\* error, or of a client's error as a server's or a server's as a client's; nor is
\* the client of the CoAP-HTTP proxy left without an answer but for a status that no
\* list has, errors (402, 410, 429, 505) among them: to it that one is no answer.
ClassIsKept ==
  pc = "end" /\ heard.outcome = "message" =>
    /\ gate = "hc" => ClassOfStatus(status) = ClassOf(heard.message.code)
    /\ gate = "ch" /\ http # Unset =>
         \/ ClassOf(heard.message.code) = ClassOfStatus(http)
         \/ heard.message.code = EMPTY /\ \E method \in Methods : Listed(http, method) = Unset
=============================================================================
