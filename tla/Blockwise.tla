----------------------------- MODULE Blockwise -----------------------------
(***************************************************************************)
(* Block1 and Block2 (layers/blocklayer.py) between one client and one     *)
(* server with one resource.  A call is a GET or PUT of the client's user, *)
(* with a token of its own.  Payloads are sequences, so that one can see   *)
(* what was cut and put together.                                          *)
(*                                                                         *)
(* A message of one side is handled in one step: what the block layers     *)
(* keep belongs to one token, and the next request of a token follows the  *)
(* response to the last.                                                   *)
(***************************************************************************)
EXTENDS Naturals, Sequences

CONSTANTS Calls,       \* records of op, length and block: None, or what the user asks for
          Together,    \* the pairs of calls of which one may start before the other is answered
          Repeats,     \* the calls whose responses may arrive more than once
          MaxPayload,  \* MAX_PAYLOAD
          MaxSent,     \* bound on the requests sent for a call
          InitialLength,
          None

\* The units of the payload of a PUT, and of the resource at first.
Content(c) == [i \in 1..c.length |-> <<c, i>>]
Initial == [i \in 1..InitialLength |-> <<None, i>>]

\* payload[byte: byte + size]
Slice(payload, byte, size) ==
  SubSeq(payload, byte + 1, IF byte + size <= Len(payload) THEN byte + size ELSE Len(payload))

Payload == Seq((Calls \cup {None}) \X Nat)
BlockOption == [num : Nat, m : BOOLEAN, size : Nat \ {0}]
BlockItem == [byte : Nat, num : Nat, m : BOOLEAN, size : Nat \ {0}]
Message == [mid : 0..MaxSent, block1 : BlockOption \cup {None}, block2 : BlockOption \cup {None}, payload : Payload]
Response == [code : {"CONTENT", "CHANGED", "CONTINUE", "INCOMPLETE"}, block1 : BlockOption \cup {None},
             block2 : BlockOption \cup {None}, payload : Payload]
Outcome == [code : {"CONTENT", "CHANGED", "INCOMPLETE"}, payload : Payload]
Download == [num : Nat, payload : Payload, typed : BOOLEAN]
Upload == [num : Nat, payload : Payload]

ASSUME CallsAssumption ==
  /\ \A c \in Calls : c.op \in {"GET", "PUT"} /\ c.length \in Nat /\ c.block \in BlockOption \cup {None}
  /\ Together \subseteq Calls \X Calls /\ Repeats \subseteq Calls
ASSUME BoundsAssumption == MaxPayload \in Nat \ {0} /\ MaxSent \in Nat /\ InitialLength \in Nat
ASSUME NoneAssumption ==
  None \notin Calls \cup BlockOption \cup BlockItem \cup Message \cup Response \cup Outcome \cup Download \cup Upload

VARIABLES
  written,        \* what the resource's payload has been, the last being its own
  result,         \* [Calls]: what the user is given
  request,        \* [Calls]: the Request object; its mid is 0 for None
  lastMid,        \* [Calls]: the mids used for it
  requests,       \* [Calls]: the messages sent
  block1Sent, block2Sent,        \* the client's BlockItems
  receiver,       \* the client's receiver thread: "alive" or "dead"
  block1Receive, block2Receive,  \* the server's BlockItems
  answers,        \* [Calls]: the response to each mid
  taken           \* the responses that have arrived and do so once only

client == <<result, request, lastMid, requests, block1Sent, block2Sent, receiver, taken>>
server == <<written, block1Receive, block2Receive, answers>>
vars == <<client, server>>

Init ==
  /\ written = <<Initial>>
  /\ result = [c \in Calls |-> None] /\ request = [c \in Calls |-> None]
  /\ lastMid = [c \in Calls |-> 0] /\ requests = [c \in Calls |-> {}]
  /\ block1Sent = [c \in Calls |-> None] /\ block2Sent = [c \in Calls |-> None]
  /\ block1Receive = [c \in Calls |-> None] /\ block2Receive = [c \in Calls |-> None]
  /\ receiver = "alive" /\ answers = [c \in Calls |-> [n \in 1..MaxSent |-> None]] /\ taken = {}

-----------------------------------------------------------------------------
(* The client.                                                             *)

\* messageLayer.send_request and send_datagram: only a request without mid gets one.
Send(c, r) ==
  LET message == IF r.mid = 0 THEN [r EXCEPT !.mid = lastMid[c] + 1] ELSE r IN
  /\ message.mid <= MaxSent
  /\ request' = [request EXCEPT ![c] = message]
  /\ lastMid' = [lastMid EXCEPT ![c] = IF r.mid = 0 THEN @ + 1 ELSE @]
  /\ requests' = [requests EXCEPT ![c] = @ \cup {message}]

Block(num, m, size) == [num |-> num, m |-> m, size |-> size]
Item(byte, block) == [byte |-> byte, num |-> block.num, m |-> block.m, size |-> block.size]
Asked(c) == IF c.block # None THEN c.block ELSE Block(0, TRUE, MaxPayload)
Cut(c) == c.op = "PUT" /\ (c.block # None \/ c.length > MaxPayload)

\* blockLayer.send_request; send_datagram starts a receiver if there is none.
Call(c) ==
  /\ request[c] = None
  /\ \A d \in Calls : request[d] # None => result[d] # None \/ <<c, d>> \in Together
  /\ Send(c, [mid |-> 0,
              block1 |-> IF Cut(c) THEN Asked(c) ELSE None,
              block2 |-> IF c.op = "GET" THEN c.block ELSE None,
              payload |-> IF Cut(c) THEN Slice(Content(c), 0, Asked(c).size)
                          ELSE IF c.op = "PUT" THEN Content(c) ELSE <<>>])
  /\ block1Sent' = IF Cut(c) THEN [block1Sent EXCEPT ![c] = Item(Asked(c).size, Asked(c))]
                   ELSE block1Sent
  /\ block2Sent' = IF c.op = "GET" /\ c.block # None
                   THEN [block2Sent EXCEPT ![c] = [num |-> c.block.num, payload |-> <<>>, typed |-> FALSE]]
                   ELSE block2Sent
  /\ receiver' = "alive"
  /\ UNCHANGED <<result, taken, server>>

\* _wait_response: the caller is given what comes first, then its context is gone.
Deliver(c, code, payload) ==
  result' = IF code # "CONTINUE" /\ result[c] = None THEN [result EXCEPT ![c] = [code |-> code, payload |-> payload]] ELSE result

\* A response that has been sent arrives, possibly again.
Arrives(c, n) ==
  /\ receiver = "alive" /\ n \in 1..MaxSent /\ answers[c][n] # None
  /\ c \in Repeats \/ <<c, n>> \notin taken
  /\ taken' = IF c \in Repeats THEN taken ELSE taken \cup {<<c, n>>}
  /\ UNCHANGED server

\* The request is sent once more, under its mid if it has one.
Again(c) == Send(c, request[c]) /\ UNCHANGED <<block1Sent, block2Sent, result, receiver>>

Continued(c, n) == block1Sent[c] # None /\ answers[c][n].block1 # None

\* Block1 in a response after the last block was sent.
ReceiveLateBlock1(c, n) ==
  /\ Arrives(c, n) /\ Continued(c, n) /\ ~block1Sent[c].m
  /\ request' = [request EXCEPT ![c].block1 = None]
  /\ Deliver(c, answers[c][n].code, answers[c][n].payload)
  /\ UNCHANGED <<lastMid, requests, block1Sent, block2Sent, receiver>>

\* The next block.  NameError ends the receiver if it is not the last one.
ReceiveBlock1(c, n) ==
  LET item == block1Sent[c]
      size == IF answers[c][n].block1.size < item.size THEN answers[c][n].block1.size ELSE item.size
      next == [num |-> item.num + 1, byte |-> item.byte + size, size |-> size, m |-> c.length > item.byte + size]
      r == [request[c] EXCEPT !.mid = 0, !.block1 = None, !.payload = Slice(Content(c), item.byte, size)]
  IN
  /\ Arrives(c, n) /\ Continued(c, n) /\ item.m
  /\ IF answers[c][n].block1.num # item.num THEN Again(c)
     ELSE /\ block1Sent' = [block1Sent EXCEPT ![c] = next]
          /\ UNCHANGED <<block2Sent, result>>
          /\ \/ /\ ~next.m /\ Send(c, [r EXCEPT !.block1 = Block(next.num, FALSE, size)])
                /\ UNCHANGED receiver
             \/ /\ next.m /\ request' = [request EXCEPT ![c] = r] /\ receiver' = "dead"
                /\ UNCHANGED <<lastMid, requests>>

Cutting(c, n) == ~Continued(c, n) /\ answers[c][n].block2 # None

\* A block is taken whatever its number.
WrongExpected(c, block) == TRUE
\* The number is compared if there is an item.
Expected(c, block) == block2Sent[c] # None => block.num = block2Sent[c].num

\* A block that others follow.
ReceiveBlock2(c, n) ==
  LET block == answers[c][n].block2
      before == IF block2Sent[c] = None THEN <<>> ELSE block2Sent[c].payload
  IN
  /\ Arrives(c, n) /\ Cutting(c, n) /\ block.m
  /\ \/ ~Expected(c, block) /\ Again(c)
     \/ /\ Expected(c, block)
        /\ block2Sent' = [block2Sent EXCEPT ![c] =
             [num |-> block.num + 1, payload |-> before \o answers[c][n].payload, typed |-> TRUE]]
        /\ Send(c, [request[c] EXCEPT !.mid = 0, !.block2 = Block(block.num + 1, FALSE, block.size)])
        /\ UNCHANGED <<block1Sent, result, receiver>>

\* The last block: its number is not looked at, but the type of what came before,
\* which an item that the user asked for does not have.
ReceiveLastBlock2(c, n) ==
  LET item == block2Sent[c] IN
  /\ Arrives(c, n) /\ Cutting(c, n) /\ ~answers[c][n].block2.m
  /\ \/ item # None /\ ~item.typed /\ Again(c)
     \/ /\ item # None => item.typed
        /\ Deliver(c, answers[c][n].code,
                   (IF item = None THEN <<>> ELSE item.payload) \o answers[c][n].payload)
        /\ block2Sent' = [block2Sent EXCEPT ![c] = None]
        /\ UNCHANGED <<request, lastMid, requests, block1Sent, receiver>>

ReceiveWhole(c, n) ==
  /\ Arrives(c, n) /\ ~Continued(c, n) /\ ~Cutting(c, n)
  /\ Deliver(c, answers[c][n].code, answers[c][n].payload)
  /\ UNCHANGED <<request, lastMid, requests, block1Sent, block2Sent, receiver>>

-----------------------------------------------------------------------------
(* The server.  A copy of a request is answered as the first one was.      *)

Answer(message, c, code, block1, block2, payload) ==
  answers' = [answers EXCEPT ![c][message.mid] =
    [code |-> code, block1 |-> block1, block2 |-> block2, payload |-> payload]]

New(c, message) == message \in requests[c] /\ answers[c][message.mid] = None

\* blockLayer.receive_request for Block2: num and size are taken over, byte is not.
Negotiated(c, message) ==
  CASE message.block2 = None -> block2Receive[c]
    [] message.block2 # None /\ block2Receive[c] = None -> Item(0, message.block2)
    [] OTHER -> Item(block2Receive[c].byte, message.block2)

\* GET, and blockLayer.send_response.
HandleGet(c, message) ==
  LET payload == written[Len(written)]
      asked == Negotiated(c, message)
      item == IF asked # None THEN asked ELSE Item(0, Block(0, TRUE, MaxPayload))
      m == Len(payload) > item.byte + item.size
  IN
  /\ New(c, message) /\ c.op = "GET"
  /\ \/ /\ asked = None /\ Len(payload) <= MaxPayload
        /\ Answer(message, c, "CONTENT", None, None, payload)
        /\ UNCHANGED block2Receive
     \/ /\ asked # None \/ Len(payload) > MaxPayload
        /\ Answer(message, c, "CONTENT", None, Block(item.num, m, item.size), Slice(payload, item.byte, item.size))
        /\ block2Receive' = [block2Receive EXCEPT ![c] =
             IF m THEN [item EXCEPT !.byte = @ + item.size, !.num = @ + 1] ELSE None]
  /\ UNCHANGED <<client, written, block1Receive>>

Refused(c, message) ==
  message.block1.num # (IF block1Receive[c] = None THEN 0 ELSE block1Receive[c].num)

\* What has been received before, and the block.
WrongJoined(c, message) == message.payload
Joined(c, message) ==
  (IF message.block1 = None \/ block1Receive[c] = None THEN <<>> ELSE block1Receive[c].payload) \o message.payload

\* A PUT whose Block1 is none or the last: the resource is written.
HandlePut(c, message) ==
  /\ New(c, message) /\ c.op = "PUT"
  /\ message.block1 # None => ~Refused(c, message) /\ ~message.block1.m
  /\ written' = Append(written, Joined(c, message))
  /\ block1Receive' = IF message.block1 = None THEN block1Receive ELSE [block1Receive EXCEPT ![c] = None]
  /\ Answer(message, c, "CHANGED", None, None, <<>>)
  /\ UNCHANGED <<client, block2Receive>>

ReceiveBlock(c, message) ==
  /\ New(c, message) /\ message.block1 # None /\ ~Refused(c, message) /\ message.block1.m
  /\ block1Receive' = [block1Receive EXCEPT ![c] =
       [num |-> message.block1.num + 1, payload |-> Joined(c, message)]]
  /\ Answer(message, c, "CONTINUE", message.block1, None, <<>>)
  /\ UNCHANGED <<client, written, block2Receive>>

\* blockLayer.incomplete
Refuse(c, message) ==
  /\ New(c, message) /\ message.block1 # None /\ Refused(c, message)
  /\ Answer(message, c, "INCOMPLETE", None, None, <<>>)
  /\ UNCHANGED <<client, written, block1Receive, block2Receive>>

-----------------------------------------------------------------------------
Receive(c, n) ==
  \/ ReceiveLateBlock1(c, n) \/ ReceiveBlock1(c, n) \/ ReceiveBlock2(c, n)
  \/ ReceiveLastBlock2(c, n) \/ ReceiveWhole(c, n)
Handle(c, message) ==
  HandleGet(c, message) \/ HandlePut(c, message) \/ ReceiveBlock(c, message) \/ Refuse(c, message)

Next ==
  \/ \E c \in Calls : Call(c)
  \/ \E c \in Calls, n \in 1..MaxSent : Receive(c, n)
  \/ \E c \in Calls : \E message \in requests[c] : Handle(c, message)

Spec == Init /\ [][Next]_vars

-----------------------------------------------------------------------------
(* Properties.                                                             *)

Promise == INSTANCE Transfer WITH
  Calls <- Calls, Initial <- Initial, Content <- Content, None <- None, written <- written, result <- result

\* The values of the variables; what was not called has sent nothing, and what was
\* not sent has no answer.
TypeOK ==
  /\ written \in Seq(Payload) /\ written # <<>>
  /\ result \in [Calls -> Outcome \cup {None}]
  /\ request \in [Calls -> Message \cup {None}] /\ requests \in [Calls -> SUBSET Message]
  /\ lastMid \in [Calls -> 0..MaxSent]
  /\ block1Sent \in [Calls -> BlockItem \cup {None}] /\ block2Sent \in [Calls -> Download \cup {None}]
  /\ block1Receive \in [Calls -> Upload \cup {None}] /\ block2Receive \in [Calls -> BlockItem \cup {None}]
  /\ answers \in [Calls -> [1..MaxSent -> Response \cup {None}]]
  /\ receiver \in {"alive", "dead"} /\ taken \subseteq Calls \X (1..MaxSent)
  /\ \A c \in Calls :
       /\ \A r \in requests[c] : r.mid \in 1..lastMid[c]
       /\ \A n \in 1..MaxSent : answers[c][n] # None => n <= lastMid[c]
       /\ request[c] = None => lastMid[c] = 0 /\ block1Sent[c] = None /\ block2Sent[c] = None
       /\ request[c] # None => request[c].mid <= lastMid[c]

\* What blockwise transfer promises (blocklayer.py 31-34).
ImplementsTransfer == Promise!Spec

\* A download gives a payload that the resource has had (blocklayer.py 160-197).
DownloadsAreWhole ==
  \A c \in Calls : result[c] # None /\ result[c].code = "CONTENT" => result[c].payload \in Promise!Held
=============================================================================
