---------------------------- MODULE Subscription ----------------------------
(***************************************************************************)
(* A HelperClient that observes a resource, the server that notifies it,   *)
(* and the network between them: HelperClient.observe, get with a callback *)
(* and cancel_observe_token, the client halves of observelayer.py and of   *)
(* messagelayer.py, and what the server keeps for the client.  Messages    *)
(* are confirmable.  One that is lost is never received; they may come in  *)
(* any order, and those that are retransmitted twice.                      *)
(*                                                                         *)
(* A call stands for its request, whose mid is used for no other.  The     *)
(* server handles a request in one step and notifies after one PUT at a    *)
(* time: Observe has its threads, ServerExchange those of an exchange, and *)
(* ClientExchange the threads of a request.  A context that is deleted     *)
(* while its token is looked up is there, too: here a look-up is one step. *)
(***************************************************************************)
EXTENDS MessageLayer, Naturals, Sequences

CONSTANTS Tokens,         \* what generate_random_token(2) may return, no two the same but for case
          Calls,          \* records of op, of and a number
          Patient,        \* TRUE: who cancels has had an answer
          MaxVersion,     \* bound on the PUTs
          MaxRetransmit,  \* MAX_RETRANSMIT
          Receiver, None

ASSUME CallsAssumption ==
  \A c \in Calls : /\ c.op \in {"observe", "get", "cancel"}
                   /\ c.op = "cancel" => /\ c.of \in Calls /\ c.of.op = "observe"
                                        /\ \A d \in Calls \ {c} : d.op = "cancel" => d.of # c.of
ASSUME NamesAssumption == None \notin Calls \cup Tokens /\ Receiver \notin Calls \cup {None}
ASSUME BoundsAssumption == MaxVersion \in Nat /\ MaxRetransmit \in Nat /\ Patient \in BOOLEAN

\* cancel_observe_token waits for its answer; who observes or gets has a callback.
Blocking == {c \in Calls : c.op = "cancel"}
Asynchronous == Calls \ Blocking

VARIABLES
  requests,     \* [Tokens]: the call whose context HelperClient.requests has
  lock,         \* requests_lock: None, Receiver, or a call that looks for a token
  call,         \* [Calls]: pc, token, flag and retransmissions of the request, whether
                \* retransmit_stop is there, Event, result
  byToken,      \* [Tokens]: the client's _transactions_token
  receiver,     \* pc, message and the call it is for
  version,      \* the payload of the resource
  relations,    \* [Tokens]: the server's, by the transaction of the ObserveItem
  transaction,  \* [Calls]: what the server keeps of the request
  mids,         \* the transaction of each mid that the server has drawn
  todo,         \* the transactions that notify() has still to go through
  network       \* messages under way

client == <<requests, lock, call, byToken, receiver>>
server == <<version, relations, transaction, mids, todo>>
vars == <<client, server, network>>

Init ==
  /\ requests = [k \in Tokens |-> None] /\ byToken = [k \in Tokens |-> None] /\ lock = None
  /\ call = [c \in Calls |-> [pc |-> "new", token |-> None, flag |-> "open", count |-> 0,
                          thread |-> FALSE, responded |-> FALSE, result |-> None]]
  /\ receiver = [pc |-> "idle", message |-> None, context |-> None]
  /\ version = 0 /\ relations = [k \in Tokens |-> None]
  /\ transaction = [c \in Calls |->
       [known |-> FALSE, mid |-> 0, version |-> 0, observe |-> FALSE, flag |-> "none", count |-> 0]]
  /\ mids = <<>> /\ todo = {} /\ network = {}

\* The receiver calls back after the with block.
WrongLockFree == lock \in {None, Receiver}
\* with self.requests_lock
LockFree == lock = None

Request(c) == [kind |-> "request", call |-> c]
Empty(n) == [kind |-> "empty", mid |-> n]
\* The response that the server has for c: the answer with the mid of the request, or
\* a notification.
Response(c, t) ==
  IF t.mid = 0 THEN [kind |-> "answer", call |-> c, token |-> call[c].token, version |-> t.version]
  ELSE [kind |-> "notification", mid |-> t.mid, token |-> call[c].token, version |-> t.version]

-----------------------------------------------------------------------------
(* The application's calls.                                                *)

\* The first half of cancel_observe_token, which makes no request unless explicit; the
\* client's own ObserveItem has no transaction, so end_observation leaves it.
CancelDelete(c, explicit) ==
  LET token == call[c.of].token IN
  /\ c \in Blocking /\ call[c].pc = "new"
  /\ call[c.of].pc = "open" /\ (Patient => call[c.of].flag = "acknowledged")
  /\ LockFree
  /\ requests' = [requests EXCEPT ![token] = None]
  /\ call' = [call EXCEPT ![c].pc = IF explicit THEN "deleted" ELSE "done"]
  /\ UNCHANGED <<lock, byToken, receiver, server, network>>

Ready(c) == call[c].pc = IF c \in Blocking THEN "deleted" ELSE "new"
Free == {k \in Tokens : requests[k] = None}
\* An explicit cancellation has the token of what it cancels, if that is still free.
TokenFor(c) == IF c \in Blocking /\ call[c.of].token \in Free THEN {call[c.of].token} ELSE Free

\* send_request: a new token while the token is in use.
Register(c) ==
  /\ Ready(c) /\ LockFree
  /\ \E k \in TokenFor(c) :
       /\ requests' = [requests EXCEPT ![k] = c]
       /\ call' = [call EXCEPT ![c].pc = "send", ![c].token = k]
  /\ UNCHANGED <<lock, byToken, receiver, server, network>>

\* Without a free one it goes on, and keeps the lock, ...
Spin(c) ==
  /\ Ready(c) /\ LockFree /\ Free = {}
  /\ lock' = c
  /\ UNCHANGED <<requests, call, byToken, receiver, server, network>>

\* ... until a call that needs no lock returns.
SpinEnds(c) ==
  /\ lock = c
  /\ \E k \in Free :
       /\ requests' = [requests EXCEPT ![k] = c]
       /\ call' = [call EXCEPT ![c].pc = "send", ![c].token = k]
  /\ lock' = None
  /\ UNCHANGED <<byToken, receiver, server, network>>

\* send_datagram starts a receiver if the last one is dead.
Alive == IF receiver.pc = "dead" THEN [receiver EXCEPT !.pc = "idle"] ELSE receiver

\* protocol.send_message, which starts the retransmission; with a callback the call is over.
Send(c) ==
  /\ call[c].pc = "send"
  /\ call' = [call EXCEPT ![c].pc = IF c \in Blocking THEN "waiting" ELSE "open", ![c].thread = TRUE]
  /\ receiver' = Alive
  /\ byToken' = [byToken EXCEPT ![call[c].token] = c]
  /\ network' = network \cup {Request(c)}
  /\ UNCHANGED <<requests, lock, server>>

\* What is left after the wait, without the lock.
WrongReturned(c) == requests
Returned(c) == [requests EXCEPT ![call[c].token] = None]
Return(c) ==
  /\ call[c].pc = "waiting" /\ call[c].responded
  /\ requests' = Returned(c)
  /\ call' = [call EXCEPT ![c].pc = "done"]
  /\ UNCHANGED <<lock, byToken, receiver, server, network>>
-----------------------------------------------------------------------------
(* The client's retransmissions and its receiver.                          *)

ClientRetransmit(c) ==
  /\ call[c].thread /\ call[c].flag = "open" /\ call[c].count < MaxRetransmit
  /\ call' = [call EXCEPT ![c].count = @ + 1]
  /\ receiver' = Alive
  /\ network' = network \cup {Request(c)}
  /\ UNCHANGED <<requests, lock, byToken, server>>

\* A request that was given up is for nobody.
WrongResponded(calls, c, result) ==
  IF c \in Blocking /\ result # None THEN [calls EXCEPT ![c].responded = TRUE, ![c].result = result] ELSE calls
\* _wait_response: what a message, or the request that was given up, is for the call
\* that has the token.
Responded(calls, c, result) ==
  IF c \in Blocking THEN [calls EXCEPT ![c].responded = TRUE, ![c].result = result] ELSE calls

ClientGiveUp(c) ==
  /\ call[c].thread /\ call[c].flag = "open" /\ call[c].count = MaxRetransmit /\ LockFree
  /\ call' = Responded([call EXCEPT ![c].flag = "timeouted"], requests[call[c].token], None)
  /\ UNCHANGED <<requests, lock, byToken, receiver, server, network>>

\* The last lines of _retransmit: retransmit_stop = None, and its count is gone.
RetransmissionEnds(c) ==
  /\ call[c].thread /\ call[c].flag # "open"
  /\ call' = [call EXCEPT ![c].thread = FALSE, ![c].count = 0]
  /\ UNCHANGED <<requests, lock, byToken, receiver, server, network>>

\* MessageLayer.receive_response: an answer is for the request with its mid, a
\* notification for the last request with its token.
TransactionOf(m) == IF m.kind = "answer" THEN m.call ELSE byToken[m.token]

\* A confirmable response is acknowledged, twice if the client has an ObserveItem, before
\* the application sees it.
Acknowledgements(m) == IF m.kind = "notification" THEN {Empty(m.mid)} ELSE {}

\* With a retransmission thread that has ended there is nothing to wait for.
Receive(m) ==
  /\ receiver.pc = "idle" /\ m \in network /\ m.kind \in {"answer", "notification"}
  /\ LET c == TransactionOf(m) IN
     /\ c # None
     /\ call' = [call EXCEPT ![c].flag = "acknowledged"]
     /\ IF call[c].thread
        THEN receiver' = [pc |-> "wake", message |-> m, context |-> c] /\ network' = network \ {m}
        ELSE /\ receiver' = [pc |-> "lookup", message |-> m, context |-> None]
             /\ network' = (network \ {m}) \cup Acknowledgements(m)
  /\ UNCHANGED <<requests, lock, byToken, server>>

\* retransmit_stop.set(), of what is None by now if the thread has ended since the test:
\* the AttributeError ends the receiver.
Wake ==
  /\ receiver.pc = "wake"
  /\ receiver' = IF call[receiver.context].thread THEN [receiver EXCEPT !.pc = "wait"]
                 ELSE [pc |-> "dead", message |-> None, context |-> None]
  /\ UNCHANGED <<requests, lock, call, byToken, server, network>>

\* _wait_for_retransmit_thread
Acknowledge ==
  /\ receiver.pc = "wait" /\ ~call[receiver.context].thread
  /\ receiver' = [receiver EXCEPT !.pc = "lookup", !.context = None]
  /\ network' = network \cup Acknowledgements(receiver.message)
  /\ UNCHANGED <<requests, lock, call, byToken, server>>

Lookup ==
  /\ receiver.pc = "lookup" /\ LockFree
  /\ IF requests[receiver.message.token] = None
     THEN receiver' = [pc |-> "idle", message |-> None, context |-> None] /\ UNCHANGED lock
     ELSE /\ receiver' = [receiver EXCEPT !.pc = "callback", !.context = requests[receiver.message.token]]
          /\ lock' = Receiver
  /\ UNCHANGED <<requests, call, byToken, server, network>>

\* A callback, after which the context stays, or the Event of who waits.
Callback ==
  /\ receiver.pc = "callback"
  /\ call' = Responded(call, receiver.context, receiver.message)
  /\ receiver' = [pc |-> "idle", message |-> None, context |-> None] /\ lock' = None
  /\ UNCHANGED <<requests, byToken, server, network>>

-----------------------------------------------------------------------------
(* The server.                                                             *)

\* Observe 1 is overlooked.
WrongRegistered(c) ==
  [relations EXCEPT ![call[c].token] = IF c.op = "observe" THEN c ELSE IF @ = None THEN None ELSE c]
\* ObserveLayer.receive_request, and send_response, which gives an entry the
\* transaction that was answered last.
Registered(c) ==
  [relations EXCEPT ![call[c].token] = CASE c.op = "observe" -> c
                                         [] c.op = "cancel" -> None
                                         [] OTHER -> IF @ = None THEN None ELSE c]

ServerRequest(m) ==
  /\ m \in network /\ m.kind = "request" /\ ~transaction[m.call].known
  /\ relations' = Registered(m.call)
  /\ LET t == [known |-> TRUE, mid |-> 0, version |-> version, flag |-> "acknowledged", count |-> 0,
               observe |-> relations'[call[m.call].token] # None] IN
     /\ transaction' = [transaction EXCEPT ![m.call] = t]
     /\ network' = (network \ {m}) \cup {Response(m.call, t)}
  /\ UNCHANGED <<client, version, mids, todo>>

\* The listener resends what the transaction's response is by now.
ServerDuplicate(m) ==
  /\ m \in network /\ m.kind = "request" /\ transaction[m.call].known
  /\ network' = (network \ {m}) \cup {Response(m.call, transaction[m.call])}
  /\ UNCHANGED <<client, server>>

\* A PUT of another client; its worker collects who is to be notified.
Put ==
  /\ todo = {} /\ version < MaxVersion
  /\ version' = version + 1
  /\ todo' = {relations[k] : k \in Tokens} \ {None}
  /\ UNCHANGED <<client, relations, transaction, mids, network>>

\* The lock of the transaction is free when no retransmission has it.
Notify(c) ==
  /\ c \in todo /\ transaction[c].flag # "open"
  /\ LET t == [transaction[c] EXCEPT !.mid = Len(mids) + 1, !.version = version, !.flag = "open", !.count = 0,
                                     !.observe = relations[call[c].token] # None] IN
     /\ transaction' = [transaction EXCEPT ![c] = t]
     /\ network' = network \cup {Response(c, t)}
  /\ relations' = [relations EXCEPT ![call[c].token] = IF @ = None THEN None ELSE c]
  /\ mids' = Append(mids, c) /\ todo' = todo \ {c}
  /\ UNCHANGED <<client, version>>

ServerRetransmit(c) ==
  /\ transaction[c].flag = "open" /\ transaction[c].count < MaxRetransmit
  /\ transaction' = [transaction EXCEPT ![c].count = @ + 1]
  /\ network' = network \cup {Response(c, transaction[c])}
  /\ UNCHANGED <<client, version, relations, mids, todo>>

\* remove_subscriber, by the token of the notification; an ACK may come in between, which
\* Observe has: the ObserveItem goes all the same.
ServerGiveUp(c) ==
  /\ transaction[c].flag = "open" /\ transaction[c].count = MaxRetransmit
  /\ transaction' = [transaction EXCEPT ![c].flag = "timeouted"]
  /\ relations' = IF transaction[c].observe THEN [relations EXCEPT ![call[c].token] = None] ELSE relations
  /\ UNCHANGED <<client, version, mids, todo, network>>

\* receive_empty: an ACK, or the second one that the client has sent, is for the
\* response that the transaction has now.
ServerEmpty(m) ==
  /\ m \in network /\ m.kind = "empty"
  /\ transaction' = [transaction EXCEPT ![mids[m.mid]].flag = ResponseFlagAfterEmpty("ACK", "acknowledged", @)]
  /\ \E kept \in {network, network \ {m}} : network' = kept
  /\ UNCHANGED <<client, version, relations, mids, todo>>

-----------------------------------------------------------------------------
ClientThreads(c) ==
  \/ Register(c) \/ SpinEnds(c) \/ Send(c) \/ Return(c)
  \/ ClientRetransmit(c) \/ ClientGiveUp(c) \/ RetransmissionEnds(c)
ReceiverThread == Wake \/ Acknowledge \/ Lookup \/ Callback
ServerThreads(c) == Notify(c) \/ ServerRetransmit(c) \/ ServerGiveUp(c)

Next ==
  \/ \E c \in Calls :
       \/ \E explicit \in BOOLEAN : CancelDelete(c, explicit)
       \/ Spin(c) \/ ClientThreads(c) \/ ServerThreads(c)
  \/ ReceiverThread \/ Put
  \/ \E m \in network :
       Receive(m) \/ ServerRequest(m) \/ ServerDuplicate(m) \/ ServerEmpty(m)

Spec == Init /\ [][Next]_vars

\* Python schedules every thread that can run, and timeouts come.
FairSpec ==
  /\ Spec /\ WF_vars(ReceiverThread)
  /\ \A c \in Calls : WF_vars(ClientThreads(c)) /\ WF_vars(ServerThreads(c))

-----------------------------------------------------------------------------
(* Properties.                                                             *)

Versions == 0..MaxVersion
Requests == [kind : {"request"}, call : Calls]
Empties == [kind : {"empty"}, mid : 1..Len(mids)]
Answers == [kind : {"answer"}, call : Calls, token : Tokens, version : Versions]
Notifications == [kind : {"notification"}, mid : 1..Len(mids), token : Tokens, version : Versions]

Responses == Answers \cup Notifications
Contexts == [pc : {"new", "deleted", "send", "open", "waiting", "done"}, token : Tokens \cup {None},
             flag : {"open", "acknowledged", "timeouted"}, count : 0..MaxRetransmit,
             thread : BOOLEAN, responded : BOOLEAN, result : Responses \cup {None}]
Receivers == [pc : {"idle", "wake", "wait", "lookup", "callback", "dead"}, message : Responses \cup {None},
              context : Calls \cup {None}]
Transactions == [known : BOOLEAN, mid : 0..Len(mids), version : Versions, observe : BOOLEAN,
                 flag : {"none", "open", "acknowledged", "timeouted"}, count : 0..MaxRetransmit]

\* The variables keep their types; every response under way has the token of a call,
\* and every notification and every ACK a mid that the server has drawn.
TypeOK ==
  /\ requests \in [Tokens -> Calls \cup {None}] /\ byToken \in [Tokens -> Calls \cup {None}]
  /\ lock \in Calls \cup {None, Receiver} /\ call \in [Calls -> Contexts]
  /\ receiver \in Receivers
  /\ receiver.pc \notin {"idle", "dead"} => receiver.message \in Responses
  /\ receiver.pc \in {"wake", "wait"} => receiver.context \in Calls
  /\ version \in Versions /\ relations \in [Tokens -> Calls \cup {None}]
  /\ mids \in Seq(Calls) /\ transaction \in [Calls -> Transactions] /\ todo \subseteq Calls
  /\ network \subseteq Requests \cup Empties \cup Responses

\* A callback is called only as long as its token is registered: never once
\* cancel_observe_token has removed it (helperclient.py 93-99 against 48-59).
CallbackOnlyRegistered ==
  receiver.pc = "callback" /\ receiver.context \in Asynchronous =>
    requests[receiver.message.token] = receiver.context

OwnAnswer(c) == call[c].result # None /\ call[c].result.kind = "answer" /\ call[c].result.call = c

\* Who gets the answer to its cancellation has no ObserveItem at the server any more,
\* whatever was lost or came twice (observelayer.py 102-109), if no other call took
\* the token between cancel_observe_token's two halves (helperclient.py 99-113).
AnsweredCancelDeletes ==
  \A c \in Blocking :
    OwnAnswer(c) /\ call[c].token = call[c.of].token =>
      relations[call[c].token] \in {None} \cup (Asynchronous \ {c.of})

\* Tokens run out only of calls with a callback, whose contexts stay, and of calls
\* that wait (helperclient.py 263: the loop keeps the lock).
SpinsOnlyForContexts ==
  lock \in Calls =>
    \A k \in Tokens : requests[k] # None =>
      requests[k] \in Asynchronous \/ call[requests[k]].pc \in {"send", "waiting"}

\* Who cancels is answered or told that the server is silent, unless the loop for a
\* token keeps the lock (helperclient.py 273) or the receiver dies when a response has
\* settled the cancellation (messagelayer.py 136-137 against client/coap.py 242).
CancelReturns ==
  \A c \in Blocking :
    call[c].pc = "waiting" ~>
      \/ call[c].pc = "done" \/ lock \in Calls
      \/ receiver.pc = "dead" /\ call[c].flag = "acknowledged"
=============================================================================
