-------------------------- MODULE ClientExchange --------------------------
(***************************************************************************)
(* The threads of a client: users of coapthon/client/helperclient.py, the  *)
(* receiver and the retransmission threads of coapthon/client/coap.py, and *)
(* the caller of HelperClient.stop().                                      *)
(*                                                                         *)
(* A request that is answered in several blocks is sent on as one Request  *)
(* object in several transactions: a transaction is <<request, n>>, the    *)
(* n-th one made for it.  Server and network are the environment: any      *)
(* answer to a datagram that was sent may arrive, as often as it likes.    *)
(*                                                                         *)
(* A step is what a thread does between two accesses to state that another *)
(* thread may change.  A definition named Wrong... is a slip the code      *)
(* might have made in the definition that follows it.                      *)
(***************************************************************************)
EXTENDS Naturals, SequencesExt

CONSTANTS Requests,        \* the requests users make, each with its own token
          Confirmable,     \* those of type CON, the others are NON
          Blocking,        \* those without a callback: the user waits
          Timed,           \* those of them with a timeout
          Receivers,       \* room for the receiver threads alive at once
          Blocks,          \* the blocks of an answer
          MaxTransactions, \* bound on the transactions made for one request
          MAX_RETRANSMIT,  \* defines.MAX_RETRANSMIT
          None             \* Python's None

Transactions == Requests \X (1..MaxTransactions)

ASSUME RequestsAssumption == Confirmable \subseteq Requests /\ Timed \subseteq Blocking
                               /\ Blocking \subseteq Requests
ASSUME BoundsAssumption == /\ Blocks \in Nat \ {0} /\ MaxTransactions \in Nat \ {0}
                           /\ MAX_RETRANSMIT \in Nat \ {0}
ASSUME NoneAssumption == None \notin Transactions \cup Receivers

M == INSTANCE MessageLayer

VARIABLES
  contexts,       \* the requests whose token is in HelperClient.requests
  result,         \* [Requests]: context.response
  responded,      \* the requests whose context's Event is set
  returned,       \* [Requests]: what send_request has returned
  flag,           \* [Requests]: flag of the Request object
  asked,          \* [Transactions]: mid and block the request was sent with
  sent,           \* [Requests]: how many transactions were made
  item,           \* [Requests]: block expected next by _block2_sent, 0: no item
  response,       \* [Transactions]: block in transaction.response, 0: None
  stop,           \* [Transactions]: transaction.retransmit_stop
  toBeStopped,    \* client.to_be_stopped, as the transactions of the Events
  user,           \* [Requests]: control of the thread in send_request
  receiver,       \* [Receivers]: control of receive_datagram
  receiverThread, \* client._receiver_thread
  retransmitter,  \* [Transactions]: control and counter of _retransmit
  closer,         \* control of stop()
  stopped         \* client.stopped

helper == <<contexts, result, responded, returned>>
exchange == <<flag, asked, sent, item, response>>
vars == <<helper, exchange, stop, toBeStopped, user, receiver, receiverThread,
          retransmitter, closer, stopped>>

RequestOf(t) == t[1]
Latest(r) == <<r, sent[r]>>

UserPcs == {"idle", "send", "start_receiver", "prepare", "start", "wait", "delete",
            "return", "done"}
ReceiverPcs == {"idle", "recvfrom", "if_event", "set_event", "wait", "block", "next",
                "prepare", "start", "callback", "deliver", "respond", "ended", "dead"}
RetransmitterPcs == {"idle", "while", "wait", "resend", "if_answered", "give_up",
                     "callback", "deliver", "if_timeouted", "respond_none",
                     "respond_request", "cleanup", "done", "dead"}
CloserPcs == {"idle", "events", "join", "lock", "signal", "done", "raised"}

NotAsked == [mid |-> 0, block |-> 0]

Init ==
  /\ contexts = {}
  /\ result = [r \in Requests |-> "none"]
  /\ responded = {}
  /\ returned = [r \in Requests |-> "none"]
  /\ flag = [r \in Requests |-> "open"]
  /\ asked = [t \in Transactions |-> NotAsked]
  /\ sent = [r \in Requests |-> 0]
  /\ item = [r \in Requests |-> 0]
  /\ response = [t \in Transactions |-> 0]
  /\ stop = [t \in Transactions |-> "none"]
  /\ toBeStopped = <<>>
  /\ user = [r \in Requests |-> "idle"]
  /\ receiver = [v \in Receivers |-> [pc |-> "idle", on |-> None, empty |-> FALSE]]
  /\ receiverThread = None
  /\ retransmitter = [t \in Transactions |-> [pc |-> "idle", count |-> 0]]
  /\ closer = [pc |-> "idle", next |-> 1, left |-> {}, all |-> {}]
  /\ stopped = FALSE

-----------------------------------------------------------------------------
(* Parts of steps that several threads share.                              *)

Alive(v) == receiver[v].pc \notin {"idle", "ended", "dead"}

\* The test in send_datagram.  A receiver that would be started when the client
\* is stopped would end at once.
ReceiverNeeded == (receiverThread = None \/ ~Alive(receiverThread)) /\ ~stopped

\* The loop's condition; stop() may still come before recvfrom returns.
AtLoop == [pc |-> IF stopped THEN "ended" ELSE "recvfrom", on |-> None, empty |-> FALSE]

StartReceiver ==
  \E v \in Receivers :
    /\ ~Alive(v)
    /\ receiver' = [receiver EXCEPT ![v] = AtLoop]
    /\ receiverThread' = v

\* messageLayer.send_request and the sending of its request.
NewTransaction(r, mid, block) ==
  LET t == <<r, sent[r] + 1>> IN
  /\ sent[r] < MaxTransactions
  /\ sent' = [sent EXCEPT ![r] = @ + 1]
  /\ asked' = [asked EXCEPT ![t] = [mid |-> mid, block |-> block]]

\* _start_retransmission makes the Event, then the thread.
Prepare(t) ==
  /\ stop' = [stop EXCEPT ![t] = "clear"]
  /\ toBeStopped' = Append(toBeStopped, t)
StartRetransmission(t) == retransmitter' = [retransmitter EXCEPT ![t].pc = "while"]

\* requests_lock is held inside _wait_response and by the loop of stop().
InWaitResponse == {"deliver", "respond", "if_timeouted", "respond_none", "respond_request"}
LockFree ==
  /\ \A v \in Receivers : receiver[v].pc \notin InWaitResponse
  /\ \A t \in Transactions : retransmitter[t].pc \notin InWaitResponse
  /\ closer.pc # "signal"

\* The context found, whether it is still registered or not, is given the message
\* or what stands for it.  One with a callback stays: every Request has an
\* attribute `observe'.
Deliver(r, object) ==
  /\ result' = [result EXCEPT ![r] = IF r \in Blocking THEN object ELSE @]
  /\ responded' = responded \cup ({r} \cap Blocking)
  /\ UNCHANGED <<contexts, returned>>

-----------------------------------------------------------------------------
(* HelperClient.send_request(), one thread per request.                    *)

UserGoto(r, pc) == user' = [user EXCEPT ![r] = pc]
AfterSend(r) == IF r \in Confirmable THEN "prepare"
                ELSE IF r \in Blocking THEN "wait" ELSE "done"

UserRegister(r) ==
  /\ user[r] = "idle" /\ ~stopped
  /\ LockFree
  /\ contexts' = contexts \cup {r}
  /\ UserGoto(r, "send")
  /\ UNCHANGED <<result, responded, returned, exchange, stop, toBeStopped, receiver,
                 receiverThread, retransmitter, closer, stopped>>

UserSend(r) ==
  /\ user[r] = "send"
  /\ NewTransaction(r, 1, 1)
  /\ UserGoto(r, IF ReceiverNeeded THEN "start_receiver" ELSE AfterSend(r))
  /\ UNCHANGED <<helper, flag, item, response, stop, toBeStopped, receiver,
                 receiverThread, retransmitter, closer, stopped>>

UserStartReceiver(r) ==
  /\ user[r] = "start_receiver"
  /\ StartReceiver
  /\ UserGoto(r, AfterSend(r))
  /\ UNCHANGED <<helper, exchange, stop, toBeStopped, retransmitter, closer, stopped>>

UserPrepare(r) ==
  /\ user[r] = "prepare"
  /\ Prepare(<<r, 1>>)
  /\ UserGoto(r, "start")
  /\ UNCHANGED <<helper, exchange, receiver, receiverThread, retransmitter, closer, stopped>>

UserStart(r) ==
  /\ user[r] = "start"
  /\ StartRetransmission(<<r, 1>>)
  /\ UserGoto(r, IF r \in Blocking THEN "wait" ELSE "done")
  /\ UNCHANGED <<helper, exchange, stop, toBeStopped, receiver, receiverThread,
                 closer, stopped>>

\* context.responded.wait(timeout)
UserWake(r) ==
  /\ user[r] = "wait"
  /\ r \in responded \cup Timed
  /\ UserGoto(r, "delete")
  /\ UNCHANGED <<helper, exchange, stop, toBeStopped, receiver, receiverThread,
                 retransmitter, closer, stopped>>

\* `del self.requests[request.token]', without the lock: somebody may have found
\* the context and not have written to it yet ...
UserDelete(r) ==
  /\ user[r] = "delete"
  /\ contexts' = contexts \ {r}
  /\ UserGoto(r, "return")
  /\ UNCHANGED <<result, responded, returned, exchange, stop, toBeStopped, receiver,
                 receiverThread, retransmitter, closer, stopped>>

\* ... then `return context.response', whatever it is by now.
UserReturn(r) ==
  /\ user[r] = "return"
  /\ returned' = [returned EXCEPT ![r] = result[r]]
  /\ UserGoto(r, "done")
  /\ UNCHANGED <<contexts, result, responded, exchange, stop, toBeStopped, receiver,
                 receiverThread, retransmitter, closer, stopped>>

-----------------------------------------------------------------------------
(* receive_datagram().                                                     *)

ReceiverGoto(v, pc) == receiver' = [receiver EXCEPT ![v].pc = pc]
NextDatagram(v) == receiver' = [receiver EXCEPT ![v] = AtLoop]

\* socket.timeout
ReceiverTimeout(v) ==
  /\ receiver[v].pc = "recvfrom"
  /\ NextDatagram(v)
  /\ UNCHANGED <<helper, exchange, stop, toBeStopped, user, receiverThread,
                 retransmitter, closer, stopped>>

Sent(t) == asked[t].mid > 0

\* The transaction u that a message about t is matched with: by the mid, the
\* last one made with it, or by the token, the last one of the request.
ByMid(u, t) ==
  LET SameMid(w) == RequestOf(w) = RequestOf(t) /\ asked[w].mid = asked[t].mid
  IN  SameMid(u) /\ \A w \in Transactions : SameMid(w) => w[2] <= u[2]
ByToken(u, t) == u = Latest(RequestOf(t))

\* receive_response, up to the test of retransmit_stop.
ReceiveResponse(v, t, u) ==
  LET r == RequestOf(t) IN
  /\ receiver[v].pc = "recvfrom" /\ Sent(t)
  /\ \/ ByToken(u, t)
     \/ r \in Confirmable /\ ByMid(u, t)
  /\ asked[t].block < Blocks => sent[r] < MaxTransactions
  /\ flag' = [flag EXCEPT ![r] = "acknowledged"]
  /\ response' = [response EXCEPT ![u] = asked[t].block]
  /\ receiver' = [receiver EXCEPT ![v] = [pc |-> "if_event", on |-> u, empty |-> FALSE]]
  /\ UNCHANGED <<helper, asked, sent, item, stop, toBeStopped, user, receiverThread,
                 retransmitter, closer, stopped>>

\* receive_empty, up to the same test.  A RST for an acknowledged request that
\* has no response yet raises AttributeError, which ends the receiver.
ReceiveEmpty(v, t, u, type) ==
  LET r == RequestOf(t) IN
  /\ receiver[v].pc = "recvfrom" /\ Sent(t) /\ ByMid(u, t)
  /\ type = "RST" \/ r \in Confirmable
  /\ IF type = "RST" /\ flag[r] = "acknowledged" /\ response[u] = 0
     THEN ReceiverGoto(v, "dead") /\ UNCHANGED flag
     ELSE /\ flag' = [flag EXCEPT ![r] = M!RequestFlagAfterEmpty(type, @)]
          /\ receiver' = [receiver EXCEPT ![v] = [pc |-> "if_event", on |-> u, empty |-> TRUE]]
  /\ UNCHANGED <<helper, asked, sent, item, response, stop, toBeStopped, user,
                 receiverThread, retransmitter, closer, stopped>>

AfterEvent(v) == IF receiver[v].empty THEN NextDatagram(v) ELSE ReceiverGoto(v, "wait")

ReceiverIfEvent(v) ==
  /\ receiver[v].pc = "if_event"
  /\ IF stop[receiver[v].on] = "none" THEN AfterEvent(v) ELSE ReceiverGoto(v, "set_event")
  /\ UNCHANGED <<helper, exchange, stop, toBeStopped, user, receiverThread,
                 retransmitter, closer, stopped>>

\* The attribute is read again: None raises AttributeError.
ReceiverSetEvent(v) ==
  LET t == receiver[v].on IN
  /\ receiver[v].pc = "set_event"
  /\ IF stop[t] = "none" THEN ReceiverGoto(v, "dead") /\ UNCHANGED stop
                         ELSE AfterEvent(v) /\ stop' = [stop EXCEPT ![t] = "set"]
  /\ UNCHANGED <<helper, exchange, toBeStopped, user, receiverThread,
                 retransmitter, closer, stopped>>

\* retransmit_thread is never reset; it is reset before the give-up is reported.
WrongRetransmitThreadIsNone(t) == retransmitter[t].pc = "idle"
WrongerRetransmitThreadIsNone(t) == retransmitter[t].pc \in {"idle", "give_up", "callback", "done"}

\* It is reset where the thread ends, not where it dies.
RetransmitThreadIsNone(t) == retransmitter[t].pc \in {"idle", "done"}

\* _wait_for_retransmit_thread, then the ACK of a CON response.
ReceiverWait(v) ==
  /\ receiver[v].pc = "wait"
  /\ RetransmitThreadIsNone(receiver[v].on)
  /\ ReceiverGoto(v, "block")
  /\ UNCHANGED <<helper, exchange, stop, toBeStopped, user, receiverThread,
                 retransmitter, closer, stopped>>

\* blockLayer.receive_response for an answer with Block2.
ReceiverBlock(v) ==
  LET t == receiver[v].on
      r == RequestOf(t) IN
  /\ receiver[v].pc = "block"
  /\ IF response[t] < Blocks
     THEN /\ ReceiverGoto(v, "next")
          /\ item' = [item EXCEPT ![r] = IF @ \in {0, response[t]} THEN response[t] + 1 ELSE @]
     ELSE /\ ReceiverGoto(v, "callback")
          /\ item' = [item EXCEPT ![r] = 0]
  /\ UNCHANGED <<helper, flag, asked, sent, response, stop, toBeStopped, user,
                 receiverThread, retransmitter, closer, stopped>>

\* _send_block_request: the next block with a new mid, or, when the block was
\* not the one expected, the same request again.
ReceiverNext(v) ==
  LET t == receiver[v].on
      r == RequestOf(t)
      last == asked[Latest(r)] IN
  /\ receiver[v].pc = "next"
  /\ IF item[r] = response[t] + 1
     THEN NewTransaction(r, last.mid + 1, item[r])
     ELSE NewTransaction(r, last.mid, last.block)
  /\ flag' = [flag EXCEPT ![r] = IF @ = "acknowledged" THEN "open" ELSE @]
  /\ IF r \in Confirmable
     THEN receiver' = [receiver EXCEPT ![v] = [@ EXCEPT !.pc = "prepare", !.on = <<r, sent[r] + 1>>]]
     ELSE NextDatagram(v)
  /\ UNCHANGED <<helper, item, response, stop, toBeStopped, user, receiverThread,
                 retransmitter, closer, stopped>>

ReceiverPrepare(v) ==
  /\ receiver[v].pc = "prepare"
  /\ Prepare(receiver[v].on)
  /\ ReceiverGoto(v, "start")
  /\ UNCHANGED <<helper, exchange, user, receiverThread, retransmitter, closer, stopped>>

ReceiverStart(v) ==
  /\ receiver[v].pc = "start"
  /\ StartRetransmission(receiver[v].on)
  /\ NextDatagram(v)
  /\ UNCHANGED <<helper, exchange, stop, toBeStopped, user, receiverThread, closer, stopped>>

\* _wait_response: `token not in self.requests' ...
ReceiverCallback(v) ==
  /\ receiver[v].pc = "callback"
  /\ LockFree
  /\ IF RequestOf(receiver[v].on) \in contexts
     THEN ReceiverGoto(v, "deliver") ELSE NextDatagram(v)
  /\ UNCHANGED <<helper, exchange, stop, toBeStopped, user, receiverThread,
                 retransmitter, closer, stopped>>

\* ... then `self.requests[token]', which may raise KeyError by now ...
ReceiverDeliver(v) ==
  /\ receiver[v].pc = "deliver"
  /\ ReceiverGoto(v, IF RequestOf(receiver[v].on) \in contexts THEN "respond" ELSE "dead")
  /\ UNCHANGED <<helper, exchange, stop, toBeStopped, user, receiverThread,
                 retransmitter, closer, stopped>>

\* ... then the writes to the context.
ReceiverRespond(v) ==
  /\ receiver[v].pc = "respond"
  /\ Deliver(RequestOf(receiver[v].on), "response")
  /\ NextDatagram(v)
  /\ UNCHANGED <<exchange, stop, toBeStopped, user, receiverThread, retransmitter,
                 closer, stopped>>

-----------------------------------------------------------------------------
(* _retransmit() for the Request object, started for one transaction.      *)

RetransmitterGoto(t, pc) == retransmitter' = [retransmitter EXCEPT ![t].pc = pc]
RetransmitterOnly == UNCHANGED <<helper, exchange, stop, toBeStopped, user, receiver,
                                 receiverThread, closer, stopped>>
Answered(t) == flag[RequestOf(t)] \in {"acknowledged", "rejected"}

\* One round too many, and one too few.
WrongMayRetransmit(t) ==
  retransmitter[t].count <= MAX_RETRANSMIT + 1 /\ ~Answered(t) /\ stop[t] # "set"
WrongerMayRetransmit(t) ==
  retransmitter[t].count < MAX_RETRANSMIT /\ ~Answered(t) /\ stop[t] # "set"

MayRetransmit(t) == retransmitter[t].count <= MAX_RETRANSMIT /\ ~Answered(t) /\ stop[t] # "set"
MustCount(t) == ~Answered(t) /\ stop[t] # "set"

RetransmitterWhile(t) ==
  /\ retransmitter[t].pc = "while"
  /\ RetransmitterGoto(t, IF MayRetransmit(t) THEN "wait" ELSE "if_answered")
  /\ RetransmitterOnly

\* wait() returns, on time or because the Event is set; the last two rounds
\* count without sending.
RetransmitterWake(t) ==
  LET count == retransmitter[t].count + 1 IN
  /\ retransmitter[t].pc = "wait"
  /\ retransmitter' = [retransmitter EXCEPT ![t] =
       IF MustCount(t)
       THEN [pc |-> IF count < MAX_RETRANSMIT THEN "resend" ELSE "while", count |-> count]
       ELSE [@ EXCEPT !.pc = "while"]]
  /\ RetransmitterOnly

\* send_datagram, which starts a receiver again if the last one has died.
RetransmitterSend(t) ==
  /\ retransmitter[t].pc = "resend"
  /\ RetransmitterGoto(t, "while")
  /\ IF ReceiverNeeded THEN StartReceiver ELSE UNCHANGED <<receiver, receiverThread>>
  /\ UNCHANGED <<helper, exchange, stop, toBeStopped, user, closer, stopped>>

RetransmitterIfAnswered(t) ==
  /\ retransmitter[t].pc = "if_answered"
  /\ RetransmitterGoto(t, IF Answered(t) THEN "cleanup" ELSE "give_up")
  /\ RetransmitterOnly

\* timeouted = True, whatever has arrived since the test.
RetransmitterGiveUp(t) ==
  /\ retransmitter[t].pc = "give_up"
  /\ flag' = [flag EXCEPT ![RequestOf(t)] = "timeouted"]
  /\ RetransmitterGoto(t, "callback")
  /\ UNCHANGED <<helper, asked, sent, item, response, stop, toBeStopped, user, receiver,
                 receiverThread, closer, stopped>>

\* The user is not informed.
WrongRetransmitterCallback(t) ==
  /\ retransmitter[t].pc = "callback"
  /\ RetransmitterGoto(t, "cleanup")
  /\ RetransmitterOnly

\* _wait_response(request)
RetransmitterCallback(t) ==
  /\ retransmitter[t].pc = "callback"
  /\ LockFree
  /\ RetransmitterGoto(t, IF RequestOf(t) \in contexts THEN "deliver" ELSE "cleanup")
  /\ RetransmitterOnly

RetransmitterDeliver(t) ==
  /\ retransmitter[t].pc = "deliver"
  /\ RetransmitterGoto(t, IF RequestOf(t) \in contexts THEN "if_timeouted" ELSE "dead")
  /\ RetransmitterOnly

\* The request stands for None while it is timeouted.
RetransmitterIfTimeouted(t) ==
  /\ retransmitter[t].pc = "if_timeouted"
  /\ RetransmitterGoto(t, IF flag[RequestOf(t)] = "timeouted"
                          THEN "respond_none" ELSE "respond_request")
  /\ RetransmitterOnly

RetransmitterRespond(t) ==
  /\ \/ retransmitter[t].pc = "respond_none" /\ Deliver(RequestOf(t), "none")
     \/ retransmitter[t].pc = "respond_request" /\ Deliver(RequestOf(t), "request")
  /\ RetransmitterGoto(t, "cleanup")
  /\ UNCHANGED <<exchange, stop, toBeStopped, user, receiver, receiverThread, closer, stopped>>

\* The Event is left in to_be_stopped.
WrongForgetEvent(t) == UNCHANGED toBeStopped
ForgetEvent(t) ==
  \/ \E i \in 1..Len(toBeStopped) :
       /\ toBeStopped[i] = t
       /\ \A j \in 1..(i - 1) : toBeStopped[j] # t
       /\ toBeStopped' = RemoveAt(toBeStopped, i)
  \/ /\ \A i \in 1..Len(toBeStopped) : toBeStopped[i] # t
     /\ UNCHANGED toBeStopped

RetransmitterCleanup(t) ==
  /\ retransmitter[t].pc = "cleanup"
  /\ ForgetEvent(t)
  /\ stop' = [stop EXCEPT ![t] = "none"]
  /\ RetransmitterGoto(t, "done")
  /\ UNCHANGED <<helper, exchange, user, receiver, receiverThread, closer, stopped>>

-----------------------------------------------------------------------------
(* stop() and close().                                                     *)

CloserOnly == UNCHANGED <<exchange, toBeStopped, user, receiver, receiverThread, retransmitter>>

CloserBegin ==
  /\ closer.pc = "idle"
  /\ closer' = [closer EXCEPT !.pc = "events"]
  /\ stopped' = TRUE
  /\ CloserOnly /\ UNCHANGED <<helper, stop>>

\* `for event in self.to_be_stopped', a list that other threads change.
CloserEvents ==
  /\ closer.pc = "events"
  /\ IF closer.next > Len(toBeStopped)
     THEN closer' = [closer EXCEPT !.pc = "join"] /\ UNCHANGED stop
     ELSE /\ closer' = [closer EXCEPT !.next = @ + 1]
          /\ stop' = [stop EXCEPT ![toBeStopped[closer.next]] =
                        IF @ = "none" THEN @ ELSE "set"]
  /\ CloserOnly /\ UNCHANGED <<helper, stopped>>

CloserJoin ==
  /\ closer.pc = "join"
  /\ receiverThread # None => ~Alive(receiverThread)
  /\ closer' = [closer EXCEPT !.pc = "lock"]
  /\ CloserOnly /\ UNCHANGED <<helper, stop, stopped>>

CloserLock ==
  /\ closer.pc = "lock"
  /\ LockFree
  /\ closer' = [closer EXCEPT !.pc = "signal", !.left = contexts, !.all = contexts]
  /\ CloserOnly /\ UNCHANGED <<helper, stop, stopped>>

\* Callbacks only.
WrongSignal(r) == UNCHANGED responded
Signal(r) == responded' = responded \cup ({r} \cap Blocking)

\* `for token in self.requests' raises RuntimeError once the size has changed.
CloserSignal ==
  /\ closer.pc = "signal"
  /\ \/ /\ contexts # closer.all
        /\ closer' = [closer EXCEPT !.pc = "raised"]
        /\ UNCHANGED helper
     \/ /\ contexts = closer.all /\ closer.left = {}
        /\ closer' = [closer EXCEPT !.pc = "done"]
        /\ UNCHANGED helper
     \/ \E r \in closer.left :
          /\ contexts = closer.all
          /\ closer' = [closer EXCEPT !.left = @ \ {r}]
          /\ Signal(r)
          /\ UNCHANGED <<contexts, result, returned>>
  /\ CloserOnly /\ UNCHANGED <<stop, stopped>>

-----------------------------------------------------------------------------
UserStep(r) ==
  \/ UserSend(r) \/ UserStartReceiver(r) \/ UserPrepare(r) \/ UserStart(r)
  \/ UserWake(r) \/ UserDelete(r) \/ UserReturn(r)

ReceiverStep(v) ==
  \/ ReceiverTimeout(v) \/ ReceiverIfEvent(v) \/ ReceiverSetEvent(v) \/ ReceiverWait(v)
  \/ ReceiverBlock(v) \/ ReceiverNext(v) \/ ReceiverPrepare(v) \/ ReceiverStart(v)
  \/ ReceiverCallback(v) \/ ReceiverDeliver(v) \/ ReceiverRespond(v)

RetransmitterStep(t) ==
  \/ RetransmitterWhile(t) \/ RetransmitterWake(t) \/ RetransmitterSend(t)
  \/ RetransmitterIfAnswered(t) \/ RetransmitterGiveUp(t) \/ RetransmitterCallback(t)
  \/ RetransmitterDeliver(t) \/ RetransmitterIfTimeouted(t) \/ RetransmitterRespond(t)
  \/ RetransmitterCleanup(t)

CloserStep == CloserEvents \/ CloserJoin \/ CloserLock \/ CloserSignal

System == \/ \E r \in Requests : UserStep(r)
          \/ \E v \in Receivers : ReceiverStep(v)
          \/ \E t \in Transactions : RetransmitterStep(t)
          \/ CloserStep

Environment ==
  \/ \E r \in Requests : UserRegister(r)
  \/ CloserBegin
  \/ \E v \in Receivers, t, u \in Transactions :
       \/ ReceiveResponse(v, t, u)
       \/ \E type \in {"ACK", "RST"} : ReceiveEmpty(v, t, u, type)

Next == System \/ Environment

Spec == Init /\ [][Next]_vars

\* Every thread is scheduled and every wait with a timeout returns.
Fairness ==
  /\ \A r \in Requests : WF_vars(UserStep(r))
  /\ \A v \in Receivers : WF_vars(ReceiverStep(v))
  /\ \A t \in Transactions : WF_vars(RetransmitterStep(t))
  /\ WF_vars(CloserStep)

FairSpec == Spec /\ Fairness

-----------------------------------------------------------------------------
(* Properties.                                                             *)

\* The values of the variables.
TypeOK ==
  /\ contexts \subseteq Requests /\ responded \subseteq Requests
  /\ result \in [Requests -> {"none", "response", "request"}]
  /\ returned \in [Requests -> {"none", "response", "request"}]
  /\ flag \in [Requests -> M!Flags]
  /\ asked \in [Transactions -> [mid : 0..MaxTransactions, block : 0..Blocks]]
  /\ sent \in [Requests -> 0..MaxTransactions]
  /\ item \in [Requests -> 0..Blocks]
  /\ response \in [Transactions -> 0..Blocks]
  /\ stop \in [Transactions -> {"none", "clear", "set"}]
  /\ toBeStopped \in Seq(Transactions)
  /\ user \in [Requests -> UserPcs]
  /\ receiver \in [Receivers -> [pc : ReceiverPcs, on : Transactions \cup {None}, empty : BOOLEAN]]
  /\ receiverThread \in Receivers \cup {None}
  /\ retransmitter \in [Transactions -> [pc : RetransmitterPcs, count : 0..MAX_RETRANSMIT + 1]]
  /\ closer \in [pc : CloserPcs, next : Nat, left : SUBSET Requests, all : SUBSET Requests]
  /\ stopped \in BOOLEAN

Running(t) == retransmitter[t].pc \notin {"idle", "done", "dead"}
Kept(t) == \E i \in 1..Len(toBeStopped) : toBeStopped[i] = t

\* A blocking call without timeout, on a client that is not being stopped,
\* returns None only after its retransmission has gone through every round:
\* no premature wake-up, and no answer that counts as silence
\* (client/coap.py 218-236, helperclient.py 48-63, 273-275).
NoneMeansGivenUp ==
  \A r \in Blocking \ Timed :
    user[r] = "done" /\ returned[r] = "none" /\ ~stopped =>
      \E t \in Transactions : RequestOf(t) = r /\ retransmitter[t].count > MAX_RETRANSMIT

\* to_be_stopped holds the Event of every retransmission that runs, so that
\* close() can end it, and of none that has ended (client/coap.py 201, 238-241).
EventsOfRunningRetransmissions ==
  \A t \in Transactions :
    /\ Running(t) => Kept(t) /\ stop[t] # "none"
    /\ retransmitter[t].pc = "done" => ~Kept(t) /\ stop[t] = "none"

\* An answer in one block that a context has been given is not replaced by the
\* give-up of its request, however late: the receiver delivers it only when the
\* retransmission thread is through, and has marked the request before
\* (client/coap.py 140-150, 229-236; helperclient.py 48-63).
AnswerIsNotReplaced ==
  [][\A r \in Requests : result[r] = "response" => result'[r] = "response"]_vars

\* stop() ends the call of a single user (helperclient.py 65-77).
StopWakesWaiters ==
  \A r \in Blocking : stopped /\ user[r] = "wait" ~> user[r] = "done"

\* The receiver's wait for a retransmission thread ends, when no call has a
\* timeout and no answer has blocks (client/coap.py 140-150).
ReceiverWaitEnds == \A v \in Receivers : receiver[v].pc = "wait" ~> receiver[v].pc # "wait"

\* A blocking confirmable call returns, unless the server acknowledges or
\* rejects it and never answers, or a receiver dies (client/coap.py 207-236,
\* 281-302).
CallReturns ==
  \A r \in Blocking \cap Confirmable :
    user[r] = "wait" ~>
      \/ user[r] = "done"
      \/ /\ flag[r] \in {"acknowledged", "rejected"}
         /\ \A t \in Transactions : RequestOf(t) = r => response[t] = 0
      \/ \E v \in Receivers : receiver[v].pc = "dead"
=============================================================================
