-------------------------- MODULE ServerExchange --------------------------
(***************************************************************************)
(* The threads of coapthon/server/coap.py around one request/response      *)
(* exchange: the listener, one worker per started receive_request, the     *)
(* separate-ACK timer and the retransmission thread that each worker may   *)
(* start, the purge thread and the caller of close().                      *)
(*                                                                         *)
(* An exchange is one request message of one client, that is, one key      *)
(* (host, port, mid) of the MessageLayer.  The clients and the network are *)
(* the environment: copies of a request may arrive at any time until its   *)
(* entry is purged, and an ACK or RST for a response at any time once the  *)
(* response has been sent.  So loss is an arrival that never happens, and  *)
(* duplication, delay and reordering are arrivals in any order.            *)
(*                                                                         *)
(* A definition named Wrong... is a slip the code might have made in the    *)
(* definition that follows it: the properties must notice it.              *)
(*                                                                         *)
(* A step of the model is what a thread does between two accesses to state *)
(* that another thread may change meanwhile; the lock of a transaction is  *)
(* held by the threads whose control is inside one of its `with' blocks.   *)
(***************************************************************************)
EXTENDS Naturals, FiniteSets

CONSTANTS Exchanges,       \* the requests that clients send
          Confirmable,     \* those of type CON, the others are NON
          MAX_RETRANSMIT,  \* defines.MAX_RETRANSMIT
          None             \* Python's None

Attempts == 1..2

\* A run is one thread started on receive_request for an exchange, together
\* with the objects it creates: Response, Timer, Event, retransmission thread.
\* An exchange never needs a third run: see RunAvailable.
Runs == Exchanges \X Attempts

ASSUME ConfirmableAssumption == Confirmable \subseteq Exchanges
ASSUME RetransmitAssumption == MAX_RETRANSMIT \in Nat \ {0}
ASSUME NoneAssumption == None \notin Exchanges /\ None \notin Runs

M == INSTANCE MessageLayer

VARIABLES
  table,          \* [Exchanges]: is the request's key in the MessageLayer?
  midTable,       \* the runs whose response's mid is a key there
  request,        \* [Exchanges]: flag of transaction.request
  duplicated,     \* [Exchanges]: transaction.request.duplicated
  completed,      \* [Exchanges]: transaction.completed
  blockTransfer,  \* [Exchanges]: transaction.block_transfer
  response,       \* [Exchanges]: the run that made transaction.response
  retransmitStop, \* [Exchanges]: the run that made transaction.retransmit_stop
  reply,          \* [Runs]: the Response object
  eventSet,       \* the runs whose Event is set
  toBeStopped,    \* server.to_be_stopped, as the runs that made the Events
  listener,       \* control of the thread in listen()
  worker,         \* [Runs]: control of receive_request
  timer,          \* [Runs]: control of the separate timer
  retransmitter,  \* [Runs]: control and counter of _retransmit
  stopped,        \* server.stopped
  emptyAcks,      \* the exchanges whose client was sent an empty ACK
  replies         \* the runs whose Response was sent, whole, to the client

objects == <<table, midTable, request, duplicated, completed, blockTransfer,
             response, retransmitStop, reply>>
threads == <<listener, worker, timer, retransmitter>>
vars == <<objects, eventSet, toBeStopped, threads, stopped, emptyAcks, replies>>

Of(w) == w[1]
RunsOf(e) == {w \in Runs : Of(w) = e}
RequestType(e) == IF e \in Confirmable THEN "CON" ELSE "NON"

ListenerPcs == {"loop", "recvfrom", "if_completed", "if_pending", "resend",
                "if_due", "ack_mark", "ack_complete", "ack_send", "spawn",
                "if_event", "set_event", "with", "closed", "dead"}
WorkerPcs == {"idle", "with", "layers", "render", "ack_mark", "ack_complete",
              "ack_send", "stop_timer", "if_acknowledged", "ACK", "NON", "CON",
              "set_mid", "complete", "register", "mark", "retransmission", "send",
              "done", "failed"}
TimerPcs == {"idle", "armed", "ack_mark", "ack_complete", "ack_send", "done"}
RetransmitterPcs == {"idle", "with", "while", "wait", "resend", "if_answered",
                     "give_up", "cleanup", "done"}

\* The branches of send_response are named for the type they give.
Branches == {"ACK", "NON", "CON"}

\* An exception that leaves the lock taken.
WrongWorkerHolding == WorkerPcs \ {"idle", "with", "done"}

\* The threads inside a `with transaction' block.
WorkerHolding == WorkerPcs \ {"idle", "with", "done", "failed"}
RetransmitterHolding == RetransmitterPcs \ {"idle", "with", "done"}

\* receive_request without its `with transaction'.
WrongLockFree(e) ==
  \A w \in RunsOf(e) : retransmitter[w].pc \notin RetransmitterHolding

LockFree(e) ==
  \A w \in RunsOf(e) : /\ worker[w] \notin WorkerHolding
                       /\ retransmitter[w].pc \notin RetransmitterHolding

\* A Response object: its type, whether its mid is set, its flag.
NoReply == [type |-> "none", numbered |-> FALSE, flag |-> "open"]
Replies == [type : {"none", "ACK", "NON", "CON"}, numbered : BOOLEAN, flag : M!Flags]

Init ==
  /\ table = [e \in Exchanges |-> "unknown"]
  /\ midTable = {}
  /\ request = [e \in Exchanges |-> "open"]
  /\ duplicated = [e \in Exchanges |-> FALSE]
  /\ completed = [e \in Exchanges |-> FALSE]
  /\ blockTransfer = [e \in Exchanges |-> FALSE]
  /\ response = [e \in Exchanges |-> None]
  /\ retransmitStop = [e \in Exchanges |-> None]
  /\ reply = [w \in Runs |-> NoReply]
  /\ eventSet = {}
  /\ toBeStopped = {}
  /\ listener = [pc |-> "loop", on |-> None, empty |-> "none"]
  /\ worker = [w \in Runs |-> "idle"]
  /\ timer = [w \in Runs |-> "idle"]
  /\ retransmitter = [w \in Runs |-> [pc |-> "idle", count |-> 0]]
  /\ stopped = FALSE
  /\ emptyAcks = {}
  /\ replies = {}

-----------------------------------------------------------------------------
(* Parts of steps that several threads share.                              *)

\* send_datagram does nothing once the server is stopped.
SendReply(w) == replies' = IF stopped THEN replies ELSE replies \cup {w}
SendEmptyAck(e) == emptyAcks' = IF stopped THEN emptyAcks ELSE emptyAcks \cup {e}

\* The test of _send_ack, without a lock.
AckIsDue(e) == request[e] # "acknowledged" /\ e \in Confirmable

\* send_empty(transaction, transaction.request, ack): the request is marked, and
\* then the transaction is completed, both without its lock.
MarkAcknowledged(e) ==
  /\ request' = [request EXCEPT ![e] = "acknowledged"]
  /\ UNCHANGED <<table, midTable, duplicated, completed, blockTransfer, response,
                 retransmitStop, reply>>

Complete(e) ==
  /\ completed' = [completed EXCEPT ![e] = TRUE]
  /\ UNCHANGED <<table, midTable, request, duplicated, blockTransfer, response,
                 retransmitStop, reply>>

-----------------------------------------------------------------------------
(* listen().                                                               *)

Goto(pc) == listener' = [listener EXCEPT !.pc = pc]
NextMessage == listener' = [pc |-> "loop", on |-> None, empty |-> "none"]
ListenerOnly == UNCHANGED <<objects, eventSet, toBeStopped, worker, timer,
                            retransmitter, stopped, emptyAcks, replies>>

\* The loop's condition; the socket is closed behind the loop.
ListenerLoop ==
  /\ listener.pc = "loop"
  /\ Goto(IF stopped THEN "closed" ELSE "recvfrom")
  /\ ListenerOnly

\* socket.timeout.
ListenerTimeout ==
  /\ listener.pc = "recvfrom"
  /\ NextMessage
  /\ ListenerOnly

\* The new transaction is not put into the table.
WrongStore(e) == table' = [table EXCEPT ![e] = @]
Store(e) == table' = [table EXCEPT ![e] = "stored"]

\* A copy of a request arrives: receive_request of the MessageLayer, whose
\* new transaction makes both tests of `duplicated' fail.  No copy arrives
\* after the purge: it would be older than EXCHANGE_LIFETIME.
ListenerReceiveRequest(e) ==
  /\ listener.pc = "recvfrom"
  /\ \/ /\ table[e] = "unknown"
        /\ Store(e)
        /\ listener' = [listener EXCEPT !.pc = "spawn", !.on = e]
        /\ UNCHANGED duplicated
     \/ /\ table[e] = "stored"
        /\ duplicated' = [duplicated EXCEPT ![e] = TRUE]
        /\ listener' = [listener EXCEPT !.pc = "if_completed", !.on = e]
        /\ UNCHANGED table
  /\ UNCHANGED <<midTable, request, completed, blockTransfer, response,
                 retransmitStop, reply, eventSet, toBeStopped, worker, timer,
                 retransmitter, stopped, emptyAcks, replies>>

\* `duplicated and completed'.
ListenerIfCompleted ==
  /\ listener.pc = "if_completed"
  /\ Goto(IF completed[listener.on] THEN "resend" ELSE "if_pending")
  /\ ListenerOnly

\* `duplicated and not completed', which reads completed again.  With both tests
\* failed the duplicate is taken for new.
ListenerIfPending ==
  /\ listener.pc = "if_pending"
  /\ Goto(IF completed[listener.on] THEN "spawn" ELSE "if_due")
  /\ ListenerOnly

ListenerIfDue ==
  /\ listener.pc = "if_due"
  /\ IF AckIsDue(listener.on) THEN Goto("ack_mark") ELSE NextMessage
  /\ ListenerOnly

\* The `continue' of the first test forgotten.
WrongAfterResend == Goto("spawn")
AfterResend == NextMessage

\* The answer is sent again.  Serializing one whose type is still None raises
\* TypeError, which listen() does not catch; one whose mid is still None
\* becomes a datagram of zeros that tells the client nothing.
ListenerResend ==
  LET r == response[listener.on] IN
  /\ listener.pc = "resend"
  /\ IF ~stopped /\ r # None /\ reply[r].type = "none"
     THEN Goto("dead") /\ UNCHANGED replies
     ELSE /\ AfterResend
          /\ IF r # None /\ reply[r].numbered THEN SendReply(r) ELSE UNCHANGED replies
  /\ UNCHANGED <<objects, eventSet, toBeStopped, worker, timer,
                 retransmitter, stopped, emptyAcks>>

ListenerMarkAck ==
  /\ listener.pc = "ack_mark"
  /\ MarkAcknowledged(listener.on)
  /\ Goto("ack_complete")
  /\ UNCHANGED <<eventSet, toBeStopped, worker, timer, retransmitter,
                 stopped, emptyAcks, replies>>

ListenerComplete ==
  /\ listener.pc = "ack_complete"
  /\ Complete(listener.on)
  /\ Goto("ack_send")
  /\ UNCHANGED <<eventSet, toBeStopped, worker, timer, retransmitter,
                 stopped, emptyAcks, replies>>

ListenerSendAck ==
  /\ listener.pc = "ack_send"
  /\ SendEmptyAck(listener.on)
  /\ NextMessage
  /\ UNCHANGED <<objects, eventSet, toBeStopped, worker, timer,
                 retransmitter, stopped, replies>>

\* threading.Thread(target=self.receive_request).start()
ListenerSpawn(w) ==
  /\ listener.pc = "spawn"
  /\ Of(w) = listener.on
  /\ worker[w] = "idle"
  /\ \A v \in RunsOf(Of(w)) : worker[v] = "idle" => w[2] <= v[2]
  /\ worker' = [worker EXCEPT ![w] = "with"]
  /\ NextMessage
  /\ UNCHANGED <<objects, eventSet, toBeStopped, timer, retransmitter,
                 stopped, emptyAcks, replies>>

\* An ACK or RST for the response of run w arrives.  It is matched by the mid
\* and then concerns transaction.response, whichever run made that.
ListenerReceiveEmpty(w, type) ==
  LET e == Of(w)
      r == response[e] IN
  /\ listener.pc = "recvfrom"
  /\ w \in replies /\ reply[w].type \in {"CON", "NON"}
  /\ IF w \in midTable
     THEN /\ request' = [request EXCEPT ![e] = M!RequestFlagAfterEmpty(type, @)]
          /\ reply' = [reply EXCEPT ![r].flag =
                         M!ResponseFlagAfterEmpty(type, request[e], @)]
          /\ listener' = [pc |-> "if_event", on |-> e, empty |-> type]
     ELSE NextMessage /\ UNCHANGED <<request, reply>>
  /\ UNCHANGED <<table, midTable, duplicated, completed, blockTransfer, response,
                 retransmitStop, eventSet, toBeStopped, worker, timer,
                 retransmitter, stopped, emptyAcks, replies>>

\* `if transaction.retransmit_stop is not None'.
ListenerIfEvent ==
  /\ listener.pc = "if_event"
  /\ Goto(IF retransmitStop[listener.on] = None THEN "with" ELSE "set_event")
  /\ ListenerOnly

\* `transaction.retransmit_stop.set()' reads the attribute again: None raises
\* AttributeError, which ends the listener.
ListenerSetEvent ==
  /\ listener.pc = "set_event"
  /\ IF retransmitStop[listener.on] = None
     THEN Goto("dead") /\ UNCHANGED eventSet
     ELSE Goto("with") /\ eventSet' = eventSet \cup {retransmitStop[listener.on]}
  /\ UNCHANGED <<objects, toBeStopped, worker, timer, retransmitter,
                 stopped, emptyAcks, replies>>

\* `with transaction': blockLayer and observeLayer.receive_empty.
ListenerLocked ==
  /\ listener.pc = "with"
  /\ LockFree(listener.on)
  /\ completed' = [completed EXCEPT ![listener.on] = @ \/ listener.empty = "RST"]
  /\ NextMessage
  /\ UNCHANGED <<table, midTable, request, duplicated, blockTransfer, response,
                 retransmitStop, reply, eventSet, toBeStopped, worker, timer,
                 retransmitter, stopped, emptyAcks, replies>>

-----------------------------------------------------------------------------
(* receive_request(): one run of the worker.                               *)

WorkerGoto(w, pc) == worker' = [worker EXCEPT ![w] = pc]
WorkerOnly == UNCHANGED <<objects, eventSet, toBeStopped, listener, timer,
                          retransmitter, stopped, emptyAcks, replies>>

\* `with transaction', then _start_separate_timer.
WorkerBegin(w) ==
  /\ worker[w] = "with"
  /\ LockFree(Of(w))
  /\ WorkerGoto(w, "layers")
  /\ timer' = [timer EXCEPT ![w] = "armed"]
  /\ UNCHANGED <<objects, eventSet, toBeStopped, listener, retransmitter,
                 stopped, emptyAcks, replies>>

\* blockLayer.receive_request answers all blocks of a Block1 transfer but the
\* last; a run over a stored block finds it out of sequence, so it answers too.
WorkerBlock(w) ==
  /\ worker[w] = "layers"
  /\ blockTransfer' = [blockTransfer EXCEPT ![Of(w)] = TRUE]
  /\ response' = [response EXCEPT ![Of(w)] = w]
  /\ WorkerGoto(w, "stop_timer")
  /\ UNCHANGED <<table, midTable, request, duplicated, completed, retransmitStop,
                 reply, eventSet, toBeStopped, listener, timer, retransmitter,
                 stopped, emptyAcks, replies>>

\* requestLayer.receive_request: a new Response, and the resource's method.
WorkerRender(w) ==
  /\ worker[w] = "layers"
  /\ ~blockTransfer[Of(w)]
  /\ response' = [response EXCEPT ![Of(w)] = w]
  /\ WorkerGoto(w, "render")
  /\ UNCHANGED <<table, midTable, request, duplicated, completed, blockTransfer,
                 retransmitStop, reply, eventSet, toBeStopped, listener, timer,
                 retransmitter, stopped, emptyAcks, replies>>

\* The method returns a resource: the answer has its code and payload.
WorkerReturn(w) ==
  /\ worker[w] = "render"
  /\ WorkerGoto(w, "stop_timer")
  /\ WorkerOnly

\* The method asks for a separate answer: _handle_separate, which also marks a
\* NON request.
WorkerSeparate(w) ==
  LET e == Of(w) IN
  /\ worker[w] = "render"
  /\ request[e] # "acknowledged"
  /\ IF e \in Confirmable
     THEN WorkerGoto(w, "ack_mark") /\ UNCHANGED request
     ELSE WorkerGoto(w, "stop_timer") /\ request' = [request EXCEPT ![e] = "acknowledged"]
  /\ UNCHANGED <<table, midTable, duplicated, completed, blockTransfer, response,
                 retransmitStop, reply, eventSet, toBeStopped, listener, timer,
                 retransmitter, stopped, emptyAcks, replies>>

WorkerMarkAck(w) ==
  /\ worker[w] = "ack_mark"
  /\ MarkAcknowledged(Of(w))
  /\ WorkerGoto(w, "ack_complete")
  /\ UNCHANGED <<eventSet, toBeStopped, listener, timer, retransmitter,
                 stopped, emptyAcks, replies>>

WorkerCompleteAck(w) ==
  /\ worker[w] = "ack_complete"
  /\ Complete(Of(w))
  /\ WorkerGoto(w, "ack_send")
  /\ UNCHANGED <<eventSet, toBeStopped, listener, timer, retransmitter,
                 stopped, emptyAcks, replies>>

WorkerSendAck(w) ==
  /\ worker[w] = "ack_send"
  /\ SendEmptyAck(Of(w))
  /\ WorkerGoto(w, "stop_timer")
  /\ UNCHANGED <<objects, eventSet, toBeStopped, listener, timer,
                 retransmitter, stopped, replies>>

\* An exception in a layer (an unknown method) or in the resource's method
\* releases the lock and ends the run; the timer goes on.
WorkerFail(w) ==
  /\ worker[w] \in {"layers", "render"}
  /\ WorkerGoto(w, "failed")
  /\ WorkerOnly

\* _stop_separate_timer: cancel() has no effect on a timer that has fired.
WorkerStopTimer(w) ==
  /\ worker[w] = "stop_timer"
  /\ timer' = [timer EXCEPT ![w] = IF @ = "armed" THEN "done" ELSE @]
  /\ WorkerGoto(w, "if_acknowledged")
  /\ UNCHANGED <<objects, eventSet, toBeStopped, listener, retransmitter,
                 stopped, emptyAcks, replies>>

\* messageLayer.send_response: the branch depends on whether the request has been
\* acknowledged by now.
WorkerChoose(w) ==
  /\ worker[w] = "if_acknowledged"
  /\ WorkerGoto(w, M!ResponseType(RequestType(Of(w)), request[Of(w)]))
  /\ WorkerOnly

WorkerSetType(w) ==
  /\ worker[w] \in Branches
  /\ reply' = [reply EXCEPT ![response[Of(w)]].type = worker[w]]
  /\ WorkerGoto(w, "set_mid")
  /\ UNCHANGED <<table, midTable, request, duplicated, completed, blockTransfer,
                 response, retransmitStop, eventSet, toBeStopped, listener, timer,
                 retransmitter, stopped, emptyAcks, replies>>

\* A piggybacked answer takes the request's mid and is acknowledged itself, which
\* no other thread looks at in between; another one gets a new mid.
WorkerSetMid(w) ==
  LET r == response[Of(w)]
      piggybacked == reply[r].type = "ACK" IN
  /\ worker[w] = "set_mid"
  /\ reply' = [reply EXCEPT ![r].numbered = TRUE,
                            ![r].flag = IF piggybacked THEN "acknowledged" ELSE @]
  /\ WorkerGoto(w, IF piggybacked THEN "complete" ELSE "register")
  /\ UNCHANGED <<table, midTable, request, duplicated, completed, blockTransfer,
                 response, retransmitStop, eventSet, toBeStopped, listener, timer,
                 retransmitter, stopped, emptyAcks, replies>>

\* A piggybacked answer completes the transaction, ...
WorkerComplete(w) ==
  /\ worker[w] = "complete"
  /\ Complete(Of(w))
  /\ WorkerGoto(w, "mark")
  /\ UNCHANGED <<eventSet, toBeStopped, listener, timer, retransmitter,
                 stopped, emptyAcks, replies>>

\* ... another one is registered under its mid, ...
WorkerRegister(w) ==
  /\ worker[w] = "register"
  /\ midTable' = midTable \cup {response[Of(w)]}
  /\ WorkerGoto(w, "mark")
  /\ UNCHANGED <<table, request, duplicated, completed, blockTransfer, response,
                 retransmitStop, reply, eventSet, toBeStopped, listener, timer,
                 retransmitter, stopped, emptyAcks, replies>>

\* ... and only then is the request marked.
WorkerMark(w) ==
  /\ worker[w] = "mark"
  /\ MarkAcknowledged(Of(w))
  /\ WorkerGoto(w, IF reply[response[Of(w)]].type = "CON" /\ ~blockTransfer[Of(w)]
                   THEN "retransmission" ELSE "send")
  /\ UNCHANGED <<eventSet, toBeStopped, listener, timer, retransmitter,
                 stopped, emptyAcks, replies>>

\* _start_retransmission.
WorkerStartRetransmission(w) ==
  /\ worker[w] = "retransmission"
  /\ retransmitStop' = [retransmitStop EXCEPT ![Of(w)] = w]
  /\ toBeStopped' = toBeStopped \cup {w}
  /\ retransmitter' = [retransmitter EXCEPT ![w].pc = "with"]
  /\ WorkerGoto(w, "send")
  /\ UNCHANGED <<table, midTable, request, duplicated, completed, blockTransfer,
                 response, reply, eventSet, listener, timer, stopped, emptyAcks,
                 replies>>

WorkerSend(w) ==
  /\ worker[w] = "send"
  /\ SendReply(response[Of(w)])
  /\ WorkerGoto(w, "done")
  /\ UNCHANGED <<objects, eventSet, toBeStopped, listener, timer,
                 retransmitter, stopped, emptyAcks>>

-----------------------------------------------------------------------------
(* The separate timer runs _send_ack after ACK_TIMEOUT.                    *)

TimerFire(w) ==
  /\ timer[w] = "armed"
  /\ timer' = [timer EXCEPT ![w] = IF AckIsDue(Of(w)) THEN "ack_mark" ELSE "done"]
  /\ UNCHANGED <<objects, eventSet, toBeStopped, listener, worker,
                 retransmitter, stopped, emptyAcks, replies>>

\* The ACK is made but not sent.
WrongTimerMarkAck(w) ==
  /\ timer[w] = "ack_mark"
  /\ MarkAcknowledged(Of(w))
  /\ timer' = [timer EXCEPT ![w] = "done"]
  /\ UNCHANGED <<eventSet, toBeStopped, listener, worker, retransmitter,
                 stopped, emptyAcks, replies>>

TimerMarkAck(w) ==
  /\ timer[w] = "ack_mark"
  /\ MarkAcknowledged(Of(w))
  /\ timer' = [timer EXCEPT ![w] = "ack_complete"]
  /\ UNCHANGED <<eventSet, toBeStopped, listener, worker, retransmitter,
                 stopped, emptyAcks, replies>>

TimerComplete(w) ==
  /\ timer[w] = "ack_complete"
  /\ Complete(Of(w))
  /\ timer' = [timer EXCEPT ![w] = "ack_send"]
  /\ UNCHANGED <<eventSet, toBeStopped, listener, worker, retransmitter,
                 stopped, emptyAcks, replies>>

TimerSendAck(w) ==
  /\ timer[w] = "ack_send"
  /\ SendEmptyAck(Of(w))
  /\ timer' = [timer EXCEPT ![w] = "done"]
  /\ UNCHANGED <<objects, eventSet, toBeStopped, listener, worker,
                 retransmitter, stopped, replies>>

-----------------------------------------------------------------------------
(* _retransmit() for the Response of run w.                                *)

RetransmitterGoto(w, pc) == retransmitter' = [retransmitter EXCEPT ![w].pc = pc]
RetransmitterOnly == UNCHANGED <<objects, eventSet, toBeStopped, listener,
                                 worker, timer, stopped, emptyAcks, replies>>
Answered(w) == reply[w].flag \in {"acknowledged", "rejected"}

\* One attempt too many, as the client's _retransmit counts, and one too few.
WrongMayRetransmit(w) ==
  retransmitter[w].count <= MAX_RETRANSMIT /\ ~Answered(w) /\ ~stopped

\* The loop's condition.
MayRetransmit(w) ==
  retransmitter[w].count < MAX_RETRANSMIT /\ ~Answered(w) /\ ~stopped

\* The flags not read again after wait().
WrongMustResend(w) == ~stopped
MustResend(w) == ~Answered(w) /\ ~stopped

\* retransmit_count not incremented.
WrongCountAfter(w) == retransmitter[w].count
CountAfter(w) == retransmitter[w].count + 1

\* to_be_stopped.remove: the Event removed is the one the transaction has now.
ForgetEvent(e) == toBeStopped' = toBeStopped \ {retransmitStop[e]}

RetransmitterBegin(w) ==
  /\ retransmitter[w].pc = "with"
  /\ LockFree(Of(w))
  /\ RetransmitterGoto(w, "while")
  /\ RetransmitterOnly

RetransmitterWhile(w) ==
  /\ retransmitter[w].pc = "while"
  /\ RetransmitterGoto(w, IF MayRetransmit(w) THEN "wait" ELSE "if_answered")
  /\ RetransmitterOnly

\* wait() returns, on time or because the event is set; the conditions are read
\* again.
RetransmitterWake(w) ==
  /\ retransmitter[w].pc = "wait"
  /\ retransmitter' = [retransmitter EXCEPT ![w] =
       IF MustResend(w) THEN [pc |-> "resend", count |-> CountAfter(w)]
                        ELSE [@ EXCEPT !.pc = "while"]]
  /\ RetransmitterOnly

RetransmitterSend(w) ==
  /\ retransmitter[w].pc = "resend"
  /\ SendReply(w)
  /\ RetransmitterGoto(w, "while")
  /\ UNCHANGED <<objects, eventSet, toBeStopped, listener, worker, timer,
                 stopped, emptyAcks>>

RetransmitterIfAnswered(w) ==
  /\ retransmitter[w].pc = "if_answered"
  /\ RetransmitterGoto(w, IF Answered(w) THEN "cleanup" ELSE "give_up")
  /\ RetransmitterOnly

\* timeouted = True: the setter resets acknowledged and rejected, even when an
\* ACK has arrived since the test.
RetransmitterGiveUp(w) ==
  /\ retransmitter[w].pc = "give_up"
  /\ reply' = [reply EXCEPT ![w].flag = "timeouted"]
  /\ RetransmitterGoto(w, "cleanup")
  /\ UNCHANGED <<table, midTable, request, duplicated, completed, blockTransfer,
                 response, retransmitStop, eventSet, toBeStopped, listener, worker,
                 timer, stopped, emptyAcks, replies>>

RetransmitterCleanup(w) ==
  /\ retransmitter[w].pc = "cleanup"
  /\ ForgetEvent(Of(w))
  /\ retransmitStop' = [retransmitStop EXCEPT ![Of(w)] = None]
  /\ RetransmitterGoto(w, "done")
  /\ UNCHANGED <<table, midTable, request, duplicated, completed, blockTransfer,
                 response, reply, eventSet, listener, worker, timer, stopped,
                 emptyAcks, replies>>

-----------------------------------------------------------------------------
(* The purge thread, which may find any entry too old: a handler may take  *)
(* longer than EXCHANGE_LIFETIME.  And close().                            *)

Purge(e) ==
  /\ table[e] = "stored" \/ midTable \cap RunsOf(e) # {}
  /\ table' = [table EXCEPT ![e] = "purged"]
  /\ midTable' = midTable \ RunsOf(e)
  /\ UNCHANGED <<request, duplicated, completed, blockTransfer, response,
                 retransmitStop, reply, eventSet, toBeStopped, threads, stopped,
                 emptyAcks, replies>>

Close ==
  /\ ~stopped
  /\ stopped' = TRUE
  /\ eventSet' = eventSet \cup toBeStopped
  /\ UNCHANGED <<objects, toBeStopped, threads, emptyAcks, replies>>

-----------------------------------------------------------------------------
ListenerStep ==
  \/ ListenerLoop \/ ListenerTimeout \/ ListenerIfCompleted \/ ListenerIfPending
  \/ ListenerIfDue \/ ListenerResend \/ ListenerMarkAck \/ ListenerComplete
  \/ ListenerSendAck
  \/ ListenerIfEvent \/ ListenerSetEvent \/ ListenerLocked
  \/ \E w \in Runs : ListenerSpawn(w)

WorkerStep(w) ==
  \/ WorkerBegin(w) \/ WorkerBlock(w) \/ WorkerRender(w) \/ WorkerReturn(w)
  \/ WorkerSeparate(w) \/ WorkerMarkAck(w) \/ WorkerCompleteAck(w)
  \/ WorkerSendAck(w) \/ WorkerFail(w) \/ WorkerStopTimer(w)
  \/ WorkerChoose(w) \/ WorkerSetType(w) \/ WorkerSetMid(w)
  \/ WorkerComplete(w) \/ WorkerRegister(w) \/ WorkerMark(w)
  \/ WorkerStartRetransmission(w) \/ WorkerSend(w)

TimerStep(w) == TimerFire(w) \/ TimerMarkAck(w) \/ TimerComplete(w)
                \/ TimerSendAck(w)

RetransmitterStep(w) ==
  \/ RetransmitterBegin(w) \/ RetransmitterWhile(w) \/ RetransmitterWake(w)
  \/ RetransmitterSend(w)
  \/ RetransmitterIfAnswered(w) \/ RetransmitterGiveUp(w) \/ RetransmitterCleanup(w)

System == \/ ListenerStep
          \/ \E w \in Runs : WorkerStep(w) \/ TimerStep(w) \/ RetransmitterStep(w)

Environment == \/ \E e \in Exchanges : ListenerReceiveRequest(e) \/ Purge(e)
               \/ \E w \in Runs, type \in {"ACK", "RST"} : ListenerReceiveEmpty(w, type)
               \/ Close

Next == System \/ Environment

Spec == Init /\ [][Next]_vars

\* Every thread is scheduled, timers expire and the resources' methods return;
\* nothing is assumed of clients, network, purge and close().
Fairness ==
  /\ WF_vars(ListenerStep)
  /\ \A w \in Runs : /\ WF_vars(WorkerStep(w))
                     /\ WF_vars(TimerStep(w))
                     /\ WF_vars(RetransmitterStep(w))

FairSpec == Spec /\ Fairness

-----------------------------------------------------------------------------
(* Properties.                                                             *)

\* The values of the variables.
TypeOK ==
  /\ table \in [Exchanges -> {"unknown", "stored", "purged"}]
  /\ midTable \subseteq Runs
  /\ request \in [Exchanges -> M!Flags]
  /\ duplicated \in [Exchanges -> BOOLEAN]
  /\ completed \in [Exchanges -> BOOLEAN]
  /\ blockTransfer \in [Exchanges -> BOOLEAN]
  /\ response \in [Exchanges -> Runs \cup {None}]
  /\ retransmitStop \in [Exchanges -> Runs \cup {None}]
  /\ reply \in [Runs -> Replies]
  /\ eventSet \subseteq Runs
  /\ toBeStopped \subseteq Runs
  /\ listener \in [pc : ListenerPcs, on : Exchanges \cup {None},
                   empty : {"none", "ACK", "RST"}]
  /\ worker \in [Runs -> WorkerPcs]
  /\ timer \in [Runs -> TimerPcs]
  /\ retransmitter \in [Runs -> [pc : RetransmitterPcs, count : 0..MAX_RETRANSMIT]]
  /\ stopped \in BOOLEAN
  /\ emptyAcks \subseteq Exchanges
  /\ replies \subseteq Runs

Started(w) == worker[w] # "idle"
OnlyRun(w) == \A v \in RunsOf(Of(w)) : Started(v) => v = w
Answering(w) == worker[w] \in WorkerHolding \ {"layers"}
Retransmitting(w) == retransmitter[w].pc \notin {"idle", "done"}

\* From the call of the resource's method to the end of receive_request,
\* transaction.response is the Response that this run made: the lock keeps
\* a second run, and nothing else replaces it (server/coap.py 211-245).
OwnResponse == \A w \in Runs : Answering(w) => response[Of(w)] = w

\* A request is run a second time only when it is confirmable, a copy of it
\* has arrived and its transaction has been completed meanwhile; so a NON
\* request, which may well change the resource, is run at most once
\* (server/coap.py 166-178).
RerunOnlyWhenCompleted ==
  \A w, v \in Runs :
    w # v /\ Of(w) = Of(v) /\ Started(w) /\ Started(v) =>
      /\ Of(w) \in Confirmable
      /\ duplicated[Of(w)] /\ completed[Of(w)]

\* No request is run a third time: when listen() starts a run, at most one
\* run of that request has been started (server/coap.py 166-178).
RunAvailable ==
  listener.pc = "spawn" => \E w \in RunsOf(listener.on) : ~Started(w)

\* The type of an answer, from when the branch is taken.
Chosen(w) == IF worker[w] \in Branches THEN worker[w] ELSE reply[w].type

\* A request is marked and its client is not yet told.
Telling == {"ack_complete", "ack_send"}

\* An answer to a confirmable request is made a confirmable message of its own
\* only if the client is told by an empty ACK to wait for it, or had the
\* answer of an earlier run as the ACK (messagelayer.py 234-244).
SeparateAnswerIsAnnounced ==
  \A w \in Runs :
    LET e == Of(w) IN
    Chosen(w) = "CON" =>
      \/ e \in emptyAcks \/ stopped
      \/ listener.pc \in Telling /\ listener.on = e
      \/ \E v \in RunsOf(e) : \/ worker[v] \in Telling \/ timer[v] \in Telling
                              \/ reply[v].type = "ACK"

\* The exchange as its client sees it.  A confirmable request is settled as soon as
\* one of the two flags says so: send_empty marks the request and then completes
\* the transaction, send_response does it in the other order, and the type of an
\* answer goes by the one and the second run by the other.
IsSettled(e) == e \in Confirmable /\ (request[e] = "acknowledged" \/ completed[e])

Promise == INSTANCE Exchange WITH
  runs <- {w \in Runs : Started(w)},
  settled <- {e \in Exchanges : IsSettled(e)},
  told <- emptyAcks,
  answer <- [w \in Runs |-> Chosen(w)],
  sent <- replies,
  closed <- stopped

\* What the three threads that mark a request, the two that answer it and the
\* listener that starts a second run do is one exchange: no run but after the
\* acknowledgement, no answer of its own before it (server/coap.py 166-245,
\* messagelayer.py 225-270).
ImplementsExchange == Promise!Spec

\* Once the listener has set the Event of the only run, the thread does not
\* decide again to send its message: the flag is set before the Event
\* (messagelayer.py 170-188).  What it decided on before may still go out.
NoRetransmissionAfterEvent ==
  [][\A w \in Runs :
       retransmitter'[w].count > retransmitter[w].count /\ OnlyRun(w)
         => w \notin eventSet]_vars

\* The listener comes back to recvfrom, is closed, or has died: the lock it
\* waits for on every ACK is held by a retransmission thread for as long as
\* that retransmits (server/coap.py 186, 342).
ListenerReturns == []<>(listener.pc \in {"recvfrom", "closed", "dead"})

\* A started run sends its answer, fails, or finds the server stopped.
RunEnds ==
  \A w \in Runs : worker[w] = "with" ~> w \in replies \/ worker[w] = "failed" \/ stopped
=============================================================================
