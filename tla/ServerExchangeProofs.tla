----------------------- MODULE ServerExchangeProofs -----------------------
(***************************************************************************)
(* Theorems about ServerExchange, for any set of requests and any          *)
(* MAX_RETRANSMIT.                                                         *)
(***************************************************************************)
EXTENDS ServerExchange, TLAPS

\* The listener has a transaction in hand outside of the receiving part.
ListenerHasExchange ==
  listener.pc \notin {"loop", "recvfrom", "closed", "dead"} => listener.on \in Exchanges

\* The lock of a transaction excludes: at most one thread is in a `with' block.
Exclusive ==
  \A w, v \in Runs : Of(w) = Of(v) =>
    /\ worker[w] \in WorkerHolding /\ worker[v] \in WorkerHolding => w = v
    /\ retransmitter[w].pc \in RetransmitterHolding
         /\ retransmitter[v].pc \in RetransmitterHolding => w = v
    /\ worker[w] \in WorkerHolding => retransmitter[v].pc \notin RetransmitterHolding

\* The loop's condition still holds of the counter behind it.
WaitCounts == \A w \in Runs : retransmitter[w].pc = "wait"
                                => retransmitter[w].count < MAX_RETRANSMIT

TypeInv == TypeOK /\ ListenerHasExchange /\ Exclusive /\ OwnResponse /\ WaitCounts

\* Every run is of an exchange.
LEMMA RunExchange == \A w \in Runs : Of(w) \in Exchanges
  BY DEF Runs, Of

\* A Response stays one when a flag of it, or its mid, is set.
LEMMA ReplyUpdate ==
  ASSUME NEW r, NEW f \in M!Flags, NEW n \in BOOLEAN, reply \in [Runs -> Replies]
  PROVE  /\ [reply EXCEPT ![r].flag = f] \in [Runs -> Replies]
         /\ [reply EXCEPT ![r].numbered = n, ![r].flag = f] \in [Runs -> Replies]
<1>1. CASE r \in Runs
  <2>1. /\ [reply[r] EXCEPT !.flag = f] \in Replies
        /\ [[reply[r] EXCEPT !.numbered = n] EXCEPT !.flag = f] \in Replies
    BY <1>1 DEF Replies
  <2> QED
    BY <1>1, <2>1
<1>2. CASE r \notin Runs
  BY <1>2
<1> QED
  BY <1>1, <1>2

\* The type invariant holds at first ...
LEMMA InitTypeInv == Init => TypeInv
<1> SUFFICES ASSUME Init PROVE TypeInv
  OBVIOUS
<1>1. NoReply \in Replies
  BY DEF NoReply, Replies, M!Flags
<1>2. [pc |-> "idle", count |-> 0] \in [pc : RetransmitterPcs, count : 0..MAX_RETRANSMIT]
  BY RetransmitAssumption DEF RetransmitterPcs
<1>3. listener \in [pc : ListenerPcs, on : Exchanges \cup {None}, empty : {"none", "ACK", "RST"}]
  BY DEF Init, ListenerPcs
<1>4. TypeOK
  BY <1>1, <1>2, <1>3 DEF Init, TypeOK, M!Flags, WorkerPcs, TimerPcs
<1>5. ListenerHasExchange /\ WaitCounts
  BY DEF Init, ListenerHasExchange, WaitCounts
<1>6. Exclusive /\ OwnResponse
  BY DEF Init, Exclusive, OwnResponse, Answering, WorkerHolding, RetransmitterHolding
<1> QED
  BY <1>4, <1>5, <1>6 DEF TypeInv

\* ... and every step of the listener,
LEMMA ListenerTypeStep ==
  ASSUME TypeInv, ListenerStep
  PROVE  TypeInv'
<1> USE DEF TypeInv, TypeOK, ListenerHasExchange, Exclusive, OwnResponse, WaitCounts, Answering
<1>1. CASE ListenerLoop
  BY <1>1 DEF ListenerLoop, Goto, ListenerOnly, objects, ListenerPcs
<1>2. CASE ListenerTimeout
  BY <1>2 DEF ListenerTimeout, NextMessage, ListenerOnly, objects, ListenerPcs
<1>3. CASE ListenerIfCompleted
  BY <1>3 DEF ListenerIfCompleted, Goto, ListenerOnly, objects, ListenerPcs
<1>4. CASE ListenerIfPending
  BY <1>4 DEF ListenerIfPending, Goto, NextMessage, ListenerOnly, objects, ListenerPcs
<1>5. CASE ListenerResend
  BY <1>5 DEF ListenerResend, Goto, AfterResend, NextMessage, SendReply, objects, ListenerPcs
<1>6. CASE ListenerMarkAck
  BY <1>6 DEF ListenerMarkAck, Goto, MarkAcknowledged, ListenerPcs, M!Flags
<1>7. CASE ListenerSendAck
  BY <1>7 DEF ListenerSendAck, NextMessage, SendEmptyAck, objects, ListenerPcs
<1>8. CASE ListenerIfEvent
  BY <1>8 DEF ListenerIfEvent, Goto, ListenerOnly, objects, ListenerPcs
<1>9. CASE ListenerSetEvent
  BY <1>9 DEF ListenerSetEvent, Goto, objects, ListenerPcs
<1>10. CASE ListenerLocked
  BY <1>10 DEF ListenerLocked, NextMessage, ListenerPcs
<1>11. ASSUME NEW w \in Runs, ListenerSpawn(w) PROVE TypeInv'
  BY <1>11 DEF ListenerSpawn, NextMessage, objects, ListenerPcs, WorkerPcs, WorkerHolding
<1>12. CASE ListenerIfDue
  BY <1>12 DEF ListenerIfDue, Goto, NextMessage, ListenerOnly, objects, ListenerPcs
<1>13. CASE ListenerComplete
  BY <1>13 DEF ListenerComplete, Goto, Complete, ListenerPcs
<1> QED
  BY <1>1, <1>2, <1>3, <1>4, <1>5, <1>6, <1>7, <1>8, <1>9, <1>10, <1>11, <1>12, <1>13 DEF ListenerStep

\* of a worker,
LEMMA WorkerTypeStep ==
  ASSUME TypeInv, NEW w \in Runs, WorkerStep(w)
  PROVE  TypeInv'
<1> USE RunExchange DEF TypeInv, TypeOK, ListenerHasExchange, Exclusive, OwnResponse,
        WaitCounts, Answering
<1>1. CASE WorkerBegin(w)
  BY <1>1 DEF WorkerBegin, WorkerGoto, LockFree, RunsOf, objects, WorkerPcs, WorkerHolding, TimerPcs
<1>2. CASE WorkerBlock(w)
  BY <1>2 DEF WorkerBlock, WorkerGoto, WorkerPcs, WorkerHolding
<1>3. CASE WorkerRender(w)
  BY <1>3 DEF WorkerRender, WorkerGoto, WorkerPcs, WorkerHolding
<1>4. CASE WorkerReturn(w)
  BY <1>4 DEF WorkerReturn, WorkerOnly, WorkerGoto, objects, WorkerPcs, WorkerHolding
<1>5. CASE WorkerSeparate(w)
  <2>1. CASE Of(w) \in Confirmable
    BY <1>5, <2>1, SMTT(30) DEF WorkerSeparate, WorkerGoto, WorkerPcs, WorkerHolding
  <2>2. CASE Of(w) \notin Confirmable
    <3>1. request' \in [Exchanges -> M!Flags]
      BY <1>5, <2>2 DEF WorkerSeparate, M!Flags
    <3>2. worker' = [worker EXCEPT ![w] = "stop_timer"] /\ worker[w] = "render"
      BY <1>5, <2>2 DEF WorkerSeparate, WorkerGoto
    <3>3. UNCHANGED <<table, midTable, duplicated, completed, blockTransfer, response,
                      retransmitStop, reply, eventSet, toBeStopped, listener, timer,
                      retransmitter, stopped, emptyAcks, replies>>
      BY <1>5 DEF WorkerSeparate
    <3> QED
      BY <3>1, <3>2, <3>3 DEF WorkerPcs, WorkerHolding
  <2> QED
    BY <2>1, <2>2
<1>6. CASE WorkerMarkAck(w)
  BY <1>6 DEF WorkerMarkAck, MarkAcknowledged, WorkerGoto, WorkerPcs, WorkerHolding, M!Flags
<1>7. CASE WorkerSendAck(w)
  BY <1>7 DEF WorkerSendAck, SendEmptyAck, WorkerGoto, objects, WorkerPcs, WorkerHolding
<1>8. CASE WorkerFail(w)
  BY <1>8 DEF WorkerFail, WorkerOnly, WorkerGoto, objects, WorkerPcs, WorkerHolding
<1>9. CASE WorkerStopTimer(w)
  BY <1>9 DEF WorkerStopTimer, WorkerGoto, objects, WorkerPcs, WorkerHolding, TimerPcs
<1>10. CASE WorkerSetType(w)
  <2>1. reply' \in [Runs -> Replies]
    <3> DEFINE v == response[Of(w)]
               t == worker[w]
    <3>1. reply' = [reply EXCEPT ![v].type = t]
      BY <1>10 DEF WorkerSetType
    <3>2. reply \in [Runs -> Replies]
      OBVIOUS
    <3>3. t \in {"ACK", "NON", "CON"}
      BY <1>10 DEF WorkerSetType, Branches
    <3> HIDE DEF v, t
    <3>4. \A u \in Runs : reply'[u] = reply[u] \/ reply'[u] = [reply[u] EXCEPT !.type = t]
      BY ONLY <3>1, <3>2
    <3>5. \A u \in Runs : reply'[u] \in Replies
      BY ONLY <3>2, <3>3, <3>4 DEF Replies
    <3> QED
      BY ONLY <3>1, <3>2, <3>5
  <2> QED
    BY <1>10, <2>1 DEF WorkerSetType, WorkerGoto, Branches, WorkerPcs, WorkerHolding
<1>11. CASE WorkerSetMid(w)
  <2>1. reply' \in [Runs -> Replies]
    <3> DEFINE f == IF reply[response[Of(w)]].type = "ACK" THEN "acknowledged"
                    ELSE reply[response[Of(w)]].flag
    <3>1. response[Of(w)] = w
      BY <1>11 DEF WorkerSetMid, WorkerHolding, WorkerPcs
    <3>2. f \in M!Flags
      BY <3>1 DEF M!Flags, Replies
    <3>3. reply' = [reply EXCEPT ![response[Of(w)]].numbered = TRUE,
                                 ![response[Of(w)]].flag = f]
      BY <1>11 DEF WorkerSetMid
    <3> QED
      BY <3>2, <3>3, ReplyUpdate
  <2>2. \E pc \in {"complete", "register"} : worker' = [worker EXCEPT ![w] = pc]
    BY <1>11 DEF WorkerSetMid, WorkerGoto
  <2> QED
    BY <1>11, <2>1, <2>2 DEF WorkerSetMid, WorkerPcs, WorkerHolding
<1>12. CASE WorkerStartRetransmission(w)
  BY <1>12 DEF WorkerStartRetransmission, WorkerGoto, WorkerPcs, WorkerHolding,
     RetransmitterPcs, RetransmitterHolding
<1>13. CASE WorkerSend(w)
  BY <1>13 DEF WorkerSend, SendReply, WorkerGoto, objects, WorkerPcs, WorkerHolding
<1>14. CASE WorkerCompleteAck(w)
  BY <1>14 DEF WorkerCompleteAck, Complete, WorkerGoto, WorkerPcs, WorkerHolding
<1>15. CASE WorkerChoose(w)
  <2>1. M!ResponseType(RequestType(Of(w)), request[Of(w)]) \in {"ACK", "NON", "CON"}
    BY DEF M!ResponseType, RequestType
  <2>2. PICK pc \in {"ACK", "NON", "CON"} : worker' = [worker EXCEPT ![w] = pc]
    BY <1>15, <2>1 DEF WorkerChoose, WorkerGoto
  <2> QED
    BY <1>15, <2>2 DEF WorkerChoose, WorkerOnly, objects, WorkerPcs, WorkerHolding
<1>16. CASE WorkerComplete(w)
  BY <1>16 DEF WorkerComplete, Complete, WorkerGoto, WorkerPcs, WorkerHolding
<1>17. CASE WorkerRegister(w)
  <2>1. response[Of(w)] = w
    BY <1>17 DEF WorkerRegister, WorkerHolding, WorkerPcs
  <2> QED
    BY <1>17, <2>1 DEF WorkerRegister, WorkerGoto, WorkerPcs, WorkerHolding
<1>18. CASE WorkerMark(w)
  <2>1. request' \in [Exchanges -> M!Flags]
    BY <1>18 DEF WorkerMark, MarkAcknowledged, M!Flags
  <2>2. PICK pc \in {"retransmission", "send"} : worker' = [worker EXCEPT ![w] = pc]
    BY <1>18 DEF WorkerMark, WorkerGoto
  <2> QED
    BY <1>18, <2>1, <2>2 DEF WorkerMark, MarkAcknowledged, WorkerPcs, WorkerHolding
<1> QED
  BY <1>1, <1>2, <1>3, <1>4, <1>5, <1>6, <1>7, <1>8, <1>9, <1>10, <1>11, <1>12, <1>13,
     <1>14, <1>15, <1>16, <1>17, <1>18 DEF WorkerStep

\* of a timer,
LEMMA TimerTypeStep ==
  ASSUME TypeInv, NEW w \in Runs, TimerStep(w)
  PROVE  TypeInv'
<1> USE RunExchange DEF TypeInv, TypeOK, ListenerHasExchange, Exclusive, OwnResponse,
        WaitCounts, Answering
<1>1. CASE TimerFire(w)
  BY <1>1 DEF TimerFire, objects, TimerPcs
<1>2. CASE TimerMarkAck(w)
  BY <1>2 DEF TimerMarkAck, MarkAcknowledged, TimerPcs, M!Flags
<1>3. CASE TimerSendAck(w)
  BY <1>3 DEF TimerSendAck, SendEmptyAck, objects, TimerPcs
<1>4. CASE TimerComplete(w)
  BY <1>4 DEF TimerComplete, Complete, TimerPcs
<1> QED
  BY <1>1, <1>2, <1>3, <1>4 DEF TimerStep

\* of a retransmission thread,
LEMMA RetransmitterTypeStep ==
  ASSUME TypeInv, NEW w \in Runs, RetransmitterStep(w)
  PROVE  TypeInv'
<1> USE RunExchange, RetransmitAssumption
    DEF TypeInv, TypeOK, ListenerHasExchange, Exclusive, OwnResponse, WaitCounts,
        Answering, RetransmitterOnly, RetransmitterGoto, RetransmitterPcs,
        RetransmitterHolding, objects
<1>1. CASE RetransmitterBegin(w)
  BY <1>1 DEF RetransmitterBegin, LockFree, RunsOf
<1>2. CASE RetransmitterWhile(w)
  BY <1>2 DEF RetransmitterWhile, MayRetransmit
<1>3. CASE RetransmitterWake(w)
  <2>1. CASE MustResend(w)
    <3>1. retransmitter[w].count + 1 \in 0..MAX_RETRANSMIT
      BY <1>3 DEF RetransmitterWake
    <3>2. retransmitter' = [retransmitter EXCEPT ![w] =
                              [pc |-> "resend", count |-> retransmitter[w].count + 1]]
      BY <1>3, <2>1 DEF RetransmitterWake, CountAfter
    <3> QED
      BY <1>3, <2>1, <3>1, <3>2 DEF RetransmitterWake
  <2>2. CASE ~MustResend(w)
    <3>1. retransmitter' = [retransmitter EXCEPT ![w].pc = "while"]
      BY <1>3, <2>2 DEF RetransmitterWake
    <3> QED
      BY <1>3, <3>1 DEF RetransmitterWake
  <2> QED
    BY <2>1, <2>2
<1>4. CASE RetransmitterIfAnswered(w)
  BY <1>4 DEF RetransmitterIfAnswered
<1>5. CASE RetransmitterGiveUp(w)
  <2>1. reply' \in [Runs -> Replies]
    BY <1>5, ReplyUpdate DEF RetransmitterGiveUp, M!Flags
  <2> QED
    BY <1>5, <2>1 DEF RetransmitterGiveUp
<1>6. CASE RetransmitterCleanup(w)
  BY <1>6 DEF RetransmitterCleanup, ForgetEvent
<1>7. CASE RetransmitterSend(w)
  BY <1>7 DEF RetransmitterSend, SendReply
<1> QED
  BY <1>1, <1>2, <1>3, <1>4, <1>5, <1>6, <1>7 DEF RetransmitterStep

\* of the network, the purge and close() keeps it.
LEMMA EnvironmentTypeStep ==
  ASSUME TypeInv, Environment
  PROVE  TypeInv'
<1> USE RunExchange DEF TypeInv, TypeOK, ListenerHasExchange, Exclusive, OwnResponse,
        WaitCounts, Answering
<1>1. ASSUME NEW e \in Exchanges, ListenerReceiveRequest(e) PROVE TypeInv'
  BY <1>1 DEF ListenerReceiveRequest, Store, ListenerPcs
<1>2. ASSUME NEW e \in Exchanges, Purge(e) PROVE TypeInv'
  BY <1>2 DEF Purge, threads
<1>3. ASSUME NEW w \in Runs, NEW type \in {"ACK", "RST"}, ListenerReceiveEmpty(w, type)
      PROVE  TypeInv'
  <2>1. CASE w \in midTable
    <3>1. M!RequestFlagAfterEmpty(type, request[Of(w)]) \in M!Flags
      BY DEF M!RequestFlagAfterEmpty, M!Flags
    <3>2. \A r \in Runs :
            M!ResponseFlagAfterEmpty(type, request[Of(w)], reply[r].flag) \in M!Flags
      BY DEF M!ResponseFlagAfterEmpty, M!Flags, Replies
    <3>3. request' \in [Exchanges -> M!Flags]
      BY <1>3, <2>1, <3>1 DEF ListenerReceiveEmpty
    <3>4. reply' \in [Runs -> Replies]
      <4> DEFINE r == response[Of(w)]
                 f == M!ResponseFlagAfterEmpty(type, request[Of(w)], reply[r].flag)
      <4>1. reply' = [reply EXCEPT ![r].flag = f]
        BY <1>3, <2>1 DEF ListenerReceiveEmpty
      <4>2. CASE r \in Runs
        BY <3>2, <4>1, <4>2, ReplyUpdate
      <4>3. CASE r \notin Runs
        BY <4>1, <4>3
      <4> QED
        BY <4>2, <4>3
    <3> QED
      BY <1>3, <2>1, <3>3, <3>4 DEF ListenerReceiveEmpty, ListenerPcs
  <2>2. CASE w \notin midTable
    BY <1>3, <2>2 DEF ListenerReceiveEmpty, NextMessage, ListenerPcs
  <2> QED
    BY <2>1, <2>2
<1>4. CASE Close
  BY <1>4 DEF Close, objects, threads
<1> QED
  BY <1>1, <1>2, <1>3, <1>4 DEF Environment

\* Every variable keeps to its values (TypeOK); the lock of a transaction
\* excludes, so that a run answers with the Response it made.
THEOREM TypeCorrect == Spec => []TypeInv
<1>1. Init => TypeInv
  BY InitTypeInv
<1>2. TypeInv /\ [Next]_vars => TypeInv'
  <2> SUFFICES ASSUME TypeInv, [Next]_vars PROVE TypeInv'
    OBVIOUS
  <2>1. CASE UNCHANGED vars
    BY <2>1 DEF vars, objects, threads, TypeInv, TypeOK, ListenerHasExchange,
       Exclusive, OwnResponse, WaitCounts, Answering
  <2>2. CASE System
    BY <2>2, ListenerTypeStep, WorkerTypeStep, TimerTypeStep, RetransmitterTypeStep DEF System
  <2>3. CASE Environment
    BY <2>3, EnvironmentTypeStep
  <2> QED
    BY <2>1, <2>2, <2>3 DEF Next
<1> QED
  BY <1>1, <1>2, PTL DEF Spec

\* The variables keep to their values.
THEOREM TypesHold == Spec => []TypeOK
<1>1. TypeInv => TypeOK
  BY DEF TypeInv
<1> QED
  BY <1>1, TypeCorrect, PTL

\* From the resource's method to the end of receive_request the transaction's
\* response is the one this run made (server/coap.py 211-245).
THEOREM OwnResponseHolds == Spec => []OwnResponse
<1>1. TypeInv => OwnResponse
  BY DEF TypeInv
<1> QED
  BY <1>1, TypeCorrect, PTL

-----------------------------------------------------------------------------
(***************************************************************************)
(* How often a request is run.  The two reads of `completed' in listen()   *)
(* let a second run through, and no more, because completed is never reset *)
(* and the listener is one thread; for a NON request completed is set by   *)
(* the listener only, hence not between its two reads.                     *)
(***************************************************************************)
OneStarted(e) == \A w, v \in Runs :
                   Of(w) = e /\ Of(v) = e /\ Started(w) /\ Started(v) => w = v

\* A run is started only for a request whose key is, or was, in the table.
RunsAreStored == \A w \in Runs : Started(w) => table[Of(w)] # "unknown"

\* Only a confirmable request is acknowledged, by an empty ACK or by its answer.
Acking == {"ack_mark"} \cup Telling
OnlyConfirmableAcked ==
  /\ listener.pc \in Acking => listener.on \in Confirmable
  /\ \A w \in Runs : /\ worker[w] \in Acking => Of(w) \in Confirmable
                     /\ timer[w] \in Acking => Of(w) \in Confirmable
                     /\ Chosen(w) = "ACK" => Of(w) \in Confirmable
                     /\ worker[w] = "complete" => Chosen(w) = "ACK"
                     /\ worker[w] = "register" => Chosen(w) # "ACK"

\* What the listener knows of the request it has in hand.
ListenerKnows ==
  /\ listener.pc \in {"if_completed", "if_pending"} =>
       duplicated[listener.on] /\ table[listener.on] # "unknown"
  /\ listener.pc = "if_pending" =>
       /\ OneStarted(listener.on)
       /\ completed[listener.on] => listener.on \in Confirmable
  /\ listener.pc = "spawn" =>
       /\ table[listener.on] # "unknown"
       /\ OneStarted(listener.on)
       /\ \/ \A w \in Runs : Of(w) = listener.on => ~Started(w)
          \/ /\ listener.on \in Confirmable
             /\ duplicated[listener.on] /\ completed[listener.on]

RerunInv == /\ RunsAreStored /\ OnlyConfirmableAcked /\ ListenerKnows
            /\ RerunOnlyWhenCompleted

\* The same for RerunInv: it holds at first, and the listener,
LEMMA InitRerunInv == Init => RerunInv
  BY DEF Init, RerunInv, RunsAreStored, OnlyConfirmableAcked, ListenerKnows,
     RerunOnlyWhenCompleted, Started, NoReply, Acking, Telling, Chosen, Branches

\* which alone starts runs,
LEMMA ListenerRerunStep ==
  ASSUME TypeInv, RerunInv, ListenerStep
  PROVE  RerunInv'
<1> USE DEF TypeInv, TypeOK, ListenerHasExchange, RerunInv, RunsAreStored,
        OnlyConfirmableAcked, ListenerKnows, RerunOnlyWhenCompleted, OneStarted, Started,
        Acking, Telling, Chosen, Branches
<1>1. CASE ListenerLoop
  BY <1>1 DEF ListenerLoop, Goto, ListenerOnly, objects
<1>2. CASE ListenerTimeout
  BY <1>2 DEF ListenerTimeout, NextMessage, ListenerOnly, objects
<1>3. CASE ListenerIfCompleted
  BY <1>3 DEF ListenerIfCompleted, Goto, ListenerOnly, objects
<1>4. CASE ListenerIfPending
  BY <1>4 DEF ListenerIfPending, Goto, ListenerOnly, objects
<1>5. CASE ListenerResend
  BY <1>5 DEF ListenerResend, Goto, AfterResend, NextMessage, objects
<1>6. CASE ListenerMarkAck
  BY <1>6 DEF ListenerMarkAck, Goto, MarkAcknowledged
<1>7. CASE ListenerSendAck
  BY <1>7 DEF ListenerSendAck, NextMessage, objects
<1>8. CASE ListenerIfEvent
  BY <1>8 DEF ListenerIfEvent, Goto, ListenerOnly, objects
<1>9. CASE ListenerSetEvent
  BY <1>9 DEF ListenerSetEvent, Goto, objects
<1>10. CASE ListenerLocked
  BY <1>10 DEF ListenerLocked, NextMessage
<1>11. ASSUME NEW w \in Runs, ListenerSpawn(w) PROVE RerunInv'
  BY <1>11 DEF ListenerSpawn, NextMessage, objects
<1>12. CASE ListenerIfDue
  BY <1>12 DEF ListenerIfDue, AckIsDue, Goto, NextMessage, ListenerOnly, objects
<1>13. CASE ListenerComplete
  BY <1>13 DEF ListenerComplete, Goto, Complete
<1> QED
  BY <1>1, <1>2, <1>3, <1>4, <1>5, <1>6, <1>7, <1>8, <1>9, <1>10, <1>11, <1>12, <1>13 DEF ListenerStep

\* the workers, which complete transactions and give types,
LEMMA WorkerRerunStep ==
  ASSUME TypeInv, RerunInv, NEW w \in Runs, WorkerStep(w)
  PROVE  RerunInv'
<1> USE RunExchange DEF TypeInv, TypeOK, ListenerHasExchange, OwnResponse, RerunInv,
        RunsAreStored, OnlyConfirmableAcked, ListenerKnows, RerunOnlyWhenCompleted,
        OneStarted, Started, Answering, WorkerGoto, objects, Acking, Telling, Chosen, Branches
<1>1. CASE WorkerBegin(w)
  BY <1>1 DEF WorkerBegin
<1>2. CASE WorkerBlock(w)
  BY <1>2 DEF WorkerBlock
<1>3. CASE WorkerRender(w)
  BY <1>3 DEF WorkerRender
<1>4. CASE WorkerReturn(w)
  BY <1>4 DEF WorkerReturn, WorkerOnly
<1>5. CASE WorkerSeparate(w)
  <2>1. \E pc \in {"ack_mark", "stop_timer"} :
          /\ worker' = [worker EXCEPT ![w] = pc]
          /\ pc = "ack_mark" => Of(w) \in Confirmable
    BY <1>5 DEF WorkerSeparate
  <2>2. /\ worker[w] = "render"
        /\ UNCHANGED <<table, duplicated, completed, reply, listener, timer>>
    BY <1>5 DEF WorkerSeparate
  <2> QED
    BY <2>1, <2>2
<1>6. CASE WorkerMarkAck(w)
  BY <1>6 DEF WorkerMarkAck, MarkAcknowledged
<1>7. CASE WorkerSendAck(w)
  BY <1>7 DEF WorkerSendAck
<1>8. CASE WorkerFail(w)
  BY <1>8 DEF WorkerFail, WorkerOnly
<1>9. CASE WorkerStopTimer(w)
  BY <1>9 DEF WorkerStopTimer
<1>10. CASE WorkerSetType(w)
  <2>1. response[Of(w)] = w
    BY <1>10 DEF WorkerSetType, WorkerHolding, WorkerPcs
  <2>2. reply' = [reply EXCEPT ![w].type = worker[w]] /\ worker' = [worker EXCEPT ![w] = "set_mid"]
    BY <1>10, <2>1 DEF WorkerSetType
  <2>3. reply'[w].type = worker[w] /\ \A v \in Runs \ {w} : reply'[v] = reply[v]
    BY <2>2 DEF Replies
  <2>4. /\ worker[w] \in {"ACK", "NON", "CON"}
        /\ UNCHANGED <<table, duplicated, completed, listener, timer>>
    BY <1>10 DEF WorkerSetType
  <2>5. \A v \in Runs : /\ worker'[v] = IF v = w THEN "set_mid" ELSE worker[v]
                        /\ reply'[v].type = IF v = w THEN worker[v] ELSE reply[v].type
    BY <2>2, <2>3
  <2>6. OnlyConfirmableAcked'
    BY <2>4, <2>5
  <2>7. \A v \in Runs : Started(v)' <=> Started(v)
    BY <2>4, <2>5
  <2>8. RunsAreStored' /\ ListenerKnows' /\ RerunOnlyWhenCompleted'
    BY <2>4, <2>7
  <2> QED
    BY <2>6, <2>8
<1>11. CASE WorkerSetMid(w)
  <2>1. response[Of(w)] = w
    BY <1>11 DEF WorkerSetMid, WorkerHolding, WorkerPcs
  <2>2. \A v \in Runs : reply'[v].type = reply[v].type
    BY <1>11, <2>1 DEF WorkerSetMid, Replies
  <2>3. \E pc \in {"complete", "register"} :
          /\ worker' = [worker EXCEPT ![w] = pc]
          /\ pc = "complete" <=> reply[w].type = "ACK"
    BY <1>11, <2>1 DEF WorkerSetMid
  <2> QED
    BY <1>11, <2>2, <2>3 DEF WorkerSetMid
<1>12. CASE WorkerStartRetransmission(w)
  BY <1>12 DEF WorkerStartRetransmission
<1>13. CASE WorkerSend(w)
  BY <1>13 DEF WorkerSend
<1>14. CASE WorkerCompleteAck(w)
  BY <1>14 DEF WorkerCompleteAck, Complete
<1>15. CASE WorkerChoose(w)
  <2>1. PICK pc \in {"ACK", "NON", "CON"} :
          /\ worker' = [worker EXCEPT ![w] = pc]
          /\ pc = "ACK" => Of(w) \in Confirmable
    BY <1>15 DEF WorkerChoose, RequestType, M!ResponseType
  <2> QED
    BY <1>15, <2>1 DEF WorkerChoose, WorkerOnly
<1>16. CASE WorkerComplete(w)
  BY <1>16 DEF WorkerComplete, Complete
<1>17. CASE WorkerRegister(w)
  BY <1>17 DEF WorkerRegister
<1>18. CASE WorkerMark(w)
  <2>1. PICK pc \in {"retransmission", "send"} : worker' = [worker EXCEPT ![w] = pc]
    BY <1>18 DEF WorkerMark
  <2> QED
    BY <1>18, <2>1 DEF WorkerMark, MarkAcknowledged
<1> QED
  BY <1>1, <1>2, <1>3, <1>4, <1>5, <1>6, <1>7, <1>8, <1>9, <1>10, <1>11, <1>12, <1>13,
     <1>14, <1>15, <1>16, <1>17, <1>18 DEF WorkerStep

\* the timers and retransmissions,
LEMMA OthersRerunStep ==
  ASSUME TypeInv, RerunInv, NEW w \in Runs, TimerStep(w) \/ RetransmitterStep(w)
  PROVE  RerunInv'
<1> USE RunExchange DEF TypeInv, TypeOK, ListenerHasExchange, RerunInv, RunsAreStored,
        OnlyConfirmableAcked, ListenerKnows, RerunOnlyWhenCompleted, OneStarted,
        Started, objects, RetransmitterOnly, Acking, Telling, Chosen, Branches
<1>1. CASE TimerFire(w)
  BY <1>1 DEF TimerFire, AckIsDue
<1>2. CASE TimerMarkAck(w)
  BY <1>2 DEF TimerMarkAck, MarkAcknowledged
<1>3. CASE TimerSendAck(w)
  BY <1>3 DEF TimerSendAck
<1>4. CASE RetransmitterBegin(w)
  BY <1>4 DEF RetransmitterBegin
<1>5. CASE RetransmitterWhile(w)
  BY <1>5 DEF RetransmitterWhile
<1>6. CASE RetransmitterWake(w)
  BY <1>6 DEF RetransmitterWake
<1>7. CASE RetransmitterIfAnswered(w)
  BY <1>7 DEF RetransmitterIfAnswered
<1>8. CASE RetransmitterGiveUp(w)
  BY <1>8 DEF RetransmitterGiveUp, Replies
<1>9. CASE RetransmitterCleanup(w)
  BY <1>9 DEF RetransmitterCleanup
<1>10. CASE RetransmitterSend(w)
  BY <1>10 DEF RetransmitterSend, RetransmitterGoto
<1>11. CASE TimerComplete(w)
  BY <1>11 DEF TimerComplete, Complete
<1> QED
  BY <1>1, <1>2, <1>3, <1>4, <1>5, <1>6, <1>7, <1>8, <1>9, <1>10, <1>11
     DEF TimerStep, RetransmitterStep

\* and the environment keep it.
LEMMA EnvironmentRerunStep ==
  ASSUME TypeInv, RerunInv, Environment
  PROVE  RerunInv'
<1> USE RunExchange DEF TypeInv, TypeOK, ListenerHasExchange, RerunInv, RunsAreStored,
        OnlyConfirmableAcked, ListenerKnows, RerunOnlyWhenCompleted, OneStarted, Started,
        Acking, Telling, Chosen, Branches
<1>1. ASSUME NEW e \in Exchanges, ListenerReceiveRequest(e) PROVE RerunInv'
  <2>1. CASE table[e] = "unknown"
    <3>1. /\ table' = [table EXCEPT ![e] = "stored"]
          /\ listener' = [listener EXCEPT !.pc = "spawn", !.on = e]
          /\ UNCHANGED <<duplicated, completed, reply, worker, timer>>
      BY <1>1, <2>1 DEF ListenerReceiveRequest, Store
    <3> QED
      BY <2>1, <3>1
  <2>2. CASE table[e] # "unknown"
    <3>1. /\ duplicated' = [duplicated EXCEPT ![e] = TRUE]
          /\ listener' = [listener EXCEPT !.pc = "if_completed", !.on = e]
          /\ UNCHANGED <<table, completed, reply, worker, timer>>
      BY <1>1, <2>2 DEF ListenerReceiveRequest
    <3> QED
      BY <2>2, <3>1
  <2> QED
    BY <2>1, <2>2
<1>2. ASSUME NEW e \in Exchanges, Purge(e) PROVE RerunInv'
  BY <1>2 DEF Purge, threads
<1>3. ASSUME NEW w \in Runs, NEW type \in {"ACK", "RST"}, ListenerReceiveEmpty(w, type)
      PROVE  RerunInv'
  <2>1. \A v \in Runs : reply'[v].type = reply[v].type
    BY <1>3, SMTT(30) DEF ListenerReceiveEmpty, Replies
  <2>2. /\ listener'.pc \in {"if_event", "loop"}
        /\ UNCHANGED <<table, duplicated, completed, worker, timer>>
    BY <1>3 DEF ListenerReceiveEmpty, NextMessage
  <2> QED
    BY <2>1, <2>2
<1>4. CASE Close
  BY <1>4 DEF Close, objects, threads
<1> QED
  BY <1>1, <1>2, <1>3, <1>4 DEF Environment

\* RerunInv holds in every behaviour.
THEOREM RerunInvariant == Spec => []RerunInv
<1>1. Init => RerunInv
  BY InitRerunInv
<1>2. TypeInv /\ RerunInv /\ [Next]_vars => RerunInv'
  <2> SUFFICES ASSUME TypeInv, RerunInv, [Next]_vars PROVE RerunInv'
    OBVIOUS
  <2>1. CASE UNCHANGED vars
    BY <2>1 DEF vars, objects, threads, RerunInv, RunsAreStored, OnlyConfirmableAcked,
       ListenerKnows, RerunOnlyWhenCompleted, OneStarted, Started, Chosen
  <2>2. CASE System
    BY <2>2, ListenerRerunStep, WorkerRerunStep, OthersRerunStep DEF System
  <2>3. CASE Environment
    BY <2>3, EnvironmentRerunStep
  <2> QED
    BY <2>1, <2>2, <2>3 DEF Next
<1> QED
  BY <1>1, <1>2, TypeCorrect, PTL DEF Spec

\* Only a confirmable request, of which a copy came and whose transaction was
\* completed meanwhile, is run a second time (server/coap.py 166-178).
THEOREM RerunHolds == Spec => []RerunOnlyWhenCompleted
<1>1. RerunInv => RerunOnlyWhenCompleted
  BY DEF RerunInv
<1> QED
  BY <1>1, RerunInvariant, PTL

\* No request is ever run a third time (server/coap.py 166-178).
THEOREM RunAvailableHolds == Spec => []RunAvailable
<1>1. TypeInv /\ RerunInv => RunAvailable
  <2> SUFFICES ASSUME TypeInv, RerunInv, listener.pc = "spawn"
               PROVE  \E w \in RunsOf(listener.on) : ~Started(w)
    BY DEF RunAvailable
  <2> DEFINE first == <<listener.on, 1>>
             second == <<listener.on, 2>>
  <2>1. listener.on \in Exchanges
    BY DEF TypeInv, ListenerHasExchange
  <2>2. first \in RunsOf(listener.on) /\ second \in RunsOf(listener.on) /\ first # second
    BY <2>1 DEF RunsOf, Runs, Attempts, Of
  <2>3. ~(Started(first) /\ Started(second))
    BY <2>2 DEF RerunInv, ListenerKnows, OneStarted, RunsOf
  <2> QED
    BY <2>2, <2>3
<1> QED
  BY <1>1, TypeCorrect, RerunInvariant, PTL

-----------------------------------------------------------------------------
(***************************************************************************)
(* What the client knows of an answer that is not the ACK.  A request is   *)
(* marked acknowledged before its empty ACK is sent, by three threads; an  *)
(* announcement, once made or begun, stands.                               *)
(***************************************************************************)
\* The client of a request has been told to wait, or is about to be.
Announced(e) ==
  \/ e \in emptyAcks \/ stopped
  \/ listener.pc \in Telling /\ listener.on = e
  \/ \E v \in RunsOf(e) : \/ worker[v] \in Telling \/ timer[v] \in Telling
                          \/ reply[v].type = "ACK"

\* A run gives its Response a type once, which it has chosen before.
Unchosen == {"idle", "with", "layers", "render", "ack_mark", "ack_complete", "ack_send",
             "stop_timer", "if_acknowledged", "failed"}
Untyped == Unchosen \cup Branches
TypedOnce == \A w \in Runs : reply[w].type = "none" <=> worker[w] \in Untyped

\* A run starts its timer when it has the lock.
TimerIsStarted == \A w \in Runs : worker[w] \in {"idle", "with"} => timer[w] = "idle"

\* A request is marked acknowledged on the way to the client only.
AcknowledgedIsAnnounced == \A e \in Confirmable : request[e] = "acknowledged" => Announced(e)

\* The type of an answer is that of its request, or ACK.
AnswerTypes == \A w \in Runs :
  /\ Chosen(w) = "NON" => Of(w) \notin Confirmable
  /\ Chosen(w) = "CON" => Of(w) \in Confirmable /\ Announced(Of(w))

AnnounceInv == TypedOnce /\ TimerIsStarted /\ AcknowledgedIsAnnounced /\ AnswerTypes

\* A run has chosen unless it is before that, or has failed.
LEMMA ChosenOnce ==
  ASSUME TypedOnce, NEW w \in Runs
  PROVE  Chosen(w) = "none" <=> worker[w] \in Unchosen
<1>1. Unchosen \cap Branches = {} /\ "none" \notin Branches
  BY DEF Unchosen, Branches
<1>2. QED  BY <1>1 DEF TypedOnce, Untyped, Chosen

\* What a step may do to what Announced reads.
Stands ==
  /\ stopped => stopped'
  /\ emptyAcks \subseteq emptyAcks'
  /\ listener.pc \in Telling => \/ listener'.pc \in Telling /\ listener'.on = listener.on
                                \/ listener.on \in emptyAcks' \/ stopped'
  /\ \A v \in Runs :
       /\ worker[v] \in Telling => worker'[v] \in Telling \/ Of(v) \in emptyAcks' \/ stopped'
       /\ timer[v] \in Telling => timer'[v] \in Telling \/ Of(v) \in emptyAcks' \/ stopped'
       /\ reply[v].type = "ACK" => reply'[v].type = "ACK"

\* An announcement stands.
LEMMA AnnouncedStays ==
  ASSUME Stands, NEW e \in Exchanges, Announced(e)
  PROVE  Announced(e)'
BY DEF Stands, Announced, RunsOf

\* Steps that choose no type, and mark no request of which the client is not told.
Plain ==
  /\ Stands
  /\ \A e \in Confirmable : request'[e] = "acknowledged" =>
       request[e] = "acknowledged" \/ Announced(e)'
  /\ \A v \in Runs : /\ Chosen(v)' = Chosen(v)
                     /\ \/ /\ reply'[v].type = reply[v].type
                           /\ worker'[v] \in Untyped <=> worker[v] \in Untyped
                        \/ reply'[v].type # "none" /\ worker'[v] \notin Untyped
                     /\ worker'[v] \in {"idle", "with"} =>
                          worker[v] \in {"idle", "with"} /\ (timer[v] = "idle" => timer'[v] = "idle")

\* Such a step keeps AnnounceInv.
LEMMA PlainKeeps ==
  ASSUME TypeInv, AnnounceInv, Plain
  PROVE  AnnounceInv'
<1>1. \A e \in Exchanges : Announced(e) => Announced(e)'
  BY AnnouncedStays DEF Plain
<1>2. TypedOnce'
  BY DEF Plain, AnnounceInv, TypedOnce
<1>3. AcknowledgedIsAnnounced'
  BY <1>1, ConfirmableAssumption DEF Plain, AnnounceInv, AcknowledgedIsAnnounced
<1>4. AnswerTypes'
  BY <1>1, RunExchange DEF Plain, AnnounceInv, AnswerTypes
<1>5. TimerIsStarted'
  BY DEF Plain, AnnounceInv, TimerIsStarted
<1>6. QED  BY <1>2, <1>3, <1>4, <1>5 DEF AnnounceInv

\* The listener's steps are plain.
LEMMA ListenerAnnounceStep ==
  ASSUME TypeInv, AnnounceInv, ListenerStep
  PROVE  Plain
<1> USE DEF TypeInv, TypeOK, ListenerHasExchange, Plain, Stands, Chosen, Telling
<1>1. CASE ListenerLoop
  BY <1>1 DEF ListenerLoop, ListenerOnly, objects
<1>2. CASE ListenerTimeout
  BY <1>2 DEF ListenerTimeout, ListenerOnly, objects
<1>3. CASE ListenerIfCompleted
  BY <1>3 DEF ListenerIfCompleted, ListenerOnly, objects
<1>4. CASE ListenerIfPending
  BY <1>4 DEF ListenerIfPending, ListenerOnly, objects
<1>5. CASE ListenerResend
  BY <1>5 DEF ListenerResend, objects
<1>6. CASE ListenerMarkAck
  <2>1. listener'.pc = "ack_complete" /\ listener'.on = listener.on
    BY <1>6 DEF ListenerMarkAck, Goto, ListenerPcs
  <2>2. \A e \in Exchanges : e = listener.on => Announced(e)'
    BY <2>1 DEF Announced
  <2>3. request' = [request EXCEPT ![listener.on] = "acknowledged"]
        /\ UNCHANGED <<reply, worker, timer, stopped, emptyAcks>> /\ listener.pc = "ack_mark"
    BY <1>6 DEF ListenerMarkAck, MarkAcknowledged
  <2>4. listener.on \in Exchanges /\ \A e \in Confirmable : request'[e] = "acknowledged" =>
          request[e] = "acknowledged" \/ Announced(e)'
    BY <2>2, <2>3, ConfirmableAssumption
  <2>5. Stands
    BY <2>3
  <2>6. QED  BY <2>3, <2>4, <2>5
<1>7. CASE ListenerSendAck
  BY <1>7 DEF ListenerSendAck, SendEmptyAck, objects
<1>8. CASE ListenerIfEvent
  BY <1>8 DEF ListenerIfEvent, ListenerOnly, objects
<1>9. CASE ListenerSetEvent
  BY <1>9 DEF ListenerSetEvent, objects
<1>10. CASE ListenerLocked
  BY <1>10 DEF ListenerLocked
<1>11. ASSUME NEW w \in Runs, ListenerSpawn(w) PROVE Plain
  BY <1>11 DEF ListenerSpawn, objects, Untyped, Unchosen, Branches
<1>12. CASE ListenerIfDue
  BY <1>12 DEF ListenerIfDue, ListenerOnly, objects
<1>13. CASE ListenerComplete
  BY <1>13 DEF ListenerComplete, Complete, Goto, ListenerPcs
<1> QED
  BY <1>1, <1>2, <1>3, <1>4, <1>5, <1>6, <1>7, <1>8, <1>9, <1>10, <1>11, <1>12, <1>13 DEF ListenerStep

\* So are a worker's but for the one that chooses the type: it is CON only if the
\* request has been acknowledged, so announced.
LEMMA WorkerAnnounceStep ==
  ASSUME TypeInv, AnnounceInv, NEW w \in Runs, WorkerStep(w)
  PROVE  AnnounceInv'
<1> USE RunExchange DEF TypeInv, TypeOK, OwnResponse, Answering, WorkerGoto, objects
<1>1. ASSUME \/ WorkerBegin(w) \/ WorkerBlock(w) \/ WorkerRender(w) \/ WorkerReturn(w)
             \/ WorkerSendAck(w) \/ WorkerFail(w) \/ WorkerStopTimer(w)
             \/ WorkerCompleteAck(w) \/ WorkerComplete(w) \/ WorkerRegister(w)
             \/ WorkerStartRetransmission(w) \/ WorkerSend(w)
      PROVE  Plain
  <2> USE DEF Plain, Stands, Untyped, Unchosen, Branches, Chosen, Telling
  <2>1. CASE WorkerBegin(w)
    BY <2>1 DEF WorkerBegin, AnnounceInv, TimerIsStarted
  <2>2. CASE WorkerBlock(w)
    BY <2>2 DEF WorkerBlock
  <2>3. CASE WorkerRender(w)
    BY <2>3 DEF WorkerRender
  <2>4. CASE WorkerReturn(w)
    BY <2>4 DEF WorkerReturn, WorkerOnly
  <2>5. CASE WorkerSendAck(w)
    BY <2>5 DEF WorkerSendAck, SendEmptyAck
  <2>6. CASE WorkerFail(w)
    BY <2>6 DEF WorkerFail, WorkerOnly
  <2>7. CASE WorkerStopTimer(w)
    BY <2>7 DEF WorkerStopTimer
  <2>8. CASE WorkerCompleteAck(w)
    BY <2>8 DEF WorkerCompleteAck, Complete
  <2>9. CASE WorkerComplete(w)
    BY <2>9 DEF WorkerComplete, Complete
  <2>10. CASE WorkerRegister(w)
    BY <2>10 DEF WorkerRegister
  <2>11. CASE WorkerStartRetransmission(w)
    BY <2>11 DEF WorkerStartRetransmission
  <2>12. CASE WorkerSend(w)
    BY <2>12 DEF WorkerSend
  <2>13. QED
    BY <1>1, <2>1, <2>2, <2>3, <2>4, <2>5, <2>6, <2>7, <2>8, <2>9, <2>10, <2>11, <2>12
<1>2. ASSUME WorkerSeparate(w) PROVE Plain
  <2>1. worker[w] = "render" /\ \E pc \in {"ack_mark", "stop_timer"} : worker' = [worker EXCEPT ![w] = pc]
    <3>1. CASE Of(w) \in Confirmable
      BY <1>2, <3>1 DEF WorkerSeparate
    <3>2. CASE Of(w) \notin Confirmable
      BY <1>2, <3>2 DEF WorkerSeparate
    <3>3. QED  BY <3>1, <3>2
  <2>2. \A e \in Confirmable : request'[e] = request[e]
    <3>1. CASE Of(w) \in Confirmable
      BY <1>2, <3>1 DEF WorkerSeparate
    <3>2. CASE Of(w) \notin Confirmable
      <4>1. request' = [request EXCEPT ![Of(w)] = "acknowledged"]
        BY <1>2, <3>2 DEF WorkerSeparate
      <4>2. QED  BY <3>2, <4>1, ConfirmableAssumption
    <3>3. QED  BY <3>1, <3>2
  <2>3. UNCHANGED <<reply, listener, timer, stopped, emptyAcks>>
    BY <1>2 DEF WorkerSeparate
  <2>4. QED
    BY <2>1, <2>2, <2>3 DEF Plain, Stands, Untyped, Unchosen, Branches, Chosen, Telling
<1>3. ASSUME WorkerMarkAck(w) PROVE Plain
  <2>1. worker[w] = "ack_mark" /\ worker' = [worker EXCEPT ![w] = "ack_complete"]
    BY <1>3 DEF WorkerMarkAck
  <2>2. request' = [request EXCEPT ![Of(w)] = "acknowledged"]
    BY <1>3 DEF WorkerMarkAck, MarkAcknowledged
  <2>3. UNCHANGED <<reply, listener, timer, stopped, emptyAcks>>
    BY <1>3 DEF WorkerMarkAck, MarkAcknowledged
  <2>4. Announced(Of(w))'
    BY <2>1 DEF Announced, RunsOf, Telling
  <2>5. \A v \in Runs : Chosen(v)' = Chosen(v) /\ (worker'[v] \in Untyped <=> worker[v] \in Untyped)
    BY <2>1, <2>3 DEF Untyped, Unchosen, Branches, Chosen
  <2>6. Stands
    BY <2>1, <2>3 DEF Stands, Telling
  <2>7. QED  BY <2>1, <2>2, <2>3, <2>4, <2>5, <2>6 DEF Plain
<1>4. ASSUME WorkerChoose(w) PROVE AnnounceInv'
  <2> DEFINE type == M!ResponseType(RequestType(Of(w)), request[Of(w)])
  <2>1. worker[w] = "if_acknowledged" /\ worker' = [worker EXCEPT ![w] = type]
    BY <1>4 DEF WorkerChoose
  <2>2. UNCHANGED <<request, reply, listener, timer, stopped, emptyAcks>>
    BY <1>4 DEF WorkerChoose, WorkerOnly
  <2>3. /\ type \in Branches
        /\ type = "NON" => Of(w) \notin Confirmable
        /\ type = "CON" => Of(w) \in Confirmable /\ request[Of(w)] = "acknowledged"
    BY DEF M!ResponseType, RequestType, Branches
  <2> HIDE DEF type
  <2>4. \A v \in Runs : Chosen(v)' = IF v = w THEN type ELSE Chosen(v)
    BY <2>1, <2>2, <2>3 DEF Chosen
  <2>5. Stands
    BY <2>1, <2>2 DEF Stands, Telling
  <2>6. \A e \in Exchanges : Announced(e) => Announced(e)'
    BY <2>5, AnnouncedStays
  <2>7. TypedOnce'
    BY <2>1, <2>2, <2>3 DEF AnnounceInv, TypedOnce, Untyped, Unchosen
  <2>8. AcknowledgedIsAnnounced'
    BY <2>2, <2>6, ConfirmableAssumption DEF AnnounceInv, AcknowledgedIsAnnounced
  <2>9. AnswerTypes'
    BY <2>3, <2>4, <2>6 DEF AnnounceInv, AnswerTypes, AcknowledgedIsAnnounced
  <2>10. TimerIsStarted'
    BY <2>1, <2>2, <2>3 DEF AnnounceInv, TimerIsStarted, Branches
  <2>11. QED  BY <2>7, <2>8, <2>9, <2>10 DEF AnnounceInv
<1>5. ASSUME WorkerSetType(w) PROVE Plain
  <2>1. worker[w] \in Branches /\ worker' = [worker EXCEPT ![w] = "set_mid"]
    BY <1>5 DEF WorkerSetType
  <2>2. response[Of(w)] = w
    BY <2>1 DEF Branches, WorkerHolding, WorkerPcs
  <2>3. reply' = [reply EXCEPT ![w].type = worker[w]]
        /\ UNCHANGED <<request, listener, timer, stopped, emptyAcks>>
    BY <1>5, <2>2 DEF WorkerSetType
  <2>4. \A v \in Runs : reply'[v].type = IF v = w THEN worker[w] ELSE reply[v].type
    BY <2>3 DEF Replies
  <2>5. \A v \in Runs : Chosen(v)' = Chosen(v)
    BY <2>1, <2>4 DEF Chosen, Branches
  <2>6. reply[w].type = "none"
    BY <2>1 DEF AnnounceInv, TypedOnce, Untyped
  <2>7. Stands
    BY <2>1, <2>3, <2>4, <2>6 DEF Stands, Telling, Branches
  <2>8. worker[w] # "none" /\ worker'[w] \notin Untyped
    BY <2>1 DEF Untyped, Unchosen, Branches
  <2>9. QED  BY <2>1, <2>3, <2>4, <2>5, <2>7, <2>8 DEF Plain
<1>6. ASSUME WorkerSetMid(w) PROVE Plain
  <2>1. worker[w] = "set_mid" /\ \E pc \in {"complete", "register"} : worker' = [worker EXCEPT ![w] = pc]
    BY <1>6 DEF WorkerSetMid
  <2>2. response[Of(w)] = w
    BY <2>1 DEF WorkerHolding, WorkerPcs
  <2>3. \A v \in Runs : reply'[v].type = reply[v].type
    BY <1>6, <2>2 DEF WorkerSetMid, Replies
  <2>4. UNCHANGED <<request, listener, timer, stopped, emptyAcks>>
    BY <1>6 DEF WorkerSetMid
  <2>5. QED
    BY <2>1, <2>3, <2>4 DEF Plain, Stands, Untyped, Unchosen, Branches, Chosen, Telling
<1>7. ASSUME WorkerMark(w) PROVE Plain
  <2>1. worker[w] = "mark" /\ \E pc \in {"retransmission", "send"} : worker' = [worker EXCEPT ![w] = pc]
    BY <1>7 DEF WorkerMark
  <2>2. request' = [request EXCEPT ![Of(w)] = "acknowledged"]
        /\ UNCHANGED <<reply, listener, timer, stopped, emptyAcks>>
    BY <1>7 DEF WorkerMark, MarkAcknowledged
  <2>3. Stands
    BY <2>1, <2>2 DEF Stands, Telling
  <2>4. reply[w].type \in {"ACK", "NON", "CON"} /\ Chosen(w) = reply[w].type
    BY <2>1 DEF AnnounceInv, TypedOnce, Untyped, Unchosen, Branches, Replies, Chosen
  <2>5. Of(w) \in Confirmable => Announced(Of(w))
    BY <2>4 DEF AnnounceInv, AnswerTypes, Announced, RunsOf
  <2>6. Of(w) \in Confirmable => Announced(Of(w))'
    BY <2>3, <2>5, AnnouncedStays
  <2>7. \A v \in Runs : Chosen(v)' = Chosen(v) /\ (worker'[v] \in Untyped <=> worker[v] \in Untyped)
    BY <2>1, <2>2 DEF Untyped, Unchosen, Branches, Chosen
  <2>8. QED  BY <2>1, <2>2, <2>3, <2>6, <2>7 DEF Plain
<1>8. QED  BY <1>1, <1>2, <1>3, <1>4, <1>5, <1>6, <1>7, PlainKeeps DEF WorkerStep

\* Timers and retransmissions give no type.
LEMMA OthersAnnounceStep ==
  ASSUME TypeInv, AnnounceInv, NEW w \in Runs, TimerStep(w) \/ RetransmitterStep(w)
  PROVE  Plain
<1> USE RunExchange DEF TypeInv, TypeOK, objects, Plain, Stands, RetransmitterOnly, Chosen, Telling
<1>1. CASE TimerFire(w)
  BY <1>1 DEF TimerFire
<1>2. CASE TimerMarkAck(w)
  <2>1. Announced(Of(w))'
    BY <1>2 DEF TimerMarkAck, Announced, RunsOf
  <2>2. QED  BY <1>2, <2>1 DEF TimerMarkAck, MarkAcknowledged
<1>3. CASE TimerSendAck(w)
  BY <1>3 DEF TimerSendAck, SendEmptyAck
<1>4. CASE RetransmitterBegin(w)
  BY <1>4 DEF RetransmitterBegin
<1>5. CASE RetransmitterWhile(w)
  BY <1>5 DEF RetransmitterWhile
<1>6. CASE RetransmitterWake(w)
  BY <1>6 DEF RetransmitterWake
<1>7. CASE RetransmitterIfAnswered(w)
  BY <1>7 DEF RetransmitterIfAnswered
<1>8. CASE RetransmitterGiveUp(w)
  BY <1>8 DEF RetransmitterGiveUp, Replies
<1>9. CASE RetransmitterCleanup(w)
  BY <1>9 DEF RetransmitterCleanup
<1>10. CASE RetransmitterSend(w)
  BY <1>10 DEF RetransmitterSend
<1>11. CASE TimerComplete(w)
  BY <1>11 DEF TimerComplete, Complete
<1>12. QED
  BY <1>1, <1>2, <1>3, <1>4, <1>5, <1>6, <1>7, <1>8, <1>9, <1>10, <1>11
     DEF TimerStep, RetransmitterStep

\* An ACK marks a request only for an answer that is a message of its own.
LEMMA EnvironmentAnnounceStep ==
  ASSUME TypeInv, AnnounceInv, Environment
  PROVE  Plain
<1> USE RunExchange DEF TypeInv, TypeOK, Plain, Stands, Chosen, Telling
<1>1. ASSUME NEW e \in Exchanges, ListenerReceiveRequest(e) PROVE Plain
  BY <1>1 DEF ListenerReceiveRequest
<1>2. ASSUME NEW e \in Exchanges, Purge(e) PROVE Plain
  BY <1>2 DEF Purge, threads
<1>3. ASSUME NEW w \in Runs, NEW type \in {"ACK", "RST"}, ListenerReceiveEmpty(w, type)
      PROVE  Plain
  <2>1. /\ \A v \in Runs : reply'[v].type = reply[v].type
        /\ \A e \in Exchanges \ {Of(w)} : request'[e] = request[e]
        /\ UNCHANGED <<worker, timer, stopped, emptyAcks>>
    <3>1. CASE w \in midTable
      <4>1. \A v \in Runs : reply'[v].type = reply[v].type
        BY <1>3, <3>1 DEF ListenerReceiveEmpty, Replies
      <4>2. \A e \in Exchanges \ {Of(w)} : request'[e] = request[e]
        BY <1>3, <3>1 DEF ListenerReceiveEmpty
      <4>3. QED  BY <1>3, <4>1, <4>2 DEF ListenerReceiveEmpty
    <3>2. CASE w \notin midTable
      BY <1>3, <3>2 DEF ListenerReceiveEmpty
    <3>3. QED  BY <3>1, <3>2
  <2>2. reply[w].type \in {"CON", "NON"} /\ listener.pc = "recvfrom"
    BY <1>3 DEF ListenerReceiveEmpty
  <2>3. Stands
    BY <2>1, <2>2
  <2>4. Of(w) \in Confirmable => Announced(Of(w))'
    <3>1. Of(w) \in Confirmable => Chosen(w) = "CON"
      BY <2>2 DEF AnnounceInv, TypedOnce, AnswerTypes, Untyped
    <3>2. QED  BY <2>3, <3>1, AnnouncedStays DEF AnnounceInv, AnswerTypes
  <2>5. \A e \in Confirmable : e = Of(w) \/ e \in Exchanges \ {Of(w)}
    BY ConfirmableAssumption
  <2>6. QED  BY <2>1, <2>3, <2>4, <2>5
<1>4. CASE Close
  BY <1>4 DEF Close, objects, threads
<1>5. QED  BY <1>1, <1>2, <1>3, <1>4 DEF Environment

\* Every acknowledged request is announced to its client.
THEOREM AnnounceInvariant == Spec => []AnnounceInv
<1>1. Init => AnnounceInv
  BY RunExchange, ConfirmableAssumption DEF Init, AnnounceInv, TypedOnce, AcknowledgedIsAnnounced,
     AnswerTypes, Untyped, Unchosen, Branches, Chosen, NoReply, TimerIsStarted

<1>2. TypeInv /\ AnnounceInv /\ [Next]_vars => AnnounceInv'
  <2> SUFFICES ASSUME TypeInv, AnnounceInv, [Next]_vars PROVE AnnounceInv'
    OBVIOUS
  <2>1. CASE UNCHANGED vars
    BY <2>1, PlainKeeps DEF vars, objects, threads, Plain, Stands, Chosen
  <2>2. CASE System
    BY <2>2, ListenerAnnounceStep, WorkerAnnounceStep, OthersAnnounceStep, PlainKeeps DEF System
  <2>3. CASE Environment
    BY <2>3, EnvironmentAnnounceStep, PlainKeeps
  <2> QED
    BY <2>1, <2>2, <2>3 DEF Next
<1> QED
  BY <1>1, <1>2, TypeCorrect, PTL DEF Spec

\* An answer to a confirmable request is a message of its own only if the client
\* is told to wait for it (messagelayer.py 234-244).
THEOREM SeparateAnswerHolds == Spec => []SeparateAnswerIsAnnounced
<1>1. AnnounceInv => SeparateAnswerIsAnnounced
  BY DEF AnnounceInv, AnswerTypes, Announced, SeparateAnswerIsAnnounced
<1> QED
  BY <1>1, AnnounceInvariant, PTL

-----------------------------------------------------------------------------
(***************************************************************************)
(* The mark of a request and the completion of its transaction are two     *)
(* variables that three threads write without a lock, in either order:     *)
(* send_empty marks first, send_response completes first.  They agree but  *)
(* for the thread that is between its two writes, and what follows the     *)
(* mark finds it made.                                                     *)
(***************************************************************************)
Marked(e) == request[e] = "acknowledged"

\* A run that has completed its transaction and has yet to mark the request.
Marking(w) == worker[w] = "mark" /\ reply[w].type = "ACK"

\* A thread has marked the request and has yet to complete the transaction.
Completing(e) ==
  \/ listener.pc = "ack_complete" /\ listener.on = e
  \/ \E v \in RunsOf(e) : worker[v] = "ack_complete" \/ timer[v] = "ack_complete"

CompletedIsMarked ==
  \A e \in Exchanges : completed[e] => Marked(e) \/ \E v \in RunsOf(e) : Marking(v)

MarkedIsCompleted ==
  \A e \in Confirmable : Marked(e) => completed[e] \/ Completing(e)

\* Where a run has marked the request.
PastMark == {"retransmission", "send", "done"}

\* What happens to a run only when its request is marked.
BeforeMark(w) ==
  /\ worker[w] \notin Telling \cup PastMark /\ timer[w] \notin Telling
  /\ retransmitter[w].pc = "idle"
  /\ Chosen(w) # "CON"
  /\ w \in replies => reply[w].type \notin {"CON", "NON"}

MarkedBefore ==
  /\ \A w \in Runs : Marked(Of(w)) \/ BeforeMark(w)
  /\ listener.pc \in Telling \cup {"if_event", "set_event", "with"} => Marked(listener.on)

CompletedBefore ==
  /\ listener.pc = "resend" => completed[listener.on]
  /\ \A w \in Runs : Marking(w) => completed[Of(w)]

\* The response of a transaction is of one of its runs.
ResponsesAreOwn ==
  \A e \in Exchanges : response[e] # None => Of(response[e]) = e

\* An answer without a type has no mid yet, and is not sent.
HasType(w) ==
  w \in replies \/ reply[w].numbered \/ retransmitter[w].pc # "idle" => reply[w].type # "none"
SentIsTyped == \A w \in Runs : HasType(w)

SettleInv == /\ CompletedIsMarked /\ MarkedIsCompleted
             /\ MarkedBefore /\ CompletedBefore /\ ResponsesAreOwn /\ SentIsTyped

\* What a step does to the two flags and to the threads between the two writes.
Settles ==
  /\ \A e \in Exchanges :
       /\ Marked(e) => Marked(e)'
       /\ completed[e] => completed'[e]
       /\ completed'[e] => completed[e] \/ Marked(e)' \/ \E v \in RunsOf(e) : Marking(v)'
  /\ \A e \in Confirmable : Marked(e)' => Marked(e) \/ completed'[e] \/ Completing(e)'
  /\ \A v \in Runs :
       /\ Marking(v) => Marking(v)' \/ Marked(Of(v))'
       /\ worker[v] = "ack_complete" => worker'[v] = "ack_complete" \/ completed'[Of(v)]
       /\ timer[v] = "ack_complete" => timer'[v] = "ack_complete" \/ completed'[Of(v)]
  /\ listener.pc = "ack_complete" => UNCHANGED listener \/ completed'[listener.on]

\* Such a step keeps the flags in agreement.
LEMMA SettlesKeeps ==
  ASSUME SettleInv, Settles
  PROVE  CompletedIsMarked' /\ MarkedIsCompleted'
<1>1. ASSUME NEW e \in Exchanges, completed'[e]
      PROVE  Marked(e)' \/ \E v \in RunsOf(e) : Marking(v)'
  <2>1. CASE completed[e] /\ ~Marked(e)
    <3>1. PICK v \in RunsOf(e) : Marking(v)
      BY <2>1 DEF SettleInv, CompletedIsMarked
    <3>2. v \in Runs /\ Of(v) = e
      BY DEF RunsOf
    <3>3. QED  BY <3>1, <3>2 DEF Settles
  <2>2. CASE ~completed[e] \/ Marked(e)
    BY <1>1, <2>2 DEF Settles
  <2>3. QED  BY <2>1, <2>2
<1>2. ASSUME NEW e \in Confirmable, Marked(e)'
      PROVE  completed'[e] \/ Completing(e)'
  <2>1. CASE Marked(e) /\ ~completed'[e]
    <3>1. Completing(e)
      BY <2>1, ConfirmableAssumption DEF SettleInv, MarkedIsCompleted, Settles
    <3>2. CASE listener.pc = "ack_complete" /\ listener.on = e
      BY <2>1, <3>2 DEF Settles, Completing
    <3>3. ASSUME NEW v \in RunsOf(e), worker[v] = "ack_complete" \/ timer[v] = "ack_complete"
          PROVE  Completing(e)'
      <4>1. v \in Runs /\ Of(v) = e
        BY DEF RunsOf
      <4>2. worker'[v] = "ack_complete" \/ timer'[v] = "ack_complete"
        BY <2>1, <3>3, <4>1 DEF Settles
      <4>3. QED  BY <4>2 DEF Completing, RunsOf
    <3>4. QED  BY <3>1, <3>2, <3>3 DEF Completing
  <2>2. CASE ~Marked(e) \/ completed'[e]
    BY <1>2, <2>2 DEF Settles
  <2>3. QED  BY <2>1, <2>2
<1>3. QED
  BY <1>1, <1>2 DEF CompletedIsMarked, MarkedIsCompleted, RunsOf

\* A thread that marks a request and goes on to complete its transaction.
LEMMA MarkSettles ==
  ASSUME TypeInv, SettleInv, NEW e \in Exchanges, MarkAcknowledged(e), Completing(e)',
         UNCHANGED reply, \A v \in Runs : worker[v] = "mark" => worker'[v] = "mark",
         \A v \in Runs : /\ worker[v] = "ack_complete" => worker'[v] = "ack_complete"
                         /\ timer[v] = "ack_complete" => timer'[v] = "ack_complete",
         listener.pc = "ack_complete" => UNCHANGED listener
  PROVE  Settles
<1>1. request' = [request EXCEPT ![e] = "acknowledged"] /\ completed' = completed
  BY DEF MarkAcknowledged
<1>2. \A d \in Exchanges : (Marked(d)' <=> (Marked(d) \/ d = e))
  BY <1>1 DEF Marked, TypeInv, TypeOK
<1>3. \A d \in Confirmable : Marked(d)' => Marked(d) \/ Completing(d)'
  BY <1>2, ConfirmableAssumption
<1>4. \A v \in Runs : Marking(v) => Marking(v)'
  BY DEF Marking
<1>5. QED  BY <1>1, <1>2, <1>3, <1>4 DEF Settles

\* A thread that has marked the request, or is about to, completes it.
LEMMA CompleteSettles ==
  ASSUME TypeInv, SettleInv, NEW e \in Exchanges, Complete(e),
         Marked(e) \/ \E v \in RunsOf(e) : Marking(v)',
         \A v \in Runs : worker[v] = "mark" => worker'[v] = "mark",
         \A v \in Runs : Of(v) # e => worker'[v] = worker[v] /\ timer'[v] = timer[v],
         listener.on = e \/ UNCHANGED listener
  PROVE  Settles
<1>1. completed' = [completed EXCEPT ![e] = TRUE] /\ request' = request /\ reply' = reply
  BY DEF Complete
<1>2. \A d \in Exchanges : /\ (completed'[d] <=> (completed[d] \/ d = e))
                           /\ (Marked(d)' <=> Marked(d))
  BY <1>1 DEF Marked, TypeInv, TypeOK
<1>3. \A v \in Runs : Marking(v) => Marking(v)'
  BY <1>1 DEF Marking
<1>4. \A v \in Runs : Of(v) # e \/ completed'[Of(v)]
  BY <1>2, RunExchange
<1>5. \A d \in Confirmable : Marked(d)' => Marked(d)
  BY <1>2, ConfirmableAssumption
<1>6. \A d \in Exchanges : /\ Marked(d) => Marked(d)'
                           /\ completed[d] => completed'[d]
                           /\ completed'[d] => completed[d] \/ Marked(d)' \/ \E v \in RunsOf(d) : Marking(v)'
  BY <1>2
<1>7. listener.pc = "ack_complete" => UNCHANGED listener \/ completed'[listener.on]
  BY <1>2
<1>8. QED  BY <1>3, <1>4, <1>5, <1>6, <1>7 DEF Settles

\* A step that writes neither flag.
LEMMA QuietSettles ==
  ASSUME UNCHANGED <<request, completed>>,
         \A v \in Runs : /\ Marking(v) => Marking(v)'
                         /\ worker[v] = "ack_complete" => worker'[v] = "ack_complete"
                         /\ timer[v] = "ack_complete" => timer'[v] = "ack_complete",
         listener.pc = "ack_complete" => UNCHANGED listener
  PROVE  Settles
<1>1. \A e \in Exchanges : completed'[e] = completed[e] /\ (Marked(e)' <=> Marked(e))
  BY DEF Marked
<1>2. \A e \in Confirmable : Marked(e)' <=> Marked(e)
  BY DEF Marked
<1>3. QED  BY <1>1, <1>2 DEF Settles

\* The listener's steps.  What it sends again is the answer of a transaction that is
\* completed: its request is marked, or the answer is the ACK.
LEMMA ListenerSettleStep ==
  ASSUME TypeInv, RerunInv, SettleInv, ListenerStep
  PROVE  SettleInv'
<1> USE DEF TypeInv, TypeOK, ListenerHasExchange
<1>1. ASSUME \/ ListenerLoop \/ ListenerTimeout \/ ListenerIfCompleted \/ ListenerIfPending
             \/ ListenerIfDue \/ ListenerSendAck \/ ListenerIfEvent \/ ListenerSetEvent
      PROVE  SettleInv'
  <2>1. /\ UNCHANGED <<completed, request, response, reply, worker, timer, retransmitter, replies>>
        /\ listener.pc # "ack_complete"
        /\ listener'.pc \notin Telling
        /\ listener'.pc \in {"if_event", "set_event", "with"} =>
             listener.pc \in {"if_event", "set_event", "with"} /\ listener'.on = listener.on
        /\ listener'.pc = "resend" => completed[listener'.on]
    BY <1>1 DEF ListenerLoop, ListenerTimeout, ListenerIfCompleted, ListenerIfPending, ListenerIfDue,
       ListenerSendAck, ListenerIfEvent, ListenerSetEvent, ListenerOnly, Goto, NextMessage, objects,
       Telling, ListenerPcs
  <2>2. Settles
    BY <2>1, QuietSettles DEF Marking
  <2>3. QED
    BY <2>1, <2>2, SettlesKeeps DEF SettleInv, MarkedBefore, BeforeMark, CompletedBefore, ResponsesAreOwn, SentIsTyped, HasType,
       Marked, Marking, Chosen
<1>2. ASSUME ListenerResend PROVE SettleInv'
  <2> DEFINE r == response[listener.on]
  <2>1. /\ UNCHANGED <<completed, request, response, reply, worker, timer, retransmitter>>
        /\ listener.pc = "resend" /\ listener'.pc \in {"dead", "loop"}
        /\ replies' = replies \/ (r # None /\ reply[r].numbered /\ replies' = replies \cup {r})
    BY <1>2 DEF ListenerResend, Goto, AfterResend, NextMessage, SendReply, objects
  <2>2. Settles
    BY <2>1, QuietSettles DEF Marking
  <2>3. ASSUME r # None PROVE Marked(Of(r)) \/ reply[r].type = "ACK"
    <3>1. listener.on \in Exchanges /\ completed[listener.on] /\ Of(r) = listener.on
      BY <2>1, <2>3 DEF SettleInv, CompletedBefore, ResponsesAreOwn
    <3>2. CASE ~Marked(listener.on)
      <4>1. PICK v \in RunsOf(listener.on) : Marking(v)
        BY <3>1, <3>2 DEF SettleInv, CompletedIsMarked
      <4>2. response[Of(v)] = v /\ Of(v) = listener.on
        BY <4>1 DEF Marking, RunsOf, OwnResponse, Answering, WorkerHolding, WorkerPcs
      <4>3. QED  BY <4>1, <4>2 DEF Marking
    <3>3. QED  BY <3>1, <3>2
  <2>4. \A w \in Runs : BeforeMark(w) => BeforeMark(w)' \/ Marked(Of(w))
    BY <2>1, <2>3 DEF BeforeMark, Chosen
  <2>5. \A w \in Runs : Marked(Of(w)) => Marked(Of(w))'
    BY <2>1 DEF Marked
  <2>6. MarkedBefore' /\ CompletedBefore' /\ ResponsesAreOwn' /\ SentIsTyped'
    BY <2>1, <2>4, <2>5 DEF SettleInv, MarkedBefore, CompletedBefore, ResponsesAreOwn, SentIsTyped, HasType, Marking, Telling
  <2>7. QED  BY <2>2, <2>6, SettlesKeeps DEF SettleInv
<1>3. ASSUME ListenerMarkAck PROVE SettleInv'
  <2>1. /\ listener.pc = "ack_mark" /\ MarkAcknowledged(listener.on)
        /\ request' = [request EXCEPT ![listener.on] = "acknowledged"]
        /\ UNCHANGED <<completed, response, reply, worker, timer, retransmitter, replies>>
        /\ listener'.pc = "ack_complete" /\ listener'.on = listener.on
    BY <1>3 DEF ListenerMarkAck, MarkAcknowledged, Goto, ListenerPcs
  <2>2. listener.on \in Exchanges /\ Completing(listener.on)'
    BY <2>1 DEF Completing
  <2>3. Settles
    BY <2>1, <2>2, MarkSettles
  <2>4. \A e \in Exchanges : (Marked(e)' <=> (Marked(e) \/ e = listener.on))
    BY <2>1, <2>2 DEF Marked
  <2>5. QED
    BY <2>1, <2>2, <2>3, <2>4, RunExchange, SettlesKeeps DEF SettleInv, MarkedBefore, BeforeMark, SentIsTyped, HasType,
       CompletedBefore, ResponsesAreOwn, Marking, Chosen
<1>4. ASSUME ListenerComplete PROVE SettleInv'
  <2>1. /\ listener.pc = "ack_complete" /\ Complete(listener.on)
        /\ completed' = [completed EXCEPT ![listener.on] = TRUE]
        /\ UNCHANGED <<request, response, reply, worker, timer, retransmitter, replies>>
        /\ listener'.pc = "ack_send" /\ listener'.on = listener.on
    BY <1>4 DEF ListenerComplete, Complete, Goto, ListenerPcs
  <2>2. listener.on \in Exchanges /\ Marked(listener.on)
    BY <2>1 DEF SettleInv, MarkedBefore, Telling
  <2>3. Settles
    BY <2>1, <2>2, CompleteSettles
  <2>4. QED
    BY <2>1, <2>2, <2>3, RunExchange, SettlesKeeps DEF SettleInv, MarkedBefore, BeforeMark, SentIsTyped, HasType,
       CompletedBefore, ResponsesAreOwn, Marked, Marking, Chosen
<1>5. ASSUME ListenerLocked PROVE SettleInv'
  <2>1. /\ listener.pc = "with" /\ listener'.pc = "loop"
        /\ completed' = [completed EXCEPT ![listener.on] = @ \/ listener.empty = "RST"]
        /\ UNCHANGED <<request, response, reply, worker, timer, retransmitter, replies>>
    BY <1>5 DEF ListenerLocked, NextMessage
  <2>2. listener.on \in Exchanges /\ Marked(listener.on)
    BY <2>1 DEF SettleInv, MarkedBefore
  <2>3. \A e \in Exchanges : /\ (Marked(e)' <=> Marked(e))
                             /\ completed[e] => completed'[e]
                             /\ completed'[e] => completed[e] \/ e = listener.on
    BY <2>1, <2>2 DEF Marked
  <2>4. Settles
    <3>1. \A v \in Runs : Marking(v) => Marking(v)'
      BY <2>1 DEF Marking
    <3>2. \A e \in Confirmable : Marked(e)' => Marked(e)
      BY <2>3, ConfirmableAssumption
    <3>3. QED  BY <2>1, <2>2, <2>3, <3>1, <3>2 DEF Settles
  <2>5. MarkedBefore' /\ CompletedBefore' /\ ResponsesAreOwn' /\ SentIsTyped'
    <3>1. \A w \in Runs : Marked(Of(w)) => Marked(Of(w))'
      BY <2>3, RunExchange
    <3>2. \A w \in Runs : completed[Of(w)] => completed'[Of(w)]
      BY <2>3, RunExchange
    <3>3. QED
      BY <2>1, <3>1, <3>2 DEF SettleInv, MarkedBefore, BeforeMark, CompletedBefore, ResponsesAreOwn, SentIsTyped, HasType,
         Marking, Chosen, Telling
  <2>6. QED  BY <2>4, <2>5, SettlesKeeps DEF SettleInv
<1>6. ASSUME NEW w \in Runs, ListenerSpawn(w) PROVE SettleInv'
  <2>1. /\ listener.pc = "spawn" /\ worker[w] = "idle"
        /\ worker' = [worker EXCEPT ![w] = "with"] /\ listener'.pc = "loop"
        /\ UNCHANGED <<completed, request, response, reply, timer, retransmitter, replies>>
    BY <1>6 DEF ListenerSpawn, NextMessage, objects
  <2>2. Settles
    BY <2>1, QuietSettles DEF Marking
  <2>3. \A v \in Runs : BeforeMark(v) => BeforeMark(v)'
    BY <2>1 DEF BeforeMark, Chosen, Branches, Telling, PastMark
  <2>4. QED
    BY <2>1, <2>2, <2>3, SettlesKeeps DEF SettleInv, MarkedBefore, CompletedBefore, ResponsesAreOwn, SentIsTyped, HasType,
       Marked, Marking, Telling
<1>7. QED
  BY <1>1, <1>2, <1>3, <1>4, <1>5, <1>6 DEF ListenerStep

\* A step of a thread of run w touches only what is the run's own.
OnlyOf(w) ==
  /\ UNCHANGED listener
  /\ \A v \in Runs \ {w} : /\ worker'[v] = worker[v] /\ timer'[v] = timer[v]
                           /\ retransmitter'[v] = retransmitter[v] /\ reply'[v] = reply[v]
  /\ replies' \subseteq replies \cup {w}
  /\ \A e \in Exchanges : response'[e] = response[e] \/ (response'[e] = w /\ e = Of(w))

\* Then the invariant is kept if it is for that run.
LEMMA RunKeeps ==
  ASSUME TypeInv, SettleInv, NEW w \in Runs, OnlyOf(w), Settles,
         Marked(Of(w))' \/ BeforeMark(w)', Marking(w)' => completed'[Of(w)], HasType(w)'
  PROVE  SettleInv'
<1>1. /\ \A e \in Exchanges : Marked(e) => Marked(e)'
      /\ \A e \in Exchanges : completed[e] => completed'[e]
  BY DEF Settles
<1>2. \A v \in Runs \ {w} : BeforeMark(v) => BeforeMark(v)'
  BY DEF OnlyOf, BeforeMark, Chosen
<1>3. \A v \in Runs \ {w} : (Marking(v)' => Marking(v)) /\ (HasType(v) => HasType(v)')
  BY DEF OnlyOf, Marking, HasType
<1>4. listener.pc \notin {"loop", "recvfrom", "closed", "dead"} => listener.on \in Exchanges
  BY DEF TypeInv, ListenerHasExchange
<1>5. MarkedBefore'
  BY <1>1, <1>2, <1>4, RunExchange DEF SettleInv, MarkedBefore, OnlyOf, Telling
<1>6. CompletedBefore'
  BY <1>1, <1>3, <1>4, RunExchange DEF SettleInv, CompletedBefore, OnlyOf
<1>7. ResponsesAreOwn' /\ SentIsTyped'
  BY <1>3 DEF SettleInv, ResponsesAreOwn, SentIsTyped, OnlyOf
<1>8. QED  BY <1>5, <1>6, <1>7, SettlesKeeps DEF SettleInv

LEMMA WorkerIsOnlyOf ==
  ASSUME TypeInv, NEW w \in Runs, WorkerStep(w)
  PROVE  OnlyOf(w)
<1> USE RunExchange DEF TypeInv, TypeOK, OnlyOf, WorkerGoto, WorkerOnly, objects
<1>1. worker[w] \in WorkerHolding \ {"layers"} => response[Of(w)] = w
  BY DEF OwnResponse, Answering
<1>2. CASE WorkerBegin(w) \/ WorkerReturn(w) \/ WorkerFail(w) \/ WorkerStopTimer(w) \/ WorkerSendAck(w)
  BY <1>2 DEF WorkerBegin, WorkerReturn, WorkerFail, WorkerStopTimer, WorkerSendAck
<1>3. CASE WorkerBlock(w) \/ WorkerRender(w)
  BY <1>3 DEF WorkerBlock, WorkerRender
<1>4. CASE WorkerSeparate(w)
  <2>1. /\ \E pc \in {"ack_mark", "stop_timer"} : worker' = [worker EXCEPT ![w] = pc]
        /\ UNCHANGED <<listener, timer, retransmitter, reply, replies, response>>
    BY <1>4 DEF WorkerSeparate
  <2>2. QED  BY <2>1
<1>5. CASE WorkerMarkAck(w) \/ WorkerCompleteAck(w) \/ WorkerComplete(w) \/ WorkerMark(w)
  BY <1>5 DEF WorkerMarkAck, WorkerCompleteAck, WorkerComplete, WorkerMark, MarkAcknowledged, Complete
<1>6. CASE WorkerChoose(w)
  BY <1>6 DEF WorkerChoose
<1>7. CASE WorkerSetType(w) \/ WorkerSetMid(w)
  BY <1>1, <1>7 DEF WorkerSetType, WorkerSetMid, WorkerHolding, WorkerPcs, Branches
<1>8. CASE WorkerRegister(w) \/ WorkerStartRetransmission(w)
  BY <1>8 DEF WorkerRegister, WorkerStartRetransmission
<1>9. CASE WorkerSend(w)
  BY <1>1, <1>9 DEF WorkerSend, SendReply, WorkerHolding, WorkerPcs
<1>10. QED  BY <1>2, <1>3, <1>4, <1>5, <1>6, <1>7, <1>8, <1>9 DEF WorkerStep

\* The worker's steps.
LEMMA WorkerSettleStep ==
  ASSUME TypeInv, RerunInv, AnnounceInv, SettleInv, NEW w \in Runs, WorkerStep(w)
  PROVE  SettleInv'
<1> USE RunExchange DEF TypeInv, TypeOK, WorkerGoto, WorkerOnly, objects
<1>1. OnlyOf(w)
  BY WorkerIsOnlyOf
<1>2. /\ worker[w] \in WorkerHolding \ {"layers"} => response[Of(w)] = w
      /\ reply[w].type = "none" <=> worker[w] \in Untyped
      /\ Marked(Of(w)) \/ BeforeMark(w)
      /\ HasType(w)
  BY DEF OwnResponse, Answering, AnnounceInv, TypedOnce, SettleInv, MarkedBefore, SentIsTyped
<1>3. ASSUME \/ WorkerBegin(w) \/ WorkerReturn(w) \/ WorkerFail(w) \/ WorkerStopTimer(w)
             \/ WorkerSendAck(w) \/ WorkerBlock(w) \/ WorkerRender(w)
      PROVE  SettleInv'
  <2>1. /\ UNCHANGED <<request, completed, reply, replies, retransmitter>>
        /\ \E pc \in {"layers", "render", "failed", "if_acknowledged", "stop_timer"} :
             worker' = [worker EXCEPT ![w] = pc]
        /\ worker[w] \notin {"mark", "ack_complete"} \cup Branches
    BY <1>3 DEF WorkerBegin, WorkerReturn, WorkerFail, WorkerStopTimer, WorkerSendAck, WorkerBlock, WorkerRender,
       Branches
  <2>0. \A v \in Runs : timer'[v] = timer[v] \/ (timer'[v] \in {"armed", "done"} /\ timer[v] \in {"idle", "armed"})
    <3>1. CASE WorkerBegin(w)
      BY <3>1 DEF WorkerBegin, AnnounceInv, TimerIsStarted
    <3>2. CASE WorkerStopTimer(w)
      BY <3>2 DEF WorkerStopTimer
    <3>3. CASE UNCHANGED timer
      BY <3>3
    <3>4. QED
      BY <1>3, <3>1, <3>2, <3>3 DEF WorkerReturn, WorkerFail, WorkerSendAck, WorkerBlock, WorkerRender
  <2>2. Settles
    BY <2>1, <2>0, QuietSettles, <1>1 DEF Marking, OnlyOf
  <2>3. Marked(Of(w)) => Marked(Of(w))'
    BY <2>1 DEF Marked
  <2>4. BeforeMark(w) => BeforeMark(w)'
    BY <2>1, <2>0 DEF BeforeMark, Chosen, Branches, Telling, PastMark
  <2>5. ~Marking(w)' /\ HasType(w)'
    BY <1>2, <2>1 DEF Marking, HasType
  <2>6. QED  BY <1>1, <1>2, <2>2, <2>3, <2>4, <2>5, RunKeeps
<1>4. ASSUME WorkerSeparate(w) PROVE SettleInv'
  <2>1. /\ UNCHANGED <<completed, reply, replies, timer, retransmitter>> /\ worker[w] = "render"
        /\ \E pc \in {"ack_mark", "stop_timer"} : worker' = [worker EXCEPT ![w] = pc]
    BY <1>4 DEF WorkerSeparate
  <2>2. \A e \in Exchanges : Marked(e) => Marked(e)'
    BY <1>4 DEF WorkerSeparate, Marked
  <2>3. \A e \in Confirmable : Marked(e)' => Marked(e)
    <3>1. CASE Of(w) \in Confirmable
      BY <1>4, <3>1 DEF WorkerSeparate, Marked
    <3>2. CASE Of(w) \notin Confirmable
      <4>1. request' = [request EXCEPT ![Of(w)] = "acknowledged"]
        BY <1>4, <3>2 DEF WorkerSeparate
      <4>2. QED  BY <3>2, <4>1, ConfirmableAssumption DEF Marked
    <3>3. QED  BY <3>1, <3>2
  <2>4. Settles
    BY <1>1, <2>1, <2>2, <2>3 DEF Settles, Marking, OnlyOf
  <2>5. BeforeMark(w) => BeforeMark(w)'
    BY <2>1 DEF BeforeMark, Chosen, Branches, Telling, PastMark
  <2>6. ~Marking(w)' /\ HasType(w)'
    BY <1>2, <2>1 DEF Marking, HasType
  <2>7. QED  BY <1>1, <1>2, <2>2, <2>4, <2>5, <2>6, RunKeeps
<1>5. ASSUME WorkerMarkAck(w) PROVE SettleInv'
  <2>1. /\ UNCHANGED <<completed, reply, replies, timer, retransmitter>> /\ worker[w] = "ack_mark"
        /\ worker' = [worker EXCEPT ![w] = "ack_complete"] /\ MarkAcknowledged(Of(w))
    BY <1>5 DEF WorkerMarkAck, MarkAcknowledged
  <2>2. Completing(Of(w))'
    BY <2>1 DEF Completing, RunsOf
  <2>3. Settles
    BY <1>1, <2>1, <2>2, MarkSettles DEF OnlyOf
  <2>4. Marked(Of(w))'
    BY <2>1 DEF MarkAcknowledged, Marked
  <2>5. ~Marking(w)' /\ HasType(w)'
    BY <1>2, <2>1 DEF Marking, HasType
  <2>6. QED  BY <1>1, <2>3, <2>4, <2>5, RunKeeps
<1>6. ASSUME WorkerCompleteAck(w) PROVE SettleInv'
  <2>1. /\ UNCHANGED <<request, reply, replies, timer, retransmitter>> /\ worker[w] = "ack_complete"
        /\ worker' = [worker EXCEPT ![w] = "ack_send"] /\ Complete(Of(w))
    BY <1>6 DEF WorkerCompleteAck, Complete
  <2>2. Marked(Of(w)) /\ Marked(Of(w))'
    BY <1>2, <2>1 DEF BeforeMark, Telling, Marked
  <2>3. Settles
    BY <1>1, <2>1, <2>2, CompleteSettles DEF OnlyOf
  <2>4. ~Marking(w)' /\ HasType(w)'
    BY <1>2, <2>1 DEF Marking, HasType
  <2>5. QED  BY <1>1, <2>2, <2>3, <2>4, RunKeeps
<1>7. ASSUME WorkerChoose(w) PROVE SettleInv'
  <2> DEFINE type == M!ResponseType(RequestType(Of(w)), request[Of(w)])
  <2>1. /\ UNCHANGED <<request, completed, reply, replies, timer, retransmitter>>
        /\ worker[w] = "if_acknowledged" /\ worker' = [worker EXCEPT ![w] = type]
    BY <1>7 DEF WorkerChoose
  <2>2. type \in Branches /\ (type = "CON" => Marked(Of(w)))
    BY DEF M!ResponseType, RequestType, Branches, Marked
  <2> HIDE DEF type
  <2>3. Settles
    BY <1>1, <2>1, QuietSettles DEF OnlyOf, Marking
  <2>4. Marked(Of(w)) => Marked(Of(w))'
    BY <2>1 DEF Marked
  <2>5. ~Marked(Of(w)) /\ BeforeMark(w) => BeforeMark(w)'
    BY <2>1, <2>2 DEF BeforeMark, Chosen, Branches, Telling, PastMark
  <2>6. ~Marking(w)' /\ HasType(w)'
    BY <1>2, <2>1, <2>2 DEF Marking, HasType, Branches
  <2>7. QED  BY <1>1, <1>2, <2>3, <2>4, <2>5, <2>6, RunKeeps
<1>8. ASSUME WorkerSetType(w) PROVE SettleInv'
  <2>1. worker[w] \in Branches /\ response[Of(w)] = w
    BY <1>2, <1>8 DEF WorkerSetType, Branches, WorkerHolding, WorkerPcs
  <2>2. /\ UNCHANGED <<request, completed, replies, timer, retransmitter>>
        /\ worker' = [worker EXCEPT ![w] = "set_mid"] /\ reply' = [reply EXCEPT ![w].type = worker[w]]
    BY <1>8, <2>1 DEF WorkerSetType
  <2>3. Settles
    BY <1>1, <2>1, <2>2, QuietSettles DEF OnlyOf, Marking, Branches
  <2>4. Marked(Of(w)) => Marked(Of(w))'
    BY <2>2 DEF Marked
  <2>5. reply[w].type = "none" /\ w \notin replies
    BY <1>2, <2>1 DEF Untyped, HasType
  <2>6. reply'[w].type = worker[w] /\ worker[w] # "none"
    BY <2>1, <2>2 DEF Replies, Branches
  <2>7. BeforeMark(w) => BeforeMark(w)'
    BY <2>1, <2>2, <2>5, <2>6 DEF BeforeMark, Chosen, Branches, Telling, PastMark
  <2>8. ~Marking(w)' /\ HasType(w)'
    BY <2>2, <2>6 DEF Marking, HasType
  <2>9. QED  BY <1>1, <1>2, <2>3, <2>4, <2>7, <2>8, RunKeeps
<1>9. ASSUME WorkerSetMid(w) PROVE SettleInv'
  <2>1. worker[w] = "set_mid" /\ response[Of(w)] = w
    BY <1>2, <1>9 DEF WorkerSetMid, WorkerHolding, WorkerPcs
  <2>2. /\ UNCHANGED <<request, completed, replies, timer, retransmitter>>
        /\ \E pc \in {"complete", "register"} : worker' = [worker EXCEPT ![w] = pc]
    BY <1>9 DEF WorkerSetMid
  <2>3. \A v \in Runs : reply'[v].type = reply[v].type
    BY <1>9, <2>1 DEF WorkerSetMid, Replies
  <2>4. Settles
    BY <1>1, <2>1, <2>2, QuietSettles DEF OnlyOf, Marking
  <2>5. Marked(Of(w)) => Marked(Of(w))'
    BY <2>2 DEF Marked
  <2>6. BeforeMark(w) => BeforeMark(w)'
    BY <2>1, <2>2, <2>3 DEF BeforeMark, Chosen, Branches, Telling, PastMark
  <2>7. ~Marking(w)' /\ HasType(w)'
    BY <1>2, <2>1, <2>2, <2>3 DEF Marking, HasType, Untyped, Unchosen, Branches
  <2>8. QED  BY <1>1, <1>2, <2>4, <2>5, <2>6, <2>7, RunKeeps
<1>10. ASSUME WorkerComplete(w) PROVE SettleInv'
  <2>1. /\ UNCHANGED <<request, reply, replies, timer, retransmitter>> /\ worker[w] = "complete"
        /\ worker' = [worker EXCEPT ![w] = "mark"] /\ Complete(Of(w))
    BY <1>10 DEF WorkerComplete, Complete
  <2>2. reply[w].type = "ACK"
    BY <2>1 DEF RerunInv, OnlyConfirmableAcked, Chosen, Branches
  <2>3. Marking(w)' /\ w \in RunsOf(Of(w)) /\ completed'[Of(w)]
    BY <2>1, <2>2 DEF Marking, RunsOf, Complete
  <2>4. Settles
    BY <1>1, <2>1, <2>3, CompleteSettles DEF OnlyOf
  <2>5. Marked(Of(w)) => Marked(Of(w))'
    BY <2>1 DEF Marked
  <2>6. BeforeMark(w) => BeforeMark(w)'
    BY <2>1 DEF BeforeMark, Chosen, Branches, Telling, PastMark
  <2>7. HasType(w)'
    BY <1>2, <2>1 DEF HasType
  <2>8. QED  BY <1>1, <1>2, <2>3, <2>4, <2>5, <2>6, <2>7, RunKeeps
<1>11. ASSUME WorkerRegister(w) PROVE SettleInv'
  <2>1. /\ UNCHANGED <<request, completed, reply, replies, timer, retransmitter>> /\ worker[w] = "register"
        /\ worker' = [worker EXCEPT ![w] = "mark"]
    BY <1>11 DEF WorkerRegister
  <2>2. reply[w].type # "ACK"
    BY <2>1 DEF RerunInv, OnlyConfirmableAcked, Chosen, Branches
  <2>3. Settles
    BY <1>1, <2>1, QuietSettles DEF OnlyOf, Marking
  <2>4. Marked(Of(w)) => Marked(Of(w))'
    BY <2>1 DEF Marked
  <2>5. BeforeMark(w) => BeforeMark(w)'
    BY <2>1 DEF BeforeMark, Chosen, Branches, Telling, PastMark
  <2>6. ~Marking(w)' /\ HasType(w)'
    BY <1>2, <2>1, <2>2 DEF Marking, HasType
  <2>7. QED  BY <1>1, <1>2, <2>3, <2>4, <2>5, <2>6, RunKeeps
<1>12. ASSUME WorkerMark(w) PROVE SettleInv'
  <2>1. /\ UNCHANGED <<completed, reply, replies, timer, retransmitter>> /\ worker[w] = "mark"
        /\ \E pc \in {"retransmission", "send"} : worker' = [worker EXCEPT ![w] = pc]
        /\ request' = [request EXCEPT ![Of(w)] = "acknowledged"]
    BY <1>12 DEF WorkerMark, MarkAcknowledged
  <2>2. \A e \in Exchanges : (Marked(e)' <=> (Marked(e) \/ e = Of(w)))
    BY <2>1 DEF Marked
  <2>3. Of(w) \in Confirmable => Marked(Of(w)) \/ completed[Of(w)]
    <3>1. reply[w].type \in {"ACK", "NON", "CON"} /\ Chosen(w) = reply[w].type
      BY <1>2, <2>1 DEF Untyped, Unchosen, Branches, Replies, Chosen
    <3>2. CASE reply[w].type = "ACK"
      BY <2>1, <3>2 DEF SettleInv, CompletedBefore, Marking
    <3>3. CASE reply[w].type = "NON"
      BY <3>1, <3>3 DEF AnnounceInv, AnswerTypes
    <3>4. CASE reply[w].type = "CON"
      BY <1>2, <3>1, <3>4 DEF BeforeMark
    <3>5. QED  BY <3>1, <3>2, <3>3, <3>4
  <2>4. \A e \in Confirmable : Marked(e)' => Marked(e) \/ completed'[e]
    BY <2>1, <2>2, <2>3, ConfirmableAssumption
  <2>5. \A v \in Runs : Marking(v) => Marking(v)' \/ Marked(Of(v))'
    BY <2>1, <2>2 DEF Marking
  <2>6. Settles
    BY <1>1, <2>1, <2>2, <2>4, <2>5 DEF Settles, OnlyOf
  <2>7. ~Marking(w)' /\ HasType(w)' /\ Marked(Of(w))'
    BY <1>2, <2>1, <2>2 DEF Marking, HasType
  <2>8. QED  BY <1>1, <2>6, <2>7, RunKeeps
<1>13. ASSUME WorkerStartRetransmission(w) \/ WorkerSend(w) PROVE SettleInv'
  <2>1. /\ UNCHANGED <<request, completed, reply, timer>> /\ worker[w] \in {"retransmission", "send"}
        /\ \E pc \in {"send", "done"} : worker' = [worker EXCEPT ![w] = pc]
    BY <1>13 DEF WorkerStartRetransmission, WorkerSend
  <2>2. Marked(Of(w))'
    BY <1>2, <2>1 DEF BeforeMark, PastMark, Marked
  <2>3. Settles
    BY <1>1, <2>1, QuietSettles DEF OnlyOf, Marking
  <2>4. ~Marking(w)' /\ HasType(w)'
    BY <1>2, <2>1 DEF Marking, HasType, Untyped, Unchosen, Branches
  <2>5. QED  BY <1>1, <2>2, <2>3, <2>4, RunKeeps
<1>14. QED
  BY <1>3, <1>4, <1>5, <1>6, <1>7, <1>8, <1>9, <1>10, <1>11, <1>12, <1>13 DEF WorkerStep

\* Timers and retransmissions: what is sent again has been sent before.
LEMMA OthersSettleStep ==
  ASSUME TypeInv, SettleInv, NEW w \in Runs, TimerStep(w) \/ RetransmitterStep(w)
  PROVE  SettleInv'
<1> USE RunExchange DEF TypeInv, TypeOK, RetransmitterOnly, RetransmitterGoto, objects
<1>1. Marked(Of(w)) \/ BeforeMark(w)
  BY DEF SettleInv, MarkedBefore
<1>2. HasType(w) /\ (Marking(w) => completed[Of(w)])
  BY DEF SettleInv, SentIsTyped, CompletedBefore
<1>3. ASSUME TimerFire(w) \/ TimerSendAck(w) PROVE SettleInv'
  <2>1. /\ UNCHANGED <<request, completed, response, reply, replies, worker, retransmitter, listener>>
        /\ \E pc \in {"ack_mark", "done"} : timer' = [timer EXCEPT ![w] = pc]
        /\ timer[w] # "ack_complete"
    BY <1>3 DEF TimerFire, TimerSendAck
  <2>2. Settles /\ OnlyOf(w)
    BY <2>1, QuietSettles DEF Marking, OnlyOf
  <2>3. (Marked(Of(w)) => Marked(Of(w))') /\ (BeforeMark(w) => BeforeMark(w)')
    BY <2>1 DEF Marked, BeforeMark, Chosen, Telling
  <2>4. (Marking(w)' => completed'[Of(w)]) /\ HasType(w)'
    BY <1>2, <2>1 DEF Marking, HasType
  <2>5. QED  BY <1>1, <2>2, <2>3, <2>4, RunKeeps
<1>4. ASSUME TimerMarkAck(w) PROVE SettleInv'
  <2>1. /\ UNCHANGED <<completed, response, reply, replies, worker, retransmitter, listener>>
        /\ timer' = [timer EXCEPT ![w] = "ack_complete"] /\ MarkAcknowledged(Of(w))
    BY <1>4 DEF TimerMarkAck, MarkAcknowledged
  <2>2. Completing(Of(w))'
    BY <2>1 DEF Completing, RunsOf
  <2>3. Settles /\ OnlyOf(w)
    BY <2>1, <2>2, MarkSettles DEF OnlyOf
  <2>4. Marked(Of(w))'
    BY <2>1 DEF MarkAcknowledged, Marked
  <2>5. (Marking(w)' => completed'[Of(w)]) /\ HasType(w)'
    BY <1>2, <2>1 DEF Marking, HasType
  <2>6. QED  BY <2>3, <2>4, <2>5, RunKeeps
<1>5. ASSUME TimerComplete(w) PROVE SettleInv'
  <2>1. /\ UNCHANGED <<request, response, reply, replies, worker, retransmitter, listener>>
        /\ timer[w] = "ack_complete" /\ timer' = [timer EXCEPT ![w] = "ack_send"] /\ Complete(Of(w))
    BY <1>5 DEF TimerComplete, Complete
  <2>2. Marked(Of(w)) /\ Marked(Of(w))'
    BY <1>1, <2>1 DEF BeforeMark, Telling, Marked
  <2>3. Settles /\ OnlyOf(w)
    BY <2>1, <2>2, CompleteSettles DEF OnlyOf
  <2>4. completed'[Of(w)] /\ HasType(w)'
    BY <1>2, <2>1 DEF Complete, HasType
  <2>5. QED  BY <2>2, <2>3, <2>4, RunKeeps
<1>6. ASSUME RetransmitterStep(w) PROVE SettleInv'
  <2>1. /\ UNCHANGED <<request, completed, response, worker, timer, listener>>
        /\ retransmitter[w].pc # "idle" /\ replies' \subseteq replies \cup {w}
        /\ \A v \in Runs \ {w} : retransmitter'[v] = retransmitter[v] /\ reply'[v] = reply[v]
    BY <1>6 DEF RetransmitterStep, RetransmitterBegin, RetransmitterWhile, RetransmitterWake, RetransmitterSend,
       RetransmitterIfAnswered, RetransmitterGiveUp, RetransmitterCleanup, SendReply
  <2>2. reply'[w].type = reply[w].type
    BY <1>6 DEF RetransmitterStep, RetransmitterBegin, RetransmitterWhile, RetransmitterWake, RetransmitterSend,
       RetransmitterIfAnswered, RetransmitterGiveUp, RetransmitterCleanup, Replies
  <2>3. \A v \in Runs : Marking(v)' <=> Marking(v)
    BY <2>1, <2>2 DEF Marking
  <2>4. Settles /\ OnlyOf(w)
    BY <2>1, <2>3, QuietSettles DEF OnlyOf
  <2>5. Marked(Of(w))' /\ HasType(w)'
    BY <1>1, <1>2, <2>1, <2>2 DEF BeforeMark, HasType, Marked
  <2>6. QED  BY <1>2, <2>1, <2>3, <2>4, <2>5, RunKeeps
<1>7. QED
  BY <1>3, <1>4, <1>5, <1>6 DEF TimerStep

\* A client answers a message of its own, whose request is marked.
LEMMA EnvironmentSettleStep ==
  ASSUME TypeInv, SettleInv, Environment
  PROVE  SettleInv'
<1> USE RunExchange DEF TypeInv, TypeOK, objects, threads
<1>1. ASSUME NEW w \in Runs, NEW type \in {"ACK", "RST"}, ListenerReceiveEmpty(w, type) PROVE SettleInv'
  <2>1. /\ UNCHANGED <<completed, response, worker, timer, retransmitter, replies>>
        /\ listener.pc = "recvfrom" /\ w \in replies /\ reply[w].type \in {"CON", "NON"}
    BY <1>1 DEF ListenerReceiveEmpty
  <2>2. Marked(Of(w))
    BY <2>1 DEF SettleInv, MarkedBefore, BeforeMark
  <2>3. /\ \A e \in Exchanges : Marked(e)' <=> Marked(e)
        /\ \A v \in Runs : reply'[v].type = reply[v].type /\ reply'[v].numbered = reply[v].numbered
        /\ listener'.pc \in {"if_event", "loop"} /\ (listener'.pc = "if_event" => listener'.on = Of(w))
    <3>1. CASE w \in midTable
      <4>0. reply' = [reply EXCEPT ![response[Of(w)]].flag =
                        M!ResponseFlagAfterEmpty(type, request[Of(w)], @)]
        BY <1>1, <3>1 DEF ListenerReceiveEmpty
      <4>1. \A v \in Runs : reply'[v].type = reply[v].type /\ reply'[v].numbered = reply[v].numbered
        BY <4>0 DEF Replies
      <4>2. request' = [request EXCEPT ![Of(w)] = M!RequestFlagAfterEmpty(type, @)]
        BY <1>1, <3>1 DEF ListenerReceiveEmpty
      <4>3. M!RequestFlagAfterEmpty(type, request[Of(w)]) = "acknowledged"
        BY <2>2 DEF M!RequestFlagAfterEmpty, Marked
      <4>4. \A e \in Exchanges : Marked(e)' <=> Marked(e)
        BY <2>2, <4>2, <4>3 DEF Marked
      <4>5. QED  BY <1>1, <3>1, <4>1, <4>4 DEF ListenerReceiveEmpty
    <3>2. CASE w \notin midTable
      BY <1>1, <3>2 DEF ListenerReceiveEmpty, NextMessage, Marked
    <3>3. QED  BY <3>1, <3>2
  <2>4. \A v \in Runs : /\ (Marking(v)' <=> Marking(v)) /\ (BeforeMark(v) => BeforeMark(v)')
                        /\ (HasType(v) => HasType(v)')
    BY <2>1, <2>3 DEF Marking, BeforeMark, Chosen, HasType
  <2>5. Settles
    <3>1. \A e \in Confirmable : Marked(e)' => Marked(e)
      BY <2>3, ConfirmableAssumption
    <3>2. QED  BY <2>1, <2>3, <2>4, <3>1 DEF Settles
  <2>6. QED
    BY <2>1, <2>2, <2>3, <2>4, <2>5, SettlesKeeps DEF SettleInv, MarkedBefore, CompletedBefore, ResponsesAreOwn,
       SentIsTyped, Telling
<1>2. ASSUME \/ \E e \in Exchanges : ListenerReceiveRequest(e) \/ Purge(e)
             \/ Close
      PROVE  SettleInv'
  <2>1. /\ UNCHANGED <<request, completed, response, reply, worker, timer, retransmitter, replies>>
        /\ UNCHANGED listener \/ (listener.pc = "recvfrom" /\ listener'.pc \in {"spawn", "if_completed"})
    <3>1. ASSUME NEW e \in Exchanges, ListenerReceiveRequest(e)
          PROVE  /\ UNCHANGED <<request, completed, response, reply, worker, timer, retransmitter, replies>>
                 /\ listener.pc = "recvfrom" /\ listener'.pc \in {"spawn", "if_completed"}
      BY <3>1 DEF ListenerReceiveRequest
    <3>2. ASSUME NEW e \in Exchanges, Purge(e)
          PROVE  UNCHANGED <<request, completed, response, reply, worker, timer, retransmitter, replies, listener>>
      BY <3>2 DEF Purge
    <3>3. CASE Close
      BY <3>3 DEF Close
    <3>4. QED  BY <1>2, <3>1, <3>2, <3>3
  <2>2. Settles
    BY <2>1, QuietSettles DEF Marking
  <2>3. QED
    BY <2>1, <2>2, SettlesKeeps DEF SettleInv, MarkedBefore, BeforeMark, CompletedBefore, ResponsesAreOwn,
       SentIsTyped, HasType, Marked, Marking, Chosen, Telling
<1>3. QED  BY <1>1, <1>2 DEF Environment

\* The two flags of a request agree but for a thread that is between its two
\* writes, and what follows a write finds it made (messagelayer.py 225-291).
THEOREM SettleInvariant == Spec => []SettleInv
<1>1. Init => SettleInv
  BY RunExchange, ConfirmableAssumption DEF Init, SettleInv, CompletedIsMarked, MarkedIsCompleted, MarkedBefore,
     CompletedBefore, ResponsesAreOwn, SentIsTyped, HasType, Marked, Marking, BeforeMark, Chosen, NoReply, Branches,
     Telling, PastMark
<1>2. TypeInv /\ RerunInv /\ AnnounceInv /\ SettleInv /\ [Next]_vars => SettleInv'
  <2> SUFFICES ASSUME TypeInv, RerunInv, AnnounceInv, SettleInv, [Next]_vars PROVE SettleInv'
    OBVIOUS
  <2>1. CASE UNCHANGED vars
    BY <2>1 DEF vars, objects, threads, SettleInv, CompletedIsMarked, MarkedIsCompleted, MarkedBefore,
       CompletedBefore, ResponsesAreOwn, SentIsTyped, HasType, Marked, Marking, Completing, BeforeMark, Chosen
  <2>2. CASE System
    BY <2>2, ListenerSettleStep, WorkerSettleStep, OthersSettleStep DEF System
  <2>3. CASE Environment
    BY <2>3, EnvironmentSettleStep
  <2> QED
    BY <2>1, <2>2, <2>3 DEF Next
<1> QED
  BY <1>1, <1>2, TypeCorrect, RerunInvariant, AnnounceInvariant, PTL DEF Spec

-----------------------------------------------------------------------------
(***************************************************************************)
(* The Event that ends a retransmission.  The listener sets the flag of    *)
(* transaction.response and then transaction.retransmit_stop: with a       *)
(* single run both belong to one message, and nothing but the give-up,     *)
(* behind the loop, resets the flag.                                       *)
(***************************************************************************)
\* Where a run has completed the transaction or registered its answer.
Past == {"mark"} \cup PastMark

\* What the objects of a transaction have to do with its runs.
RunsAreOrdered ==
  /\ \A w \in Runs :
       /\ retransmitter[w].pc # "idle" => worker[w] \in {"send", "done"}
       /\ w \in midTable => worker[w] \in Past
       /\ worker[w] \in Past => response[Of(w)] # None
  /\ \A e \in Exchanges :
       /\ response[e] # None => Of(response[e]) = e /\ Started(response[e])
       /\ retransmitStop[e] # None =>
            Of(retransmitStop[e]) = e /\ retransmitter[retransmitStop[e]].pc # "idle"

\* The message of run w needs no retransmission any more.
Settled(w) == Answered(w) \/ retransmitter[w].pc \in {"cleanup", "done"}

\* The flag is set before the Event is.
ListenerSettled ==
  listener.pc \in {"if_event", "set_event"} =>
    \A w \in Runs : Of(w) = listener.on /\ Started(w) /\ OnlyRun(w) => Settled(w)

EventSettled == \A w \in eventSet : OnlyRun(w) => stopped \/ Settled(w)

EventInv == RunsAreOrdered /\ ListenerSettled /\ EventSettled

\* Of the only run a transaction has, the response is its own.
LEMMA OnlyRunResponds ==
  ASSUME TypeInv, RunsAreOrdered, NEW w \in Runs, OnlyRun(w), response[Of(w)] # None
  PROVE  response[Of(w)] = w
<1>1. response[Of(w)] \in Runs
  BY RunExchange DEF TypeInv, TypeOK
<1>2. Of(response[Of(w)]) = Of(w) /\ Started(response[Of(w)])
  BY RunExchange DEF RunsAreOrdered
<1>3. QED  BY <1>1, <1>2 DEF OnlyRun, RunsOf

\* Steps that make no run the only one, and unsettle none.
Calm ==
  /\ \A w \in Runs : Started(w) => Started(w)'
  /\ \A w \in Runs : Settled(w) => Settled(w)'
  /\ stopped => stopped'

\* What that means for one run.
LEMMA CalmKeeps ==
  ASSUME Calm, NEW w \in Runs
  PROVE  /\ OnlyRun(w)' => OnlyRun(w)
         /\ Settled(w) => Settled(w)'
BY DEF Calm, OnlyRun, RunsOf

\* Such a step keeps EventSettled, if no Event is set, ...
LEMMA EventSettledStays ==
  ASSUME TypeInv, EventSettled, Calm, eventSet' = eventSet
  PROVE  EventSettled'
<1>1. eventSet \subseteq Runs
  BY DEF TypeInv, TypeOK
<1>2. QED  BY <1>1, CalmKeeps DEF EventSettled, Calm

\* ... and what the listener knows of the transaction it has in hand, if it
\* stays there and no run starts.
LEMMA ListenerSettledStays ==
  ASSUME TypeInv, ListenerSettled, Calm,
         listener'.pc \in {"if_event", "set_event"} =>
           /\ listener.pc \in {"if_event", "set_event"} /\ listener'.on = listener.on
           /\ \A w \in Runs : Started(w)' => Started(w)
  PROVE  ListenerSettled'
<1>1. ASSUME listener'.pc \in {"if_event", "set_event"}, NEW w \in Runs, Of(w) = listener'.on,
             Started(w)', OnlyRun(w)'
      PROVE  Settled(w)'
  <2>1. listener.pc \in {"if_event", "set_event"} /\ listener'.on = listener.on
    BY <1>1
  <2>2. QED  BY <1>1, <2>1, CalmKeeps DEF ListenerSettled
<1>2. QED  BY <1>1 DEF ListenerSettled

\* The listener sets the Event of a transaction whose only run is settled.
LEMMA ListenerEventStep ==
  ASSUME TypeInv, EventInv, ListenerStep
  PROVE  EventInv'
<1> USE DEF TypeInv, TypeOK, ListenerHasExchange
<1>1. ASSUME \/ ListenerLoop \/ ListenerTimeout \/ ListenerIfCompleted \/ ListenerIfPending
             \/ ListenerIfDue \/ ListenerResend \/ ListenerMarkAck \/ ListenerComplete
             \/ ListenerSendAck \/ ListenerIfEvent \/ ListenerLocked
      PROVE  /\ UNCHANGED <<midTable, response, retransmitStop, reply, eventSet, worker,
                            retransmitter, stopped>>
             /\ listener'.pc \in {"if_event", "set_event"} =>
                  listener.pc = "if_event" /\ listener'.on = listener.on
  <2> USE RunExchange DEF Goto, NextMessage, ListenerOnly, objects
  <2>1. CASE ListenerLoop
    BY <2>1 DEF ListenerLoop
  <2>2. CASE ListenerTimeout
    BY <2>2 DEF ListenerTimeout
  <2>3. CASE ListenerIfCompleted
    BY <2>3 DEF ListenerIfCompleted
  <2>4. CASE ListenerIfPending
    BY <2>4 DEF ListenerIfPending
  <2>5. CASE ListenerResend
    BY <2>5 DEF ListenerResend, AfterResend
  <2>6. CASE ListenerMarkAck
    BY <2>6 DEF ListenerMarkAck, MarkAcknowledged
  <2>7. CASE ListenerSendAck
    BY <2>7 DEF ListenerSendAck
  <2>8. CASE ListenerIfEvent
    BY <2>8 DEF ListenerIfEvent
  <2>9. CASE ListenerLocked
    BY <2>9 DEF ListenerLocked
  <2>10. CASE ListenerIfDue
    BY <2>10 DEF ListenerIfDue
  <2>11. CASE ListenerComplete
    BY <2>11 DEF ListenerComplete, Complete
  <2>12. QED  BY <1>1, <2>1, <2>2, <2>3, <2>4, <2>5, <2>6, <2>7, <2>8, <2>9, <2>10, <2>11
<1>2. ASSUME NEW w \in Runs, ListenerSpawn(w)
      PROVE  /\ UNCHANGED <<midTable, request, response, retransmitStop, reply, eventSet,
                            retransmitter, stopped>>
             /\ worker[w] = "idle" /\ worker' = [worker EXCEPT ![w] = "with"]
             /\ listener'.pc = "loop"
  BY <1>2 DEF ListenerSpawn, NextMessage, objects
<1>3. ASSUME ListenerSetEvent
      PROVE  /\ UNCHANGED <<midTable, request, response, retransmitStop, reply, worker,
                            retransmitter, stopped>>
             /\ listener'.pc \in {"dead", "with"} /\ listener.pc = "set_event"
             /\ eventSet' \subseteq eventSet \cup ({retransmitStop[listener.on]} \ {None})
  BY <1>3 DEF ListenerSetEvent, Goto, objects
<1>4. RunsAreOrdered'
  <2>1. /\ UNCHANGED <<midTable, response, retransmitStop, reply, retransmitter>>
        /\ \/ UNCHANGED worker
           \/ \E w \in Runs : worker[w] = "idle" /\ worker' = [worker EXCEPT ![w] = "with"]
    BY <1>1, <1>2, <1>3 DEF ListenerStep
  <2>2. QED  BY <2>1 DEF EventInv, RunsAreOrdered, Past, PastMark, Started
<1>5. Calm
  BY <1>1, <1>2, <1>3 DEF ListenerStep, Calm, Started, Settled, Answered
<1>6. ListenerSettled'
  <2>1. listener'.pc \in {"if_event", "set_event"} =>
           /\ listener.pc \in {"if_event", "set_event"} /\ listener'.on = listener.on
           /\ \A w \in Runs : Started(w)' => Started(w)
    BY <1>1, <1>2, <1>3 DEF ListenerStep, Started
  <2>2. QED  BY <1>5, <2>1, ListenerSettledStays DEF EventInv
<1>7. EventSettled'
  <2>1. CASE eventSet' = eventSet
    BY <1>5, <2>1, EventSettledStays DEF EventInv
  <2>2. CASE ListenerSetEvent
    <3>1. ASSUME NEW w \in eventSet', OnlyRun(w)'  PROVE (stopped \/ Settled(w))'
      <4>1. w \in Runs /\ OnlyRun(w)
        <5>1. eventSet' \subseteq Runs
          BY <1>3, <2>2
        <5>2. QED  BY <1>5, <3>1, <5>1, CalmKeeps
      <4>2. CASE w \in eventSet
        BY <1>5, <4>1, <4>2, CalmKeeps DEF EventInv, EventSettled, Calm
      <4>3. CASE w = retransmitStop[listener.on] /\ w # None
        <5>1. listener.on \in Exchanges /\ listener.pc = "set_event"
          BY <1>3, <2>2
        <5>2. Of(w) = listener.on /\ Started(w)
          BY <4>1, <4>3, <5>1 DEF EventInv, RunsAreOrdered, Started
        <5>3. Settled(w)
          BY <4>1, <5>1, <5>2 DEF EventInv, ListenerSettled
        <5>4. QED  BY <1>5, <4>1, <5>3, CalmKeeps
      <4>4. QED  BY <1>3, <2>2, <3>1, <4>2, <4>3
    <3>2. QED  BY <3>1 DEF EventSettled
  <2>3. QED  BY <1>1, <1>2, <2>1, <2>2 DEF ListenerStep
<1>8. QED  BY <1>4, <1>6, <1>7 DEF EventInv

\* A worker starts one retransmission, and sets its answer's flag to acknowledged
\* or leaves it.
LEMMA WorkerEventStep ==
  ASSUME TypeInv, EventInv, NEW w \in Runs, WorkerStep(w)
  PROVE  EventInv'
<1> USE RunExchange DEF TypeInv, TypeOK, OwnResponse, Answering, WorkerGoto, objects
<1>1. UNCHANGED <<listener, eventSet, stopped>>
  BY DEF WorkerStep, WorkerBegin, WorkerBlock, WorkerRender, WorkerReturn, WorkerSeparate,
     WorkerMarkAck, WorkerCompleteAck, WorkerSendAck, WorkerFail, WorkerStopTimer, WorkerChoose,
     WorkerSetType, WorkerSetMid, WorkerComplete, WorkerRegister, WorkerMark,
     WorkerStartRetransmission, WorkerSend, MarkAcknowledged, Complete, WorkerOnly
<1>2. ASSUME WorkerBegin(w) \/ WorkerReturn(w) \/ WorkerSeparate(w) \/ WorkerMarkAck(w)
             \/ WorkerCompleteAck(w) \/ WorkerSendAck(w) \/ WorkerFail(w)
             \/ WorkerStopTimer(w) \/ WorkerChoose(w)
      PROVE  /\ UNCHANGED <<midTable, response, retransmitStop, reply, retransmitter>>
             /\ worker[w] \notin Past \cup {"idle"}
             /\ \E pc \in WorkerPcs \ (Past \cup {"idle"}) : worker' = [worker EXCEPT ![w] = pc]
  <2> USE DEF Past, PastMark, WorkerPcs
  <2>1. CASE WorkerBegin(w)
    BY <2>1 DEF WorkerBegin
  <2>2. CASE WorkerReturn(w)
    BY <2>2 DEF WorkerReturn, WorkerOnly
  <2>3. CASE WorkerSeparate(w)
    <3>1. CASE Of(w) \in Confirmable
      BY <2>3, <3>1 DEF WorkerSeparate
    <3>2. CASE Of(w) \notin Confirmable
      BY <2>3, <3>2 DEF WorkerSeparate
    <3>3. QED  BY <3>1, <3>2
  <2>4. CASE WorkerMarkAck(w)
    BY <2>4 DEF WorkerMarkAck, MarkAcknowledged
  <2>5. CASE WorkerSendAck(w)
    BY <2>5 DEF WorkerSendAck
  <2>6. CASE WorkerFail(w)
    BY <2>6 DEF WorkerFail, WorkerOnly
  <2>7. CASE WorkerStopTimer(w)
    BY <2>7 DEF WorkerStopTimer
  <2>8. CASE WorkerCompleteAck(w)
    BY <2>8 DEF WorkerCompleteAck, Complete
  <2>9. CASE WorkerChoose(w)
    <3>1. M!ResponseType(RequestType(Of(w)), request[Of(w)]) \in Branches
      BY DEF M!ResponseType, RequestType, Branches
    <3>2. QED  BY <2>9, <3>1 DEF WorkerChoose, WorkerOnly, Branches
  <2>10. QED  BY <1>2, <2>1, <2>2, <2>3, <2>4, <2>5, <2>6, <2>7, <2>8, <2>9
<1>3. ASSUME WorkerBlock(w) \/ WorkerRender(w)
      PROVE  /\ UNCHANGED <<midTable, request, retransmitStop, reply, retransmitter>>
             /\ response' = [response EXCEPT ![Of(w)] = w]
             /\ worker[w] = "layers"
             /\ \E pc \in {"render", "stop_timer"} : worker' = [worker EXCEPT ![w] = pc]
  BY <1>3 DEF WorkerBlock, WorkerRender
<1>4. ASSUME WorkerSetType(w)
      PROVE  /\ UNCHANGED <<midTable, response, retransmitStop, retransmitter>>
             /\ \A v \in Runs : reply'[v].flag = reply[v].flag
             /\ worker[w] \in Branches /\ worker' = [worker EXCEPT ![w] = "set_mid"]
  <2>1. response[Of(w)] = w
    BY <1>4 DEF WorkerSetType, WorkerHolding, WorkerPcs, Branches
  <2>2. \A v \in Runs : reply'[v].flag = reply[v].flag
    BY <1>4, <2>1 DEF WorkerSetType, Replies
  <2>3. QED  BY <1>4, <2>2 DEF WorkerSetType
<1>5. ASSUME WorkerSetMid(w)
      PROVE  /\ UNCHANGED <<midTable, response, retransmitStop, retransmitter>>
             /\ \A v \in Runs : Answered(v) => Answered(v)'
             /\ worker[w] = "set_mid"
             /\ \E pc \in {"complete", "register"} : worker' = [worker EXCEPT ![w] = pc]
  <2>1. response[Of(w)] = w
    BY <1>5 DEF WorkerSetMid, WorkerHolding, WorkerPcs
  <2>2. \A v \in Runs : reply'[v].flag \in {reply[v].flag, "acknowledged"}
    BY <1>5, <2>1 DEF WorkerSetMid, Replies
  <2>3. \A v \in Runs : Answered(v) => Answered(v)'
    BY <2>2 DEF Answered
  <2>4. QED  BY <1>5, <2>3 DEF WorkerSetMid
<1>6. ASSUME WorkerComplete(w) \/ WorkerRegister(w) \/ WorkerMark(w)
       PROVE  /\ UNCHANGED <<response, retransmitStop, retransmitter, reply>>
              /\ response[Of(w)] = w
              /\ \/ UNCHANGED midTable
                 \/ midTable' = midTable \cup {w}
              /\ worker[w] \in {"complete", "register", "mark"}
              /\ \E pc \in Past : worker' = [worker EXCEPT ![w] = pc]
  <2>1. response[Of(w)] = w
    BY <1>6 DEF WorkerComplete, WorkerRegister, WorkerMark, WorkerHolding, WorkerPcs
  <2>2. QED
    BY <1>6, <2>1 DEF WorkerComplete, WorkerRegister, WorkerMark, MarkAcknowledged, Complete, Past, PastMark
<1>7. ASSUME WorkerStartRetransmission(w)
      PROVE  /\ UNCHANGED <<midTable, response, reply>>
             /\ retransmitStop' = [retransmitStop EXCEPT ![Of(w)] = w]
             /\ \A v \in Runs : retransmitter'[v].pc = IF v = w THEN "with" ELSE retransmitter[v].pc
             /\ worker[w] = "retransmission" /\ worker' = [worker EXCEPT ![w] = "send"]
  BY <1>7 DEF WorkerStartRetransmission
<1>8. ASSUME WorkerSend(w)
      PROVE  /\ UNCHANGED <<midTable, request, response, retransmitStop, reply, retransmitter>>
             /\ worker[w] = "send" /\ worker' = [worker EXCEPT ![w] = "done"]
  BY <1>8 DEF WorkerSend
<1>9. RunsAreOrdered'
  <2> USE DEF EventInv, RunsAreOrdered, Past, PastMark, Started
  <2>1. CASE WorkerBegin(w) \/ WorkerReturn(w) \/ WorkerSeparate(w) \/ WorkerMarkAck(w)
             \/ WorkerCompleteAck(w) \/ WorkerSendAck(w) \/ WorkerFail(w)
             \/ WorkerStopTimer(w) \/ WorkerChoose(w)
    BY <1>2, <2>1
  <2>2. CASE WorkerBlock(w) \/ WorkerRender(w)
    <3>1. \A e \in Exchanges : response'[e] = IF e = Of(w) THEN w ELSE response[e]
      BY <1>3, <2>2
    <3>2. worker[w] = "layers" /\ \A v \in Runs : v # w => worker'[v] = worker[v]
      BY <1>3, <2>2
    <3>3. worker'[w] \notin Past \cup {"idle"}
      BY <1>3, <2>2
    <3>4. QED  BY <1>3, <2>2, <3>1, <3>2, <3>3, NoneAssumption
  <2>3. CASE WorkerSetType(w)
    BY <1>4, <2>3 DEF Branches
  <2>4. CASE WorkerSetMid(w)
    BY <1>5, <2>4
  <2>5. CASE WorkerStartRetransmission(w)
    <3>1. \A e \in Exchanges : retransmitStop'[e] = IF e = Of(w) THEN w ELSE retransmitStop[e]
      BY <1>7, <2>5
    <3>2. \A v \in Runs : retransmitter[v].pc # "idle" => retransmitter'[v].pc # "idle"
      BY <1>7, <2>5
    <3>3. \A e \in Exchanges : retransmitStop'[e] # None =>
            Of(retransmitStop'[e]) = e /\ retransmitter'[retransmitStop'[e]].pc # "idle"
      BY <1>7, <2>5, <3>1, <3>2
    <3>4. QED  BY <1>7, <2>5, <3>3
  <2>6. CASE WorkerSend(w)
    BY <1>8, <2>6
  <2>7. CASE WorkerComplete(w) \/ WorkerRegister(w) \/ WorkerMark(w)
    BY <1>6, <2>7, NoneAssumption
  <2>8. QED  BY <2>1, <2>2, <2>3, <2>4, <2>5, <2>6, <2>7 DEF WorkerStep
<1>10. Calm
  <2> USE DEF Calm, Started, Settled, Past, PastMark
  <2>1. CASE WorkerBegin(w) \/ WorkerReturn(w) \/ WorkerSeparate(w) \/ WorkerMarkAck(w)
             \/ WorkerCompleteAck(w) \/ WorkerSendAck(w) \/ WorkerFail(w)
             \/ WorkerStopTimer(w) \/ WorkerChoose(w)
    BY <1>1, <1>2, <2>1 DEF Answered
  <2>2. CASE WorkerBlock(w) \/ WorkerRender(w)
    BY <1>1, <1>3, <2>2 DEF Answered
  <2>3. CASE WorkerSetType(w)
    BY <1>1, <1>4, <2>3 DEF Answered
  <2>4. CASE WorkerSetMid(w)
    BY <1>1, <1>5, <2>4
  <2>5. CASE WorkerStartRetransmission(w)
    BY <1>1, <1>7, <2>5 DEF Answered, EventInv, RunsAreOrdered
  <2>6. CASE WorkerSend(w)
    BY <1>1, <1>8, <2>6 DEF Answered
  <2>7. CASE WorkerComplete(w) \/ WorkerRegister(w) \/ WorkerMark(w)
    BY <1>1, <1>6, <2>7 DEF Answered
  <2>8. QED  BY <2>1, <2>2, <2>3, <2>4, <2>5, <2>6, <2>7 DEF WorkerStep
<1>11. \A v \in Runs : Started(v)' => Started(v)
  <2>1. worker[w] # "idle"
    BY <1>2, <1>3, <1>4, <1>5, <1>7, <1>8, <1>6 DEF WorkerStep, Branches
  <2>2. \E pc \in WorkerPcs : worker' = [worker EXCEPT ![w] = pc]
    BY <1>2, <1>3, <1>4, <1>5, <1>7, <1>8, <1>6 DEF WorkerStep, WorkerPcs, Past, PastMark
  <2>3. QED  BY <2>1, <2>2 DEF Started
<1>12. ListenerSettled'
  BY <1>1, <1>10, <1>11, ListenerSettledStays DEF EventInv
<1>13. EventSettled'
  BY <1>1, <1>10, EventSettledStays DEF EventInv
<1>14. QED  BY <1>9, <1>12, <1>13 DEF EventInv

\* The give-up resets the flag, but behind the loop.
LEMMA OthersEventStep ==
  ASSUME TypeInv, EventInv, NEW w \in Runs, TimerStep(w) \/ RetransmitterStep(w)
  PROVE  EventInv'
<1> USE RunExchange DEF TypeInv, TypeOK, objects, RetransmitterOnly, RetransmitterGoto
<1>1. UNCHANGED <<midTable, response, worker, listener, eventSet, stopped>>
  BY DEF TimerStep, TimerFire, TimerMarkAck, TimerComplete, TimerSendAck, MarkAcknowledged, Complete,
     RetransmitterStep, RetransmitterBegin, RetransmitterWhile, RetransmitterWake,
     RetransmitterSend, RetransmitterIfAnswered, RetransmitterGiveUp, RetransmitterCleanup
<1>2. ASSUME TimerStep(w)  PROVE UNCHANGED <<retransmitStop, reply, retransmitter>>
  BY <1>2 DEF TimerStep, TimerFire, TimerMarkAck, TimerComplete, TimerSendAck, MarkAcknowledged, Complete
<1>3. ASSUME RetransmitterStep(w)
      PROVE  /\ retransmitter[w].pc \notin {"idle", "done"}
             /\ \A v \in Runs \ {w} : retransmitter'[v] = retransmitter[v]
             /\ retransmitter'[w].pc # "idle"
             /\ retransmitter[w].pc = "cleanup" => retransmitter'[w].pc = "done"
             /\ \A e \in Exchanges : retransmitStop'[e] \in {retransmitStop[e], None}
             /\ \A v \in Runs \ {w} : reply'[v] = reply[v]
             /\ UNCHANGED reply \/ retransmitter'[w].pc = "cleanup"
  <2>1. CASE RetransmitterBegin(w)
    BY <2>1 DEF RetransmitterBegin
  <2>2. CASE RetransmitterWhile(w)
    BY <2>2 DEF RetransmitterWhile
  <2>3. CASE RetransmitterWake(w)
    BY <2>3 DEF RetransmitterWake
  <2>4. CASE RetransmitterSend(w)
    BY <2>4 DEF RetransmitterSend
  <2>5. CASE RetransmitterIfAnswered(w)
    BY <2>5 DEF RetransmitterIfAnswered
  <2>6. CASE RetransmitterGiveUp(w)
    BY <2>6 DEF RetransmitterGiveUp
  <2>7. CASE RetransmitterCleanup(w)
    BY <2>7 DEF RetransmitterCleanup
  <2>8. QED  BY <1>3, <2>1, <2>2, <2>3, <2>4, <2>5, <2>6, <2>7 DEF RetransmitterStep
<1>4. RunsAreOrdered'
  <2> USE DEF EventInv, RunsAreOrdered, Started
  <2>1. CASE TimerStep(w)
    BY <1>1, <1>2, <2>1
  <2>2. CASE RetransmitterStep(w)
    <3>1. \A v \in Runs : retransmitter'[v].pc # "idle" <=> retransmitter[v].pc # "idle"
      BY <1>3, <2>2
    <3>2. \A e \in Exchanges : retransmitStop'[e] # None =>
            Of(retransmitStop'[e]) = e /\ retransmitter'[retransmitStop'[e]].pc # "idle"
      BY <1>3, <2>2, <3>1
    <3>3. QED  BY <1>1, <3>1, <3>2
  <2>3. QED  BY <2>1, <2>2
<1>5. Calm
  <2> USE DEF Calm, Started, Settled, Answered
  <2>1. CASE TimerStep(w)
    BY <1>1, <1>2, <2>1
  <2>2. CASE RetransmitterStep(w)
    BY <1>1, <1>3, <2>2
  <2>3. QED  BY <2>1, <2>2
<1>6. ListenerSettled'
  BY <1>1, <1>5, ListenerSettledStays DEF EventInv, Started
<1>7. EventSettled'
  BY <1>1, <1>5, EventSettledStays DEF EventInv
<1>8. QED  BY <1>4, <1>6, <1>7 DEF EventInv

\* An ACK or RST sets the flag of the only run's answer.
LEMMA EnvironmentEventStep ==
  ASSUME TypeInv, SettleInv, EventInv, Environment
  PROVE  EventInv'
<1> USE RunExchange DEF TypeInv, TypeOK
<1>1. ASSUME NEW e \in Exchanges, ListenerReceiveRequest(e) \/ Purge(e)  PROVE EventInv'
  <2>1. /\ UNCHANGED <<request, response, retransmitStop, reply, eventSet, worker,
                       retransmitter, stopped>>
        /\ midTable' \subseteq midTable
        /\ listener' = listener \/ listener'.pc \in {"spawn", "if_completed"}
    BY <1>1 DEF ListenerReceiveRequest, Purge, threads
  <2>2. RunsAreOrdered'
    BY <2>1 DEF EventInv, RunsAreOrdered, Started
  <2>3. Calm
    BY <2>1 DEF Calm, Started, Settled, Answered
  <2>4. ListenerSettled'
    BY <2>1, <2>3, ListenerSettledStays DEF EventInv, Started
  <2>5. EventSettled'
    BY <2>1, <2>3, EventSettledStays DEF EventInv
  <2>6. QED  BY <2>2, <2>4, <2>5 DEF EventInv
<1>2. ASSUME NEW w \in Runs, NEW type \in {"ACK", "RST"}, ListenerReceiveEmpty(w, type)
      PROVE  EventInv'
  <2> DEFINE e == Of(w)
             r == response[e]
             f == M!ResponseFlagAfterEmpty(type, request[e], reply[r].flag)
  <2>1. UNCHANGED <<midTable, response, retransmitStop, eventSet, worker, retransmitter, stopped>>
    BY <1>2 DEF ListenerReceiveEmpty
  <2>2. CASE w \notin midTable
    <3>1. UNCHANGED <<request, reply>> /\ listener'.pc = "loop"
      BY <1>2, <2>2 DEF ListenerReceiveEmpty, NextMessage
    <3>2. RunsAreOrdered'
      BY <2>1, <3>1 DEF EventInv, RunsAreOrdered, Started
    <3>3. Calm
      BY <2>1, <3>1 DEF Calm, Started, Settled, Answered
    <3>4. ListenerSettled'
      BY <3>1 DEF ListenerSettled
    <3>5. EventSettled'
      BY <2>1, <3>3, EventSettledStays DEF EventInv
    <3>6. QED  BY <3>2, <3>4, <3>5 DEF EventInv
  <2>3. CASE w \in midTable
    <3>0. request[e] = "acknowledged"
      BY <1>2 DEF ListenerReceiveEmpty, SettleInv, MarkedBefore, BeforeMark, Marked
    <3>1. request[e] = "acknowledged" /\ r # None /\ Started(w)
      BY <2>3, <3>0 DEF EventInv, RunsAreOrdered, Past, PastMark, Started
    <3>2. r \in Runs /\ f \in {"acknowledged", "rejected"}
      BY <3>1 DEF M!ResponseFlagAfterEmpty
    <3>3. /\ request'[e] = "acknowledged"
          /\ \A x \in Exchanges \ {e} : request'[x] = request[x]
      BY <1>2, <2>3, <3>1 DEF ListenerReceiveEmpty, M!RequestFlagAfterEmpty
    <3>4. reply' = [reply EXCEPT ![r].flag = f]
      BY <1>2, <2>3 DEF ListenerReceiveEmpty
    <3>5. listener' = [pc |-> "if_event", on |-> e, empty |-> type]
      BY <1>2, <2>3 DEF ListenerReceiveEmpty
    <3> HIDE DEF f
    <3>6. reply'[r].flag = f /\ \A v \in Runs \ {r} : reply'[v] = reply[v]
      BY <3>2, <3>4 DEF Replies
    <3>7. RunsAreOrdered'
      BY <2>1, <3>3 DEF EventInv, RunsAreOrdered, Started
    <3>8. Calm
      BY <2>1, <3>2, <3>6 DEF Calm, Started, Settled, Answered
    <3>9. ListenerSettled'
      <4>1. ASSUME NEW v \in Runs, Of(v) = e, Started(v), OnlyRun(v)  PROVE Settled(v)'
        <5>1. v = r
          BY <3>1, <4>1, OnlyRunResponds DEF EventInv
        <5>2. QED  BY <3>2, <3>6, <5>1 DEF Settled, Answered
      <4>2. \A v \in Runs : Started(v)' => Started(v)
        BY <2>1 DEF Started
      <4>3. QED  BY <3>5, <3>8, <4>1, <4>2, CalmKeeps DEF ListenerSettled
    <3>10. EventSettled'
      BY <2>1, <3>8, EventSettledStays DEF EventInv
    <3>11. QED  BY <3>7, <3>9, <3>10 DEF EventInv
  <2>4. QED  BY <2>2, <2>3
<1>3. CASE Close
  <2>1. UNCHANGED <<objects, threads>> /\ stopped'
    BY <1>3 DEF Close
  <2>2. QED
    BY <2>1 DEF objects, threads, EventInv, RunsAreOrdered, ListenerSettled, EventSettled, Started,
       Settled, Answered, OnlyRun
<1>4. QED  BY <1>1, <1>2, <1>3 DEF Environment

\* The message of a transaction's only run is settled when its Event is set.
THEOREM EventInvariant == Spec => []EventInv
<1>1. Init => EventInv
  BY DEF Init, EventInv, RunsAreOrdered, ListenerSettled, EventSettled, Past, PastMark, Started
<1>2. TypeInv /\ SettleInv /\ EventInv /\ [Next]_vars => EventInv'
  <2> SUFFICES ASSUME TypeInv, SettleInv, EventInv, [Next]_vars PROVE EventInv'
    OBVIOUS
  <2>1. CASE UNCHANGED vars
    BY <2>1 DEF vars, objects, threads, EventInv, RunsAreOrdered, ListenerSettled, EventSettled, Started,
       Settled, Answered, OnlyRun
  <2>2. CASE System
    BY <2>2, ListenerEventStep, WorkerEventStep, OthersEventStep DEF System
  <2>3. CASE Environment
    BY <2>3, EnvironmentEventStep
  <2> QED
    BY <2>1, <2>2, <2>3 DEF Next
<1> QED
  BY <1>1, <1>2, TypeCorrect, SettleInvariant, PTL DEF Spec

\* Only the retransmission thread that has looked at the flags and at stopped
\* counts a retransmission.
LEMMA CountedInWake ==
  ASSUME TypeInv, [Next]_vars, NEW w \in Runs, retransmitter'[w].count > retransmitter[w].count
  PROVE  retransmitter[w].pc = "wait" /\ MustResend(w)
<1> USE RetransmitAssumption DEF TypeInv, TypeOK
<1>1. retransmitter[w].count \in Nat
  OBVIOUS
<1>2. ASSUME \A v \in Runs : retransmitter'[v].count = retransmitter[v].count  PROVE FALSE
  BY <1>1, <1>2
<1>3. ASSUME NEW v \in Runs, RetransmitterStep(v), ~RetransmitterWake(v)  PROVE FALSE
  BY <1>2, <1>3, SMTT(30) DEF RetransmitterStep, RetransmitterBegin, RetransmitterWhile, RetransmitterSend,
     RetransmitterIfAnswered, RetransmitterGiveUp, RetransmitterCleanup, RetransmitterGoto
<1>4. ASSUME NEW v \in Runs, RetransmitterWake(v)
      PROVE  retransmitter[w].pc = "wait" /\ MustResend(w)
  BY <1>1, <1>4 DEF RetransmitterWake, CountAfter
<1>5. ASSUME NEW v \in Runs, WorkerStep(v)  PROVE FALSE
  BY <1>2, <1>5 DEF WorkerStep, WorkerBegin, WorkerBlock, WorkerRender, WorkerReturn, WorkerSeparate,
     WorkerMarkAck, WorkerCompleteAck, WorkerSendAck, WorkerFail, WorkerStopTimer, WorkerChoose,
     WorkerSetType, WorkerSetMid, WorkerComplete, WorkerRegister, WorkerMark,
     WorkerStartRetransmission, WorkerSend, WorkerOnly
<1>6. ASSUME NEW v \in Runs, TimerStep(v)  PROVE FALSE
  BY <1>2, <1>6 DEF TimerStep, TimerFire, TimerMarkAck, TimerComplete, TimerSendAck
<1>7. ASSUME ListenerStep  PROVE FALSE
  BY <1>2, <1>7 DEF ListenerStep, ListenerLoop, ListenerTimeout, ListenerIfCompleted, ListenerIfPending,
     ListenerIfDue, ListenerResend, ListenerMarkAck, ListenerComplete, ListenerSendAck,
     ListenerIfEvent, ListenerSetEvent,
     ListenerLocked, ListenerSpawn, ListenerOnly
<1>8. ASSUME Environment \/ UNCHANGED vars  PROVE FALSE
  <2>1. ASSUME NEW e \in Exchanges, ListenerReceiveRequest(e) \/ Purge(e)  PROVE UNCHANGED retransmitter
    BY <2>1 DEF ListenerReceiveRequest, Purge, threads
  <2>2. ASSUME NEW v \in Runs, NEW type \in {"ACK", "RST"}, ListenerReceiveEmpty(v, type)
        PROVE  UNCHANGED retransmitter
    BY <2>2 DEF ListenerReceiveEmpty
  <2>3. Close \/ UNCHANGED vars => UNCHANGED retransmitter
    BY DEF Close, threads, vars
  <2>4. QED  BY <1>2, <1>8, <2>1, <2>2, <2>3 DEF Environment
<1>9. QED  BY <1>3, <1>4, <1>5, <1>6, <1>7, <1>8 DEF Next, System

\* Once the Event of a transaction's only run is set, its thread does not decide
\* again to send the message (messagelayer.py 170-188).
THEOREM NoRetransmissionHolds == Spec => NoRetransmissionAfterEvent
<1>1. TypeInv /\ EventInv /\ [Next]_vars =>
        [\A w \in Runs : retransmitter'[w].count > retransmitter[w].count /\ OnlyRun(w)
           => w \notin eventSet]_vars
  <2> SUFFICES ASSUME TypeInv, EventInv, [Next]_vars, NEW w \in Runs,
                      retransmitter'[w].count > retransmitter[w].count, OnlyRun(w),
                      w \in eventSet
               PROVE  FALSE
    OBVIOUS
  <2>1. retransmitter[w].pc = "wait" /\ ~Answered(w) /\ ~stopped
    BY CountedInWake DEF MustResend
  <2>2. stopped \/ Settled(w)
    BY DEF EventInv, EventSettled
  <2>3. QED  BY <2>1, <2>2 DEF Settled
<1> QED
  BY <1>1, TypeCorrect, EventInvariant, PTL DEF Spec, NoRetransmissionAfterEvent
-----------------------------------------------------------------------------
(***************************************************************************)
(* ServerExchange implements Exchange.  A confirmable request is settled   *)
(* when it is marked or its transaction is completed, whichever is first.  *)
(* The type of an answer goes by the mark alone; that it is never the ACK  *)
(* of a settled request needs the lock: a run that has completed and not   *)
(* yet marked keeps the others from choosing.                              *)
(***************************************************************************)
\* What Exchange sees of a step: the runs, what is settled, the types, and what
\* has been sent.
SameRuns == \A v \in Runs : Started(v)' <=> Started(v)
SameSettled == \A e \in Exchanges : IsSettled(e)' <=> IsSettled(e)
SameTypes == \A v \in Runs : Chosen(v)' = Chosen(v)
Unseen == SameRuns /\ SameSettled /\ SameTypes /\ UNCHANGED <<emptyAcks, replies, stopped>>
Step == Unseen \/ Promise!Next

LEMMA SeenSame ==
  /\ SameRuns => {w \in Runs : Started(w)}' = {w \in Runs : Started(w)}
  /\ SameSettled => {e \in Exchanges : IsSettled(e)}' = {e \in Exchanges : IsSettled(e)}
  /\ SameTypes => [w \in Runs |-> Chosen(w)]' = [w \in Runs |-> Chosen(w)]
BY DEF SameRuns, SameSettled, SameTypes

\* A step that settles a request, if it is not settled yet,
SettledOnly(e) == \A d \in Exchanges : IsSettled(d)' <=> (IsSettled(d) \/ d = e)

LEMMA SettleIs ==
  ASSUME NEW e \in Confirmable, SettledOnly(e), SameRuns, SameTypes,
         UNCHANGED <<emptyAcks, replies, stopped>>
  PROVE  Step
<1>1. {d \in Exchanges : IsSettled(d)}' = {d \in Exchanges : IsSettled(d)} \cup {e}
  BY ConfirmableAssumption DEF SettledOnly
<1>2. Promise!Settle(e)  BY <1>1, SeenSame DEF Promise!Settle
<1>3. QED  BY <1>2, ConfirmableAssumption DEF Step, Promise!Next

\* that tells its client,
LEMMA TellIs ==
  ASSUME NEW e \in Exchanges, IsSettled(e), SendEmptyAck(e),
         SameRuns, SameSettled, SameTypes, UNCHANGED <<replies, stopped>>
  PROVE  Step
<1>1. CASE stopped  BY <1>1 DEF SendEmptyAck, Step, Unseen
<1>2. CASE ~stopped
  <2>1. Promise!Tell(e)  BY <1>2, SeenSame DEF SendEmptyAck, Promise!Tell
  <2>2. QED  BY <2>1 DEF Step, Promise!Next
<1>3. QED  BY <1>1, <1>2

\* or that sends an answer, if it sends any.
LEMMA SendIs ==
  ASSUME NEW w \in Runs, Chosen(w) # "none" \/ stopped, SendReply(w),
         SameRuns, SameSettled, SameTypes, UNCHANGED <<emptyAcks, stopped>>
  PROVE  Step
<1>1. CASE stopped  BY <1>1 DEF SendReply, Step, Unseen
<1>2. CASE ~stopped
  <2>1. Promise!Send(w)  BY <1>2, SeenSame DEF SendReply, Promise!Send
  <2>2. QED  BY <2>1 DEF Step, Promise!Next
<1>3. QED  BY <1>1, <1>2

\* An answer that has its type has been chosen.
LEMMA TypedIsChosen ==
  ASSUME AnnounceInv, NEW w \in Runs, reply[w].type # "none"
  PROVE  Chosen(w) # "none"
BY DEF AnnounceInv, TypedOnce, Chosen, Untyped

\* Either write settles a confirmable request.
LEMMA WriteSettles ==
  ASSUME TypeInv, NEW e \in Confirmable, MarkAcknowledged(e) \/ Complete(e)
  PROVE  SettledOnly(e)
<1> USE ConfirmableAssumption DEF TypeInv, TypeOK, SettledOnly, IsSettled
<1>1. CASE MarkAcknowledged(e)
  <2>1. completed' = completed /\ request' = [request EXCEPT ![e] = "acknowledged"]
    BY <1>1 DEF MarkAcknowledged
  <2>2. QED  BY <2>1
<1>2. CASE Complete(e)
  <2>1. request' = request /\ completed' = [completed EXCEPT ![e] = TRUE]
    BY <1>2 DEF Complete
  <2>2. QED  BY <2>1
<1>3. QED  BY <1>1, <1>2

\* The listener's steps.
LEMMA ListenerSeen ==
  ASSUME TypeInv, RerunInv, AnnounceInv, SettleInv, ListenerStep
  PROVE  Step
<1> USE DEF TypeInv, TypeOK, ListenerHasExchange
<1>1. ASSUME \/ ListenerLoop \/ ListenerTimeout \/ ListenerIfCompleted \/ ListenerIfPending
             \/ ListenerIfDue \/ ListenerIfEvent \/ ListenerSetEvent
      PROVE  Step
  <2>1. UNCHANGED <<completed, request, reply, worker, emptyAcks, replies, stopped>>
    BY <1>1 DEF ListenerLoop, ListenerTimeout, ListenerIfCompleted, ListenerIfPending, ListenerIfDue,
       ListenerIfEvent, ListenerSetEvent, ListenerOnly, objects
  <2>2. QED
    BY <2>1 DEF Step, Unseen, SameRuns, SameSettled, SameTypes, Started, IsSettled, Chosen
<1>2. ASSUME ListenerResend PROVE Step
  <2> DEFINE r == response[listener.on]
  <2>1. UNCHANGED <<completed, request, reply, worker, emptyAcks, stopped>>
    BY <1>2 DEF ListenerResend, objects
  <2>2. SameRuns /\ SameSettled /\ SameTypes
    BY <2>1 DEF SameRuns, SameSettled, SameTypes, Started, IsSettled, Chosen
  <2>3. UNCHANGED replies \/ (r # None /\ (reply[r].type # "none" \/ stopped) /\ SendReply(r))
    BY <1>2 DEF ListenerResend
  <2>4. listener.on \in Exchanges /\ (r # None => r \in Runs)
    BY <1>2 DEF ListenerResend
  <2>5. QED  BY <2>1, <2>2, <2>3, <2>4, SendIs, TypedIsChosen DEF Step, Unseen
<1>3. ASSUME ListenerMarkAck \/ ListenerComplete PROVE Step
  <2>1. /\ listener.pc \in Acking /\ (MarkAcknowledged(listener.on) \/ Complete(listener.on))
        /\ UNCHANGED <<reply, worker, emptyAcks, replies, stopped>>
    BY <1>3 DEF ListenerMarkAck, ListenerComplete, MarkAcknowledged, Complete, Acking, Telling
  <2>2. listener.on \in Confirmable  BY <2>1 DEF RerunInv, OnlyConfirmableAcked
  <2>3. SettledOnly(listener.on)  BY <2>1, <2>2, WriteSettles
  <2>4. QED  BY <2>1, <2>2, <2>3, SettleIs DEF SameRuns, SameTypes, Started, Chosen
<1>4. ASSUME ListenerSendAck PROVE Step
  <2>1. /\ listener.pc = "ack_send" /\ SendEmptyAck(listener.on)
        /\ UNCHANGED <<completed, request, reply, worker, replies, stopped>>
    BY <1>4 DEF ListenerSendAck, objects
  <2>2. listener.on \in Exchanges /\ IsSettled(listener.on)
    BY <2>1 DEF RerunInv, OnlyConfirmableAcked, Acking, Telling, SettleInv, MarkedBefore, Marked, IsSettled
  <2>3. SameRuns /\ SameSettled /\ SameTypes
    BY <2>1 DEF SameRuns, SameSettled, SameTypes, Started, IsSettled, Chosen
  <2>4. QED  BY <2>1, <2>2, <2>3, TellIs
<1>5. ASSUME ListenerLocked PROVE Step
  <2>1. /\ listener.pc = "with"
        /\ completed' = [completed EXCEPT ![listener.on] = @ \/ listener.empty = "RST"]
        /\ UNCHANGED <<request, reply, worker, emptyAcks, replies, stopped>>
    BY <1>5 DEF ListenerLocked
  <2>2. listener.on \in Exchanges /\ request[listener.on] = "acknowledged"
    BY <2>1 DEF SettleInv, MarkedBefore, Marked
  <2>3. SameSettled
    BY <2>1, <2>2 DEF SameSettled, IsSettled
  <2>4. QED
    BY <2>1, <2>3 DEF Step, Unseen, SameRuns, SameTypes, Started, Chosen
<1>6. ASSUME NEW w \in Runs, ListenerSpawn(w) PROVE Step
  <2>1. /\ listener.pc = "spawn" /\ Of(w) = listener.on /\ worker[w] = "idle"
        /\ worker' = [worker EXCEPT ![w] = "with"]
        /\ UNCHANGED <<completed, request, reply, emptyAcks, replies, stopped>>
    BY <1>6 DEF ListenerSpawn, objects
  <2>2. SameSettled /\ SameTypes
    BY <2>1 DEF SameSettled, SameTypes, IsSettled, Chosen, Branches
  <2>3. {v \in Runs : Started(v)}' = {v \in Runs : Started(v)} \cup {w} /\ ~Started(w)
    BY <2>1 DEF Started
  <2>4. \A v \in Runs : Started(v) /\ Of(v) = Of(w) => IsSettled(Of(w))
    BY <2>1 DEF RerunInv, ListenerKnows, IsSettled
  <2>5. Promise!Handle(w)
    BY <2>1, <2>2, <2>3, <2>4, SeenSame, RunExchange DEF IsSettled, Promise!Handle
  <2>6. QED  BY <2>5 DEF Step, Promise!Next
<1>7. QED  BY <1>1, <1>2, <1>3, <1>4, <1>5, <1>6 DEF ListenerStep

\* The workers': one takes the branch for its answer's type, by the mark, and one
\* completes the transaction, if the answer is the ACK.
LEMMA WorkerSeen ==
  ASSUME TypeInv, RerunInv, AnnounceInv, SettleInv, NEW w \in Runs, WorkerStep(w)
  PROVE  Step
<1> USE RunExchange DEF TypeInv, TypeOK, WorkerGoto, WorkerOnly, objects
<1>1. ASSUME \/ WorkerBegin(w) \/ WorkerBlock(w) \/ WorkerRender(w) \/ WorkerReturn(w)
             \/ WorkerFail(w) \/ WorkerStopTimer(w) \/ WorkerRegister(w)
             \/ WorkerStartRetransmission(w)
      PROVE  Step
  <2>1. /\ UNCHANGED <<completed, request, reply, emptyAcks, replies, stopped>>
        /\ worker[w] \notin Branches \cup {"idle"}
        /\ \E pc \in WorkerPcs \ (Branches \cup {"idle"}) : worker' = [worker EXCEPT ![w] = pc]
    BY <1>1 DEF WorkerBegin, WorkerBlock, WorkerRender, WorkerReturn, WorkerFail, WorkerStopTimer, WorkerRegister,
       WorkerStartRetransmission, WorkerPcs, Branches
  <2>2. QED
    BY <2>1 DEF Step, Unseen, SameRuns, SameSettled, SameTypes, Started, IsSettled, Chosen
<1>2. ASSUME WorkerSeparate(w) PROVE Step
  <2>1. /\ UNCHANGED <<completed, reply, emptyAcks, replies, stopped>> /\ worker[w] = "render"
        /\ \E pc \in {"ack_mark", "stop_timer"} : worker' = [worker EXCEPT ![w] = pc]
    BY <1>2 DEF WorkerSeparate
  <2>2. \A e \in Confirmable : request'[e] = request[e]
    <3>1. CASE Of(w) \in Confirmable  BY <1>2, <3>1 DEF WorkerSeparate
    <3>2. CASE Of(w) \notin Confirmable
      <4>1. request' = [request EXCEPT ![Of(w)] = "acknowledged"]  BY <1>2, <3>2 DEF WorkerSeparate
      <4>2. QED  BY <3>2, <4>1, ConfirmableAssumption
    <3>3. QED  BY <3>1, <3>2
  <2>3. QED
    BY <2>1, <2>2 DEF Step, Unseen, SameRuns, SameSettled, SameTypes, Started, IsSettled, Chosen, Branches
<1>3. ASSUME WorkerMarkAck(w) \/ WorkerCompleteAck(w) \/ WorkerComplete(w) PROVE Step
  <2>1. /\ worker[w] \in {"ack_mark", "ack_complete", "complete"}
        /\ MarkAcknowledged(Of(w)) \/ Complete(Of(w))
        /\ \E pc \in {"ack_complete", "ack_send", "mark"} : worker' = [worker EXCEPT ![w] = pc]
        /\ UNCHANGED <<reply, emptyAcks, replies, stopped>>
    BY <1>3 DEF WorkerMarkAck, WorkerCompleteAck, WorkerComplete, MarkAcknowledged, Complete
  <2>2. Of(w) \in Confirmable  BY <2>1 DEF RerunInv, OnlyConfirmableAcked, Acking, Telling
  <2>3. SettledOnly(Of(w))  BY <2>1, <2>2, WriteSettles
  <2>4. QED  BY <2>1, <2>2, <2>3, SettleIs DEF SameRuns, SameTypes, Started, Chosen, Branches
<1>4. ASSUME WorkerSendAck(w) PROVE Step
  <2>1. /\ worker[w] = "ack_send" /\ worker' = [worker EXCEPT ![w] = "stop_timer"] /\ SendEmptyAck(Of(w))
        /\ UNCHANGED <<completed, request, reply, replies, stopped>>
    BY <1>4 DEF WorkerSendAck
  <2>2. IsSettled(Of(w))
    BY <2>1 DEF RerunInv, OnlyConfirmableAcked, Acking, Telling, SettleInv, MarkedBefore, BeforeMark, Marked, IsSettled
  <2>3. SameRuns /\ SameSettled /\ SameTypes
    BY <2>1 DEF SameRuns, SameSettled, SameTypes, Started, IsSettled, Chosen, Branches
  <2>4. QED  BY <2>1, <2>2, <2>3, TellIs
<1>5. ASSUME WorkerChoose(w) PROVE Step
  <2>1. worker[w] = "if_acknowledged" /\ UNCHANGED <<completed, request, reply, emptyAcks, replies, stopped>>
    BY <1>5 DEF WorkerChoose
  <2>2. PICK type \in {"ACK", "CON", "NON"} : type = M!ResponseType(RequestType(Of(w)), request[Of(w)])
    BY DEF M!ResponseType, RequestType
  <2>3. worker' = [worker EXCEPT ![w] = type]  BY <1>5, <2>2 DEF WorkerChoose
  <2>4. \A v \in Runs : ~Marking(v) \/ Of(v) # Of(w)
    BY <2>1 DEF Marking, Exclusive, WorkerHolding, WorkerPcs
  <2>5. completed[Of(w)] => request[Of(w)] = "acknowledged"
    BY <2>4 DEF SettleInv, CompletedIsMarked, Marked, RunsOf
  <2>6. \/ type = "NON" /\ Of(w) \notin Confirmable
        \/ type = "ACK" /\ Of(w) \in Confirmable /\ ~IsSettled(Of(w))
        \/ type = "CON" /\ IsSettled(Of(w))
    BY <2>2, <2>5 DEF M!ResponseType, RequestType, IsSettled
  <2>7. Chosen(w) = "none" /\ Started(w)
    BY <2>1, ChosenOnce DEF AnnounceInv, Unchosen, Started
  <2>8. SameRuns /\ SameSettled  BY <2>1, <2>2, <2>3 DEF SameRuns, SameSettled, Started, IsSettled
  <2>9. \A v \in Runs : Chosen(v)' = IF v = w THEN type ELSE Chosen(v)
    BY <2>1, <2>2, <2>3 DEF Chosen, Branches
  <2>10. [v \in Runs |-> Chosen(v)]' = [[v \in Runs |-> Chosen(v)] EXCEPT ![w] = type]
    BY <2>9
  <2>11. Promise!Choose(w, type)
    BY <2>1, <2>6, <2>7, <2>8, <2>10, SeenSame DEF IsSettled, Promise!Choose
  <2>12. QED  BY <2>11 DEF Step, Promise!Next
<1>6. ASSUME WorkerSetType(w) \/ WorkerSetMid(w) PROVE Step
  <2>1. worker[w] \in Branches \cup {"set_mid"} /\ response[Of(w)] = w
    BY <1>6 DEF WorkerSetType, WorkerSetMid, WorkerHolding, WorkerPcs, OwnResponse, Answering, Branches
  <2>2. /\ UNCHANGED <<completed, request, emptyAcks, replies, stopped>>
        /\ \E pc \in {"set_mid", "complete", "register"} : worker' = [worker EXCEPT ![w] = pc]
    BY <1>6 DEF WorkerSetType, WorkerSetMid
  <2>3. \A v \in Runs : reply'[v].type = IF v = w THEN Chosen(w) ELSE reply[v].type
    BY <1>6, <2>1 DEF WorkerSetType, WorkerSetMid, Replies, Chosen, Branches
  <2>4. QED
    BY <2>1, <2>2, <2>3 DEF Step, Unseen, SameRuns, SameSettled, SameTypes, Started, IsSettled, Chosen, Branches
<1>7. ASSUME WorkerMark(w) PROVE Step
  <2>1. /\ worker[w] = "mark" /\ MarkAcknowledged(Of(w))
        /\ \E pc \in {"retransmission", "send"} : worker' = [worker EXCEPT ![w] = pc]
        /\ UNCHANGED <<completed, reply, emptyAcks, replies, stopped>>
    BY <1>7 DEF WorkerMark, MarkAcknowledged
  <2>2. SameRuns /\ SameTypes  BY <2>1 DEF SameRuns, SameTypes, Started, Chosen, Branches
  <2>3. CASE Of(w) \in Confirmable
    BY <2>1, <2>2, <2>3, WriteSettles, SettleIs
  <2>4. CASE Of(w) \notin Confirmable
    <3>1. \A e \in Confirmable : request'[e] = request[e]
      BY <2>1, <2>4, ConfirmableAssumption DEF MarkAcknowledged
    <3>2. QED  BY <2>1, <2>2, <3>1 DEF Step, Unseen, SameSettled, IsSettled
  <2>5. QED  BY <2>3, <2>4
<1>8. ASSUME WorkerSend(w) PROVE Step
  <2>1. /\ worker[w] = "send" /\ worker' = [worker EXCEPT ![w] = "done"]
        /\ UNCHANGED <<completed, request, reply, emptyAcks, stopped>>
        /\ SendReply(response[Of(w)])
    BY <1>8 DEF WorkerSend
  <2>2. response[Of(w)] = w
    BY <2>1 DEF WorkerHolding, WorkerPcs, OwnResponse, Answering
  <2>3. Chosen(w) # "none"  BY <2>1, ChosenOnce DEF AnnounceInv, Unchosen
  <2>4. SameRuns /\ SameSettled /\ SameTypes
    BY <2>1 DEF SameRuns, SameSettled, SameTypes, Started, IsSettled, Chosen, Branches
  <2>5. QED  BY <2>1, <2>2, <2>3, <2>4, SendIs
<1>9. QED  BY <1>1, <1>2, <1>3, <1>4, <1>5, <1>6, <1>7, <1>8 DEF WorkerStep

\* The timers' and retransmissions'.
LEMMA OthersSeen ==
  ASSUME TypeInv, RerunInv, AnnounceInv, SettleInv, NEW w \in Runs,
         TimerStep(w) \/ RetransmitterStep(w)
  PROVE  Step
<1> USE RunExchange DEF TypeInv, TypeOK, RetransmitterOnly, objects
<1>1. ASSUME \/ TimerFire(w) \/ RetransmitterBegin(w) \/ RetransmitterWhile(w) \/ RetransmitterWake(w)
             \/ RetransmitterIfAnswered(w) \/ RetransmitterGiveUp(w) \/ RetransmitterCleanup(w)
      PROVE  Step
  <2>1. UNCHANGED <<completed, request, worker, emptyAcks, replies, stopped>>
    BY <1>1 DEF TimerFire, RetransmitterBegin, RetransmitterWhile, RetransmitterWake, RetransmitterIfAnswered,
       RetransmitterGiveUp, RetransmitterCleanup
  <2>2. \A v \in Runs : reply'[v].type = reply[v].type
    <3>1. CASE RetransmitterGiveUp(w)  BY <3>1 DEF RetransmitterGiveUp, Replies
    <3>2. CASE ~RetransmitterGiveUp(w)
      BY <1>1, <3>2 DEF TimerFire, RetransmitterBegin, RetransmitterWhile, RetransmitterWake,
         RetransmitterIfAnswered, RetransmitterCleanup
    <3>3. QED  BY <3>1, <3>2
  <2>3. QED
    BY <2>1, <2>2 DEF Step, Unseen, SameRuns, SameSettled, SameTypes, Started, IsSettled, Chosen
<1>2. ASSUME TimerMarkAck(w) \/ TimerComplete(w) PROVE Step
  <2>1. /\ timer[w] \in Acking /\ (MarkAcknowledged(Of(w)) \/ Complete(Of(w)))
        /\ UNCHANGED <<reply, worker, emptyAcks, replies, stopped>>
    BY <1>2 DEF TimerMarkAck, TimerComplete, MarkAcknowledged, Complete, Acking, Telling
  <2>2. Of(w) \in Confirmable  BY <2>1 DEF RerunInv, OnlyConfirmableAcked
  <2>3. SettledOnly(Of(w))  BY <2>1, <2>2, WriteSettles
  <2>4. QED  BY <2>1, <2>2, <2>3, SettleIs DEF SameRuns, SameTypes, Started, Chosen
<1>3. ASSUME TimerSendAck(w) PROVE Step
  <2>1. /\ timer[w] = "ack_send" /\ SendEmptyAck(Of(w))
        /\ UNCHANGED <<completed, request, reply, worker, replies, stopped>>
    BY <1>3 DEF TimerSendAck
  <2>2. IsSettled(Of(w))
    BY <2>1 DEF RerunInv, OnlyConfirmableAcked, Acking, Telling, SettleInv, MarkedBefore, BeforeMark, Marked, IsSettled
  <2>3. SameRuns /\ SameSettled /\ SameTypes
    BY <2>1 DEF SameRuns, SameSettled, SameTypes, Started, IsSettled, Chosen
  <2>4. QED  BY <2>1, <2>2, <2>3, TellIs
<1>4. ASSUME RetransmitterSend(w) PROVE Step
  <2>1. /\ retransmitter[w].pc = "resend" /\ SendReply(w)
        /\ UNCHANGED <<completed, request, reply, worker, emptyAcks, stopped>>
    BY <1>4 DEF RetransmitterSend
  <2>2. reply[w].type # "none"
    BY <2>1 DEF SettleInv, SentIsTyped, HasType
  <2>3. SameRuns /\ SameSettled /\ SameTypes
    BY <2>1 DEF SameRuns, SameSettled, SameTypes, Started, IsSettled, Chosen
  <2>4. QED  BY <2>1, <2>2, <2>3, SendIs, TypedIsChosen
<1>5. QED  BY <1>1, <1>2, <1>3, <1>4 DEF TimerStep, RetransmitterStep

\* The environment's.  A request whose answer is acknowledged or rejected has been
\* marked before, and stays so.
LEMMA EnvironmentSeen ==
  ASSUME TypeInv, SettleInv, Environment
  PROVE  Step
<1> USE RunExchange DEF TypeInv, TypeOK, objects, threads
<1>1. ASSUME NEW e \in Exchanges, ListenerReceiveRequest(e) \/ Purge(e) PROVE Step
  <2>1. UNCHANGED <<completed, request, reply, worker, emptyAcks, replies, stopped>>
    BY <1>1 DEF ListenerReceiveRequest, Purge
  <2>2. QED
    BY <2>1 DEF Step, Unseen, SameRuns, SameSettled, SameTypes, Started, IsSettled, Chosen
<1>2. ASSUME NEW w \in Runs, NEW type \in {"ACK", "RST"}, ListenerReceiveEmpty(w, type)
      PROVE  Step
  <2>1. UNCHANGED <<completed, worker, emptyAcks, replies, stopped>>
    BY <1>2 DEF ListenerReceiveEmpty
  <2>2. request[Of(w)] = "acknowledged"
    BY <1>2 DEF ListenerReceiveEmpty, SettleInv, MarkedBefore, BeforeMark, Marked
  <2>3. (\A v \in Runs : reply'[v].type = reply[v].type) /\ request' = request
    <3>1. CASE w \in midTable
      <4>1. request' = [request EXCEPT ![Of(w)] = M!RequestFlagAfterEmpty(type, @)]
        BY <1>2, <3>1 DEF ListenerReceiveEmpty
      <4>2. M!RequestFlagAfterEmpty(type, request[Of(w)]) = request[Of(w)]
        BY <2>2 DEF M!RequestFlagAfterEmpty
      <4>3. request' = request  BY <4>1, <4>2
      <4>4. \A v \in Runs : reply'[v].type = reply[v].type
        BY <1>2, <3>1 DEF ListenerReceiveEmpty, Replies
      <4>5. QED  BY <4>3, <4>4
    <3>2. CASE w \notin midTable
      BY <1>2, <3>2 DEF ListenerReceiveEmpty
    <3>3. QED  BY <3>1, <3>2
  <2>4. QED
    BY <2>1, <2>3 DEF Step, Unseen, SameRuns, SameSettled, SameTypes, Started, IsSettled, Chosen
<1>3. ASSUME Close PROVE Step
  <2>1. stopped' = TRUE /\ UNCHANGED <<completed, request, reply, worker, emptyAcks, replies>>
    BY <1>3 DEF Close
  <2>2. SameRuns /\ SameSettled /\ SameTypes
    BY <2>1 DEF SameRuns, SameSettled, SameTypes, Started, IsSettled, Chosen
  <2>3. Promise!Close  BY <2>1, <2>2, SeenSame DEF Promise!Close
  <2>4. QED  BY <2>3 DEF Step, Promise!Next
<1>4. QED  BY <1>1, <1>2, <1>3 DEF Environment

\* Listener, workers, timers and retransmissions implement Exchange: no request is
\* handled again but a confirmable one that is settled, no answer to one is a
\* message of its own before, none is the ACK after, and a closed server sends
\* nothing (server/coap.py 166-245, messagelayer.py 225-291).
THEOREM Implementation == Spec => ImplementsExchange
<1>1. Init => Promise!Init
  <2> SUFFICES ASSUME Init PROVE Promise!Init  OBVIOUS
  <2>1. \A w \in Runs : ~Started(w) /\ Chosen(w) = "none"
    BY DEF Init, Started, Chosen, Branches, NoReply
  <2>2. \A e \in Exchanges : ~IsSettled(e)  BY DEF Init, IsSettled
  <2>3. QED  BY <2>1, <2>2 DEF Init, Promise!Init
<1>2. TypeInv /\ RerunInv /\ AnnounceInv /\ SettleInv /\ [Next]_vars => Step
  <2> SUFFICES ASSUME TypeInv, RerunInv, AnnounceInv, SettleInv, [Next]_vars PROVE Step
    OBVIOUS
  <2>1. CASE UNCHANGED vars
    BY <2>1 DEF vars, objects, threads, Step, Unseen, SameRuns, SameSettled, SameTypes, Started, IsSettled, Chosen
  <2>2. CASE System
    BY <2>2, ListenerSeen, WorkerSeen, OthersSeen DEF System
  <2>3. CASE Environment  BY <2>3, EnvironmentSeen
  <2>4. QED  BY <2>1, <2>2, <2>3 DEF Next
<1>3. Step => [Promise!Next]_<<{w \in Runs : Started(w)}, {e \in Exchanges : IsSettled(e)}, emptyAcks,
                               [w \in Runs |-> Chosen(w)], replies, stopped>>
  BY SeenSame DEF Step, Unseen
<1>4. QED
  BY <1>1, <1>2, <1>3, TypeCorrect, RerunInvariant, AnnounceInvariant, SettleInvariant, PTL
     DEF Spec, ImplementsExchange, Promise!Spec
=============================================================================
