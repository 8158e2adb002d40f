------------------------ MODULE SubscriptionProofs ------------------------
(***************************************************************************)
(* Theorems about Subscription, for any tokens and calls, with any number  *)
(* of PUTs and of retransmissions.                                         *)
(***************************************************************************)
EXTENDS Subscription, TLAPS

\* What the server does for a call, or is sent of it, is done for a token.
Served ==
  /\ \A c \in Calls :
       \/ c \in todo \/ transaction[c].known \/ transaction[c].flag = "open"
       \/ Request(c) \in network \/ call[c].thread
       => call[c].token \in Tokens
  /\ \A k \in Tokens : relations[k] # None => call[relations[k]].token \in Tokens

TypeInv == TypeOK /\ Served

Cancelled(c) == \E d \in Blocking : d.of = c /\ call[d].pc # "new"

\* Who needs its context has it, until it is cancelled ...
HasContext ==
  \A c \in Calls :
    \/ call[c].pc \in {"send", "waiting"}
    \/ c \in Asynchronous /\ call[c].pc = "open" /\ ~Cancelled(c)
    => call[c].token \in Tokens /\ requests[call[c].token] = c

\* ... and every context is that of such a call.
ContextIsOfCall ==
  \A k \in Tokens :
    requests[k] # None =>
      /\ call[requests[k]].token = k
      /\ call[requests[k]].pc \in IF requests[k] \in Blocking THEN {"send", "waiting"} ELSE {"send", "open"}

\* The lock is kept by a call without a token, or by the receiver that calls back.
LockHeld ==
  /\ lock \in Calls => Ready(lock)
  /\ receiver.pc = "callback" => lock = Receiver

ContextInv == HasContext /\ ContextIsOfCall /\ LockHeld /\ CallbackOnlyRegistered

-----------------------------------------------------------------------------
\* A new receiver has nothing in hand.
LEMMA AliveStays == receiver \in Receivers => Alive \in Receivers /\ (Alive.pc # "idle" => Alive = receiver)
  BY DEF Receivers, Alive

LEMMA CallsKinds ==
  /\ Blocking \subseteq Calls /\ Asynchronous \subseteq Calls
  /\ \A c \in Blocking : c.of \in Asynchronous
  /\ \A c, d \in Blocking : c.of = d.of => c = d
  BY CallsAssumption DEF Blocking, Asynchronous

LEMMA InitContextInv == Init => ContextInv
  BY NamesAssumption, CallsKinds DEF Init, ContextInv, HasContext, ContextIsOfCall, LockHeld,
     CallbackOnlyRegistered

\* A step that leaves the pc and the token of every call, the contexts and the lock.
LEMMA ContextsKept ==
  ASSUME TypeOK, TypeOK', ContextInv, UNCHANGED <<requests, lock>>,
         \A c \in Calls : call'[c].pc = call[c].pc /\ call'[c].token = call[c].token,
         receiver'.pc = "callback" => receiver' = receiver
  PROVE  ContextInv'
<1>1. HasContext'
  <2>1. \A c \in Calls : Cancelled(c)' <=> Cancelled(c)
    BY CallsKinds DEF Cancelled, Blocking
  <2> QED
    BY <2>1 DEF ContextInv, HasContext, Asynchronous, Blocking
<1>2. ContextIsOfCall'
  <2> SUFFICES ASSUME NEW j \in Tokens, requests'[j] # None
               PROVE  /\ call'[requests'[j]].token = j
                      /\ call'[requests'[j]].pc \in IF requests'[j] \in Blocking THEN {"send", "waiting"}
                                                                               ELSE {"send", "open"}
    BY DEF ContextIsOfCall, Blocking
  <2>1. requests'[j] = requests[j] /\ requests[j] \in Calls
    BY DEF TypeOK
  <2> QED
    BY <2>1 DEF ContextInv, ContextIsOfCall
<1>3. LockHeld'
  BY DEF TypeOK, ContextInv, LockHeld, Ready
<1>4. CallbackOnlyRegistered'
  BY DEF ContextInv, CallbackOnlyRegistered
<1> QED
  BY <1>1, <1>2, <1>3, <1>4 DEF ContextInv

\* A call gets a free token and its context.
LEMMA ContextTaken ==
  ASSUME TypeOK, TypeOK', ContextInv, NEW c \in Calls, Ready(c), NEW k \in Tokens, requests[k] = None,
         lock \in {None, c},
         requests' = [requests EXCEPT ![k] = c],
         call' = [call EXCEPT ![c].pc = "send", ![c].token = k],
         lock' = None, receiver' = receiver
  PROVE  ContextInv'
<1>1. call[c].pc \in {"new", "deleted"} /\ call'[c].pc = "send" /\ call'[c].token = k
      /\ \A d \in Calls \ {c} : call'[d] = call[d]
  BY DEF Ready, TypeOK
<1>2. receiver.pc # "callback"
  BY NamesAssumption DEF ContextInv, LockHeld
<1>3. requests \in [Tokens -> Calls \cup {None}]
  BY DEF TypeOK
<1>4. \A d \in Calls \ {c} : Cancelled(d) => Cancelled(d)'
  BY <1>1, CallsKinds DEF Cancelled
<1>5. HasContext'
  <2> SUFFICES ASSUME NEW e \in Calls,
                      \/ call'[e].pc \in {"send", "waiting"}
                      \/ e \in Asynchronous /\ call'[e].pc = "open" /\ ~Cancelled(e)'
               PROVE  call'[e].token \in Tokens /\ requests'[call'[e].token] = e
    BY DEF HasContext
  <2>1. CASE e = c
    BY <2>1, <1>1, <1>3
  <2>2. CASE e # c
    <3>1. call[e].token \in Tokens /\ requests[call[e].token] = e
      BY <2>2, <1>1, <1>4 DEF ContextInv, HasContext
    <3>2. call[e].token # k
      BY <3>1, NamesAssumption
    <3> QED
      BY <3>1, <3>2, <2>2, <1>1, <1>3
  <2> QED
    BY <2>1, <2>2
<1>6. ContextIsOfCall'
  <2> SUFFICES ASSUME NEW j \in Tokens, requests'[j] # None
               PROVE  /\ call'[requests'[j]].token = j
                      /\ call'[requests'[j]].pc \in IF requests'[j] \in Blocking THEN {"send", "waiting"}
                                                                               ELSE {"send", "open"}
    BY DEF ContextIsOfCall, Blocking
  <2>1. CASE j = k
    BY <2>1, <1>1, <1>3
  <2>2. CASE j # k
    <3>1. requests'[j] = requests[j] /\ requests[j] \in Calls
      BY <2>2, <1>3
    <3>2. requests[j] # c
      BY <3>1, <1>1, NamesAssumption DEF ContextInv, ContextIsOfCall
    <3>3. call'[requests[j]] = call[requests[j]]
      BY <3>1, <3>2, <1>1
    <3>4. /\ call[requests[j]].token = j
          /\ call[requests[j]].pc \in IF requests[j] \in Blocking THEN {"send", "waiting"} ELSE {"send", "open"}
      BY <3>1 DEF ContextInv, ContextIsOfCall
    <3> QED
      BY <3>1, <3>3, <3>4
  <2> QED
    BY <2>1, <2>2
<1>7. LockHeld' /\ CallbackOnlyRegistered'
  BY <1>2, NamesAssumption DEF LockHeld, CallbackOnlyRegistered
<1> QED
  BY <1>5, <1>6, <1>7 DEF ContextInv

LEMMA CancelDeleteContext ==
  ASSUME TypeOK, TypeOK', ContextInv, NEW c \in Calls, NEW explicit \in BOOLEAN, CancelDelete(c, explicit)
  PROVE  ContextInv'
<1> DEFINE d == c.of
           k == call[d].token
<1>1. /\ c \in Blocking /\ call[c].pc = "new" /\ d \in Asynchronous /\ call[d].pc = "open"
      /\ lock = None /\ lock' = lock /\ receiver' = receiver
      /\ requests' = [requests EXCEPT ![k] = None]
  BY CallsKinds DEF CancelDelete, LockFree
<1>2. call'[c].pc \in {"deleted", "done"} /\ \A e \in Calls \ {c} : call'[e] = call[e]
  BY DEF CancelDelete, TypeOK
<1>3. k \in Tokens /\ requests[k] = d
  <2>1. ~Cancelled(d)
    BY <1>1, CallsKinds DEF Cancelled
  <2> QED
    BY <1>1, <2>1, CallsKinds DEF ContextInv, HasContext
<1>4. requests \in [Tokens -> Calls \cup {None}] /\ receiver.pc # "callback"
  BY <1>1, NamesAssumption DEF TypeOK, ContextInv, LockHeld
<1>5. Cancelled(d)' /\ \A e \in Calls : Cancelled(e) => Cancelled(e)'
  BY <1>1, <1>2, CallsKinds DEF Cancelled
<1> HIDE DEF d, k
<1>6. HasContext'
  <2> SUFFICES ASSUME NEW e \in Calls,
                      \/ call'[e].pc \in {"send", "waiting"}
                      \/ e \in Asynchronous /\ call'[e].pc = "open" /\ ~Cancelled(e)'
               PROVE  call'[e].token \in Tokens /\ requests'[call'[e].token] = e
    BY DEF HasContext
  <2>1. e # c /\ e # d /\ call'[e] = call[e]
    BY <1>1, <1>2, <1>5
  <2>2. call[e].token \in Tokens /\ requests[call[e].token] = e
    BY <2>1, <1>5 DEF ContextInv, HasContext
  <2> QED
    BY <2>1, <2>2, <1>1, <1>3, <1>4
<1>7. ContextIsOfCall'
  <2> SUFFICES ASSUME NEW j \in Tokens, requests'[j] # None
               PROVE  /\ call'[requests'[j]].token = j
                      /\ call'[requests'[j]].pc \in IF requests'[j] \in Blocking THEN {"send", "waiting"}
                                                                               ELSE {"send", "open"}
    BY DEF ContextIsOfCall, Blocking
  <2>1. requests'[j] = requests[j] /\ requests[j] \in Calls
    BY <1>1, <1>4
  <2>2. requests[j] # c
    BY <1>1, <2>1 DEF ContextInv, ContextIsOfCall
  <2> QED
    BY <2>1, <2>2, <1>2 DEF ContextInv, ContextIsOfCall
<1>8. LockHeld' /\ CallbackOnlyRegistered'
  BY <1>1, <1>4, NamesAssumption DEF LockHeld, CallbackOnlyRegistered
<1> QED
  BY <1>6, <1>7, <1>8 DEF ContextInv

\* Who returns deletes its own context, which is not the one that is called back.
LEMMA ReturnContext ==
  ASSUME TypeOK, TypeOK', ContextInv, NEW c \in Calls, Return(c)
  PROVE  ContextInv'
<1> DEFINE k == call[c].token
<1>1. /\ call[c].pc = "waiting" /\ requests' = [requests EXCEPT ![k] = None]
      /\ lock' = lock /\ receiver' = receiver
  BY DEF Return, Returned
<1>2. call'[c].pc = "done" /\ \A e \in Calls \ {c} : call'[e] = call[e]
  BY DEF Return, TypeOK
<1>3. k \in Tokens /\ requests[k] = c /\ c \in Blocking
  <2>1. k \in Tokens /\ requests[k] = c
    BY <1>1 DEF ContextInv, HasContext
  <2> QED
    BY <2>1, <1>1, NamesAssumption DEF ContextInv, ContextIsOfCall
<1>4. requests \in [Tokens -> Calls \cup {None}]
  BY DEF TypeOK
<1>5. \A e \in Calls : Cancelled(e) => Cancelled(e)'
  BY <1>2, CallsKinds DEF Cancelled
<1> HIDE DEF k
<1>6. HasContext'
  <2> SUFFICES ASSUME NEW e \in Calls,
                      \/ call'[e].pc \in {"send", "waiting"}
                      \/ e \in Asynchronous /\ call'[e].pc = "open" /\ ~Cancelled(e)'
               PROVE  call'[e].token \in Tokens /\ requests'[call'[e].token] = e
    BY DEF HasContext
  <2>1. e # c /\ call'[e] = call[e]
    BY <1>2
  <2>2. call[e].token \in Tokens /\ requests[call[e].token] = e
    BY <2>1, <1>5 DEF ContextInv, HasContext
  <2> QED
    BY <2>1, <2>2, <1>1, <1>3, <1>4
<1>7. ContextIsOfCall'
  <2> SUFFICES ASSUME NEW j \in Tokens, requests'[j] # None
               PROVE  /\ call'[requests'[j]].token = j
                      /\ call'[requests'[j]].pc \in IF requests'[j] \in Blocking THEN {"send", "waiting"}
                                                                               ELSE {"send", "open"}
    BY DEF ContextIsOfCall, Blocking
  <2>1. j # k /\ requests'[j] = requests[j] /\ requests[j] \in Calls
    BY <1>1, <1>3, <1>4
  <2>2. requests[j] # c
    BY <2>1 DEF k, ContextInv, ContextIsOfCall
  <2> QED
    BY <2>1, <2>2, <1>2 DEF ContextInv, ContextIsOfCall
<1>8. LockHeld'
  BY <1>1, <1>2 DEF ContextInv, LockHeld, Ready
<1>9. CallbackOnlyRegistered'
  <2> SUFFICES ASSUME receiver.pc = "callback", receiver.context \in Asynchronous
               PROVE  requests'[receiver.message.token] = receiver.context
    BY <1>1 DEF CallbackOnlyRegistered, Asynchronous, Blocking
  <2>1. requests[receiver.message.token] = receiver.context /\ receiver.context # c
    BY <1>3 DEF ContextInv, CallbackOnlyRegistered, Asynchronous
  <2> QED
    BY <2>1, <1>1, <1>3, <1>4
<1> QED
  BY <1>6, <1>7, <1>8, <1>9 DEF ContextInv

LEMMA SendContext ==
  ASSUME TypeOK, TypeOK', ContextInv, NEW c \in Calls, Send(c)
  PROVE  ContextInv'
<1>1. /\ call[c].pc = "send" /\ call'[c].token = call[c].token
      /\ call'[c].pc = (IF c \in Blocking THEN "waiting" ELSE "open")
      /\ \A e \in Calls \ {c} : call'[e].pc = call[e].pc /\ call'[e].token = call[e].token
      /\ requests' = requests /\ lock' = lock
  BY DEF Send, TypeOK, Contexts
<1>2. \A e \in Calls : Cancelled(e) => Cancelled(e)'
  BY <1>1, CallsKinds DEF Cancelled
<1>3. HasContext'
  BY <1>1, <1>2 DEF ContextInv, HasContext
<1>4. ContextIsOfCall'
  <2> SUFFICES ASSUME NEW j \in Tokens, requests'[j] # None
               PROVE  /\ call'[requests'[j]].token = j
                      /\ call'[requests'[j]].pc \in IF requests'[j] \in Blocking THEN {"send", "waiting"}
                                                                               ELSE {"send", "open"}
    BY DEF ContextIsOfCall, Blocking
  <2>1. requests'[j] = requests[j] /\ requests[j] \in Calls
    BY <1>1 DEF TypeOK
  <2>2. CASE requests[j] = c
    BY <2>1, <2>2, <1>1 DEF ContextInv, ContextIsOfCall
  <2>3. CASE requests[j] # c
    BY <2>1, <2>3, <1>1 DEF ContextInv, ContextIsOfCall
  <2> QED
    BY <2>2, <2>3
<1>5. receiver'.pc = "callback" => receiver' = receiver
  BY AliveStays DEF Send, TypeOK
<1>6. LockHeld' /\ CallbackOnlyRegistered'
  BY <1>1, <1>5 DEF ContextInv, LockHeld, Ready, CallbackOnlyRegistered, Asynchronous, Blocking
<1> QED
  BY <1>3, <1>4, <1>6 DEF ContextInv
-----------------------------------------------------------------------------
(* Types.                                                                  *)

LEMMA InitTypeInv == Init => TypeInv
<1> SUFFICES ASSUME Init PROVE TypeInv
  OBVIOUS
<1>1. [pc |-> "new", token |-> None, flag |-> "open", count |-> 0,
       thread |-> FALSE, responded |-> FALSE, result |-> None] \in Contexts
  BY BoundsAssumption DEF Contexts
<1>2. mids \in Seq(Calls) /\ Len(mids) = 0 /\ 0 \in Versions
  BY BoundsAssumption DEF Init, Versions
<1>3. [known |-> FALSE, mid |-> 0, version |-> 0, observe |-> FALSE, flag |-> "none", count |-> 0] \in Transactions
  BY <1>2, BoundsAssumption DEF Transactions
<1>4. [pc |-> "idle", message |-> None, context |-> None] \in Receivers
  BY DEF Receivers
<1>5. TypeOK
  BY <1>1, <1>2, <1>3, <1>4 DEF Init, TypeOK
<1>6. Served
  BY DEF Init, Served
<1> QED
  BY <1>5, <1>6 DEF TypeInv

\* Responded changes nothing but responded and result.
LEMMA RespondedKeeps ==
  ASSUME NEW calls \in [Calls -> Contexts], NEW c, NEW result \in Responses \cup {None}
  PROVE  /\ Responded(calls, c, result) \in [Calls -> Contexts]
         /\ \A d \in Calls : /\ Responded(calls, c, result)[d].pc = calls[d].pc
                             /\ Responded(calls, c, result)[d].token = calls[d].token
                             /\ Responded(calls, c, result)[d].flag = calls[d].flag
                             /\ Responded(calls, c, result)[d].thread = calls[d].thread
                             /\ Responded(calls, c, result)[d].result \in {calls[d].result, result}
<1>1. CASE c \in Blocking
  <2> DEFINE new == [calls[c] EXCEPT !.responded = TRUE, !.result = result]
  <2>1. c \in Calls /\ calls[c] \in Contexts
    BY <1>1 DEF Blocking
  <2>2. /\ new \in Contexts /\ new.pc = calls[c].pc /\ new.token = calls[c].token
        /\ new.flag = calls[c].flag /\ new.thread = calls[c].thread /\ new.result = result
    BY <2>1 DEF Contexts
  <2> HIDE DEF new
  <2>3. Responded(calls, c, result) = [calls EXCEPT ![c] = new]
    BY <1>1, <2>1 DEF new, Responded, Contexts
  <2> QED
    BY <2>1, <2>2, <2>3
<1>2. CASE c \notin Blocking
  <2>1. Responded(calls, c, result) = calls
    BY <1>2 DEF Responded
  <2> QED
    BY <2>1
<1> QED
  BY <1>1, <1>2

LEMMA ResponseTyped ==
  ASSUME NEW c \in Calls, NEW t \in Transactions, call[c].token \in Tokens, mids \in Seq(Calls)
  PROVE  Response(c, t) \in Responses
<1>1. t.version \in Versions /\ t.mid \in 0..Len(mids) /\ Len(mids) \in Nat
  BY DEF Transactions
<1>2. CASE t.mid = 0
  BY <1>1, <1>2 DEF Response, Responses, Answers
<1>3. CASE t.mid # 0
  <2>1. t.mid \in 1..Len(mids)
    BY <1>1, <1>3
  <2> QED
    BY <1>1, <1>3, <2>1 DEF Response, Responses, Notifications
<1> QED
  BY <1>2, <1>3

\* A step of one call at the client, or of the receiver that calls back: the calls that
\* have a token keep one, and a request that is sent has one.
ClientStep ==
  /\ requests' \in [Tokens -> Calls \cup {None}] /\ byToken' \in [Tokens -> Calls \cup {None}]
  /\ lock' \in Calls \cup {None, Receiver} /\ call' \in [Calls -> Contexts]
  /\ \A d \in Calls : call[d].token \in Tokens \/ call'[d].thread => call'[d].token \in Tokens
  /\ receiver' \in Receivers
  /\ receiver'.pc \notin {"idle", "dead"} => receiver'.message \in Responses
  /\ receiver'.pc \in {"wake", "wait"} => receiver'.context \in Calls
  /\ UNCHANGED server
  /\ \A m \in network' \ network :
       (\E c \in Calls : m = Request(c) /\ call[c].token \in Tokens) \/ m \in Empties

LEMMA ClientStepType == TypeInv /\ ClientStep => TypeInv'
<1> SUFFICES ASSUME TypeInv, ClientStep PROVE TypeInv'
  OBVIOUS
<1>1. UNCHANGED server
  BY DEF ClientStep
<1>2. /\ Responses' = Responses /\ Empties' = Empties /\ Contexts' = Contexts
      /\ Transactions' = Transactions /\ Requests' = Requests /\ Versions' = Versions /\ Receivers' = Receivers
  BY <1>1 DEF server, Responses, Answers, Notifications, Empties, Contexts, Transactions, Requests, Versions,
     Receivers
<1>3. network' \subseteq Requests \cup Empties \cup Responses
  BY DEF TypeInv, TypeOK, ClientStep, Request, Requests
<1>4. TypeOK'
  BY <1>1, <1>2, <1>3 DEF TypeInv, TypeOK, ClientStep, server
<1>5. Served'
  <2> SUFFICES ASSUME NEW c \in Calls,
                      \/ c \in todo \/ transaction[c].known \/ transaction[c].flag = "open"
                      \/ Request(c) \in network' \/ call'[c].thread
               PROVE  call'[c].token \in Tokens
    <3>1. \A k \in Tokens : relations[k] # None => call'[relations[k]].token \in Tokens
      BY DEF TypeInv, TypeOK, Served, ClientStep
    <3> QED
      BY <3>1, <1>1 DEF Served, server, Request
  <2>1. CASE Request(c) \in network' \ network
    BY <2>1 DEF ClientStep, Request, Empties
  <2>2. CASE Request(c) \in network \/ Request(c) \notin network'
    BY <2>2, <1>1 DEF TypeInv, Served, ClientStep, server
  <2> QED
    BY <2>1, <2>2
<1> QED
  BY <1>4, <1>5 DEF TypeInv

LEMMA CallsType ==
  ASSUME TypeInv, ContextInv, NEW c \in Calls,
         \/ \E explicit \in BOOLEAN : CancelDelete(c, explicit)
         \/ Spin(c) \/ ClientThreads(c)
  PROVE  ClientStep
<1>1. /\ requests \in [Tokens -> Calls \cup {None}] /\ byToken \in [Tokens -> Calls \cup {None}]
      /\ lock \in Calls \cup {None, Receiver} /\ call \in [Calls -> Contexts] /\ call[c] \in Contexts
      /\ receiver \in Receivers
      /\ receiver.pc \notin {"idle", "dead"} => receiver.message \in Responses
      /\ receiver.pc \in {"wake", "wait"} => receiver.context \in Calls
      /\ \A d \in Calls : call[d].thread => call[d].token \in Tokens
  BY DEF TypeInv, TypeOK, Served
<1>2. CASE \E explicit \in BOOLEAN : CancelDelete(c, explicit)
  <2> PICK explicit \in BOOLEAN : CancelDelete(c, explicit)
    BY <1>2
  <2>1. [call[c] EXCEPT !.pc = IF explicit THEN "deleted" ELSE "done"] \in Contexts
    BY <1>1 DEF Contexts
  <2>2. call' = [call EXCEPT ![c] = [call[c] EXCEPT !.pc = IF explicit THEN "deleted" ELSE "done"]]
    BY <1>1 DEF CancelDelete
  <2>3. call' \in [Calls -> Contexts]
        /\ \A d \in Calls : call'[d].token = call[d].token /\ call'[d].thread = call[d].thread
    BY <1>1, <2>1, <2>2 DEF Contexts
  <2>4. requests' \in [Tokens -> Calls \cup {None}]
    BY <1>1 DEF CancelDelete
  <2> QED
    BY <1>1, <2>3, <2>4 DEF CancelDelete, ClientStep
<1>3. CASE Register(c) \/ SpinEnds(c)
  <2>1. PICK k \in Tokens : /\ requests' = [requests EXCEPT ![k] = c]
                            /\ call' = [call EXCEPT ![c].pc = "send", ![c].token = k]
    BY <1>3 DEF Register, SpinEnds, TokenFor, Free
  <2>2. [call[c] EXCEPT !.pc = "send", !.token = k] \in Contexts
    BY <1>1 DEF Contexts
  <2>3. call' = [call EXCEPT ![c] = [call[c] EXCEPT !.pc = "send", !.token = k]]
    BY <1>1, <2>1 DEF Contexts
  <2>4. call' \in [Calls -> Contexts]
    BY <1>1, <2>2, <2>3
  <2>5. \A d \in Calls : call[d].token \in Tokens \/ call'[d].thread => call'[d].token \in Tokens
    BY <1>1, <2>1, <2>3 DEF Contexts
  <2>6. requests' \in [Tokens -> Calls \cup {None}]
    BY <1>1, <2>1
  <2>7. lock' \in {lock, None} /\ UNCHANGED <<byToken, receiver, server, network>>
    BY <1>3 DEF Register, SpinEnds
  <2> QED
    BY <1>1, <2>4, <2>5, <2>6, <2>7 DEF ClientStep
<1>4. CASE Spin(c)
  BY <1>1, <1>4 DEF Spin, ClientStep
<1>5. CASE Send(c)
  <2> DEFINE new == [call[c] EXCEPT !.pc = IF c \in Blocking THEN "waiting" ELSE "open", !.thread = TRUE]
  <2>1. new \in Contexts /\ new.token = call[c].token
    BY <1>1 DEF Contexts
  <2>2. call' = [call EXCEPT ![c] = new]
    BY <1>1, <1>5 DEF Send, Contexts
  <2>3. call[c].token \in Tokens
    BY <1>5 DEF Send, ContextInv, HasContext
  <2> HIDE DEF new
  <2>4. call' \in [Calls -> Contexts]
        /\ \A d \in Calls : call[d].token \in Tokens \/ call'[d].thread => call'[d].token \in Tokens
    BY <1>1, <2>1, <2>2, <2>3
  <2>5. /\ receiver' \in Receivers
        /\ receiver'.pc # "idle" => receiver' = receiver
    BY <1>1, <1>5, AliveStays DEF Send
  <2>6. /\ byToken' \in [Tokens -> Calls \cup {None}] /\ network' = network \cup {Request(c)}
        /\ UNCHANGED <<requests, lock, server>>
    BY <1>1, <1>5 DEF Send
  <2> QED
    BY <1>1, <2>3, <2>4, <2>5, <2>6 DEF ClientStep
<1>6. CASE Return(c)
  <2>1. [call[c] EXCEPT !.pc = "done"] \in Contexts
    BY <1>1 DEF Contexts
  <2>2. call' = [call EXCEPT ![c] = [call[c] EXCEPT !.pc = "done"]]
    BY <1>1, <1>6 DEF Return
  <2> QED
    BY <1>1, <1>6, <2>1, <2>2, ZenonT(60) DEF Return, Returned, ClientStep, Contexts
<1>7. CASE ClientRetransmit(c)
  <2>1. [call[c] EXCEPT !.count = @ + 1] \in Contexts
    BY <1>1, <1>7, BoundsAssumption DEF ClientRetransmit, Contexts
  <2>2. call' = [call EXCEPT ![c] = [call[c] EXCEPT !.count = @ + 1]]
    BY <1>1, <1>7 DEF ClientRetransmit
  <2>3. call[c].token \in Tokens
    BY <1>1, <1>7 DEF ClientRetransmit
  <2>4. call' \in [Calls -> Contexts]
        /\ \A d \in Calls : call'[d].token = call[d].token /\ call'[d].thread = call[d].thread
    BY <1>1, <2>1, <2>2 DEF Contexts
  <2>5. /\ receiver' \in Receivers
        /\ receiver'.pc # "idle" => receiver' = receiver
    BY <1>1, <1>7, AliveStays DEF ClientRetransmit
  <2>6. network' = network \cup {Request(c)} /\ UNCHANGED <<requests, lock, byToken, server>>
    BY <1>7 DEF ClientRetransmit
  <2> QED
    BY <1>1, <2>3, <2>4, <2>5, <2>6 DEF ClientStep
<1>8. CASE ClientGiveUp(c)
  <2> DEFINE calls == [call EXCEPT ![c].flag = "timeouted"]
  <2>1. calls = [call EXCEPT ![c] = [call[c] EXCEPT !.flag = "timeouted"]]
    BY <1>1
  <2>2. [call[c] EXCEPT !.flag = "timeouted"] \in Contexts
    BY <1>1 DEF Contexts
  <2>3. calls \in [Calls -> Contexts]
        /\ \A d \in Calls : calls[d].token = call[d].token /\ calls[d].thread = call[d].thread
    BY <1>1, <2>1, <2>2 DEF Contexts
  <2>4. call' = Responded(calls, requests[call[c].token], None)
    BY <1>8 DEF ClientGiveUp
  <2> HIDE DEF calls
  <2>5. call' \in [Calls -> Contexts]
        /\ \A d \in Calls : call'[d].token = call[d].token /\ call'[d].thread = call[d].thread
    BY <2>3, <2>4, RespondedKeeps
  <2> QED
    BY <1>1, <1>8, <2>5 DEF ClientGiveUp, ClientStep
<1>9. CASE RetransmissionEnds(c)
  <2> DEFINE new == [call[c] EXCEPT !.thread = FALSE, !.count = 0]
  <2>1. new \in Contexts /\ new.token = call[c].token
    <3>1. 0 \in 0..MaxRetransmit
      BY BoundsAssumption
    <3> QED
      BY <1>1, <3>1 DEF Contexts
  <2>2. call' = [call EXCEPT ![c] = new] /\ call[c].thread
    BY <1>1, <1>9 DEF RetransmissionEnds, Contexts
  <2> HIDE DEF new
  <2>3. call' \in [Calls -> Contexts] /\ \A d \in Calls : call'[d].token = call[d].token
    BY <1>1, <2>1, <2>2
  <2>4. \A d \in Calls : call'[d].thread => call[d].thread
    BY <1>1, <2>2
  <2>5. UNCHANGED <<requests, lock, byToken, receiver, server, network>>
    BY <1>9 DEF RetransmissionEnds
  <2> QED
    BY <1>1, <2>3, <2>4, <2>5 DEF ClientStep
<1> QED
  BY <1>2, <1>3, <1>4, <1>5, <1>6, <1>7, <1>8, <1>9 DEF ClientThreads

LEMMA ReceiverType ==
  ASSUME TypeInv, ReceiverThread \/ \E m \in network : Receive(m)
  PROVE  ClientStep
<1>1. /\ requests \in [Tokens -> Calls \cup {None}] /\ byToken \in [Tokens -> Calls \cup {None}]
      /\ lock \in Calls \cup {None, Receiver} /\ call \in [Calls -> Contexts]
      /\ receiver \in Receivers
      /\ receiver.pc \notin {"idle", "dead"} => receiver.message \in Responses
      /\ receiver.pc \in {"wake", "wait"} => receiver.context \in Calls
      /\ \A d \in Calls : call[d].thread => call[d].token \in Tokens
  BY DEF TypeInv, TypeOK, Served
<1>2. CASE Lookup
  <2>1. receiver.message.token \in Tokens
    BY <1>1, <1>2 DEF Lookup, Responses, Answers, Notifications
  <2> DEFINE c == requests[receiver.message.token]
  <2>2. c \in Calls \cup {None}
    BY <1>1, <2>1
  <2>3. /\ receiver' \in Receivers
        /\ receiver'.pc \notin {"idle", "dead"} => receiver'.message \in Responses
        /\ receiver'.pc \notin {"wake", "wait"}
    <3>1. CASE c = None
      BY <1>2, <3>1 DEF Lookup, Receivers
    <3>2. CASE c # None
      <4>1. receiver' = [receiver EXCEPT !.pc = "callback", !.context = c]
        BY <1>2, <3>2 DEF Lookup
      <4> HIDE DEF c
      <4>2. receiver.message \in Responses
        BY <1>1, <1>2 DEF Lookup
      <4> QED
        BY <1>1, <2>2, <4>1, <4>2 DEF Receivers
    <3> QED
      BY <3>1, <3>2
  <2> QED
    BY <1>1, <1>2, <2>3 DEF Lookup, ClientStep
<1>3. CASE Callback
  <2>1. receiver.message \in Responses \cup {None}
    BY <1>1 DEF Receivers
  <2>2. call' \in [Calls -> Contexts]
        /\ \A d \in Calls : call'[d].token = call[d].token /\ call'[d].thread = call[d].thread
    BY <1>1, <1>3, <2>1, RespondedKeeps DEF Callback
  <2>3. receiver' \in Receivers /\ receiver'.pc = "idle"
    BY <1>3 DEF Callback, Receivers
  <2> QED
    BY <1>1, <1>3, <2>2, <2>3 DEF Callback, ClientStep
<1>4. CASE \E m \in network : Receive(m)
  <2> PICK m \in network : Receive(m)
    BY <1>4
  <2> DEFINE c == TransactionOf(m)
  <2>1. m \in Responses /\ m.kind \in {"answer", "notification"}
    BY DEF Receive, TypeInv, TypeOK, Requests, Empties
  <2>2. c \in Calls
    BY <1>1, <2>1 DEF Receive, TransactionOf, Responses, Answers, Notifications
  <2>3. [call[c] EXCEPT !.flag = "acknowledged"] \in Contexts
    BY <1>1, <2>2 DEF Contexts
  <2>4. call' = [call EXCEPT ![c] = [call[c] EXCEPT !.flag = "acknowledged"]]
    BY <1>1, <2>2 DEF Receive
  <2> HIDE DEF c
  <2>5. call' \in [Calls -> Contexts]
        /\ \A d \in Calls : call'[d].token = call[d].token /\ call'[d].thread = call[d].thread
    BY <1>1, <2>2, <2>3, <2>4 DEF Contexts
  <2>6. Acknowledgements(m) \subseteq Empties
    BY <2>1 DEF Responses, Answers, Notifications, Empties, Empty, Acknowledgements
  <2>7. \/ receiver' = [pc |-> "wake", message |-> m, context |-> c]
        \/ receiver' = [pc |-> "lookup", message |-> m, context |-> None]
    BY DEF Receive, c
  <2>8. /\ receiver' \in Receivers /\ receiver'.message \in Responses
        /\ receiver'.pc \in {"wake", "wait"} => receiver'.context \in Calls
    BY <2>1, <2>2, <2>7 DEF Receivers
  <2>9. network' \subseteq network \cup Empties /\ UNCHANGED <<requests, lock, byToken, server>>
    BY <2>6 DEF Receive
  <2> QED
    BY <1>1, <2>5, <2>8, <2>9 DEF ClientStep
<1>5. CASE Wake
  <2>1. receiver' \in Receivers /\ receiver'.pc \in {"wait", "dead"}
    BY <1>1, <1>5 DEF Wake, Receivers
  <2>2. receiver'.pc = "wait" => receiver'.message = receiver.message /\ receiver'.context = receiver.context
    BY <1>1, <1>5 DEF Wake, Receivers
  <2> QED
    BY <1>1, <1>5, <2>1, <2>2 DEF Wake, ClientStep
<1>6. CASE Acknowledge
  <2>1. receiver' = [receiver EXCEPT !.pc = "lookup", !.context = None] /\ receiver.message \in Responses
    BY <1>1, <1>6 DEF Acknowledge
  <2>2. receiver' \in Receivers /\ receiver'.pc = "lookup" /\ receiver'.message = receiver.message
    BY <1>1, <2>1 DEF Receivers
  <2>3. Acknowledgements(receiver.message) \subseteq Empties
    BY <2>1 DEF Responses, Answers, Notifications, Empties, Empty, Acknowledgements
  <2>4. network' \subseteq network \cup Empties /\ UNCHANGED <<requests, lock, call, byToken, server>>
    BY <1>6, <2>3 DEF Acknowledge
  <2> QED
    BY <1>1, <2>1, <2>2, <2>4 DEF ClientStep
<1> QED
  BY <1>2, <1>3, <1>4, <1>5, <1>6 DEF ReceiverThread

\* A step of the server: its transactions are of calls that it has been sent.
ServerStep ==
  /\ version' \in Versions /\ relations' \in [Tokens -> Calls \cup {None}]
  /\ mids' \in Seq(Calls) /\ Len(mids) <= Len(mids')
  /\ transaction' \in [Calls -> Transactions'] /\ todo' \subseteq Calls
  /\ network' \subseteq network \cup Responses'
  /\ \A c \in Calls :
       c \in todo' \/ transaction'[c].known \/ transaction'[c].flag = "open" => call[c].token \in Tokens
  /\ \A k \in Tokens : relations'[k] # None => call[relations'[k]].token \in Tokens
  /\ UNCHANGED client

LEMMA ServerStepType == TypeInv /\ ServerStep => TypeInv'
<1> SUFFICES ASSUME TypeInv, ServerStep PROVE TypeInv'
  OBVIOUS
<1>1. UNCHANGED client
  BY DEF ServerStep
<1>2. mids \in Seq(Calls) /\ mids' \in Seq(Calls) /\ 1..Len(mids) \subseteq 1..Len(mids')
  BY DEF ServerStep, TypeInv, TypeOK
<1>3. Versions' = Versions /\ Requests' = Requests
  BY DEF Versions, Requests
<1>4. Responses \subseteq Responses' /\ Empties \subseteq Empties'
  BY <1>2, <1>3 DEF Responses, Answers, Notifications, Empties
<1>5. call' \in [Calls -> Contexts']
  <2>1. Contexts \subseteq Contexts'
    BY <1>4 DEF Contexts
  <2> QED
    BY <1>1, <2>1 DEF TypeInv, TypeOK, client
<1>6. network' \subseteq Requests \cup Empties' \cup Responses'
  BY <1>4 DEF TypeInv, TypeOK, ServerStep
<1>7. /\ receiver' \in Receivers'
      /\ receiver'.pc \notin {"idle", "dead"} => receiver'.message \in Responses'
      /\ receiver'.pc \in {"wake", "wait"} => receiver'.context \in Calls
  <2>1. Receivers \subseteq Receivers'
    BY <1>4 DEF Receivers
  <2> QED
    BY <1>1, <1>4, <2>1 DEF TypeInv, TypeOK, client
<1>8. TypeOK'
  BY <1>1, <1>2, <1>3, <1>5, <1>6, <1>7 DEF TypeInv, TypeOK, ServerStep, client
<1>9. Served'
  <2> SUFFICES ASSUME NEW c \in Calls, Request(c) \in network' \/ call[c].thread
               PROVE  call[c].token \in Tokens
    BY <1>1 DEF Served, ServerStep, client, Request
  <2>1. Request(c) \in network \/ call[c].thread
    BY DEF ServerStep, Request, Responses, Answers, Notifications
  <2> QED
    BY <2>1 DEF TypeInv, Served
<1> QED
  BY <1>8, <1>9 DEF TypeInv

\* A transaction that the server changes, and the message that it sends for it.
LEMMA TransactionChanged ==
  ASSUME TypeInv, NEW c \in Calls, call[c].token \in Tokens, mids' \in {mids, Append(mids, c)},
         NEW t \in Transactions', transaction' = [transaction EXCEPT ![c] = t],
         network' \subseteq network \cup Responses', version' \in Versions,
         relations' \in [Tokens -> Calls \cup {None}], \A k \in Tokens : relations'[k] \in {relations[k], c, None},
         todo' \subseteq todo, UNCHANGED client
  PROVE  ServerStep
<1>1. mids \in Seq(Calls) /\ transaction \in [Calls -> Transactions] /\ todo \subseteq Calls
  BY DEF TypeInv, TypeOK
<1>2. mids' \in Seq(Calls) /\ Len(mids) \in Nat /\ Len(mids') \in Nat /\ Len(mids) <= Len(mids')
  BY <1>1
<1>3. Transactions \subseteq Transactions'
  <2>1. 0..Len(mids) \subseteq 0..Len(mids')
    BY <1>2
  <2> QED
    BY <2>1 DEF Transactions, Versions
<1>4. transaction' \in [Calls -> Transactions']
  BY <1>1, <1>3
<1>5. \A d \in Calls :
        d \in todo' \/ transaction'[d].known \/ transaction'[d].flag = "open" => call[d].token \in Tokens
  BY <1>1 DEF TypeInv, Served
<1>6. \A k \in Tokens : relations'[k] # None => call[relations'[k]].token \in Tokens
  BY DEF TypeInv, Served
<1> QED
  BY <1>1, <1>2, <1>4, <1>5, <1>6 DEF ServerStep

LEMMA ServerType ==
  ASSUME TypeInv,
         \/ \E c \in Calls : ServerThreads(c)
         \/ Put \/ \E m \in network : ServerRequest(m) \/ ServerDuplicate(m) \/ ServerEmpty(m)
  PROVE  ServerStep
<1>1. /\ version \in Versions /\ relations \in [Tokens -> Calls \cup {None}]
      /\ mids \in Seq(Calls) /\ transaction \in [Calls -> Transactions] /\ todo \subseteq Calls
      /\ network \subseteq Requests \cup Empties \cup Responses /\ Len(mids) \in Nat
  BY DEF TypeInv, TypeOK
<1>2. ASSUME mids' = mids PROVE Responses' = Responses /\ Transactions' = Transactions
  BY <1>2 DEF Responses, Answers, Notifications, Transactions, Versions
<1>3. ASSUME NEW c \in Calls, Notify(c) PROVE ServerStep
  <2> DEFINE t == [transaction[c] EXCEPT !.mid = Len(mids) + 1, !.version = version, !.flag = "open", !.count = 0,
                                         !.observe = relations[call[c].token] # None]
  <2>1. call[c].token \in Tokens /\ transaction[c] \in Transactions
    BY <1>1, <1>3 DEF Notify, TypeInv, Served
  <2>2. mids' = Append(mids, c) /\ mids' \in Seq(Calls) /\ Len(mids') = Len(mids) + 1
    BY <1>1, <1>3 DEF Notify
  <2>3. t \in Transactions' /\ t.mid = Len(mids') /\ t.version \in Versions
    <3>1. Transactions' = [known : BOOLEAN, mid : 0..Len(mids'), version : Versions, observe : BOOLEAN,
                           flag : {"none", "open", "acknowledged", "timeouted"}, count : 0..MaxRetransmit]
      BY DEF Transactions, Versions
    <3>2. Len(mids) + 1 \in 0..Len(mids') /\ 0 \in 0..MaxRetransmit
      BY <1>1, <2>2, BoundsAssumption
    <3> QED
      BY <1>1, <2>1, <2>2, <3>1, <3>2 DEF Transactions
  <2>4. transaction' = [transaction EXCEPT ![c] = t] /\ network' = network \cup {Response(c, t)}
    BY <1>3 DEF Notify
  <2> HIDE DEF t
  <2>5. Response(c, t) = [kind |-> "notification", mid |-> Len(mids'), token |-> call[c].token, version |-> t.version]
    BY <1>1, <2>2, <2>3 DEF Response
  <2>6. Response(c, t) \in Responses'
    BY <1>1, <2>1, <2>2, <2>3, <2>5 DEF Responses, Notifications, Versions
  <2>7. /\ relations' \in [Tokens -> Calls \cup {None}] /\ \A k \in Tokens : relations'[k] \in {relations[k], c, None}
        /\ todo' \subseteq todo /\ version' = version /\ UNCHANGED client
    BY <1>1, <1>3 DEF Notify
  <2> QED
    BY <1>1, <2>1, <2>2, <2>3, <2>4, <2>6, <2>7, TransactionChanged
<1>4. ASSUME NEW c \in Calls, ServerRetransmit(c) PROVE ServerStep
  <2> DEFINE t == [transaction[c] EXCEPT !.count = @ + 1]
  <2>1. call[c].token \in Tokens /\ transaction[c] \in Transactions
    BY <1>1, <1>4 DEF ServerRetransmit, TypeInv, Served
  <2>2. mids' = mids /\ Responses' = Responses /\ Transactions' = Transactions
    BY <1>2, <1>4 DEF ServerRetransmit
  <2>3. t \in Transactions
    BY <1>4, <2>1, BoundsAssumption DEF ServerRetransmit, Transactions
  <2>4. transaction' = [transaction EXCEPT ![c] = t]
    BY <1>1, <1>4 DEF ServerRetransmit
  <2> HIDE DEF t
  <2>5. Response(c, transaction[c]) \in Responses
    BY <1>1, <2>1, ResponseTyped
  <2> QED
    BY <1>1, <1>4, <2>1, <2>2, <2>3, <2>4, <2>5, TransactionChanged DEF ServerRetransmit
<1>5. ASSUME NEW c \in Calls, ServerGiveUp(c) PROVE ServerStep
  <2> DEFINE t == [transaction[c] EXCEPT !.flag = "timeouted"]
  <2>1. call[c].token \in Tokens /\ transaction[c] \in Transactions
    BY <1>1, <1>5 DEF ServerGiveUp, TypeInv, Served
  <2>2. mids' = mids /\ Responses' = Responses /\ Transactions' = Transactions
    BY <1>2, <1>5 DEF ServerGiveUp
  <2>3. t \in Transactions
    BY <2>1 DEF Transactions
  <2>4. transaction' = [transaction EXCEPT ![c] = t]
    BY <1>1, <1>5 DEF ServerGiveUp
  <2> HIDE DEF t
  <2>5. relations' \in [Tokens -> Calls \cup {None}] /\ \A k \in Tokens : relations'[k] \in {relations[k], c, None}
    BY <1>1, <1>5 DEF ServerGiveUp
  <2> QED
    BY <1>1, <1>5, <2>1, <2>2, <2>3, <2>4, <2>5, TransactionChanged DEF ServerGiveUp
<1>6. CASE Put
  <2>1. mids' = mids /\ Transactions' = Transactions
    BY <1>2, <1>6 DEF Put
  <2>2. version' \in Versions
    BY <1>1, <1>6, BoundsAssumption DEF Put, Versions
  <2>3. \A c \in todo' : c \in Calls /\ \E k \in Tokens : relations[k] = c
    BY <1>1, <1>6, NamesAssumption DEF Put
  <2>4. \A c \in todo' : call[c].token \in Tokens
    BY <2>3, NamesAssumption DEF TypeInv, Served
  <2> QED
    BY <1>1, <1>6, <2>1, <2>2, <2>3, <2>4 DEF Put, ServerStep, TypeInv, Served
<1>7. ASSUME NEW m \in network, ServerRequest(m) PROVE ServerStep
  <2> DEFINE c == m.call
             t == [known |-> TRUE, mid |-> 0, version |-> version, flag |-> "acknowledged", count |-> 0,
                   observe |-> relations'[call[c].token] # None]
  <2>1. m \in Requests /\ c \in Calls
    BY <1>1, <1>7 DEF ServerRequest, Requests, Empties, Responses, Answers, Notifications
  <2>2. m = Request(c)
    BY <2>1 DEF Requests, Request
  <2>3. call[c].token \in Tokens
    BY <2>1, <2>2 DEF TypeInv, Served
  <2>4. mids' = mids /\ Responses' = Responses /\ Transactions' = Transactions
    BY <1>2, <1>7 DEF ServerRequest
  <2>5. t \in Transactions
    BY <1>1, BoundsAssumption DEF Transactions
  <2>6. Response(c, t) \in Responses
    BY <1>1, <2>1, <2>3, <2>5, ResponseTyped
  <2>7. transaction' = [transaction EXCEPT ![c] = t] /\ network' = (network \ {m}) \cup {Response(c, t)}
    BY <1>7 DEF ServerRequest
  <2>8. relations' \in [Tokens -> Calls \cup {None}] /\ \A k \in Tokens : relations'[k] \in {relations[k], c, None}
    BY <1>1, <1>7, <2>1 DEF ServerRequest, Registered
  <2>9. version' = version /\ todo' = todo /\ UNCHANGED client
    BY <1>7 DEF ServerRequest
  <2> HIDE DEF c, t
  <2>10. network' \subseteq network \cup Responses'
    BY <2>4, <2>6, <2>7
  <2> QED
    BY <1>1, <2>1, <2>3, <2>4, <2>5, <2>7, <2>8, <2>9, <2>10, TransactionChanged
<1>8. ASSUME NEW m \in network, ServerDuplicate(m) PROVE ServerStep
  <2>1. m.call \in Calls /\ transaction[m.call].known
    BY <1>1, <1>8 DEF ServerDuplicate, Requests, Empties, Responses, Answers, Notifications
  <2>2. call[m.call].token \in Tokens /\ transaction[m.call] \in Transactions
    BY <1>1, <2>1 DEF TypeInv, Served
  <2>3. Response(m.call, transaction[m.call]) \in Responses
    BY <1>1, <2>1, <2>2, ResponseTyped
  <2>4. mids' = mids /\ Responses' = Responses /\ Transactions' = Transactions
    BY <1>2, <1>8 DEF ServerDuplicate, server
  <2> QED
    BY <1>1, <1>8, <2>3, <2>4 DEF ServerDuplicate, server, ServerStep, TypeInv, Served
<1>9. ASSUME NEW m \in network, ServerEmpty(m) PROVE ServerStep
  <2> DEFINE c == mids[m.mid]
             t == [transaction[c] EXCEPT !.flag = ResponseFlagAfterEmpty("ACK", "acknowledged", @)]
  <2>1. m.mid \in 1..Len(mids)
    BY <1>1, <1>9 DEF ServerEmpty, Requests, Empties, Responses, Answers, Notifications
  <2>2. c \in Calls /\ transaction[c] \in Transactions
    BY <1>1, <2>1
  <2>3. mids' = mids /\ Transactions' = Transactions
    BY <1>2, <1>9 DEF ServerEmpty
  <2>4. t \in Transactions /\ t.flag # "open" /\ t.known = transaction[c].known
    BY <2>2 DEF Transactions, ResponseFlagAfterEmpty
  <2>5. transaction' = [transaction EXCEPT ![c] = t]
    BY <1>1, <1>9 DEF ServerEmpty
  <2> HIDE DEF c, t
  <2>6. \A d \in Calls : transaction'[d].known \/ transaction'[d].flag = "open" => call[d].token \in Tokens
    BY <1>1, <2>2, <2>4, <2>5 DEF TypeInv, Served
  <2>7. transaction' \in [Calls -> Transactions]
    BY <1>1, <2>2, <2>4, <2>5
  <2>8. version' = version /\ relations' = relations /\ todo' = todo /\ network' \subseteq network
    BY <1>9 DEF ServerEmpty
  <2> QED
    BY <1>1, <1>9, <2>3, <2>6, <2>7, <2>8 DEF ServerEmpty, ServerStep, TypeInv, Served
<1> QED
  BY <1>3, <1>4, <1>5, <1>6, <1>7, <1>8, <1>9 DEF ServerThreads

-----------------------------------------------------------------------------
(* The invariant and its theorems.                                         *)

LEMMA TypeStep == TypeInv /\ ContextInv /\ Next => TypeInv'
<1> SUFFICES ASSUME TypeInv, ContextInv, Next PROVE TypeInv'
  OBVIOUS
<1>1. CASE \E c \in Calls : (\E explicit \in BOOLEAN : CancelDelete(c, explicit)) \/ Spin(c) \/ ClientThreads(c)
  BY <1>1, CallsType, ClientStepType
<1>2. CASE ReceiverThread \/ \E m \in network : Receive(m)
  BY <1>2, ReceiverType, ClientStepType
<1>3. CASE \/ \E c \in Calls : ServerThreads(c)
           \/ Put \/ \E m \in network : ServerRequest(m) \/ ServerDuplicate(m) \/ ServerEmpty(m)
  BY <1>3, ServerType, ServerStepType
<1> QED
  BY <1>1, <1>2, <1>3 DEF Next

LEMMA ContextStep ==
  ASSUME TypeInv, TypeInv', ContextInv, Next
  PROVE  ContextInv'
<1>1. TypeOK /\ TypeOK' /\ call \in [Calls -> Contexts]
  BY DEF TypeInv, TypeOK
<1>2. ASSUME NEW c \in Calls, NEW explicit \in BOOLEAN, CancelDelete(c, explicit) PROVE ContextInv'
  BY <1>1, <1>2, CancelDeleteContext
<1>3. ASSUME NEW c \in Calls, Register(c) \/ SpinEnds(c) PROVE ContextInv'
  <2>1. Ready(c) /\ lock \in {None, c} /\ lock' = None /\ receiver' = receiver
    BY <1>3 DEF Register, SpinEnds, LockFree, ContextInv, LockHeld
  <2>2. PICK k \in Tokens : /\ requests[k] = None /\ requests' = [requests EXCEPT ![k] = c]
                            /\ call' = [call EXCEPT ![c].pc = "send", ![c].token = k]
    BY <1>3 DEF Register, SpinEnds, TokenFor, Free
  <2> QED
    BY <1>1, <2>1, <2>2, ContextTaken
<1>4. ASSUME NEW c \in Calls, Spin(c) PROVE ContextInv'
  <2>1. /\ Ready(c) /\ lock = None /\ lock' = c /\ UNCHANGED <<requests, call, receiver>>
    BY <1>4 DEF Spin, LockFree
  <2>2. receiver.pc # "callback"
    BY <2>1, NamesAssumption DEF ContextInv, LockHeld
  <2>3. HasContext' /\ ContextIsOfCall'
    BY <2>1 DEF ContextInv, HasContext, ContextIsOfCall, Cancelled, Blocking, Asynchronous
  <2>4. LockHeld' /\ CallbackOnlyRegistered'
    BY <2>1, <2>2 DEF LockHeld, Ready, CallbackOnlyRegistered, Blocking
  <2> QED
    BY <2>3, <2>4 DEF ContextInv
<1>5. ASSUME NEW c \in Calls, Send(c) \/ Return(c) PROVE ContextInv'
  BY <1>1, <1>5, SendContext, ReturnContext
<1>6. ASSUME NEW c \in Calls, ClientRetransmit(c) PROVE ContextInv'
  <2>1. \A d \in Calls : call'[d].pc = call[d].pc /\ call'[d].token = call[d].token
    BY <1>1, <1>6 DEF ClientRetransmit, Contexts
  <2>2. receiver'.pc = "callback" => receiver' = receiver
    BY <1>1, <1>6, AliveStays DEF ClientRetransmit, TypeOK
  <2> QED
    BY <1>1, <1>6, <2>1, <2>2, ContextsKept DEF ClientRetransmit
<1>7. ASSUME NEW c \in Calls, ClientGiveUp(c) PROVE ContextInv'
  <2> DEFINE calls == [call EXCEPT ![c] = [call[c] EXCEPT !.flag = "timeouted"]]
  <2>1. [call[c] EXCEPT !.flag = "timeouted"] \in Contexts
    BY <1>1 DEF Contexts
  <2>2. calls \in [Calls -> Contexts]
        /\ \A d \in Calls : calls[d].pc = call[d].pc /\ calls[d].token = call[d].token
    BY <1>1, <2>1 DEF Contexts
  <2>3. call' = Responded(calls, requests[call[c].token], None)
    BY <1>1, <1>7 DEF ClientGiveUp
  <2> HIDE DEF calls
  <2>4. \A d \in Calls : call'[d].pc = call[d].pc /\ call'[d].token = call[d].token
    BY <2>2, <2>3, RespondedKeeps
  <2> QED
    BY <1>1, <1>7, <2>4, ContextsKept DEF ClientGiveUp
<1>8. ASSUME NEW m \in network, Receive(m) PROVE ContextInv'
  <2>1. \A d \in Calls : call'[d].pc = call[d].pc /\ call'[d].token = call[d].token
    BY <1>1, <1>8 DEF Receive, Contexts
  <2>2. receiver'.pc # "callback"
    BY <1>8 DEF Receive
  <2> QED
    BY <1>1, <1>8, <2>1, <2>2, ContextsKept DEF Receive
<1>9. CASE Lookup
  <2>1. lock = None /\ UNCHANGED <<requests, call>>
    BY <1>9 DEF Lookup, LockFree
  <2>2. HasContext' /\ ContextIsOfCall'
    BY <2>1 DEF ContextInv, HasContext, ContextIsOfCall, Cancelled, Blocking, Asynchronous
  <2>3. CASE requests[receiver.message.token] = None
    <3>1. receiver'.pc = "idle" /\ lock' = lock
      BY <1>9, <2>3 DEF Lookup
    <3> QED
      BY <2>1, <2>2, <3>1, NamesAssumption DEF ContextInv, LockHeld, CallbackOnlyRegistered, Blocking
  <2>4. CASE requests[receiver.message.token] # None
    <3>1. /\ receiver' = [receiver EXCEPT !.pc = "callback", !.context = requests[receiver.message.token]]
          /\ lock' = Receiver
      BY <1>9, <2>4 DEF Lookup
    <3>2. receiver'.context = requests'[receiver'.message.token]
      BY <1>1, <2>1, <3>1 DEF TypeOK, Receivers
    <3> QED
      BY <2>2, <3>1, <3>2, NamesAssumption DEF ContextInv, LockHeld, CallbackOnlyRegistered
  <2> QED
    BY <2>3, <2>4
<1>10. CASE Callback
  <2>1. lock = Receiver /\ lock' = None /\ requests' = requests /\ receiver'.pc = "idle"
    BY <1>10 DEF Callback, ContextInv, LockHeld
  <2>2. receiver.message \in Responses \cup {None} /\ call' = Responded(call, receiver.context, receiver.message)
    BY <1>1, <1>10 DEF Callback, TypeOK, Receivers
  <2>3. \A d \in Calls : call'[d].pc = call[d].pc /\ call'[d].token = call[d].token
    BY <1>1, <2>2, RespondedKeeps
  <2>4. \A d \in Calls : Cancelled(d)' <=> Cancelled(d)
    BY <2>3, CallsKinds DEF Cancelled, Blocking
  <2>5. HasContext'
    BY <2>1, <2>3, <2>4 DEF ContextInv, HasContext, Asynchronous, Blocking
  <2>6. ContextIsOfCall'
    <3> SUFFICES ASSUME NEW j \in Tokens, requests[j] # None
                 PROVE  /\ call'[requests[j]].token = j
                        /\ call'[requests[j]].pc \in IF requests[j] \in Blocking THEN {"send", "waiting"}
                                                                               ELSE {"send", "open"}
      BY <2>1 DEF ContextIsOfCall, Blocking
    <3>1. requests[j] \in Calls
      BY <1>1 DEF TypeOK
    <3> QED
      BY <2>3, <3>1 DEF ContextInv, ContextIsOfCall
  <2>7. LockHeld' /\ CallbackOnlyRegistered'
    BY <2>1, NamesAssumption DEF LockHeld, CallbackOnlyRegistered
  <2> QED
    BY <2>5, <2>6, <2>7 DEF ContextInv
<1>11. ASSUME NEW c \in Calls, RetransmissionEnds(c) PROVE ContextInv'
  <2>1. \A d \in Calls : call'[d].pc = call[d].pc /\ call'[d].token = call[d].token
    BY <1>1, <1>11 DEF RetransmissionEnds, Contexts
  <2> QED
    BY <1>1, <1>11, <2>1, ContextsKept DEF RetransmissionEnds
<1>12. CASE Wake \/ Acknowledge
  <2>1. receiver \in Receivers
    BY <1>1 DEF TypeOK
  <2>2. CASE Wake
    <3>1. receiver'.pc \in {"wait", "dead"}
      BY <2>1, <2>2 DEF Wake, Receivers
    <3> QED
      BY <1>1, <2>2, <3>1, ContextsKept DEF Wake
  <2>3. CASE Acknowledge
    <3>1. receiver'.pc = "lookup"
      BY <2>1, <2>3 DEF Acknowledge, Receivers
    <3> QED
      BY <1>1, <2>3, <3>1, ContextsKept DEF Acknowledge
  <2> QED
    BY <1>12, <2>2, <2>3
<1>13. ASSUME UNCHANGED client PROVE ContextInv'
  BY <1>1, <1>13, ContextsKept DEF client
<1>14. CASE \E c \in Calls : ServerThreads(c)
  BY <1>13, <1>14 DEF ServerThreads, Notify, ServerRetransmit, ServerGiveUp
<1>15. CASE Put \/ \E m \in network : ServerRequest(m) \/ ServerDuplicate(m) \/ ServerEmpty(m)
  BY <1>13, <1>15 DEF Put, ServerRequest, ServerDuplicate, ServerEmpty
<1> QED
  BY <1>2, <1>3, <1>4, <1>5, <1>6, <1>7, <1>8, <1>9, <1>10, <1>11, <1>12, <1>14, <1>15
     DEF Next, ClientThreads, ReceiverThread

\* The types hold, and the contexts of HelperClient.requests are those of the calls that
\* need one: a token is registered for one call at a time and deleted by its own
\* cancellation or return (helperclient.py 93-113, 263-287).
THEOREM ContextInvariant == Spec => [](TypeInv /\ ContextInv)
<1>1. Init => TypeInv /\ ContextInv
  BY InitTypeInv, InitContextInv
<1>2. TypeInv /\ ContextInv /\ [Next]_vars => (TypeInv /\ ContextInv)'
  <2> SUFFICES ASSUME TypeInv, ContextInv, [Next]_vars PROVE (TypeInv /\ ContextInv)'
    OBVIOUS
  <2>1. CASE Next
    BY <2>1, TypeStep, ContextStep
  <2>2. CASE UNCHANGED vars
    <3>1. UNCHANGED <<client, server, network>>
      BY <2>2 DEF vars
    <3>2. ClientStep
      BY <3>1 DEF client, TypeInv, TypeOK, Served, ClientStep
    <3>3. TypeInv'
      BY <3>2, ClientStepType
    <3>4. ContextInv'
      BY <3>1, <3>3, ContextsKept DEF client, TypeInv
    <3> QED
      BY <3>3, <3>4
  <2> QED
    BY <2>1, <2>2
<1> QED
  BY <1>1, <1>2, PTL DEF Spec

\* Every token that is in use while a call looks for one is that of a call with a
\* callback or of one that waits (helperclient.py 263).
LEMMA SpinsImplied == TypeInv /\ ContextInv => SpinsOnlyForContexts
  BY DEF TypeInv, TypeOK, ContextInv, ContextIsOfCall, SpinsOnlyForContexts, Asynchronous

\* A callback is only called while its token is registered, whoever else returns.
THEOREM CallbackOnlyRegisteredHolds == Spec => []CallbackOnlyRegistered
<1>1. ContextInv => CallbackOnlyRegistered
  BY DEF ContextInv
<1> QED
  BY <1>1, ContextInvariant, PTL

\* Who looks for a token in vain does so for calls with a callback and for calls that wait.
THEOREM SpinsOnlyForContextsHolds == Spec => []SpinsOnlyForContexts
  BY SpinsImplied, ContextInvariant, PTL

-----------------------------------------------------------------------------
(* What is answered to a cancellation, where no observation takes over the *)
(* token of another.                                                       *)

\* No observation has the token that another has or had.
OwnTokens ==
  \A c, d \in Calls :
    c.op = "observe" /\ d.op = "observe" /\ call[c].token \in Tokens /\ call[d].token = call[c].token => c = d

\* The server has handled an observation with the token.
Observed(k) == \E c \in Calls : c.op = "observe" /\ call[c].token = k /\ transaction[c].known

\* A response is one to what the server has handled.
Heard(m) == /\ m.kind = "answer" => transaction[m.call].known
            /\ m.kind = "notification" => Observed(m.token)
ResponsesHeard ==
  /\ \A m \in network : Heard(m)
  /\ receiver.pc \notin {"idle", "dead"} => Heard(receiver.message)
  /\ \A c \in Calls : call[c].result # None => Heard(call[c].result)

\* What the server keeps and notifies is of an observation that it has handled; what
\* it sends again is a notification.
NotifiedIsObserved ==
  /\ \A k \in Tokens : relations[k] # None => call[relations[k]].token = k /\ Observed(k)
  /\ \A c \in todo : Observed(call[c].token)
  /\ \A c \in Calls : transaction[c].mid # 0 => Observed(call[c].token)
  /\ \A c \in Calls : transaction[c].flag = "open" => transaction[c].mid # 0

\* A call gets its token once, and what is found by a token has it.
TokensAreKept ==
  /\ \A c \in Calls : call[c].pc \in {"new", "deleted"} => call[c].token = None
  /\ \A k \in Tokens : byToken[k] # None => call[byToken[k]].token = k

HeardInv == ResponsesHeard /\ NotifiedIsObserved /\ TokensAreKept

\* Who cancels has had an answer, and what has been cancelled is not observed.
CancelledIsKnown ==
  /\ \A c \in Calls : c.op = "observe" /\ call[c].flag = "acknowledged" => transaction[c].known
  /\ \A c \in Blocking : call[c].pc # "new" => transaction[c.of].known
CancelledIsGone ==
  \A c \in Blocking :
    transaction[c].known /\ call[c].token = call[c.of].token => relations[call[c].token] = None

CancelInv == HeardInv /\ (OwnTokens => CancelledIsKnown /\ CancelledIsGone)

\* What no step changes back.
Kept ==
  /\ \A c \in Calls : call[c].token \in Tokens => call'[c].token = call[c].token
  /\ \A c \in Calls : transaction[c].known => transaction'[c].known

LEMMA ObservedStays ==
  ASSUME TypeInv, Kept
  PROVE  /\ \A k : Observed(k) => Observed(k)'
         /\ OwnTokens' => OwnTokens
<1>1. \A c \in Calls : transaction[c].known => call[c].token \in Tokens
  BY DEF TypeInv, Served
<1> QED
  BY <1>1 DEF Observed, OwnTokens, Kept

LEMMA HeardStays ==
  ASSUME TypeInv, Kept
  PROVE  \A m \in Requests \cup Empties \cup Responses : Heard(m) => Heard(m)'
<1> SUFFICES ASSUME NEW m \in Requests \cup Empties \cup Responses, Heard(m) PROVE Heard(m)'
  OBVIOUS
<1>1. m.kind = "answer" => m.call \in Calls
  BY DEF Requests, Empties, Responses, Answers, Notifications
<1>2. m.kind = "answer" => transaction'[m.call].known
  BY <1>1 DEF Heard, Kept
<1>3. m.kind = "notification" => Observed(m.token)'
  BY ObservedStays DEF Heard
<1> QED
  BY <1>2, <1>3 DEF Heard

\* What a step of the client, or of its receiver, does to the calls.
Acknowledging(c) ==
  \E m \in network : m.kind \in {"answer", "notification"} /\ TransactionOf(m) = c
ClientKeeps ==
  /\ UNCHANGED server
  /\ \A c \in Calls : call[c].token \in Tokens => call'[c].token = call[c].token
  /\ \A m \in network' : m \in network \/ m.kind \in {"request", "empty"}
  /\ receiver'.pc \notin {"idle", "dead"} =>
       \/ receiver'.message \in network
       \/ receiver.pc \notin {"idle", "dead"} /\ receiver'.message = receiver.message
  /\ \A c \in Calls :
       \/ call'[c].result \in {None, call[c].result}
       \/ receiver.pc \notin {"idle", "dead"} /\ call'[c].result = receiver.message
  /\ \A c \in Calls : call'[c].flag = "acknowledged" => call[c].flag = "acknowledged" \/ Acknowledging(c)
  /\ \A c \in Blocking : call'[c].pc # "new" => call[c].pc # "new" \/ call[c.of].flag = "acknowledged"
  /\ TokensAreKept'

LEMMA ClientCancelStep ==
  ASSUME TypeInv, TypeInv', CancelInv, ClientKeeps
  PROVE  CancelInv'
<1>1. TypeOK /\ (call \in [Calls -> Contexts])'
  <2>1. TypeOK /\ TypeOK'
    BY DEF TypeInv
  <2> QED
    BY <2>1 DEF TypeOK
<1>2. Kept /\ UNCHANGED <<relations, transaction, todo, mids>>
  BY DEF ClientKeeps, Kept, server
<1>3. \A m \in Requests \cup Empties \cup Responses : Heard(m) => Heard(m)'
  BY <1>2, HeardStays
<1>4. ResponsesHeard'
  <2>1. ASSUME NEW m \in network' PROVE Heard(m)'
    <3>1. CASE m \in network
      BY <1>1, <1>3, <3>1 DEF TypeOK, CancelInv, HeardInv, ResponsesHeard
    <3>2. CASE m.kind \in {"request", "empty"}
      BY <3>2 DEF Heard
    <3> QED
      BY <2>1, <3>1, <3>2 DEF ClientKeeps
  <2>2. ASSUME receiver'.pc \notin {"idle", "dead"} PROVE Heard(receiver.message)'
    <3>1. PICK m : m = receiver'.message
      OBVIOUS
    <3>2. m \in network \/ (receiver.pc \notin {"idle", "dead"} /\ m = receiver.message)
      BY <2>2, <3>1 DEF ClientKeeps
    <3>3. Heard(m) /\ m \in Requests \cup Empties \cup Responses
      BY <1>1, <3>2 DEF TypeOK, CancelInv, HeardInv, ResponsesHeard
    <3>4. Heard(m)'
      BY <1>3, <3>3
    <3> QED
      BY <3>1, <3>4 DEF Heard, Observed
  <2>3. ASSUME NEW c \in Calls, call'[c].result # None PROVE Heard(call[c].result)'
    <3>1. PICK m : m = call'[c].result
      OBVIOUS
    <3>2. m = call[c].result \/ (receiver.pc \notin {"idle", "dead"} /\ m = receiver.message)
      BY <2>3, <3>1 DEF ClientKeeps
    <3>3. m \in Responses
      <4>1. Responses' = Responses
        BY <1>2 DEF Responses, Answers, Notifications, Versions
      <4> QED
        BY <1>1, <2>3, <3>1, <4>1 DEF Contexts
    <3>4. Heard(m)
      BY <2>3, <3>1, <3>2 DEF CancelInv, HeardInv, ResponsesHeard
    <3>5. Heard(m)'
      BY <1>3, <3>3, <3>4
    <3> QED
      BY <3>1, <3>5 DEF Heard, Observed
  <2> QED
    BY <2>1, <2>2, <2>3 DEF ResponsesHeard
<1>5. \A k : Observed(k) => Observed(k)'
  BY <1>2, ObservedStays
<1>6. NotifiedIsObserved'
  <2>1. ASSUME NEW k \in Tokens, relations'[k] # None PROVE call'[relations'[k]].token = k /\ Observed(k)'
    <3>1. relations[k] \in Calls /\ call[relations[k]].token = k /\ Observed(k)
      BY <1>1, <1>2, <2>1 DEF TypeOK, CancelInv, HeardInv, NotifiedIsObserved
    <3> QED
      BY <1>2, <1>5, <3>1 DEF ClientKeeps
  <2>2. ASSUME NEW c \in Calls, Observed(call[c].token) PROVE Observed(call[c].token)'
    <3>1. PICK o \in Calls : o.op = "observe" /\ call[o].token = call[c].token /\ transaction[o].known
      BY <2>2 DEF Observed
    <3>2. call[c].token \in Tokens
      BY <3>1 DEF TypeInv, Served
    <3>3. call'[o].token = call'[c].token
      BY <3>1, <3>2 DEF ClientKeeps
    <3> QED
      BY <1>2, <3>1, <3>3 DEF Observed
  <2>3. todo \subseteq Calls
    BY <1>1 DEF TypeOK
  <2> QED
    BY <1>2, <2>1, <2>2, <2>3 DEF CancelInv, HeardInv, NotifiedIsObserved
<1>7. ASSUME OwnTokens' PROVE CancelledIsKnown' /\ CancelledIsGone'
  <2>1. OwnTokens /\ CancelledIsKnown /\ CancelledIsGone
    BY <1>2, <1>7, ObservedStays DEF CancelInv
  <2>2. ASSUME NEW c \in Calls, c.op = "observe", Acknowledging(c) PROVE transaction[c].known
    <3>1. PICK m \in network : m.kind \in {"answer", "notification"} /\ TransactionOf(m) = c
      BY <2>2 DEF Acknowledging
    <3>2. Heard(m) /\ m \in Requests \cup Empties \cup Responses
      BY <1>1 DEF TypeOK, CancelInv, HeardInv, ResponsesHeard
    <3>3. CASE m.kind = "answer"
      BY <3>1, <3>2, <3>3 DEF Heard, TransactionOf
    <3>4. CASE m.kind = "notification"
      <4>1. byToken[m.token] = c /\ m.token \in Tokens
        BY <3>1, <3>2, <3>4 DEF TransactionOf, Requests, Empties, Responses, Answers, Notifications
      <4>2. call[c].token = m.token
        BY <4>1, NamesAssumption DEF CancelInv, HeardInv, TokensAreKept
      <4>3. PICK o \in Calls : o.op = "observe" /\ call[o].token = m.token /\ transaction[o].known
        BY <3>2, <3>4 DEF Heard, Observed
      <4> QED
        BY <2>1, <2>2, <4>1, <4>2, <4>3 DEF OwnTokens
    <3> QED
      BY <3>1, <3>3, <3>4
  <2>3. \A c \in Calls : c.op = "observe" /\ call'[c].flag = "acknowledged" => transaction[c].known
    BY <2>1, <2>2 DEF ClientKeeps, CancelledIsKnown
  <2>4. \A c \in Blocking : call'[c].pc # "new" => transaction[c.of].known
    BY <2>1, CallsAssumption DEF ClientKeeps, CancelledIsKnown, Blocking
  <2>5. CancelledIsKnown'
    BY <1>2, <2>3, <2>4 DEF CancelledIsKnown, Blocking
  <2>6. ASSUME NEW c \in Blocking, transaction[c].known, call'[c].token = call'[c.of].token
        PROVE  relations[call'[c].token] = None
    <3>1. c \in Calls /\ c.of \in Calls /\ call[c].token \in Tokens
      BY <2>6, CallsKinds, CallsAssumption DEF TypeInv, Served, Blocking
    <3>2. call[c].pc # "new"
      BY <3>1, NamesAssumption DEF CancelInv, HeardInv, TokensAreKept
    <3>3. call[c.of].token \in Tokens
      BY <2>1, <3>1, <3>2 DEF CancelledIsKnown, TypeInv, Served
    <3>4. call'[c].token = call[c].token /\ call'[c.of].token = call[c.of].token
      BY <3>1, <3>3 DEF ClientKeeps
    <3> QED
      BY <2>1, <2>6, <3>4 DEF CancelledIsGone
  <2>7. CancelledIsGone'
    BY <1>2, <2>6 DEF CancelledIsGone, Blocking
  <2> QED
    BY <2>5, <2>7
<1> QED
  BY <1>4, <1>6, <1>7 DEF ClientKeeps, CancelInv, HeardInv

\* What is found by a token has it, if the tokens stay and a call is sent under its own.
LEMMA TokensKept ==
  ASSUME TypeInv, TokensAreKept, UNCHANGED byToken,
         \A c \in Calls : call[c].token \in Tokens => call'[c].token = call[c].token,
         \A c \in Calls : call'[c].pc \in {"new", "deleted"} =>
           call[c].pc \in {"new", "deleted"} /\ call'[c].token = call[c].token
  PROVE  TokensAreKept'
BY NamesAssumption DEF TypeInv, TypeOK, TokensAreKept

LEMMA CallsKeep ==
  ASSUME Patient, TypeInv, ContextInv, TokensAreKept, NEW c \in Calls,
         \/ \E explicit \in BOOLEAN : CancelDelete(c, explicit)
         \/ Spin(c) \/ ClientThreads(c)
  PROVE  ClientKeeps
<1>1. /\ byToken \in [Tokens -> Calls \cup {None}] /\ call \in [Calls -> Contexts]
      /\ \A d \in Calls : call[d].token \in Tokens \cup {None}
      /\ receiver \in Receivers
  BY DEF TypeInv, TypeOK, Contexts
<1> DEFINE Same(d) == /\ call'[d].token = call[d].token /\ call'[d].result = call[d].result
                      /\ call'[d].flag = call[d].flag
<1>2. CASE \E explicit \in BOOLEAN : CancelDelete(c, explicit)
  <2> PICK explicit \in BOOLEAN : CancelDelete(c, explicit)
    BY <1>2
  <2>1. call' = [call EXCEPT ![c].pc = IF explicit THEN "deleted" ELSE "done"]
    BY DEF CancelDelete
  <2>2. /\ \A d \in Calls : Same(d)
        /\ \A d \in Calls \ {c} : call'[d].pc = call[d].pc
    BY <1>1, <2>1 DEF Contexts
  <2>3. call[c].pc = "new" /\ call[c.of].flag = "acknowledged"
    BY DEF CancelDelete
  <2>4. TokensAreKept'
    BY <2>2, <2>3, TokensKept DEF CancelDelete
  <2> QED
    BY <2>2, <2>3, <2>4 DEF CancelDelete, ClientKeeps, Blocking
<1>3. CASE Register(c) \/ SpinEnds(c)
  <2>1. PICK k \in Tokens : call' = [call EXCEPT ![c].pc = "send", ![c].token = k]
    BY <1>3 DEF Register, SpinEnds, TokenFor, Free
  <2>2. call[c].pc \in {"new", "deleted"} /\ (c \in Blocking => call[c].pc # "new")
    BY <1>3 DEF Register, SpinEnds, Ready, ContextInv, LockHeld
  <2>3. call[c].token = None
    BY <2>2 DEF TokensAreKept
  <2>4. /\ \A d \in Calls \ {c} : call'[d] = call[d]
        /\ call'[c].result = call[c].result /\ call'[c].flag = call[c].flag /\ call'[c].pc = "send"
    BY <1>1, <2>1 DEF Contexts
  <2>5. UNCHANGED <<byToken, receiver, server, network>>
    BY <1>3 DEF Register, SpinEnds
  <2>6. \A d \in Calls : call[d].token \in Tokens => call'[d].token = call[d].token
    BY <2>3, <2>4, NamesAssumption
  <2>7. TokensAreKept'
    BY <2>4, <2>5, <2>6, TokensKept
  <2> QED
    BY <2>2, <2>4, <2>5, <2>6, <2>7 DEF ClientKeeps, Blocking
<1>4. CASE Spin(c)
  <2>1. UNCHANGED <<call, byToken, receiver, server, network>>
    BY <1>4 DEF Spin
  <2> QED
    BY <2>1 DEF ClientKeeps, TokensAreKept
<1>5. CASE Send(c)
  <2>1. call[c].pc = "send"
        /\ call' = [call EXCEPT ![c].pc = IF c \in Blocking THEN "waiting" ELSE "open", ![c].thread = TRUE]
    BY <1>5 DEF Send
  <2>2. /\ \A d \in Calls : Same(d)
        /\ \A d \in Calls \ {c} : call'[d].pc = call[d].pc
        /\ call'[c].pc \in {"waiting", "open"}
    BY <1>1, <2>1 DEF Contexts
  <2>3. byToken' = [byToken EXCEPT ![call[c].token] = c]
    BY <1>5 DEF Send
  <2>4. TokensAreKept'
    <3>1. \A d \in Calls : call'[d].pc \in {"new", "deleted"} => call'[d].token = None
      BY <2>2 DEF TokensAreKept
    <3>2. ASSUME NEW k \in Tokens, byToken'[k] # None PROVE call'[byToken'[k]].token = k
      <4>1. CASE k = call[c].token
        BY <1>1, <2>2, <2>3, <3>2, <4>1
      <4>2. CASE k # call[c].token
        <5>1. byToken'[k] = byToken[k] /\ byToken[k] \in Calls
          BY <1>1, <2>3, <3>2, <4>2
        <5> QED
          BY <2>2, <3>2, <5>1 DEF TokensAreKept
      <4> QED
        BY <4>1, <4>2
    <3> QED
      BY <3>1, <3>2 DEF TokensAreKept
  <2>5. receiver'.pc \notin {"idle", "dead"} => receiver' = receiver
    BY <1>1, <1>5, AliveStays DEF Send
  <2>6. UNCHANGED server /\ \A m \in network' : m \in network \/ m.kind = "request"
    BY <1>5 DEF Send, Request
  <2> QED
    BY <2>1, <2>2, <2>4, <2>5, <2>6 DEF ClientKeeps, Blocking
<1>6. CASE Return(c)
  <2>1. call[c].pc = "waiting" /\ call' = [call EXCEPT ![c].pc = "done"]
    BY <1>6 DEF Return
  <2>2. /\ \A d \in Calls : Same(d)
        /\ \A d \in Calls \ {c} : call'[d].pc = call[d].pc
        /\ call'[c].pc = "done"
    BY <1>1, <2>1 DEF Contexts
  <2>3. TokensAreKept'
    BY <1>6, <2>1, <2>2, TokensKept DEF Return
  <2> QED
    BY <1>6, <2>1, <2>2, <2>3 DEF Return, ClientKeeps, Blocking
<1>7. CASE ClientRetransmit(c)
  <2>1. \A d \in Calls : Same(d) /\ call'[d].pc = call[d].pc
    BY <1>1, <1>7 DEF ClientRetransmit, Contexts
  <2>2. TokensAreKept'
    BY <1>7, <2>1, TokensKept DEF ClientRetransmit
  <2>3. receiver'.pc \notin {"idle", "dead"} => receiver' = receiver
    BY <1>1, <1>7, AliveStays DEF ClientRetransmit
  <2>4. UNCHANGED server /\ \A m \in network' : m \in network \/ m.kind = "request"
    BY <1>7 DEF ClientRetransmit, Request
  <2> QED
    BY <2>1, <2>2, <2>3, <2>4 DEF ClientKeeps, Blocking
<1>8. CASE ClientGiveUp(c)
  <2> DEFINE calls == [call EXCEPT ![c].flag = "timeouted"]
  <2>1. [call[c] EXCEPT !.flag = "timeouted"] \in Contexts
    BY <1>1 DEF Contexts
  <2>2. calls = [call EXCEPT ![c] = [call[c] EXCEPT !.flag = "timeouted"]]
    BY <1>1
  <2>3. calls \in [Calls -> Contexts]
        /\ \A d \in Calls : /\ calls[d].token = call[d].token /\ calls[d].pc = call[d].pc
                            /\ calls[d].result = call[d].result /\ calls[d].flag \in {call[d].flag, "timeouted"}
    BY <1>1, <2>1, <2>2 DEF Contexts
  <2>4. call' = Responded(calls, requests[call[c].token], None)
    BY <1>8 DEF ClientGiveUp
  <2> HIDE DEF calls
  <2>5. \A d \in Calls : /\ call'[d].pc = call[d].pc /\ call'[d].token = call[d].token
                         /\ call'[d].flag \in {call[d].flag, "timeouted"}
                         /\ call'[d].result \in {call[d].result, None}
    BY <2>3, <2>4, RespondedKeeps
  <2>6. UNCHANGED <<byToken, receiver, server, network>>
    BY <1>8 DEF ClientGiveUp
  <2>7. TokensAreKept'
    BY <2>5, <2>6, TokensKept
  <2> QED
    BY <2>5, <2>6, <2>7 DEF ClientKeeps, Blocking
<1>9. CASE RetransmissionEnds(c)
  <2>1. \A d \in Calls : Same(d) /\ call'[d].pc = call[d].pc
    BY <1>1, <1>9 DEF RetransmissionEnds, Contexts
  <2>2. TokensAreKept'
    BY <1>9, <2>1, TokensKept DEF RetransmissionEnds
  <2> QED
    BY <1>9, <2>1, <2>2 DEF RetransmissionEnds, ClientKeeps, Blocking
<1> QED
  BY <1>2, <1>3, <1>4, <1>5, <1>6, <1>7, <1>8, <1>9 DEF ClientThreads

LEMMA ReceiverKeeps ==
  ASSUME TypeInv, TokensAreKept, ReceiverThread \/ \E m \in network : Receive(m)
  PROVE  ClientKeeps
<1>1. call \in [Calls -> Contexts] /\ byToken \in [Tokens -> Calls \cup {None}] /\ receiver \in Receivers
  BY DEF TypeInv, TypeOK
<1>2. CASE Lookup
  <2>1. UNCHANGED <<call, byToken, server, network>> /\ receiver.pc = "lookup"
    BY <1>2 DEF Lookup
  <2>2. receiver'.pc \notin {"idle", "dead"} => receiver'.message = receiver.message
    <3>2. CASE requests[receiver.message.token] = None
      BY <1>2, <3>2 DEF Lookup
    <3>3. CASE requests[receiver.message.token] # None
      <4>1. receiver' = [receiver EXCEPT !.pc = "callback", !.context = requests[receiver.message.token]]
        BY <1>2, <3>3 DEF Lookup
      <4> QED
        BY <1>1, <4>1 DEF Receivers
    <3> QED
      BY <3>2, <3>3
  <2> QED
    BY <2>1, <2>2 DEF ClientKeeps, TokensAreKept
<1>3. CASE Callback
  <2>1. receiver.message \in Responses \cup {None} /\ call' = Responded(call, receiver.context, receiver.message)
    BY <1>3 DEF Callback, TypeInv, TypeOK, Receivers
  <2>2. \A d \in Calls : /\ call'[d].pc = call[d].pc /\ call'[d].token = call[d].token
                         /\ call'[d].flag = call[d].flag
                         /\ call'[d].result \in {call[d].result, receiver.message}
    BY <1>1, <2>1, RespondedKeeps
  <2>3. UNCHANGED <<byToken, server, network>> /\ receiver.pc = "callback" /\ receiver'.pc = "idle"
    BY <1>3 DEF Callback
  <2>4. TokensAreKept'
    BY <2>2, <2>3, TokensKept
  <2> QED
    BY <2>2, <2>3, <2>4 DEF ClientKeeps, Blocking
<1>4. CASE \E m \in network : Receive(m)
  <2> PICK m \in network : Receive(m)
    BY <1>4
  <2>1. m.kind \in {"answer", "notification"} /\ call' = [call EXCEPT ![TransactionOf(m)].flag = "acknowledged"]
    BY DEF Receive
  <2>2. \A d \in Calls : /\ call'[d].pc = call[d].pc /\ call'[d].token = call[d].token
                         /\ call'[d].result = call[d].result
                         /\ d # TransactionOf(m) => call'[d].flag = call[d].flag
    BY <1>1, <2>1 DEF Contexts
  <2>3. \A d \in Calls : call'[d].flag = "acknowledged" => call[d].flag = "acknowledged" \/ Acknowledging(d)
    BY <2>1, <2>2 DEF Acknowledging
  <2>4. UNCHANGED <<byToken, server>> /\ receiver'.message = m
    BY DEF Receive
  <2>5. \A n \in network' : n \in network \/ n.kind = "empty"
    BY DEF Receive, Acknowledgements, Empty
  <2>6. TokensAreKept'
    BY <2>2, <2>4, TokensKept
  <2> QED
    BY <2>2, <2>3, <2>4, <2>5, <2>6 DEF ClientKeeps, Blocking
<1>5. CASE Wake
  <2>1. receiver.pc = "wake" /\ (receiver'.pc # "dead" => receiver'.message = receiver.message)
    BY <1>1, <1>5 DEF Wake, Receivers
  <2> QED
    BY <1>5, <2>1 DEF Wake, ClientKeeps, TokensAreKept
<1>6. CASE Acknowledge
  <2>1. receiver.pc = "wait" /\ receiver'.message = receiver.message
    BY <1>1, <1>6 DEF Acknowledge, Receivers
  <2>2. \A n \in network' : n \in network \/ n.kind = "empty"
    BY <1>6 DEF Acknowledge, Acknowledgements, Empty
  <2> QED
    BY <1>6, <2>1, <2>2 DEF Acknowledge, ClientKeeps, TokensAreKept
<1> QED
  BY <1>2, <1>3, <1>4, <1>5, <1>6 DEF ReceiverThread

-----------------------------------------------------------------------------
(* The server's steps.                                                     *)

LEMMA ServerHeard ==
  ASSUME TypeInv, CancelInv, UNCHANGED client,
         \A c \in Calls : transaction[c].known => transaction'[c].known,
         \A m \in network' : m \in network \/ Heard(m)'
  PROVE  /\ Kept /\ ResponsesHeard' /\ TokensAreKept'
         /\ OwnTokens' => OwnTokens /\ CancelledIsKnown'
<1>1. TypeOK /\ UNCHANGED <<call, receiver, byToken>>
  BY DEF TypeInv, client
<1>2. Kept
  BY <1>1 DEF Kept
<1>3. \A m \in Requests \cup Empties \cup Responses : Heard(m) => Heard(m)'
  BY <1>2, HeardStays
<1>4. ResponsesHeard'
  <2>1. ASSUME NEW m \in network' PROVE Heard(m)'
    <3>1. CASE m \in network
      BY <1>1, <1>3, <3>1 DEF TypeOK, CancelInv, HeardInv, ResponsesHeard
    <3> QED
      BY <2>1, <3>1
  <2>2. ASSUME receiver'.pc \notin {"idle", "dead"} PROVE Heard(receiver.message)'
    <3>1. PICK m : m = receiver.message
      OBVIOUS
    <3>2. Heard(m) /\ m \in Responses
      BY <1>1, <2>2, <3>1 DEF TypeOK, CancelInv, HeardInv, ResponsesHeard
    <3>3. Heard(m)'
      BY <1>3, <3>2
    <3> QED
      BY <1>1, <3>1, <3>3 DEF Heard, Observed
  <2>3. ASSUME NEW c \in Calls, call'[c].result # None PROVE Heard(call[c].result)'
    <3>1. PICK m : m = call[c].result
      OBVIOUS
    <3>2. Heard(m) /\ m \in Responses
      BY <1>1, <2>3, <3>1 DEF TypeOK, Contexts, CancelInv, HeardInv, ResponsesHeard
    <3>3. Heard(m)'
      BY <1>3, <3>2
    <3> QED
      BY <1>1, <3>1, <3>3 DEF Heard, Observed
  <2> QED
    BY <2>1, <2>2, <2>3 DEF ResponsesHeard
<1>5. TokensAreKept'
  BY <1>1 DEF CancelInv, HeardInv, TokensAreKept
<1>6. ASSUME OwnTokens' PROVE OwnTokens /\ CancelledIsKnown'
  <2>1. OwnTokens /\ CancelledIsKnown
    BY <1>2, <1>6, ObservedStays DEF CancelInv
  <2> QED
    BY <1>1, <1>2, <2>1, CallsKinds DEF CancelledIsKnown, Kept, Asynchronous, Blocking
<1> QED
  BY <1>2, <1>4, <1>5, <1>6

\* A step of the server that handles no request and makes no notification.
LEMMA ServerOnlyForgets ==
  ASSUME TypeInv, CancelInv, UNCHANGED client,
         \A k \in Tokens : relations'[k] \in {relations[k], None},
         \A c \in Calls : /\ transaction'[c].known = transaction[c].known
                          /\ transaction'[c].mid = transaction[c].mid
                          /\ transaction'[c].flag = "open" => transaction[c].flag = "open",
         \A c \in todo' : c \in todo \/ (c # None /\ \E k \in Tokens : relations[k] = c),
         \A m \in network' : m \in network \/ (m \in Responses /\ Heard(m))
  PROVE  CancelInv'
<1>1. Kept /\ UNCHANGED call
  BY DEF Kept, client
<1>2. \A k : Observed(k) => Observed(k)'
  BY <1>1, ObservedStays
<1>3. /\ ResponsesHeard' /\ TokensAreKept'
      /\ OwnTokens' => OwnTokens /\ CancelledIsKnown'
  <2>1. \A m \in network' : m \in network \/ Heard(m)'
    BY <1>1, HeardStays
  <2> QED
    BY <2>1, ServerHeard
<1>4. NotifiedIsObserved'
  <2>1. ASSUME NEW k \in Tokens, relations'[k] # None PROVE call[relations'[k]].token = k /\ Observed(k)'
    BY <1>2, <2>1 DEF CancelInv, HeardInv, NotifiedIsObserved
  <2>2. ASSUME NEW c \in Calls, Observed(call[c].token) PROVE Observed(call[c].token)'
    BY <1>1, <1>2, <2>2 DEF Observed
  <2>3. ASSUME NEW c \in todo' PROVE Observed(call[c].token)'
    <3>1. c \in Calls
      BY <2>3 DEF TypeInv, TypeOK
    <3>2. Observed(call[c].token)
      BY <2>3 DEF CancelInv, HeardInv, NotifiedIsObserved
    <3> QED
      BY <2>2, <3>1, <3>2
  <2> QED
    BY <1>1, <2>1, <2>2, <2>3 DEF CancelInv, HeardInv, NotifiedIsObserved
<1>5. ASSUME OwnTokens' PROVE CancelledIsGone'
  <2>1. OwnTokens /\ CancelledIsGone
    BY <1>3, <1>5 DEF CancelInv
  <2>2. ASSUME NEW c \in Blocking, transaction[c].known, call[c].token = call[c.of].token
        PROVE  relations'[call[c].token] = None
    <3>1. call[c].token \in Tokens
      BY <2>2, CallsKinds DEF TypeInv, Served
    <3> QED
      BY <2>1, <2>2, <3>1 DEF CancelledIsGone
  <2> QED
    BY <1>1, <2>2, CallsKinds DEF CancelledIsGone, Blocking
<1> QED
  BY <1>3, <1>4, <1>5 DEF CancelInv, HeardInv

LEMMA ServerForgets ==
  ASSUME TypeInv, CancelInv,
         \/ \E c \in Calls : ServerRetransmit(c) \/ ServerGiveUp(c)
         \/ Put \/ \E m \in network : ServerDuplicate(m) \/ ServerEmpty(m)
  PROVE  CancelInv'
<1>1. /\ transaction \in [Calls -> Transactions] /\ relations \in [Tokens -> Calls \cup {None}]
      /\ mids \in Seq(Calls)
  BY DEF TypeInv, TypeOK
\* What is sent again is a response that has been heard before.
<1>2. ASSUME NEW c \in Calls, transaction[c].known \/ transaction[c].flag = "open"
      PROVE  Response(c, transaction[c]) \in Responses /\ Heard(Response(c, transaction[c]))
  <2>1. call[c].token \in Tokens /\ transaction[c] \in Transactions
    BY <1>1, <1>2 DEF TypeInv, Served
  <2>2. Response(c, transaction[c]) \in Responses
    BY <1>1, <2>1, ResponseTyped
  <2>3. CASE transaction[c].mid = 0
    BY <1>2, <2>2, <2>3 DEF Response, Heard, CancelInv, HeardInv, NotifiedIsObserved
  <2>4. CASE transaction[c].mid # 0
    <3>1. Observed(call[c].token)
      BY <2>4 DEF CancelInv, HeardInv, NotifiedIsObserved
    <3> QED
      BY <2>2, <2>4, <3>1 DEF Response, Heard
  <2> QED
    BY <2>2, <2>3, <2>4
<1>3. ASSUME NEW c \in Calls, ServerRetransmit(c) PROVE CancelInv'
  <2>1. /\ UNCHANGED <<client, relations, todo>> /\ transaction[c].flag = "open"
        /\ network' = network \cup {Response(c, transaction[c])}
    BY <1>3 DEF ServerRetransmit
  <2>2. \A d \in Calls : /\ transaction'[d].known = transaction[d].known
                         /\ transaction'[d].mid = transaction[d].mid
                         /\ transaction'[d].flag = transaction[d].flag
    BY <1>1, <1>3 DEF ServerRetransmit, Transactions
  <2> QED
    BY <1>2, <2>1, <2>2, ServerOnlyForgets
<1>4. ASSUME NEW c \in Calls, ServerGiveUp(c) PROVE CancelInv'
  <2>1. UNCHANGED <<client, todo, network>>
    BY <1>4 DEF ServerGiveUp
  <2>2. \A d \in Calls : /\ transaction'[d].known = transaction[d].known
                         /\ transaction'[d].mid = transaction[d].mid
                         /\ transaction'[d].flag = "open" => transaction[d].flag = "open"
    BY <1>1, <1>4 DEF ServerGiveUp, Transactions
  <2>3. \A k \in Tokens : relations'[k] \in {relations[k], None}
    BY <1>1, <1>4 DEF ServerGiveUp
  <2> QED
    BY <2>1, <2>2, <2>3, ServerOnlyForgets
<1>5. CASE Put
  <2>1. UNCHANGED <<client, relations, transaction, network>>
    BY <1>5 DEF Put
  <2>2. \A c \in todo' : c # None /\ \E k \in Tokens : relations[k] = c
    BY <1>5 DEF Put
  <2> QED
    BY <2>1, <2>2, ServerOnlyForgets
<1>6. ASSUME NEW m \in network, ServerDuplicate(m) PROVE CancelInv'
  <2>1. /\ UNCHANGED <<client, relations, transaction, todo>> /\ transaction[m.call].known
        /\ network' = (network \ {m}) \cup {Response(m.call, transaction[m.call])}
    BY <1>6 DEF ServerDuplicate, server
  <2>2. m.call \in Calls
    BY <1>6 DEF ServerDuplicate, TypeInv, TypeOK, Requests, Empties, Responses, Answers, Notifications
  <2>3. \A n \in network' : n \in network \/ (n \in Responses /\ Heard(n))
    BY <1>2, <2>1, <2>2
  <2> QED
    BY <2>1, <2>3, ServerOnlyForgets
<1>7. ASSUME NEW m \in network, ServerEmpty(m) PROVE CancelInv'
  <2> DEFINE c == mids[m.mid]
             t == [transaction[c] EXCEPT !.flag = ResponseFlagAfterEmpty("ACK", "acknowledged", @)]
  <2>1. m.mid \in 1..Len(mids)
    BY <1>7 DEF ServerEmpty, TypeInv, TypeOK, Requests, Empties, Responses, Answers, Notifications
  <2>2. c \in Calls /\ transaction[c] \in Transactions
    BY <1>1, <2>1
  <2>3. t.known = transaction[c].known /\ t.mid = transaction[c].mid /\ t.flag # "open"
    BY <2>2 DEF Transactions, ResponseFlagAfterEmpty
  <2>4. transaction' = [transaction EXCEPT ![c] = t]
    BY <1>1, <1>7 DEF ServerEmpty
  <2> HIDE DEF c, t
  <2>5. \A d \in Calls : /\ transaction'[d].known = transaction[d].known
                         /\ transaction'[d].mid = transaction[d].mid
                         /\ transaction'[d].flag = "open" => transaction[d].flag = "open"
    BY <1>1, <2>2, <2>3, <2>4
  <2>6. UNCHANGED <<client, relations, todo>> /\ network' \subseteq network
    BY <1>7 DEF ServerEmpty
  <2> QED
    BY <2>5, <2>6, ServerOnlyForgets
<1> QED
  BY <1>3, <1>4, <1>5, <1>6, <1>7

\* The notification is for a token whose observation has been handled.
LEMMA NotifyForgetsNothing ==
  ASSUME TypeInv, CancelInv, NEW c \in Calls, Notify(c)
  PROVE  CancelInv'
<1> DEFINE k == call[c].token
           t == [transaction[c] EXCEPT !.mid = Len(mids) + 1, !.version = version, !.flag = "open", !.count = 0,
                                       !.observe = relations[k] # None]
<1>1. /\ transaction \in [Calls -> Transactions] /\ relations \in [Tokens -> Calls \cup {None}]
      /\ Len(mids) \in Nat /\ todo \subseteq Calls
  BY DEF TypeInv, TypeOK
<1>2. /\ UNCHANGED client /\ c \in todo /\ todo' \subseteq todo
      /\ transaction' = [transaction EXCEPT ![c] = t] /\ network' = network \cup {Response(c, t)}
      /\ relations' = [relations EXCEPT ![k] = IF @ = None THEN None ELSE c]
  BY DEF Notify
<1>3. t.known = transaction[c].known /\ t.mid # 0
  BY <1>1 DEF Transactions
<1>4. k \in Tokens /\ Observed(k)
  BY <1>2 DEF TypeInv, Served, CancelInv, HeardInv, NotifiedIsObserved
<1>5. Response(c, t).kind = "notification" /\ Response(c, t).token = k
  BY <1>3 DEF Response
<1> HIDE DEF t
<1>6. UNCHANGED call /\ Kept
  BY <1>1, <1>2, <1>3 DEF client, Kept
<1>7. \A j : Observed(j) => Observed(j)'
  BY <1>6, ObservedStays
<1>8. /\ ResponsesHeard' /\ TokensAreKept'
      /\ OwnTokens' => OwnTokens /\ CancelledIsKnown'
  <2>1. \A m \in network' : m \in network \/ Heard(m)'
    BY <1>2, <1>4, <1>5, <1>7 DEF Heard
  <2> QED
    BY <1>2, <1>6, <2>1, ServerHeard DEF Kept
<1>9. Observed(call[c].token)'
  BY <1>4, <1>6, <1>7 DEF Observed
<1>10. NotifiedIsObserved'
  <2>1. ASSUME NEW j \in Tokens, relations'[j] # None PROVE call[relations'[j]].token = j /\ Observed(j)'
    <3>1. relations[j] # None /\ (relations'[j] = relations[j] \/ (j = k /\ relations'[j] = c))
      BY <1>1, <1>2, <2>1
    <3>2. call[relations[j]].token = j /\ Observed(j)
      BY <3>1 DEF CancelInv, HeardInv, NotifiedIsObserved
    <3> QED
      BY <1>7, <3>1, <3>2
  <2>2. ASSUME NEW d \in Calls, Observed(call[d].token) PROVE Observed(call[d].token)'
    BY <1>6, <1>7, <2>2 DEF Observed
  <2>3. \A d \in todo' : Observed(call[d].token)'
    BY <1>1, <1>2, <2>2 DEF CancelInv, HeardInv, NotifiedIsObserved
  <2>4. \A d \in Calls : transaction'[d].mid # 0 => Observed(call[d].token)'
    BY <1>1, <1>2, <1>9, <2>2 DEF CancelInv, HeardInv, NotifiedIsObserved
  <2>5. \A d \in Calls : transaction'[d].flag = "open" => transaction'[d].mid # 0
    BY <1>1, <1>2, <1>3 DEF CancelInv, HeardInv, NotifiedIsObserved
  <2> QED
    BY <1>6, <2>1, <2>3, <2>4, <2>5 DEF NotifiedIsObserved
<1>11. ASSUME OwnTokens' PROVE CancelledIsGone'
  <2>1. OwnTokens /\ CancelledIsGone
    BY <1>8, <1>11 DEF CancelInv
  <2>2. ASSUME NEW d \in Blocking, transaction'[d].known, call[d].token = call[d.of].token
        PROVE  relations'[call[d].token] = None
    <3>1. d \in Calls /\ transaction[d].known
      BY <1>1, <1>2, <1>3, <2>2, CallsKinds
    <3>2. call[d].token \in Tokens
      BY <3>1 DEF TypeInv, Served
    <3>3. relations[call[d].token] = None
      BY <2>1, <2>2, <3>1 DEF CancelledIsGone
    <3> QED
      BY <1>1, <1>2, <3>2, <3>3
  <2> QED
    BY <1>6, <2>2 DEF CancelledIsGone
<1> QED
  BY <1>8, <1>10, <1>11 DEF CancelInv, HeardInv

\* Only an observation makes a relation, and it is handled once: before it is cancelled.
LEMMA RequestForgets ==
  ASSUME TypeInv, CancelInv, NEW m \in network, ServerRequest(m)
  PROVE  CancelInv'
<1> DEFINE c == m.call
           k == call[c].token
           t == [known |-> TRUE, mid |-> 0, version |-> version, flag |-> "acknowledged", count |-> 0,
                 observe |-> relations'[k] # None]
<1>1. /\ transaction \in [Calls -> Transactions] /\ relations \in [Tokens -> Calls \cup {None}]
      /\ todo \subseteq Calls
  BY DEF TypeInv, TypeOK
<1>2. c \in Calls /\ m = Request(c)
  BY DEF ServerRequest, TypeInv, TypeOK, Requests, Empties, Responses, Answers, Notifications, Request
<1>3. k \in Tokens
  BY <1>2 DEF TypeInv, Served
<1>4. /\ UNCHANGED <<client, todo>> /\ ~transaction[c].known
      /\ transaction' = [transaction EXCEPT ![c] = t] /\ network' = (network \ {m}) \cup {Response(c, t)}
      /\ relations' = Registered(c)
  BY DEF ServerRequest
<1>5. t.known /\ t.mid = 0 /\ t.flag # "open"
  OBVIOUS
<1>6. Response(c, t).kind = "answer" /\ Response(c, t).call = c
  BY <1>5 DEF Response
<1> HIDE DEF c, t
<1>7. /\ \A j \in Tokens \ {k} : relations'[j] = relations[j]
      /\ c.op = "observe" => relations'[k] = c
      /\ c.op = "cancel" => relations'[k] = None
      /\ c.op \notin {"observe", "cancel"} => relations'[k] = IF relations[k] = None THEN None ELSE c
  BY <1>1, <1>3, <1>4 DEF Registered
<1> HIDE DEF k
<1>8. UNCHANGED call /\ Kept
  BY <1>1, <1>4, <1>5 DEF client, Kept
<1>9. \A j : Observed(j) => Observed(j)'
  BY <1>8, ObservedStays
<1>10. /\ ResponsesHeard' /\ TokensAreKept'
       /\ OwnTokens' => OwnTokens /\ CancelledIsKnown'
  <2>1. \A n \in network' : n \in network \/ Heard(n)'
    BY <1>1, <1>2, <1>4, <1>5, <1>6 DEF Heard
  <2> QED
    BY <1>4, <1>8, <2>1, ServerHeard DEF Kept
<1>11. NotifiedIsObserved'
  <2>1. ASSUME NEW j \in Tokens, relations'[j] # None PROVE call[relations'[j]].token = j /\ Observed(j)'
    <3>1. CASE relations[j] # None
      <4>1. call[relations[j]].token = j /\ Observed(j)
        BY <3>1 DEF CancelInv, HeardInv, NotifiedIsObserved
      <4>2. relations'[j] = relations[j] \/ (j = k /\ relations'[j] = c)
        BY <1>7, <2>1
      <4> QED
        BY <1>9, <4>1, <4>2 DEF k
    <3>2. CASE relations[j] = None
      <4>1. j = k /\ c.op = "observe" /\ relations'[j] = c
        BY <1>7, <2>1, <3>2
      <4>2. Observed(j)'
        BY <1>1, <1>2, <1>4, <1>5, <1>8, <4>1 DEF Observed, k
      <4> QED
        BY <4>1, <4>2 DEF k
    <3> QED
      BY <3>1, <3>2
  <2>2. ASSUME NEW d \in Calls, Observed(call[d].token) PROVE Observed(call[d].token)'
    BY <1>8, <1>9, <2>2 DEF Observed
  <2>3. \A d \in todo' : Observed(call[d].token)'
    BY <1>1, <1>4, <2>2 DEF CancelInv, HeardInv, NotifiedIsObserved
  <2>4. \A d \in Calls : transaction'[d].mid # 0 => Observed(call[d].token)'
    BY <1>1, <1>4, <1>5, <2>2 DEF CancelInv, HeardInv, NotifiedIsObserved
  <2>5. \A d \in Calls : transaction'[d].flag = "open" => transaction'[d].mid # 0
    BY <1>1, <1>4, <1>5 DEF CancelInv, HeardInv, NotifiedIsObserved
  <2> QED
    BY <1>8, <2>1, <2>3, <2>4, <2>5 DEF NotifiedIsObserved
<1>12. ASSUME OwnTokens' PROVE CancelledIsGone'
  <2>1. OwnTokens /\ CancelledIsKnown /\ CancelledIsGone
    BY <1>10, <1>12 DEF CancelInv
  <2>2. ASSUME NEW d \in Blocking, transaction'[d].known, call[d].token = call[d.of].token
        PROVE  relations'[call[d].token] = None
    <3>1. d \in Calls /\ d.of \in Calls /\ d.op = "cancel" /\ d.of.op = "observe"
      BY <2>2, CallsAssumption DEF Blocking
    <3>2. call[d].token \in Tokens
      BY <1>2, <1>1, <1>3, <1>4, <2>2, <3>1 DEF TypeInv, Served, k
    <3>3. transaction[d.of].known
      <4>1. call[d].pc # "new"
        BY <3>1, <3>2, NamesAssumption DEF CancelInv, HeardInv, TokensAreKept
      <4> QED
        BY <2>1, <2>2, <4>1 DEF CancelledIsKnown
    <3>4. CASE call[d].token # k
      <4>1. d # c
        BY <3>4 DEF k
      <4>2. relations[call[d].token] = None
        BY <1>1, <1>4, <2>1, <2>2, <3>1, <4>1 DEF CancelledIsGone
      <4> QED
        BY <1>7, <3>2, <3>4, <4>2
    <3>5. CASE call[d].token = k
      <4>1. c.op # "observe"
        BY <1>2, <1>3, <1>4, <2>1, <2>2, <3>1, <3>3, <3>5 DEF OwnTokens, k
      <4>2. CASE d = c
        BY <1>7, <3>1, <3>5, <4>2
      <4>3. CASE d # c
        <5>1. relations[call[d].token] = None
          BY <1>1, <1>4, <2>1, <2>2, <3>1, <4>3 DEF CancelledIsGone
        <5> QED
          BY <1>7, <3>5, <4>1, <5>1
      <4> QED
        BY <4>2, <4>3
    <3> QED
      BY <3>4, <3>5
  <2> QED
    BY <1>8, <2>2 DEF CancelledIsGone
<1> QED
  BY <1>10, <1>11, <1>12 DEF CancelInv, HeardInv

-----------------------------------------------------------------------------
LEMMA InitCancelInv == Init => CancelInv
<1> SUFFICES ASSUME Init PROVE CancelInv
  OBVIOUS
<1>1. ResponsesHeard /\ NotifiedIsObserved /\ TokensAreKept
  BY DEF Init, ResponsesHeard, NotifiedIsObserved, TokensAreKept
<1>2. CancelledIsKnown /\ CancelledIsGone
  BY CallsKinds DEF Init, CancelledIsKnown, CancelledIsGone
<1> QED
  BY <1>1, <1>2 DEF CancelInv, HeardInv

LEMMA CancelStep ==
  ASSUME Patient, TypeInv, TypeInv', ContextInv, CancelInv, [Next]_vars
  PROVE  CancelInv'
<1>1. CASE UNCHANGED vars
  <2>1. UNCHANGED client /\ UNCHANGED <<relations, transaction, todo, network>>
    BY <1>1 DEF vars, server
  <2> QED
    BY <2>1, ServerOnlyForgets
<1>2. CASE \E c \in Calls : (\E explicit \in BOOLEAN : CancelDelete(c, explicit)) \/ Spin(c) \/ ClientThreads(c)
  BY <1>2, CallsKeep, ClientCancelStep DEF CancelInv, HeardInv
<1>3. CASE ReceiverThread \/ \E m \in network : Receive(m)
  BY <1>3, ReceiverKeeps, ClientCancelStep DEF CancelInv, HeardInv
<1>4. CASE \E c \in Calls : ServerThreads(c)
  BY <1>4, ServerForgets, NotifyForgetsNothing DEF ServerThreads
<1>5. CASE Put \/ \E m \in network : ServerRequest(m) \/ ServerDuplicate(m) \/ ServerEmpty(m)
  BY <1>5, ServerForgets, RequestForgets
<1> QED
  BY <1>1, <1>2, <1>3, <1>4, <1>5 DEF Next

\* Where who cancels has had an answer, a cancellation that is answered leaves no
\* ObserveItem, as long as no other observation has had the token.
THEOREM CancelInvariant == ASSUME Patient PROVE Spec => []CancelInv
<1>1. TypeInv /\ TypeInv' /\ ContextInv /\ CancelInv /\ [Next]_vars => CancelInv'
  BY CancelStep
<1> QED
  BY <1>1, InitCancelInv, ContextInvariant, PTL DEF Spec

\* An answer to a cancellation is sent by a server that has deleted the ObserveItem, and
\* no repetition of its observation makes it anew (observelayer.py 102-109).
THEOREM CancelHolds ==
  ASSUME Patient PROVE Spec => [](OwnTokens => AnsweredCancelDeletes)
<1>1. TypeInv /\ CancelInv => (OwnTokens => AnsweredCancelDeletes)
  <2> SUFFICES ASSUME TypeInv, CancelInv, OwnTokens, NEW c \in Blocking, OwnAnswer(c),
                      call[c].token = call[c.of].token
               PROVE  relations[call[c].token] = None
    BY DEF AnsweredCancelDeletes
  <2>1. transaction[c].known
    BY CallsKinds DEF OwnAnswer, CancelInv, HeardInv, ResponsesHeard, Heard
  <2> QED
    BY <2>1 DEF CancelInv, CancelledIsGone
<1> QED
  BY <1>1, CancelInvariant, ContextInvariant, PTL

\* With one observation no other can take its token over.
THEOREM OneCancelHolds ==
  ASSUME Patient, \A c, d \in Calls : c.op = "observe" /\ d.op = "observe" => c = d
  PROVE  Spec => []AnsweredCancelDeletes
<1>1. OwnTokens
  BY DEF OwnTokens
<1> QED
  BY <1>1, CancelHolds, PTL
=============================================================================
