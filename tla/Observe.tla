------------------------------ MODULE Observe ------------------------------
(***************************************************************************)
(* Observation of one resource of a server: layers/observelayer.py and the *)
(* threads of server/coap.py that use it.  A request is GET with Observe 0 *)
(* ("observe"), GET with Observe 1 ("cancel") or PUT; each has a worker,   *)
(* and an "observe" a transaction that every thread which notifies uses    *)
(* again.                                                                  *)
(*                                                                         *)
(* The lock of a transaction is held by its worker, by a worker that       *)
(* notifies it, or by a retransmission; the listener takes it for a        *)
(* moment.  ServerExchange has what these threads do besides.              *)
(***************************************************************************)
EXTENDS Naturals, Sequences, FiniteSets

CONSTANTS Clients,
          Confirmable,    \* the clients that send CON requests
          Requests,       \* records of op, client and a number
          MaxNotes,       \* bound on the responses of a transaction
          MaxRetransmit,  \* MAX_RETRANSMIT
          Serial,         \* TRUE: a request comes when the last one has been handled
          None

ASSUME RequestsAssumption ==
  /\ \A r \in Requests : r.op \in {"observe", "cancel", "PUT"} /\ r.client \in Clients
  /\ None \notin Requests
ASSUME BoundsAssumption ==
  MaxNotes \in Nat /\ MaxRetransmit \in Nat /\ Serial \in BOOLEAN /\ Confirmable \subseteq Clients

Observes == {r \in Requests : r.op = "observe"}
Puts == {r \in Requests : r.op = "PUT"}
\* A thread that retransmits a response; worker t starts one of its own only for
\* a response that it has sent as a notification before.
Retransmitters == Observes \X (1..MaxNotes) \X {"notified", "answered"}

VARIABLES
  payload,        \* the PUT that wrote the resource's payload
  observeCount, changed,    \* attributes of the resource
  relations,      \* [Clients]: the transaction of the client's ObserveItem
  resourceSet,    \* the transactions whose resource is set
  notes,          \* [Observes]: the Responses made for it, in order
  response,       \* [Observes]: the number of transaction.response, 0 for None
  accepted,       \* the transactions whose request is acknowledged
  worker,         \* [Requests]: pc; the transaction it notifies; those, and the
                  \* keys, that it has still to go through
  retransmitter,  \* [Retransmitters]: pc and retransmit_count
  listener,       \* pc; transaction and type of the empty message
  last            \* [Clients]: the Observe value last sent, and its payload

resource == <<payload, observeCount, changed>>
vars == <<resource, relations, resourceSet, notes, response, accepted, worker, retransmitter, listener,
          last>>

Init ==
  /\ payload = None /\ observeCount = 1 /\ changed = FALSE
  /\ relations = [c \in Clients |-> None] /\ resourceSet = {}
  /\ notes = [t \in Observes |-> <<>>] /\ response = [t \in Observes |-> 0] /\ accepted = {}
  /\ worker = [r \in Requests |-> [pc |-> "new", at |-> None, todo |-> {}, keys |-> {}]]
  /\ retransmitter = [x \in Retransmitters |-> [pc |-> "new", count |-> 0]]
  /\ listener = [pc |-> "loop", at |-> None, type |-> "none"]
  /\ last = [c \in Clients |-> [observe |-> 0, payload |-> None]]

Active(r) == worker[r].pc \notin {"new", "done", "dead"}

Retransmitting(x) == retransmitter[x].pc \in {"running", "give_up"}

\* with transaction
LockFree(t, r) ==
  /\ \A q \in Requests \ {r} : ~(Active(q) /\ t \in {q, worker[q].at})
  /\ \A x \in Retransmitters : ~(x[1] = t /\ Retransmitting(x))

\* The transaction that worker r handles: one it notifies, or its own.
Subject(r) == IF worker[r].at = None THEN r ELSE worker[r].at
Current(t) == notes[t][response[t]]

Goto(r, pc) == worker' = [worker EXCEPT ![r].pc = pc]
Dead(r) ==
  worker' = [worker EXCEPT ![r] = [pc |-> "dead", at |-> None, todo |-> {}, keys |-> {}]]
\* The resource is no longer marked, as after a finally.
WrongDie(r) == Dead(r) /\ changed' = FALSE
\* An exception ends a worker, and the with statements release its locks.
Die(r) == Dead(r) /\ UNCHANGED changed

-----------------------------------------------------------------------------
(* receive_request.                                                        *)

\* observeLayer.receive_request
Begin(r) ==
  /\ worker[r].pc = "new"
  /\ Serial => \A q \in Requests : ~Active(q)
  /\ Goto(r, "request")
  /\ relations' = CASE r.op = "observe" -> [relations EXCEPT ![r.client] = r]
                    [] r.op = "cancel" -> [relations EXCEPT ![r.client] = None]
                    [] OTHER -> relations
  /\ UNCHANGED <<resource, resourceSet, notes, response, accepted, retransmitter, listener, last>>

NewNote == [payload |-> payload, observe |-> 0, type |-> "none", mid |-> FALSE,
            token |-> TRUE, flag |-> "none", sent |-> FALSE, confirmed |-> FALSE]

\* _handle_get: a new Response with the payload of now.
Get(t) ==
  /\ Len(notes[t]) < MaxNotes
  /\ notes' = [notes EXCEPT ![t] = Append(@, NewNote)]
  /\ response' = [response EXCEPT ![t] = Len(notes[t]) + 1]
  /\ resourceSet' = resourceSet \cup {t}

\* requestLayer.receive_request; PUT writes the payload first.
HandleRequest(r) ==
  /\ worker[r].pc = "request"
  /\ CASE r.op = "observe" -> Get(r) /\ Goto(r, "changed") /\ UNCHANGED payload
       [] r.op = "cancel" -> Goto(r, "changed") /\ UNCHANGED <<payload, notes, response, resourceSet>>
       [] r.op = "PUT" -> payload' = r /\ Goto(r, "put") /\ UNCHANGED <<notes, response, resourceSet>>
  /\ UNCHANGED <<observeCount, changed, relations, accepted, retransmitter, listener, last>>

\* update_resource after render_PUT
HandlePut(r) ==
  /\ worker[r].pc = "put"
  /\ changed' = TRUE /\ observeCount' = observeCount + 1
  /\ Goto(r, "changed")
  /\ UNCHANGED <<payload, relations, resourceSet, notes, response, accepted, retransmitter, listener, last>>

\* After notify(), or without one, the worker answers.
ToAnswer(r) == IF r \in Observes THEN "observe" ELSE "done"

TestChanged(r) ==
  /\ worker[r].pc = "changed"
  /\ worker' = [worker EXCEPT ![r].pc = IF changed THEN "collect" ELSE ToAnswer(r),
                              ![r].keys = IF changed THEN {c \in Clients : relations[c] # None} ELSE {}]
  /\ UNCHANGED <<resource, relations, resourceSet, notes, response, accepted, retransmitter, listener, last>>

-----------------------------------------------------------------------------
(* notify.                                                                 *)

\* The old Response keeps its mid, or its token.
WrongStripped(note) == [note EXCEPT !.token = FALSE]
WrongerStripped(note) == [note EXCEPT !.mid = FALSE]
Stripped(note) == [note EXCEPT !.mid = FALSE, !.token = FALSE]

\* An iteration of ObserveLayer.notify, which takes no lock: KeyError if the entry
\* is gone, AttributeError if another thread has set the response to None.
Collect(r) ==
  /\ worker[r].pc = "collect"
  /\ \E c \in worker[r].keys :
       LET t == relations[c] IN
       \/ /\ t # None /\ t \notin resourceSet
          /\ worker' = [worker EXCEPT ![r].keys = @ \ {c}]
          /\ UNCHANGED <<notes, changed>>
       \/ /\ t # None /\ t \in resourceSet /\ response[t] # 0
          /\ notes' = [notes EXCEPT ![t][response[t]] = Stripped(@)]
          /\ worker' = [worker EXCEPT ![r].keys = @ \ {c}, ![r].todo = @ \cup {t}]
          /\ UNCHANGED changed
       \/ /\ t = None \/ (t \in resourceSet /\ response[t] = 0)
          /\ Die(r)
          /\ UNCHANGED notes
  /\ UNCHANGED <<payload, observeCount, relations, resourceSet, response, accepted, retransmitter, listener, last>>

\* The next transaction is taken once all are collected.
NotifyNext(r, t) ==
  /\ worker[r].pc = "collect" /\ worker[r].keys = {} /\ t \in worker[r].todo
  /\ LockFree(t, r)
  /\ response' = [response EXCEPT ![t] = 0]
  /\ worker' = [worker EXCEPT ![r].pc = "get", ![r].at = t, ![r].todo = @ \ {t}]
  /\ UNCHANGED <<resource, relations, resourceSet, notes, accepted, retransmitter, listener, last>>

NotifyGet(r) ==
  /\ worker[r].pc = "get"
  /\ Get(worker[r].at)
  /\ Goto(r, "observe")
  /\ UNCHANGED <<resource, relations, accepted, retransmitter, listener, last>>

NotifyEnd(r) ==
  /\ worker[r].pc = "collect" /\ worker[r].keys = {} /\ worker[r].todo = {}
  /\ changed' = FALSE
  /\ Goto(r, ToAnswer(r))
  /\ UNCHANGED <<payload, observeCount, relations, resourceSet, notes, response, accepted, retransmitter, listener, last>>

-----------------------------------------------------------------------------
(* The answer or notification.                                             *)

\* observeLayer.send_response: is there an entry ...
ObserveTest(r) ==
  /\ worker[r].pc = "observe"
  /\ Goto(r, IF relations[Subject(r).client] # None THEN "register" ELSE "message")
  /\ UNCHANGED <<resource, relations, resourceSet, notes, response, accepted, retransmitter, listener, last>>

\* ... which is gone by now, or gets the transaction.
ObserveRegister(r) ==
  LET t == Subject(r) IN
  /\ worker[r].pc = "register"
  /\ \/ /\ relations[t.client] = None /\ Die(r)
        /\ UNCHANGED <<relations, notes>>
     \/ /\ relations[t.client] # None /\ Goto(r, "message") /\ UNCHANGED changed
        /\ notes' = [notes EXCEPT ![t][response[t]].observe = observeCount]
        /\ relations' = [relations EXCEPT ![t.client] = t]
  /\ UNCHANGED <<payload, observeCount, resourceSet, response, accepted, retransmitter, listener, last>>

\* _send_ack, by the timer of a worker that takes its time.
SendAck(t) ==
  /\ worker[t].pc # "new" /\ t.client \in Confirmable /\ t \notin accepted
  /\ accepted' = accepted \cup {t}
  /\ UNCHANGED <<resource, relations, resourceSet, notes, response, worker, retransmitter, listener, last>>

\* messageLayer.send_response: an ACK acknowledges the request, and is acknowledged.
ResponseType(t) ==
  IF t.client \notin Confirmable THEN "NON" ELSE IF t \notin accepted THEN "ACK" ELSE "CON"

Message(t) ==
  LET note == Current(t) IN
  [note EXCEPT !.mid = TRUE, !.type = IF @ = "none" THEN ResponseType(t) ELSE @,
               !.flag = IF note.type = "none" /\ ResponseType(t) = "ACK" THEN "acknowledged" ELSE @]

SendMessage(r) ==
  LET t == Subject(r) IN
  /\ worker[r].pc = "message"
  /\ notes' = [notes EXCEPT ![t][response[t]] = Message(t)]
  /\ accepted' = accepted \cup {t}
  /\ Goto(r, "send")
  /\ UNCHANGED <<resource, relations, resourceSet, response, retransmitter, listener, last>>

\* send_datagram: without mid what is sent is no message.
Send(t, n) ==
  LET note == notes[t][n] IN
  IF note.mid
  THEN /\ last' = [last EXCEPT ![t.client] = [observe |-> note.observe, payload |-> note.payload]]
       /\ notes' = [notes EXCEPT ![t][n].sent = TRUE]
  ELSE UNCHANGED <<last, notes>>

\* _start_retransmission and send_datagram
SendDatagram(r) ==
  LET t == Subject(r)
      x == <<t, response[t], IF worker[r].at = None THEN "answered" ELSE "notified">> IN
  /\ worker[r].pc = "send"
  /\ Send(t, response[t])
  /\ retransmitter' = IF Current(t).type = "CON" THEN [retransmitter EXCEPT ![x].pc = "ready"]
                      ELSE retransmitter
  /\ worker' = [worker EXCEPT ![r].pc = IF worker[r].at = None THEN "done" ELSE "collect", ![r].at = None]
  /\ UNCHANGED <<resource, relations, resourceSet, response, accepted, listener>>
-----------------------------------------------------------------------------
(* Retransmission of a notification.                                       *)

NoteOf(x) == notes[x[1]][x[2]]
Settled(x) == NoteOf(x).flag \in {"acknowledged", "rejected"}

Retransmit(x) ==
  /\ retransmitter[x].pc = "ready"
  /\ LockFree(x[1], None)
  /\ retransmitter' = [retransmitter EXCEPT ![x].pc = "running"]
  /\ UNCHANGED <<resource, relations, resourceSet, notes, response, accepted, worker, listener, last>>

MayRetransmit(x) == retransmitter[x].count < MaxRetransmit /\ ~Settled(x)

\* It counts and sends while the message is neither acknowledged nor rejected.
RetransmitRound(x) ==
  /\ retransmitter[x].pc = "running" /\ MayRetransmit(x)
  /\ retransmitter' = [retransmitter EXCEPT ![x].count = @ + 1]
  /\ Send(x[1], x[2])
  /\ UNCHANGED <<resource, relations, resourceSet, response, accepted, worker, listener>>

RetransmitSettled(x) ==
  /\ retransmitter[x].pc = "running" /\ Settled(x)
  /\ retransmitter' = [retransmitter EXCEPT ![x].pc = "done"]
  /\ UNCHANGED <<resource, relations, resourceSet, notes, response, accepted, worker, listener, last>>

\* It gives up, after a last test of the two marks ...
GiveUp(x) ==
  /\ retransmitter[x].pc = "running" /\ retransmitter[x].count >= MaxRetransmit /\ ~Settled(x)
  /\ retransmitter' = [retransmitter EXCEPT ![x].pc = "give_up"]
  /\ UNCHANGED <<resource, relations, resourceSet, notes, response, accepted, worker, listener, last>>

\* ... and remove_subscriber looks the observer up by the token of the message,
\* which may have been acknowledged by now.
RemoveSubscriber(x) ==
  /\ retransmitter[x].pc = "give_up"
  /\ retransmitter' = [retransmitter EXCEPT ![x].pc = "done"]
  /\ relations' = IF NoteOf(x).observe # 0 /\ NoteOf(x).token
                  THEN [relations EXCEPT ![x[1].client] = None] ELSE relations
  /\ UNCHANGED <<resource, resourceSet, notes, response, accepted, worker, listener, last>>

-----------------------------------------------------------------------------
(* The listener, and the clients that send it an ACK or a RST.             *)

\* A retransmission of note m that has given up.
GivenUp(t, m) ==
  \E x \in Retransmitters : x[1] = t /\ x[2] = m /\ retransmitter[x].pc = "give_up"

\* Note m after an ACK of note n: the flag is that of the response which the
\* transaction has now; "confirmed" is that an ACK came before the last test.
Acknowledged(t, n, m) ==
  [notes[t][m] EXCEPT !.flag = IF m = response[t] THEN "acknowledged" ELSE @,
                      !.confirmed = @ \/ (m = n /\ ~GivenUp(t, m))]

\* receive_empty, for a notification that was sent; its mid stays in the table though
\* the Response may have lost it.  Without a response, a RST ends the listener:
\* AttributeError.
ReceiveEmpty(t, n, type) ==
  /\ listener.pc = "loop"
  /\ n \in DOMAIN notes[t] /\ NoteOf(<<t, n>>).sent
  /\ \/ /\ type = "ACK" /\ NoteOf(<<t, n>>).type = "CON"
        /\ notes' = [notes EXCEPT ![t] = [m \in DOMAIN notes[t] |-> Acknowledged(t, n, m)]]
        /\ listener' = [pc |-> "with", at |-> t, type |-> "ACK"]
     \/ /\ type = "RST" /\ response[t] = 0
        /\ listener' = [pc |-> "dead", at |-> None, type |-> "none"]
        /\ UNCHANGED notes
     \/ /\ type = "RST" /\ response[t] # 0
        /\ notes' = IF Current(t).flag = "acknowledged" THEN notes
                    ELSE [notes EXCEPT ![t][response[t]].flag = "rejected"]
        /\ listener' = [pc |-> "with", at |-> t, type |-> "RST"]
  /\ UNCHANGED <<resource, relations, resourceSet, response, accepted, worker, retransmitter, last>>

\* observeLayer.receive_empty
ListenerWith ==
  /\ listener.pc = "with" /\ LockFree(listener.at, None)
  /\ relations' = IF listener.type = "RST" THEN [relations EXCEPT ![listener.at.client] = None]
                  ELSE relations
  /\ listener' = [pc |-> "loop", at |-> None, type |-> "none"]
  /\ UNCHANGED <<resource, resourceSet, notes, response, accepted, worker, retransmitter, last>>

-----------------------------------------------------------------------------
Work(r) ==
  \/ HandleRequest(r) \/ HandlePut(r) \/ TestChanged(r) \/ Collect(r) \/ NotifyGet(r)
  \/ NotifyEnd(r) \/ ObserveTest(r) \/ ObserveRegister(r) \/ SendMessage(r) \/ SendDatagram(r)
  \/ \E t \in Observes : NotifyNext(r, t)
Retransmission(x) == Retransmit(x) \/ RetransmitRound(x) \/ RetransmitSettled(x) \/ GiveUp(x)
                     \/ RemoveSubscriber(x)

Next ==
  \/ \E r \in Requests : Begin(r) \/ Work(r)
  \/ \E t \in Observes : SendAck(t)
  \/ \E x \in Retransmitters : Retransmission(x)
  \/ \E t \in Observes, n \in 1..MaxNotes, type \in {"ACK", "RST"} : ReceiveEmpty(t, n, type)
  \/ ListenerWith

Spec == Init /\ [][Next]_vars

\* Python schedules every thread that can run.
FairSpec ==
  /\ Spec
  /\ \A r \in Requests : WF_vars(Work(r))
  /\ \A x \in Retransmitters : WF_vars(Retransmission(x))
  /\ WF_vars(ListenerWith)

-----------------------------------------------------------------------------
(* Properties.                                                             *)

Note == [payload : Puts \cup {None}, observe : 0..(Cardinality(Puts) + 1),
         type : {"none", "ACK", "NON", "CON"}, mid : BOOLEAN, token : BOOLEAN,
         flag : {"none", "acknowledged", "rejected"}, sent : BOOLEAN, confirmed : BOOLEAN]

\* The values of the variables.
TypeOK ==
  /\ payload \in Puts \cup {None} /\ changed \in BOOLEAN
  /\ observeCount \in 1..(Cardinality(Puts) + 1)
  /\ relations \in [Clients -> Observes \cup {None}] /\ resourceSet \subseteq Observes /\ accepted \subseteq Observes
  /\ notes \in [Observes -> Seq(Note)]
  /\ \A t \in Observes : response[t] \in {0} \cup DOMAIN notes[t]
  /\ worker \in [Requests -> [pc : {"new", "request", "put", "changed", "collect", "get",
                                    "observe", "register", "message", "send", "done", "dead"},
                              at : Observes \cup {None}, todo : SUBSET Observes, keys : SUBSET Clients]]
  /\ retransmitter \in [Retransmitters -> [pc : {"new", "ready", "running", "give_up", "done"}, count : 0..MaxRetransmit]]
  /\ listener \in [pc : {"loop", "with", "dead"}, at : Observes \cup {None}, type : {"none", "ACK", "RST"}]
  /\ last \in [Clients -> [observe : 0..(Cardinality(Puts) + 1), payload : Puts \cup {None}]]

\* Once the workers rest and no change is marked, every observer has been sent the
\* payload that the resource has (server/coap.py 223-228, resource.py "changed").
LatestIsNotified ==
  (\A r \in Requests : ~Active(r)) /\ ~changed =>
    \A c \in Clients : relations[c] # None => last[c].payload = payload

\* A client is not sent an older state after a newer one, whatever is
\* retransmitted (observelayer.py 183: notify() takes the mid of the old Response).
NotificationsInOrder ==
  [][\A c \in Clients : last'[c].observe # 0 => last'[c].observe >= last[c].observe]_vars

\* A retransmission that gives up removes no observer whose ACK of the notification
\* came before it last looked (server/coap.py 352), although an ACK is marked in the
\* response that the transaction has by then (observelayer.py 184: notify() takes the
\* token of the old Response).
GiveUpOnSilentOnly ==
  [][\A x \in Retransmitters :
       retransmitter[x].pc = "give_up" /\ retransmitter'[x].pc = "done" /\ NoteOf(x).confirmed
         => relations' = relations]_vars

\* A worker that notifies comes to an end ("Notifies the observers of a certain
\* resource", server/coap.py 404).
NotifyEnds == \A r \in Requests : worker[r].pc = "collect" ~> ~Active(r)
=============================================================================
