------------------------------ MODULE Exchange ------------------------------
(***************************************************************************)
(* What a server promises the client of an exchange: a request is handled  *)
(* once, or again only if it is confirmable and the client has been, or    *)
(* will be, told that it has arrived; its answer is the ACK unless the     *)
(* client is told that apart; and a closed server is silent.               *)
(***************************************************************************)
CONSTANTS Exchanges,    \* the requests
          Confirmable,  \* those whose client wants an ACK
          Runs,         \* the occasions on which one may be handled
          Of(_)         \* the request of a run

VARIABLES runs,    \* those that have begun
          settled, \* the requests that are taken for acknowledged
          told,    \* those whose client was sent an empty ACK
          answer,  \* [Runs]: the type of the answer, or "none"
          sent,    \* the runs whose answer was sent
          closed

Init ==
  /\ runs = {} /\ settled = {} /\ told = {} /\ sent = {}
  /\ answer = [w \in Runs |-> "none"]
  /\ closed = FALSE

Handle(w) ==
  /\ w \notin runs
  /\ \A v \in runs : Of(v) = Of(w) => Of(w) \in Confirmable /\ Of(w) \in settled
  /\ runs' = runs \cup {w}
  /\ UNCHANGED <<settled, told, answer, sent, closed>>

Settle(e) ==
  /\ e \in Confirmable
  /\ settled' = settled \cup {e}
  /\ UNCHANGED <<runs, told, answer, sent, closed>>

Tell(e) ==
  /\ e \in settled /\ ~closed
  /\ told' = told \cup {e}
  /\ UNCHANGED <<runs, settled, answer, sent, closed>>

\* The type of an answer is chosen once.
Choose(w, type) ==
  /\ w \in runs /\ answer[w] = "none"
  /\ \/ type = "NON" /\ Of(w) \notin Confirmable
     \/ type = "ACK" /\ Of(w) \in Confirmable \ settled
     \/ type = "CON" /\ Of(w) \in Confirmable \cap settled
  /\ answer' = [answer EXCEPT ![w] = type]
  /\ UNCHANGED <<runs, settled, told, sent, closed>>

Send(w) ==
  /\ answer[w] # "none" /\ ~closed
  /\ sent' = sent \cup {w}
  /\ UNCHANGED <<runs, settled, told, answer, closed>>

Close ==
  /\ closed' = TRUE
  /\ UNCHANGED <<runs, settled, told, answer, sent>>

Next ==
  \/ \E e \in Exchanges : Settle(e) \/ Tell(e)
  \/ \E w \in Runs : Handle(w) \/ Send(w) \/ \E type \in {"ACK", "CON", "NON"} : Choose(w, type)
  \/ Close

Spec == Init /\ [][Next]_<<runs, settled, told, answer, sent, closed>>
=============================================================================
