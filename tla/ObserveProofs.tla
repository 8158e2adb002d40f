--------------------------- MODULE ObserveProofs ----------------------------
(***************************************************************************)
(* Proofs about Observe where requests are handled one after the other     *)
(* (Serial), for every set of clients and requests and all bounds.         *)
(*                                                                         *)
(* Base says that one worker is active and what it has at hand; StripInv   *)
(* that a note which is being replaced has neither mid nor token, so that  *)
(* no thread can send it or look its observer up any more; GivingUpOnBare  *)
(* that this holds of what is given up though it was acknowledged before   *)
(* the last test, whatever comes between test and removal; OrderInv that   *)
(* every observer has been sent the state of now or will be, which needs   *)
(* that a client registers once: an older transaction of the same client   *)
(* may retransmit after the newer one has been notified.                   *)
(***************************************************************************)
EXTENDS Observe, TLAPS

Payloads == Puts \cup {None}
NoteType == [payload : Payloads, observe : Nat,
             type : {"none", "ACK", "NON", "CON"}, mid : BOOLEAN, token : BOOLEAN,
             flag : {"none", "acknowledged", "rejected"}, sent : BOOLEAN, confirmed : BOOLEAN]
Pcs == {"new", "request", "put", "changed", "collect", "get", "observe", "register", "message",
        "send", "done", "dead"}
RetransmitterPcs == {"new", "ready", "running", "give_up", "done"}
WorkerType == [pc : Pcs, at : Observes \cup {None}, todo : SUBSET Observes, keys : SUBSET Clients]

NotesType ==
  /\ notes \in [Observes -> Seq(NoteType)] /\ response \in [Observes -> Nat]
  /\ \A t \in Observes : response[t] <= Len(notes[t])
RelationsType ==
  /\ relations \in [Clients -> Observes \cup {None}]
  /\ \A c \in Clients : relations[c] # None => relations[c].client = c
RestType ==
  /\ payload \in Payloads /\ changed \in BOOLEAN /\ observeCount \in Nat /\ observeCount > 0
  /\ resourceSet \subseteq Observes
  /\ retransmitter \in [Retransmitters -> [pc : RetransmitterPcs, count : Nat]]
  /\ listener \in [pc : {"loop", "with", "dead"}, at : Observes \cup {None}, type : {"none", "ACK", "RST"}]
  /\ last \in [Clients -> [observe : Nat, payload : Payloads]]
\* Where a worker is, and the transaction that it has at hand.
AtHand(w, r) ==
  /\ w.at # None => w.pc \in {"get", "observe", "register", "message", "send"}
  /\ w.pc = "get" => w.at # None
  /\ w.pc \in {"observe", "register", "message", "send"} /\ w.at = None => r \in Observes
  /\ w.keys # {} => w.pc = "collect"
  /\ w.todo # {} => w.pc = "collect" \/ w.at # None
  /\ w.at \notin w.todo
  /\ w.pc = "put" => r \in Puts
WorkersType ==
  /\ worker \in [Requests -> WorkerType]
  /\ \A r \in Requests : AtHand(worker[r], r)
\* A worker at one of these steps has a response at hand.
Answering(r) == worker[r].pc \in {"observe", "register", "message", "send"}

Types == NotesType /\ RelationsType /\ RestType /\ WorkersType

\* What the assumption on the requests says of their subsets.
LEMMA Basics ==
  /\ \A t \in Observes : t \in Requests /\ t.client \in Clients /\ t # None /\ t.op = "observe"
  /\ \A r \in Requests : r # None /\ r.client \in Clients /\ r.op \in {"observe", "cancel", "PUT"}
  /\ \A r \in Puts : r \in Requests /\ r.op = "PUT"
BY RequestsAssumption DEF Observes, Puts

\* A note replaced in the notes of a transaction.
LEMMA NoteChange ==
  ASSUME NEW f \in [Observes -> Seq(NoteType)], NEW t \in Observes, NEW n \in 1..Len(f[t]),
         NEW e \in NoteType, NEW g, g = [f EXCEPT ![t][n] = e]
  PROVE  /\ g \in [Observes -> Seq(NoteType)]
         /\ \A u \in Observes : Len(g[u]) = Len(f[u])
         /\ g[t][n] = e
         /\ \A u \in Observes : \A m \in 1..Len(f[u]) : ~(u = t /\ m = n) => g[u][m] = f[u][m]
<1>1. /\ [f[t] EXCEPT ![n] = e] \in Seq(NoteType) /\ Len([f[t] EXCEPT ![n] = e]) = Len(f[t])
      /\ [f[t] EXCEPT ![n] = e][n] = e
      /\ \A m \in 1..Len(f[t]) : m # n => [f[t] EXCEPT ![n] = e][m] = f[t][m]
  OBVIOUS
<1>2. g[t] = [f[t] EXCEPT ![n] = e] /\ \A u \in Observes : u # t => g[u] = f[u]
  OBVIOUS
<1>3. g \in [Observes -> Seq(NoteType)]
  BY <1>1
<1>4. QED  BY <1>1, <1>2, <1>3

\* A note appended to the notes of a transaction.
LEMMA NoteAppend ==
  ASSUME NEW f \in [Observes -> Seq(NoteType)], NEW t \in Observes,
         NEW e \in NoteType, NEW g, g = [f EXCEPT ![t] = Append(@, e)]
  PROVE  /\ g \in [Observes -> Seq(NoteType)]
         /\ \A u \in Observes : u # t => g[u] = f[u]
         /\ Len(g[t]) = Len(f[t]) + 1
         /\ g[t][Len(f[t]) + 1] = e
         /\ \A m \in 1..Len(f[t]) : g[t][m] = f[t][m]
<1>1. g[t] = Append(f[t], e) /\ \A u \in Observes : u # t => g[u] = f[u]
  OBVIOUS
<1>2. g \in [Observes -> Seq(NoteType)]
  <2>1. Append(f[t], e) \in Seq(NoteType)
    OBVIOUS
  <2>2. QED  BY <2>1
<1>3. f[t] \in Seq(NoteType)
  OBVIOUS
<1>4. QED  BY <1>1, <1>2, <1>3

-----------------------------------------------------------------------------
(* What a step does to the notes.                                          *)

\* What a step does to the notes: makes one, or replaces the current one of t by e.
Made(t) ==
  /\ notes' \in [Observes -> Seq(NoteType)] /\ response' \in [Observes -> Nat]
  /\ \A u \in Observes : u # t => notes'[u] = notes[u] /\ response'[u] = response[u]
  /\ Len(notes'[t]) = Len(notes[t]) + 1 /\ response'[t] = Len(notes[t]) + 1
  /\ notes'[t][Len(notes[t]) + 1] = NewNote
  /\ \A m \in 1..Len(notes[t]) : notes'[t][m] = notes[t][m]
Replaced(t, n, e) ==
  /\ notes' \in [Observes -> Seq(NoteType)] /\ n \in 1..Len(notes[t])
  /\ \A u \in Observes : Len(notes'[u]) = Len(notes[u])
  /\ notes'[t][n] = e
  /\ \A u \in Observes : \A m \in 1..Len(notes[u]) : ~(u = t /\ m = n) => notes'[u][m] = notes[u][m]
\* Worker r goes on as w.
Moved(r, w) == worker'[r] = w /\ \A q \in Requests : q # r => worker'[q] = worker[q]

\* Whatever the code makes of a note is a note.
LEMMA NoteFields ==
  ASSUME Types, NEW t \in Observes, NEW n \in 1..Len(notes[t])
  PROVE  /\ notes[t][n] \in NoteType
         /\ Stripped(notes[t][n]) \in NoteType /\ NewNote \in NoteType
         /\ [notes[t][n] EXCEPT !.observe = observeCount] \in NoteType
         /\ (n = response[t] => Message(t) \in NoteType)
         /\ [notes[t][n] EXCEPT !.sent = TRUE] \in NoteType
         /\ [notes[t][n] EXCEPT !.flag = "rejected"] \in NoteType
<1>1. notes[t] \in Seq(NoteType)
  BY DEF Types, NotesType
<1>2. notes[t][n] \in NoteType
  BY <1>1
<1>3. payload \in Payloads /\ observeCount \in Nat
  BY DEF Types, RestType
<1> DEFINE note == notes[t][n]
<1> HIDE DEF note
<1>4. note \in NoteType
  BY <1>2 DEF note
<1>5. ResponseType(t) \in {"none", "ACK", "NON", "CON"}
  BY DEF ResponseType
<1>6. Stripped(note) \in NoteType
  BY <1>4 DEF NoteType, Stripped
<1>7. NewNote \in NoteType
  BY <1>3 DEF NoteType, NewNote
<1>8. [note EXCEPT !.observe = observeCount] \in NoteType
  BY <1>3, <1>4 DEF NoteType
<1>9. [note EXCEPT !.mid = TRUE, !.type = IF @ = "none" THEN ResponseType(t) ELSE @,
                   !.flag = IF note.type = "none" /\ ResponseType(t) = "ACK" THEN "acknowledged" ELSE @]
        \in NoteType
  BY <1>4, <1>5 DEF NoteType
<1>10. /\ [note EXCEPT !.sent = TRUE] \in NoteType
       /\ [note EXCEPT !.flag = "rejected"] \in NoteType
  BY <1>4 DEF NoteType
<1>11. QED  BY <1>4, <1>6, <1>7, <1>8, <1>9, <1>10 DEF note, Message, Current

\* _handle_get makes a note.
LEMMA GetMakes ==
  ASSUME Types, NEW t \in Observes, Get(t)
  PROVE  Made(t) /\ resourceSet' = resourceSet \cup {t}
<1>1. NewNote \in NoteType
  BY DEF Types, RestType, NewNote, NoteType
<1>2. /\ notes' = [notes EXCEPT ![t] = Append(@, NewNote)]
      /\ response' = [response EXCEPT ![t] = Len(notes[t]) + 1]
      /\ resourceSet' = resourceSet \cup {t}
  BY DEF Get
<1>3. notes \in [Observes -> Seq(NoteType)] /\ response \in [Observes -> Nat] /\ Len(notes[t]) \in Nat
  BY DEF Types, NotesType
<1>4. /\ notes' \in [Observes -> Seq(NoteType)]
      /\ \A u \in Observes : u # t => notes'[u] = notes[u]
      /\ Len(notes'[t]) = Len(notes[t]) + 1
      /\ notes'[t][Len(notes[t]) + 1] = NewNote
      /\ \A m \in 1..Len(notes[t]) : notes'[t][m] = notes[t][m]
  BY <1>1, <1>2, <1>3, NoteAppend
<1>5. QED  BY <1>2, <1>3, <1>4 DEF Made

\* An EXCEPT of one note is a replacement.
LEMMA Replacing ==
  ASSUME Types, NEW t \in Observes, NEW n \in 1..Len(notes[t]), NEW e \in NoteType,
         notes' = [notes EXCEPT ![t][n] = e]
  PROVE  Replaced(t, n, e)
<1>1. notes \in [Observes -> Seq(NoteType)]
  BY DEF Types, NotesType
<1>2. QED  BY <1>1, NoteChange DEF Replaced

\* The notes keep what a client sees of them.
SameNote(new, note) ==
  /\ new.payload = note.payload /\ new.observe = note.observe /\ new.type = note.type
  /\ new.mid = note.mid /\ new.token = note.token /\ new.sent = note.sent
Kept ==
  /\ notes' \in [Observes -> Seq(NoteType)] /\ UNCHANGED response
  /\ \A u \in Observes : /\ Len(notes'[u]) = Len(notes[u])
                         /\ \A m \in 1..Len(notes[u]) : SameNote(notes'[u][m], notes[u][m])
\* No thread but the worker of a request does more than mark notes and delete entries.
Quiet ==
  /\ Kept /\ UNCHANGED <<resource, resourceSet, worker, last>>
  /\ \A c \in Clients : relations'[c] \in {relations[c], None}
  /\ \A x \in Retransmitters : retransmitter'[x].pc # "new" => retransmitter[x].pc # "new"
\* A retransmission of a note.
Resent(x) ==
  /\ retransmitter[x].pc = "running"
  /\ \A y \in Retransmitters : retransmitter'[y].pc = retransmitter[y].pc
  /\ Send(x[1], x[2])
  /\ UNCHANGED <<resource, relations, resourceSet, response, worker>>

\* Notes that are not touched are kept.
LEMMA KeptAsIs ==
  ASSUME Types, UNCHANGED <<notes, response>>
  PROVE  Kept
BY DEF Kept, SameNote, Types, NotesType

\* The transaction and the number of a retransmission.
LEMMA RetransmitterType ==
  ASSUME NEW x \in Retransmitters
  PROVE  x[1] \in Observes /\ x[2] \in Nat
<1>1. x[1] \in Observes /\ x[2] \in 1..MaxNotes
  BY DEF Retransmitters
<1>2. QED  BY <1>1, BoundsAssumption

-----------------------------------------------------------------------------
(* The threads besides the workers.                                        *)

\* A thread that retransmits has been started for a note.
ThreadsOfNotes ==
  \A x \in Retransmitters : retransmitter[x].pc # "new" => x[2] \in 1..Len(notes[x[1]])

\* A Quiet step that keeps the types.
LEMMA QuietTypes ==
  ASSUME Types, Quiet,
         retransmitter' \in [Retransmitters -> [pc : RetransmitterPcs, count : Nat]],
         listener' \in [pc : {"loop", "with", "dead"}, at : Observes \cup {None}, type : {"none", "ACK", "RST"}],
         relations' \in [Clients -> Observes \cup {None}]
  PROVE  Types'
<1>1. NotesType'
  BY DEF Types, NotesType, Quiet, Kept
<1>2. RelationsType'
  BY DEF Types, RelationsType, Quiet
<1>3. RestType' /\ WorkersType'
  BY DEF Types, RestType, WorkersType, Quiet, resource, AtHand
<1>4. QED  BY <1>1, <1>2, <1>3 DEF Types

\* A retransmission that begins, or ends settled, or gives up, is quiet.
LEMMA RetransmitQuiet ==
  ASSUME Types, NEW x \in Retransmitters, Retransmit(x) \/ RetransmitSettled(x) \/ GiveUp(x)
  PROVE  Quiet /\ Types' /\ UNCHANGED <<notes, relations>>
<1>1. /\ retransmitter[x].pc # "new"
      /\ UNCHANGED <<resource, relations, resourceSet, notes, response, worker, listener, last>>
      /\ \E pc \in {"running", "done", "give_up"} : retransmitter' = [retransmitter EXCEPT ![x].pc = pc]
  BY DEF Retransmit, RetransmitSettled, GiveUp
<1>2. PICK pc \in {"running", "done", "give_up"} : retransmitter' = [retransmitter EXCEPT ![x].pc = pc]
  BY <1>1
<1>3. \A y \in Retransmitters : retransmitter[y] \in [pc : RetransmitterPcs, count : Nat]
  BY DEF Types, RestType
<1>4. /\ retransmitter'[x] = [retransmitter[x] EXCEPT !.pc = pc]
      /\ \A y \in Retransmitters : y # x => retransmitter'[y] = retransmitter[y]
      /\ retransmitter' \in [Retransmitters -> [pc : RetransmitterPcs, count : Nat]]
  BY <1>2, <1>3 DEF Types, RestType, RetransmitterPcs
<1>5. \A y \in Retransmitters : retransmitter'[y].pc # "new" => retransmitter[y].pc # "new"
  BY <1>1, <1>4
<1>6. Quiet
  BY <1>1, <1>5, KeptAsIs DEF Quiet
<1>7. relations' = relations /\ listener' = listener
  BY <1>1
<1>8. QED  BY <1>1, <1>4, <1>6, <1>7, QuietTypes DEF Types, RelationsType, RestType

\* One that has given up may delete an entry.
LEMMA RemoveQuiet ==
  ASSUME Types, NEW x \in Retransmitters, RemoveSubscriber(x)
  PROVE  Quiet /\ Types' /\ UNCHANGED notes
<1>1. /\ retransmitter[x].pc # "new" /\ retransmitter' = [retransmitter EXCEPT ![x].pc = "done"]
      /\ UNCHANGED <<resource, resourceSet, notes, response, worker, listener, last>>
  BY DEF RemoveSubscriber
<1>2. /\ retransmitter' \in [Retransmitters -> [pc : RetransmitterPcs, count : Nat]]
      /\ \A y \in Retransmitters : retransmitter'[y].pc # "new" => retransmitter[y].pc # "new"
  BY <1>1 DEF Types, RestType, RetransmitterPcs
<1>3. /\ relations' \in [Clients -> Observes \cup {None}]
      /\ \A c \in Clients : relations'[c] \in {relations[c], None}
  <2>1. relations' = relations \/ relations' = [relations EXCEPT ![x[1].client] = None]
    BY DEF RemoveSubscriber
  <2>2. QED  BY <2>1 DEF Types, RelationsType
<1>4. Quiet
  BY <1>1, <1>2, <1>3, KeptAsIs DEF Quiet
<1>5. listener' = listener
  BY <1>1
<1>6. QED  BY <1>1, <1>2, <1>3, <1>4, <1>5, QuietTypes DEF Types, RestType

\* The timer of a worker is quiet.
LEMMA AckQuiet ==
  ASSUME Types, NEW t \in Observes, SendAck(t)
  PROVE  Quiet /\ Types' /\ UNCHANGED <<notes, relations>>
<1>1. UNCHANGED <<resource, relations, resourceSet, notes, response, worker, retransmitter, listener, last>>
  BY DEF SendAck
<1>2. Quiet
  BY <1>1, KeptAsIs DEF Quiet, Types, RelationsType
<1>3. QED  BY <1>1, <1>2, QuietTypes DEF Types, RelationsType, RestType

\* The listener may delete an entry.
LEMMA ListenerQuiet ==
  ASSUME Types, ListenerWith
  PROVE  Quiet /\ Types' /\ UNCHANGED notes
<1>1. /\ UNCHANGED <<resource, resourceSet, notes, response, worker, retransmitter, last>>
      /\ listener' = [pc |-> "loop", at |-> None, type |-> "none"]
      /\ relations' = relations \/ relations' = [relations EXCEPT ![listener.at.client] = None]
  BY DEF ListenerWith
<1>2. /\ relations' \in [Clients -> Observes \cup {None}]
      /\ \A c \in Clients : relations'[c] \in {relations[c], None}
  BY <1>1 DEF Types, RelationsType
<1>3. Quiet
  BY <1>1, <1>2, KeptAsIs DEF Quiet
<1>4. listener' \in [pc : {"loop", "with", "dead"}, at : Observes \cup {None}, type : {"none", "ACK", "RST"}]
  BY <1>1
<1>5. retransmitter' = retransmitter
  BY <1>1
<1>6. QED  BY <1>1, <1>2, <1>3, <1>4, <1>5, QuietTypes DEF Types, RestType

\* What receive_empty does to the notes.
Marked(t, n) ==
  \A m \in 1..Len(notes[t]) :
    /\ notes'[t][m].flag = IF m = response[t] THEN "acknowledged" ELSE notes[t][m].flag
    /\ notes'[t][m].confirmed = (notes[t][m].confirmed \/ (m = n /\ ~GivenUp(t, m)))

\* An ACK or a RST marks notes.
LEMMA EmptyQuiet ==
  ASSUME Types, NEW t \in Observes, NEW n \in 1..MaxNotes, NEW ty \in {"ACK", "RST"},
         ReceiveEmpty(t, n, ty)
  PROVE  /\ Quiet /\ Types' /\ n \in 1..Len(notes[t])
         /\ \/ /\ Marked(t, n)
               /\ \A u \in Observes : u # t => notes'[u] = notes[u]
            \/ UNCHANGED notes
            \/ /\ response[t] # 0 /\ Current(t).flag # "acknowledged"
               /\ Replaced(t, response[t], [Current(t) EXCEPT !.flag = "rejected"])
<1>1. /\ UNCHANGED <<resource, relations, resourceSet, response, worker, retransmitter, last>>
      /\ listener' \in [pc : {"loop", "with", "dead"}, at : Observes \cup {None}, type : {"none", "ACK", "RST"}]
  BY DEF ReceiveEmpty
<1>2. notes[t] \in Seq(NoteType) /\ response[t] \in Nat /\ response[t] <= Len(notes[t])
  BY DEF Types, NotesType
<1>3. DOMAIN notes[t] = 1..Len(notes[t])
  BY <1>2
<1>4. n \in 1..Len(notes[t])
  BY <1>3 DEF ReceiveEmpty
<1>5. Kept => Quiet
  BY <1>1 DEF Quiet, Types, RelationsType
<1>6. Quiet => Types'
  BY <1>1, QuietTypes DEF Types, RestType, RelationsType
<1>7. CASE notes' = [notes EXCEPT ![t] = [m \in DOMAIN notes[t] |-> Acknowledged(t, n, m)]]
  <2> DEFINE mark(m) == Acknowledged(t, n, m)
             s == [m \in 1..Len(notes[t]) |-> mark(m)]
  <2>1. notes' = [notes EXCEPT ![t] = s]
    BY <1>3, <1>7
  <2>2. \A m \in 1..Len(notes[t]) : notes[t][m] \in NoteType
    BY <1>2
  <2>3. ASSUME NEW m \in 1..Len(notes[t])
        PROVE  /\ mark(m) \in NoteType /\ SameNote(mark(m), notes[t][m])
               /\ mark(m).flag = IF m = response[t] THEN "acknowledged" ELSE notes[t][m].flag
               /\ mark(m).confirmed = (notes[t][m].confirmed \/ (m = n /\ ~GivenUp(t, m)))
    <3> DEFINE note == notes[t][m]
    <3>1. note \in NoteType
      BY <2>2
    <3>2. mark(m) = [note EXCEPT !.flag = IF m = response[t] THEN "acknowledged" ELSE @,
                                 !.confirmed = @ \/ (m = n /\ ~GivenUp(t, m))]
      BY DEF Acknowledged
    <3> DEFINE came == m = n /\ ~GivenUp(t, m)
    <3>3. came \in BOOLEAN
      BY DEF GivenUp
    <3> HIDE DEF note, mark
    <3>4. mark(m) = [note EXCEPT !.flag = IF m = response[t] THEN "acknowledged" ELSE @,
                                 !.confirmed = @ \/ came]
      BY <3>2
    <3> HIDE DEF came
    <3>5. /\ mark(m) \in NoteType /\ SameNote(mark(m), note)
          /\ mark(m).flag = IF m = response[t] THEN "acknowledged" ELSE note.flag
      BY <3>1, <3>3, <3>4 DEF NoteType, SameNote
    <3>6. mark(m).confirmed = (note.confirmed \/ came)
      BY <3>1, <3>4, Zenon DEF NoteType
    <3>7. QED  BY <3>5, <3>6 DEF note, came
  <2> HIDE DEF mark
  <2>4. Len(notes[t]) \in Nat
    BY <1>2
  <2>5. s \in Seq(NoteType) /\ Len(s) = Len(notes[t]) /\ \A m \in 1..Len(notes[t]) : s[m] = mark(m)
    BY <2>3, <2>4
  <2> HIDE DEF s
  <2>6. /\ notes' \in [Observes -> Seq(NoteType)] /\ notes'[t] = s
        /\ \A u \in Observes : u # t => notes'[u] = notes[u]
    BY <2>1, <2>5 DEF Types, NotesType
  <2>7. Marked(t, n)
    BY <2>3, <2>5, <2>6 DEF Marked
  <2>8. \A m \in 1..Len(notes[t]) : SameNote(s[m], notes[t][m])
    BY <2>3, <2>5
  <2>9. Kept
    <3>1. ASSUME NEW u \in Observes, NEW m \in 1..Len(notes[u])
          PROVE  Len(notes'[u]) = Len(notes[u]) /\ SameNote(notes'[u][m], notes[u][m])
      <4>1. CASE u = t
        BY <2>5, <2>6, <2>8, <4>1
      <4>2. CASE u # t
        BY <2>6, <4>2 DEF SameNote
      <4>3. QED  BY <4>1, <4>2
    <3>2. \A u \in Observes : Len(notes'[u]) = Len(notes[u])
      BY <2>5, <2>6
    <3>3. QED  BY <1>1, <2>6, <3>1, <3>2 DEF Kept
  <2>10. QED  BY <1>2, <1>4, <1>5, <1>6, <2>6, <2>7, <2>9
<1>8. CASE UNCHANGED notes
  BY <1>1, <1>4, <1>5, <1>6, <1>8, KeptAsIs
<1>9. CASE /\ response[t] # 0 /\ Current(t).flag # "acknowledged"
           /\ notes' = [notes EXCEPT ![t][response[t]].flag = "rejected"]
  <2> DEFINE e == [Current(t) EXCEPT !.flag = "rejected"]
  <2>1. response[t] \in 1..Len(notes[t])
    BY <1>2, <1>9
  <2>2. e \in NoteType /\ Current(t) \in NoteType
    BY <2>1, NoteFields DEF Current
  <2>3. notes' = [notes EXCEPT ![t][response[t]] = e]
    BY <1>9 DEF Current
  <2>4. Replaced(t, response[t], e)
    BY <2>1, <2>2, <2>3, Replacing
  <2>5. SameNote(e, Current(t))
    BY <2>2 DEF SameNote, NoteType
  <2> HIDE DEF e
  <2>6. Kept
    BY <1>1, <2>4, <2>5 DEF Kept, Replaced, SameNote, Current
  <2>7. QED  BY <1>2, <1>4, <1>5, <1>6, <1>9, <2>4, <2>6 DEF e
<1>10. QED  BY <1>7, <1>8, <1>9 DEF ReceiveEmpty, Current

\* A retransmission, and what it does to the notes and to what a client has.
LEMMA RoundResends ==
  ASSUME Types, ThreadsOfNotes, NEW x \in Retransmitters, RetransmitRound(x)
  PROVE  /\ Resent(x) /\ Types'
         /\ UNCHANGED <<notes, last>> \/
            /\ NoteOf(x).mid /\ Replaced(x[1], x[2], [NoteOf(x) EXCEPT !.sent = TRUE])
            /\ last' = [last EXCEPT ![x[1].client] = [observe |-> NoteOf(x).observe, payload |-> NoteOf(x).payload]]
<1> DEFINE t == x[1]
           n == x[2]
           e == [notes[t][n] EXCEPT !.sent = TRUE]
           now == [observe |-> notes[t][n].observe, payload |-> notes[t][n].payload]
<1>1. t \in Observes /\ n \in 1..Len(notes[t]) /\ t.client \in Clients
  BY RetransmitterType, Basics DEF RetransmitRound, ThreadsOfNotes
<1>2. e \in NoteType /\ notes[t][n] \in NoteType
  BY <1>1, NoteFields
<1>3. /\ retransmitter[x].pc = "running" /\ retransmitter' = [retransmitter EXCEPT ![x].count = @ + 1]
      /\ UNCHANGED <<resource, relations, resourceSet, response, worker, listener>>
      /\ Send(t, n)
  BY DEF RetransmitRound
<1>4. \A y \in Retransmitters : retransmitter[y] \in [pc : RetransmitterPcs, count : Nat]
  BY DEF Types, RestType
<1>5. \A y \in Retransmitters : retransmitter'[y] =
         IF y = x THEN [retransmitter[x] EXCEPT !.count = retransmitter[x].count + 1] ELSE retransmitter[y]
  BY <1>3 DEF Types, RestType
<1>6. /\ \A y \in Retransmitters : retransmitter'[y].pc = retransmitter[y].pc
      /\ retransmitter' \in [Retransmitters -> [pc : RetransmitterPcs, count : Nat]]
  BY <1>3, <1>4, <1>5 DEF Types, RestType
<1>7. Resent(x)
  BY <1>3, <1>6 DEF Resent
<1>8. now \in [observe : Nat, payload : Payloads]
  BY <1>2 DEF NoteType
<1>9. \/ UNCHANGED <<notes, last>>
      \/ /\ notes[t][n].mid /\ notes' = [notes EXCEPT ![t][n] = e]
         /\ last' = [last EXCEPT ![t.client] = now]
  BY <1>3 DEF Send
<1> HIDE DEF e, now
<1>10. CASE UNCHANGED <<notes, last>>
  <2>1. Types'
    BY <1>3, <1>6, <1>10 DEF Types, NotesType, RelationsType, RestType, WorkersType, resource, AtHand
  <2>2. QED  BY <1>7, <1>10, <2>1
<1>11. CASE /\ notes[t][n].mid /\ notes' = [notes EXCEPT ![t][n] = e]
            /\ last' = [last EXCEPT ![t.client] = now]
  <2>1. Replaced(t, n, e)
    BY <1>1, <1>2, <1>11, Replacing
  <2>2. last' \in [Clients -> [observe : Nat, payload : Payloads]]
    BY <1>8, <1>11 DEF Types, RestType
  <2>3. NotesType'
    BY <1>3, <2>1 DEF Types, NotesType, Replaced
  <2>4. RelationsType' /\ RestType' /\ WorkersType'
    BY <1>3, <1>6, <2>2 DEF Types, RelationsType, RestType, WorkersType, resource, AtHand
  <2>5. QED  BY <1>7, <1>11, <2>1, <2>3, <2>4 DEF e, now, NoteOf, Types
<1>12. QED  BY <1>9, <1>10, <1>11

-----------------------------------------------------------------------------
(* The steps of a worker, for every state that is typed.                   *)

\* Requests are handled one after the other.
Alone == \A q, r \in Requests : Active(q) /\ Active(r) => q = r

\* Whose worker has a Response to send, or to strip, has it.
HasResponse ==
  \A r \in Requests :
    /\ Answering(r) => response[Subject(r)] # 0
    /\ r \in Observes /\ Active(r) /\ worker[r].pc \notin {"request", "put"}
       /\ ~(worker[r].pc = "get" /\ worker[r].at = r) => response[r] # 0

Base == Types /\ Alone /\ HasResponse /\ ThreadsOfNotes

\* A worker that goes on as w, which fits its step, keeps the types.
LEMMA Moving ==
  ASSUME WorkersType, NEW r \in Requests, NEW w \in WorkerType, AtHand(w, r),
         worker' = [worker EXCEPT ![r] = w]
  PROVE  WorkersType' /\ Moved(r, w)
BY DEF WorkersType, Moved

\* A worker's fields.
LEMMA WorkerFields ==
  ASSUME WorkersType, NEW r \in Requests
  PROVE  /\ worker[r] \in WorkerType /\ AtHand(worker[r], r)
         /\ \A pc \in Pcs : [worker[r] EXCEPT !.pc = pc] \in WorkerType
BY DEF WorkersType, WorkerType

\* Worker r may come to step pc with what it has.
Fits(r, pc) ==
  /\ worker[r].at # None => pc \in {"get", "observe", "register", "message", "send"}
  /\ pc = "get" => worker[r].at # None
  /\ pc \in {"observe", "register", "message", "send"} /\ worker[r].at = None => r \in Observes
  /\ worker[r].keys = {}
  /\ worker[r].todo # {} => worker[r].at # None
  /\ pc = "put" => r \in Puts

\* So it does when only its step changes.
LEMMA Going ==
  ASSUME WorkersType, NEW r \in Requests, NEW pc \in Pcs, Goto(r, pc), Fits(r, pc)
  PROVE  WorkersType' /\ Moved(r, [worker[r] EXCEPT !.pc = pc])
<1> DEFINE w == [worker[r] EXCEPT !.pc = pc]
<1>1. worker' = [worker EXCEPT ![r] = w]
  BY DEF Goto
<1>2. worker[r] \in WorkerType /\ w \in WorkerType /\ AtHand(worker[r], r)
  BY WorkerFields
<1>3. w.pc = pc /\ w.at = worker[r].at /\ w.todo = worker[r].todo /\ w.keys = worker[r].keys
  BY <1>2 DEF WorkerType
<1> HIDE DEF w
<1>4. AtHand(w, r)
  BY <1>2, <1>3 DEF AtHand, Fits
<1>5. QED  BY <1>1, <1>2, <1>4, Moving DEF w

\* A worker that is not at one of the steps of notify() has nothing to notify.
LEMMA Unburdened ==
  ASSUME Types, NEW r \in Requests,
         worker[r].pc \notin {"collect", "get", "observe", "register", "message", "send"}
  PROVE  worker[r].at = None /\ worker[r].keys = {} /\ worker[r].todo = {}
BY WorkerFields DEF Types, AtHand

DeadWorker == [pc |-> "dead", at |-> None, todo |-> {}, keys |-> {}]

\* And when it dies.
LEMMA Dying ==
  ASSUME WorkersType, NEW r \in Requests, Dead(r)
  PROVE  WorkersType' /\ Moved(r, DeadWorker)
<1>1. DeadWorker \in WorkerType /\ AtHand(DeadWorker, r)
  BY DEF DeadWorker, WorkerType, Pcs, AtHand
<1>2. worker' = [worker EXCEPT ![r] = DeadWorker]
  BY DEF Dead, DeadWorker
<1>3. QED  BY <1>1, <1>2, Moving

\* The transaction that an answering worker handles.
LEMMA SubjectType ==
  ASSUME Types, NEW r \in Requests, worker[r].at # None \/ Answering(r)
  PROVE  Subject(r) \in Observes /\ Subject(r) \in Requests /\ Subject(r).client \in Clients
<1>1. worker[r] \in WorkerType /\ AtHand(worker[r], r)
  BY WorkerFields DEF Types
<1>2. Subject(r) \in Observes
  BY <1>1 DEF Subject, WorkerType, AtHand, Answering
<1>3. QED  BY <1>2, Basics

\* The current note, and what the code makes of it, are notes.
LEMMA CurrentType ==
  ASSUME Types, NEW t \in Observes, response[t] # 0
  PROVE  /\ response[t] \in 1..Len(notes[t]) /\ Current(t) \in NoteType
         /\ Stripped(Current(t)) \in NoteType /\ Message(t) \in NoteType
         /\ [Current(t) EXCEPT !.observe = observeCount] \in NoteType
         /\ [Current(t) EXCEPT !.sent = TRUE] \in NoteType
<1>1. response[t] \in Nat /\ response[t] <= Len(notes[t]) /\ notes[t] \in Seq(NoteType)
  BY DEF Types, NotesType
<1>2. response[t] \in 1..Len(notes[t])
  BY <1>1
<1>3. QED  BY <1>2, NoteFields DEF Current

\* A new note keeps the types.
LEMMA MadeTypes ==
  ASSUME Types, NEW t \in Observes, Made(t)
  PROVE  NotesType'
<1>1. \A u \in Observes : response[u] \in Nat /\ response[u] <= Len(notes[u]) /\ Len(notes[u]) \in Nat
  BY DEF Types, NotesType
<1>2. /\ notes' \in [Observes -> Seq(NoteType)] /\ response' \in [Observes -> Nat]
      /\ \A u \in Observes : u # t => notes'[u] = notes[u] /\ response'[u] = response[u]
      /\ Len(notes'[t]) = Len(notes[t]) + 1 /\ response'[t] = Len(notes[t]) + 1
  BY DEF Made
<1>3. ASSUME NEW u \in Observes  PROVE response'[u] <= Len(notes'[u])
  <2>1. CASE u = t
    BY <1>1, <1>2, <2>1
  <2>2. CASE u # t
    BY <1>1, <1>2, <2>2
  <2>3. QED  BY <2>1, <2>2
<1>4. QED  BY <1>2, <1>3 DEF NotesType


\* Begin: the entry of the client is set or deleted.
LEMMA BeginStep ==
  ASSUME Types, NEW r \in Requests, Begin(r)
  PROVE  /\ Types' /\ worker[r].pc = "new" /\ Moved(r, [worker[r] EXCEPT !.pc = "request"])
         /\ \A c \in Clients : relations'[c] \in {relations[c], None} \/
                               (relations'[c] = r /\ r \in Observes /\ c = r.client)
         /\ r.op = "cancel" => relations'[r.client] = None
         /\ UNCHANGED <<resource, resourceSet, notes, response, retransmitter, last>>
<1>1. worker[r].pc = "new" /\ Goto(r, "request")
      /\ UNCHANGED <<resource, resourceSet, notes, response, retransmitter, listener, last>>
  BY DEF Begin
<1>2. WorkersType' /\ Moved(r, [worker[r] EXCEPT !.pc = "request"])
  <2>1. Fits(r, "request") /\ "request" \in Pcs
    BY <1>1, Unburdened DEF Fits, Pcs
  <2>2. QED  BY <1>1, <2>1, Going DEF Types
<1>3. relations' = IF r.op = "observe" THEN [relations EXCEPT ![r.client] = r]
                   ELSE IF r.op = "cancel" THEN [relations EXCEPT ![r.client] = None] ELSE relations
  BY Basics DEF Begin
<1>4. r.op = "observe" => r \in Observes
  BY DEF Observes
<1>5. RelationsType'
  BY <1>3, <1>4, Basics DEF Types, RelationsType
<1>6. NotesType' /\ RestType'
  BY <1>1 DEF Types, NotesType, RestType, resource
<1>7. /\ \A c \in Clients : relations'[c] \in {relations[c], None} \/
                               (relations'[c] = r /\ r \in Observes /\ c = r.client)
      /\ r.op = "cancel" => relations'[r.client] = None
  BY <1>3, <1>4, Basics DEF Types, RelationsType
<1>8. QED  BY <1>1, <1>2, <1>5, <1>6, <1>7 DEF Types

\* HandleRequest of a registration: a first note.
LEMMA HandleObserveStep ==
  ASSUME Types, NEW r \in Requests, HandleRequest(r), r.op = "observe"
  PROVE  /\ Types' /\ worker[r].pc = "request" /\ Moved(r, [worker[r] EXCEPT !.pc = "changed"])
         /\ r \in Observes /\ Made(r) /\ resourceSet' = resourceSet \cup {r}
         /\ UNCHANGED <<resource, relations, retransmitter, last>>
<1>1. /\ worker[r].pc = "request" /\ r \in Observes /\ Get(r) /\ Goto(r, "changed")
      /\ UNCHANGED <<resource, relations, retransmitter, listener, last>>
  BY DEF HandleRequest, Observes, resource
<1>2. WorkersType' /\ Moved(r, [worker[r] EXCEPT !.pc = "changed"])
  <2>1. Fits(r, "changed") /\ "changed" \in Pcs
    BY <1>1, Unburdened DEF Fits, Pcs
  <2>2. QED  BY <1>1, <2>1, Going DEF Types
<1>3. Made(r) /\ resourceSet' = resourceSet \cup {r}
  BY <1>1, GetMakes
<1>4. NotesType'
  BY <1>1, <1>3, MadeTypes
<1>5. RelationsType' /\ RestType'
  BY <1>1, <1>3 DEF Types, RelationsType, RestType, resource
<1>6. QED  BY <1>1, <1>2, <1>3, <1>4, <1>5 DEF Types

\* HandleRequest of a cancellation or of a PUT.
LEMMA HandleOtherStep ==
  ASSUME Types, NEW r \in Requests, HandleRequest(r), r.op # "observe"
  PROVE  /\ Types' /\ worker[r].pc = "request" /\ r \notin Observes
         /\ \/ Moved(r, [worker[r] EXCEPT !.pc = "changed"]) /\ r \notin Puts /\ UNCHANGED payload
            \/ Moved(r, [worker[r] EXCEPT !.pc = "put"])
         /\ UNCHANGED <<observeCount, changed, relations, resourceSet, notes, response, retransmitter, last>>
<1>1. /\ worker[r].pc = "request" /\ r \notin Observes
      /\ UNCHANGED <<observeCount, changed, relations, retransmitter, listener, last>>
  BY DEF HandleRequest, Observes
<1>2. \/ /\ r.op = "cancel" /\ Goto(r, "changed") /\ UNCHANGED <<payload, resourceSet, notes, response>>
      \/ r.op = "PUT" /\ payload' = r /\ Goto(r, "put") /\ UNCHANGED <<resourceSet, notes, response>>
  BY Basics DEF HandleRequest
<1>3. CASE r.op = "cancel" /\ Goto(r, "changed") /\ UNCHANGED <<payload, resourceSet, notes, response>>
  <2>1. Fits(r, "changed") /\ "changed" \in Pcs
    BY <1>1, Unburdened DEF Fits, Pcs
  <2>2. WorkersType' /\ Moved(r, [worker[r] EXCEPT !.pc = "changed"])
    BY <1>3, <2>1, Going DEF Types
  <2>3. NotesType' /\ RelationsType' /\ RestType'
    BY <1>1, <1>3 DEF Types, NotesType, RelationsType, RestType
  <2>4. QED  BY <1>1, <1>3, <2>2, <2>3 DEF Types, Puts
<1>4. CASE r.op = "PUT" /\ payload' = r /\ Goto(r, "put") /\ UNCHANGED <<resourceSet, notes, response>>
  <2>0. r \in Puts /\ r \in Payloads
    BY <1>4 DEF Puts, Payloads
  <2>1. Fits(r, "put") /\ "put" \in Pcs
    BY <1>1, <2>0, Unburdened DEF Fits, Pcs
  <2>2. WorkersType' /\ Moved(r, [worker[r] EXCEPT !.pc = "put"])
    BY <1>4, <2>1, Going DEF Types
  <2>3. NotesType' /\ RelationsType' /\ RestType'
    BY <1>1, <1>4, <2>0 DEF Types, NotesType, RelationsType, RestType
  <2>4. QED  BY <1>1, <1>4, <2>2, <2>3 DEF Types
<1>5. QED  BY <1>2, <1>3, <1>4

\* HandlePut: the mark, and the next count.
LEMMA HandlePutStep ==
  ASSUME Types, NEW r \in Requests, HandlePut(r)
  PROVE  /\ Types' /\ worker[r].pc = "put" /\ r \in Puts /\ Moved(r, [worker[r] EXCEPT !.pc = "changed"])
         /\ changed' = TRUE /\ observeCount' = observeCount + 1
         /\ UNCHANGED <<payload, relations, resourceSet, notes, response, retransmitter, last>>
<1>1. /\ worker[r].pc = "put" /\ Goto(r, "changed")
      /\ changed' = TRUE /\ observeCount' = observeCount + 1
      /\ UNCHANGED <<payload, relations, resourceSet, notes, response, retransmitter, listener, last>>
  BY DEF HandlePut
<1>2. r \in Puts /\ Fits(r, "changed") /\ "changed" \in Pcs
  <2>1. r \in Puts
    BY <1>1, WorkerFields DEF AtHand, Types
  <2>2. QED  BY <1>1, <2>1, Unburdened DEF Fits, Pcs
<1>3. WorkersType' /\ Moved(r, [worker[r] EXCEPT !.pc = "changed"])
  BY <1>1, <1>2, Going DEF Types
<1>4. NotesType' /\ RelationsType' /\ RestType'
  BY <1>1 DEF Types, NotesType, RelationsType, RestType
<1>5. QED  BY <1>1, <1>2, <1>3, <1>4 DEF Types

\* TestChanged: the observers that there are, when the mark is set.
LEMMA TestChangedStep ==
  ASSUME Types, NEW r \in Requests, TestChanged(r)
  PROVE  /\ Types' /\ worker[r].pc = "changed" /\ worker[r].at = None
         /\ Moved(r, IF changed THEN [worker[r] EXCEPT !.pc = "collect", !.keys = {c \in Clients : relations[c] # None}]
                     ELSE [worker[r] EXCEPT !.pc = ToAnswer(r), !.keys = {}])
         /\ UNCHANGED <<resource, relations, resourceSet, notes, response, retransmitter, last>>
<1> DEFINE w == IF changed THEN [worker[r] EXCEPT !.pc = "collect", !.keys = {c \in Clients : relations[c] # None}]
                ELSE [worker[r] EXCEPT !.pc = ToAnswer(r), !.keys = {}]
<1>1. /\ worker[r].pc = "changed"
      /\ worker' = [worker EXCEPT ![r] = w]
      /\ UNCHANGED <<resource, relations, resourceSet, notes, response, retransmitter, listener, last>>
  BY DEF TestChanged
<1>2. worker[r] \in WorkerType /\ AtHand(worker[r], r)
  BY WorkerFields DEF Types
<1>3. w \in WorkerType /\ AtHand(w, r) /\ worker[r].at = None
  BY <1>1, <1>2 DEF AtHand, WorkerType, Pcs, ToAnswer
<1> HIDE DEF w
<1>4. WorkersType' /\ Moved(r, w)
  BY <1>1, <1>3, Moving DEF Types
<1>5. NotesType' /\ RelationsType' /\ RestType'
  BY <1>1 DEF Types, NotesType, RelationsType, RestType, resource
<1>6. QED  BY <1>1, <1>3, <1>4, <1>5 DEF Types, w

\* Collect: an observer without resource is skipped, one with a note is stripped, or
\* the worker dies.
LEMMA CollectStep ==
  ASSUME Types, NEW r \in Requests, Collect(r)
  PROVE  /\ Types' /\ worker[r].pc = "collect" /\ worker[r].at = None
         /\ UNCHANGED <<resource, relations, resourceSet, response, retransmitter, last>>
         /\ \/ \E c \in worker[r].keys :
                 /\ relations[c] \notin resourceSet /\ relations[c] # None /\ UNCHANGED notes
                 /\ Moved(r, [worker[r] EXCEPT !.keys = @ \ {c}])
            \/ \E c \in worker[r].keys :
                 /\ relations[c] \in resourceSet /\ response[relations[c]] # 0
                 /\ Replaced(relations[c], response[relations[c]], Stripped(Current(relations[c])))
                 /\ Moved(r, [worker[r] EXCEPT !.keys = @ \ {c}, !.todo = @ \cup {relations[c]}])
            \/ UNCHANGED notes /\ Moved(r, DeadWorker)
<1>1. /\ worker[r].pc = "collect"
      /\ UNCHANGED <<payload, observeCount, relations, resourceSet, response, retransmitter, listener, last>>
      /\ UNCHANGED changed
  BY DEF Collect, Die
<1>2. worker[r] \in WorkerType /\ AtHand(worker[r], r)
  BY WorkerFields DEF Types
<1>3. worker[r].at = None /\ worker[r].keys \subseteq Clients
  BY <1>1, <1>2 DEF AtHand, WorkerType
<1>4. RelationsType' /\ RestType'
  BY <1>1 DEF Types, RelationsType, RestType
<1>5. UNCHANGED resource
  BY <1>1 DEF resource
<1>6. PICK c \in worker[r].keys :
       LET t == relations[c] IN
       \/ /\ t # None /\ t \notin resourceSet
          /\ worker' = [worker EXCEPT ![r].keys = @ \ {c}]
          /\ UNCHANGED <<notes, changed>>
       \/ /\ t # None /\ t \in resourceSet /\ response[t] # 0
          /\ notes' = [notes EXCEPT ![t][response[t]] = Stripped(@)]
          /\ worker' = [worker EXCEPT ![r].keys = @ \ {c}, ![r].todo = @ \cup {t}]
          /\ UNCHANGED changed
       \/ /\ t = None \/ (t \in resourceSet /\ response[t] = 0)
          /\ Die(r)
          /\ UNCHANGED notes
  BY DEF Collect
<1> DEFINE t == relations[c]
<1>7. t \in Observes \cup {None}
  BY <1>3 DEF Types, RelationsType
<1>8. CASE /\ t # None /\ t \notin resourceSet /\ UNCHANGED notes
           /\ worker' = [worker EXCEPT ![r].keys = @ \ {c}]
  <2> DEFINE w == [worker[r] EXCEPT !.keys = @ \ {c}]
  <2>1. w \in WorkerType /\ AtHand(w, r) /\ worker' = [worker EXCEPT ![r] = w]
    BY <1>1, <1>2, <1>8 DEF WorkerType, AtHand
  <2> HIDE DEF w
  <2>2. WorkersType' /\ Moved(r, w)
    BY <2>1, Moving DEF Types
  <2>3. NotesType'
    BY <1>1, <1>8 DEF Types, NotesType
  <2>4. QED  BY <1>1, <1>3, <1>4, <1>5, <1>8, <2>2, <2>3 DEF Types, w
<1>9. CASE /\ t # None /\ t \in resourceSet /\ response[t] # 0
           /\ notes' = [notes EXCEPT ![t][response[t]] = Stripped(@)]
           /\ worker' = [worker EXCEPT ![r].keys = @ \ {c}, ![r].todo = @ \cup {t}]
  <2> DEFINE w == [worker[r] EXCEPT !.keys = @ \ {c}, !.todo = @ \cup {t}]
  <2>1. w \in WorkerType /\ AtHand(w, r) /\ worker' = [worker EXCEPT ![r] = w]
    <3>1. worker' = [worker EXCEPT ![r] = w]
      BY <1>9
    <3>2. w \in WorkerType
      BY <1>2, <1>7, <1>9 DEF WorkerType
    <3>3. w.pc = "collect" /\ w.at = None /\ None \notin w.todo
      BY <1>1, <1>2, <1>3, <1>9 DEF AtHand, WorkerType
    <3>4. QED  BY <3>1, <3>2, <3>3 DEF AtHand
  <2> HIDE DEF w
  <2>2. WorkersType' /\ Moved(r, w)
    BY <2>1, Moving DEF Types
  <2>3. response[t] \in 1..Len(notes[t]) /\ Stripped(Current(t)) \in NoteType
    BY <1>7, <1>9, CurrentType
  <2>4. notes' = [notes EXCEPT ![t][response[t]] = Stripped(Current(t))]
    BY <1>9 DEF Current
  <2>5. Replaced(t, response[t], Stripped(Current(t)))
    BY <1>7, <1>9, <2>3, <2>4, Replacing
  <2>6. NotesType'
    BY <1>1, <2>5 DEF Types, NotesType, Replaced
  <2>7. QED  BY <1>1, <1>3, <1>4, <1>5, <1>9, <2>2, <2>5, <2>6 DEF Types, w
<1>10. CASE Die(r) /\ UNCHANGED notes
  <2>1. WorkersType' /\ Moved(r, DeadWorker)
    BY <1>10, Dying DEF Types, Die
  <2>2. NotesType'
    BY <1>1, <1>10 DEF Types, NotesType
  <2>3. QED  BY <1>1, <1>3, <1>4, <1>5, <1>10, <2>1, <2>2 DEF Types
<1>11. QED  BY <1>6, <1>8, <1>9, <1>10

\* NotifyNext: the response of the next transaction is None.
LEMMA NotifyNextStep ==
  ASSUME Types, NEW r \in Requests, NEW t \in Observes, NotifyNext(r, t)
  PROVE  /\ Types' /\ worker[r].pc = "collect" /\ worker[r].at = None
         /\ worker[r].keys = {} /\ t \in worker[r].todo
         /\ Moved(r, [worker[r] EXCEPT !.pc = "get", !.at = t, !.todo = @ \ {t}])
         /\ response'[t] = 0 /\ \A u \in Observes : u # t => response'[u] = response[u]
         /\ UNCHANGED <<resource, relations, resourceSet, notes, retransmitter, last>>
<1> DEFINE w == [worker[r] EXCEPT !.pc = "get", !.at = t, !.todo = @ \ {t}]
<1>1. /\ worker[r].pc = "collect" /\ worker[r].keys = {} /\ t \in worker[r].todo
      /\ response' = [response EXCEPT ![t] = 0]
      /\ worker' = [worker EXCEPT ![r] = w]
      /\ UNCHANGED <<resource, relations, resourceSet, notes, retransmitter, listener, last>>
  BY DEF NotifyNext
<1>2. worker[r] \in WorkerType /\ AtHand(worker[r], r)
  BY WorkerFields DEF Types
<1>3. w \in WorkerType /\ AtHand(w, r) /\ worker[r].at = None
  BY <1>1, <1>2 DEF AtHand, WorkerType, Pcs
<1> HIDE DEF w
<1>4. WorkersType' /\ Moved(r, w)
  BY <1>1, <1>3, Moving DEF Types
<1>5. NotesType' /\ response'[t] = 0 /\ \A u \in Observes : u # t => response'[u] = response[u]
  BY <1>1 DEF Types, NotesType
<1>6. RelationsType' /\ RestType'
  BY <1>1 DEF Types, RelationsType, RestType, resource
<1>7. QED  BY <1>1, <1>3, <1>4, <1>5, <1>6 DEF Types, w

\* NotifyGet: a new note.
LEMMA NotifyGetStep ==
  ASSUME Types, NEW r \in Requests, NotifyGet(r)
  PROVE  /\ Types' /\ worker[r].pc = "get" /\ worker[r].at \in Observes
         /\ Moved(r, [worker[r] EXCEPT !.pc = "observe"])
         /\ Made(worker[r].at) /\ resourceSet' = resourceSet \cup {worker[r].at}
         /\ UNCHANGED <<resource, relations, retransmitter, last>>
<1>1. /\ worker[r].pc = "get" /\ Get(worker[r].at) /\ Goto(r, "observe")
      /\ UNCHANGED <<resource, relations, retransmitter, listener, last>>
  BY DEF NotifyGet
<1>2. /\ worker[r] \in WorkerType /\ AtHand(worker[r], r)
  BY WorkerFields DEF Types
<1>3. worker[r].at \in Observes /\ worker[r].at # None
  BY <1>1, <1>2 DEF AtHand, WorkerType
<1>4. Fits(r, "observe") /\ "observe" \in Pcs
  BY <1>1, <1>2, <1>3 DEF Fits, Pcs, AtHand
<1>5. WorkersType' /\ Moved(r, [worker[r] EXCEPT !.pc = "observe"])
  BY <1>1, <1>4, Going DEF Types
<1>6. Made(worker[r].at) /\ resourceSet' = resourceSet \cup {worker[r].at}
  BY <1>1, <1>3, GetMakes
<1>7. NotesType'
  BY <1>3, <1>6, MadeTypes
<1>8. RelationsType' /\ RestType'
  BY <1>1, <1>3, <1>6 DEF Types, RelationsType, RestType, resource
<1>9. QED  BY <1>1, <1>3, <1>5, <1>6, <1>7, <1>8 DEF Types

\* NotifyEnd: the mark is reset.
LEMMA NotifyEndStep ==
  ASSUME Types, NEW r \in Requests, NotifyEnd(r)
  PROVE  /\ Types' /\ worker[r].pc = "collect" /\ worker[r].at = None
         /\ worker[r].keys = {} /\ worker[r].todo = {}
         /\ Moved(r, [worker[r] EXCEPT !.pc = ToAnswer(r)]) /\ changed' = FALSE
         /\ UNCHANGED <<payload, observeCount, relations, resourceSet, notes, response, retransmitter, last>>
<1>1. /\ worker[r].pc = "collect" /\ worker[r].keys = {} /\ worker[r].todo = {}
      /\ changed' = FALSE /\ Goto(r, ToAnswer(r))
      /\ UNCHANGED <<payload, observeCount, relations, resourceSet, notes, response, retransmitter, listener, last>>
  BY DEF NotifyEnd
<1>2. AtHand(worker[r], r)
  BY WorkerFields DEF Types
<1>3. worker[r].at = None /\ Fits(r, ToAnswer(r)) /\ ToAnswer(r) \in Pcs
  BY <1>1, <1>2 DEF Fits, Pcs, AtHand, ToAnswer
<1>4. WorkersType' /\ Moved(r, [worker[r] EXCEPT !.pc = ToAnswer(r)])
  BY <1>1, <1>3, Going DEF Types
<1>5. NotesType' /\ RelationsType' /\ RestType'
  BY <1>1 DEF Types, NotesType, RelationsType, RestType
<1>6. QED  BY <1>1, <1>3, <1>4, <1>5 DEF Types

\* A worker that answers goes through the steps of the layers.
LEMMA AnsweringFits ==
  ASSUME Types, NEW r \in Requests, Answering(r)
  PROVE  Fits(r, "register") /\ Fits(r, "message") /\ Fits(r, "send")
BY WorkerFields DEF Types, AtHand, Answering, Fits

\* ObserveTest: the way to register, or past it.
LEMMA ObserveTestStep ==
  ASSUME Types, NEW r \in Requests, ObserveTest(r)
  PROVE  /\ Types' /\ worker[r].pc = "observe"
         /\ Moved(r, [worker[r] EXCEPT !.pc = IF relations[Subject(r).client] # None THEN "register" ELSE "message"])
         /\ UNCHANGED <<resource, relations, resourceSet, notes, response, retransmitter, last>>
<1> DEFINE pc == IF relations[Subject(r).client] # None THEN "register" ELSE "message"
<1>1. /\ worker[r].pc = "observe" /\ Goto(r, pc)
      /\ UNCHANGED <<resource, relations, resourceSet, notes, response, retransmitter, listener, last>>
  BY DEF ObserveTest
<1>2. Fits(r, pc) /\ pc \in Pcs
  BY <1>1, AnsweringFits DEF Answering, Pcs
<1> HIDE DEF pc
<1>3. WorkersType' /\ Moved(r, [worker[r] EXCEPT !.pc = pc])
  BY <1>1, <1>2, Going DEF Types
<1>4. NotesType' /\ RelationsType' /\ RestType'
  BY <1>1 DEF Types, NotesType, RelationsType, RestType, resource
<1>5. QED  BY <1>1, <1>3, <1>4 DEF Types, pc

\* ObserveRegister: the count of now in the note, or an entry that is gone.
LEMMA ObserveRegisterStep ==
  ASSUME Types, HasResponse, NEW r \in Requests, ObserveRegister(r)
  PROVE  LET t == Subject(r) IN
         /\ Types' /\ worker[r].pc = "register" /\ t \in Observes /\ response[t] # 0
         /\ UNCHANGED <<resource, resourceSet, response, retransmitter, last>>
         /\ \/ /\ relations[t.client] = None /\ Moved(r, DeadWorker) /\ UNCHANGED <<relations, notes>>
            \/ /\ relations[t.client] # None /\ Moved(r, [worker[r] EXCEPT !.pc = "message"])
               /\ Replaced(t, response[t], [Current(t) EXCEPT !.observe = observeCount])
               /\ relations'[t.client] = t
               /\ \A c \in Clients : c # t.client => relations'[c] = relations[c]
<1> DEFINE t == Subject(r)
           e == [Current(t) EXCEPT !.observe = observeCount]
<1>1. /\ worker[r].pc = "register"
      /\ UNCHANGED <<payload, observeCount, changed, resourceSet, response, retransmitter, listener, last>>
  BY DEF ObserveRegister, Die
<1>2. t \in Observes /\ t.client \in Clients /\ response[t] # 0 /\ t # None
  BY <1>1, SubjectType, Basics DEF Answering, HasResponse
<1>3. response[t] \in 1..Len(notes[t]) /\ e \in NoteType
  BY <1>2, CurrentType
<1>4. RestType'
  BY <1>1 DEF Types, RestType
<1>5. CASE relations[t.client] = None /\ Die(r) /\ UNCHANGED <<relations, notes>>
  <2>1. WorkersType' /\ Moved(r, DeadWorker)
    BY <1>5, Dying DEF Types, Die
  <2>2. NotesType' /\ RelationsType'
    BY <1>1, <1>5 DEF Types, NotesType, RelationsType
  <2>3. QED  BY <1>1, <1>2, <1>4, <1>5, <2>1, <2>2 DEF Types, resource
<1>6. CASE /\ relations[t.client] # None /\ Goto(r, "message")
           /\ notes' = [notes EXCEPT ![t][response[t]].observe = observeCount]
           /\ relations' = [relations EXCEPT ![t.client] = t]
  <2>1. Fits(r, "message") /\ "message" \in Pcs
    BY <1>1, AnsweringFits DEF Answering, Pcs
  <2>2. WorkersType' /\ Moved(r, [worker[r] EXCEPT !.pc = "message"])
    BY <1>6, <2>1, Going DEF Types
  <2>3. notes' = [notes EXCEPT ![t][response[t]] = e]
    BY <1>6 DEF Current
  <2>4. Replaced(t, response[t], e)
    BY <1>2, <1>3, <2>3, Replacing
  <2>5. NotesType'
    BY <1>1, <2>4 DEF Types, NotesType, Replaced
  <2>6. /\ RelationsType' /\ relations'[t.client] = t
        /\ \A c \in Clients : c # t.client => relations'[c] = relations[c]
    BY <1>2, <1>6 DEF Types, RelationsType
  <2>7. QED  BY <1>1, <1>2, <1>4, <1>6, <2>2, <2>4, <2>5, <2>6 DEF Types, resource
<1>7. QED  BY <1>5, <1>6 DEF ObserveRegister

\* SendMessage: the note gets its type and mid.
LEMMA SendMessageStep ==
  ASSUME Types, HasResponse, NEW r \in Requests, SendMessage(r)
  PROVE  LET t == Subject(r) IN
         /\ Types' /\ worker[r].pc = "message" /\ t \in Observes /\ response[t] # 0
         /\ Moved(r, [worker[r] EXCEPT !.pc = "send"]) /\ Replaced(t, response[t], Message(t))
         /\ UNCHANGED <<resource, relations, resourceSet, response, retransmitter, last>>
<1> DEFINE t == Subject(r)
<1>1. /\ worker[r].pc = "message" /\ Goto(r, "send")
      /\ notes' = [notes EXCEPT ![t][response[t]] = Message(t)]
      /\ UNCHANGED <<resource, relations, resourceSet, response, retransmitter, listener, last>>
  BY DEF SendMessage
<1>2. t \in Observes /\ response[t] # 0
  BY <1>1, SubjectType DEF Answering, HasResponse
<1>3. response[t] \in 1..Len(notes[t]) /\ Message(t) \in NoteType
  BY <1>2, CurrentType
<1>4. Replaced(t, response[t], Message(t))
  BY <1>1, <1>2, <1>3, Replacing
<1>5. Fits(r, "send") /\ "send" \in Pcs
  BY <1>1, AnsweringFits DEF Answering, Pcs
<1>6. WorkersType' /\ Moved(r, [worker[r] EXCEPT !.pc = "send"])
  BY <1>1, <1>5, Going DEF Types
<1>7. NotesType'
  BY <1>1, <1>4 DEF Types, NotesType, Replaced
<1>8. RelationsType' /\ RestType'
  BY <1>1 DEF Types, RelationsType, RestType, resource
<1>9. QED  BY <1>1, <1>2, <1>4, <1>6, <1>7, <1>8 DEF Types

\* What a client has when note n of t has come.
Received(t, n) ==
  /\ last'[t.client] = [observe |-> notes[t][n].observe, payload |-> notes[t][n].payload]
  /\ \A c \in Clients : c # t.client => last'[c] = last[c]

\* SendDatagram: a note with a mid is sent, and a thread may be started for it.
LEMMA SendDatagramStep ==
  ASSUME Types, HasResponse, NEW r \in Requests, SendDatagram(r)
  PROVE  LET t == Subject(r) IN
         /\ Types' /\ worker[r].pc = "send" /\ t \in Observes /\ response[t] # 0
         /\ Moved(r, [worker[r] EXCEPT !.pc = IF worker[r].at = None THEN "done" ELSE "collect", !.at = None])
         /\ UNCHANGED <<resource, relations, resourceSet, response>>
         /\ IF Current(t).mid
            THEN Replaced(t, response[t], [Current(t) EXCEPT !.sent = TRUE]) /\ Received(t, response[t])
            ELSE UNCHANGED <<notes, last>>
         /\ \A x \in Retransmitters : retransmitter'[x].pc # "new" =>
              retransmitter[x].pc # "new" \/ (x[1] = t /\ x[2] = response[t])
<1> DEFINE t == Subject(r)
           n == response[t]
           e == [Current(t) EXCEPT !.sent = TRUE]
           x == <<t, n, IF worker[r].at = None THEN "answered" ELSE "notified">>
           w == [worker[r] EXCEPT !.pc = IF worker[r].at = None THEN "done" ELSE "collect", !.at = None]
           now == [observe |-> notes[t][n].observe, payload |-> notes[t][n].payload]
<1>1. /\ worker[r].pc = "send" /\ worker' = [worker EXCEPT ![r] = w]
      /\ retransmitter' = retransmitter \/ retransmitter' = [retransmitter EXCEPT ![x].pc = "ready"]
      /\ Send(t, n)
      /\ UNCHANGED <<resource, relations, resourceSet, response, listener>>
  BY DEF SendDatagram
<1>2. t \in Observes /\ t.client \in Clients /\ response[t] # 0
  BY <1>1, SubjectType DEF Answering, HasResponse
<1>3. n \in 1..Len(notes[t]) /\ e \in NoteType /\ Current(t) \in NoteType /\ Current(t) = notes[t][n]
  BY <1>2, CurrentType DEF Current
<1>4. worker[r] \in WorkerType /\ AtHand(worker[r], r)
  BY WorkerFields DEF Types
<1>5. w \in WorkerType /\ AtHand(w, r)
  <2>1. w \in WorkerType
    BY <1>4 DEF WorkerType, Pcs
  <2>2. /\ w.pc \in {"done", "collect"} /\ w.at = None /\ w.keys = {} /\ w.todo = worker[r].todo
        /\ None \notin w.todo /\ (w.todo # {} => w.pc = "collect")
    BY <1>1, <1>4, Basics DEF WorkerType, AtHand
  <2> HIDE DEF w
  <2>3. QED  BY <2>1, <2>2 DEF AtHand
<1> HIDE DEF w
<1>6. WorkersType' /\ Moved(r, w)
  BY <1>1, <1>5, Moving DEF Types
<1>7. /\ retransmitter' \in [Retransmitters -> [pc : RetransmitterPcs, count : Nat]]
      /\ \A y \in Retransmitters : y # x => retransmitter'[y] = retransmitter[y]
  <2>1. retransmitter \in [Retransmitters -> [pc : RetransmitterPcs, count : Nat]]
    BY DEF Types, RestType
  <2> HIDE DEF x
  <2>2. CASE retransmitter' = retransmitter
    BY <2>1, <2>2
  <2>3. CASE retransmitter' = [retransmitter EXCEPT ![x].pc = "ready"]
    BY <2>1, <2>3 DEF RetransmitterPcs
  <2>4. QED  BY <1>1, <2>2, <2>3
<1>8. \A y \in Retransmitters : retransmitter'[y].pc # "new" =>
        retransmitter[y].pc # "new" \/ (y[1] = t /\ y[2] = n)
  BY <1>7
<1> HIDE DEF x
<1>9. now \in [observe : Nat, payload : Payloads]
  BY <1>3 DEF NoteType
<1>10. RelationsType'
  BY <1>1 DEF Types, RelationsType
<1>11. CASE Current(t).mid
  <2>1. notes' = [notes EXCEPT ![t][n] = e] /\ last' = [last EXCEPT ![t.client] = now]
    BY <1>1, <1>3, <1>11 DEF Send
  <2>2. Replaced(t, n, e)
    BY <1>2, <1>3, <2>1, Replacing
  <2>3. Received(t, n)
    BY <1>2, <2>1 DEF Received, Types, RestType
  <2> HIDE DEF now
  <2>4. last' \in [Clients -> [observe : Nat, payload : Payloads]]
    BY <1>9, <2>1 DEF Types, RestType
  <2>5. RestType'
    BY <1>1, <1>7, <2>4 DEF Types, RestType, resource
  <2>6. NotesType'
    BY <1>1, <2>2 DEF Types, NotesType, Replaced
  <2>7. QED  BY <1>1, <1>2, <1>6, <1>8, <1>10, <1>11, <2>2, <2>3, <2>5, <2>6 DEF Types, w
<1>12. CASE ~Current(t).mid
  <2>1. UNCHANGED <<notes, last>>
    BY <1>1, <1>3, <1>12 DEF Send
  <2>2. NotesType' /\ RestType'
    BY <1>1, <1>7, <2>1 DEF Types, NotesType, RestType, resource
  <2>3. QED  BY <1>1, <1>2, <1>6, <1>8, <1>10, <1>12, <2>1, <2>2 DEF Types, w
<1>13. QED  BY <1>11, <1>12

-----------------------------------------------------------------------------
(* One worker at a time, with a response at hand.                          *)

\* Notes stay sent, and get no token back.
Grown ==
  \A t \in Observes :
    /\ Len(notes[t]) <= Len(notes'[t])
    /\ \A m \in 1..Len(notes[t]) : /\ notes[t][m].sent => notes'[t][m].sent
                                   /\ notes'[t][m].token => notes[t][m].token

\* Lengths and numbers of notes.
LEMMA LenType ==
  ASSUME Types, NEW t \in Observes
  PROVE  Len(notes[t]) \in Nat /\ notes[t] \in Seq(NoteType) /\ response[t] \in Nat
BY DEF Types, NotesType

\* A new note lets the others be.
LEMMA MadeGrows ==
  ASSUME Types, NEW t \in Observes, Made(t)
  PROVE  Grown
<1> SUFFICES ASSUME NEW u \in Observes, NEW m \in 1..Len(notes[u])
             PROVE  /\ Len(notes[u]) <= Len(notes'[u])
                    /\ notes[u][m].sent => notes'[u][m].sent
                    /\ notes'[u][m].token => notes[u][m].token
  <2>1. \A u \in Observes : Len(notes[u]) \in Nat  BY LenType
  <2>2. \A u \in Observes : Len(notes[u]) <= Len(notes'[u])
    <3>1. \A u \in Observes : u # t => notes'[u] = notes[u]  BY DEF Made
    <3>2. Len(notes'[t]) = Len(notes[t]) + 1  BY DEF Made
    <3>3. QED  BY <2>1, <3>1, <3>2
  <2>3. QED  BY <2>2 DEF Grown
<1>1. Len(notes[u]) \in Nat  BY LenType
<1>2. notes'[u][m] = notes[u][m]  BY DEF Made
<1>3. Len(notes[u]) <= Len(notes'[u])
  <2>1. CASE u = t  BY <1>1, <2>1 DEF Made
  <2>2. CASE u # t  BY <1>1, <2>2 DEF Made
  <2>3. QED  BY <2>1, <2>2
<1>4. QED  BY <1>2, <1>3

\* Notes that are kept stay sent.
LEMMA KeptGrows ==
  ASSUME Types, Kept
  PROVE  Grown
BY LenType DEF Kept, Grown, SameNote

\* So do they when one is replaced that stays sent, without a token if it had none.
LEMMA ReplacedGrows ==
  ASSUME Types, NEW t \in Observes, NEW n \in Nat, NEW e, Replaced(t, n, e),
         notes[t][n].sent => e.sent, e.token => notes[t][n].token
  PROVE  Grown
BY LenType DEF Replaced, Grown

\* A thread that is not new keeps its note.
LEMMA ThreadsStay ==
  ASSUME Types, Types', ThreadsOfNotes, Grown,
         \A x \in Retransmitters : retransmitter'[x].pc # "new" => retransmitter[x].pc # "new"
  PROVE  ThreadsOfNotes'
<1> SUFFICES ASSUME NEW x \in Retransmitters, retransmitter'[x].pc # "new"
             PROVE  x[2] \in 1..Len(notes'[x[1]])
  BY DEF ThreadsOfNotes
<1>1. x[1] \in Observes /\ x[2] \in 1..Len(notes[x[1]])
  BY RetransmitterType DEF ThreadsOfNotes
<1>2. Len(notes[x[1]]) \in Nat /\ Len(notes[x[1]]) <= Len(notes'[x[1]])
  BY <1>1, LenType DEF Grown
<1>3. Len(notes'[x[1]]) \in Nat
  BY <1>1 DEF Types, NotesType
<1>4. QED  BY <1>1, <1>2, <1>3

\* Only the worker that moves is active.
Only(r) == \A q \in Requests : Active(q) => q = r
\* The worker that moves is still the only one.
LEMMA OneMoves ==
  ASSUME Alone, NEW r \in Requests, NEW w, Moved(r, w), Only(r)
  PROVE  Alone' /\ Only(r)'
BY DEF Alone, Only, Moved, Active

\* Under Alone, an active worker is the only one.
LEMMA ActiveIsOnly ==
  ASSUME Alone, NEW r \in Requests, Active(r)
  PROVE  Only(r)
BY DEF Alone, Only

\* A worker that leaves a step of handling is active.
LEMMA AtStep ==
  ASSUME NEW r \in Requests, worker[r].pc \notin {"new", "done", "dead"}
  PROVE  Active(r)
BY DEF Active

\* HasResponse for the one worker that is active.
LEMMA HasResponseOf ==
  ASSUME NEW r \in Requests, Only(r)',
         Answering(r)' => (response[Subject(r)] # 0)',
         (/\ r \in Observes /\ Active(r) /\ worker[r].pc \notin {"request", "put"}
          /\ ~(worker[r].pc = "get" /\ worker[r].at = r))' => response'[r] # 0
  PROVE  HasResponse'
<1>1. ASSUME NEW q \in Requests, q # r  PROVE ~Active(q)' /\ ~Answering(q)'
  BY <1>1 DEF Only, Active, Answering
<1>2. QED  BY <1>1 DEF HasResponse

\* The worker's new fields.
LEMMA NewPc ==
  ASSUME Types, NEW r \in Requests, NEW pc \in Pcs, Moved(r, [worker[r] EXCEPT !.pc = pc])
  PROVE  /\ worker'[r].pc = pc /\ worker'[r].at = worker[r].at
         /\ worker'[r].todo = worker[r].todo /\ worker'[r].keys = worker[r].keys
BY WorkerFields DEF Moved, WorkerType, Types

\* A response that was at hand is still.
LEMMA HasResponseStays ==
  ASSUME Types, HasResponse, NEW r \in Requests, Active(r), worker[r].pc \notin {"request", "put"}, Only(r)',
         UNCHANGED response, worker'[r].at = worker[r].at, worker[r].pc # "get",
         Answering(r)' => Answering(r) \/ (r \in Observes /\ worker[r].at = None)
  PROVE  HasResponse'
<1>1. r \in Observes => response[r] # 0
  BY DEF HasResponse
<1>2. Answering(r)' => response'[Subject(r)'] # 0
  <2>1. CASE Answering(r)
    BY <2>1 DEF HasResponse, Subject
  <2>2. CASE r \in Observes /\ worker[r].at = None
    BY <1>1, <2>2 DEF Subject
  <2>3. QED  BY <2>1, <2>2
<1>3. QED  BY <1>1, <1>2, HasResponseOf

\* Steps of the other threads keep Base.
LEMMA BaseQuiet ==
  ASSUME Base, Types', Quiet \/ \E x \in Retransmitters : Resent(x), Grown,
         \A x \in Retransmitters : retransmitter'[x].pc # "new" => retransmitter[x].pc # "new"
  PROVE  Base'
<1>1. worker' = worker /\ response' = response
  BY DEF Quiet, Kept, Resent
<1>2. Alone' /\ HasResponse'
  BY <1>1 DEF Base, Alone, HasResponse, Active, Answering, Subject
<1>3. QED  BY <1>2, ThreadsStay DEF Base

\* The handling of a request keeps Base; Begin does because requests come one by one.
LEMMA BaseHandle ==
  ASSUME Base, NEW r \in Requests, Serial, Begin(r) \/ HandleRequest(r) \/ HandlePut(r) \/ TestChanged(r)
  PROVE  Base' /\ Grown /\ Only(r)'
<1> USE DEF Base
<1>0. HandleRequest(r) \/ HandlePut(r) \/ TestChanged(r) => Active(r)
  BY DEF Active, HandleRequest, HandlePut, TestChanged
<1>1. CASE Begin(r)
  <2>1. /\ Types' /\ Moved(r, [worker[r] EXCEPT !.pc = "request"]) /\ UNCHANGED <<notes, response, retransmitter>>
    BY <1>1, BeginStep
  <2>2. Only(r)
    BY <1>1 DEF Begin, Only
  <2>3. Alone' /\ Only(r)'
    BY <2>1, <2>2, OneMoves
  <2>4. worker'[r].pc = "request"
    BY <2>1, NewPc DEF Pcs
  <2>5. HasResponse'
    BY <2>3, <2>4, HasResponseOf DEF Answering
  <2>6. Grown
    BY <2>1, KeptAsIs, KeptGrows
  <2>7. QED  BY <2>1, <2>3, <2>5, <2>6, ThreadsStay
<1>2. CASE HandleRequest(r) /\ r.op = "observe"
  <2>1. /\ Types' /\ worker[r].pc = "request" /\ Moved(r, [worker[r] EXCEPT !.pc = "changed"])
        /\ r \in Observes /\ Made(r) /\ UNCHANGED retransmitter
    BY <1>2, HandleObserveStep
  <2>2. Alone' /\ Only(r)'
    BY <1>0, <1>2, <2>1, ActiveIsOnly, OneMoves
  <2>3. worker'[r].pc = "changed"
    BY <2>1, NewPc DEF Pcs
  <2>4. response'[r] # 0
    BY <2>1, LenType DEF Made
  <2>5. HasResponse'
    BY <2>2, <2>3, <2>4, HasResponseOf DEF Answering
  <2>6. Grown
    BY <2>1, MadeGrows
  <2>7. QED  BY <2>1, <2>2, <2>5, <2>6, ThreadsStay
<1>3. CASE HandleRequest(r) /\ r.op # "observe"
  <2>1. /\ Types' /\ worker[r].pc = "request" /\ r \notin Observes
        /\ \E pc \in {"changed", "put"} : Moved(r, [worker[r] EXCEPT !.pc = pc])
        /\ UNCHANGED <<notes, response, retransmitter>>
    BY <1>3, HandleOtherStep
  <2>2. PICK pc \in {"changed", "put"} : Moved(r, [worker[r] EXCEPT !.pc = pc])
    BY <2>1
  <2>3. Alone' /\ Only(r)'
    BY <1>0, <1>3, <2>2, ActiveIsOnly, OneMoves
  <2>4. worker'[r].pc = pc
    BY <2>2, NewPc DEF Pcs
  <2>5. HasResponse'
    BY <2>1, <2>3, <2>4, HasResponseOf DEF Answering
  <2>6. Grown
    BY <2>1, KeptAsIs, KeptGrows
  <2>7. QED  BY <2>1, <2>3, <2>5, <2>6, ThreadsStay
<1>4. CASE HandlePut(r)
  <2>1. /\ Types' /\ worker[r].pc = "put" /\ r \in Puts /\ Moved(r, [worker[r] EXCEPT !.pc = "changed"])
        /\ UNCHANGED <<notes, response, retransmitter>>
    BY <1>4, HandlePutStep
  <2>2. Alone' /\ Only(r)'
    BY <1>0, <1>4, <2>1, ActiveIsOnly, OneMoves
  <2>3. worker'[r].pc = "changed" /\ r \notin Observes
    BY <2>1, NewPc DEF Pcs, Puts, Observes
  <2>4. HasResponse'
    BY <2>2, <2>3, HasResponseOf DEF Answering
  <2>5. Grown
    BY <2>1, KeptAsIs, KeptGrows
  <2>6. QED  BY <2>1, <2>2, <2>4, <2>5, ThreadsStay
<1>5. CASE TestChanged(r)
  <2> DEFINE w == IF changed THEN [worker[r] EXCEPT !.pc = "collect", !.keys = {c \in Clients : relations[c] # None}]
                  ELSE [worker[r] EXCEPT !.pc = ToAnswer(r), !.keys = {}]
  <2>1. /\ Types' /\ worker[r].pc = "changed" /\ worker[r].at = None /\ Moved(r, w)
        /\ UNCHANGED <<notes, response, retransmitter>>
    BY <1>5, TestChangedStep
  <2>2. w.pc \in {"collect", ToAnswer(r)} /\ w.at = None
    BY <2>1, WorkerFields DEF WorkerType, Types
  <2> HIDE DEF w
  <2>3. Alone' /\ Only(r)'
    BY <1>0, <1>5, <2>1, ActiveIsOnly, OneMoves
  <2>4. worker'[r].pc \in {"collect", ToAnswer(r)} /\ worker'[r].at = None
    BY <2>1, <2>2 DEF Moved
  <2>5. Answering(r)' => r \in Observes
    BY <2>4 DEF Answering, ToAnswer
  <2>6. HasResponse'
    BY <1>0, <1>5, <2>1, <2>3, <2>4, <2>5, HasResponseStays
  <2>7. Grown
    BY <2>1, KeptAsIs, KeptGrows
  <2>8. QED  BY <2>1, <2>3, <2>6, <2>7, ThreadsStay
<1>6. QED  BY <1>1, <1>2, <1>3, <1>4, <1>5

\* The steps of notify() keep Base.
LEMMA BaseNotify ==
  ASSUME Base, NEW r \in Requests,
         Collect(r) \/ NotifyGet(r) \/ NotifyEnd(r) \/ \E t \in Observes : NotifyNext(r, t)
  PROVE  Base' /\ Grown /\ Only(r)'
<1> USE DEF Base
<1>0. Active(r) /\ Only(r)
  <2>1. Active(r)
    BY DEF Active, Collect, NotifyGet, NotifyEnd, NotifyNext
  <2>2. QED  BY <2>1, ActiveIsOnly
<1>1. CASE Collect(r)
  <2>1. /\ Types' /\ worker[r].pc = "collect" /\ worker[r].at = None /\ UNCHANGED <<response, retransmitter>>
        /\ \E w \in WorkerType : Moved(r, w) /\ w.pc \in {"collect", "dead"} /\ w.at = None
        /\ UNCHANGED notes \/ \E t \in Observes : response[t] # 0 /\ Replaced(t, response[t], Stripped(Current(t)))
    <3>1. worker[r] \in WorkerType
      BY WorkerFields DEF Types
    <3>2. \A c \in worker[r].keys : relations[c] \in Observes \cup {None}
      BY <3>1 DEF WorkerType, Types, RelationsType
    <3>3. DeadWorker \in WorkerType /\ DeadWorker.pc = "dead" /\ DeadWorker.at = None
      BY DEF DeadWorker, WorkerType, Pcs
    <3>4. /\ Types' /\ worker[r].pc = "collect" /\ worker[r].at = None /\ UNCHANGED <<response, retransmitter>>
          /\ \/ \E c \in worker[r].keys :
                 /\ UNCHANGED notes
                 /\ Moved(r, [worker[r] EXCEPT !.keys = @ \ {c}])
             \/ \E c \in worker[r].keys :
                 /\ relations[c] \in resourceSet /\ response[relations[c]] # 0
                 /\ Replaced(relations[c], response[relations[c]], Stripped(Current(relations[c])))
                 /\ Moved(r, [worker[r] EXCEPT !.keys = @ \ {c}, !.todo = @ \cup {relations[c]}])
             \/ UNCHANGED notes /\ Moved(r, DeadWorker)
      BY <1>1, CollectStep
    <3>5. CASE \E c \in worker[r].keys :
                 /\ UNCHANGED notes
                 /\ Moved(r, [worker[r] EXCEPT !.keys = @ \ {c}])
      <4>1. PICK c \in worker[r].keys : Moved(r, [worker[r] EXCEPT !.keys = @ \ {c}])
        BY <3>5
      <4> DEFINE w == [worker[r] EXCEPT !.keys = @ \ {c}]
      <4>2. w \in WorkerType /\ w.pc = "collect" /\ w.at = None
        BY <3>1, <3>4 DEF WorkerType
      <4>3. QED  BY <3>4, <3>5, <4>1, <4>2
    <3>6. CASE \E c \in worker[r].keys :
                 /\ relations[c] \in resourceSet /\ response[relations[c]] # 0
                 /\ Replaced(relations[c], response[relations[c]], Stripped(Current(relations[c])))
                 /\ Moved(r, [worker[r] EXCEPT !.keys = @ \ {c}, !.todo = @ \cup {relations[c]}])
      <4>1. PICK c \in worker[r].keys :
                 /\ relations[c] \in resourceSet /\ response[relations[c]] # 0
                 /\ Replaced(relations[c], response[relations[c]], Stripped(Current(relations[c])))
                 /\ Moved(r, [worker[r] EXCEPT !.keys = @ \ {c}, !.todo = @ \cup {relations[c]}])
        BY <3>6
      <4> DEFINE w == [worker[r] EXCEPT !.keys = @ \ {c}, !.todo = @ \cup {relations[c]}]
      <4>2. relations[c] \in Observes
        BY <4>1 DEF Types, RestType
      <4>3. w \in WorkerType /\ w.pc = "collect" /\ w.at = None
        BY <3>1, <3>4, <4>2 DEF WorkerType
      <4>4. QED  BY <3>4, <4>1, <4>2, <4>3
    <3>7. QED  BY <3>3, <3>4, <3>5, <3>6
  <2>2. PICK w \in WorkerType : Moved(r, w) /\ w.pc \in {"collect", "dead"} /\ w.at = None
    BY <2>1
  <2>3. Alone' /\ Only(r)'
    BY <1>0, <2>2, OneMoves
  <2>4. worker'[r].pc \in {"collect", "dead"} /\ worker'[r].at = None
    BY <2>2 DEF Moved
  <2>5. HasResponse'
    BY <1>0, <2>1, <2>3, <2>4, HasResponseStays DEF Answering
  <2>6. Grown
    <3>1. CASE UNCHANGED notes
      BY <2>1, <3>1, KeptAsIs, KeptGrows
    <3>2. CASE \E t \in Observes : response[t] # 0 /\ Replaced(t, response[t], Stripped(Current(t)))
      <4>1. PICK t \in Observes : response[t] # 0 /\ Replaced(t, response[t], Stripped(Current(t)))
        BY <3>2
      <4>2. Current(t) \in NoteType
        BY <4>1, CurrentType
      <4>3. Stripped(Current(t)).sent = Current(t).sent /\ ~Stripped(Current(t)).token
        BY <4>2 DEF Stripped, NoteType
      <4>4. response[t] \in Nat
        BY LenType
      <4> DEFINE e == Stripped(Current(t))
      <4>5. (notes[t][response[t]].sent => e.sent) /\ (e.token => notes[t][response[t]].token)
        BY <4>3 DEF Current
      <4> HIDE DEF e
      <4>6. Replaced(t, response[t], e)
        BY <4>1 DEF e
      <4>7. QED  BY <4>4, <4>5, <4>6, ReplacedGrows
    <3>3. QED  BY <2>1, <3>1, <3>2
  <2>7. QED  BY <2>1, <2>3, <2>5, <2>6, ThreadsStay
<1>2. ASSUME NEW t \in Observes, NotifyNext(r, t)  PROVE Base' /\ Grown /\ Only(r)'
  <2> DEFINE w == [worker[r] EXCEPT !.pc = "get", !.at = t, !.todo = @ \ {t}]
  <2>1. /\ Types' /\ worker[r].pc = "collect" /\ worker[r].at = None /\ Moved(r, w)
        /\ response'[t] = 0 /\ \A u \in Observes : u # t => response'[u] = response[u]
        /\ UNCHANGED <<notes, retransmitter>>
    BY <1>2, NotifyNextStep
  <2>2. w.pc = "get" /\ w.at = t
    BY WorkerFields DEF WorkerType, Types
  <2> HIDE DEF w
  <2>3. Alone' /\ Only(r)'
    BY <1>0, <2>1, OneMoves
  <2>4. worker'[r].pc = "get" /\ worker'[r].at = t
    BY <2>1, <2>2 DEF Moved
  <2>5. r \in Observes => response[r] # 0
    BY <1>0, <2>1 DEF HasResponse
  <2>6. HasResponse'
    BY <2>1, <2>3, <2>4, <2>5, HasResponseOf DEF Answering
  <2>7. Grown
    BY <2>1, LenType DEF Grown
  <2>8. QED  BY <2>1, <2>3, <2>6, <2>7, ThreadsStay
<1>3. CASE NotifyGet(r)
  <2> DEFINE t == worker[r].at
  <2>1. /\ Types' /\ worker[r].pc = "get" /\ t \in Observes /\ t # None /\ Moved(r, [worker[r] EXCEPT !.pc = "observe"])
        /\ Made(t) /\ UNCHANGED retransmitter
    BY <1>3, NotifyGetStep, Basics
  <2>2. Alone' /\ Only(r)'
    BY <1>0, <2>1, OneMoves
  <2>3. worker'[r].pc = "observe" /\ worker'[r].at = t
    BY <2>1, NewPc DEF Pcs
  <2>4. response'[t] # 0 /\ \A u \in Observes : u # t => response'[u] = response[u]
    BY <2>1, LenType DEF Made
  <2>5. r \in Observes /\ r # t => response[r] # 0
    BY <1>0, <2>1 DEF HasResponse
  <2>6. HasResponse'
    BY <2>1, <2>2, <2>3, <2>4, <2>5, HasResponseOf DEF Subject
  <2>7. Grown
    BY <2>1, MadeGrows
  <2>8. QED  BY <2>1, <2>2, <2>6, <2>7, ThreadsStay
<1>4. CASE NotifyEnd(r)
  <2>1. /\ Types' /\ worker[r].pc = "collect" /\ worker[r].at = None /\ Moved(r, [worker[r] EXCEPT !.pc = ToAnswer(r)])
        /\ UNCHANGED <<notes, response, retransmitter>>
    BY <1>4, NotifyEndStep
  <2>2. Alone' /\ Only(r)'
    BY <1>0, <2>1, OneMoves
  <2>3. worker'[r].pc = ToAnswer(r) /\ worker'[r].at = None
    BY <2>1, NewPc DEF Pcs, ToAnswer
  <2>4. Answering(r)' => r \in Observes
    BY <2>3 DEF Answering, ToAnswer
  <2>5. HasResponse'
    BY <1>0, <2>1, <2>2, <2>3, <2>4, HasResponseStays
  <2>6. Grown
    BY <2>1, KeptAsIs, KeptGrows
  <2>7. QED  BY <2>1, <2>2, <2>5, <2>6, ThreadsStay
<1>5. QED  BY <1>1, <1>2, <1>3, <1>4

\* The steps of an answer or a notification keep Base.
LEMMA BaseAnswer ==
  ASSUME Base, NEW r \in Requests,
         ObserveTest(r) \/ ObserveRegister(r) \/ SendMessage(r) \/ SendDatagram(r)
  PROVE  Base' /\ Grown /\ Only(r)'
<1> USE DEF Base
<1>0. Active(r) /\ Only(r) /\ Answering(r)
  <2>1. Active(r) /\ Answering(r)
    BY DEF Active, Answering, ObserveTest, ObserveRegister, SendMessage, SendDatagram
  <2>2. QED  BY <2>1, ActiveIsOnly
<1> DEFINE t == Subject(r)
<1>1. CASE ObserveTest(r)
  <2> DEFINE pc == IF relations[t.client] # None THEN "register" ELSE "message"
  <2>1. /\ Types' /\ worker[r].pc = "observe" /\ Moved(r, [worker[r] EXCEPT !.pc = pc])
        /\ UNCHANGED <<notes, response, retransmitter>>
    BY <1>1, ObserveTestStep
  <2>2. pc \in Pcs
    BY DEF Pcs
  <2> HIDE DEF pc
  <2>3. Alone' /\ Only(r)'
    BY <1>0, <2>1, OneMoves
  <2>4. worker'[r].at = worker[r].at
    BY <2>1, <2>2, NewPc
  <2>5. HasResponse'
    BY <1>0, <2>1, <2>3, <2>4, HasResponseStays
  <2>6. Grown
    BY <2>1, KeptAsIs, KeptGrows
  <2>7. QED  BY <2>1, <2>3, <2>5, <2>6, ThreadsStay
<1>2. CASE ObserveRegister(r)
  <2> DEFINE e == [Current(t) EXCEPT !.observe = observeCount]
  <2>1. /\ Types' /\ worker[r].pc = "register" /\ t \in Observes /\ response[t] # 0
        /\ UNCHANGED <<response, retransmitter>>
        /\ \/ Moved(r, DeadWorker) /\ UNCHANGED notes
           \/ Moved(r, [worker[r] EXCEPT !.pc = "message"]) /\ Replaced(t, response[t], e)
    BY <1>2, ObserveRegisterStep
  <2>2. Alone' /\ Only(r)'
    BY <1>0, <2>1, OneMoves
  <2>3. HasResponse'
    <3>1. CASE Moved(r, DeadWorker)
      <4>1. worker'[r].pc = "dead"
        BY <3>1 DEF Moved, DeadWorker
      <4>2. QED  BY <2>2, <4>1, HasResponseOf DEF Answering, Active
    <3>2. CASE Moved(r, [worker[r] EXCEPT !.pc = "message"])
      <4>1. worker'[r].at = worker[r].at
        BY <3>2, NewPc DEF Pcs
      <4>2. QED  BY <1>0, <2>1, <2>2, <4>1, HasResponseStays
    <3>3. QED  BY <2>1, <3>1, <3>2
  <2>4. Current(t) \in NoteType /\ response[t] \in Nat
    BY <2>1, CurrentType, LenType
  <2>5. e.sent = notes[t][response[t]].sent /\ e.token = notes[t][response[t]].token
    BY <2>4 DEF NoteType, Current
  <2> HIDE DEF e
  <2>6. Grown
    BY <2>1, <2>4, <2>5, KeptAsIs, KeptGrows, ReplacedGrows
  <2>7. QED  BY <2>1, <2>2, <2>3, <2>6, ThreadsStay
<1>3. CASE SendMessage(r)
  <2>1. /\ Types' /\ worker[r].pc = "message" /\ t \in Observes /\ response[t] # 0
        /\ Moved(r, [worker[r] EXCEPT !.pc = "send"]) /\ Replaced(t, response[t], Message(t))
        /\ UNCHANGED <<response, retransmitter>>
    BY <1>3, SendMessageStep
  <2>2. Alone' /\ Only(r)'
    BY <1>0, <2>1, OneMoves
  <2>3. worker'[r].at = worker[r].at
    BY <2>1, NewPc DEF Pcs
  <2>4. HasResponse'
    BY <1>0, <2>1, <2>2, <2>3, HasResponseStays
  <2>5. Current(t) \in NoteType /\ response[t] \in Nat
    BY <2>1, CurrentType, LenType
  <2>6. Message(t).sent = notes[t][response[t]].sent /\ Message(t).token = notes[t][response[t]].token
    BY <2>5 DEF NoteType, Current, Message
  <2>7. Grown
    BY <2>1, <2>5, <2>6, ReplacedGrows
  <2>8. QED  BY <2>1, <2>2, <2>4, <2>7, ThreadsStay
<1>4. CASE SendDatagram(r)
  <2> DEFINE w == [worker[r] EXCEPT !.pc = IF worker[r].at = None THEN "done" ELSE "collect", !.at = None]
             e == [Current(t) EXCEPT !.sent = TRUE]
  <2>1. /\ Types' /\ worker[r].pc = "send" /\ t \in Observes /\ response[t] # 0
        /\ Moved(r, w) /\ UNCHANGED response
        /\ IF Current(t).mid THEN Replaced(t, response[t], e) ELSE UNCHANGED notes
        /\ \A x \in Retransmitters : retransmitter'[x].pc # "new" =>
             retransmitter[x].pc # "new" \/ (x[1] = t /\ x[2] = response[t])
    BY <1>4, SendDatagramStep
  <2>2. w.pc = (IF worker[r].at = None THEN "done" ELSE "collect") /\ w.at = None
    BY WorkerFields DEF WorkerType, Types
  <2> HIDE DEF w
  <2>3. Alone' /\ Only(r)'
    BY <1>0, <2>1, OneMoves
  <2>4. worker'[r].pc = (IF worker[r].at = None THEN "done" ELSE "collect")
    BY <2>1, <2>2 DEF Moved
  <2>5. r \in Observes => response[r] # 0
    BY <1>0, <2>1 DEF HasResponse
  <2>6. HasResponse'
    BY <2>1, <2>3, <2>4, <2>5, HasResponseOf DEF Answering
  <2>7. Current(t) \in NoteType /\ response[t] \in 1..Len(notes[t]) /\ Len(notes[t]) \in Nat
    BY <2>1, CurrentType, LenType
  <2>8. e.sent /\ e.token = notes[t][response[t]].token
    BY <2>7 DEF NoteType, Current
  <2> HIDE DEF e
  <2>9. Grown
    BY <2>1, <2>7, <2>8, KeptAsIs, KeptGrows, ReplacedGrows
  <2>10. ThreadsOfNotes'
    <3> SUFFICES ASSUME NEW x \in Retransmitters, retransmitter'[x].pc # "new"
                 PROVE  x[2] \in 1..Len(notes'[x[1]])
      BY DEF ThreadsOfNotes
    <3>1. x[1] \in Observes /\ x[2] \in 1..Len(notes[x[1]])
      BY <2>1, <2>7, RetransmitterType DEF ThreadsOfNotes
    <3>2. Len(notes[x[1]]) \in Nat /\ Len(notes[x[1]]) <= Len(notes'[x[1]])
      BY <2>9, <3>1, LenType DEF Grown
    <3>3. Len(notes'[x[1]]) \in Nat
      BY <2>1, <3>1 DEF Types, NotesType
    <3>4. QED  BY <3>1, <3>2, <3>3
  <2>11. QED  BY <2>1, <2>3, <2>6, <2>9, <2>10
<1>5. QED  BY <1>1, <1>2, <1>3, <1>4

\* A retransmission keeps Base.
LEMMA BaseOthers ==
  ASSUME Base, NEW x \in Retransmitters, RetransmitRound(x)
  PROVE  Base' /\ Grown /\ Resent(x)
<1> USE DEF Base
<1>1. /\ Resent(x) /\ Types'
      /\ UNCHANGED <<notes, last>> \/ Replaced(x[1], x[2], [NoteOf(x) EXCEPT !.sent = TRUE])
  BY RoundResends
<1>2. x[1] \in Observes /\ x[2] \in 1..Len(notes[x[1]]) /\ x[2] \in Nat
  BY RetransmitterType DEF RetransmitRound, ThreadsOfNotes
<1>3. NoteOf(x) \in NoteType
  BY <1>2, NoteFields DEF NoteOf
<1> DEFINE e == [NoteOf(x) EXCEPT !.sent = TRUE]
<1>4. e.sent /\ e.token = notes[x[1]][x[2]].token
  BY <1>3 DEF NoteType, NoteOf
<1> HIDE DEF e
<1>5. Grown
  <2>1. CASE UNCHANGED <<notes, last>>
    BY <1>1, <2>1, KeptAsIs, KeptGrows DEF Resent
  <2>2. CASE Replaced(x[1], x[2], e)
    BY <1>2, <1>4, <2>2, ReplacedGrows
  <2>3. QED  BY <1>1, <2>1, <2>2 DEF e
<1>6. \A y \in Retransmitters : retransmitter'[y].pc # "new" => retransmitter[y].pc # "new"
  BY <1>1 DEF Resent
<1>7. QED  BY <1>1, <1>5, <1>6, BaseQuiet

\* The threads besides the workers.
Others ==
  \/ \E x \in Retransmitters : Retransmit(x) \/ RetransmitSettled(x) \/ GiveUp(x) \/ RemoveSubscriber(x)
  \/ \E t \in Observes : SendAck(t)
  \/ \E t \in Observes, n \in 1..MaxNotes, type \in {"ACK", "RST"} : ReceiveEmpty(t, n, type)
  \/ ListenerWith

\* The marks and deletions of other threads keep Base.
LEMMA BaseOther ==
  ASSUME Base, Others \/ UNCHANGED vars
  PROVE  Base' /\ Grown /\ Quiet
<1> USE DEF Base
<1>1. Quiet /\ Types'
  <2>1. CASE UNCHANGED vars
    <3>1. Quiet
      BY <2>1, KeptAsIs DEF Quiet, vars, resource, Types, RelationsType
    <3>2. Types'
      BY <2>1 DEF vars, resource, Types, NotesType, RelationsType, RestType, WorkersType, AtHand
    <3>3. QED  BY <3>1, <3>2
  <2>2. QED  BY <2>1, RetransmitQuiet, RemoveQuiet, AckQuiet, EmptyQuiet, ListenerQuiet DEF Others
<1>2. Grown
  BY <1>1, KeptGrows DEF Quiet
<1>3. \A y \in Retransmitters : retransmitter'[y].pc # "new" => retransmitter[y].pc # "new"
  BY <1>1 DEF Quiet
<1>4. QED  BY <1>1, <1>2, <1>3, BaseQuiet

\* The actions, in these groups.
LEMMA Steps ==
  ASSUME [Next]_vars
  PROVE  \/ \E r \in Requests :
              \/ Begin(r) \/ HandleRequest(r) \/ HandlePut(r) \/ TestChanged(r)
              \/ Collect(r) \/ NotifyGet(r) \/ NotifyEnd(r) \/ \E t \in Observes : NotifyNext(r, t)
              \/ ObserveTest(r) \/ ObserveRegister(r) \/ SendMessage(r) \/ SendDatagram(r)
         \/ \E x \in Retransmitters : RetransmitRound(x)
         \/ Others \/ UNCHANGED vars
BY DEF Next, Work, Retransmission, Others

\* Base is inductive, and notes only grow.
LEMMA BaseStep ==
  ASSUME Base, Serial, [Next]_vars
  PROVE  Base' /\ Grown
BY Steps, BaseHandle, BaseNotify, BaseAnswer, BaseOthers, BaseOther

\* Base holds at first.
LEMMA BaseInit == Init => Base
<1> SUFFICES ASSUME Init PROVE Base
  OBVIOUS
<1>1. \A r \in Requests : worker[r] = [pc |-> "new", at |-> None, todo |-> {}, keys |-> {}]
  BY DEF Init
<1>2. \A r \in Requests : ~Active(r) /\ ~Answering(r)
  BY <1>1 DEF Active, Answering
<1>3. WorkersType
  <2>1. \A r \in Requests : worker[r] \in WorkerType /\ AtHand(worker[r], r)
    BY <1>1 DEF WorkerType, Pcs, AtHand
  <2>2. QED  BY <2>1 DEF Init, WorkersType
<1>4. \A x \in Retransmitters : retransmitter[x].pc = "new"
  BY DEF Init
<1>5. NotesType
  BY DEF Init, NotesType
<1>6. RelationsType
  BY DEF Init, RelationsType
<1>7. RestType
  <2>1. payload \in Payloads /\ changed \in BOOLEAN
    BY Zenon DEF Init, Payloads
  <2>2. observeCount \in Nat /\ observeCount > 0 /\ resourceSet \subseteq Observes
    BY DEF Init
  <2>3. retransmitter \in [Retransmitters -> [pc : RetransmitterPcs, count : Nat]]
    BY DEF Init, RetransmitterPcs
  <2>4. listener \in [pc : {"loop", "with", "dead"}, at : Observes \cup {None}, type : {"none", "ACK", "RST"}]
    BY DEF Init
  <2>5. last \in [Clients -> [observe : Nat, payload : Payloads]]
    BY DEF Init, Payloads
  <2>6. QED  BY <2>1, <2>3, <2>4, <2>5, <2>2 DEF RestType
<1>8. QED  BY <1>2, <1>3, <1>4, <1>5, <1>6, <1>7 DEF Base, Types, Alone, HasResponse, ThreadsOfNotes

-----------------------------------------------------------------------------
(* What is replaced is bare.                                               *)

\* A request that is not yet answered has no response; what is notified has a
\* resource; and a worker has set the response to None before it makes a new one.
Early ==
  /\ \A r \in Observes : worker[r].pc \in {"new", "request"} => r \notin resourceSet /\ response[r] = 0
  /\ \A r \in Requests : /\ worker[r].todo \subseteq resourceSet
                         /\ worker[r].at # None => worker[r].at \in resourceSet
                         /\ worker[r].pc = "get" => response[worker[r].at] = 0

Bare(t, n) == ~notes[t][n].mid /\ ~notes[t][n].token
\* A note that is no longer that of its transaction, or that is about to be
\* replaced, has neither mid nor token.
OthersAreBare == \A t \in Observes : \A n \in 1..Len(notes[t]) : n # response[t] => Bare(t, n)
TodoIsBare == \A r \in Requests : \A t \in worker[r].todo : \A n \in 1..Len(notes[t]) : Bare(t, n)
\* A note that its client has acknowledged is settled, or has lost its token.
ConfirmedIsSettled ==
  \A t \in Observes : \A n \in 1..Len(notes[t]) :
    notes[t][n].confirmed => notes[t][n].flag \in {"acknowledged", "rejected"} \/ ~notes[t][n].token

StripInv == Early /\ OthersAreBare /\ TodoIsBare /\ ConfirmedIsSettled

\* A step that gives no note its mid or token, and no worker more to notify.
Stripping ==
  /\ \A u \in Observes : /\ Len(notes'[u]) = Len(notes[u])
                         /\ \A m \in 1..Len(notes[u]) : /\ notes'[u][m].mid => notes[u][m].mid
                                                        /\ notes'[u][m].token => notes[u][m].token
  /\ UNCHANGED response
Lightened == \A r \in Requests : worker'[r].todo \subseteq worker[r].todo

\* What is bare stays so.
LEMMA StrippingStays ==
  ASSUME Types, StripInv, Stripping, Lightened
  PROVE  OthersAreBare' /\ TodoIsBare'
<1>1. \A r \in Requests : worker[r].todo \subseteq Observes
  BY WorkerFields DEF Types, WorkerType
<1>2. QED  BY <1>1 DEF StripInv, OthersAreBare, TodoIsBare, Bare, Stripping, Lightened

\* Flags and ACKs are as they were.
Unmarked ==
  \A u \in Observes : \A m \in 1..Len(notes[u]) :
    notes'[u][m].flag = notes[u][m].flag /\ notes'[u][m].confirmed = notes[u][m].confirmed

\* What is settled stays so when no mark changes.
LEMMA UnmarkedStays ==
  ASSUME Types, StripInv, Stripping, Unmarked
  PROVE  ConfirmedIsSettled'
BY DEF StripInv, ConfirmedIsSettled, Stripping, Unmarked

\* Notes that are kept get nothing back.
LEMMA KeptStrips ==
  ASSUME Kept
  PROVE  Stripping
BY DEF Kept, Stripping, SameNote

\* Nor do notes of which one is replaced by one with no more.
LEMMA ReplacedStrips ==
  ASSUME Types, NEW t \in Observes, NEW n \in Nat, NEW e, Replaced(t, n, e), UNCHANGED response,
         e.mid => notes[t][n].mid, e.token => notes[t][n].token
  PROVE  /\ Stripping
         /\ e.flag = notes[t][n].flag /\ e.confirmed = notes[t][n].confirmed => Unmarked
BY DEF Replaced, Stripping, Unmarked

\* Only an active worker has something to notify.
LEMMA TodoOfActive ==
  ASSUME Types, NEW r \in Requests
  PROVE  /\ worker[r].todo \subseteq Observes /\ worker[r].at \notin worker[r].todo
         /\ worker[r].todo # {} => Active(r) /\ (worker[r].pc = "collect" \/ worker[r].at # None)
         /\ worker[r].at # None => Active(r)
BY WorkerFields DEF Types, WorkerType, AtHand, Active

\* A new note: the old ones of its transaction are bare.
LEMMA MadeStrips ==
  ASSUME Types, Types', StripInv, NEW t \in Observes, Made(t), response[t] = 0, Lightened,
         \A r \in Requests : t \notin worker[r].todo
  PROVE  OthersAreBare' /\ TodoIsBare' /\ ConfirmedIsSettled'
<1> DEFINE k == Len(notes[t]) + 1
<1>1. /\ \A u \in Observes : u # t => notes'[u] = notes[u] /\ response'[u] = response[u]
      /\ Len(notes'[t]) = k /\ response'[t] = k /\ notes'[t][k] = NewNote
      /\ \A m \in 1..Len(notes[t]) : notes'[t][m] = notes[t][m]
  BY DEF Made
<1>2. Len(notes[t]) \in Nat
  BY LenType
<1> HIDE DEF k
<1>3. \A m \in 1..k : m = k \/ m \in 1..Len(notes[t])
  BY <1>2 DEF k
<1>4. \A m \in 1..Len(notes[t]) : Bare(t, m)
  BY DEF StripInv, OthersAreBare
<1>5. ~NewNote.confirmed
  BY DEF NewNote
<1>6. OthersAreBare'
  <2> SUFFICES ASSUME NEW u \in Observes, NEW n \in 1..Len(notes'[u]), n # response'[u]
               PROVE  ~notes'[u][n].mid /\ ~notes'[u][n].token
    BY DEF OthersAreBare, Bare
  <2>1. CASE u = t
    BY <1>1, <1>3, <1>4, <2>1 DEF Bare
  <2>2. CASE u # t
    BY <1>1, <2>2 DEF StripInv, OthersAreBare, Bare
  <2>3. QED  BY <2>1, <2>2
<1>7. TodoIsBare'
  <2> SUFFICES ASSUME NEW r \in Requests, NEW u \in worker'[r].todo, NEW n \in 1..Len(notes'[u])
               PROVE  ~notes'[u][n].mid /\ ~notes'[u][n].token
    BY DEF TodoIsBare, Bare
  <2>1. u \in worker[r].todo /\ u # t /\ u \in Observes
    BY TodoOfActive DEF Lightened
  <2>2. QED  BY <1>1, <2>1 DEF StripInv, TodoIsBare, Bare
<1>8. ConfirmedIsSettled'
  <2> SUFFICES ASSUME NEW u \in Observes, NEW n \in 1..Len(notes'[u]), notes'[u][n].confirmed
               PROVE  notes'[u][n].flag \in {"acknowledged", "rejected"} \/ ~notes'[u][n].token
    BY DEF ConfirmedIsSettled
  <2>1. CASE u = t
    BY <1>1, <1>3, <1>5, <2>1 DEF StripInv, ConfirmedIsSettled
  <2>2. CASE u # t
    BY <1>1, <2>2 DEF StripInv, ConfirmedIsSettled
  <2>3. QED  BY <2>1, <2>2
<1>9. QED  BY <1>6, <1>7, <1>8

\* The early part, for the worker that moves.
LEMMA EarlyMove ==
  ASSUME Types, Types', Alone, Early, NEW r \in Requests, NEW w, Moved(r, w),
         resourceSet \subseteq resourceSet',
         \A u \in resourceSet' : u \in resourceSet \/ u = r \/ u = worker[r].at,
         \A u \in Observes : response'[u] # response[u] => u = r \/ u \in resourceSet,
         worker'[r].pc \notin {"new", "request"} \/ UNCHANGED <<resourceSet, response>>,
         worker'[r].pc = "request" => worker[r].pc \in {"new", "request"}, worker'[r].pc # "new",
         worker'[r].todo \subseteq resourceSet', worker'[r].at # None => worker'[r].at \in resourceSet',
         worker'[r].pc = "get" => response'[worker'[r].at] = 0,
         Only(r)'
  PROVE  Early'
<1>1. \A q \in Requests : q # r => worker'[q] = worker[q]
  BY DEF Moved
<1>2. ASSUME NEW q \in Observes, worker'[q].pc \in {"new", "request"}
      PROVE  q \notin resourceSet' /\ response'[q] = 0
  <2>1. q \in Requests
    BY Basics
  <2>2. worker[r].at # q
    <3>1. worker[q].pc \in {"new", "request"}
      BY <1>1, <1>2, <2>1
    <3>2. q \notin resourceSet
      BY <3>1 DEF Early
    <3>3. QED  BY <2>1, <3>2, Basics DEF Early
  <2>3. CASE q = r
    BY <1>2, <2>3 DEF Early
  <2>4. CASE q # r
    BY <1>1, <1>2, <2>1, <2>2, <2>4 DEF Early
  <2>5. QED  BY <2>3, <2>4
<1>3. ASSUME NEW q \in Requests
      PROVE  /\ worker'[q].todo \subseteq resourceSet'
             /\ worker'[q].at # None => worker'[q].at \in resourceSet'
             /\ worker'[q].pc = "get" => response'[worker'[q].at] = 0
  <2>1. CASE q = r
    BY <2>1
  <2>2. CASE q # r
    <3>1. worker'[q].pc # "get"
      BY <2>2 DEF Only, Active
    <3>2. QED  BY <1>1, <2>2, <3>1 DEF Early
  <2>3. QED  BY <2>1, <2>2
<1>4. QED  BY <1>2, <1>3 DEF Early

\* A step of a worker that leaves the notes alone.
LEMMA SameNotesStrip ==
  ASSUME Types, StripInv, UNCHANGED <<notes, response>>, Lightened
  PROVE  OthersAreBare' /\ TodoIsBare' /\ ConfirmedIsSettled'
<1>1. Stripping /\ Unmarked
  BY KeptAsIs, KeptStrips DEF Unmarked
<1>2. QED  BY <1>1, StrippingStays, UnmarkedStays

\* The handling of a request keeps StripInv.
LEMMA StripHandle ==
  ASSUME Base, Base', StripInv, NEW r \in Requests, Only(r)',
         Begin(r) \/ HandleRequest(r) \/ HandlePut(r) \/ TestChanged(r)
  PROVE  StripInv'
<1> USE DEF Base
<1>0. Early
  BY DEF StripInv
<1>1. CASE Begin(r)
  <2> DEFINE w == [worker[r] EXCEPT !.pc = "request"]
  <2>1. worker[r].pc = "new" /\ Moved(r, w) /\ UNCHANGED <<resourceSet, notes, response>>
    BY <1>1, BeginStep
  <2>2. worker'[r].pc = "request" /\ worker'[r].todo = worker[r].todo /\ worker'[r].at = worker[r].at
    BY <2>1, NewPc DEF Pcs
  <2>3. Early'
    BY <1>0, <2>1, <2>2, EarlyMove DEF Early
  <2>4. Lightened
    BY <2>1, <2>2 DEF Moved, Lightened
  <2>5. QED  BY <2>1, <2>3, <2>4, SameNotesStrip DEF StripInv
<1>2. CASE HandleRequest(r) /\ r.op = "observe"
  <2> DEFINE w == [worker[r] EXCEPT !.pc = "changed"]
  <2>1. worker[r].pc = "request" /\ Moved(r, w) /\ r \in Observes /\ Made(r) /\ resourceSet' = resourceSet \cup {r}
    BY <1>2, HandleObserveStep
  <2>2. worker'[r].pc = "changed" /\ worker'[r].todo = {} /\ worker'[r].at = None
    BY <2>1, NewPc, Unburdened DEF Pcs
  <2>3. response[r] = 0 /\ r \notin resourceSet
    BY <2>1 DEF StripInv, Early
  <2>4. \A u \in Observes : u # r => response'[u] = response[u]
    BY <2>1 DEF Made
  <2>5. Early'
    BY <1>0, <2>1, <2>2, <2>4, EarlyMove
  <2>6. Lightened
    BY <2>1, <2>2 DEF Moved, Lightened
  <2>7. \A q \in Requests : r \notin worker[q].todo
    BY <2>3 DEF StripInv, Early
  <2>8. QED  BY <2>1, <2>3, <2>5, <2>6, <2>7, MadeStrips DEF StripInv
<1>3. CASE HandleRequest(r) /\ r.op # "observe"
  <2>1. /\ worker[r].pc = "request" /\ UNCHANGED <<resourceSet, notes, response>>
        /\ \E pc \in {"changed", "put"} : Moved(r, [worker[r] EXCEPT !.pc = pc])
    BY <1>3, HandleOtherStep
  <2>2. PICK pc \in {"changed", "put"} : Moved(r, [worker[r] EXCEPT !.pc = pc])
    BY <2>1
  <2>3. worker'[r].pc = pc /\ worker'[r].todo = worker[r].todo /\ worker'[r].at = worker[r].at
    BY <2>2, NewPc DEF Pcs
  <2>4. Early'
    BY <1>0, <2>1, <2>2, <2>3, EarlyMove DEF Early
  <2>5. Lightened
    BY <2>2, <2>3 DEF Moved, Lightened
  <2>6. QED  BY <2>1, <2>4, <2>5, SameNotesStrip DEF StripInv
<1>4. CASE HandlePut(r)
  <2> DEFINE w == [worker[r] EXCEPT !.pc = "changed"]
  <2>1. worker[r].pc = "put" /\ Moved(r, w) /\ UNCHANGED <<resourceSet, notes, response>>
    BY <1>4, HandlePutStep
  <2>2. worker'[r].pc = "changed" /\ worker'[r].todo = worker[r].todo /\ worker'[r].at = worker[r].at
    BY <2>1, NewPc DEF Pcs
  <2>3. Early'
    BY <1>0, <2>1, <2>2, EarlyMove DEF Early
  <2>4. Lightened
    BY <2>1, <2>2 DEF Moved, Lightened
  <2>5. QED  BY <2>1, <2>3, <2>4, SameNotesStrip DEF StripInv
<1>5. CASE TestChanged(r)
  <2> DEFINE w == IF changed THEN [worker[r] EXCEPT !.pc = "collect", !.keys = {c \in Clients : relations[c] # None}]
                  ELSE [worker[r] EXCEPT !.pc = ToAnswer(r), !.keys = {}]
  <2>1. worker[r].pc = "changed" /\ Moved(r, w) /\ UNCHANGED <<resourceSet, notes, response>>
    BY <1>5, TestChangedStep
  <2>2. w.pc \in {"collect", "observe", "done"} /\ w.todo = worker[r].todo /\ w.at = worker[r].at
    BY WorkerFields DEF WorkerType, Types, ToAnswer
  <2> HIDE DEF w
  <2>3. worker'[r].pc \in {"collect", "observe", "done"} /\ worker'[r].todo = worker[r].todo /\ worker'[r].at = worker[r].at
    BY <2>1, <2>2 DEF Moved
  <2>4. Early'
    BY <1>0, <2>1, <2>3, EarlyMove DEF Early
  <2>5. Lightened
    BY <2>1, <2>3 DEF Moved, Lightened
  <2>6. QED  BY <2>1, <2>4, <2>5, SameNotesStrip DEF StripInv
<1>6. QED  BY <1>1, <1>2, <1>3, <1>4, <1>5

\* The steps of notify() keep StripInv: the note is stripped before it is replaced.
LEMMA StripNotify ==
  ASSUME Base, Base', StripInv, NEW r \in Requests, Only(r)',
         Collect(r) \/ NotifyGet(r) \/ NotifyEnd(r) \/ \E t \in Observes : NotifyNext(r, t)
  PROVE  StripInv'
<1> USE DEF Base
<1>0. Early
  BY DEF StripInv
<1>1. CASE Collect(r)
  <2>1. /\ worker[r].pc = "collect" /\ worker[r].at = None /\ UNCHANGED <<resourceSet, response>>
        /\ \/ \E c \in worker[r].keys : UNCHANGED notes /\ Moved(r, [worker[r] EXCEPT !.keys = @ \ {c}])
           \/ \E c \in worker[r].keys :
                 /\ relations[c] \in resourceSet /\ response[relations[c]] # 0
                 /\ Replaced(relations[c], response[relations[c]], Stripped(Current(relations[c])))
                 /\ Moved(r, [worker[r] EXCEPT !.keys = @ \ {c}, !.todo = @ \cup {relations[c]}])
           \/ UNCHANGED notes /\ Moved(r, DeadWorker)
    BY <1>1, CollectStep
  <2>2. CASE \E c \in worker[r].keys : UNCHANGED notes /\ Moved(r, [worker[r] EXCEPT !.keys = @ \ {c}])
    <3>1. PICK c \in worker[r].keys : UNCHANGED notes /\ Moved(r, [worker[r] EXCEPT !.keys = @ \ {c}])
      BY <2>2
    <3> DEFINE w == [worker[r] EXCEPT !.keys = @ \ {c}]
    <3>2. w.pc = "collect" /\ w.todo = worker[r].todo /\ w.at = None
      BY <2>1, WorkerFields DEF WorkerType, Types
    <3> HIDE DEF w
    <3>3. worker'[r].pc = "collect" /\ worker'[r].todo = worker[r].todo /\ worker'[r].at = None
      BY <3>1, <3>2 DEF Moved, w
    <3>4. Early'
      BY <1>0, <2>1, <3>1, <3>3, EarlyMove DEF Early
    <3>5. Lightened
      BY <3>1, <3>3 DEF Moved, Lightened
    <3>6. QED  BY <2>1, <3>1, <3>4, <3>5, SameNotesStrip DEF StripInv
  <2>3. CASE UNCHANGED notes /\ Moved(r, DeadWorker)
    <3>1. worker'[r].pc = "dead" /\ worker'[r].todo = {} /\ worker'[r].at = None
      BY <2>3 DEF Moved, DeadWorker
    <3>2. Early'
      BY <1>0, <2>1, <2>3, <3>1, EarlyMove
    <3>3. Lightened
      BY <2>3, <3>1 DEF Moved, Lightened
    <3>4. QED  BY <2>1, <2>3, <3>2, <3>3, SameNotesStrip DEF StripInv
  <2>4. CASE \E c \in worker[r].keys :
                 /\ relations[c] \in resourceSet /\ response[relations[c]] # 0
                 /\ Replaced(relations[c], response[relations[c]], Stripped(Current(relations[c])))
                 /\ Moved(r, [worker[r] EXCEPT !.keys = @ \ {c}, !.todo = @ \cup {relations[c]}])
    <3>1. PICK c \in worker[r].keys :
                 /\ relations[c] \in resourceSet /\ response[relations[c]] # 0
                 /\ Replaced(relations[c], response[relations[c]], Stripped(Current(relations[c])))
                 /\ Moved(r, [worker[r] EXCEPT !.keys = @ \ {c}, !.todo = @ \cup {relations[c]}])
      BY <2>4
    <3> DEFINE t == relations[c]
               w == [worker[r] EXCEPT !.keys = @ \ {c}, !.todo = @ \cup {t}]
               e == Stripped(Current(t))
    <3>2. t \in Observes
      BY <3>1 DEF Types, RestType
    <3>3. w.pc = "collect" /\ w.todo = worker[r].todo \cup {t} /\ w.at = None
      BY <2>1, WorkerFields DEF WorkerType, Types
    <3>4. Current(t) \in NoteType /\ response[t] \in Nat
      BY <3>1, <3>2, CurrentType, LenType
    <3>5. ~e.mid /\ ~e.token /\ e.flag = Current(t).flag /\ e.confirmed = Current(t).confirmed
      BY <3>4 DEF NoteType, Stripped
    <3>6. /\ Replaced(t, response[t], e) /\ Moved(r, w) /\ t \in resourceSet
      BY <3>1
    <3> HIDE DEF w, e, t
    <3>7. /\ worker'[r].pc = "collect" /\ worker'[r].todo = worker[r].todo \cup {t} /\ worker'[r].at = None
          /\ \A q \in Requests : q # r => worker'[q].todo = worker[q].todo
      BY <3>3, <3>6 DEF Moved
    <3>8. Early'
      BY <1>0, <2>1, <3>6, <3>7, EarlyMove DEF Early
    <3>9. Stripping /\ Unmarked
      BY <2>1, <3>2, <3>4, <3>5, <3>6, ReplacedStrips DEF Current
    <3>10. OthersAreBare'
      BY <3>9 DEF StripInv, OthersAreBare, Stripping, Bare
    <3>11. ASSUME NEW q \in Requests, NEW u \in worker'[q].todo, NEW n \in 1..Len(notes'[u])
           PROVE  ~notes'[u][n].mid /\ ~notes'[u][n].token
      <4>1. CASE u \in worker[q].todo
        <5>1. u \in Observes
          BY <4>1, TodoOfActive
        <5>2. QED  BY <3>9, <4>1, <5>1 DEF Stripping, StripInv, TodoIsBare, Bare
      <4>2. CASE u = t
        <5>1. CASE n = response[t]
          BY <3>5, <3>6, <4>2, <5>1 DEF Replaced
        <5>2. CASE n # response[t]
          BY <2>1, <3>2, <3>10, <4>2, <5>2 DEF OthersAreBare, Bare
        <5>3. QED  BY <5>1, <5>2
      <4>3. QED  BY <3>7, <4>1, <4>2
    <3>12. TodoIsBare'
      BY <3>11 DEF TodoIsBare, Bare
    <3>13. QED  BY <3>8, <3>9, <3>10, <3>12, UnmarkedStays DEF StripInv
  <2>5. QED  BY <2>1, <2>2, <2>3, <2>4
<1>2. ASSUME NEW t \in Observes, NotifyNext(r, t)  PROVE StripInv'
  <2> DEFINE w == [worker[r] EXCEPT !.pc = "get", !.at = t, !.todo = @ \ {t}]
  <2>1. /\ worker[r].pc = "collect" /\ t \in worker[r].todo /\ Moved(r, w)
        /\ response'[t] = 0 /\ \A u \in Observes : u # t => response'[u] = response[u]
        /\ UNCHANGED <<resourceSet, notes>>
    BY <1>2, NotifyNextStep
  <2>2. w.pc = "get" /\ w.at = t /\ w.todo = worker[r].todo \ {t}
    BY WorkerFields DEF WorkerType, Types
  <2> HIDE DEF w
  <2>3. worker'[r].pc = "get" /\ worker'[r].at = t /\ worker'[r].todo = worker[r].todo \ {t}
    BY <2>1, <2>2 DEF Moved
  <2>4. t \in resourceSet
    BY <1>0, <2>1 DEF Early
  <2>5. Early'
    BY <1>0, <2>1, <2>3, <2>4, EarlyMove DEF Early
  <2>6. Lightened
    BY <2>1, <2>3 DEF Moved, Lightened
  <2>7. \A n \in 1..Len(notes[t]) : Bare(t, n)
    BY <2>1 DEF StripInv, TodoIsBare
  <2>8. OthersAreBare'
    BY <2>1, <2>7 DEF StripInv, OthersAreBare, Bare
  <2>9. TodoIsBare'
    BY <2>1, <2>6 DEF StripInv, TodoIsBare, Bare, Lightened
  <2>10. ConfirmedIsSettled'
    BY <2>1 DEF StripInv, ConfirmedIsSettled
  <2>11. QED  BY <2>5, <2>8, <2>9, <2>10 DEF StripInv
<1>3. CASE NotifyGet(r)
  <2> DEFINE t == worker[r].at
             w == [worker[r] EXCEPT !.pc = "observe"]
  <2>1. /\ worker[r].pc = "get" /\ t \in Observes /\ Moved(r, w) /\ Made(t)
        /\ resourceSet' = resourceSet \cup {t}
    BY <1>3, NotifyGetStep
  <2>2. worker'[r].pc = "observe" /\ worker'[r].todo = worker[r].todo /\ worker'[r].at = t
    BY <2>1, NewPc DEF Pcs
  <2>3. response[t] = 0 /\ \A u \in Observes : u # t => response'[u] = response[u]
    BY <1>0, <2>1 DEF Early, Made
  <2>4. t \in resourceSet
    BY <1>0, <2>1, Basics DEF Early
  <2>5. Early'
    BY <1>0, <2>1, <2>2, <2>3, <2>4, EarlyMove DEF Early
  <2>6. Lightened
    BY <2>1, <2>2 DEF Moved, Lightened
  <2>7. \A q \in Requests : t \notin worker[q].todo
    <3>1. Active(r)
      BY <2>1 DEF Active
    <3>2. QED  BY <3>1, TodoOfActive DEF Alone
  <2>8. QED  BY <2>1, <2>3, <2>5, <2>6, <2>7, MadeStrips DEF StripInv
<1>4. CASE NotifyEnd(r)
  <2>1. /\ worker[r].pc = "collect" /\ Moved(r, [worker[r] EXCEPT !.pc = ToAnswer(r)])
        /\ UNCHANGED <<resourceSet, notes, response>>
    BY <1>4, NotifyEndStep
  <2>2. /\ worker'[r].pc \in {"observe", "done"} /\ worker'[r].at = worker[r].at
        /\ worker'[r].todo = worker[r].todo
    BY <2>1, NewPc DEF Pcs, ToAnswer
  <2>3. Early'
    BY <1>0, <2>1, <2>2, EarlyMove DEF Early
  <2>4. Lightened
    BY <2>1, <2>2 DEF Moved, Lightened
  <2>5. QED  BY <2>1, <2>3, <2>4, SameNotesStrip DEF StripInv
<1>5. QED  BY <1>1, <1>2, <1>3, <1>4

\* A change of the current note of a transaction that is not to be notified.
LEMMA HandStrips ==
  ASSUME Types, StripInv, NEW t \in Observes, response[t] # 0, NEW e, Replaced(t, response[t], e),
         UNCHANGED response, Lightened, \A q \in Requests : t \notin worker[q].todo,
         e.token => Current(t).token, e.flag \in {Current(t).flag, "acknowledged"},
         e.confirmed = Current(t).confirmed
  PROVE  OthersAreBare' /\ TodoIsBare' /\ ConfirmedIsSettled'
<1> DEFINE k == response[t]
<1>1. /\ \A u \in Observes : Len(notes'[u]) = Len(notes[u]) /\ response'[u] = response[u]
      /\ notes'[t][k] = e /\ notes[t][k] = Current(t)
      /\ \A u \in Observes : \A m \in 1..Len(notes[u]) : ~(u = t /\ m = k) => notes'[u][m] = notes[u][m]
  BY DEF Replaced, Current
<1> HIDE DEF k
<1>2. OthersAreBare'
  BY <1>1 DEF StripInv, OthersAreBare, Bare, k
<1>3. ASSUME NEW q \in Requests, NEW u \in worker'[q].todo, NEW n \in 1..Len(notes'[u])
      PROVE  ~notes'[u][n].mid /\ ~notes'[u][n].token
  <2>1. u \in worker[q].todo /\ u # t /\ u \in Observes
    BY TodoOfActive DEF Lightened
  <2>2. QED  BY <1>1, <2>1 DEF StripInv, TodoIsBare, Bare
<1>4. TodoIsBare'
  BY <1>3 DEF TodoIsBare, Bare
<1>5. ConfirmedIsSettled'
  <2> SUFFICES ASSUME NEW u \in Observes, NEW n \in 1..Len(notes'[u]), notes'[u][n].confirmed
               PROVE  notes'[u][n].flag \in {"acknowledged", "rejected"} \/ ~notes'[u][n].token
    BY DEF ConfirmedIsSettled
  <2>1. notes[u][n].confirmed =>
          notes[u][n].flag \in {"acknowledged", "rejected"} \/ ~notes[u][n].token
    BY <1>1 DEF StripInv, ConfirmedIsSettled
  <2>2. CASE u = t /\ n = k
    BY <1>1, <2>1, <2>2
  <2>3. CASE ~(u = t /\ n = k)
    BY <1>1, <2>1, <2>3
  <2>4. QED  BY <2>2, <2>3
<1>6. QED  BY <1>2, <1>4, <1>5

\* What an answering worker has at hand is in no list.
LEMMA HandIsTaken ==
  ASSUME Types, Alone, NEW r \in Requests, Answering(r)
  PROVE  \A q \in Requests : Subject(r) \notin worker[q].todo
<1>1. Active(r)
  BY DEF Answering, Active
<1>2. worker[r].at = None => worker[r].todo = {}
  BY WorkerFields DEF Types, AtHand, Answering
<1>3. Subject(r) \notin worker[r].todo
  BY <1>2, TodoOfActive DEF Subject
<1>4. \A q \in Requests : q # r => worker[q].todo = {}
  BY <1>1, TodoOfActive DEF Alone
<1>5. QED  BY <1>3, <1>4

\* The steps of an answer or a notification keep StripInv.
LEMMA StripAnswer ==
  ASSUME Base, Base', StripInv, NEW r \in Requests, Only(r)',
         ObserveTest(r) \/ ObserveRegister(r) \/ SendMessage(r) \/ SendDatagram(r)
  PROVE  StripInv'
<1> USE DEF Base
<1>0. Early
  BY DEF StripInv
<1> DEFINE t == Subject(r)
<1>1. Answering(r)
  BY DEF Answering, ObserveTest, ObserveRegister, SendMessage, SendDatagram
<1>2. \A q \in Requests : t \notin worker[q].todo
  BY <1>1, HandIsTaken
<1>3. worker[r].todo \subseteq resourceSet /\ (worker[r].at # None => worker[r].at \in resourceSet)
  BY <1>0 DEF Early
<1>4. ASSUME NEW w, Moved(r, w), UNCHANGED <<resourceSet, response>>, w.todo \subseteq worker[r].todo,
             w.at \in {None, worker[r].at}, w.pc \notin {"new", "request", "get"}
      PROVE  Early' /\ Lightened
  <2>1. worker'[r] = w /\ \A q \in Requests : q # r => worker'[q] = worker[q]
    BY <1>4 DEF Moved
  <2>2. Lightened
    BY <1>4, <2>1 DEF Lightened
  <2>3. Early'
    BY <1>0, <1>3, <1>4, <2>1, EarlyMove
  <2>4. QED  BY <2>2, <2>3
<1>5. CASE ObserveTest(r)
  <2> DEFINE pc == IF relations[t.client] # None THEN "register" ELSE "message"
             w == [worker[r] EXCEPT !.pc = pc]
  <2>1. Moved(r, w) /\ UNCHANGED <<resourceSet, notes, response>>
    BY <1>5, ObserveTestStep
  <2>2. w.pc \in {"register", "message"} /\ w.at = worker[r].at /\ w.todo = worker[r].todo
    BY WorkerFields DEF WorkerType, Types
  <2> HIDE DEF w, pc
  <2>3. Early' /\ Lightened
    BY <1>4, <2>1, <2>2
  <2>4. QED  BY <2>1, <2>3, SameNotesStrip DEF StripInv
<1>6. CASE ObserveRegister(r)
  <2> DEFINE e == [Current(t) EXCEPT !.observe = observeCount]
             v == [worker[r] EXCEPT !.pc = "message"]
  <2>1. /\ t \in Observes /\ response[t] # 0 /\ UNCHANGED <<resourceSet, response>>
        /\ \/ Moved(r, DeadWorker) /\ UNCHANGED notes
           \/ Moved(r, v) /\ Replaced(t, response[t], e)
    BY <1>6, ObserveRegisterStep
  <2>2. Current(t) \in NoteType
    BY <2>1, CurrentType
  <2>3. e.token = Current(t).token /\ e.flag = Current(t).flag /\ e.confirmed = Current(t).confirmed
    BY <2>2 DEF NoteType
  <2>4. v.pc = "message" /\ v.at = worker[r].at /\ v.todo = worker[r].todo
    BY WorkerFields DEF WorkerType, Types
  <2>5. DeadWorker.pc = "dead" /\ DeadWorker.at = None /\ DeadWorker.todo = {}
    BY DEF DeadWorker
  <2> HIDE DEF e, v
  <2>6. CASE Moved(r, DeadWorker) /\ UNCHANGED notes
    <3>1. Early' /\ Lightened
      BY <1>4, <2>1, <2>5, <2>6
    <3>2. QED  BY <2>1, <2>6, <3>1, SameNotesStrip DEF StripInv
  <2>7. CASE Moved(r, v) /\ Replaced(t, response[t], e)
    <3>1. Early' /\ Lightened
      BY <1>4, <2>1, <2>4, <2>7
    <3>2. QED  BY <1>2, <2>1, <2>3, <2>7, <3>1, HandStrips DEF StripInv
  <2>8. QED  BY <2>1, <2>6, <2>7
<1>7. CASE SendMessage(r)
  <2> DEFINE e == Message(t)
             w == [worker[r] EXCEPT !.pc = "send"]
  <2>1. /\ t \in Observes /\ response[t] # 0 /\ UNCHANGED <<resourceSet, response>>
        /\ Moved(r, w) /\ Replaced(t, response[t], e)
    BY <1>7, SendMessageStep
  <2>2. Current(t) \in NoteType
    BY <2>1, CurrentType
  <2>3. e.token = Current(t).token /\ e.flag \in {Current(t).flag, "acknowledged"}
        /\ e.confirmed = Current(t).confirmed
    BY <2>2 DEF NoteType, Message
  <2>4. w.pc = "send" /\ w.at = worker[r].at /\ w.todo = worker[r].todo
    BY WorkerFields DEF WorkerType, Types
  <2> HIDE DEF e, w
  <2>5. Early' /\ Lightened
    BY <1>4, <2>1, <2>4
  <2>6. QED  BY <1>2, <2>1, <2>3, <2>5, HandStrips DEF StripInv
<1>8. CASE SendDatagram(r)
  <2> DEFINE e == [Current(t) EXCEPT !.sent = TRUE]
             w == [worker[r] EXCEPT !.pc = IF worker[r].at = None THEN "done" ELSE "collect", !.at = None]
  <2>1. /\ t \in Observes /\ response[t] # 0 /\ UNCHANGED <<resourceSet, response>> /\ Moved(r, w)
        /\ Replaced(t, response[t], e) \/ UNCHANGED notes
    BY <1>8, SendDatagramStep
  <2>2. Current(t) \in NoteType
    BY <2>1, CurrentType
  <2>3. e.token = Current(t).token /\ e.flag = Current(t).flag /\ e.confirmed = Current(t).confirmed
    BY <2>2 DEF NoteType
  <2>4. w.pc \in {"done", "collect"} /\ w.at = None /\ w.todo = worker[r].todo
    BY WorkerFields DEF WorkerType, Types
  <2> HIDE DEF e, w
  <2>5. Early' /\ Lightened
    BY <1>4, <2>1, <2>4
  <2>6. CASE Replaced(t, response[t], e)
    BY <1>2, <2>1, <2>3, <2>5, <2>6, HandStrips DEF StripInv
  <2>7. CASE UNCHANGED notes
    BY <2>1, <2>5, <2>7, SameNotesStrip DEF StripInv
  <2>8. QED  BY <2>1, <2>5, <2>6, <2>7 DEF StripInv
<1>9. QED  BY <1>5, <1>6, <1>7, <1>8

\* The threads that are no workers leave the early part as it is.
LEMMA EarlyStays ==
  ASSUME Early, UNCHANGED <<worker, resourceSet, response>>
  PROVE  Early' /\ Lightened
BY DEF Early, Lightened

\* A retransmission keeps StripInv.
LEMMA StripRound ==
  ASSUME Base, StripInv, NEW x \in Retransmitters, RetransmitRound(x)
  PROVE  StripInv'
<1> USE DEF Base
<1>1. /\ UNCHANGED <<worker, resourceSet, response>>
      /\ UNCHANGED <<notes, last>> \/ Replaced(x[1], x[2], [NoteOf(x) EXCEPT !.sent = TRUE])
  BY RoundResends DEF Resent
<1>2. x[1] \in Observes /\ x[2] \in 1..Len(notes[x[1]]) /\ x[2] \in Nat
  BY RetransmitterType DEF RetransmitRound, ThreadsOfNotes
<1>3. NoteOf(x) \in NoteType
  BY <1>2, NoteFields DEF NoteOf
<1> DEFINE e == [NoteOf(x) EXCEPT !.sent = TRUE]
<1>4. e.mid = NoteOf(x).mid /\ e.token = NoteOf(x).token /\ e.flag = NoteOf(x).flag
      /\ e.confirmed = NoteOf(x).confirmed
  BY <1>3 DEF NoteType
<1>5. Early' /\ Lightened
  BY <1>1, EarlyStays DEF StripInv
<1> HIDE DEF e
<1>6. CASE Replaced(x[1], x[2], e)
  <2>1. Stripping /\ Unmarked
    BY <1>1, <1>2, <1>4, <1>6, ReplacedStrips DEF NoteOf
  <2>2. QED  BY <1>5, <2>1, StrippingStays, UnmarkedStays DEF StripInv
<1>7. CASE UNCHANGED notes
  BY <1>1, <1>5, <1>7, SameNotesStrip DEF StripInv
<1>8. QED  BY <1>1, <1>6, <1>7 DEF e

\* An ACK settles the current note; an older one has no token.
LEMMA EmptyStrips ==
  ASSUME Base, StripInv, NEW t \in Observes, NEW n \in 1..MaxNotes, NEW ty \in {"ACK", "RST"},
         ReceiveEmpty(t, n, ty)
  PROVE  StripInv'
<1> USE DEF Base
<1>1. /\ Quiet /\ Types' /\ n \in 1..Len(notes[t])
      /\ \/ /\ Marked(t, n)
            /\ \A u \in Observes : u # t => notes'[u] = notes[u]
         \/ UNCHANGED notes
         \/ /\ response[t] # 0 /\ Current(t).flag # "acknowledged"
            /\ Replaced(t, response[t], [Current(t) EXCEPT !.flag = "rejected"])
  BY EmptyQuiet
<1>2. Early' /\ Lightened
  BY <1>1, EarlyStays DEF StripInv, Quiet, Kept
<1>3. Stripping
  BY <1>1, KeptStrips DEF Quiet
<1>4. OthersAreBare' /\ TodoIsBare'
  BY <1>2, <1>3, StrippingStays
<1>5. CASE Marked(t, n) /\ \A u \in Observes : u # t => notes'[u] = notes[u]
  <2> SUFFICES ASSUME NEW u \in Observes, NEW m \in 1..Len(notes'[u]), notes'[u][m].confirmed
               PROVE  notes'[u][m].flag \in {"acknowledged", "rejected"} \/ ~notes'[u][m].token
    BY <1>2, <1>4 DEF ConfirmedIsSettled, StripInv
  <2>1. m \in 1..Len(notes[u]) /\ (notes'[u][m].token => notes[u][m].token)
    BY <1>3 DEF Stripping
  <2>2. CASE u # t
    BY <1>5, <2>1, <2>2 DEF StripInv, ConfirmedIsSettled
  <2>3. CASE u = t /\ m = response[t]
    BY <1>5, <2>1, <2>3 DEF Marked
  <2>4. CASE u = t /\ m # response[t]
    <3>1. ~notes[t][m].token
      BY <2>1, <2>4 DEF StripInv, OthersAreBare, Bare
    <3>2. QED  BY <2>1, <2>4, <3>1
  <2>5. QED  BY <2>2, <2>3, <2>4
<1>6. CASE UNCHANGED notes
  BY <1>1, <1>2, <1>6, SameNotesStrip DEF StripInv, Quiet, Kept
<1>7. CASE /\ response[t] # 0
           /\ Replaced(t, response[t], [Current(t) EXCEPT !.flag = "rejected"])
  <2> DEFINE e == [Current(t) EXCEPT !.flag = "rejected"]
             k == response[t]
  <2>1. Current(t) \in NoteType
    BY <1>7, CurrentType
  <2>2. e.flag = "rejected"
    BY <2>1 DEF NoteType
  <2> HIDE DEF e
  <2>3. /\ \A u \in Observes : Len(notes'[u]) = Len(notes[u])
        /\ notes'[t][k] = e
        /\ \A u \in Observes : \A m \in 1..Len(notes[u]) : ~(u = t /\ m = k) => notes'[u][m] = notes[u][m]
    BY <1>7 DEF Replaced, e
  <2> SUFFICES ASSUME NEW u \in Observes, NEW m \in 1..Len(notes'[u]), notes'[u][m].confirmed
               PROVE  notes'[u][m].flag \in {"acknowledged", "rejected"} \/ ~notes'[u][m].token
    BY <1>2, <1>4 DEF ConfirmedIsSettled, StripInv
  <2>4. CASE u = t /\ m = k
    BY <2>2, <2>3, <2>4
  <2>5. CASE ~(u = t /\ m = k)
    BY <2>3, <2>5 DEF StripInv, ConfirmedIsSettled
  <2>6. QED  BY <2>4, <2>5
<1>8. QED  BY <1>1, <1>5, <1>6, <1>7

\* A step that leaves the notes, and the workers, as they are.
LEMMA IdleStrips ==
  ASSUME Base, StripInv, UNCHANGED <<worker, resourceSet, response, notes>>
  PROVE  StripInv'
BY EarlyStays, SameNotesStrip DEF Base, StripInv

\* So do the marks and deletions of the other threads.
LEMMA StripOthers ==
  ASSUME Base, StripInv, Others \/ UNCHANGED vars
  PROVE  StripInv'
<1>1. ASSUME NEW x \in Retransmitters,
             Retransmit(x) \/ RetransmitSettled(x) \/ GiveUp(x) \/ RemoveSubscriber(x)
      PROVE  StripInv'
  BY <1>1, IdleStrips DEF Retransmit, RetransmitSettled, GiveUp, RemoveSubscriber
<1>2. CASE ListenerWith \/ (\E t \in Observes : SendAck(t)) \/ UNCHANGED vars
  BY <1>2, IdleStrips DEF ListenerWith, SendAck, vars
<1>3. QED  BY <1>1, <1>2, EmptyStrips DEF Others

\* StripInv is inductive relative to Base.
LEMMA StripStep ==
  ASSUME Base, Serial, StripInv, [Next]_vars
  PROVE  StripInv'
<1>1. Base'
  BY BaseStep
<1>2. QED  BY <1>1, Steps, BaseHandle, BaseNotify, BaseAnswer, StripHandle, StripNotify, StripAnswer,
              StripRound, StripOthers

\* StripInv holds at first.
LEMMA StripInit == Init => StripInv
<1> SUFFICES ASSUME Init PROVE StripInv
  OBVIOUS
<1>1. \A r \in Requests : worker[r] = [pc |-> "new", at |-> None, todo |-> {}, keys |-> {}]
  BY DEF Init
<1>2. \A t \in Observes : response[t] = 0 /\ notes[t] = <<>>
  BY DEF Init
<1>3. Early
  BY <1>1, <1>2 DEF Init, Early
<1>4. QED  BY <1>1, <1>2, <1>3 DEF StripInv, OthersAreBare, TodoIsBare, ConfirmedIsSettled

\* A note is confirmed by an ACK only, and not once its retransmission has given up.
Confirms ==
  \A t \in Observes : \A n \in 1..Len(notes[t]) :
    notes'[t][n].confirmed => notes[t][n].confirmed \/ ~GivenUp(t, n)

\* A note that is replaced by one which is no more confirmed.
LEMMA ReplacedConfirms ==
  ASSUME Types, NEW t \in Observes, NEW n \in Nat, NEW e, Replaced(t, n, e),
         e.confirmed = notes[t][n].confirmed
  PROVE  Confirms
BY DEF Replaced, Confirms

\* No step of a worker confirms a note.
LEMMA WorkerConfirms ==
  ASSUME Base, NEW r \in Requests,
         \/ Begin(r) \/ HandleRequest(r) \/ HandlePut(r) \/ TestChanged(r)
         \/ Collect(r) \/ NotifyGet(r) \/ NotifyEnd(r) \/ \E t \in Observes : NotifyNext(r, t)
         \/ ObserveTest(r) \/ ObserveRegister(r) \/ SendMessage(r) \/ SendDatagram(r)
  PROVE  Confirms
<1> USE DEF Base
<1>1. UNCHANGED notes => Confirms
  BY DEF Confirms
<1>2. ASSUME NEW t \in Observes, Made(t)  PROVE Confirms
  BY <1>2 DEF Made, Confirms
<1>3. ASSUME NEW t \in Observes, response[t] # 0, NEW e, Replaced(t, response[t], e),
             e.confirmed = Current(t).confirmed
      PROVE  Confirms
  BY <1>3, LenType, ReplacedConfirms DEF Current
<1>4. ASSUME NEW t \in Observes, response[t] # 0
      PROVE  /\ Stripped(Current(t)).confirmed = Current(t).confirmed
             /\ Message(t).confirmed = Current(t).confirmed
             /\ [Current(t) EXCEPT !.observe = observeCount].confirmed = Current(t).confirmed
             /\ [Current(t) EXCEPT !.sent = TRUE].confirmed = Current(t).confirmed
  <2>1. Current(t) \in NoteType
    BY <1>4, CurrentType
  <2>2. QED  BY <2>1 DEF NoteType, Stripped, Message
<1>5. CASE HandleRequest(r)
  BY <1>1, <1>2, <1>5, HandleObserveStep, HandleOtherStep
<1>6. CASE Collect(r)
  <2>1. \A c \in Clients : relations[c] \in resourceSet => relations[c] \in Observes
    BY DEF Types, RestType
  <2>2. worker[r].keys \subseteq Clients
    BY WorkerFields DEF Types, WorkerType
  <2>3. \/ \E c \in worker[r].keys :
               /\ relations[c] \in resourceSet /\ response[relations[c]] # 0
               /\ Replaced(relations[c], response[relations[c]], Stripped(Current(relations[c])))
        \/ UNCHANGED notes
    BY <1>6, CollectStep
  <2>4. QED  BY <1>1, <1>3, <1>4, <2>1, <2>2, <2>3
<1>7. CASE NotifyGet(r)
  BY <1>2, <1>7, NotifyGetStep
<1>8. CASE ObserveRegister(r)
  <2>1. /\ Subject(r) \in Observes /\ response[Subject(r)] # 0
        /\ UNCHANGED notes \/
           Replaced(Subject(r), response[Subject(r)], [Current(Subject(r)) EXCEPT !.observe = observeCount])
    BY <1>8, ObserveRegisterStep
  <2>2. QED  BY <1>1, <1>3, <1>4, <2>1
<1>9. CASE SendMessage(r)
  <2>1. /\ Subject(r) \in Observes /\ response[Subject(r)] # 0
        /\ Replaced(Subject(r), response[Subject(r)], Message(Subject(r)))
    BY <1>9, SendMessageStep
  <2>2. QED  BY <1>3, <1>4, <2>1
<1>10. CASE SendDatagram(r)
  <2>1. /\ Subject(r) \in Observes /\ response[Subject(r)] # 0
        /\ UNCHANGED notes \/
           Replaced(Subject(r), response[Subject(r)], [Current(Subject(r)) EXCEPT !.sent = TRUE])
    BY <1>10, SendDatagramStep
  <2>2. QED  BY <1>1, <1>3, <1>4, <2>1
<1>11. CASE Begin(r) \/ HandlePut(r) \/ TestChanged(r) \/ NotifyEnd(r) \/ ObserveTest(r)
            \/ \E t \in Observes : NotifyNext(r, t)
  BY <1>1, <1>11 DEF Begin, HandlePut, TestChanged, NotifyEnd, ObserveTest, NotifyNext
<1>12. QED  BY <1>5, <1>6, <1>7, <1>8, <1>9, <1>10, <1>11

\* Nor does one of the other threads, but the listener with an ACK.
LEMMA OthersConfirm ==
  ASSUME Base, Others \/ (\E x \in Retransmitters : RetransmitRound(x)) \/ UNCHANGED vars
  PROVE  Confirms
<1> USE DEF Base
<1>1. UNCHANGED notes => Confirms
  BY DEF Confirms
<1>2. ASSUME NEW x \in Retransmitters, RetransmitRound(x)  PROVE Confirms
  <2>1. x[1] \in Observes /\ x[2] \in 1..Len(notes[x[1]]) /\ x[2] \in Nat
    BY <1>2, RetransmitterType DEF RetransmitRound, ThreadsOfNotes
  <2>2. NoteOf(x) \in NoteType /\ NoteOf(x) = notes[x[1]][x[2]]
    BY <2>1, NoteFields DEF NoteOf
  <2>3. [NoteOf(x) EXCEPT !.sent = TRUE].confirmed = NoteOf(x).confirmed
    BY <2>2 DEF NoteType
  <2>4. UNCHANGED notes \/ Replaced(x[1], x[2], [NoteOf(x) EXCEPT !.sent = TRUE])
    BY <1>2, RoundResends
  <2>5. QED  BY <1>1, <2>1, <2>2, <2>3, <2>4, ReplacedConfirms
<1>3. ASSUME NEW t \in Observes, NEW n \in 1..MaxNotes, NEW ty \in {"ACK", "RST"},
             ReceiveEmpty(t, n, ty)
      PROVE  Confirms
  <2>1. \/ Marked(t, n) /\ \A u \in Observes : u # t => notes'[u] = notes[u]
        \/ UNCHANGED notes
        \/ /\ response[t] # 0
           /\ Replaced(t, response[t], [Current(t) EXCEPT !.flag = "rejected"])
    BY <1>3, EmptyQuiet
  <2>2. CASE Marked(t, n) /\ \A u \in Observes : u # t => notes'[u] = notes[u]
    BY <2>2 DEF Marked, Confirms
  <2>3. CASE response[t] # 0 /\ Replaced(t, response[t], [Current(t) EXCEPT !.flag = "rejected"])
    <3>1. Current(t) \in NoteType /\ response[t] \in Nat
      BY <2>3, CurrentType, LenType
    <3>2. [Current(t) EXCEPT !.flag = "rejected"].confirmed = notes[t][response[t]].confirmed
      BY <3>1 DEF NoteType, Current
    <3>3. QED  BY <2>3, <3>1, <3>2, ReplacedConfirms
  <2>4. QED  BY <1>1, <2>1, <2>2, <2>3
<1>4. CASE \/ UNCHANGED vars \/ ListenerWith \/ \E t \in Observes : SendAck(t)
           \/ \E x \in Retransmitters :
                Retransmit(x) \/ RetransmitSettled(x) \/ GiveUp(x) \/ RemoveSubscriber(x)
  BY <1>1, <1>4 DEF vars, ListenerWith, SendAck, Retransmit, RetransmitSettled, GiveUp, RemoveSubscriber
<1>5. QED  BY <1>2, <1>3, <1>4 DEF Others

\* What a retransmission gives up though its client had acknowledged it before the
\* last test has lost its token.
GivingUpOnBare ==
  \A x \in Retransmitters :
    retransmitter[x].pc = "give_up" /\ NoteOf(x).confirmed => ~NoteOf(x).token

\* A thread that has given up has done so in this step, or had before; what is done
\* has removed its subscriber then.
LEMMA EndOfRetransmission ==
  ASSUME Base, [Next]_vars, NEW x \in Retransmitters
  PROVE  /\ retransmitter'[x].pc = "give_up" => retransmitter[x].pc = "give_up" \/ GiveUp(x)
         /\ retransmitter[x].pc = "give_up" /\ retransmitter'[x].pc = "done" => RemoveSubscriber(x)
<1>1. x \in DOMAIN retransmitter /\ retransmitter \in [Retransmitters -> [pc : RetransmitterPcs, count : Nat]]
  BY DEF Base, Types, RestType
<1>2. CASE retransmitter' = retransmitter
  BY <1>2
<1>3. ASSUME NEW r \in Requests, SendDatagram(r), retransmitter' # retransmitter
      PROVE  retransmitter'[x].pc \in {retransmitter[x].pc, "ready"}
  <2>1. \E y : retransmitter' = [retransmitter EXCEPT ![y].pc = "ready"]
    BY <1>3 DEF SendDatagram
  <2>2. PICK y : retransmitter' = [retransmitter EXCEPT ![y].pc = "ready"]
    BY <2>1
  <2>3. QED  BY <1>1, <2>2
<1>4. ASSUME NEW y \in Retransmitters, Retransmission(y)
      PROVE  /\ retransmitter'[x].pc = "give_up" => retransmitter[x].pc = "give_up" \/ GiveUp(x)
             /\ retransmitter[x].pc = "give_up" /\ retransmitter'[x].pc = "done" => RemoveSubscriber(x)
  <2>1. CASE x # y
    BY <1>1, <1>4, <2>1 DEF Retransmission, Retransmit, RetransmitRound, RetransmitSettled, GiveUp,
                            RemoveSubscriber
  <2>2. CASE x = y
    BY <1>1, <1>4, <2>2 DEF Retransmission, Retransmit, RetransmitRound, RetransmitSettled, GiveUp,
                            RemoveSubscriber
  <2>3. QED  BY <2>1, <2>2
<1>5. QED  BY <1>2, <1>3, <1>4
        DEF Next, Work, Begin, HandleRequest, HandlePut, TestChanged, Collect, NotifyNext,
            NotifyGet, NotifyEnd, ObserveTest, ObserveRegister, SendMessage, SendAck, ReceiveEmpty,
            ListenerWith, vars

\* GivingUpOnBare is inductive relative to StripInv.
LEMMA GivingUpStep ==
  ASSUME Base, Serial, StripInv, GivingUpOnBare, [Next]_vars
  PROVE  GivingUpOnBare'
<1>1. Confirms /\ Grown
  BY Steps, WorkerConfirms, OthersConfirm, BaseStep
<1> SUFFICES ASSUME NEW x \in Retransmitters, retransmitter'[x].pc = "give_up",
                    notes'[x[1]][x[2]].confirmed
             PROVE  ~notes'[x[1]][x[2]].token
  BY DEF GivingUpOnBare, NoteOf
<1>2. retransmitter[x].pc = "give_up" \/ GiveUp(x)
  BY EndOfRetransmission
<1>3. x[1] \in Observes /\ x[2] \in 1..Len(notes[x[1]])
  BY <1>2, RetransmitterType DEF GiveUp, Base, ThreadsOfNotes
<1>4. CASE retransmitter[x].pc = "give_up"
  <2>1. GivenUp(x[1], x[2])
    BY <1>4 DEF GivenUp
  <2>2. NoteOf(x).confirmed
    BY <1>1, <1>3, <2>1 DEF Confirms, NoteOf
  <2>3. QED  BY <1>1, <1>3, <1>4, <2>2 DEF GivingUpOnBare, NoteOf, Grown
<1>5. CASE GiveUp(x)
  <2>1. UNCHANGED notes /\ ~Settled(x)
    BY <1>5 DEF GiveUp
  <2>2. QED  BY <1>3, <2>1 DEF Settled, NoteOf, StripInv, ConfirmedIsSettled
<1>6. QED  BY <1>2, <1>4, <1>5

\* Where requests are handled one by one, a retransmission that gives up removes no observer
\* whose ACK of the notification came before its last test (observelayer.py 183-184:
\* notify() takes mid and token from the old Response before it makes a new one).
THEOREM GiveUpHolds ==
  ASSUME Serial
  PROVE  Spec => GiveUpOnSilentOnly
<1> DEFINE Inv == Base /\ StripInv /\ GivingUpOnBare
<1>1. Init => Inv
  <2>1. Init => GivingUpOnBare
    BY DEF Init, GivingUpOnBare
  <2>2. QED  BY <2>1, BaseInit, StripInit
<1>2. Inv /\ [Next]_vars => Inv'
  BY BaseStep, StripStep, GivingUpStep
<1>3. Inv /\ [Next]_vars =>
        [\A x \in Retransmitters :
           retransmitter[x].pc = "give_up" /\ retransmitter'[x].pc = "done" /\ NoteOf(x).confirmed
             => relations' = relations]_vars
  <2> SUFFICES ASSUME Inv, [Next]_vars, NEW x \in Retransmitters, retransmitter[x].pc = "give_up",
                      retransmitter'[x].pc = "done", NoteOf(x).confirmed
               PROVE  relations' = relations
    OBVIOUS
  <2>1. RemoveSubscriber(x)
    BY EndOfRetransmission
  <2>2. ~NoteOf(x).token
    BY DEF GivingUpOnBare
  <2>3. QED  BY <2>1, <2>2 DEF RemoveSubscriber
<1>4. QED  BY <1>1, <1>2, <1>3, PTL DEF Spec, GiveUpOnSilentOnly

-----------------------------------------------------------------------------
(* What an observer has been sent.                                         *)

\* A client registers once: what it is sent belongs to one transaction.
OneRegistration == \A t, u \in Observes : t.client = u.client => t = u

\* The current note, once it has been sent, is what its client has seen last.
SentIsLast ==
  \A t \in Observes : response[t] # 0 /\ Current(t).sent =>
    last[t.client].observe = Current(t).observe /\ last[t.client].payload = Current(t).payload
ThreadsAreSent == \A x \in Retransmitters : retransmitter[x].pc # "new" => NoteOf(x).sent
LastIsBounded == \A c \in Clients : last[c].observe <= observeCount
\* An observer that is not being registered has its resource.
RelationsAreSet ==
  \A c \in Clients : relations[c] # None => relations[c] \in resourceSet \/ worker[relations[c]].pc = "request"

\* The current note is of the state that the resource has.
Now(t) == Current(t).payload = payload /\ Current(t).observe \in {0, observeCount}
\* A notification that a worker has at hand is new, and of now.
Notified(r) == Answering(r) /\ worker[r].at # None => Now(worker[r].at) /\ ~Current(worker[r].at).sent
\* So is the answer of the worker, which may have been sent as a notification before.
Answered(r) ==
  r \in Observes /\ Active(r) /\ worker[r].pc # "request" /\ response[r] # 0 =>
    Now(r) /\ (Current(r).sent /\ relations[r.client] # None => Current(r).observe = observeCount)
\* An observer is sent a note that has the count and a mid.
Sending(r) ==
  worker[r].pc \in {"message", "send"} =>
    /\ relations[Subject(r).client] # None => Current(Subject(r)).observe = observeCount
    /\ worker[r].pc = "send" => Current(Subject(r)).mid
InHand == \A r \in Requests : Notified(r) /\ Answered(r) /\ Sending(r)

Fresh(c) == last[c].payload = payload
\* Without a mark, an observer has the payload or its own request is being handled.
AtRest ==
  ~changed => \A c \in Clients : relations[c] # None =>
    Fresh(c) \/ (\E r \in Requests : worker[r].pc = "put") \/ Active(relations[c])
\* A worker that notifies still has every observer that lacks the payload before it.
Due(r) ==
  worker[r].pc = "collect" \/ worker[r].at # None =>
    /\ changed
    /\ \A c \in Clients : relations[c] # None =>
         Fresh(c) \/ c \in worker[r].keys \/ relations[c] \in worker[r].todo \cup {worker[r].at, r}

OrderInv ==
  /\ SentIsLast /\ ThreadsAreSent /\ LastIsBounded /\ RelationsAreSet /\ InHand
  /\ AtRest /\ \A r \in Requests : Due(r)

\* What a client sees of the current notes, of all transactions but one.
ViewsBut(t) ==
  \A u \in Observes : u # t =>
    /\ response'[u] = response[u]
    /\ response[u] # 0 => /\ Current(u)'.payload = Current(u).payload
                          /\ Current(u)'.observe = Current(u).observe
                          /\ Current(u)'.sent = Current(u).sent
                          /\ Current(u)'.mid => Current(u).mid
Views ==
  \A u \in Observes :
    /\ response'[u] = response[u]
    /\ response[u] # 0 => /\ Current(u)'.payload = Current(u).payload
                          /\ Current(u)'.observe = Current(u).observe
                          /\ Current(u)'.sent = Current(u).sent
SameLast == \A c \in Clients : last'[c].observe = last[c].observe /\ last'[c].payload = last[c].payload
Fewer == \A c \in Clients : relations'[c] \in {relations[c], None}

\* Notes that are kept look the same.
LEMMA KeptViews ==
  ASSUME Types, Kept
  PROVE  Views
<1> SUFFICES ASSUME NEW u \in Observes, response[u] # 0
             PROVE  SameNote(Current(u)', Current(u))
  BY DEF Views, SameNote, Kept
<1>1. response[u] \in 1..Len(notes[u]) /\ response'[u] = response[u]
  BY CurrentType DEF Kept
<1>2. QED  BY <1>1 DEF Kept, Current

\* A replaced note is the one of its transaction that may look different.
LEMMA ReplacedHand ==
  ASSUME Types, NEW t \in Observes, response[t] # 0, NEW e, Replaced(t, response[t], e), UNCHANGED response
  PROVE  /\ ViewsBut(t) /\ Current(t)' = e /\ response'[t] = response[t]
         /\ e.payload = Current(t).payload /\ e.observe = Current(t).observe /\ e.sent = Current(t).sent => Views
<1>1. Current(t)' = e
  BY DEF Replaced, Current
<1>2. ASSUME NEW u \in Observes, u # t, response[u] # 0  PROVE Current(u)' = Current(u)
  <2>1. response[u] \in 1..Len(notes[u]) /\ response'[u] = response[u]
    BY <1>2, CurrentType
  <2>2. QED  BY <1>2, <2>1 DEF Replaced, Current
<1>3. ViewsBut(t)
  BY <1>2 DEF ViewsBut
<1>4. QED  BY <1>1, <1>2, <1>3 DEF Views

\* So is a new one.
LEMMA MadeHand ==
  ASSUME Types, NEW t \in Observes, Made(t)
  PROVE  ViewsBut(t) /\ Current(t)' = NewNote /\ response'[t] # 0
BY LenType DEF Made, ViewsBut, Current

\* A new note has the payload of now, and no count.
LEMMA NewNoteIsNow ==
  /\ NewNote.payload = payload /\ NewNote.observe = 0 /\ ~NewNote.sent
BY DEF NewNote

\* The parts of OrderInv that a step keeps.
LEMMA SentStays ==
  ASSUME SentIsLast, SameLast,
         Views \/ \E t \in Observes : ViewsBut(t) /\ (response'[t] = 0 \/ ~Current(t)'.sent)
  PROVE  SentIsLast'
<1>1. \A t \in Observes : t.client \in Clients
  BY Basics
<1>2. CASE Views
  BY <1>1, <1>2 DEF SentIsLast, SameLast, Views
<1>3. CASE \E t \in Observes : ViewsBut(t) /\ (response'[t] = 0 \/ ~Current(t)'.sent)
  <2>1. PICK t \in Observes : ViewsBut(t) /\ (response'[t] = 0 \/ ~Current(t)'.sent)
    BY <1>3
  <2> SUFFICES ASSUME NEW u \in Observes, response'[u] # 0, Current(u)'.sent
               PROVE  last'[u.client].observe = Current(u)'.observe /\ last'[u.client].payload = Current(u)'.payload
    BY DEF SentIsLast
  <2>2. u # t
    BY <2>1
  <2>3. response[u] # 0 /\ Current(u)'.payload = Current(u).payload /\ Current(u)'.observe = Current(u).observe
        /\ Current(u).sent
    BY <2>1, <2>2 DEF ViewsBut
  <2>4. QED  BY <1>1, <2>3 DEF SentIsLast, SameLast
<1>4. QED  BY <1>2, <1>3

\* Threads stay threads of sent notes.
LEMMA ThreadsStaySent ==
  ASSUME Types, ThreadsOfNotes, ThreadsAreSent, Grown,
         \A x \in Retransmitters : retransmitter'[x].pc # "new" => retransmitter[x].pc # "new"
  PROVE  ThreadsAreSent'
<1> SUFFICES ASSUME NEW x \in Retransmitters, retransmitter'[x].pc # "new"
             PROVE  notes'[x[1]][x[2]].sent
  BY DEF ThreadsAreSent, NoteOf
<1>1. x[1] \in Observes /\ x[2] \in 1..Len(notes[x[1]]) /\ notes[x[1]][x[2]].sent
  BY RetransmitterType DEF ThreadsOfNotes, ThreadsAreSent, NoteOf
<1>2. QED  BY <1>1 DEF Grown

\* The count only grows.
LEMMA LastStays ==
  ASSUME Types, LastIsBounded, SameLast, observeCount' \in {observeCount, observeCount + 1}
  PROVE  LastIsBounded'
<1>1. observeCount \in Nat /\ \A c \in Clients : last[c].observe \in Nat
  BY DEF Types, RestType
<1>2. QED  BY <1>1 DEF LastIsBounded, SameLast

\* An entry whose registration is handled has its resource.
LEMMA RelationsStay ==
  ASSUME Types, RelationsAreSet, resourceSet \subseteq resourceSet', Fewer, NEW r \in Requests, NEW w, Moved(r, w),
         worker[r].pc = "request" => r \in resourceSet' \/ r \notin Observes
  PROVE  RelationsAreSet'
<1> SUFFICES ASSUME NEW c \in Clients, relations'[c] # None
             PROVE  relations'[c] \in resourceSet' \/ worker'[relations'[c]].pc = "request"
  BY DEF RelationsAreSet
<1>1. relations'[c] = relations[c] /\ relations[c] \in Observes /\ relations[c] \in Requests
  BY Basics DEF Fewer, Types, RelationsType
<1>2. CASE relations[c] \in resourceSet
  BY <1>1, <1>2
<1>3. CASE worker[relations[c]].pc = "request"
  BY <1>1, <1>3 DEF Moved
<1>4. QED  BY <1>1, <1>2, <1>3 DEF RelationsAreSet

\* What rests while worker r is active.
LEMMA RestOf ==
  ASSUME AtRest, Alone, Types, NEW r \in Requests, Active(r), worker[r].pc # "put", ~changed,
         NEW c \in Clients, relations[c] # None
  PROVE  Fresh(c) \/ relations[c] = r
<1>1. relations[c] \in Requests
  BY Basics DEF Types, RelationsType
<1>2. \A q \in Requests : worker[q].pc = "put" => Active(q)
  BY DEF Active
<1>3. QED  BY <1>1, <1>2 DEF AtRest, Alone

\* One worker is active at a time, so its part is all of it.
LEMMA OfTheOne ==
  ASSUME Types', NEW r \in Requests, Only(r)', (Notified(r) /\ Answered(r) /\ Sending(r) /\ Due(r))'
  PROVE  InHand' /\ \A q \in Requests : Due(q)'
<1> SUFFICES ASSUME NEW q \in Requests, q # r  PROVE (Notified(q) /\ Answered(q) /\ Sending(q) /\ Due(q))'
  BY DEF InHand
<1>1. worker'[q].pc \in {"new", "done", "dead"}
  BY DEF Only, Active
<1>2. worker'[q] \in WorkerType /\ (AtHand(worker[q], q))'
  BY DEF Types, WorkersType
<1>3. worker'[q].at = None
  BY <1>1, <1>2 DEF AtHand
<1>4. QED  BY <1>1, <1>3 DEF Notified, Answered, Sending, Due, Answering, Active

\* A worker whose handling is over, or has just begun, has nothing in hand.
LEMMA EmptyHand ==
  ASSUME NEW r \in Requests, worker'[r].at = None,
         worker'[r].pc \in {"request", "done", "dead"} \/ (worker'[r].pc \in {"changed", "put"} /\ r \notin Observes)
  PROVE  (Notified(r) /\ Answered(r) /\ Sending(r) /\ Due(r))'
BY DEF Notified, Answered, Sending, Due, Answering, Active

\* Nothing sent, nothing seen.
LEMMA SameLasts ==
  ASSUME UNCHANGED last
  PROVE  SameLast
BY DEF SameLast

\* Notes that are not touched look the same.
LEMMA SameViews ==
  ASSUME Types, UNCHANGED <<notes, response>>
  PROVE  Views
BY KeptAsIs, KeptViews

\* Begin keeps OrderInv: no worker is active, so every observer has the payload.
LEMMA OrderBegin ==
  ASSUME Base, Base', Grown, Serial, OrderInv, NEW r \in Requests, Only(r)', Begin(r)
  PROVE  OrderInv'
<1> USE DEF Base, OrderInv
<1> DEFINE w == [worker[r] EXCEPT !.pc = "request"]
<1>1. /\ worker[r].pc = "new" /\ Moved(r, w)
      /\ \A c \in Clients : relations'[c] \in {relations[c], None} \/
                            (relations'[c] = r /\ r \in Observes /\ c = r.client)
      /\ UNCHANGED <<payload, observeCount, changed, resourceSet, notes, response, retransmitter, last>>
  BY BeginStep DEF resource
<1>2. worker'[r].pc = "request" /\ worker'[r].at = None
  BY <1>1, NewPc, Unburdened DEF Pcs
<1>3. \A q \in Requests : ~Active(q)
  BY DEF Begin
<1>4. SameLast /\ Views
  BY <1>1, SameLasts, SameViews
<1>5. SentIsLast' /\ ThreadsAreSent' /\ LastIsBounded'
  BY <1>1, <1>4, SentStays, ThreadsStaySent, LastStays
<1>6. InHand' /\ \A q \in Requests : Due(q)'
  BY <1>2, EmptyHand, OfTheOne
<1>7. RelationsAreSet'
  <2> SUFFICES ASSUME NEW c \in Clients, relations'[c] # None
               PROVE  relations'[c] \in resourceSet' \/ worker'[relations'[c]].pc = "request"
    BY DEF RelationsAreSet
  <2>1. CASE relations'[c] = r
    BY <1>2, <2>1
  <2>2. CASE relations'[c] = relations[c] /\ relations[c] # r
    <3>1. relations[c] \in Requests
      BY <2>2, Basics DEF Types, RelationsType
    <3>2. QED  BY <1>1, <2>2, <3>1 DEF RelationsAreSet, Moved
  <2>3. QED  BY <1>1, <2>1, <2>2
<1>8. AtRest'
  <2> SUFFICES ASSUME ~changed', NEW c \in Clients, relations'[c] # None
               PROVE  (Fresh(c) \/ Active(relations[c]))'
    BY DEF AtRest
  <2>1. CASE relations'[c] = r
    BY <1>2, <2>1 DEF Active
  <2>2. CASE relations'[c] = relations[c]
    <3>1. relations[c] \in Requests
      BY <2>2, Basics DEF Types, RelationsType
    <3>2. \A q \in Requests : worker[q].pc # "put"
      BY <1>3 DEF Active
    <3>3. Fresh(c)
      BY <1>1, <1>3, <2>2, <3>1, <3>2 DEF AtRest
    <3>4. QED  BY <1>1, <3>3 DEF Fresh
  <2>3. QED  BY <1>1, <2>1, <2>2
<1>9. QED  BY <1>5, <1>6, <1>7, <1>8

\* The request of an observer, handled.
LEMMA OrderHandleObserve ==
  ASSUME Base, Base', Grown, OrderInv, NEW r \in Requests, Only(r)', HandleRequest(r), r.op = "observe"
  PROVE  OrderInv'
<1> USE DEF Base, OrderInv
<1> DEFINE w == [worker[r] EXCEPT !.pc = "changed"]
<1>1. /\ worker[r].pc = "request" /\ Moved(r, w) /\ r \in Observes /\ Made(r)
      /\ resourceSet' = resourceSet \cup {r}
      /\ UNCHANGED <<payload, observeCount, changed, relations, retransmitter, last>>
  BY HandleObserveStep DEF resource
<1>2. worker'[r].pc = "changed" /\ worker'[r].at = None /\ Active(r) /\ r.client \in Clients
  BY <1>1, NewPc, Unburdened, Basics DEF Pcs, Active
<1>3. ViewsBut(r) /\ Current(r)' = NewNote /\ response'[r] # 0
  BY <1>1, MadeHand
<1>4. SameLast /\ ~Current(r)'.sent /\ Current(r)'.payload = payload /\ Current(r)'.observe = 0
  BY <1>1, <1>3, SameLasts, NewNoteIsNow
<1>5. SentIsLast' /\ ThreadsAreSent' /\ LastIsBounded'
  BY <1>1, <1>3, <1>4, SentStays, ThreadsStaySent, LastStays
<1>6. Fewer /\ RelationsAreSet'
  <2>1. Fewer
    BY <1>1 DEF Fewer
  <2>2. QED  BY <1>1, <2>1, RelationsStay
<1>7. (Notified(r) /\ Answered(r) /\ Sending(r) /\ Due(r))'
  <2>1. Answered(r)'
    BY <1>1, <1>4 DEF Answered, Now
  <2>2. QED  BY <1>2, <2>1 DEF Notified, Sending, Due, Answering
<1>8. InHand' /\ \A q \in Requests : Due(q)'
  BY <1>7, OfTheOne
<1>9. AtRest'
  <2> SUFFICES ASSUME ~changed', NEW c \in Clients, relations'[c] # None
               PROVE  (Fresh(c) \/ Active(relations[c]))'
    BY DEF AtRest
  <2>1. Fresh(c) \/ relations[c] = r
    BY <1>1, <1>2, RestOf
  <2>2. QED  BY <1>1, <1>2, <2>1 DEF Fresh, Active
<1>10. QED  BY <1>5, <1>6, <1>8, <1>9

\* The handling of a cancellation or of a PUT keeps it.
LEMMA OrderHandleOther ==
  ASSUME Base, Base', Grown, OrderInv, NEW r \in Requests, Only(r)', HandleRequest(r), r.op # "observe"
  PROVE  OrderInv'
<1> USE DEF Base, OrderInv
<1>1. /\ worker[r].pc = "request" /\ r \notin Observes
      /\ \/ Moved(r, [worker[r] EXCEPT !.pc = "changed"]) /\ UNCHANGED payload
         \/ Moved(r, [worker[r] EXCEPT !.pc = "put"])
      /\ UNCHANGED <<observeCount, changed, relations, resourceSet, notes, response, retransmitter, last>>
  BY HandleOtherStep
<1>2. PICK pc \in {"changed", "put"} : Moved(r, [worker[r] EXCEPT !.pc = pc]) /\ (pc = "put" \/ UNCHANGED payload)
  BY <1>1
<1>3. worker'[r].pc = pc /\ worker'[r].at = None /\ Active(r)
  BY <1>1, <1>2, NewPc, Unburdened DEF Pcs, Active
<1>4. SameLast /\ Views /\ Fewer
  BY <1>1, SameLasts, SameViews DEF Fewer
<1>5. SentIsLast' /\ ThreadsAreSent' /\ LastIsBounded'
  BY <1>1, <1>4, SentStays, ThreadsStaySent, LastStays
<1>6. RelationsAreSet'
  BY <1>1, <1>2, <1>4, RelationsStay
<1>7. InHand' /\ \A q \in Requests : Due(q)'
  BY <1>1, <1>3, EmptyHand, OfTheOne
<1>8. AtRest'
  <2> SUFFICES ASSUME ~changed', pc # "put", NEW c \in Clients, relations'[c] # None
               PROVE  Fresh(c)'
    BY <1>3 DEF AtRest
  <2>1. relations[c] # r
    BY <1>1, Basics DEF Types, RelationsType
  <2>2. Fresh(c)
    BY <1>1, <1>3, <2>1, RestOf
  <2>3. QED  BY <1>1, <1>2, <2>2 DEF Fresh
<1>9. QED  BY <1>5, <1>6, <1>7, <1>8

\* Once the mark is set nobody needs to have the payload.
LEMMA OrderHandlePut ==
  ASSUME Base, Base', Grown, OrderInv, NEW r \in Requests, Only(r)', HandlePut(r)
  PROVE  OrderInv'
<1> USE DEF Base, OrderInv
<1>1. /\ worker[r].pc = "put" /\ r \in Puts /\ Moved(r, [worker[r] EXCEPT !.pc = "changed"])
      /\ changed' = TRUE /\ observeCount' = observeCount + 1
      /\ UNCHANGED <<payload, relations, resourceSet, notes, response, retransmitter, last>>
  BY HandlePutStep
<1>2. worker'[r].pc = "changed" /\ worker'[r].at = None /\ r \notin Observes
  BY <1>1, NewPc, Unburdened DEF Pcs, Puts, Observes
<1>3. SameLast /\ Views /\ Fewer
  BY <1>1, SameLasts, SameViews DEF Fewer
<1>4. SentIsLast' /\ ThreadsAreSent' /\ LastIsBounded'
  BY <1>1, <1>3, SentStays, ThreadsStaySent, LastStays
<1>5. RelationsAreSet'
  BY <1>1, <1>2, <1>3, RelationsStay
<1>6. InHand' /\ \A q \in Requests : Due(q)'
  BY <1>2, EmptyHand, OfTheOne
<1>7. AtRest'
  BY <1>1 DEF AtRest
<1>8. QED  BY <1>4, <1>5, <1>6, <1>7

\* The answer of a worker, when what it sees of it is as it was.
LEMMA AnsweredStays ==
  ASSUME Views, NEW r \in Requests, Answered(r), Active(r), worker[r].pc # "request", Fewer, Types,
         UNCHANGED <<payload, observeCount>>
  PROVE  Answered(r)'
<1> SUFFICES ASSUME r \in Observes, response'[r] # 0
             PROVE  Now(r)' /\ (Current(r)'.sent /\ relations'[r.client] # None => Current(r)'.observe = observeCount')
  BY DEF Answered
<1>1. r.client \in Clients
  BY Basics
<1>2. Now(r) /\ (Current(r).sent /\ relations[r.client] # None => Current(r).observe = observeCount)
  BY DEF Answered, Views
<1>3. QED  BY <1>1, <1>2 DEF Views, Fewer, Now

\* With the mark every observer is before the worker, without it none has to be.
LEMMA OrderTestChanged ==
  ASSUME Base, Base', Grown, OrderInv, NEW r \in Requests, Only(r)', TestChanged(r)
  PROVE  OrderInv'
<1> USE DEF Base, OrderInv
<1> DEFINE w == IF changed THEN [worker[r] EXCEPT !.pc = "collect", !.keys = {c \in Clients : relations[c] # None}]
                ELSE [worker[r] EXCEPT !.pc = ToAnswer(r), !.keys = {}]
<1>1. /\ worker[r].pc = "changed" /\ Moved(r, w)
      /\ UNCHANGED <<payload, observeCount, changed, relations, resourceSet, notes, response, retransmitter, last>>
  BY TestChangedStep DEF resource
<1>2. /\ w.at = None
      /\ IF changed THEN w.pc = "collect" /\ w.keys = {c \in Clients : relations[c] # None}
         ELSE w.pc = ToAnswer(r)
  BY <1>1, Unburdened, WorkerFields DEF WorkerType, Types
<1> HIDE DEF w
<1>3. Active(r) /\ worker'[r] = w
  BY <1>1 DEF Active, Moved
<1>4. SameLast /\ Views /\ Fewer
  BY <1>1, SameLasts, SameViews DEF Fewer
<1>5. SentIsLast' /\ ThreadsAreSent' /\ LastIsBounded'
  BY <1>1, <1>4, SentStays, ThreadsStaySent, LastStays
<1>6. RelationsAreSet'
  BY <1>1, <1>4, RelationsStay
<1>7. Answered(r)'
  BY <1>1, <1>3, <1>4, AnsweredStays DEF InHand
<1>8. (Notified(r) /\ Sending(r) /\ Due(r))'
  <2>1. Notified(r)' /\ Sending(r)'
    BY <1>2, <1>3 DEF Notified, Sending, ToAnswer
  <2>2. Due(r)'
    <3>1. CASE changed
      BY <1>1, <1>2, <1>3, <3>1 DEF Due
    <3>2. CASE ~changed
      BY <1>2, <1>3, <3>2 DEF Due, ToAnswer
    <3>3. QED  BY <3>1, <3>2
  <2>3. QED  BY <2>1, <2>2
<1>9. InHand' /\ \A q \in Requests : Due(q)'
  BY <1>7, <1>8, OfTheOne
<1>10. AtRest'
  <2> SUFFICES ASSUME ~changed', NEW c \in Clients, relations'[c] # None
               PROVE  (Fresh(c) \/ Active(relations[c]))'
    BY DEF AtRest
  <2>1. Fresh(c) \/ relations[c] = r
    BY <1>1, <1>3, RestOf
  <2>2. CASE relations[c] = r
    <3>1. r \in Observes
      BY <1>1, <2>2, Basics DEF Types, RelationsType
    <3>2. worker'[r].pc = "observe"
      BY <1>1, <1>2, <1>3, <3>1 DEF ToAnswer
    <3>3. QED  BY <1>1, <2>2, <3>2 DEF Active
  <2>3. QED  BY <1>1, <2>1, <2>2 DEF Fresh
<1>11. QED  BY <1>5, <1>6, <1>9, <1>10

\* An observer goes from the keys to the list.
LEMMA OrderCollect ==
  ASSUME Base, Base', Grown, OrderInv, NEW r \in Requests, Only(r)', Collect(r)
  PROVE  OrderInv'
<1> USE DEF Base, OrderInv
<1>1. /\ worker[r].pc = "collect" /\ worker[r].at = None
      /\ UNCHANGED <<payload, observeCount, changed, relations, resourceSet, response, retransmitter, last>>
      /\ \/ \E c \in worker[r].keys :
              /\ relations[c] \notin resourceSet /\ relations[c] # None
              /\ Moved(r, [worker[r] EXCEPT !.keys = @ \ {c}])
         \/ \E c \in worker[r].keys :
              /\ relations[c] \in resourceSet /\ response[relations[c]] # 0
              /\ Replaced(relations[c], response[relations[c]], Stripped(Current(relations[c])))
              /\ Moved(r, [worker[r] EXCEPT !.keys = @ \ {c}, !.todo = @ \cup {relations[c]}])
         \/ UNCHANGED notes /\ Moved(r, DeadWorker)
  BY CollectStep DEF resource
<1>2. worker[r] \in WorkerType /\ worker[r].keys \subseteq Clients /\ Active(r)
  BY <1>1, WorkerFields DEF Types, WorkerType, Active
<1>3. SameLast /\ Fewer
  BY <1>1, SameLasts DEF Fewer
<1>4. ThreadsAreSent' /\ LastIsBounded'
  BY <1>1, <1>3, ThreadsStaySent, LastStays
<1>5. changed /\ AtRest'
  BY <1>1 DEF Due, AtRest
\* An observer without a resource is being registered, and here no request is.
<1>6. ASSUME NEW c \in worker[r].keys, relations[c] \notin resourceSet, relations[c] # None
      PROVE  FALSE
  <2>1. worker[relations[c]].pc = "request" /\ relations[c] \in Requests
    BY <1>2, <1>6, Basics DEF RelationsAreSet, Types, RelationsType
  <2>2. relations[c] = r
    BY <1>2, <2>1 DEF Alone, Active
  <2>3. QED  BY <1>1, <2>1, <2>2
<1>7. CASE UNCHANGED notes /\ Moved(r, DeadWorker)
  <2>1. worker'[r].pc = "dead" /\ worker'[r].at = None
    BY <1>7 DEF Moved, DeadWorker
  <2>2. SentIsLast'
    BY <1>1, <1>3, <1>7, SameViews, SentStays
  <2>3. RelationsAreSet'
    BY <1>1, <1>3, <1>7, RelationsStay
  <2>4. InHand' /\ \A q \in Requests : Due(q)'
    BY <2>1, EmptyHand, OfTheOne
  <2>5. QED  BY <1>4, <1>5, <2>2, <2>3, <2>4
<1>8. CASE \E c \in worker[r].keys :
              /\ relations[c] \in resourceSet /\ response[relations[c]] # 0
              /\ Replaced(relations[c], response[relations[c]], Stripped(Current(relations[c])))
              /\ Moved(r, [worker[r] EXCEPT !.keys = @ \ {c}, !.todo = @ \cup {relations[c]}])
  <2>1. PICK c \in worker[r].keys :
              /\ relations[c] \in resourceSet /\ response[relations[c]] # 0
              /\ Replaced(relations[c], response[relations[c]], Stripped(Current(relations[c])))
              /\ Moved(r, [worker[r] EXCEPT !.keys = @ \ {c}, !.todo = @ \cup {relations[c]}])
    BY <1>8
  <2> DEFINE t == relations[c]
             e == Stripped(Current(t))
             w == [worker[r] EXCEPT !.keys = @ \ {c}, !.todo = @ \cup {t}]
  <2>2. t \in Observes /\ c \in Clients
    BY <1>2, <2>1 DEF Types, RestType
  <2>3. e.payload = Current(t).payload /\ e.observe = Current(t).observe /\ e.sent = Current(t).sent
    BY <2>1, <2>2, CurrentType DEF NoteType, Stripped
  <2>4. w.pc = "collect" /\ w.at = None /\ w.keys = worker[r].keys \ {c} /\ w.todo = worker[r].todo \cup {t}
    BY <1>1, <1>2 DEF WorkerType
  <2>5. Moved(r, w) /\ Replaced(t, response[t], e) /\ response[t] # 0
    BY <2>1
  <2> HIDE DEF e, w
  <2>6. worker'[r] = w
    BY <2>5 DEF Moved
  <2>7. Views
    BY <1>1, <2>2, <2>3, <2>5, ReplacedHand
  <2>8. SentIsLast'
    BY <1>3, <2>7, SentStays
  <2>9. RelationsAreSet'
    BY <1>1, <1>3, <2>5, RelationsStay
  <2>10. Answered(r)'
    BY <1>1, <1>2, <1>3, <2>7, AnsweredStays DEF InHand
  <2>11. Notified(r)' /\ Sending(r)'
    BY <2>4, <2>6 DEF Notified, Sending
  <2>12. Due(r)'
    <3> SUFFICES ASSUME NEW d \in Clients, relations[d] # None
                 PROVE  Fresh(d) \/ d \in w.keys \/ relations[d] \in w.todo \cup {w.at, r}
      BY <1>1, <1>5, <2>6 DEF Due, Fresh
    <3>1. Fresh(d) \/ d \in worker[r].keys \/ relations[d] \in worker[r].todo \cup {worker[r].at, r}
      BY <1>1 DEF Due
    <3>2. QED  BY <1>1, <2>4, <3>1
  <2>13. InHand' /\ \A q \in Requests : Due(q)'
    BY <2>10, <2>11, <2>12, OfTheOne
  <2>14. QED  BY <1>4, <1>5, <2>8, <2>9, <2>13
<1>9. QED  BY <1>1, <1>6, <1>7, <1>8

\* And from the list into the hand.
LEMMA OrderNotifyNext ==
  ASSUME Base, Base', Grown, OrderInv, NEW r \in Requests, Only(r)', NEW t \in Observes, NotifyNext(r, t)
  PROVE  OrderInv'
<1> USE DEF Base, OrderInv
<1> DEFINE w == [worker[r] EXCEPT !.pc = "get", !.at = t, !.todo = @ \ {t}]
<1>1. /\ worker[r].pc = "collect" /\ worker[r].at = None /\ worker[r].keys = {} /\ t \in worker[r].todo
      /\ Moved(r, w)
      /\ response'[t] = 0 /\ \A u \in Observes : u # t => response'[u] = response[u]
      /\ UNCHANGED <<payload, observeCount, changed, relations, resourceSet, notes, retransmitter, last>>
  BY NotifyNextStep DEF resource
<1>2. w.pc = "get" /\ w.at = t /\ w.keys = {} /\ w.todo = worker[r].todo \ {t}
  BY <1>1, WorkerFields DEF Types, WorkerType
<1>3. worker'[r] = w /\ Active(r)
  BY <1>1 DEF Moved, Active
<1> HIDE DEF w
<1>4. SameLast /\ Fewer /\ ViewsBut(t)
  BY <1>1, SameLasts DEF Fewer, ViewsBut, Current
<1>5. SentIsLast' /\ ThreadsAreSent' /\ LastIsBounded'
  BY <1>1, <1>4, SentStays, ThreadsStaySent, LastStays
<1>6. RelationsAreSet'
  BY <1>1, <1>4, RelationsStay
<1>7. AtRest'
  BY <1>1 DEF Due, AtRest
<1>8. Answered(r)'
  <2> SUFFICES ASSUME r \in Observes, response'[r] # 0
               PROVE  (Now(r) /\ (Current(r).sent /\ relations[r.client] # None => Current(r).observe = observeCount))'
    BY DEF Answered
  <2>1. r # t
    BY <1>1
  <2>2. response[r] # 0 /\ Current(r)' = Current(r)
    BY <1>1, <2>1 DEF Current
  <2>3. QED  BY <1>1, <1>3, <2>2 DEF InHand, Answered, Now
<1>9. Notified(r)' /\ Sending(r)'
  BY <1>2, <1>3 DEF Notified, Sending, Answering
<1>10. Due(r)'
  <2> SUFFICES ASSUME NEW d \in Clients, relations[d] # None
               PROVE  Fresh(d) \/ relations[d] \in w.todo \cup {w.at, r}
    BY <1>1, <1>3 DEF Due, Fresh
  <2>1. Fresh(d) \/ d \in worker[r].keys \/ relations[d] \in worker[r].todo \cup {worker[r].at, r}
    BY <1>1 DEF Due
  <2>2. QED  BY <1>1, <1>2, <2>1
<1>11. InHand' /\ \A q \in Requests : Due(q)'
  BY <1>8, <1>9, <1>10, OfTheOne
<1>12. QED  BY <1>5, <1>6, <1>7, <1>11

\* Its new note is of now.
LEMMA OrderNotifyGet ==
  ASSUME Base, Base', Grown, OrderInv, NEW r \in Requests, Only(r)', NotifyGet(r)
  PROVE  OrderInv'
<1> USE DEF Base, OrderInv
<1> DEFINE w == [worker[r] EXCEPT !.pc = "observe"]
<1>0. worker[r].at \in Observes
  BY NotifyGetStep
<1> PICK t \in Observes : t = worker[r].at
  BY <1>0
<1>1. /\ worker[r].pc = "get" /\ worker[r].at = t /\ Moved(r, w) /\ Made(t)
      /\ resourceSet' = resourceSet \cup {t}
      /\ UNCHANGED <<payload, observeCount, changed, relations, retransmitter, last>>
  BY NotifyGetStep DEF resource
<1>2. /\ worker'[r].pc = "observe" /\ worker'[r].at = t /\ worker'[r].todo = worker[r].todo
      /\ worker'[r].keys = worker[r].keys /\ Active(r) /\ t # None
  BY <1>1, NewPc, Basics DEF Pcs, Active
<1>3. ViewsBut(t) /\ Current(t)' = NewNote /\ response'[t] # 0
  BY <1>1, MadeHand
<1>4. SameLast /\ Fewer /\ ~Current(t)'.sent /\ Current(t)'.payload = payload /\ Current(t)'.observe = 0
  BY <1>1, <1>3, SameLasts, NewNoteIsNow DEF Fewer
<1> HIDE DEF w
<1>5. SentIsLast' /\ ThreadsAreSent' /\ LastIsBounded'
  BY <1>1, <1>3, <1>4, SentStays, ThreadsStaySent, LastStays
<1>6. RelationsAreSet'
  BY <1>1, <1>4, RelationsStay
<1>7. changed /\ AtRest'
  BY <1>1, <1>2 DEF Due, AtRest
<1>8. Notified(r)' /\ Sending(r)'
  BY <1>1, <1>2, <1>4 DEF Notified, Sending, Now
<1>9. Answered(r)'
  <2> SUFFICES ASSUME r \in Observes, response'[r] # 0
               PROVE  (Now(r) /\ (Current(r).sent /\ relations[r.client] # None => Current(r).observe = observeCount))'
    BY DEF Answered
  <2>1. CASE r = t
    BY <1>1, <1>4, <2>1 DEF Now
  <2>2. CASE r # t
    <3>1. response[r] # 0 /\ Current(r)'.payload = Current(r).payload /\ Current(r)'.observe = Current(r).observe
          /\ Current(r)'.sent = Current(r).sent
      BY <1>3, <2>2 DEF ViewsBut
    <3>2. QED  BY <1>1, <1>2, <3>1 DEF InHand, Answered, Now
  <2>3. QED  BY <2>1, <2>2
<1>10. Due(r)'
  <2> SUFFICES ASSUME NEW d \in Clients, relations[d] # None
               PROVE  Fresh(d) \/ d \in worker[r].keys \/ relations[d] \in worker[r].todo \cup {t, r}
    BY <1>1, <1>2, <1>7 DEF Due, Fresh
  <2>1. QED  BY <1>1, <1>2 DEF Due
<1>11. InHand' /\ \A q \in Requests : Due(q)'
  BY <1>8, <1>9, <1>10, OfTheOne
<1>12. QED  BY <1>5, <1>6, <1>7, <1>11

\* The mark is reset when no observer is left but the worker itself.
LEMMA OrderNotifyEnd ==
  ASSUME Base, Base', Grown, OrderInv, NEW r \in Requests, Only(r)', NotifyEnd(r)
  PROVE  OrderInv'
<1> USE DEF Base, OrderInv
<1>1. /\ worker[r].pc = "collect" /\ worker[r].at = None /\ worker[r].keys = {} /\ worker[r].todo = {}
      /\ Moved(r, [worker[r] EXCEPT !.pc = ToAnswer(r)]) /\ changed' = FALSE
      /\ UNCHANGED <<payload, observeCount, relations, resourceSet, notes, response, retransmitter, last>>
  BY NotifyEndStep
<1>2. worker'[r].pc = ToAnswer(r) /\ worker'[r].at = None /\ Active(r)
  BY <1>1, NewPc DEF Pcs, ToAnswer, Active
<1>3. SameLast /\ Views /\ Fewer
  BY <1>1, SameLasts, SameViews DEF Fewer
<1>4. SentIsLast' /\ ThreadsAreSent' /\ LastIsBounded'
  BY <1>1, <1>3, SentStays, ThreadsStaySent, LastStays
<1>5. RelationsAreSet'
  BY <1>1, <1>3, RelationsStay
<1>6. Answered(r)'
  BY <1>1, <1>2, <1>3, AnsweredStays DEF InHand
<1>7. Notified(r)' /\ Sending(r)' /\ Due(r)'
  BY <1>2 DEF Notified, Sending, Due, ToAnswer
<1>8. InHand' /\ \A q \in Requests : Due(q)'
  BY <1>6, <1>7, OfTheOne
<1>9. AtRest'
  <2> SUFFICES ASSUME NEW c \in Clients, relations'[c] # None
               PROVE  (Fresh(c) \/ Active(relations[c]))'
    BY DEF AtRest
  <2>1. Fresh(c) \/ relations[c] = r
    BY <1>1 DEF Due
  <2>2. CASE relations[c] = r
    <3>1. r \in Observes
      BY <1>1, <2>2, Basics DEF Types, RelationsType
    <3>2. worker'[r].pc = "observe"
      BY <1>2, <3>1 DEF ToAnswer
    <3>3. QED  BY <1>1, <2>2, <3>2 DEF Active
  <2>3. QED  BY <1>1, <2>1, <2>2 DEF Fresh
<1>10. QED  BY <1>4, <1>5, <1>8, <1>9

\* The test changes nothing but the step.
LEMMA OrderObserveTest ==
  ASSUME Base, Base', Grown, OrderInv, NEW r \in Requests, Only(r)', ObserveTest(r)
  PROVE  OrderInv'
<1> USE DEF Base, OrderInv
<1>0. Answering(r) /\ Active(r)
  BY DEF ObserveTest, Answering, Active
<1>1. Subject(r) \in Observes /\ Subject(r).client \in Clients
  BY <1>0, SubjectType
<1> PICK t \in Observes : t = Subject(r)
  BY <1>1
<1> DEFINE pc == IF relations[t.client] # None THEN "register" ELSE "message"
<1>2. /\ worker[r].pc = "observe" /\ Moved(r, [worker[r] EXCEPT !.pc = pc])
      /\ UNCHANGED <<payload, observeCount, changed, relations, resourceSet, notes, response, retransmitter, last>>
  BY ObserveTestStep DEF resource
<1>3. pc \in Pcs
  BY DEF Pcs
<1>4. /\ worker'[r].pc = pc /\ worker'[r].at = worker[r].at /\ worker'[r].todo = worker[r].todo
      /\ worker'[r].keys = worker[r].keys /\ Subject(r)' = t
  BY <1>2, <1>3, NewPc DEF Subject
<1>5. SameLast /\ Views /\ Fewer
  BY <1>2, SameLasts, SameViews DEF Fewer
<1>6. SentIsLast' /\ ThreadsAreSent' /\ LastIsBounded'
  BY <1>2, <1>5, SentStays, ThreadsStaySent, LastStays
<1>7. RelationsAreSet'
  BY <1>2, <1>5, RelationsStay
<1>8. Answered(r)'
  BY <1>0, <1>2, <1>5, AnsweredStays DEF InHand
<1>9. Notified(r)'
  BY <1>0, <1>2, <1>4 DEF InHand, Notified, Now, Current
<1>10. Sending(r)'
  BY <1>2, <1>4 DEF Sending
<1>11. worker'[r].pc \notin {"collect", "done", "dead"}
  BY <1>4
<1> HIDE DEF pc
<1>12. Due(r)'
  BY <1>2, <1>4, <1>11 DEF Due, Fresh
<1>13. InHand' /\ \A q \in Requests : Due(q)'
  BY <1>8, <1>9, <1>10, <1>12, OfTheOne
<1>14. AtRest'
  <2> SUFFICES ASSUME ~changed', NEW c \in Clients, relations'[c] # None
               PROVE  (Fresh(c) \/ Active(relations[c]))'
    BY DEF AtRest
  <2>1. Fresh(c) \/ relations[c] = r
    BY <1>0, <1>2, RestOf
  <2>2. worker'[r].pc \in {"register", "message"}
    BY <1>4 DEF pc
  <2>3. QED  BY <1>2, <2>1, <2>2 DEF Fresh, Active
<1>15. QED  BY <1>6, <1>7, <1>13, <1>14

\* The note gets the count; the entry is that of the one transaction of the client.
LEMMA OrderObserveRegister ==
  ASSUME OneRegistration, Base, Base', Grown, OrderInv, NEW r \in Requests, Only(r)', ObserveRegister(r)
  PROVE  OrderInv'
<1> USE DEF Base, OrderInv
<1>0. Answering(r) /\ Active(r)
  BY DEF ObserveRegister, Answering, Active
<1>1. Subject(r) \in Observes /\ Subject(r).client \in Clients
  BY <1>0, SubjectType
<1> PICK t \in Observes : t = Subject(r)
  BY <1>1
<1> DEFINE e == [Current(t) EXCEPT !.observe = observeCount]
           v == [worker[r] EXCEPT !.pc = "message"]
<1>2. /\ worker[r].pc = "register" /\ response[t] # 0
      /\ UNCHANGED <<payload, observeCount, changed, resourceSet, response, retransmitter, last>>
      /\ \/ /\ relations[t.client] = None /\ Moved(r, DeadWorker) /\ UNCHANGED <<relations, notes>>
         \/ /\ relations[t.client] # None /\ Moved(r, v)
            /\ Replaced(t, response[t], e)
            /\ relations'[t.client] = t
            /\ \A c \in Clients : c # t.client => relations'[c] = relations[c]
  BY ObserveRegisterStep DEF resource
<1>3. SameLast
  BY <1>2, SameLasts
<1>4. ThreadsAreSent' /\ LastIsBounded'
  BY <1>2, <1>3, ThreadsStaySent, LastStays
<1>5. CASE relations[t.client] = None /\ Moved(r, DeadWorker) /\ UNCHANGED <<relations, notes>>
  <2>1. worker'[r].pc = "dead" /\ worker'[r].at = None
    BY <1>5 DEF Moved, DeadWorker
  <2>2. Views /\ Fewer
    BY <1>2, <1>5, SameViews DEF Fewer
  <2>3. SentIsLast' /\ RelationsAreSet'
    BY <1>2, <1>3, <1>5, <2>2, SentStays, RelationsStay
  <2>4. InHand' /\ \A q \in Requests : Due(q)'
    BY <2>1, EmptyHand, OfTheOne
  <2>5. AtRest'
    <3> SUFFICES ASSUME ~changed', NEW c \in Clients, relations'[c] # None
                 PROVE  Fresh(c)'
      BY DEF AtRest
    <3>1. worker[r].at = None
      BY <1>2 DEF Due
    <3>2. relations[c] # r
      <4>1. relations[c] # None => relations[c].client = c
        BY DEF Types, RelationsType
      <4>2. QED  BY <1>5, <3>1, <4>1 DEF Subject
    <3>3. Fresh(c)
      BY <1>0, <1>2, <1>5, <3>2, RestOf
    <3>4. QED  BY <1>2, <3>3 DEF Fresh
  <2>6. QED  BY <1>4, <2>3, <2>4, <2>5
<1>6. CASE /\ relations[t.client] # None /\ Moved(r, v)
           /\ Replaced(t, response[t], e)
           /\ relations'[t.client] = t
           /\ \A c \in Clients : c # t.client => relations'[c] = relations[c]
  <2>1. \A c \in Clients : relations'[c] = relations[c]
    <3>1. relations[t.client] \in Observes /\ relations[t.client].client = t.client
      BY <1>1, <1>6 DEF Types, RelationsType
    <3>2. QED  BY <1>6, <3>1 DEF OneRegistration
  <2>2. Fewer
    BY <2>1 DEF Fewer
  <2>3. /\ worker'[r].pc = "message" /\ worker'[r].at = worker[r].at /\ worker'[r].todo = worker[r].todo
        /\ worker'[r].keys = worker[r].keys /\ Subject(r)' = t
    BY <1>6, NewPc DEF Subject, Pcs
  <2>4. /\ e.payload = Current(t).payload /\ e.observe = observeCount /\ e.sent = Current(t).sent
    BY <1>2, CurrentType DEF NoteType
  <2> HIDE DEF e, v
  <2>5. ViewsBut(t) /\ Current(t)' = e /\ (e.observe = Current(t).observe => Views)
    BY <1>2, <1>6, <2>4, ReplacedHand
  <2>6. RelationsAreSet'
    BY <1>2, <1>6, <2>2, RelationsStay
  <2>7. worker[r].at = None => t = r
    BY DEF Subject
  <2>8. worker[r].at # None => t = worker[r].at
    BY DEF Subject
  <2>9. Now(t)
    BY <1>0, <1>2, <2>7, <2>8 DEF InHand, Notified, Answered
  <2>10. Current(t).sent => Current(t).observe = observeCount
    BY <1>0, <1>2, <1>6, <2>7, <2>8 DEF InHand, Notified, Answered
  <2>11. SentIsLast'
    <3>1. CASE Current(t).sent
      BY <1>3, <2>4, <2>5, <2>10, <3>1, SentStays
    <3>2. CASE ~Current(t).sent
      BY <1>3, <2>4, <2>5, <3>2, SentStays
    <3>3. QED  BY <3>1, <3>2
  <2>12. Notified(r)'
    BY <1>0, <1>2, <2>3, <2>4, <2>5, <2>8, <2>9 DEF InHand, Notified, Now
  <2>13. Sending(r)'
    BY <1>2, <2>3, <2>4, <2>5 DEF Sending
  <2>14. Answered(r)'
    <3> SUFFICES ASSUME r \in Observes, response'[r] # 0
                 PROVE  (Now(r) /\ (Current(r).sent /\ relations[r.client] # None => Current(r).observe = observeCount))'
      BY DEF Answered
    <3>1. CASE r = t
      BY <1>2, <2>4, <2>5, <2>9, <3>1 DEF Now
    <3>2. CASE r # t
      <4>1. response[r] # 0 /\ Current(r)'.payload = Current(r).payload /\ Current(r)'.observe = Current(r).observe
            /\ Current(r)'.sent = Current(r).sent /\ r.client \in Clients
        BY <1>2, <2>5, <3>2, Basics DEF ViewsBut
      <4>2. Now(r) /\ (Current(r).sent /\ relations[r.client] # None => Current(r).observe = observeCount)
        BY <1>0, <1>2, <4>1 DEF InHand, Answered
      <4>3. QED  BY <1>2, <2>1, <4>1, <4>2 DEF Now
    <3>3. QED  BY <3>1, <3>2
  <2>15. Due(r)'
    <3> SUFFICES ASSUME worker[r].at # None
                 PROVE  /\ changed
                        /\ \A c \in Clients : relations[c] # None =>
                             Fresh(c) \/ c \in worker[r].keys \/ relations[c] \in worker[r].todo \cup {worker[r].at, r}
      BY <1>2, <2>1, <2>3 DEF Due, Fresh
    <3>1. QED  BY DEF Due
  <2>16. InHand' /\ \A q \in Requests : Due(q)'
    BY <2>12, <2>13, <2>14, <2>15, OfTheOne
  <2>17. AtRest'
    <3> SUFFICES ASSUME ~changed', NEW c \in Clients, relations'[c] # None
                 PROVE  (Fresh(c) \/ Active(relations[c]))'
      BY DEF AtRest
    <3>1. Fresh(c) \/ relations[c] = r
      BY <1>0, <1>2, <2>1, RestOf
    <3>2. QED  BY <1>2, <2>1, <2>3, <3>1 DEF Fresh, Active
  <2>18. QED  BY <1>4, <2>6, <2>11, <2>16, <2>17
<1>7. QED  BY <1>2, <1>5, <1>6

\* The note gets its mid.
LEMMA OrderSendMessage ==
  ASSUME Base, Base', Grown, OrderInv, NEW r \in Requests, Only(r)', SendMessage(r)
  PROVE  OrderInv'
<1> USE DEF Base, OrderInv
<1>0. Answering(r) /\ Active(r)
  BY DEF SendMessage, Answering, Active
<1>1. Subject(r) \in Observes /\ Subject(r).client \in Clients
  BY <1>0, SubjectType
<1> PICK t \in Observes : t = Subject(r)
  BY <1>1
<1> DEFINE e == Message(t)
<1>2. /\ worker[r].pc = "message" /\ response[t] # 0
      /\ Moved(r, [worker[r] EXCEPT !.pc = "send"]) /\ Replaced(t, response[t], e)
      /\ UNCHANGED <<payload, observeCount, changed, relations, resourceSet, response, retransmitter, last>>
  BY SendMessageStep DEF resource
<1>3. /\ e.payload = Current(t).payload /\ e.observe = Current(t).observe /\ e.sent = Current(t).sent /\ e.mid
  <2>1. Current(t) \in NoteType
    BY <1>2, CurrentType
  <2>2. QED  BY <2>1 DEF NoteType, Message
<1>4. /\ worker'[r].pc = "send" /\ worker'[r].at = worker[r].at /\ worker'[r].todo = worker[r].todo
      /\ worker'[r].keys = worker[r].keys /\ Subject(r)' = t
  BY <1>2, NewPc DEF Subject, Pcs
<1> HIDE DEF e
<1>5. Views /\ Current(t)' = e
  BY <1>2, <1>3, ReplacedHand
<1>6. SameLast /\ Fewer
  BY <1>2, SameLasts DEF Fewer
<1>7. SentIsLast' /\ ThreadsAreSent' /\ LastIsBounded'
  BY <1>2, <1>5, <1>6, SentStays, ThreadsStaySent, LastStays
<1>8. RelationsAreSet'
  BY <1>2, <1>6, RelationsStay
<1>9. Answered(r)'
  BY <1>0, <1>2, <1>5, <1>6, AnsweredStays DEF InHand
<1>10. Notified(r)'
  <2> SUFFICES ASSUME worker[r].at # None
               PROVE  (Now(t) /\ ~Current(t).sent)'
    BY <1>4 DEF Notified, Subject
  <2>1. Now(t) /\ ~Current(t).sent
    BY <1>0 DEF InHand, Notified, Subject
  <2>2. QED  BY <1>2, <1>3, <1>5, <2>1 DEF Now
<1>11. Sending(r)'
  <2>1. relations[t.client] # None => Current(t).observe = observeCount
    BY <1>2 DEF InHand, Sending
  <2>2. QED  BY <1>2, <1>3, <1>4, <1>5, <2>1 DEF Sending
<1>12. Due(r)'
  BY <1>2, <1>4 DEF Due, Fresh
<1>13. InHand' /\ \A q \in Requests : Due(q)'
  BY <1>9, <1>10, <1>11, <1>12, OfTheOne
<1>14. AtRest'
  <2> SUFFICES ASSUME ~changed', NEW c \in Clients, relations'[c] # None
               PROVE  (Fresh(c) \/ Active(relations[c]))'
    BY DEF AtRest
  <2>1. Fresh(c) \/ relations[c] = r
    BY <1>0, <1>2, RestOf
  <2>2. QED  BY <1>2, <1>4, <2>1 DEF Fresh, Active
<1>15. QED  BY <1>7, <1>8, <1>13, <1>14

\* What a worker sends is of now, and what its client has seen is not newer.
LEMMA SendsNow ==
  ASSUME OneRegistration, Base, OrderInv, NEW r \in Requests, SendDatagram(r), NEW t \in Observes, t = Subject(r)
  PROVE  /\ Current(t).mid /\ Now(t) /\ response[t] # 0 /\ Received(t, response[t]) /\ Active(r)
         /\ Replaced(t, response[t], [Current(t) EXCEPT !.sent = TRUE])
         /\ relations[t.client] # None => Current(t).observe = observeCount
<1> USE DEF Base, OrderInv
<1>1. Answering(r) /\ Active(r) /\ worker[r].pc = "send"
  BY DEF SendDatagram, Answering, Active
<1>2. response[t] # 0
  BY <1>1 DEF HasResponse
<1>3. Current(t).mid /\ (relations[t.client] # None => Current(t).observe = observeCount)
  BY <1>1 DEF InHand, Sending
<1>4. /\ Replaced(t, response[t], [Current(t) EXCEPT !.sent = TRUE])
      /\ Received(t, response[t])
  BY <1>3, SendDatagramStep
<1>5. Now(t)
  <2>1. CASE worker[r].at = None
    BY <1>1, <1>2, <2>1 DEF InHand, Answered, Subject
  <2>2. CASE worker[r].at # None
    BY <1>1, <2>2 DEF InHand, Notified, Subject
  <2>3. QED  BY <2>1, <2>2
<1>6. QED  BY <1>1, <1>2, <1>3, <1>4, <1>5

\* What is sent is what the client has seen last, and then it has the payload.
LEMMA OrderSendDatagram ==
  ASSUME OneRegistration, Base, Base', Grown, OrderInv, NEW r \in Requests, Only(r)', SendDatagram(r)
  PROVE  OrderInv'
<1> USE DEF Base, OrderInv
<1>0. Subject(r) \in Observes
  <2>1. Answering(r)
    BY DEF SendDatagram, Answering
  <2>2. QED  BY <2>1, SubjectType
<1> PICK t \in Observes : t = Subject(r)
  BY <1>0
<1> DEFINE e == [Current(t) EXCEPT !.sent = TRUE]
           w == [worker[r] EXCEPT !.pc = IF worker[r].at = None THEN "done" ELSE "collect", !.at = None]
<1>1. /\ worker[r].pc = "send" /\ Moved(r, w)
      /\ UNCHANGED <<payload, observeCount, changed, relations, resourceSet, response>>
      /\ \A x \in Retransmitters : retransmitter'[x].pc # "new" =>
           retransmitter[x].pc # "new" \/ (x[1] = t /\ x[2] = response[t])
  BY SendDatagramStep DEF resource
<1>2. /\ Now(t) /\ response[t] # 0 /\ Received(t, response[t]) /\ Active(r) /\ Replaced(t, response[t], e)
      /\ relations[t.client] # None => Current(t).observe = observeCount
  BY SendsNow
<1>3. e.payload = Current(t).payload /\ e.observe = Current(t).observe /\ e.sent
  BY <1>2, CurrentType DEF NoteType
<1>4. w.pc = (IF worker[r].at = None THEN "done" ELSE "collect") /\ w.at = None /\ w.todo = worker[r].todo
      /\ w.keys = worker[r].keys
  BY WorkerFields DEF Types, WorkerType
<1> HIDE DEF e, w
<1>5. worker'[r] = w
  BY <1>1 DEF Moved
<1>6. ViewsBut(t) /\ Current(t)' = e
  BY <1>1, <1>2, ReplacedHand
<1>7. /\ last'[t.client].observe = Current(t).observe /\ last'[t.client].payload = Current(t).payload
      /\ \A c \in Clients : c # t.client => last'[c] = last[c]
  BY <1>2 DEF Received, Current
<1>8. SentIsLast'
  <2> SUFFICES ASSUME NEW u \in Observes, response'[u] # 0, Current(u)'.sent
               PROVE  last'[u.client].observe = Current(u)'.observe /\ last'[u.client].payload = Current(u)'.payload
    BY DEF SentIsLast
  <2>1. CASE u = t
    BY <1>3, <1>6, <1>7, <2>1
  <2>2. CASE u # t
    <3>1. u.client # t.client /\ u.client \in Clients
      BY <2>2, Basics DEF OneRegistration
    <3>2. QED  BY <1>6, <1>7, <2>2, <3>1 DEF ViewsBut, SentIsLast
  <2>3. QED  BY <2>1, <2>2
<1>9. ThreadsAreSent'
  <2> SUFFICES ASSUME NEW x \in Retransmitters, retransmitter'[x].pc # "new"
               PROVE  notes'[x[1]][x[2]].sent
    BY DEF ThreadsAreSent, NoteOf
  <2>1. CASE x[1] = t /\ x[2] = response[t]
    BY <1>2, <1>3, <2>1 DEF Replaced
  <2>2. CASE retransmitter[x].pc # "new"
    <3>1. x[1] \in Observes /\ x[2] \in 1..Len(notes[x[1]]) /\ notes[x[1]][x[2]].sent
      BY <2>2, RetransmitterType DEF ThreadsOfNotes, ThreadsAreSent, NoteOf
    <3>2. QED  BY <3>1 DEF Grown
  <2>3. QED  BY <1>1, <2>1, <2>2
<1>10. LastIsBounded'
  <2>1. observeCount \in Nat
    BY DEF Types, RestType
  <2>2. QED  BY <1>1, <1>2, <1>7, <2>1 DEF LastIsBounded, Now
<1>11. RelationsAreSet'
  BY <1>1, RelationsStay DEF Fewer
<1>12. Answered(r)'
  <2> SUFFICES ASSUME r \in Observes, response'[r] # 0
               PROVE  (Now(r) /\ (Current(r).sent /\ relations[r.client] # None => Current(r).observe = observeCount))'
    BY DEF Answered
  <2>1. CASE r = t
    BY <1>1, <1>2, <1>3, <1>6, <2>1 DEF Now
  <2>2. CASE r # t
    <3>1. response[r] # 0 /\ Current(r)'.payload = Current(r).payload /\ Current(r)'.observe = Current(r).observe
          /\ Current(r)'.sent = Current(r).sent
      BY <1>1, <1>6, <2>2 DEF ViewsBut
    <3>2. QED  BY <1>1, <1>2, <3>1 DEF InHand, Answered, Now
  <2>3. QED  BY <2>1, <2>2
<1>13. Notified(r)' /\ Sending(r)'
  BY <1>4, <1>5 DEF Notified, Sending
\* What was at hand has been received.
<1>14. ASSUME NEW c \in Clients, relations[c] = t  PROVE Fresh(c)'
  <2>1. c = t.client
    BY <1>14, Basics DEF Types, RelationsType
  <2>2. QED  BY <1>1, <1>2, <1>7, <2>1 DEF Fresh, Now
<1>15. ASSUME NEW c \in Clients, Fresh(c)  PROVE Fresh(c)'
  BY <1>1, <1>2, <1>7, <1>15 DEF Fresh, Now
<1>16. Due(r)'
  <2> SUFFICES ASSUME worker[r].at # None, NEW c \in Clients, relations[c] # None
               PROVE  changed /\ (Fresh(c)' \/ c \in w.keys \/ relations[c] \in w.todo \cup {w.at, r})
    BY <1>1, <1>4, <1>5 DEF Due
  <2>1. t = worker[r].at
    BY DEF Subject
  <2>2. QED  BY <1>4, <1>14, <1>15, <2>1 DEF Due
<1>17. InHand' /\ \A q \in Requests : Due(q)'
  BY <1>12, <1>13, <1>16, OfTheOne
<1>18. AtRest'
  <2> SUFFICES ASSUME ~changed', NEW c \in Clients, relations'[c] # None
               PROVE  Fresh(c)'
    BY DEF AtRest
  <2>1. worker[r].at = None /\ t = r
    BY <1>1 DEF Due, Subject
  <2>2. Fresh(c) \/ relations[c] = r
    BY <1>1, <1>2, RestOf
  <2>3. QED  BY <1>14, <1>15, <2>1, <2>2
<1>19. QED  BY <1>8, <1>9, <1>10, <1>11, <1>17, <1>18

\* The other threads send, at most, what the client has already.
LEMMA OrderStays ==
  ASSUME Base, Grown, OrderInv, Views, SameLast, Fewer,
         \A u \in Observes : response[u] # 0 => (Current(u).mid => Current(u)'.mid),
         UNCHANGED <<payload, observeCount, changed, resourceSet, worker>>,
         \A x \in Retransmitters : retransmitter'[x].pc # "new" => retransmitter[x].pc # "new"
  PROVE  OrderInv'
<1> USE DEF Base, OrderInv
<1>1. SentIsLast' /\ ThreadsAreSent' /\ LastIsBounded'
  BY SentStays, ThreadsStaySent, LastStays
<1>2. ASSUME NEW c \in Clients, relations'[c] # None  PROVE relations'[c] = relations[c]
  BY <1>2 DEF Fewer
<1>3. RelationsAreSet'
  BY <1>2 DEF RelationsAreSet
<1>4. ASSUME NEW c \in Clients, Fresh(c)  PROVE Fresh(c)'
  BY <1>4 DEF Fresh, SameLast
<1>5. AtRest' /\ \A r \in Requests : Due(r)'
  <2>1. AtRest'
    <3> SUFFICES ASSUME ~changed, NEW c \in Clients, relations'[c] # None,
                        \A r \in Requests : worker[r].pc # "put"
                 PROVE  (Fresh(c) \/ Active(relations[c]))'
      BY DEF AtRest
    <3>1. Fresh(c) \/ Active(relations[c])
      BY <1>2 DEF AtRest
    <3>2. QED  BY <1>2, <1>4, <3>1 DEF Active
  <2>2. ASSUME NEW r \in Requests  PROVE Due(r)'
    <3> SUFFICES ASSUME worker[r].pc = "collect" \/ worker[r].at # None, NEW c \in Clients, relations'[c] # None
                 PROVE  changed /\ (Fresh(c)' \/ c \in worker[r].keys \/ relations[c] \in worker[r].todo \cup {worker[r].at, r})
      BY <1>2 DEF Due
    <3>1. QED  BY <1>2, <1>4 DEF Due
  <2>3. QED  BY <2>1, <2>2
<1>6. ASSUME NEW r \in Requests  PROVE (Notified(r) /\ Answered(r) /\ Sending(r))'
  <2>1. Notified(r)'
    <3> SUFFICES ASSUME Answering(r), worker[r].at # None
                 PROVE  (Now(worker[r].at) /\ ~Current(worker[r].at).sent)'
      BY DEF Notified, Answering
    <3> PICK t \in Observes : t = worker[r].at
      BY WorkerFields DEF Types, WorkerType
    <3>1. response[t] # 0 /\ Now(t) /\ ~Current(t).sent /\ worker'[r].at = t
      BY DEF HasResponse, Subject, InHand, Notified
    <3>2. (Now(t) /\ ~Current(t).sent)'
      BY <3>1 DEF Views, Now
    <3>3. QED  BY <3>1, <3>2 DEF Now, Current
  <2>2. Answered(r)'
    <3>1. CASE Active(r) /\ worker[r].pc # "request"
      BY <3>1, AnsweredStays DEF InHand
    <3>2. CASE ~(Active(r) /\ worker[r].pc # "request")
      BY <3>2 DEF Answered, Active
    <3>3. QED  BY <3>1, <3>2
  <2>3. Sending(r)'
    <3> SUFFICES ASSUME worker[r].pc \in {"message", "send"}
                 PROVE  (/\ relations[Subject(r).client] # None => Current(Subject(r)).observe = observeCount
                         /\ worker[r].pc = "send" => Current(Subject(r)).mid)'
      BY DEF Sending
    <3>1. Answering(r)
      BY DEF Answering
    <3> PICK t \in Observes : t = Subject(r)
      BY <3>1, SubjectType
    <3>2. response[t] # 0 /\ Subject(r)' = t /\ t.client \in Clients
      BY <3>1, Basics DEF HasResponse, Subject
    <3>3. /\ relations[t.client] # None => Current(t).observe = observeCount
          /\ worker[r].pc = "send" => Current(t).mid
      BY DEF InHand, Sending
    <3>4. (/\ relations[t.client] # None => Current(t).observe = observeCount
           /\ worker[r].pc = "send" => Current(t).mid)'
      BY <1>2, <3>2, <3>3 DEF Views
    <3>5. QED  BY <3>2, <3>4 DEF Current
  <2>4. QED  BY <2>1, <2>2, <2>3
<1>7. QED  BY <1>1, <1>3, <1>5, <1>6 DEF InHand

\* Only a note that is current has a mid, and its client has that one already.
LEMMA OrderRound ==
  ASSUME Base, Grown, StripInv, OrderInv, NEW x \in Retransmitters, RetransmitRound(x)
  PROVE  OrderInv' /\ SameLast
<1> USE DEF Base, OrderInv
<1> DEFINE t == x[1]
           n == x[2]
           e == [NoteOf(x) EXCEPT !.sent = TRUE]
<1>1. /\ Resent(x)
      /\ UNCHANGED <<notes, last>> \/
         /\ NoteOf(x).mid /\ Replaced(t, n, e)
         /\ last' = [last EXCEPT ![t.client] = [observe |-> NoteOf(x).observe, payload |-> NoteOf(x).payload]]
  BY RoundResends
<1>2. t \in Observes /\ n \in 1..Len(notes[t]) /\ t.client \in Clients
  BY RetransmitterType, Basics DEF RetransmitRound, ThreadsOfNotes
<1>3. NoteOf(x) \in NoteType /\ NoteOf(x).sent
  BY <1>2, NoteFields DEF NoteOf, ThreadsAreSent, RetransmitRound
<1>4. /\ UNCHANGED <<payload, observeCount, changed, relations, resourceSet, response, worker>>
      /\ \A y \in Retransmitters : retransmitter'[y].pc # "new" => retransmitter[y].pc # "new"
  BY <1>1 DEF Resent, resource
<1>5. Fewer
  BY <1>4 DEF Fewer
<1>6. CASE UNCHANGED <<notes, last>>
  <2>1. SameLast /\ Views
    BY <1>4, <1>6, SameLasts, SameViews
  <2>2. \A u \in Observes : Current(u)' = Current(u)
    BY <1>4, <1>6 DEF Current
  <2>3. QED  BY <1>4, <1>5, <2>1, <2>2, OrderStays
<1>7. CASE /\ NoteOf(x).mid /\ Replaced(t, n, e)
           /\ last' = [last EXCEPT ![t.client] = [observe |-> NoteOf(x).observe, payload |-> NoteOf(x).payload]]
  <2>1. n = response[t] /\ response[t] # 0 /\ NoteOf(x) = Current(t)
    BY <1>2, <1>7 DEF StripInv, OthersAreBare, Bare, NoteOf, Current
  <2>2. e.payload = Current(t).payload /\ e.observe = Current(t).observe /\ e.sent = Current(t).sent
        /\ e.mid = Current(t).mid
    BY <1>3, <2>1 DEF NoteType
  <2>3. last[t.client].observe = Current(t).observe /\ last[t.client].payload = Current(t).payload
    BY <1>2, <1>3, <2>1 DEF SentIsLast
  <2>4. SameLast
    BY <1>2, <1>7, <2>1, <2>3 DEF SameLast, Types, RestType
  <2> HIDE DEF e
  <2>5. Views
    BY <1>2, <1>4, <1>7, <2>1, <2>2, ReplacedHand
  <2>6. ASSUME NEW u \in Observes, response[u] # 0  PROVE Current(u).mid => Current(u)'.mid
    <3>1. response[u] \in 1..Len(notes[u]) /\ response'[u] = response[u]
      BY <1>4, <2>6, CurrentType
    <3>2. CASE u = t
      BY <1>7, <2>1, <2>2, <3>1, <3>2 DEF Replaced, Current
    <3>3. CASE u # t
      BY <1>7, <3>1, <3>3 DEF Replaced, Current
    <3>4. QED  BY <3>2, <3>3
  <2>7. QED  BY <1>4, <1>5, <2>4, <2>5, <2>6, OrderStays
<1>8. QED  BY <1>1, <1>6, <1>7

\* Marks and deletions keep OrderInv.
LEMMA OrderOthers ==
  ASSUME Base, OrderInv, Others \/ UNCHANGED vars
  PROVE  OrderInv' /\ SameLast
<1> USE DEF Base
<1>1. Quiet /\ Grown
  BY BaseOther
<1>2. /\ UNCHANGED <<payload, observeCount, changed, resourceSet, worker, last>> /\ Kept /\ Fewer
      /\ \A x \in Retransmitters : retransmitter'[x].pc # "new" => retransmitter[x].pc # "new"
  BY <1>1 DEF Quiet, resource, Fewer
<1>3. Views /\ SameLast
  BY <1>2, KeptViews, SameLasts
<1>4. ASSUME NEW u \in Observes, response[u] # 0  PROVE Current(u).mid => Current(u)'.mid
  <2>1. response[u] \in 1..Len(notes[u]) /\ response'[u] = response[u]
    BY <1>2, <1>4, CurrentType DEF Kept
  <2>2. QED  BY <1>2, <2>1 DEF Kept, SameNote, Current
<1>5. QED  BY <1>1, <1>2, <1>3, <1>4, OrderStays

-----------------------------------------------------------------------------
(* The theorems.                                                           *)

\* A client is not shown an older state.
NotOlder == \A c \in Clients : last'[c].observe # 0 => last'[c].observe >= last[c].observe

\* What a client sees again is not older.
LEMMA SameIsNotOlder ==
  ASSUME Types, SameLast
  PROVE  NotOlder
BY DEF Types, RestType, SameLast, NotOlder

\* What a worker sends is not older.
LEMMA SentIsNotOlder ==
  ASSUME OneRegistration, Base, OrderInv, NEW r \in Requests, SendDatagram(r)
  PROVE  NotOlder
<1> USE DEF Base, OrderInv
<1>1. Subject(r) \in Observes
  <2>1. Answering(r)
    BY DEF SendDatagram, Answering
  <2>2. QED  BY <2>1, SubjectType
<1> PICK t \in Observes : t = Subject(r)
  BY <1>1
<1>2. Now(t) /\ Received(t, response[t])
  BY SendsNow
<1>3. observeCount \in Nat /\ \A c \in Clients : last[c].observe \in Nat
  BY DEF Types, RestType
<1>4. /\ last'[t.client].observe \in {0, observeCount}
      /\ \A c \in Clients : c # t.client => last'[c] = last[c]
  BY <1>2 DEF Received, Now, Current
<1>5. QED  BY <1>3, <1>4 DEF NotOlder, LastIsBounded

\* OrderInv is inductive relative to Base and StripInv, and nothing older is sent.
LEMMA OrderStep ==
  ASSUME OneRegistration, Serial, Base, StripInv, OrderInv, [Next]_vars
  PROVE  OrderInv' /\ NotOlder
<1>1. Base' /\ Grown
  BY BaseStep
<1>2. CASE \E r \in Requests : Begin(r) \/ HandleRequest(r) \/ HandlePut(r) \/ TestChanged(r)
  <2>1. PICK r \in Requests : Begin(r) \/ HandleRequest(r) \/ HandlePut(r) \/ TestChanged(r)
    BY <1>2
  <2>2. Only(r)'
    BY <2>1, BaseHandle
  <2>3. OrderInv'
    BY <1>1, <2>1, <2>2, OrderBegin, OrderHandleObserve, OrderHandleOther, OrderHandlePut, OrderTestChanged
  <2>4. UNCHANGED last
    BY <2>1 DEF Begin, HandleRequest, HandlePut, TestChanged
  <2>5. QED  BY <2>3, <2>4, SameLasts, SameIsNotOlder DEF Base
<1>3. CASE \E r \in Requests : Collect(r) \/ NotifyGet(r) \/ NotifyEnd(r) \/ \E t \in Observes : NotifyNext(r, t)
  <2>1. PICK r \in Requests : Collect(r) \/ NotifyGet(r) \/ NotifyEnd(r) \/ \E t \in Observes : NotifyNext(r, t)
    BY <1>3
  <2>2. Only(r)'
    BY <2>1, BaseNotify
  <2>3. OrderInv'
    BY <1>1, <2>1, <2>2, OrderCollect, OrderNotifyNext, OrderNotifyGet, OrderNotifyEnd
  <2>4. UNCHANGED last
    BY <2>1 DEF Collect, NotifyNext, NotifyGet, NotifyEnd
  <2>5. QED  BY <2>3, <2>4, SameLasts, SameIsNotOlder DEF Base
<1>4. CASE \E r \in Requests : ObserveTest(r) \/ ObserveRegister(r) \/ SendMessage(r)
  <2>1. PICK r \in Requests : ObserveTest(r) \/ ObserveRegister(r) \/ SendMessage(r)
    BY <1>4
  <2>2. Only(r)'
    BY <2>1, BaseAnswer
  <2>3. OrderInv'
    BY <1>1, <2>1, <2>2, OrderObserveTest, OrderObserveRegister, OrderSendMessage
  <2>4. UNCHANGED last
    BY <2>1 DEF ObserveTest, ObserveRegister, SendMessage
  <2>5. QED  BY <2>3, <2>4, SameLasts, SameIsNotOlder DEF Base
<1>5. CASE \E r \in Requests : SendDatagram(r)
  BY <1>1, <1>5, BaseAnswer, OrderSendDatagram, SentIsNotOlder
<1>6. CASE \E x \in Retransmitters : RetransmitRound(x)
  BY <1>1, <1>6, OrderRound, SameIsNotOlder DEF Base
<1>7. CASE Others \/ UNCHANGED vars
  BY <1>7, OrderOthers, SameIsNotOlder DEF Base
<1>8. QED  BY Steps, <1>2, <1>3, <1>4, <1>5, <1>6, <1>7

\* OrderInv holds at first.
LEMMA OrderInit == Init => OrderInv
<1> SUFFICES ASSUME Init PROVE OrderInv
  OBVIOUS
<1>1. \A r \in Requests : worker[r] = [pc |-> "new", at |-> None, todo |-> {}, keys |-> {}]
  BY DEF Init
<1>2. \A r \in Requests : ~Active(r) /\ ~Answering(r)
  BY <1>1 DEF Active, Answering
<1>3. \A c \in Clients : relations[c] = None /\ last[c] = [observe |-> 0, payload |-> None]
  BY DEF Init
<1>4. SentIsLast /\ ThreadsAreSent /\ RelationsAreSet
  BY <1>3 DEF Init, SentIsLast, ThreadsAreSent, RelationsAreSet
<1>5. LastIsBounded
  BY <1>3 DEF Init, LastIsBounded
<1>6. InHand
  BY <1>1, <1>2 DEF InHand, Notified, Answered, Sending
<1>7. AtRest /\ \A r \in Requests : Due(r)
  BY <1>1, <1>3 DEF AtRest, Due
<1>8. QED  BY <1>4, <1>5, <1>6, <1>7 DEF OrderInv

\* The inductive invariant: one worker at a time, a response at hand where one is needed,
\* replaced notes bare, and every observer up to date or still to be notified (observelayer.py
\* 166-201, server/coap.py 205-240, 402-420).
THEOREM ObserveInvariant ==
  ASSUME Serial, OneRegistration
  PROVE  Spec => [](Base /\ StripInv /\ OrderInv)
<1>1. Init => Base /\ StripInv /\ OrderInv
  BY BaseInit, StripInit, OrderInit
<1>2. Base /\ StripInv /\ OrderInv /\ [Next]_vars => (Base /\ StripInv /\ OrderInv)'
  BY BaseStep, StripStep, OrderStep
<1>3. QED  BY <1>1, <1>2, PTL DEF Spec

\* Once the workers rest and no change is marked, every observer has been sent the payload
\* that the resource has, where requests are handled one by one and a client registers once
\* (server/coap.py 223-228, 404).
THEOREM LatestHolds ==
  ASSUME Serial, OneRegistration
  PROVE  Spec => []LatestIsNotified
<1>1. Base /\ StripInv /\ OrderInv => LatestIsNotified
  <2> SUFFICES ASSUME Base, OrderInv, \A r \in Requests : ~Active(r), ~changed,
                      NEW c \in Clients, relations[c] # None
               PROVE  last[c].payload = payload
    BY DEF LatestIsNotified
  <2>1. relations[c] \in Requests
    BY Basics DEF Base, Types, RelationsType
  <2>2. \A r \in Requests : worker[r].pc # "put"
    BY DEF Active
  <2>3. QED  BY <2>1, <2>2 DEF OrderInv, AtRest, Fresh
<1>2. QED  BY <1>1, ObserveInvariant, PTL

\* And no client is sent an older state after a newer one, whatever is retransmitted
\* (observelayer.py 183: the mid of the old Response is taken before there is a new one).
THEOREM OrderHolds ==
  ASSUME Serial, OneRegistration
  PROVE  Spec => NotificationsInOrder
<1>1. Base /\ StripInv /\ OrderInv /\ [Next]_vars =>
        [\A c \in Clients : last'[c].observe # 0 => last'[c].observe >= last[c].observe]_vars
  BY OrderStep DEF NotOlder
<1>2. QED  BY <1>1, ObserveInvariant, PTL DEF Spec, NotificationsInOrder
=============================================================================
