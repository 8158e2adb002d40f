------------------------------- MODULE Proxy -------------------------------
(***************************************************************************)
(* A caching proxy: forward_proxy/coap.py, reverse_proxy/coap.py,          *)
(* layers/forwardLayer.py, layers/cachelayer.py and caching/.  The forward *)
(* proxy has a thread for every datagram, the reverse proxy handles one    *)
(* datagram after the other; both have the same cache and ask the origin   *)
(* servers with a HelperClient.                                            *)
(*                                                                         *)
(* A Response is an object: the cache keeps the one that answered the      *)
(* first request, and hands it out again.  Object r is the Response made   *)
(* for request r.  A state of an origin's resource is its epoch, which is  *)
(* also the payload of a GET and its ETag.                                 *)
(***************************************************************************)
EXTENDS Integers, SequencesExt, MessageLayer

CONSTANTS Uris,          \* sequences of segments, the first names the server
          Scripts,       \* [mode]: sequences of requests, in the order they arrive
          Changing,      \* the resources that others change as well
          CacheSize, MaxAge,
          MaxThreads,    \* bound on the threads of the forward proxy
          MaxEpoch, MaxTime,    \* bounds on changes and on time
          MaxRetransmit

ASSUME BoundsAssumption ==
  /\ CacheSize \in Nat \ {0} /\ MaxAge \in Nat \ {0} /\ MaxEpoch \in Nat \ {0}
  /\ MaxTime \in Nat /\ MaxRetransmit \in Nat /\ MaxThreads \in Nat \ {0} /\ Changing \subseteq Uris
ASSUME ScriptsAssumption ==
  \A m \in {"forward", "reverse"} : \A s \in Scripts[m] :
    s \in Seq([client : STRING, type : {"CON", "NON"}, method : {"GET", "PUT", "POST", "DELETE"},
              uri : Uris, etag : Nat])

VARIABLES
  mode, script,    \* the proxy's class, and the requests it will get
  origin,          \* [Uris]: epoch of the resource and whether it exists
  known,           \* the paths in the reverse proxy's tree
  listener,        \* "starting", "up" or "dead"
  now,
  cache,           \* CacheElements, the one that is discarded next first
  response,        \* the Response objects
  worker,          \* the transactions and the threads that handle them
  written,         \* [Uris]: epoch of the last write that marked the cache
  last             \* the last message sent: its client, mid, token, content

environment == <<mode, script, origin, now>>
vars == <<environment, known, listener, cache, response, worker, written, last>>

Rs == DOMAIN script
\* CacheKey and ReverseCacheKey: the method and the options that are no ETag; CacheKey
\* leaves out Uri-Query, too (is_uri_option), which no request here has.
WrongKey(r) == <<script[r].method>>
Key(r) == <<script[r].method, script[r].uri>>

NoResponse == [code |-> "none", version |-> 0, etag |-> 0, type |-> "none", mid |-> 0, token |-> 0, acked |-> FALSE]
NoReply == [code |-> "none", version |-> 0, etag |-> 0, epoch |-> 0]
NewTransaction == [pc |-> "new", response |-> 0, etags |-> <<>>, flag |-> "open", completed |-> FALSE,
                   reply |-> NoReply, resent |-> 0]

Init ==
  /\ mode \in {"forward", "reverse"} /\ script \in Scripts[mode]
  /\ origin \in [Uris -> {[epoch |-> 1, present |-> p] : p \in BOOLEAN}]
  /\ \A u \in Uris : (Len(u) = 1 => ~origin[u].present) /\ (Len(u) = 2 => origin[u].present)
  /\ known = {} /\ listener = IF mode = "reverse" THEN "starting" ELSE "up"
  /\ now = 0 /\ cache = <<>>
  /\ response = [r \in Rs |-> NoResponse] /\ worker = [r \in Rs |-> NewTransaction]
  /\ written = [u \in Uris |-> 0]
  /\ last = [client |-> "none", mid |-> 0, token |-> 0, code |-> "none", type |-> "none"]

Goto(r, pc) == worker' = [worker EXCEPT ![r].pc = pc]
Active(r) == worker[r].pc \notin {"new", "retransmit", "done", "dead"}
\* An exception ends the thread: the listener's one in the reverse proxy.
Die(r) == Goto(r, "dead") /\ listener' = IF mode = "reverse" THEN "dead" ELSE listener
Send(c, o) == last' = [client |-> c, mid |-> o.mid, token |-> o.token, code |-> o.code, type |-> o.type]

-----------------------------------------------------------------------------
(* The reverse proxy's tree.                                               *)

Ancestors(u) == {SubSeq(u, 1, n) : n \in 1..Len(u)}

\* add_resource: only where the parent is known.
Added(tree, u) == IF Ancestors(u) \ {u} \subseteq tree THEN tree \cup {u} ELSE tree

\* parse_core_link_format: one resource for the first segment of each link.
Discovered == {SubSeq(u, 1, 1) : u \in Uris} \cup {SubSeq(u, 1, 2) : u \in {v \in Uris : origin[v].present}}

Discover ==
  /\ listener = "starting"
  /\ \/ known' = Discovered /\ listener' = "up"
     \/ UNCHANGED known /\ listener' = "dead"
  /\ UNCHANGED <<environment, cache, response, worker, written, last>>

\* with_prefix: the longest one, for POST.
WrongPath(r) ==
  LET found == Ancestors(script[r].uri) \cap known IN
  IF found # {} THEN CHOOSE u \in found : \A v \in found : Len(v) <= Len(u) ELSE script[r].uri
Path(r) ==
  LET found == Ancestors(script[r].uri) \cap known IN
  IF script[r].method = "POST" /\ found # {}
  THEN CHOOSE u \in found : \A v \in found : Len(v) <= Len(u)
  ELSE script[r].uri

-----------------------------------------------------------------------------
(* Receiving.                                                              *)

\* listen: a thread for each datagram, or one datagram after the other.
MayHandle ==
  /\ listener = "up"
  /\ Cardinality({q \in Rs : Active(q)}) < (IF mode = "reverse" THEN 1 ELSE MaxThreads)

Receive(r) ==
  /\ MayHandle /\ worker[r].pc = "new" /\ \A q \in 1..(r - 1) : worker[q].pc # "new"
  /\ script[r].etag <= origin[script[r].uri].epoch
  /\ worker' = [worker EXCEPT ![r].pc = "lookup",
                              ![r].etags = IF script[r].etag = 0 THEN <<>> ELSE <<script[r].etag>>]
  /\ UNCHANGED <<environment, known, listener, cache, response, written, last>>

\* messageLayer.send_response on object o, for request r.
Typed(r, o) ==
  IF o.type # "none" THEN o
  ELSE LET t == ResponseType(script[r].type, worker[r].flag) IN
       [o EXCEPT !.type = t, !.mid = IF t = "ACK" THEN r ELSE @, !.acked = t = "ACK" \/ @,
                 !.token = IF t = "CON" THEN r ELSE @]
Identified(r, o) == IF o.mid = 0 THEN [o EXCEPT !.mid = -r] ELSE o
Finished(r) == Identified(r, Typed(r, response[worker[r].response]))

SendResponse(r, pc) ==
  LET x == worker[r].response IN
  /\ response' = [response EXCEPT ![x] = Finished(r)]
  /\ Send(script[x].client, Finished(r))
  /\ worker' = [worker EXCEPT ![r].pc = pc, ![r].flag = "acknowledged",
                              ![r].completed = @ \/ (response[x].type = "none" /\ Finished(r).type = "ACK")]

\* _send_ack, which does not ask whether the request is confirmable.
SendAck(r) ==
  /\ worker[r].flag # "acknowledged"
  /\ worker' = [worker EXCEPT ![r].flag = "acknowledged", ![r].completed = TRUE]
  /\ last' = [client |-> script[r].client, mid |-> r, token |-> 0, code |-> "none", type |-> "ACK"]
  /\ UNCHANGED <<environment, known, listener, cache, response, written>>

\* The timer of _start_separate_timer, which a thread that dies does not stop.
TimerFires(r) == (Active(r) \/ worker[r].pc = "dead") /\ SendAck(r)

DuplicateCompleted(r) ==
  /\ MayHandle /\ worker[r].pc # "new" /\ worker[r].completed
  /\ worker[r].response # 0    \* otherwise AttributeError ends this thread
  /\ SendResponse(r, worker[r].pc)
  /\ UNCHANGED <<environment, known, listener, cache, written>>

DuplicatePending(r) == MayHandle /\ worker[r].pc # "new" /\ ~worker[r].completed /\ SendAck(r)

-----------------------------------------------------------------------------
(* The cache: caching/cache.py on an LRUCache, whose items move to the end *)
(* of its order whenever they are read.                                    *)

Keys == {cache[i].key : i \in DOMAIN cache}
Find(k) == CHOOSE i \in DOMAIN cache : cache[i].key = k
Touched(i, element) == Append(RemoveAt(cache, i), element)
ETags(o) == IF response[o].etag = 0 THEN <<>> ELSE <<response[o].etag>>

\* cacheLayer.receive_request; the cached Response gets the request's mid in
\* any case, and is the answer unless it is replaced later.
Hit(r, e) == e.fresh /\ now < e.created + MaxAge

LookupMiss(r) ==
  /\ worker[r].pc = "lookup" /\ Key(r) \notin Keys
  /\ Goto(r, "forward")
  /\ UNCHANGED <<environment, known, listener, cache, response, written, last>>

WrongWithMid(r, x) == response
WithMid(r, x) == [response EXCEPT ![x].mid = r]

LookupFound(r) ==
  /\ worker[r].pc = "lookup" /\ Key(r) \in Keys
  /\ LET i == Find(Key(r))
         e == cache[i]
         expired == e.fresh /\ ~Hit(r, e) IN
     /\ cache' = Touched(i, [e EXCEPT !.fresh = @ /\ ~expired])
     /\ response' = WithMid(r, e.object)
     /\ worker' = [worker EXCEPT ![r].pc = IF Hit(r, e) THEN "answer" ELSE "forward",
                                 ![r].response = e.object,
                                 ![r].etags = IF expired THEN @ \o ETags(e.object) ELSE @]
  /\ UNCHANGED <<environment, known, listener, written, last>>

NewElement(r, x) ==
  [key |-> Key(r), uri |-> script[r].uri, object |-> x, fresh |-> TRUE,
   created |-> now, marked |-> written[script[r].uri]]

Add(r, x) ==
  LET others == IF Key(r) \in Keys THEN RemoveAt(cache, Find(Key(r))) ELSE cache
      room == IF Len(others) = CacheSize THEN Tail(others) ELSE others IN
  cache' \in SetToSeqs(ToSet(room) \cup {NewElement(r, x)})

\* search_related compares Proxy-Uris, which no request of a reverse proxy has.
WrongRelated(r, e) == e.key = Key(r)
Related(r, e) == mode = "reverse" \/ e.uri = script[r].uri

Mark(r) ==
  /\ cache' \in SetToSeqs({IF Related(r, e) THEN [e EXCEPT !.fresh = FALSE] ELSE e : e \in ToSet(cache)})
  /\ written' = [written EXCEPT ![script[r].uri] = Max({@, worker[r].reply.epoch})]

-----------------------------------------------------------------------------
(* Forwarding.                                                             *)

\* A new Response; the proxy answers itself what its tree does not have.  The
\* resource made for a server has no remote_server: AttributeError.
Forward(r) ==
  /\ worker[r].pc = "forward"
  /\ response' = [response EXCEPT ![r] = [NoResponse EXCEPT
       !.token = r, !.version = origin[script[r].uri].epoch,
       !.code = IF mode = "reverse" /\ Path(r) \notin known THEN "NOT_FOUND" ELSE "none"]]
  /\ CASE mode = "reverse" /\ Path(r) \notin known ->
            worker' = [worker EXCEPT ![r].pc = "store", ![r].response = r] /\ UNCHANGED listener
       [] mode = "reverse" /\ Path(r) \in known /\ Len(Path(r)) = 1 -> Die(r)
       [] OTHER -> worker' = [worker EXCEPT ![r].pc = "asked", ![r].response = r] /\ UNCHANGED listener
  /\ UNCHANGED <<environment, known, cache, written, last>>

\* What the origin's handlers answer to a request, and what becomes of its resource.
Answer(r) ==
  LET o == origin[script[r].uri]
      method == script[r].method
      reply(code) == [NoReply EXCEPT !.code = code, !.epoch = o.epoch] IN
  IF ~o.present
  THEN IF method \in {"GET", "DELETE"} THEN reply("NOT_FOUND") ELSE [reply("CREATED") EXCEPT !.epoch = @ + 1]
  ELSE CASE method = "DELETE" -> [reply("DELETED") EXCEPT !.epoch = @ + 1]
         [] method \notin {"GET", "DELETE"} -> [reply("CHANGED") EXCEPT !.epoch = @ + 1]
         [] method = "GET" /\ o.epoch \in ToSet(worker[r].etags) -> [reply("VALID") EXCEPT !.etag = o.epoch]
         [] OTHER -> [reply("CONTENT") EXCEPT !.etag = o.epoch, !.version = o.epoch]

\* It may also refuse with a code that check_code does not know, such as 4.08, and it
\* may delete on a POST.
Outcomes(r) ==
  LET o == origin[script[r].uri] IN
  {Answer(r), [NoReply EXCEPT !.code = "INCOMPLETE", !.epoch = o.epoch]}
    \cup {[NoReply EXCEPT !.code = "DELETED", !.epoch = o.epoch + 1] :
            m \in {script[r].method} \cap IF o.present THEN {"POST"} ELSE {}}

OriginAnswers(r) ==
  /\ worker[r].pc = "asked"
  /\ \E a \in Outcomes(r) :
       /\ a.epoch <= MaxEpoch
       /\ origin' = [origin EXCEPT ![script[r].uri] =
            [epoch |-> a.epoch, present |-> (@.present \/ a.code = "CREATED") /\ a.code # "DELETED"]]
       /\ worker' = [worker EXCEPT ![r].pc = "relay", ![r].reply = a]
  /\ UNCHANGED <<mode, script, now, known, listener, cache, response, written, last>>

\* send_request returns None.
OriginSilent(r) ==
  /\ worker[r].pc = "asked"
  /\ Goto(r, "relay")
  /\ UNCHANGED <<environment, known, listener, cache, response, written, last>>

Relayed(r) ==
  [response EXCEPT ![r].code = worker[r].reply.code, ![r].etag = worker[r].reply.etag,
                   ![r].version = IF worker[r].reply.code = "VALID" THEN 0 ELSE worker[r].reply.epoch]

\* _forward_request
ForwardRelay(r) ==
  /\ worker[r].pc = "relay" /\ mode = "forward"
  /\ response' = IF worker[r].reply = NoReply THEN [response EXCEPT ![r].code = "SERVICE_UNAVAILABLE"]
                                              ELSE Relayed(r)
  /\ Goto(r, "store")
  /\ UNCHANGED <<environment, known, listener, cache, written, last>>

\* _handle_request: what was created at the origin is known from now on, what
\* was deleted is not.  None has no payload to read: AttributeError; KeyError if
\* the deleted path is not in the tree.
KnownAfter(r) ==
  CASE worker[r].reply.code = "CREATED" /\ Path(r) # script[r].uri -> Added(known, script[r].uri)
    [] worker[r].reply.code = "DELETED" -> known \ {script[r].uri}
    [] OTHER -> known

ReverseRelay(r) ==
  /\ worker[r].pc = "relay" /\ mode = "reverse"
  /\ IF \/ worker[r].reply = NoReply
        \/ worker[r].reply.code = "DELETED" /\ script[r].uri \notin known
     THEN Die(r) /\ UNCHANGED <<response, known>>
     ELSE /\ response' = Relayed(r) /\ known' = KnownAfter(r)
          /\ Goto(r, "store") /\ UNCHANGED listener
  /\ UNCHANGED <<environment, cache, written, last>>

-----------------------------------------------------------------------------
(* cacheLayer.send_response after a miss, and the answer.                  *)

StoreMark(r) ==
  /\ worker[r].pc = "store" /\ response[r].code \in {"CHANGED", "CREATED", "DELETED"}
  /\ Mark(r) /\ Goto(r, "answer")
  /\ UNCHANGED <<environment, known, listener, response, last>>

StoreAdd(r) ==
  /\ worker[r].pc = "store" /\ response[r].code \in {"CONTENT", "NOT_FOUND", "SERVICE_UNAVAILABLE"}
  /\ Add(r, r) /\ Goto(r, "answer")
  /\ UNCHANGED <<environment, known, listener, response, written, last>>

\* check_code raises, and nothing catches it.
StoreReject(r) ==
  /\ worker[r].pc = "store" /\ response[r].code = "INCOMPLETE"
  /\ Die(r)
  /\ UNCHANGED <<environment, known, cache, response, written, last>>

\* validate gives the element, if there is one, the options of the 2.03 and
\* makes it fresh; it answers, unless the request had the ETag of the 2.03 only.
StoreValid(r) ==
  /\ worker[r].pc = "store" /\ response[r].code = "VALID"
  /\ LET found == Key(r) \in Keys
         i == Find(Key(r))
         own == worker[r].etags = ETags(r) IN
     /\ IF found
        THEN /\ cache' = Touched(i, [cache[i] EXCEPT !.fresh = TRUE, !.created = now,
                                                     !.uri = script[r].uri, !.marked = written[script[r].uri]])
             /\ response' = [response EXCEPT ![cache[i].object].etag = response[r].etag]
        ELSE UNCHANGED <<cache, response>>
     /\ IF ~own /\ ~found THEN Die(r)
        ELSE /\ worker' = [worker EXCEPT ![r].pc = "answer", ![r].response = IF own THEN r ELSE cache[i].object]
             /\ UNCHANGED listener
  /\ UNCHANGED <<environment, known, written, last>>

\* A retransmission starts if the answer is confirmable.
Reply(r) ==
  /\ worker[r].pc = "answer"
  /\ SendResponse(r, IF Finished(r).type = "CON" THEN "retransmit" ELSE "done")
  /\ UNCHANGED <<environment, known, listener, cache, written>>

Retransmit(r) ==
  /\ worker[r].pc = "retransmit" /\ ~response[worker[r].response].acked /\ worker[r].resent < MaxRetransmit
  /\ worker' = [worker EXCEPT ![r].resent = @ + 1]
  /\ Send(script[worker[r].response].client, response[worker[r].response])
  /\ UNCHANGED <<environment, known, listener, cache, response, written>>

RetransmitEnds(r) ==
  /\ worker[r].pc = "retransmit"
  /\ response[worker[r].response].acked \/ worker[r].resent = MaxRetransmit
  /\ Goto(r, "done")
  /\ UNCHANGED <<environment, known, listener, cache, response, written, last>>

\* An empty ACK or RST from the client.
ReceiveEmpty(r) ==
  /\ MayHandle /\ worker[r].pc = "retransmit"
  /\ response' = [response EXCEPT ![worker[r].response].acked = TRUE]
  /\ UNCHANGED <<environment, known, listener, cache, worker, written, last>>

-----------------------------------------------------------------------------
\* What the proxy has no part in: the resource is changed by others, time passes.
OriginChanges(u) ==
  /\ origin[u].present /\ origin[u].epoch < MaxEpoch
  /\ origin' = [origin EXCEPT ![u].epoch = @ + 1]
  /\ UNCHANGED <<mode, script, now, known, listener, cache, response, worker, written, last>>

Tick ==
  /\ now < MaxTime
  /\ now' = now + 1
  /\ UNCHANGED <<mode, script, origin, known, listener, cache, response, worker, written, last>>

\* receive_datagram of the two proxies.
Forwards(r) ==
  /\ mode = "forward"
  /\ \/ Receive(r) \/ DuplicateCompleted(r) \/ DuplicatePending(r)
     \/ LookupMiss(r) \/ LookupFound(r)
     \/ Forward(r) \/ ForwardRelay(r)
     \/ StoreMark(r) \/ StoreAdd(r) \/ StoreReject(r) \/ StoreValid(r)
     \/ Reply(r) \/ ReceiveEmpty(r)

Reverses(r) ==
  /\ mode = "reverse"
  /\ \/ Receive(r) \/ DuplicateCompleted(r) \/ DuplicatePending(r)
     \/ LookupMiss(r) \/ LookupFound(r)
     \/ Forward(r) \/ ReverseRelay(r)
     \/ StoreMark(r) \/ StoreAdd(r) \/ StoreReject(r) \/ StoreValid(r)
     \/ Reply(r) \/ ReceiveEmpty(r)

Next ==
  \/ Discover \/ Tick \/ \E u \in Changing : OriginChanges(u)
  \/ \E r \in Rs : \/ Forwards(r) \/ Reverses(r)
                   \/ OriginAnswers(r) \/ OriginSilent(r)
                   \/ TimerFires(r) \/ Retransmit(r) \/ RetransmitEnds(r)

Spec == Init /\ [][Next]_vars

-----------------------------------------------------------------------------
(* Properties.                                                             *)

Codes ==
  {"none", "NOT_FOUND", "INCOMPLETE", "SERVICE_UNAVAILABLE", "CREATED", "DELETED", "CHANGED", "VALID", "CONTENT"}
Epochs == 0..MaxEpoch
Objects == [code : Codes, version : Epochs, etag : Epochs, type : Types \cup {"none"},
            mid : Int, token : 0..Len(script), acked : BOOLEAN]
Replies == [code : Codes, version : Epochs, etag : Epochs, epoch : Epochs]
Transactions == [pc : {"new", "lookup", "forward", "asked", "relay", "store", "answer", "retransmit", "done", "dead"},
                 response : 0..Len(script), etags : Seq(1..MaxEpoch), flag : {"open", "acknowledged"},
                 completed : BOOLEAN, reply : Replies, resent : 0..MaxRetransmit]
Elements == [key : {Key(r) : r \in Rs}, uri : Uris, object : Rs, fresh : BOOLEAN,
             created : 0..MaxTime, marked : Epochs]

\* The variables keep their types; the cache has at most one element for a key
\* and never more than its dimension.
TypeOK ==
  /\ mode \in {"forward", "reverse"} /\ script \in Scripts[mode]
  /\ listener \in {"starting", "up", "dead"} /\ now \in 0..MaxTime
  /\ origin \in [Uris -> [epoch : Epochs, present : BOOLEAN]] /\ written \in [Uris -> Epochs]
  /\ response \in [Rs -> Objects] /\ worker \in [Rs -> Transactions]
  /\ cache \in Seq(Elements) /\ Len(cache) <= CacheSize
  /\ \A i, j \in DOMAIN cache : cache[i].key = cache[j].key => i = j

ClientETags == \E r \in Rs : script[r].etag # 0
\* Request r is answered from the cache in this step.
Served(r) == worker[r].pc = "lookup" /\ worker'[r].pc = "answer"
Element(r) == cache[Find(Key(r))]

\* A GET that comes after a write through the proxy was answered is not served
\* what the write has replaced.  It may be only where the element became fresh
\* after the write had marked the cache: in the forward proxy, whose threads
\* cross, or by a 2.03 for an ETag that a client brought along.
WrittenIsSeen ==
  [][\A r \in Rs : Served(r) =>
       \/ response[Element(r).object].version >= written[script[r].uri]
       \/ (mode = "forward" \/ ClientETags) /\ Element(r).marked = written[script[r].uri]]_vars

\* What is served from the cache was an answer to the same method on the same
\* resource; and in the reverse proxy, if the clients send no ETags of their own,
\* its payload and its ETag are of one state of the resource, though validate
\* changes the one and keeps the other.
HitIsCoherent ==
  [][\A r \in Rs : Served(r) =>
       LET x == Element(r).object IN
       /\ script[x].uri = script[r].uri /\ script[x].method = script[r].method
       /\ mode = "reverse" /\ ~ClientETags => response[x].etag \in {0, response[x].version}]_vars

\* An answer that is an ACK is the one of the request that was handled, though
\* the Response is shared with earlier requests.  In the forward proxy, whose
\* threads set the mid of a shared Response in any order, it is only about a
\* Response that is no other transaction's: not about what the cache answers.
AckOfItsRequest ==
  [][\A r \in Rs : worker[r].pc = "answer" /\ worker'[r].pc # "answer" /\ last'.type = "ACK"
       /\ (mode = "reverse" \/ \A q \in Rs \ {r} : worker[q].response # worker[r].response)
       => last'.mid = r]_vars

\* The answers that end the listener of the reverse proxy: none, to a request that is
\* not even asked if it is for a server's own resource (forwardLayer.py 141-143), one with
\* a code that check_code raises for (cachelayer.py 80), and 2.02 to a POST, whose path
\* need not be in the tree (forwardLayer.py 158).
Fatal(r) ==
  \/ worker[r].reply = NoReply \/ worker[r].reply.code = "INCOMPLETE"
  \/ worker[r].reply.code = "DELETED" /\ script[r].method = "POST"

\* No other answer ends it: the path that a DELETE was found by is still in the tree
\* when the origin has answered (forwardLayer.py 63 and 158), and so is the element that
\* a 2.03 confirms in the cache, although every new element may evict one
\* (cachelayer.py 47-51 and 87-92).
DiesOnlyOfFatal == \A r \in Rs : mode = "reverse" /\ worker[r].pc = "dead" => Fatal(r)
=============================================================================
