---------------------------- MODULE ProxyProofs ----------------------------
(***************************************************************************)
(* Theorems about Proxy, for any scripts, resources and sizes of the       *)
(* cache, any number of threads, epochs and retransmissions.               *)
(***************************************************************************)
EXTENDS Proxy, TLAPS, FiniteSetTheorems, SequenceTheorems

-----------------------------------------------------------------------------
(* The cache as a sequence of elements with different keys.                *)

Distinct(s) == \A i, j \in DOMAIN s : s[i].key = s[j].key => i = j

\* RemoveAt of the library, element by element.
LEMMA Removed ==
  ASSUME NEW S, NEW s \in Seq(S), NEW i \in 1..Len(s)
  PROVE  /\ RemoveAt(s, i) \in Seq(S) /\ Len(RemoveAt(s, i)) = Len(s) - 1
         /\ \A j \in 1..(Len(s) - 1) : RemoveAt(s, i)[j] = IF j < i THEN s[j] ELSE s[j + 1]
<1> DEFINE a == SubSeq(s, 1, i - 1)
           b == SubSeq(s, i + 1, Len(s))
<1>0. Len(s) \in Nat /\ i \in Nat
  OBVIOUS
<1>1. a \in Seq(S) /\ Len(a) = i - 1 /\ \A j \in 1..(i - 1) : a[j] = s[j]
  BY SubSeqProperties
<1>2. b \in Seq(S) /\ Len(b) = Len(s) - i /\ \A j \in 1..(Len(s) - i) : b[j] = s[i + j]
  <2>1. i + 1 \in Int /\ Len(s) \in Int /\ \A j \in (i + 1)..Len(s) : s[j] \in S
    OBVIOUS
  <2>2. /\ b \in Seq(S) /\ Len(b) = (IF i + 1 <= Len(s) THEN Len(s) - (i + 1) + 1 ELSE 0)
        /\ \A j \in 1..(Len(s) - (i + 1) + 1) : b[j] = s[(i + 1) + j - 1]
    BY <2>1, SubSeqProperties
  <2> HIDE DEF b
  <2> QED
    BY <2>2
<1> HIDE DEF a, b
<1>3. /\ a \o b \in Seq(S) /\ Len(a \o b) = Len(a) + Len(b)
      /\ \A j \in 1..(Len(a) + Len(b)) : (a \o b)[j] = IF j <= Len(a) THEN a[j] ELSE b[j - Len(a)]
  BY <1>1, <1>2, ConcatProperties
<1>4. RemoveAt(s, i) = a \o b
  BY DEF RemoveAt, a, b
<1>5. ASSUME NEW j \in 1..(Len(s) - 1) PROVE (a \o b)[j] = IF j < i THEN s[j] ELSE s[j + 1]
  <2>1. CASE j < i
    BY <1>1, <1>2, <1>3, <2>1
  <2>2. CASE ~(j < i)
    <3>1. (a \o b)[j] = b[j - Len(a)] /\ j - Len(a) \in 1..(Len(s) - i)
      BY <1>1, <1>2, <1>3, <2>2
    <3>2. b[j - Len(a)] = s[i + (j - Len(a))] /\ i + (j - Len(a)) = j + 1
      BY <1>1, <1>2, <3>1
    <3> QED
      BY <2>2, <3>1, <3>2
  <2> QED
    BY <2>1, <2>2
<1>6. Len(a) + Len(b) = Len(s) - 1
  BY <1>0, <1>1, <1>2
<1> QED
  BY <1>3, <1>4, <1>5, <1>6

\* Without one element the others stay, and their keys.
LEMMA RemovedElements ==
  ASSUME NEW S, NEW s \in Seq(S), NEW i \in DOMAIN s, Distinct(s)
  PROVE  LET t == RemoveAt(s, i) IN
         /\ t \in Seq(S) /\ Len(t) = Len(s) - 1 /\ Distinct(t)
         /\ \A j \in DOMAIN t : \E k \in DOMAIN s : t[j] = s[k] /\ s[k].key # s[i].key
<1> DEFINE t == RemoveAt(s, i)
<1>1. /\ t \in Seq(S) /\ Len(t) = Len(s) - 1
      /\ \A j \in 1..(Len(s) - 1) : t[j] = IF j < i THEN s[j] ELSE s[j + 1]
  BY Removed
<1> HIDE DEF t
<1>2. DOMAIN s = 1..Len(s) /\ DOMAIN t = 1..(Len(s) - 1) /\ Len(s) \in Nat
  BY <1>1
<1>3. ASSUME NEW j \in DOMAIN t
      PROVE  \E k \in DOMAIN s : k # i /\ t[j] = s[k] /\ k = IF j < i THEN j ELSE j + 1
  BY <1>1, <1>2
<1>4. \A j \in DOMAIN t : \E k \in DOMAIN s : t[j] = s[k] /\ s[k].key # s[i].key
  BY <1>3 DEF Distinct
<1>5. Distinct(t)
  <2> SUFFICES ASSUME NEW j \in DOMAIN t, NEW l \in DOMAIN t, t[j].key = t[l].key PROVE j = l
    BY DEF Distinct
  <2>1. PICK k \in DOMAIN s : t[j] = s[k] /\ k = IF j < i THEN j ELSE j + 1
    BY <1>3
  <2>2. PICK m \in DOMAIN s : t[l] = s[m] /\ m = IF l < i THEN l ELSE l + 1
    BY <1>3
  <2>3. k = m
    BY <2>1, <2>2 DEF Distinct
  <2> QED
    BY <1>2, <2>1, <2>2, <2>3
<1> QED
  BY <1>1, <1>4, <1>5 DEF t

\* A new element at the end, with a key of its own.
LEMMA Appended ==
  ASSUME NEW S, NEW t \in Seq(S), NEW e \in S, Distinct(t), \A j \in DOMAIN t : t[j].key # e.key
  PROVE  /\ Append(t, e) \in Seq(S) /\ Len(Append(t, e)) = Len(t) + 1 /\ Distinct(Append(t, e))
         /\ \A j \in DOMAIN Append(t, e) : Append(t, e)[j] = e \/ \E k \in DOMAIN t : Append(t, e)[j] = t[k]
         /\ \E j \in DOMAIN Append(t, e) : Append(t, e)[j] = e
<1> DEFINE u == Append(t, e)
<1>1. /\ u \in Seq(S) /\ Len(u) = Len(t) + 1 /\ u[Len(t) + 1] = e /\ Len(t) \in Nat
      /\ \A j \in 1..Len(t) : u[j] = t[j]
  OBVIOUS
<1> HIDE DEF u
<1>2. DOMAIN t = 1..Len(t) /\ DOMAIN u = 1..(Len(t) + 1)
  BY <1>1
<1>3. \A j \in DOMAIN u : j = Len(t) + 1 \/ (j \in DOMAIN t /\ u[j] = t[j])
  BY <1>1, <1>2
<1>4. Distinct(u)
  BY <1>1, <1>3 DEF Distinct
<1>5. Len(t) + 1 \in DOMAIN u
  BY <1>1, <1>2
<1> QED
  BY <1>1, <1>3, <1>4, <1>5 DEF u

\* The elements of a set in any order.
LEMMA Ordered ==
  ASSUME NEW S, NEW E \in SUBSET S, IsFiniteSet(E), \A d, e \in E : d.key = e.key => d = e,
         NEW t \in SetToSeqs(E)
  PROVE  /\ t \in Seq(S) /\ Len(t) = Cardinality(E) /\ Distinct(t)
         /\ \A j \in DOMAIN t : t[j] \in E
<1>1. Cardinality(E) \in Nat
  BY FS_CardinalityType
<1>2. t \in [1..Cardinality(E) -> E] /\ \A i, j \in 1..Cardinality(E) : i # j => t[i] # t[j]
  BY DEF SetToSeqs
<1>3. t \in Seq(E) /\ Len(t) = Cardinality(E) /\ DOMAIN t = 1..Cardinality(E)
  BY <1>1, <1>2
<1>4. t \in Seq(S)
  BY <1>1, <1>2, <1>3
<1>5. Distinct(t)
  BY <1>2, <1>3 DEF Distinct
<1> QED
  BY <1>2, <1>3, <1>4, <1>5

\* A sequence has finitely many different elements.
LEMMA FiniteRange ==
  ASSUME NEW S, NEW s \in Seq(S)
  PROVE  IsFiniteSet(ToSet(s)) /\ Cardinality(ToSet(s)) <= Len(s) /\ ToSet(s) \subseteq S
<1>1. IsFiniteSet(1..Len(s)) /\ Cardinality(1..Len(s)) = Len(s)
  <2>1. Len(s) \in Nat /\ 1 \in Int
    OBVIOUS
  <2>2. IsFiniteSet(1..Len(s)) /\ Cardinality(1..Len(s)) = IF 1 > Len(s) THEN 0 ELSE Len(s) - 1 + 1
    BY <2>1, FS_Interval
  <2> QED
    BY <2>1, <2>2
<1>2. s \in Surjection(1..Len(s), ToSet(s))
  BY DEF Surjection, ToSet
<1> QED
  BY <1>1, <1>2, FS_Surjection DEF ToSet

-----------------------------------------------------------------------------
(* The cache of the proxy.                                                 *)

\* get finds the element of a key that is in the cache.
LEMMA FoundElement ==
  ASSUME TypeOK, NEW k \in Keys
  PROVE  Find(k) \in DOMAIN cache /\ cache[Find(k)].key = k /\ cache[Find(k)] \in Elements
<1>1. \E i \in DOMAIN cache : cache[i].key = k
  BY DEF Keys
<1>2. Find(k) \in DOMAIN cache /\ cache[Find(k)].key = k
  BY <1>1 DEF Find
<1>3. cache \in Seq(Elements)
  BY DEF TypeOK
<1> QED
  BY <1>2, <1>3

\* An element that is looked up, and replaced, goes to the end; the others stay.
LEMMA TouchedCache ==
  ASSUME TypeOK, NEW i \in DOMAIN cache, NEW e \in Elements, e.key = cache[i].key
  PROVE  /\ Touched(i, e) \in Seq(Elements) /\ Len(Touched(i, e)) = Len(cache) /\ Distinct(Touched(i, e))
         /\ \A j \in DOMAIN Touched(i, e) :
              \/ Touched(i, e)[j] = e
              \/ \E k \in DOMAIN cache : Touched(i, e)[j] = cache[k]
         /\ \E j \in DOMAIN Touched(i, e) : Touched(i, e)[j] = e
<1> DEFINE t == RemoveAt(cache, i)
<1>1. cache \in Seq(Elements) /\ Distinct(cache)
  BY DEF TypeOK, Distinct
<1>2. /\ t \in Seq(Elements) /\ Len(t) = Len(cache) - 1 /\ Distinct(t)
      /\ \A j \in DOMAIN t : \E k \in DOMAIN cache : t[j] = cache[k] /\ cache[k].key # cache[i].key
  BY <1>1, RemovedElements
<1>3. Touched(i, e) = Append(t, e)
  BY DEF Touched
<1> HIDE DEF t
<1>4. \A j \in DOMAIN t : t[j].key # e.key
  BY <1>2
<1>5. /\ Append(t, e) \in Seq(Elements) /\ Len(Append(t, e)) = Len(t) + 1 /\ Distinct(Append(t, e))
      /\ \A j \in DOMAIN Append(t, e) : Append(t, e)[j] = e \/ \E k \in DOMAIN t : Append(t, e)[j] = t[k]
      /\ \E j \in DOMAIN Append(t, e) : Append(t, e)[j] = e
  BY <1>2, <1>4, Appended
<1>6. Len(cache) \in Nat
  BY <1>1
<1> QED
  BY <1>2, <1>3, <1>5, <1>6

\* cache_add leaves what fits, in any order, and the new element.
LEMMA AddedCache ==
  ASSUME TypeOK, NEW r \in Rs, NewElement(r, r) \in Elements, Add(r, r)
  PROVE  /\ cache' \in Seq(Elements) /\ Len(cache') <= CacheSize /\ Distinct(cache')
         /\ \A j \in DOMAIN cache' : cache'[j] = NewElement(r, r) \/ \E k \in DOMAIN cache : cache'[j] = cache[k]
<1> DEFINE e == NewElement(r, r)
           others == IF Key(r) \in Keys THEN RemoveAt(cache, Find(Key(r))) ELSE cache
           room == IF Len(others) = CacheSize THEN Tail(others) ELSE others
           E == ToSet(room) \cup {e}
<1>1. cache \in Seq(Elements) /\ Distinct(cache) /\ Len(cache) <= CacheSize /\ Len(cache) \in Nat
  BY DEF TypeOK, Distinct
<1>2. /\ others \in Seq(Elements) /\ Len(others) <= CacheSize /\ Distinct(others)
      /\ \A j \in DOMAIN others : \E k \in DOMAIN cache : others[j] = cache[k] /\ cache[k].key # Key(r)
  <2>1. CASE Key(r) \in Keys
    <3> DEFINE i == Find(Key(r))
    <3>1. i \in DOMAIN cache /\ cache[i].key = Key(r)
      BY <2>1, FoundElement
    <3>2. others = RemoveAt(cache, i)
      BY <2>1
    <3> HIDE DEF i, others
    <3>3. /\ others \in Seq(Elements) /\ Len(others) = Len(cache) - 1 /\ Distinct(others)
          /\ \A j \in DOMAIN others : \E k \in DOMAIN cache : others[j] = cache[k] /\ cache[k].key # cache[i].key
      BY <1>1, <3>1, <3>2, RemovedElements
    <3> QED
      BY <1>1, <3>1, <3>3, BoundsAssumption
  <2>2. CASE Key(r) \notin Keys
    BY <1>1, <2>2 DEF Keys
  <2> QED
    BY <2>1, <2>2
<1> HIDE DEF others
<1>3. /\ room \in Seq(Elements) /\ Len(room) < CacheSize /\ Len(room) \in Nat
      /\ \A j \in DOMAIN room : \E i \in DOMAIN others : room[j] = others[i]
      /\ Distinct(room)
  <2>1. CASE Len(others) = CacheSize
    <3>1. others # <<>> /\ CacheSize \in Nat \ {0}
      BY <2>1, BoundsAssumption
    <3>2. /\ room \in Seq(Elements) /\ Len(room) = Len(others) - 1
          /\ \A j \in 1..Len(room) : room[j] = others[j + 1]
      BY <1>2, <2>1, <3>1, HeadTailProperties
    <3> HIDE DEF room
    <3>3. DOMAIN room = 1..Len(room) /\ DOMAIN others = 1..Len(others) /\ Len(others) \in Nat
      BY <1>2, <3>2
    <3>4. \A j \in DOMAIN room : j + 1 \in DOMAIN others /\ room[j] = others[j + 1]
      BY <3>2, <3>3
    <3>5. Distinct(room)
      <4> SUFFICES ASSUME NEW j \in DOMAIN room, NEW k \in DOMAIN room, room[j].key = room[k].key PROVE j = k
        BY DEF Distinct
      <4>1. j + 1 = k + 1
        BY <1>2, <3>4 DEF Distinct
      <4> QED
        BY <3>3, <4>1
    <3> QED
      BY <2>1, <3>1, <3>2, <3>3, <3>4, <3>5
  <2>2. CASE Len(others) # CacheSize
    BY <1>2, <2>2, BoundsAssumption
  <2> QED
    BY <2>1, <2>2
<1>4. e.key = Key(r)
  BY DEF NewElement
<1> HIDE DEF room, e
<1>5. /\ IsFiniteSet(E) /\ Cardinality(E) <= CacheSize /\ E \subseteq Elements
  <2>1. IsFiniteSet(ToSet(room)) /\ Cardinality(ToSet(room)) <= Len(room) /\ ToSet(room) \subseteq Elements
    BY <1>3, FiniteRange
  <2>2. Cardinality(ToSet(room)) \in Nat
    BY <2>1, FS_CardinalityType
  <2>3. IsFiniteSet(E) /\ Cardinality(E) <= Cardinality(ToSet(room)) + 1
    <3>1. /\ IsFiniteSet(E)
          /\ Cardinality(E) = IF e \in ToSet(room) THEN Cardinality(ToSet(room)) ELSE Cardinality(ToSet(room)) + 1
      BY <2>1, FS_AddElement
    <3> QED
      BY <2>2, <3>1
  <2>4. Cardinality(E) \in Nat
    BY <2>3, FS_CardinalityType
  <2>5. Cardinality(E) <= CacheSize
    BY <1>3, <2>1, <2>2, <2>3, <2>4, BoundsAssumption
  <2> QED
    BY <2>1, <2>3, <2>5 DEF e
<1>6. \A d \in ToSet(room) : \E k \in DOMAIN cache : d = cache[k] /\ d.key # Key(r)
  BY <1>2, <1>3 DEF ToSet
<1>7. \A c, d \in E : c.key = d.key => c = d
  <2>1. \A c, d \in ToSet(room) : c.key = d.key => c = d
    BY <1>3 DEF ToSet, Distinct
  <2> QED
    BY <1>4, <1>6, <2>1
<1>8. cache' \in SetToSeqs(E)
  BY DEF Add, e, room, others
<1> HIDE DEF E
<1>9. /\ cache' \in Seq(Elements) /\ Len(cache') = Cardinality(E) /\ Distinct(cache')
      /\ \A j \in DOMAIN cache' : cache'[j] \in E
  BY <1>5, <1>7, <1>8, Ordered
<1> QED
  BY <1>5, <1>6, <1>9 DEF E, e

\* mark changes nothing but whether the related elements are fresh.
LEMMA MarkedCache ==
  ASSUME TypeOK, NEW r \in Rs, Mark(r)
  PROVE  /\ cache' \in Seq(Elements) /\ Len(cache') <= CacheSize /\ Distinct(cache')
         /\ \A j \in DOMAIN cache' : \E k \in DOMAIN cache :
              /\ \A f \in {"key", "uri", "object", "created", "marked"} : cache'[j][f] = cache[k][f]
              /\ cache'[j].fresh = (cache[k].fresh /\ ~Related(r, cache[k]))
<1> DEFINE F(e) == IF Related(r, e) THEN [e EXCEPT !.fresh = FALSE] ELSE e
           s == [i \in 1..Len(cache) |-> F(cache[i])]
           E == {F(e) : e \in ToSet(cache)}
<1>1. /\ cache \in Seq(Elements) /\ Distinct(cache) /\ Len(cache) <= CacheSize
      /\ Len(cache) \in Nat /\ DOMAIN cache = 1..Len(cache)
  BY DEF TypeOK, Distinct
<1>2. ASSUME NEW e \in Elements
      PROVE  /\ F(e) \in Elements
             /\ \A f \in {"key", "uri", "object", "created", "marked"} : F(e)[f] = e[f]
             /\ F(e).fresh = (e.fresh /\ ~Related(r, e))
  BY DEF Elements
<1> HIDE DEF F
<1>3. s \in Seq(Elements) /\ Len(s) = Len(cache) /\ ToSet(s) = E
  <2>1. \A i \in 1..Len(cache) : F(cache[i]) \in Elements
    BY <1>1, <1>2
  <2>2. s \in Seq(Elements) /\ Len(s) = Len(cache) /\ DOMAIN s = 1..Len(cache)
    BY <1>1, <2>1
  <2>3. \A i \in 1..Len(cache) : s[i] = F(cache[i])
    OBVIOUS
  <2> HIDE DEF s
  <2> QED
    BY <1>1, <2>2, <2>3 DEF ToSet
<1> HIDE DEF s
<1>4. IsFiniteSet(E) /\ Cardinality(E) <= CacheSize /\ E \in SUBSET Elements
  <2>1. IsFiniteSet(E) /\ Cardinality(E) <= Len(s) /\ E \subseteq Elements
    BY <1>3, FiniteRange
  <2>2. Cardinality(E) \in Nat
    BY <2>1, FS_CardinalityType
  <2> QED
    BY <1>1, <1>3, <2>1, <2>2, BoundsAssumption
<1>5. \A e \in ToSet(cache) : e \in Elements /\ \E k \in DOMAIN cache : e = cache[k]
  BY <1>1 DEF ToSet
<1>6. \A c, d \in E : c.key = d.key => c = d
  BY <1>1, <1>2, <1>5 DEF Distinct
<1>7. cache' \in SetToSeqs(E)
  BY DEF Mark, F
<1>8. \A d \in E : \E k \in DOMAIN cache : d = F(cache[k]) /\ cache[k] \in Elements
  BY <1>5
<1> HIDE DEF E
<1>9. /\ cache' \in Seq(Elements) /\ Len(cache') = Cardinality(E) /\ Distinct(cache')
      /\ \A j \in DOMAIN cache' : cache'[j] \in E
  BY <1>4, <1>6, <1>7, Ordered
<1> QED
  BY <1>2, <1>4, <1>8, <1>9

-----------------------------------------------------------------------------
(* What a step does to the transactions and to the Responses.              *)

\* Who relays has a Response of its own, who answers or has answered has one.
HasResponse ==
  \A r \in Rs :
    /\ worker[r].pc \in {"asked", "relay", "store"} => worker[r].response = r
    /\ worker[r].pc \in {"answer", "retransmit", "done"} => worker[r].response \in Rs

\* The ETag that the client has sent along.
Own(r) == IF script[r].etag = 0 THEN <<>> ELSE <<script[r].etag>>

\* What a transaction has before the cache and the origin have given it anything.
Beginnings ==
  \A r \in Rs :
    /\ worker[r].pc = "lookup" => worker[r].etags = Own(r)
    /\ worker[r].pc \in {"new", "lookup", "forward", "asked"} => worker[r].reply = NoReply

TypeInv == TypeOK /\ HasResponse /\ Beginnings

\* Transaction r goes on, and no other.
Becomes(r, pc, x, etags, reply) ==
  /\ worker' \in [Rs -> Transactions] /\ \A q \in Rs \ {r} : worker'[q] = worker[q]
  /\ worker'[r].pc = pc /\ worker'[r].response = x /\ worker'[r].etags = etags /\ worker'[r].reply = reply
  /\ worker[r].flag = "acknowledged" => worker'[r].flag = "acknowledged"
  /\ worker'[r].completed => worker[r].completed \/ worker'[r].flag = "acknowledged"

\* Response x is written, and no other.
Writes(x) == response' \in [Rs -> Objects] /\ \A y \in Rs \ {x} : response'[y] = response[y]

\* The requests of the script that is played.
LEMMA ScriptTyped ==
  ASSUME TypeOK
  PROVE  /\ Len(script) \in Nat /\ Rs = 1..Len(script)
         /\ \A r \in Rs : /\ script[r].type \in {"CON", "NON"} /\ script[r].uri \in Uris /\ script[r].etag \in Nat
                          /\ script[r].method \in {"GET", "PUT", "POST", "DELETE"}
<1> DEFINE S == [client : STRING, type : {"CON", "NON"}, method : {"GET", "PUT", "POST", "DELETE"},
                 uri : Uris, etag : Nat]
<1>1. script \in Seq(S)
  BY ScriptsAssumption DEF TypeOK
<1>2. \A q \in S : /\ q.type \in {"CON", "NON"} /\ q.uri \in Uris /\ q.etag \in Nat
                   /\ q.method \in {"GET", "PUT", "POST", "DELETE"}
  OBVIOUS
<1> HIDE DEF S
<1>3. Len(script) \in Nat /\ Rs = 1..Len(script) /\ \A r \in Rs : script[r] \in S
  BY <1>1 DEF Rs
<1> QED
  BY <1>2, <1>3

\* The types depend on the script only.
LEMMA SameSets ==
  ASSUME UNCHANGED script
  PROVE  /\ Rs' = Rs /\ Objects' = Objects /\ Transactions' = Transactions /\ Elements' = Elements
         /\ Replies' = Replies
  BY DEF Rs, Objects, Transactions, Elements, Replies, Key

\* What stands for no answer is typed as an answer.
LEMMA NoReplyTyped == NoReply \in Replies
  BY BoundsAssumption DEF NoReply, Replies, Codes, Epochs

\* What send_response makes of a Response.
LEMMA FinishedResponse ==
  ASSUME TypeOK, NEW r \in Rs, worker[r].response \in Rs
  PROVE  LET o == response[worker[r].response]
             p == Finished(r) IN
         /\ p \in Objects /\ p.code = o.code /\ p.version = o.version /\ p.etag = o.etag
         /\ o.type # "none" => p.type = o.type /\ (o.mid # 0 => p.mid = o.mid)
         /\ o.type = "none" /\ p.type = "ACK" => p.mid = r /\ worker[r].flag # "acknowledged"
<1> DEFINE o == response[worker[r].response]
           t == ResponseType(script[r].type, worker[r].flag)
           n == Typed(r, o)
<1>1. o \in Objects /\ Len(script) \in Nat /\ r \in 1..Len(script) /\ worker[r].flag \in {"open", "acknowledged"}
  BY ScriptTyped DEF TypeOK, Transactions
<1>2. t \in {"CON", "NON", "ACK"} /\ (t = "ACK" => worker[r].flag # "acknowledged")
  BY ScriptTyped DEF ResponseType
<1>3. CASE o.type # "none"
  <2>1. n = o
    BY <1>3 DEF Typed
  <2>2. Finished(r) = IF o.mid = 0 THEN [o EXCEPT !.mid = -r] ELSE o
    BY <2>1 DEF Finished, Identified
  <2> QED
    BY <1>1, <1>3, <2>2 DEF Objects
<1>4. CASE o.type = "none"
  <2> DEFINE i == IF t = "ACK" THEN r ELSE o.mid
             a == t = "ACK" \/ o.acked
             k == IF t = "CON" THEN r ELSE o.token
  <2>1. n = [o EXCEPT !.type = t, !.mid = i, !.acked = a, !.token = k]
    BY <1>1, <1>4 DEF Typed, Objects
  <2>0. /\ i \in Int /\ (t = "ACK" => i = r) /\ k \in 0..Len(script) /\ a \in BOOLEAN
    BY <1>1 DEF Objects
  <2> HIDE DEF t, i, a, k
  <2>2. /\ n \in Objects /\ n.code = o.code /\ n.version = o.version /\ n.etag = o.etag /\ n.type = t
        /\ t = "ACK" => n.mid = r
    BY <1>1, <1>2, <2>0, <2>1 DEF Objects, Types
  <2>3. Finished(r) = IF n.mid = 0 THEN [n EXCEPT !.mid = -r] ELSE n
    BY DEF Finished, Identified
  <2> HIDE DEF n, o
  <2>4. r # 0
    BY <1>1
  <2> QED
    BY <1>1, <1>2, <1>4, <2>2, <2>3, <2>4 DEF Objects, o
<1> QED
  BY <1>3, <1>4

\* A transaction that only goes on.
LEMMA GotoStep ==
  ASSUME TypeOK, NEW r \in Rs,
         NEW pc \in {"lookup", "forward", "asked", "relay", "store", "answer", "retransmit", "done", "dead"},
         Goto(r, pc)
  PROVE  Becomes(r, pc, worker[r].response, worker[r].etags, worker[r].reply)
<1>1. worker \in [Rs -> Transactions] /\ [worker[r] EXCEPT !.pc = pc] \in Transactions
  BY DEF TypeOK, Transactions
<1>2. worker' = [worker EXCEPT ![r] = [worker[r] EXCEPT !.pc = pc]]
  BY <1>1 DEF Goto
<1> QED
  BY <1>1, <1>2 DEF Becomes, Transactions

\* An empty ACK marks the request and nothing else.
LEMMA SendAckStep ==
  ASSUME TypeOK, NEW r \in Rs, SendAck(r)
  PROVE  /\ Becomes(r, worker[r].pc, worker[r].response, worker[r].etags, worker[r].reply)
         /\ UNCHANGED <<environment, known, listener, cache, response, written>>
<1>1. worker \in [Rs -> Transactions]
      /\ [worker[r] EXCEPT !.flag = "acknowledged", !.completed = TRUE] \in Transactions
  BY DEF TypeOK, Transactions
<1>2. worker' = [worker EXCEPT ![r] = [worker[r] EXCEPT !.flag = "acknowledged", !.completed = TRUE]]
  BY <1>1 DEF SendAck
<1> QED
  BY <1>1, <1>2 DEF SendAck, Becomes, Transactions

\* An answer that is sent is what send_response makes of the Response.
LEMMA SendResponseStep ==
  ASSUME TypeOK, NEW r \in Rs, worker[r].response \in Rs,
         NEW pc \in {"new", "lookup", "forward", "asked", "relay", "store", "answer", "retransmit", "done", "dead"},
         SendResponse(r, pc)
  PROVE  /\ Becomes(r, pc, worker[r].response, worker[r].etags, worker[r].reply)
         /\ Writes(worker[r].response) /\ response'[worker[r].response] = Finished(r)
         /\ last'.type = Finished(r).type /\ last'.mid = Finished(r).mid
<1> DEFINE x == worker[r].response
           w == [worker[r] EXCEPT !.pc = pc, !.flag = "acknowledged",
                                  !.completed = @ \/ (response[x].type = "none" /\ Finished(r).type = "ACK")]
<1>1. worker \in [Rs -> Transactions] /\ response \in [Rs -> Objects] /\ Finished(r) \in Objects
  BY FinishedResponse DEF TypeOK
<1>2. worker' = [worker EXCEPT ![r] = w] /\ response' = [response EXCEPT ![x] = Finished(r)]
  BY <1>1 DEF SendResponse
<1>3. w \in Transactions /\ w.pc = pc /\ w.response = x /\ w.etags = worker[r].etags /\ w.reply = worker[r].reply
      /\ w.flag = "acknowledged"
  BY <1>1 DEF Transactions
<1>4. last'.type = Finished(r).type /\ last'.mid = Finished(r).mid
  BY DEF SendResponse, Send
<1> HIDE DEF w, x
<1>5. x \in Rs
  BY DEF x
<1>6. Becomes(r, pc, x, worker[r].etags, worker[r].reply)
  BY <1>1, <1>2, <1>3 DEF Becomes
<1>7. Writes(x) /\ response'[x] = Finished(r)
  BY <1>1, <1>2, <1>5 DEF Writes
<1> QED
  BY <1>4, <1>6, <1>7 DEF x

\* The cache keeps its types and its keys.
CacheTyped == cache' \in Seq(Elements) /\ Len(cache') <= CacheSize /\ Distinct(cache')
\* d is what element e has become, at most as fresh.
Fades(d, e) ==
  /\ d.key = e.key /\ d.uri = e.uri /\ d.object = e.object /\ d.marked = e.marked
  /\ d.fresh => e.fresh

\* The effects of Receive, of a well-typed state.
LEMMA ReceiveStep ==
  ASSUME TypeInv, NEW r \in Rs, Receive(r)
  PROVE  /\ MayHandle /\ worker[r].pc = "new"
         /\ Becomes(r, "lookup", worker[r].response, Own(r), worker[r].reply)
         /\ UNCHANGED <<environment, known, listener, cache, response, written>>
<1> DEFINE w == [worker[r] EXCEPT !.pc = "lookup", !.etags = Own(r)]
<1>1. /\ worker \in [Rs -> Transactions] /\ worker[r] \in Transactions /\ script[r].etag \in Nat
      /\ script[r].uri \in Uris /\ origin \in [Uris -> [epoch : Epochs, present : BOOLEAN]]
  BY ScriptTyped DEF TypeInv, TypeOK
<1>2. script[r].etag \in 0..MaxEpoch
  <2>1. origin[script[r].uri].epoch \in 0..MaxEpoch
    BY <1>1 DEF Epochs
  <2>2. script[r].etag <= origin[script[r].uri].epoch
    BY DEF Receive
  <2> QED
    BY <1>1, <2>1, <2>2, BoundsAssumption
<1>3. Own(r) \in Seq(1..MaxEpoch)
  <2>1. CASE script[r].etag = 0
    BY <2>1 DEF Own
  <2>2. CASE script[r].etag # 0
    <3>1. script[r].etag \in 1..MaxEpoch
      BY <1>2, <2>2, BoundsAssumption
    <3> QED
      BY <2>2, <3>1 DEF Own
  <2> QED
    BY <2>1, <2>2
<1>4. w \in Transactions /\ w.pc = "lookup" /\ w.response = worker[r].response /\ w.etags = Own(r)
      /\ w.reply = worker[r].reply /\ w.flag = worker[r].flag /\ w.completed = worker[r].completed
  BY <1>1, <1>3 DEF Transactions
<1>5. worker' = [worker EXCEPT ![r] = w]
  BY <1>1 DEF Receive, Own, Transactions
<1> HIDE DEF w
<1> QED
  BY <1>1, <1>4, <1>5 DEF Receive, Becomes

\* The effects of LookupFound: elements fade at most, and one is for the
\* request's key.
LEMMA LookupFoundStep ==
  ASSUME TypeInv, NEW r \in Rs, LookupFound(r)
  PROVE  LET e == Element(r) IN
         /\ worker[r].pc = "lookup" /\ Find(Key(r)) \in DOMAIN cache /\ e \in Elements /\ e.key = Key(r)
         /\ \E etags \in {worker[r].etags, worker[r].etags \o ETags(e.object)} :
              Becomes(r, IF Hit(r, e) THEN "answer" ELSE "forward", e.object, etags, worker[r].reply)
         /\ Writes(e.object) /\ response'[e.object] = [response[e.object] EXCEPT !.mid = r]
         /\ CacheTyped /\ \A j \in DOMAIN cache' : \E k \in DOMAIN cache : Fades(cache'[j], cache[k])
         /\ \E j \in DOMAIN cache' : cache'[j].key = Key(r) /\ cache'[j].object = e.object
         /\ UNCHANGED <<environment, known, listener, written>>
<1> DEFINE i == Find(Key(r))
           e == Element(r)
           expired == e.fresh /\ ~Hit(r, e)
           d == [e EXCEPT !.fresh = @ /\ ~expired]
           etags == IF expired THEN worker[r].etags \o ETags(e.object) ELSE worker[r].etags
           pc == IF Hit(r, e) THEN "answer" ELSE "forward"
           w == [worker[r] EXCEPT !.pc = pc, !.response = e.object, !.etags = etags]
<1>1. /\ worker \in [Rs -> Transactions] /\ response \in [Rs -> Objects] /\ cache \in Seq(Elements)
      /\ Len(script) \in Nat /\ Rs = 1..Len(script) /\ TypeOK /\ Len(cache) <= CacheSize
  BY ScriptTyped DEF TypeInv, TypeOK
<1>2. /\ worker[r].pc = "lookup" /\ Key(r) \in Keys /\ UNCHANGED <<environment, known, listener, written>>
      /\ cache' = Touched(i, d) /\ response' = WithMid(r, e.object)
      /\ worker' = [worker EXCEPT ![r].pc = pc, ![r].response = e.object, ![r].etags = etags]
  <2>1. /\ worker[r].pc = "lookup" /\ Key(r) \in Keys /\ UNCHANGED <<environment, known, listener, written>>
        /\ cache' = Touched(i, d) /\ response' = WithMid(r, e.object)
    BY DEF LookupFound, Element
  <2>2. worker' = [worker EXCEPT ![r].pc = pc, ![r].response = e.object, ![r].etags = etags]
    BY <1>1 DEF LookupFound, Transactions, Element
  <2> QED
    BY <2>1, <2>2
<1>3. i \in DOMAIN cache /\ e = cache[i] /\ e.key = Key(r) /\ e \in Elements
  BY <1>1, <1>2, FoundElement DEF Element
<1> HIDE DEF i, e
<1>5. d \in Elements /\ Fades(d, e) /\ d.key = cache[i].key /\ d.object = e.object
  BY <1>3 DEF Elements, Fades
<1>6. e.object \in Rs /\ e.object \in 0..Len(script) /\ r \in Int
  BY <1>1, <1>3 DEF Elements
<1>7. etags \in Seq(1..MaxEpoch) /\ etags \in {worker[r].etags, worker[r].etags \o ETags(e.object)}
  <2>1. response[e.object].etag \in 0..MaxEpoch /\ worker[r].etags \in Seq(1..MaxEpoch)
    BY <1>1, <1>6 DEF Objects, Transactions, Epochs
  <2>2. response[e.object].etag # 0 => response[e.object].etag \in 1..MaxEpoch
    BY <2>1, BoundsAssumption
  <2>3. ETags(e.object) \in Seq(1..MaxEpoch)
    <3>1. CASE response[e.object].etag = 0
      BY <3>1 DEF ETags
    <3>2. CASE response[e.object].etag # 0
      <4>1. ETags(e.object) = <<response[e.object].etag>>
        BY <3>2 DEF ETags
      <4> QED
        BY <2>2, <3>2, <4>1
    <3> QED
      BY <3>1, <3>2
  <2>4. worker[r].etags \o ETags(e.object) \in Seq(1..MaxEpoch)
    BY <2>1, <2>3, ConcatProperties
  <2> QED
    BY <2>1, <2>4
<1> HIDE DEF expired
<1>8. pc \in {"answer", "forward"}
  OBVIOUS
<1> HIDE DEF d, etags, pc
<1>9. w \in Transactions /\ w.pc = pc /\ w.response = e.object /\ w.etags = etags /\ w.reply = worker[r].reply
      /\ w.flag = worker[r].flag /\ w.completed = worker[r].completed
  BY <1>1, <1>6, <1>7, <1>8, ZenonT(60) DEF Transactions
<1>10. worker' = [worker EXCEPT ![r] = w]
  BY <1>1, <1>2 DEF Transactions
<1> HIDE DEF w
<1>11. Becomes(r, pc, e.object, etags, worker[r].reply)
  BY <1>1, <1>9, <1>10 DEF Becomes
<1>12. Writes(e.object) /\ response'[e.object] = [response[e.object] EXCEPT !.mid = r]
  <2>1. [response[e.object] EXCEPT !.mid = r] \in Objects
    <3>1. response[e.object] \in Objects
      BY <1>1, <1>6
    <3> QED
      BY <1>6, <3>1 DEF Objects
  <2>2. response' = [response EXCEPT ![e.object] = [response[e.object] EXCEPT !.mid = r]]
    BY <1>1, <1>2, <1>6 DEF WithMid
  <2> QED
    BY <1>1, <1>6, <2>1, <2>2 DEF Writes
<1>13. /\ cache' \in Seq(Elements) /\ Len(cache') = Len(cache) /\ Distinct(cache')
       /\ \A j \in DOMAIN cache' : cache'[j] = d \/ \E k \in DOMAIN cache : cache'[j] = cache[k]
       /\ \E j \in DOMAIN cache' : cache'[j] = d
  BY <1>1, <1>2, <1>3, <1>5, TouchedCache
<1>14. CacheTyped /\ \A j \in DOMAIN cache' : \E k \in DOMAIN cache : Fades(cache'[j], cache[k])
  <2>1. \A j \in DOMAIN cache' : \E k \in DOMAIN cache : Fades(cache'[j], cache[k])
    <3>1. \A k \in DOMAIN cache : Fades(cache[k], cache[k])
      BY DEF Fades
    <3> QED
      BY <1>3, <1>5, <1>13, <3>1
  <2>2. CacheTyped
    BY <1>1, <1>13 DEF CacheTyped
  <2> QED
    BY <2>1, <2>2
<1>15. \E j \in DOMAIN cache' : cache'[j].key = Key(r) /\ cache'[j].object = e.object
  BY <1>3, <1>5, <1>13
<1> QED
  BY <1>2, <1>3, <1>7, <1>11, <1>12, <1>14, <1>15 DEF e, i, pc

\* The effects of Forward: Not Found, the end of the listener, or a request to
\* the origin.
LEMMA ForwardStep ==
  ASSUME TypeInv, NEW r \in Rs, Forward(r)
  PROVE  /\ worker[r].pc = "forward" /\ Writes(r)
         /\ response'[r].version = origin[script[r].uri].epoch /\ response'[r].etag = 0
         /\ response'[r].type = "none" /\ response'[r].code \in {"none", "NOT_FOUND"}
         /\ UNCHANGED <<environment, known, cache, written>>
         /\ \/ /\ response'[r].code = "NOT_FOUND" /\ UNCHANGED listener
               /\ Becomes(r, "store", r, worker[r].etags, worker[r].reply)
            \/ /\ mode = "reverse" /\ listener' = "dead"
               /\ Becomes(r, "dead", worker[r].response, worker[r].etags, worker[r].reply)
            \/ /\ mode = "reverse" => Path(r) \in known
               /\ UNCHANGED listener
               /\ Becomes(r, "asked", r, worker[r].etags, worker[r].reply)
<1> DEFINE code == IF mode = "reverse" /\ Path(r) \notin known THEN "NOT_FOUND" ELSE "none"
           o == [NoResponse EXCEPT !.token = r, !.version = origin[script[r].uri].epoch, !.code = code]
           w(pc) == [worker[r] EXCEPT !.pc = pc, !.response = r]
<1>1. /\ worker \in [Rs -> Transactions] /\ response \in [Rs -> Objects] /\ TypeOK
      /\ origin[script[r].uri].epoch \in Epochs /\ r \in 0..Len(script)
  <2>1. origin[script[r].uri] \in [epoch : Epochs, present : BOOLEAN]
    BY ScriptTyped DEF TypeInv, TypeOK
  <2> QED
    BY <2>1, ScriptTyped DEF TypeInv, TypeOK
<1>2. code \in {"none", "NOT_FOUND"}
  OBVIOUS
<1>3. response' = [response EXCEPT ![r] = o] /\ worker[r].pc = "forward" /\ UNCHANGED <<environment, known, cache, written>>
  BY DEF Forward
<1> DEFINE Outcome ==
             \/ /\ code = "NOT_FOUND" /\ UNCHANGED listener
                /\ Becomes(r, "store", r, worker[r].etags, worker[r].reply)
             \/ /\ mode = "reverse" /\ listener' = "dead"
                /\ Becomes(r, "dead", worker[r].response, worker[r].etags, worker[r].reply)
             \/ /\ mode = "reverse" => Path(r) \in known
                /\ UNCHANGED listener
                /\ Becomes(r, "asked", r, worker[r].etags, worker[r].reply)
<1>4. ASSUME mode = "reverse" /\ Path(r) \notin known PROVE Outcome
  <2>1. code = "NOT_FOUND" /\ UNCHANGED listener
        /\ worker' = [worker EXCEPT ![r].pc = "store", ![r].response = r]
    BY <1>4 DEF Forward
  <2>2. worker' = [worker EXCEPT ![r] = w("store")]
    BY <1>1, <2>1 DEF Transactions
  <2>3. w("store") \in Transactions /\ w("store").flag = worker[r].flag /\ w("store").completed = worker[r].completed
    BY <1>1 DEF Transactions
  <2>4. Becomes(r, "store", r, worker[r].etags, worker[r].reply)
    BY <1>1, <2>2, <2>3 DEF Becomes, Transactions
  <2> QED
    BY <1>4, <2>1, <2>4
<1>5. ASSUME mode = "reverse" /\ Path(r) \in known /\ Len(Path(r)) = 1 PROVE Outcome
  <2>1. Goto(r, "dead") /\ listener' = "dead"
    BY <1>5 DEF Forward, Die
  <2> QED
    BY <1>1, <1>5, <2>1, GotoStep
<1>6. ASSUME ~(mode = "reverse" /\ Path(r) \notin known), ~(mode = "reverse" /\ Path(r) \in known /\ Len(Path(r)) = 1)
      PROVE  Outcome
  <2>1. UNCHANGED listener /\ worker' = [worker EXCEPT ![r].pc = "asked", ![r].response = r]
    BY <1>6 DEF Forward
  <2>2. worker' = [worker EXCEPT ![r] = w("asked")]
    BY <1>1, <2>1 DEF Transactions
  <2>3. w("asked") \in Transactions /\ w("asked").flag = worker[r].flag /\ w("asked").completed = worker[r].completed
    BY <1>1 DEF Transactions
  <2>4. Becomes(r, "asked", r, worker[r].etags, worker[r].reply)
    BY <1>1, <2>2, <2>3 DEF Becomes, Transactions
  <2> QED
    BY <1>6, <2>1, <2>4
<1> HIDE DEF w
<1>9. Outcome
  BY <1>4, <1>5, <1>6
<1> HIDE DEF code
<1>7. /\ o \in Objects /\ o.version = origin[script[r].uri].epoch /\ o.etag = 0 /\ o.type = "none" /\ o.code = code
  <2> HIDE DEF code
  <2>1. 0 \in 0..MaxEpoch /\ 0 \in Int
    BY BoundsAssumption
  <2> QED
    BY <1>1, <1>2, <2>1 DEF NoResponse, Objects, Codes, Epochs
<1> HIDE DEF o
<1>8. Writes(r) /\ response'[r] = o
  BY <1>1, <1>3, <1>7 DEF Writes
<1> QED
  BY <1>2, <1>3, <1>7, <1>8, <1>9

\* What an origin's handler answers is true of its resource.
LEMMA AnswerForms ==
  ASSUME NEW r \in Rs
  PROVE  LET o == origin[script[r].uri] IN
         \/ Answer(r) \in [code : {"NOT_FOUND"}, version : {0}, etag : {0}, epoch : {o.epoch}]
         \/ Answer(r) \in [code : {"CREATED", "CHANGED"}, version : {0}, etag : {0}, epoch : {o.epoch + 1}]
         \/ /\ script[r].method = "DELETE"
            /\ Answer(r) \in [code : {"DELETED"}, version : {0}, etag : {0}, epoch : {o.epoch + 1}]
         \/ /\ o.epoch \in ToSet(worker[r].etags)
            /\ Answer(r) \in [code : {"VALID"}, version : {0}, etag : {o.epoch}, epoch : {o.epoch}]
         \/ Answer(r) \in [code : {"CONTENT"}, version : {o.epoch}, etag : {o.epoch}, epoch : {o.epoch}]
<1> DEFINE o == origin[script[r].uri]
           method == script[r].method
<1>1. CASE ~o.present /\ method \in {"GET", "DELETE"}
  BY <1>1 DEF Answer, NoReply
<1>2. CASE ~o.present /\ method \notin {"GET", "DELETE"}
  BY <1>2 DEF Answer, NoReply
<1>3. CASE o.present /\ method = "DELETE"
  BY <1>3 DEF Answer, NoReply
<1>4. CASE o.present /\ method \notin {"GET", "DELETE"}
  BY <1>4 DEF Answer, NoReply
<1>5. CASE o.present /\ method = "GET" /\ o.epoch \in ToSet(worker[r].etags)
  BY <1>5 DEF Answer, NoReply
<1>6. CASE o.present /\ method = "GET" /\ o.epoch \notin ToSet(worker[r].etags)
  BY <1>6 DEF Answer, NoReply
<1> QED
  BY <1>1, <1>2, <1>3, <1>4, <1>5, <1>6

\* So is everything an origin may answer: the epoch of an answer is the one that
\* the resource has then, and only a DELETE or a POST is answered with a 2.02.
LEMMA OutcomeTrue ==
  ASSUME TypeOK, NEW r \in Rs, NEW a \in Outcomes(r), a.epoch <= MaxEpoch
  PROVE  LET o == origin[script[r].uri] IN
         /\ a \in Replies /\ o.epoch \in Epochs /\ a.epoch \in {o.epoch, o.epoch + 1} /\ a.etag \in {0, a.epoch}
         /\ a.code \in Codes \ {"none", "SERVICE_UNAVAILABLE"}
         /\ a.code = "DELETED" => script[r].method \in {"DELETE", "POST"}
         /\ a.code = "VALID" => a.etag = a.epoch /\ a.etag \in ToSet(worker[r].etags)
<1> DEFINE o == origin[script[r].uri]
<1>1. o.epoch \in 0..MaxEpoch /\ o.epoch + 1 \in Nat /\ MaxEpoch \in Nat
  <2>1. o \in [epoch : Epochs, present : BOOLEAN]
    BY ScriptTyped DEF TypeOK
  <2> QED
    BY <2>1, BoundsAssumption DEF Epochs
<1>2. CASE a = Answer(r)
  BY <1>1, <1>2, AnswerForms DEF Replies, Codes, Epochs
<1>3. CASE a = [NoReply EXCEPT !.code = "INCOMPLETE", !.epoch = o.epoch]
  <2>1. a \in [code : {"INCOMPLETE"}, version : {0}, etag : {0}, epoch : {o.epoch}]
    BY <1>3 DEF NoReply
  <2> QED
    BY <1>1, <2>1 DEF Replies, Codes, Epochs
<1>4. CASE script[r].method = "POST" /\ a = [NoReply EXCEPT !.code = "DELETED", !.epoch = o.epoch + 1]
  <2>1. a \in [code : {"DELETED"}, version : {0}, etag : {0}, epoch : {o.epoch + 1}]
    BY <1>4 DEF NoReply
  <2>2. script[r].method = "POST"
    BY <1>4
  <2>3. a \in Replies
    BY <1>1, <2>1 DEF Replies, Codes, Epochs
  <2> QED
    BY <1>1, <2>1, <2>2, <2>3 DEF Codes, Epochs
<1>5. \/ a = Answer(r) \/ a = [NoReply EXCEPT !.code = "INCOMPLETE", !.epoch = o.epoch]
      \/ script[r].method = "POST" /\ a = [NoReply EXCEPT !.code = "DELETED", !.epoch = o.epoch + 1]
  <2> DEFINE deleted == [NoReply EXCEPT !.code = "DELETED", !.epoch = o.epoch + 1]
             refused == [NoReply EXCEPT !.code = "INCOMPLETE", !.epoch = o.epoch]
  <2>1. Outcomes(r) = {Answer(r), refused} \cup
                        {deleted : m \in {script[r].method} \cap IF o.present THEN {"POST"} ELSE {}}
    BY DEF Outcomes
  <2> HIDE DEF deleted, refused
  <2>2. a = Answer(r) \/ a = refused \/ (script[r].method = "POST" /\ a = deleted)
    BY <2>1
  <2> QED
    BY <2>2 DEF deleted, refused
<1> QED
  BY <1>2, <1>3, <1>4, <1>5

\* The effects of OriginAnswers: the origin's answer is of the epoch it has
\* then.
LEMMA OriginAnswersStep ==
  ASSUME TypeInv, NEW r \in Rs, OriginAnswers(r)
  PROVE  /\ worker[r].pc = "asked"
         /\ \E a \in Outcomes(r) :
              /\ a.epoch <= MaxEpoch
              /\ Becomes(r, "relay", worker[r].response, worker[r].etags, a)
              /\ origin'[script[r].uri].epoch = a.epoch
         /\ origin' \in [Uris -> [epoch : Epochs, present : BOOLEAN]]
         /\ \A u \in Uris \ {script[r].uri} : origin'[u] = origin[u]
         /\ UNCHANGED <<mode, script, now, known, listener, cache, response, written>>
<1>1. /\ worker \in [Rs -> Transactions] /\ TypeOK /\ script[r].uri \in Uris
      /\ origin \in [Uris -> [epoch : Epochs, present : BOOLEAN]]
  BY ScriptTyped DEF TypeInv, TypeOK
<1>2. PICK a \in Outcomes(r) :
        /\ a.epoch <= MaxEpoch
        /\ origin' = [origin EXCEPT ![script[r].uri] =
             [epoch |-> a.epoch, present |-> (@.present \/ a.code = "CREATED") /\ a.code # "DELETED"]]
        /\ worker' = [worker EXCEPT ![r].pc = "relay", ![r].reply = a]
  BY DEF OriginAnswers
<1> DEFINE w == [worker[r] EXCEPT !.pc = "relay", !.reply = a]
           p == (origin[script[r].uri].present \/ a.code = "CREATED") /\ a.code # "DELETED"
           o == [epoch |-> a.epoch, present |-> p]
<1>3. a \in Replies
  BY <1>1, <1>2, OutcomeTrue
<1>4. o \in [epoch : Epochs, present : BOOLEAN] /\ o.epoch = a.epoch
  BY <1>3 DEF Replies
<1>5. origin' = [origin EXCEPT ![script[r].uri] = o]
  BY <1>1, <1>2
<1>6. worker' = [worker EXCEPT ![r] = w]
  BY <1>1, <1>2 DEF Transactions
<1> HIDE DEF o
<1>7. /\ w \in Transactions /\ w.pc = "relay" /\ w.response = worker[r].response /\ w.etags = worker[r].etags
      /\ w.reply = a /\ w.flag = worker[r].flag /\ w.completed = worker[r].completed
  BY <1>1, <1>3 DEF Transactions
<1> HIDE DEF w
<1>8. Becomes(r, "relay", worker[r].response, worker[r].etags, a)
  BY <1>1, <1>6, <1>7 DEF Becomes
<1>9. /\ worker[r].pc = "asked"
      /\ UNCHANGED <<mode, script, now, known, listener, cache, response, written>>
  BY DEF OriginAnswers
<1> QED
  BY <1>1, <1>2, <1>4, <1>5, <1>8, <1>9

\* A Response gets what the origin has answered.
LEMMA RelayedWrites ==
  ASSUME TypeOK, NEW r \in Rs, response' = Relayed(r)
  PROVE  /\ Writes(r)
         /\ response'[r].code = worker[r].reply.code /\ response'[r].etag = worker[r].reply.etag
         /\ response'[r].version = IF worker[r].reply.code = "VALID" THEN 0 ELSE worker[r].reply.epoch
         /\ response'[r].type = response[r].type
<1> DEFINE a == worker[r].reply
           version == IF a.code = "VALID" THEN 0 ELSE a.epoch
           o == [response[r] EXCEPT !.code = a.code, !.etag = a.etag, !.version = version]
<1>1. response \in [Rs -> Objects] /\ a \in Replies /\ 0 \in 0..MaxEpoch
  BY BoundsAssumption DEF TypeOK, Transactions
<1>2. version \in Epochs
  BY <1>1 DEF Replies, Epochs
<1>3. response' = [response EXCEPT ![r] = o]
  BY <1>1 DEF Relayed, Objects
<1> HIDE DEF version
<1>4. o \in Objects /\ o.code = a.code /\ o.etag = a.etag /\ o.version = version /\ o.type = response[r].type
  BY <1>1, <1>2 DEF Objects, Replies
<1> HIDE DEF o
<1> QED
  BY <1>1, <1>3, <1>4 DEF Writes, version

\* The effects of the two relays: the Response is a copy of the origin's answer.
LEMMA RelayStep ==
  ASSUME TypeInv, NEW r \in Rs,
         (mode = "forward" /\ ForwardRelay(r)) \/ (mode = "reverse" /\ ReverseRelay(r))
  PROVE  /\ worker[r].pc = "relay" /\ UNCHANGED <<environment, cache, written>>
         /\ \/ /\ mode = "reverse" /\ listener' = "dead" /\ UNCHANGED <<known, response>>
               /\ Becomes(r, "dead", worker[r].response, worker[r].etags, worker[r].reply)
               /\ worker[r].reply = NoReply \/ (worker[r].reply.code = "DELETED" /\ script[r].uri \notin known)
            \/ /\ UNCHANGED listener /\ Writes(r) /\ response'[r].type = response[r].type
               /\ Becomes(r, "store", worker[r].response, worker[r].etags, worker[r].reply)
               /\ \/ mode = "forward"
                  \/ /\ worker[r].reply # NoReply
                     /\ response'[r].code = worker[r].reply.code /\ response'[r].etag = worker[r].reply.etag
                     /\ response'[r].version = IF worker[r].reply.code = "VALID" THEN 0 ELSE worker[r].reply.epoch
<1>1. TypeOK /\ response \in [Rs -> Objects]
  BY DEF TypeInv, TypeOK
<1> DEFINE Ends ==
             /\ mode = "reverse" /\ listener' = "dead" /\ UNCHANGED <<known, response>>
             /\ Becomes(r, "dead", worker[r].response, worker[r].etags, worker[r].reply)
             /\ worker[r].reply = NoReply \/ (worker[r].reply.code = "DELETED" /\ script[r].uri \notin known)
           GoesOn ==
             /\ UNCHANGED listener /\ Writes(r) /\ response'[r].type = response[r].type
             /\ Becomes(r, "store", worker[r].response, worker[r].etags, worker[r].reply)
             /\ \/ mode = "forward"
                \/ /\ worker[r].reply # NoReply
                   /\ response'[r].code = worker[r].reply.code /\ response'[r].etag = worker[r].reply.etag
                   /\ response'[r].version = IF worker[r].reply.code = "VALID" THEN 0 ELSE worker[r].reply.epoch
<1>2. ASSUME mode = "forward", ForwardRelay(r)
      PROVE  worker[r].pc = "relay" /\ UNCHANGED <<environment, cache, written>> /\ GoesOn
  <2>1. /\ worker[r].pc = "relay" /\ UNCHANGED <<environment, known, listener, cache, written>>
        /\ Goto(r, "store")
    BY <1>2 DEF ForwardRelay
  <2>2. Becomes(r, "store", worker[r].response, worker[r].etags, worker[r].reply)
    BY <1>1, <2>1, GotoStep
  <2>3. Writes(r) /\ response'[r].type = response[r].type
    <3>1. CASE worker[r].reply = NoReply
      <4>1. response' = [response EXCEPT ![r].code = "SERVICE_UNAVAILABLE"]
        BY <1>2, <3>1 DEF ForwardRelay
      <4>2. [response[r] EXCEPT !.code = "SERVICE_UNAVAILABLE"] \in Objects
        BY <1>1 DEF Objects, Codes
      <4> QED
        BY <1>1, <4>1, <4>2 DEF Writes, Objects
    <3>2. CASE worker[r].reply # NoReply
      <4>1. response' = Relayed(r)
        BY <1>2, <3>2 DEF ForwardRelay
      <4> QED
        BY <1>1, <4>1, RelayedWrites
    <3> QED
      BY <3>1, <3>2
  <2> QED
    BY <1>2, <2>1, <2>2, <2>3
<1>3. ASSUME mode = "reverse", ReverseRelay(r)
      PROVE  worker[r].pc = "relay" /\ UNCHANGED <<environment, cache, written>> /\ (Ends \/ GoesOn)
  <2>1. worker[r].pc = "relay" /\ UNCHANGED <<environment, cache, written>>
    BY <1>3 DEF ReverseRelay
  <2> DEFINE ends == worker[r].reply = NoReply \/ (worker[r].reply.code = "DELETED" /\ script[r].uri \notin known)
  <2>2. ASSUME ends PROVE Ends
    <3>1. Goto(r, "dead") /\ listener' = "dead" /\ UNCHANGED <<known, response>>
      BY <1>3, <2>2 DEF ReverseRelay, Die
    <3>2. Becomes(r, "dead", worker[r].response, worker[r].etags, worker[r].reply)
      BY <1>1, <3>1, GotoStep
    <3> QED
      BY <1>3, <2>2, <3>1, <3>2
  <2>3. ASSUME ~ends PROVE GoesOn
    <3>1. Goto(r, "store") /\ UNCHANGED listener /\ response' = Relayed(r)
      BY <1>3, <2>3 DEF ReverseRelay
    <3>2. Becomes(r, "store", worker[r].response, worker[r].etags, worker[r].reply)
      BY <1>1, <3>1, GotoStep
    <3>3. /\ Writes(r) /\ response'[r].type = response[r].type
          /\ response'[r].code = worker[r].reply.code /\ response'[r].etag = worker[r].reply.etag
          /\ response'[r].version = IF worker[r].reply.code = "VALID" THEN 0 ELSE worker[r].reply.epoch
      BY <1>1, <3>1, RelayedWrites
    <3> QED
      BY <2>3, <3>1, <3>2, <3>3
  <2> QED
    BY <2>1, <2>2, <2>3
<1> QED
  BY <1>2, <1>3

\* The effects of StoreMark: no element that is related to a write stays fresh.
LEMMA StoreMarkStep ==
  ASSUME TypeInv, NEW r \in Rs, StoreMark(r)
  PROVE  /\ worker[r].pc = "store" /\ Becomes(r, "answer", r, worker[r].etags, worker[r].reply)
         /\ CacheTyped
         /\ \A j \in DOMAIN cache' : \E k \in DOMAIN cache :
              Fades(cache'[j], cache[k]) /\ (cache'[j].fresh => ~Related(r, cache[k]))
         /\ written' \in [Uris -> Epochs] /\ \A u \in Uris \ {script[r].uri} : written'[u] = written[u]
         /\ written'[script[r].uri] \in {written[script[r].uri], worker[r].reply.epoch}
         /\ UNCHANGED <<environment, known, listener, response>>
<1>1. /\ TypeOK /\ script[r].uri \in Uris /\ written \in [Uris -> Epochs] /\ worker[r].reply.epoch \in Epochs
      /\ worker[r].response = r \/ worker[r].pc # "store"
  BY ScriptTyped DEF TypeInv, TypeOK, HasResponse, Transactions, Replies
<1>2. /\ worker[r].pc = "store" /\ Mark(r) /\ Goto(r, "answer") /\ UNCHANGED <<environment, known, listener, response>>
  BY DEF StoreMark
<1>3. Becomes(r, "answer", r, worker[r].etags, worker[r].reply)
  <2>1. Becomes(r, "answer", worker[r].response, worker[r].etags, worker[r].reply)
    BY <1>1, <1>2, GotoStep
  <2> QED
    BY <1>1, <1>2, <2>1
<1>4. /\ CacheTyped
      /\ \A j \in DOMAIN cache' : \E k \in DOMAIN cache :
           Fades(cache'[j], cache[k]) /\ (cache'[j].fresh => ~Related(r, cache[k]))
  <2>1. /\ cache' \in Seq(Elements) /\ Len(cache') <= CacheSize /\ Distinct(cache')
        /\ \A j \in DOMAIN cache' : \E k \in DOMAIN cache :
             /\ \A f \in {"key", "uri", "object", "created", "marked"} : cache'[j][f] = cache[k][f]
             /\ cache'[j].fresh = (cache[k].fresh /\ ~Related(r, cache[k]))
    BY <1>1, <1>2, MarkedCache
  <2>2. ASSUME NEW d, NEW e,
               \A f \in {"key", "uri", "object", "created", "marked"} : d[f] = e[f],
               d.fresh = (e.fresh /\ ~Related(r, e))
        PROVE  Fades(d, e) /\ (d.fresh => ~Related(r, e))
    <3>1. d.fresh => e.fresh /\ ~Related(r, e)
      BY <2>2, Zenon
    <3>2. d.key = e.key /\ d.uri = e.uri /\ d.object = e.object /\ d.marked = e.marked
      BY <2>2
    <3> QED
      BY <3>1, <3>2 DEF Fades
  <2> QED
    BY <2>1, <2>2 DEF CacheTyped
<1>5. /\ written' \in [Uris -> Epochs] /\ \A u \in Uris \ {script[r].uri} : written'[u] = written[u]
      /\ written'[script[r].uri] \in {written[script[r].uri], worker[r].reply.epoch}
  <2> DEFINE m == Max({written[script[r].uri], worker[r].reply.epoch})
  <2>1. m \in {written[script[r].uri], worker[r].reply.epoch}
    <3>1. ASSUME NEW a \in Epochs, NEW b \in Epochs PROVE Max({a, b}) \in {a, b}
      <4>1. \E x \in {a, b} : \A y \in {a, b} : x >= y
        <5>1. a \in Int /\ b \in Int
          BY DEF Epochs
        <5> QED
          BY <5>1
      <4> QED
        BY <4>1 DEF Max
    <3> QED
      BY <1>1, <3>1
  <2>2. written' = [written EXCEPT ![script[r].uri] = m]
    BY <1>2 DEF Mark
  <2> HIDE DEF m
  <2> QED
    BY <1>1, <2>1, <2>2
<1> QED
  BY <1>2, <1>3, <1>4, <1>5

\* The effects of StoreAdd: at most one new element, of this request.
LEMMA StoreAddStep ==
  ASSUME TypeInv, NEW r \in Rs, StoreAdd(r)
  PROVE  /\ worker[r].pc = "store" /\ Becomes(r, "answer", r, worker[r].etags, worker[r].reply)
         /\ response[r].code \in {"CONTENT", "NOT_FOUND", "SERVICE_UNAVAILABLE"}
         /\ CacheTyped
         /\ \A j \in DOMAIN cache' : cache'[j] = NewElement(r, r) \/ \E k \in DOMAIN cache : cache'[j] = cache[k]
         /\ UNCHANGED <<environment, known, listener, response, written>>
<1>1. /\ TypeOK /\ script[r].uri \in Uris /\ written \in [Uris -> Epochs] /\ now \in 0..MaxTime
      /\ worker[r].response = r \/ worker[r].pc # "store"
  BY ScriptTyped DEF TypeInv, TypeOK, HasResponse
<1>2. /\ worker[r].pc = "store" /\ Add(r, r) /\ Goto(r, "answer")
      /\ response[r].code \in {"CONTENT", "NOT_FOUND", "SERVICE_UNAVAILABLE"}
      /\ UNCHANGED <<environment, known, listener, response, written>>
  BY DEF StoreAdd
<1>3. Becomes(r, "answer", r, worker[r].etags, worker[r].reply)
  <2>1. Becomes(r, "answer", worker[r].response, worker[r].etags, worker[r].reply)
    BY <1>1, <1>2, GotoStep
  <2> QED
    BY <1>1, <1>2, <2>1
<1>4. NewElement(r, r) \in Elements
  BY <1>1 DEF NewElement, Elements
<1>5. /\ CacheTyped
      /\ \A j \in DOMAIN cache' : cache'[j] = NewElement(r, r) \/ \E k \in DOMAIN cache : cache'[j] = cache[k]
  BY <1>1, <1>2, <1>4, AddedCache DEF CacheTyped
<1> QED
  BY <1>2, <1>3, <1>5

\* The effects of StoreReject: the thread ends.
LEMMA StoreRejectStep ==
  ASSUME TypeOK, NEW r \in Rs, StoreReject(r)
  PROVE  /\ worker[r].pc = "store" /\ response[r].code = "INCOMPLETE"
         /\ Becomes(r, "dead", worker[r].response, worker[r].etags, worker[r].reply)
         /\ listener' \in {listener, "dead"}
         /\ UNCHANGED <<environment, known, cache, response, written>>
<1>1. /\ worker[r].pc = "store" /\ response[r].code = "INCOMPLETE" /\ Goto(r, "dead")
      /\ listener' \in {listener, "dead"} /\ UNCHANGED <<environment, known, cache, response, written>>
  BY DEF StoreReject, Die
<1> QED
  BY <1>1, GotoStep

\* The effects of StoreValid: nothing in the cache, or its element made fresh.
LEMMA StoreValidStep ==
  ASSUME TypeInv, NEW r \in Rs, StoreValid(r)
  PROVE  LET e == Element(r)
             own == worker[r].etags = ETags(r) IN
         /\ worker[r].pc = "store" /\ response[r].code = "VALID" /\ UNCHANGED <<environment, known, written>>
         /\ \/ /\ Key(r) \notin Keys /\ own /\ UNCHANGED <<cache, response, listener>>
               /\ Becomes(r, "answer", r, worker[r].etags, worker[r].reply)
            \/ /\ Key(r) \notin Keys /\ ~own /\ UNCHANGED <<cache, response>>
               /\ listener' = IF mode = "reverse" THEN "dead" ELSE listener
               /\ Becomes(r, "dead", r, worker[r].etags, worker[r].reply)
            \/ /\ Find(Key(r)) \in DOMAIN cache /\ e \in Elements /\ e.key = Key(r) /\ UNCHANGED listener
               /\ Becomes(r, "answer", IF own THEN r ELSE e.object, worker[r].etags, worker[r].reply)
               /\ Writes(e.object) /\ response'[e.object] = [response[e.object] EXCEPT !.etag = response[r].etag]
               /\ CacheTyped
               /\ \A j \in DOMAIN cache' :
                    \/ \E k \in DOMAIN cache : cache'[j] = cache[k]
                    \/ /\ cache'[j].key = Key(r) /\ cache'[j].uri = script[r].uri
                       /\ cache'[j].object = e.object /\ cache'[j].marked = written[script[r].uri]
<1> DEFINE i == Find(Key(r))
           e == Element(r)
           own == worker[r].etags = ETags(r)
           x == IF own THEN r ELSE e.object
           d == [e EXCEPT !.fresh = TRUE, !.created = now, !.uri = script[r].uri, !.marked = written[script[r].uri]]
<1>1. /\ worker \in [Rs -> Transactions] /\ response \in [Rs -> Objects] /\ cache \in Seq(Elements)
      /\ Len(script) \in Nat /\ Rs = 1..Len(script) /\ TypeOK /\ Len(cache) <= CacheSize
      /\ script[r].uri \in Uris /\ written \in [Uris -> Epochs] /\ now \in 0..MaxTime
      /\ worker[r].response = r \/ worker[r].pc # "store"
  BY ScriptTyped DEF TypeInv, TypeOK, HasResponse
<1>2. worker[r].pc = "store" /\ response[r].code = "VALID" /\ UNCHANGED <<environment, known, written>>
  BY DEF StoreValid
<1> DEFINE Outcome ==
         /\ \/ /\ Key(r) \notin Keys /\ own /\ UNCHANGED <<cache, response, listener>>
               /\ Becomes(r, "answer", r, worker[r].etags, worker[r].reply)
            \/ /\ Key(r) \notin Keys /\ ~own /\ UNCHANGED <<cache, response>>
               /\ listener' = IF mode = "reverse" THEN "dead" ELSE listener
               /\ Becomes(r, "dead", r, worker[r].etags, worker[r].reply)
            \/ /\ Find(Key(r)) \in DOMAIN cache /\ e \in Elements /\ e.key = Key(r) /\ UNCHANGED listener
               /\ Becomes(r, "answer", x, worker[r].etags, worker[r].reply)
               /\ Writes(e.object) /\ response'[e.object] = [response[e.object] EXCEPT !.etag = response[r].etag]
               /\ CacheTyped
               /\ \A j \in DOMAIN cache' :
                    \/ \E k \in DOMAIN cache : cache'[j] = cache[k]
                    \/ /\ cache'[j].key = Key(r) /\ cache'[j].uri = script[r].uri
                       /\ cache'[j].object = e.object /\ cache'[j].marked = written[script[r].uri]
<1>3. ASSUME NEW y \in Rs, worker' = [worker EXCEPT ![r].pc = "answer", ![r].response = y]
      PROVE  Becomes(r, "answer", y, worker[r].etags, worker[r].reply)
  <2> DEFINE v == [worker[r] EXCEPT !.pc = "answer", !.response = y]
  <2>1. worker' = [worker EXCEPT ![r] = v]
    BY <1>1, <1>3 DEF Transactions
  <2>0. y \in 0..Len(script)
    BY <1>1
  <2>2. /\ v \in Transactions /\ v.pc = "answer" /\ v.response = y /\ v.etags = worker[r].etags
        /\ v.reply = worker[r].reply /\ v.flag = worker[r].flag /\ v.completed = worker[r].completed
    BY <1>1, <2>0 DEF Transactions
  <2> HIDE DEF v
  <2> QED
    BY <1>1, <2>1, <2>2 DEF Becomes
<1>4. ASSUME Key(r) \notin Keys, own PROVE Outcome
  <2>1. UNCHANGED <<cache, response, listener>> /\ worker' = [worker EXCEPT ![r].pc = "answer", ![r].response = r]
    BY <1>4 DEF StoreValid
  <2> QED
    BY <1>3, <1>4, <2>1
<1>5. ASSUME Key(r) \notin Keys, ~own PROVE Outcome
  <2>1. UNCHANGED <<cache, response>> /\ Goto(r, "dead") /\ listener' = IF mode = "reverse" THEN "dead" ELSE listener
    BY <1>5 DEF StoreValid, Die
  <2>2. Becomes(r, "dead", worker[r].response, worker[r].etags, worker[r].reply)
    BY <1>1, <2>1, GotoStep
  <2> QED
    BY <1>1, <1>2, <1>5, <2>1, <2>2
<1>6. ASSUME Key(r) \in Keys PROVE Outcome
  <2>1. i \in DOMAIN cache /\ e = cache[i] /\ e.key = Key(r) /\ e \in Elements
    BY <1>1, <1>6, FoundElement DEF Element
  <2>2. /\ UNCHANGED listener /\ cache' = Touched(i, d)
        /\ response' = [response EXCEPT ![e.object].etag = response[r].etag]
        /\ worker' = [worker EXCEPT ![r].pc = "answer", ![r].response = x]
    BY <1>6 DEF StoreValid, Element
  <2> HIDE DEF own, i, e
  <2>3. e.object \in Rs /\ x \in Rs
    BY <2>1 DEF Elements
  <2>4. Becomes(r, "answer", x, worker[r].etags, worker[r].reply)
    <3> HIDE DEF x
    <3> QED
      BY <1>3, <2>2, <2>3
  <2>5. Writes(e.object) /\ response'[e.object] = [response[e.object] EXCEPT !.etag = response[r].etag]
    <3>1. [response[e.object] EXCEPT !.etag = response[r].etag] \in Objects
      <4>1. response[e.object] \in Objects /\ response[r] \in Objects
        BY <1>1, <2>3
      <4> QED
        BY <4>1 DEF Objects
    <3>2. response' = [response EXCEPT ![e.object] = [response[e.object] EXCEPT !.etag = response[r].etag]]
      BY <1>1, <2>2, <2>3
    <3> QED
      BY <1>1, <2>3, <3>1, <3>2 DEF Writes
  <2>6. /\ d \in Elements /\ d.key = cache[i].key /\ d.key = Key(r) /\ d.uri = script[r].uri
        /\ d.object = e.object /\ d.marked = written[script[r].uri]
    BY <1>1, <2>1 DEF Elements
  <2> HIDE DEF d
  <2>7. /\ cache' \in Seq(Elements) /\ Len(cache') = Len(cache) /\ Distinct(cache')
        /\ \A j \in DOMAIN cache' : cache'[j] = d \/ \E k \in DOMAIN cache : cache'[j] = cache[k]
    BY <1>1, <2>1, <2>2, <2>6, TouchedCache
  <2>8. /\ CacheTyped
        /\ \A j \in DOMAIN cache' :
             \/ \E k \in DOMAIN cache : cache'[j] = cache[k]
             \/ /\ cache'[j].key = Key(r) /\ cache'[j].uri = script[r].uri
                /\ cache'[j].object = e.object /\ cache'[j].marked = written[script[r].uri]
    BY <1>1, <2>6, <2>7 DEF CacheTyped
  <2> QED
    BY <2>1, <2>2, <2>4, <2>5, <2>8 DEF i
<1>7. Outcome
  BY <1>4, <1>5, <1>6
<1> QED
  BY <1>2, <1>7

\* The effects of Retransmit: a count.
LEMMA RetransmitStep ==
  ASSUME TypeInv, NEW r \in Rs, Retransmit(r)
  PROVE  /\ worker[r].pc = "retransmit"
         /\ Becomes(r, worker[r].pc, worker[r].response, worker[r].etags, worker[r].reply)
         /\ UNCHANGED <<environment, known, listener, cache, response, written>>
<1> DEFINE w == [worker[r] EXCEPT !.resent = @ + 1]
<1>1. worker \in [Rs -> Transactions] /\ worker[r].resent \in 0..MaxRetransmit /\ worker[r].resent < MaxRetransmit
  BY DEF TypeInv, TypeOK, Transactions, Retransmit
<1>2. worker[r].resent + 1 \in 0..MaxRetransmit
  BY <1>1, BoundsAssumption
<1>3. w \in Transactions /\ w.pc = worker[r].pc /\ w.response = worker[r].response /\ w.etags = worker[r].etags
      /\ w.reply = worker[r].reply /\ w.flag = worker[r].flag /\ w.completed = worker[r].completed
  BY <1>1, <1>2 DEF Transactions
<1>4. worker' = [worker EXCEPT ![r] = w] /\ worker[r].pc = "retransmit"
      /\ UNCHANGED <<environment, known, listener, cache, response, written>>
  BY <1>1 DEF Retransmit
<1> HIDE DEF w
<1> QED
  BY <1>1, <1>3, <1>4 DEF Becomes

\* The effects of ReceiveEmpty: the Response is marked acknowledged.
LEMMA ReceiveEmptyStep ==
  ASSUME TypeInv, NEW r \in Rs, ReceiveEmpty(r)
  PROVE  LET x == worker[r].response IN
         /\ MayHandle /\ worker[r].pc = "retransmit" /\ x \in Rs
         /\ Writes(x) /\ response'[x] = [response[x] EXCEPT !.acked = TRUE]
         /\ UNCHANGED <<environment, known, listener, cache, worker, written>>
<1> DEFINE x == worker[r].response
<1>1. /\ MayHandle /\ worker[r].pc = "retransmit" /\ UNCHANGED <<environment, known, listener, cache, worker, written>>
      /\ response' = [response EXCEPT ![x].acked = TRUE]
  BY DEF ReceiveEmpty
<1>2. x \in Rs /\ response \in [Rs -> Objects]
  BY <1>1 DEF TypeInv, TypeOK, HasResponse
<1> HIDE DEF x
<1>3. [response[x] EXCEPT !.acked = TRUE] \in Objects
  BY <1>2 DEF Objects
<1>4. response' = [response EXCEPT ![x] = [response[x] EXCEPT !.acked = TRUE]]
  BY <1>1, <1>2
<1>5. Writes(x) /\ response'[x] = [response[x] EXCEPT !.acked = TRUE]
  BY <1>2, <1>3, <1>4 DEF Writes
<1> QED
  BY <1>1, <1>2, <1>5 DEF x

-----------------------------------------------------------------------------
(* The types.                                                              *)

\* The steps, without the classes of the proxy where they make no difference.
LEMMA StepCases ==
  ASSUME Next
  PROVE  \/ Discover \/ Tick \/ \E u \in Changing : OriginChanges(u)
         \/ \E r \in Rs :
              \/ Receive(r) \/ DuplicateCompleted(r) \/ DuplicatePending(r) \/ TimerFires(r)
              \/ LookupMiss(r) \/ LookupFound(r) \/ Forward(r)
              \/ (mode = "forward" /\ ForwardRelay(r)) \/ (mode = "reverse" /\ ReverseRelay(r))
              \/ OriginAnswers(r) \/ OriginSilent(r)
              \/ StoreMark(r) \/ StoreAdd(r) \/ StoreReject(r) \/ StoreValid(r)
              \/ Reply(r) \/ Retransmit(r) \/ RetransmitEnds(r) \/ ReceiveEmpty(r)
  BY DEF Next, Forwards, Reverses

\* TypeOK is kept by a step that keeps each variable's type.
LEMMA TypeKept ==
  ASSUME TypeOK, UNCHANGED <<mode, script>>, listener' \in {"starting", "up", "dead"}, now' \in 0..MaxTime,
         origin' \in [Uris -> [epoch : Epochs, present : BOOLEAN]], written' \in [Uris -> Epochs],
         response' \in [Rs -> Objects], worker' \in [Rs -> Transactions], CacheTyped
  PROVE  TypeOK'
<1>1. Rs' = Rs /\ Objects' = Objects /\ Transactions' = Transactions /\ Elements' = Elements
  BY SameSets
<1>2. mode' \in {"forward", "reverse"} /\ script' \in Scripts[mode']
  BY DEF TypeOK
<1>3. cache' \in Seq(Elements) /\ Len(cache') <= CacheSize
      /\ \A i, j \in DOMAIN cache' : cache'[i].key = cache'[j].key => i = j
  BY DEF CacheTyped, Distinct
<1>4. Epochs' = Epochs
  BY DEF Epochs
<1> QED
  BY <1>1, <1>2, <1>3, <1>4 DEF TypeOK

\* A cache that is not changed stays well typed.
LEMMA CacheKept ==
  ASSUME TypeOK, UNCHANGED cache
  PROVE  CacheTyped
  BY DEF TypeOK, CacheTyped, Distinct

\* A transaction that goes on.
LEMMA BecomesTyped ==
  ASSUME TypeInv, UNCHANGED script, NEW r \in Rs, NEW pc, NEW x, NEW etags, NEW reply,
         Becomes(r, pc, x, etags, reply),
         pc \in {"asked", "relay", "store"} => x = r,
         pc \in {"answer", "retransmit", "done"} => x \in Rs,
         pc = "lookup" => etags = Own(r),
         pc \in {"new", "lookup", "forward", "asked"} => reply = NoReply
  PROVE  worker' \in [Rs -> Transactions] /\ HasResponse' /\ Beginnings'
<1>1. Rs' = Rs /\ \A q \in Rs : Own(q)' = Own(q)
  BY DEF Rs, Own
<1>2. \A q \in Rs \ {r} : worker'[q] = worker[q]
  BY DEF Becomes
<1>3. worker'[r].pc = pc /\ worker'[r].response = x /\ worker'[r].etags = etags /\ worker'[r].reply = reply
      /\ worker' \in [Rs -> Transactions]
  BY DEF Becomes
<1>4. NoReply' = NoReply
  BY DEF NoReply
<1>5. HasResponse'
  BY <1>1, <1>2, <1>3 DEF TypeInv, HasResponse
<1>6. Beginnings'
  BY <1>1, <1>2, <1>3, <1>4 DEF TypeInv, Beginnings
<1> QED
  BY <1>3, <1>5, <1>6

\* A transaction that is where it was.
LEMMA StaysTyped ==
  ASSUME TypeInv, UNCHANGED script, NEW r \in Rs,
         Becomes(r, worker[r].pc, worker[r].response, worker[r].etags, worker[r].reply)
  PROVE  worker' \in [Rs -> Transactions] /\ HasResponse' /\ Beginnings'
<1>1. /\ worker[r].pc \in {"asked", "relay", "store"} => worker[r].response = r
      /\ worker[r].pc \in {"answer", "retransmit", "done"} => worker[r].response \in Rs
      /\ worker[r].pc = "lookup" => worker[r].etags = Own(r)
      /\ worker[r].pc \in {"new", "lookup", "forward", "asked"} => worker[r].reply = NoReply
  BY DEF TypeInv, HasResponse, Beginnings
<1> QED
  BY <1>1, BecomesTyped

\* The types are kept by every step.
LEMMA TypeStep ==
  ASSUME TypeInv, [Next]_vars
  PROVE  TypeInv'
<1>0. /\ TypeOK /\ HasResponse /\ Beginnings
      /\ listener \in {"starting", "up", "dead"} /\ now \in 0..MaxTime /\ mode \in {"forward", "reverse"}
      /\ origin \in [Uris -> [epoch : Epochs, present : BOOLEAN]] /\ written \in [Uris -> Epochs]
      /\ response \in [Rs -> Objects] /\ worker \in [Rs -> Transactions]
  BY DEF TypeInv, TypeOK
<1> USE <1>0
<1>1. ASSUME UNCHANGED <<script, worker>> PROVE HasResponse' /\ Beginnings'
  BY <1>1 DEF HasResponse, Beginnings, Rs, Own, NoReply
<1>2. CASE UNCHANGED vars
  <2>1. UNCHANGED <<environment, known, listener, cache, response, worker, written>>
    BY <1>2 DEF vars
  <2> QED
    BY <1>1, <2>1, TypeKept, CacheKept DEF TypeInv, environment
<1>3. CASE Discover
  <2>1. UNCHANGED <<environment, cache, response, worker, written>> /\ listener' \in {"up", "dead"}
    BY <1>3 DEF Discover
  <2> QED
    BY <1>1, <2>1, TypeKept, CacheKept DEF TypeInv, environment
<1>4. CASE Tick
  <2>1. UNCHANGED <<mode, script, origin, known, listener, cache, response, worker, written>> /\ now < MaxTime /\ now' = now + 1
    BY <1>4 DEF Tick
  <2>2. now' \in 0..MaxTime
    BY <2>1, BoundsAssumption
  <2> QED
    BY <1>1, <2>1, <2>2, TypeKept, CacheKept DEF TypeInv
<1>5. ASSUME NEW u \in Changing, OriginChanges(u) PROVE TypeInv'
  <2>1. /\ UNCHANGED <<mode, script, now, known, listener, cache, response, worker, written>>
        /\ origin[u].epoch < MaxEpoch /\ origin' = [origin EXCEPT ![u].epoch = @ + 1]
    BY <1>5 DEF OriginChanges
  <2>2. u \in Uris /\ MaxEpoch \in Nat
    BY BoundsAssumption
  <2>3. origin[u] \in [epoch : Epochs, present : BOOLEAN]
    BY <2>2
  <2>4. [origin[u] EXCEPT !.epoch = @ + 1] \in [epoch : Epochs, present : BOOLEAN]
    BY <2>1, <2>2, <2>3 DEF Epochs
  <2>5. origin' \in [Uris -> [epoch : Epochs, present : BOOLEAN]]
    BY <2>1, <2>2, <2>3, <2>4
  <2> QED
    BY <1>1, <2>1, <2>5, TypeKept, CacheKept DEF TypeInv
<1>6. ASSUME NEW r \in Rs,
             Receive(r) \/ DuplicateCompleted(r) \/ DuplicatePending(r) \/ TimerFires(r) \/ LookupMiss(r)
               \/ LookupFound(r) \/ Forward(r)
      PROVE  TypeInv'
  <2>1. CASE Receive(r)
    <3>1. /\ Becomes(r, "lookup", worker[r].response, Own(r), worker[r].reply) /\ worker[r].pc = "new"
          /\ UNCHANGED <<environment, known, listener, cache, response, written>>
      BY <2>1, ReceiveStep
    <3>2. worker' \in [Rs -> Transactions] /\ HasResponse' /\ Beginnings'
      BY <3>1, BecomesTyped DEF environment, Beginnings
    <3> QED
      BY <3>1, <3>2, TypeKept, CacheKept DEF TypeInv, environment
  <2>2. CASE DuplicateCompleted(r)
    <3>1. /\ SendResponse(r, worker[r].pc) /\ worker[r].response # 0
          /\ UNCHANGED <<environment, known, listener, cache, written>>
      BY <2>2 DEF DuplicateCompleted
    <3>2. worker[r].response \in Rs
      BY <3>1, ScriptTyped DEF Transactions
    <3>3. worker[r].pc \in {"new", "lookup", "forward", "asked", "relay", "store", "answer", "retransmit", "done", "dead"}
      BY DEF Transactions
    <3>4. /\ Becomes(r, worker[r].pc, worker[r].response, worker[r].etags, worker[r].reply)
          /\ Writes(worker[r].response)
      BY <3>1, <3>2, <3>3, SendResponseStep
    <3>5. worker' \in [Rs -> Transactions] /\ HasResponse' /\ Beginnings'
      BY <3>1, <3>4, StaysTyped DEF environment
    <3>6. response' \in [Rs -> Objects]
      BY <3>4 DEF Writes
    <3> QED
      BY <3>1, <3>5, <3>6, TypeKept, CacheKept DEF TypeInv, environment
  <2>3. CASE DuplicatePending(r) \/ TimerFires(r)
    <3>1. SendAck(r)
      BY <2>3 DEF DuplicatePending, TimerFires
    <3>2. /\ Becomes(r, worker[r].pc, worker[r].response, worker[r].etags, worker[r].reply)
          /\ UNCHANGED <<environment, known, listener, cache, response, written>>
      BY <3>1, SendAckStep
    <3>3. worker' \in [Rs -> Transactions] /\ HasResponse' /\ Beginnings'
      BY <3>2, StaysTyped DEF environment
    <3> QED
      BY <3>2, <3>3, TypeKept, CacheKept DEF TypeInv, environment
  <2>4. CASE LookupMiss(r)
    <3>1. /\ Goto(r, "forward") /\ UNCHANGED <<environment, known, listener, cache, response, written>>
          /\ worker[r].pc = "lookup"
      BY <2>4 DEF LookupMiss
    <3>2. Becomes(r, "forward", worker[r].response, worker[r].etags, worker[r].reply)
      BY <3>1, GotoStep
    <3>3. worker' \in [Rs -> Transactions] /\ HasResponse' /\ Beginnings'
      BY <3>1, <3>2, BecomesTyped DEF environment, Beginnings
    <3> QED
      BY <3>1, <3>3, TypeKept, CacheKept DEF TypeInv, environment
  <2>5. CASE LookupFound(r)
    <3> DEFINE e == Element(r)
               pc == IF Hit(r, e) THEN "answer" ELSE "forward"
    <3>1. /\ worker[r].pc = "lookup" /\ e \in Elements
          /\ \E etags \in {worker[r].etags, worker[r].etags \o ETags(e.object)} :
               Becomes(r, pc, e.object, etags, worker[r].reply)
          /\ Writes(e.object) /\ CacheTyped /\ UNCHANGED <<environment, known, listener, written>>
      BY <2>5, LookupFoundStep
    <3>2. PICK etags : Becomes(r, pc, e.object, etags, worker[r].reply)
      BY <3>1
    <3>3. e.object \in Rs /\ pc \in {"answer", "forward"}
      BY <3>1 DEF Elements
    <3> HIDE DEF e, pc
    <3>4. worker' \in [Rs -> Transactions] /\ HasResponse' /\ Beginnings'
      BY <3>1, <3>2, <3>3, BecomesTyped DEF environment, Beginnings
    <3>5. response' \in [Rs -> Objects]
      BY <3>1 DEF Writes
    <3> QED
      BY <3>1, <3>4, <3>5, TypeKept DEF TypeInv, environment
  <2>6. CASE Forward(r)
    <3>1. /\ worker[r].pc = "forward" /\ Writes(r) /\ UNCHANGED <<environment, known, cache, written>>
          /\ \/ UNCHANGED listener /\ Becomes(r, "store", r, worker[r].etags, worker[r].reply)
             \/ listener' = "dead" /\ Becomes(r, "dead", worker[r].response, worker[r].etags, worker[r].reply)
             \/ UNCHANGED listener /\ Becomes(r, "asked", r, worker[r].etags, worker[r].reply)
      BY <2>6, ForwardStep
    <3>2. worker[r].reply = NoReply
      BY <3>1 DEF Beginnings
    <3>3. worker' \in [Rs -> Transactions] /\ HasResponse' /\ Beginnings'
      <4>1. CASE Becomes(r, "store", r, worker[r].etags, worker[r].reply)
        BY <3>1, <3>2, <4>1, BecomesTyped DEF environment
      <4>2. CASE Becomes(r, "dead", worker[r].response, worker[r].etags, worker[r].reply)
        BY <3>1, <3>2, <4>2, BecomesTyped DEF environment
      <4>3. CASE Becomes(r, "asked", r, worker[r].etags, worker[r].reply)
        BY <3>1, <3>2, <4>3, BecomesTyped DEF environment
      <4> QED
        BY <3>1, <4>1, <4>2, <4>3
    <3>4. response' \in [Rs -> Objects] /\ listener' \in {"starting", "up", "dead"}
      BY <3>1 DEF Writes
    <3> QED
      BY <3>1, <3>3, <3>4, TypeKept, CacheKept DEF TypeInv, environment
  <2> QED
    BY <1>6, <2>1, <2>2, <2>3, <2>4, <2>5, <2>6
<1>7. ASSUME NEW r \in Rs,
             (mode = "forward" /\ ForwardRelay(r)) \/ (mode = "reverse" /\ ReverseRelay(r))
               \/ OriginAnswers(r) \/ OriginSilent(r)
               \/ StoreMark(r) \/ StoreAdd(r) \/ StoreReject(r) \/ StoreValid(r)
      PROVE  TypeInv'
  <2>1. CASE (mode = "forward" /\ ForwardRelay(r)) \/ (mode = "reverse" /\ ReverseRelay(r))
    <3>1. /\ worker[r].pc = "relay" /\ UNCHANGED <<environment, cache, written>>
          /\ \/ /\ listener' = "dead" /\ UNCHANGED response
                /\ Becomes(r, "dead", worker[r].response, worker[r].etags, worker[r].reply)
             \/ /\ UNCHANGED listener /\ Writes(r)
                /\ Becomes(r, "store", worker[r].response, worker[r].etags, worker[r].reply)
      BY <2>1, RelayStep
    <3>2. worker[r].response = r
      BY <3>1 DEF HasResponse
    <3>3. worker' \in [Rs -> Transactions] /\ HasResponse' /\ Beginnings'
      <4>1. CASE Becomes(r, "store", worker[r].response, worker[r].etags, worker[r].reply)
        BY <3>1, <3>2, <4>1, BecomesTyped DEF environment
      <4>2. CASE Becomes(r, "dead", worker[r].response, worker[r].etags, worker[r].reply)
        BY <3>1, <4>2, BecomesTyped DEF environment
      <4> QED
        BY <3>1, <4>1, <4>2
    <3>4. response' \in [Rs -> Objects] /\ listener' \in {"starting", "up", "dead"}
      BY <3>1 DEF Writes
    <3> QED
      BY <3>1, <3>3, <3>4, TypeKept, CacheKept DEF TypeInv, environment
  <2>2. CASE OriginAnswers(r)
    <3>1. /\ worker[r].pc = "asked"
          /\ origin' \in [Uris -> [epoch : Epochs, present : BOOLEAN]]
          /\ UNCHANGED <<mode, script, now, known, listener, cache, response, written>>
      BY <2>2, OriginAnswersStep
    <3>2. PICK a : Becomes(r, "relay", worker[r].response, worker[r].etags, a)
      BY <2>2, OriginAnswersStep
    <3>3. worker' \in [Rs -> Transactions] /\ HasResponse' /\ Beginnings'
      <4>1. worker[r].response = r
        BY <3>1 DEF HasResponse
      <4> QED
        BY <3>1, <3>2, <4>1, BecomesTyped
    <3> QED
      BY <3>1, <3>3, TypeKept, CacheKept DEF TypeInv
  <2>3. CASE OriginSilent(r)
    <3>1. /\ worker[r].pc = "asked" /\ Goto(r, "relay")
          /\ UNCHANGED <<environment, known, listener, cache, response, written>>
      BY <2>3 DEF OriginSilent
    <3>2. worker[r].response = r /\ Becomes(r, "relay", worker[r].response, worker[r].etags, worker[r].reply)
      BY <3>1, GotoStep DEF HasResponse
    <3>3. worker' \in [Rs -> Transactions] /\ HasResponse' /\ Beginnings'
      BY <3>1, <3>2, BecomesTyped DEF environment
    <3> QED
      BY <3>1, <3>3, TypeKept, CacheKept DEF TypeInv, environment
  <2>4. CASE StoreMark(r)
    <3>1. /\ Becomes(r, "answer", r, worker[r].etags, worker[r].reply) /\ CacheTyped
          /\ written' \in [Uris -> Epochs] /\ UNCHANGED <<environment, known, listener, response>>
      BY <2>4, StoreMarkStep
    <3>2. worker' \in [Rs -> Transactions] /\ HasResponse' /\ Beginnings'
      BY <3>1, BecomesTyped DEF environment
    <3> QED
      BY <3>1, <3>2, TypeKept DEF TypeInv, environment
  <2>5. CASE StoreAdd(r)
    <3>1. /\ Becomes(r, "answer", r, worker[r].etags, worker[r].reply) /\ CacheTyped
          /\ UNCHANGED <<environment, known, listener, response, written>>
      BY <2>5, StoreAddStep
    <3>2. worker' \in [Rs -> Transactions] /\ HasResponse' /\ Beginnings'
      BY <3>1, BecomesTyped DEF environment
    <3> QED
      BY <3>1, <3>2, TypeKept DEF TypeInv, environment
  <2>6. CASE StoreReject(r)
    <3>1. /\ Becomes(r, "dead", worker[r].response, worker[r].etags, worker[r].reply)
          /\ listener' \in {listener, "dead"} /\ UNCHANGED <<environment, known, cache, response, written>>
      BY <2>6, StoreRejectStep
    <3>2. worker' \in [Rs -> Transactions] /\ HasResponse' /\ Beginnings'
      BY <3>1, BecomesTyped DEF environment
    <3> QED
      BY <3>1, <3>2, TypeKept, CacheKept DEF TypeInv, environment
  <2>7. CASE StoreValid(r)
    <3> DEFINE e == Element(r)
               own == worker[r].etags = ETags(r)
               x == IF own THEN r ELSE e.object
    <3>1. /\ UNCHANGED <<environment, known, written>>
          /\ \/ /\ UNCHANGED <<cache, response, listener>>
                /\ Becomes(r, "answer", r, worker[r].etags, worker[r].reply)
             \/ /\ UNCHANGED <<cache, response>> /\ listener' = IF mode = "reverse" THEN "dead" ELSE listener
                /\ Becomes(r, "dead", r, worker[r].etags, worker[r].reply)
             \/ /\ e \in Elements /\ UNCHANGED listener
                /\ Becomes(r, "answer", x, worker[r].etags, worker[r].reply)
                /\ Writes(e.object) /\ CacheTyped
      BY <2>7, StoreValidStep
    <3>2. CASE /\ UNCHANGED <<cache, response, listener>>
               /\ Becomes(r, "answer", r, worker[r].etags, worker[r].reply)
      <4>1. worker' \in [Rs -> Transactions] /\ HasResponse' /\ Beginnings'
        BY <3>1, <3>2, BecomesTyped DEF environment
      <4> QED
        BY <3>1, <3>2, <4>1, TypeKept, CacheKept DEF TypeInv, environment
    <3>3. CASE /\ UNCHANGED <<cache, response>> /\ listener' = IF mode = "reverse" THEN "dead" ELSE listener
               /\ Becomes(r, "dead", r, worker[r].etags, worker[r].reply)
      <4>1. worker' \in [Rs -> Transactions] /\ HasResponse' /\ Beginnings'
        BY <3>1, <3>3, BecomesTyped DEF environment
      <4>2. listener' \in {"starting", "up", "dead"}
        BY <3>3
      <4> QED
        BY <3>1, <3>3, <4>1, <4>2, TypeKept, CacheKept DEF TypeInv, environment
    <3>4. CASE /\ e \in Elements /\ UNCHANGED listener
               /\ Becomes(r, "answer", x, worker[r].etags, worker[r].reply)
               /\ Writes(e.object) /\ CacheTyped
      <4>1. x \in Rs
        BY <3>4 DEF Elements
      <4> HIDE DEF x, e
      <4>2. worker' \in [Rs -> Transactions] /\ HasResponse' /\ Beginnings'
        BY <3>1, <3>4, <4>1, BecomesTyped DEF environment
      <4>3. response' \in [Rs -> Objects]
        BY <3>4 DEF Writes
      <4> QED
        BY <3>1, <3>4, <4>2, <4>3, TypeKept DEF TypeInv, environment
    <3> QED
      BY <3>1, <3>2, <3>3, <3>4
  <2> QED
    BY <1>7, <2>1, <2>2, <2>3, <2>4, <2>5, <2>6, <2>7
<1>8. ASSUME NEW r \in Rs, Reply(r) \/ Retransmit(r) \/ RetransmitEnds(r) \/ ReceiveEmpty(r)
      PROVE  TypeInv'
  <2>1. CASE Reply(r)
    <3> DEFINE pc == IF Finished(r).type = "CON" THEN "retransmit" ELSE "done"
    <3>1. worker[r].pc = "answer" /\ SendResponse(r, pc) /\ UNCHANGED <<environment, known, listener, cache, written>>
      BY <2>1 DEF Reply
    <3>2. worker[r].response \in Rs /\ pc \in {"retransmit", "done"}
      BY <3>1 DEF HasResponse
    <3> HIDE DEF pc
    <3>3. Becomes(r, pc, worker[r].response, worker[r].etags, worker[r].reply) /\ Writes(worker[r].response)
      BY <3>1, <3>2, SendResponseStep
    <3>4. worker' \in [Rs -> Transactions] /\ HasResponse' /\ Beginnings'
      BY <3>1, <3>2, <3>3, BecomesTyped DEF environment
    <3>5. response' \in [Rs -> Objects]
      BY <3>3 DEF Writes
    <3> QED
      BY <3>1, <3>4, <3>5, TypeKept, CacheKept DEF TypeInv, environment
  <2>2. CASE Retransmit(r)
    <3>1. /\ Becomes(r, worker[r].pc, worker[r].response, worker[r].etags, worker[r].reply)
          /\ UNCHANGED <<environment, known, listener, cache, response, written>>
      BY <2>2, RetransmitStep
    <3>2. worker' \in [Rs -> Transactions] /\ HasResponse' /\ Beginnings'
      BY <3>1, StaysTyped DEF environment
    <3> QED
      BY <3>1, <3>2, TypeKept, CacheKept DEF TypeInv, environment
  <2>3. CASE RetransmitEnds(r)
    <3>1. /\ worker[r].pc = "retransmit" /\ Goto(r, "done")
          /\ UNCHANGED <<environment, known, listener, cache, response, written>>
      BY <2>3 DEF RetransmitEnds
    <3>2. worker[r].response \in Rs /\ Becomes(r, "done", worker[r].response, worker[r].etags, worker[r].reply)
      BY <3>1, GotoStep DEF HasResponse
    <3>3. worker' \in [Rs -> Transactions] /\ HasResponse' /\ Beginnings'
      BY <3>1, <3>2, BecomesTyped DEF environment
    <3> QED
      BY <3>1, <3>3, TypeKept, CacheKept DEF TypeInv, environment
  <2>4. CASE ReceiveEmpty(r)
    <3>1. Writes(worker[r].response) /\ UNCHANGED <<environment, known, listener, cache, worker, written>>
      BY <2>4, ReceiveEmptyStep
    <3>2. response' \in [Rs -> Objects]
      BY <3>1 DEF Writes
    <3> QED
      BY <1>1, <3>1, <3>2, TypeKept, CacheKept DEF TypeInv, environment
  <2> QED
    BY <1>8, <2>1, <2>2, <2>3, <2>4
<1> QED
  BY <1>2, <1>3, <1>4, <1>5, <1>6, <1>7, <1>8, StepCases

\* The types hold at first.
LEMMA TypeInit ==
  ASSUME Init
  PROVE  TypeInv
<1>1. /\ mode \in {"forward", "reverse"} /\ script \in Scripts[mode] /\ listener \in {"starting", "up", "dead"}
      /\ now = 0 /\ cache = <<>> /\ response = [r \in Rs |-> NoResponse] /\ worker = [r \in Rs |-> NewTransaction]
      /\ written = [u \in Uris |-> 0] /\ origin \in [Uris -> {[epoch |-> 1, present |-> p] : p \in BOOLEAN}]
  BY DEF Init
<1>2. 0 \in Epochs /\ 1 \in Epochs /\ 0 \in 0..MaxTime /\ 0 \in 0..MaxRetransmit
  BY BoundsAssumption DEF Epochs
<1>3. 0 \in 0..Len(script)
  <2>1. script \in Seq([client : STRING, type : {"CON", "NON"}, method : {"GET", "PUT", "POST", "DELETE"},
                        uri : Uris, etag : Nat])
    BY <1>1, ScriptsAssumption
  <2> QED
    BY <2>1
<1>4. NoResponse \in Objects
  BY <1>2, <1>3 DEF NoResponse, Objects, Codes
<1>5. NewTransaction \in Transactions
  <2>1. <<>> \in Seq(1..MaxEpoch)
    OBVIOUS
  <2> QED
    BY <1>2, <1>3, <2>1, NoReplyTyped DEF NewTransaction, Transactions
<1>6. origin \in [Uris -> [epoch : Epochs, present : BOOLEAN]]
  <2>1. {[epoch |-> 1, present |-> p] : p \in BOOLEAN} \subseteq [epoch : Epochs, present : BOOLEAN]
    BY <1>2
  <2> QED
    BY <1>1, <2>1
<1>7. cache \in Seq(Elements) /\ Len(cache) <= CacheSize /\ DOMAIN cache = {}
  BY <1>1, BoundsAssumption
<1>8. TypeOK
  BY <1>1, <1>2, <1>4, <1>5, <1>6, <1>7 DEF TypeOK
<1>9. \A r \in Rs : worker[r].pc = "new" /\ worker[r].reply = NoReply
  BY <1>1 DEF NewTransaction
<1> QED
  BY <1>8, <1>9 DEF TypeInv, HasResponse, Beginnings

\* Every transaction, Response and element of the cache keeps its type, a
\* transaction has the Response that its next step sends, and the cache never
\* holds two elements for one key nor more than its dimension.
THEOREM TypesHold == Spec => []TypeOK
<1>1. Init => TypeInv
  BY TypeInit
<1>2. TypeInv /\ [Next]_vars => TypeInv'
  BY TypeStep
<1>3. TypeInv => TypeOK
  BY DEF TypeInv
<1> QED
  BY <1>1, <1>2, <1>3, PTL DEF Spec

-----------------------------------------------------------------------------
(* Whose Responses are in the cache and are shared.                        *)

\* Transaction x has its own Response and has sent it, or is about to.
Answers(x) == worker[x].pc \in {"answer", "retransmit", "done"} /\ worker[x].response = x

\* An element of the cache is a Response that was made for a request with the
\* same key; what another transaction may have as well is such a Response.
CacheOfAnswers ==
  \A i \in DOMAIN cache :
    LET x == cache[i].object IN
    /\ cache[i].key = Key(x) /\ cache[i].uri = script[x].uri /\ Answers(x)
    /\ cache[i].fresh => cache[i].marked = written[cache[i].uri]
SharedIsAnswered == \A q, r \in Rs : worker[q].response = r /\ q # r => Answers(r)

\* A Response is an ACK only after a transaction has sent it: none that had
\* been acknowledged by then.
AckIsGiven ==
  /\ \A r \in Rs : worker[r].completed => worker[r].flag = "acknowledged"
  /\ \A r \in Rs : response[r].type = "ACK" =>
       \E q \in Rs : worker[q].response = r /\ worker[q].pc \in {"retransmit", "done"}

AnswersInv == TypeInv /\ CacheOfAnswers /\ SharedIsAnswered /\ AckIsGiven

\* What the cache has after a step of r: what it had, at most as fresh, and a
\* Response y that answers, which is marked with the last write.
Gains(r, pc, x) ==
  \A j \in DOMAIN cache' :
    \/ \E k \in DOMAIN cache :
         Fades(cache'[j], cache[k]) /\ (cache'[j].fresh => written'[cache[k].uri] = written[cache[k].uri])
    \/ \E y \in Rs :
         /\ cache'[j].key = Key(y) /\ cache'[j].uri = script[y].uri /\ cache'[j].object = y
         /\ cache'[j].marked = written'[script[y].uri]
         /\ Answers(y) \/ (y = r /\ x = r /\ pc \in {"answer", "retransmit", "done"})

\* A Response becomes an ACK only if it is sent by a transaction that is over.
Acknowledges(pc, x) ==
  \A y \in Rs : response'[y].type = "ACK" =>
    response[y].type = "ACK" \/ (y = x /\ pc \in {"retransmit", "done"})

\* A step that leaves the cache alone adds nothing to it.
LEMMA FadesReflexive ==
  ASSUME UNCHANGED <<cache, written>>, NEW r, NEW pc, NEW x
  PROVE  Gains(r, pc, x)
  BY DEF Gains, Fades

\* Objects that are handed around stay answers while only those that are
\* answers are added.
LEMMA AnswersKept ==
  ASSUME AnswersInv, UNCHANGED script, NEW r \in Rs, NEW pc, NEW x, NEW etags, NEW reply,
         Becomes(r, pc, x, etags, reply),
         worker[r].pc \in {"answer", "retransmit", "done"} =>
           x = worker[r].response /\ pc \in {"answer", "retransmit", "done"},
         worker[r].pc \in {"retransmit", "done"} => pc \in {"retransmit", "done"},
         x = worker[r].response \/ x = r \/ (x \in Rs /\ Answers(x)),
         Gains(r, pc, x), Acknowledges(pc, x), cache \in Seq(Elements)
  PROVE  CacheOfAnswers' /\ SharedIsAnswered' /\ AckIsGiven'
<1>1. Rs' = Rs /\ \A q \in Rs : Key(q)' = Key(q)
  BY DEF Rs, Key
<1>2. /\ \A q \in Rs \ {r} : worker'[q] = worker[q]
      /\ worker'[r].pc = pc /\ worker'[r].response = x
      /\ worker[r].flag = "acknowledged" => worker'[r].flag = "acknowledged"
      /\ worker'[r].completed => worker[r].completed \/ worker'[r].flag = "acknowledged"
  BY DEF Becomes
<1>3. \A y \in Rs : Answers(y) => Answers(y)'
  BY <1>2 DEF Answers
<1>4. CacheOfAnswers'
  <2> DEFINE Good(d, y) ==
               /\ d.object = y /\ d.key = Key(y) /\ d.uri = script[y].uri
               /\ worker'[y].pc \in {"answer", "retransmit", "done"} /\ worker'[y].response = y
               /\ d.fresh => d.marked = written'[d.uri]
  <2>1. ASSUME NEW j \in DOMAIN cache' PROVE \E y \in Rs : Good(cache'[j], y)
    <3>1. CASE \E k \in DOMAIN cache :
                 Fades(cache'[j], cache[k]) /\ (cache'[j].fresh => written'[cache[k].uri] = written[cache[k].uri])
      <4>1. PICK k \in DOMAIN cache :
              Fades(cache'[j], cache[k]) /\ (cache'[j].fresh => written'[cache[k].uri] = written[cache[k].uri])
        BY <3>1
      <4>0. cache[k] \in Elements
        OBVIOUS
      <4>2. PICK y \in Rs : cache[k].object = y
        BY <4>0 DEF Elements
      <4>3. /\ cache[k].key = Key(y) /\ cache[k].uri = script[y].uri
            /\ Answers(y) /\ (cache[k].fresh => cache[k].marked = written[cache[k].uri])
        BY <4>2 DEF AnswersInv, CacheOfAnswers
      <4>4. worker'[y].pc \in {"answer", "retransmit", "done"} /\ worker'[y].response = y
        BY <1>3, <4>3 DEF Answers
      <4>5. Good(cache'[j], y)
        BY <4>1, <4>2, <4>3, <4>4 DEF Fades
      <4> QED
        BY <4>5
    <3>2. CASE \E y \in Rs :
                 /\ cache'[j].key = Key(y) /\ cache'[j].uri = script[y].uri /\ cache'[j].object = y
                 /\ cache'[j].marked = written'[script[y].uri]
                 /\ Answers(y) \/ (y = r /\ x = r /\ pc \in {"answer", "retransmit", "done"})
      <4>1. PICK y \in Rs :
                 /\ cache'[j].key = Key(y) /\ cache'[j].uri = script[y].uri /\ cache'[j].object = y
                 /\ cache'[j].marked = written'[script[y].uri]
                 /\ Answers(y) \/ (y = r /\ x = r /\ pc \in {"answer", "retransmit", "done"})
        BY <3>2
      <4>2. worker'[y].pc \in {"answer", "retransmit", "done"} /\ worker'[y].response = y
        BY <1>2, <1>3, <4>1 DEF Answers
      <4>3. Good(cache'[j], y)
        BY <4>1, <4>2
      <4> QED
        BY <4>3
    <3> QED
      BY <3>1, <3>2 DEF Gains
  <2> QED
    BY <2>1 DEF CacheOfAnswers, Answers, Key
<1>5. SharedIsAnswered'
  <2> SUFFICES ASSUME NEW p \in Rs, NEW q \in Rs, worker'[p].response = q, p # q PROVE Answers(q)'
    BY <1>1 DEF SharedIsAnswered
  <2>1. Answers(q)
    BY <1>2 DEF AnswersInv, SharedIsAnswered
  <2> QED
    BY <1>3, <2>1
<1>6. AckIsGiven'
  <2>1. \A q \in Rs : worker'[q].completed => worker'[q].flag = "acknowledged"
    BY <1>2 DEF AnswersInv, AckIsGiven
  <2>2. ASSUME NEW y \in Rs, response'[y].type = "ACK"
        PROVE  \E q \in Rs : worker'[q].response = y /\ worker'[q].pc \in {"retransmit", "done"}
    <3>1. CASE response[y].type = "ACK"
      BY <1>2, <3>1 DEF AnswersInv, AckIsGiven
    <3>2. CASE y = x /\ pc \in {"retransmit", "done"}
      BY <1>2, <3>2
    <3> QED
      BY <2>2, <3>1, <3>2 DEF Acknowledges
  <2> QED
    BY <1>1, <2>1, <2>2 DEF AckIsGiven
<1> QED
  BY <1>4, <1>5, <1>6

\* No transaction goes on, and no Response becomes an ACK.
LEMMA AnswersStay ==
  ASSUME AnswersInv, UNCHANGED <<script, cache, worker, written>>,
         \A y \in Rs : response'[y].type = "ACK" => response[y].type = "ACK"
  PROVE  CacheOfAnswers' /\ SharedIsAnswered' /\ AckIsGiven'
<1>1. Rs' = Rs
  BY DEF Rs
<1>2. CacheOfAnswers'
  BY DEF AnswersInv, CacheOfAnswers, Key, Answers
<1>3. SharedIsAnswered'
  BY <1>1 DEF AnswersInv, SharedIsAnswered, Answers
<1>4. AckIsGiven'
  BY <1>1 DEF AnswersInv, AckIsGiven
<1> QED
  BY <1>2, <1>3, <1>4

\* What the cache keeps and threads share has been answered: kept by every step.
LEMMA AnswersStep ==
  ASSUME AnswersInv, [Next]_vars
  PROVE  AnswersInv'
<1>0. /\ TypeInv /\ TypeOK /\ HasResponse /\ Beginnings /\ CacheOfAnswers /\ SharedIsAnswered /\ AckIsGiven
      /\ response \in [Rs -> Objects] /\ worker \in [Rs -> Transactions] /\ cache \in Seq(Elements)
  BY DEF AnswersInv, TypeInv, TypeOK
<1> USE <1>0
<1>1. TypeInv'
  BY TypeStep
<1> DEFINE Goal == CacheOfAnswers' /\ SharedIsAnswered' /\ AckIsGiven'
<1>2. ASSUME UNCHANGED vars PROVE Goal
  BY <1>2, AnswersStay DEF vars, environment
<1>3. ASSUME Discover \/ Tick \/ \E u \in Changing : OriginChanges(u) PROVE Goal
  <2>1. UNCHANGED <<script, cache, response, worker, written>>
    BY <1>3 DEF Discover, Tick, OriginChanges, environment
  <2> QED
    BY <2>1, AnswersStay
<1>4. ASSUME NEW r \in Rs, NEW pc, NEW etags, NEW reply,
             Becomes(r, pc, worker[r].response, etags, reply),
             UNCHANGED <<script, cache, response, written>>,
             worker[r].pc \in {"answer", "retransmit", "done"} => pc \in {"answer", "retransmit", "done"},
             worker[r].pc \in {"retransmit", "done"} => pc \in {"retransmit", "done"}
      PROVE  Goal
  <2>1. Gains(r, pc, worker[r].response) /\ Acknowledges(pc, worker[r].response)
    BY <1>4, FadesReflexive DEF Acknowledges
  <2> QED
    BY <1>4, <2>1, AnswersKept
<1>5. ASSUME NEW r \in Rs, Receive(r) \/ DuplicatePending(r) \/ TimerFires(r) \/ LookupMiss(r) \/ OriginAnswers(r)
                             \/ OriginSilent(r) \/ StoreReject(r) \/ Retransmit(r) \/ RetransmitEnds(r)
      PROVE  Goal
  <2>1. CASE Receive(r)
    BY <1>4, <2>1, ReceiveStep DEF environment
  <2>2. CASE DuplicatePending(r) \/ TimerFires(r)
    <3>1. SendAck(r)
      BY <2>2 DEF DuplicatePending, TimerFires
    <3> QED
      BY <1>4, <3>1, SendAckStep DEF environment
  <2>3. CASE LookupMiss(r)
    <3>1. Goto(r, "forward") /\ UNCHANGED <<script, cache, response, written>> /\ worker[r].pc = "lookup"
      BY <2>3 DEF LookupMiss, environment
    <3> QED
      BY <1>4, <3>1, GotoStep
  <2>4. CASE OriginAnswers(r)
    <3>1. PICK a : Becomes(r, "relay", worker[r].response, worker[r].etags, a)
      BY <2>4, OriginAnswersStep
    <3>2. worker[r].pc = "asked" /\ UNCHANGED <<script, cache, response, written>>
      BY <2>4, OriginAnswersStep
    <3> QED
      BY <1>4, <3>1, <3>2
  <2>5. CASE OriginSilent(r)
    <3>1. Goto(r, "relay") /\ UNCHANGED <<script, cache, response, written>> /\ worker[r].pc = "asked"
      BY <2>5 DEF OriginSilent, environment
    <3> QED
      BY <1>4, <3>1, GotoStep
  <2>6. CASE Retransmit(r)
    BY <1>4, <2>6, RetransmitStep DEF environment
  <2>7. CASE RetransmitEnds(r)
    <3>1. Goto(r, "done") /\ UNCHANGED <<script, cache, response, written>>
      BY <2>7 DEF RetransmitEnds, environment
    <3> QED
      BY <1>4, <3>1, GotoStep
  <2>8. CASE StoreReject(r)
    BY <1>4, <2>8, StoreRejectStep DEF environment
  <2> QED
    BY <1>5, <2>1, <2>2, <2>3, <2>4, <2>5, <2>6, <2>7, <2>8
<1>6. ASSUME NEW r \in Rs, DuplicateCompleted(r) PROVE Goal
  <2> DEFINE x == worker[r].response
  <2>1. SendResponse(r, worker[r].pc) /\ x # 0 /\ worker[r].completed /\ UNCHANGED <<script, cache, written>>
    BY <1>6 DEF DuplicateCompleted, environment
  <2>2. x \in Rs /\ worker[r].flag = "acknowledged"
    BY <2>1, ScriptTyped DEF Transactions, AckIsGiven
  <2>3. worker[r].pc \in {"new", "lookup", "forward", "asked", "relay", "store", "answer", "retransmit", "done", "dead"}
    BY DEF Transactions
  <2>4. /\ Becomes(r, worker[r].pc, x, worker[r].etags, worker[r].reply)
        /\ Writes(x) /\ response'[x] = Finished(r)
    BY <2>1, <2>2, <2>3, SendResponseStep
  <2>5. Finished(r).type = "ACK" => response[x].type = "ACK"
    BY <2>2, FinishedResponse
  <2>6. Acknowledges(worker[r].pc, x)
    BY <2>4, <2>5 DEF Acknowledges, Writes
  <2>7. Gains(r, worker[r].pc, x)
    BY <2>1, FadesReflexive
  <2> HIDE DEF x
  <2>8. x = worker[r].response
    BY DEF x
  <2> QED
    BY <2>1, <2>4, <2>6, <2>7, <2>8, AnswersKept
<1>7. ASSUME NEW r \in Rs, Reply(r) PROVE Goal
  <2> DEFINE x == worker[r].response
             pc == IF Finished(r).type = "CON" THEN "retransmit" ELSE "done"
  <2>1. SendResponse(r, pc) /\ worker[r].pc = "answer" /\ UNCHANGED <<script, cache, written>>
    BY <1>7 DEF Reply, environment
  <2>2. x \in Rs /\ pc \in {"retransmit", "done"}
    BY <2>1 DEF HasResponse
  <2> HIDE DEF pc
  <2>3. Becomes(r, pc, x, worker[r].etags, worker[r].reply) /\ Writes(x)
    BY <2>1, <2>2, SendResponseStep
  <2>4. Acknowledges(pc, x)
    BY <2>2, <2>3 DEF Acknowledges, Writes
  <2>5. Gains(r, pc, x)
    BY <2>1, FadesReflexive
  <2> QED
    BY <2>1, <2>2, <2>3, <2>4, <2>5, AnswersKept
<1>8. ASSUME NEW r \in Rs, ReceiveEmpty(r) PROVE Goal
  <2>1. /\ worker[r].response \in Rs /\ Writes(worker[r].response)
        /\ response'[worker[r].response] = [response[worker[r].response] EXCEPT !.acked = TRUE]
        /\ UNCHANGED <<script, cache, worker, written>>
    BY <1>8, ReceiveEmptyStep DEF environment
  <2>2. response'[worker[r].response].type = response[worker[r].response].type
    <3>1. response[worker[r].response] \in Objects
      BY <2>1
    <3> QED
      BY <2>1, <3>1 DEF Objects
  <2>3. \A y \in Rs : response'[y].type = "ACK" => response[y].type = "ACK"
    BY <2>1, <2>2 DEF Writes
  <2> QED
    BY <2>1, <2>3, AnswersStay
<1>9. ASSUME NEW r \in Rs, LookupFound(r) PROVE Goal
  <2> DEFINE e == Element(r)
             pc == IF Hit(r, e) THEN "answer" ELSE "forward"
  <2>1. /\ worker[r].pc = "lookup" /\ Find(Key(r)) \in DOMAIN cache /\ e \in Elements
        /\ \E etags \in {worker[r].etags, worker[r].etags \o ETags(e.object)} :
             Becomes(r, pc, e.object, etags, worker[r].reply)
        /\ Writes(e.object) /\ response'[e.object] = [response[e.object] EXCEPT !.mid = r]
        /\ \A j \in DOMAIN cache' : \E k \in DOMAIN cache : Fades(cache'[j], cache[k])
        /\ UNCHANGED <<environment, written>>
    BY <1>9, LookupFoundStep
  <2>2. PICK etags : Becomes(r, pc, e.object, etags, worker[r].reply)
    BY <2>1
  <2>3. e.object \in Rs /\ Answers(e.object)
    BY <2>1 DEF CacheOfAnswers, Elements, Element
  <2>4. Gains(r, pc, e.object)
    BY <2>1 DEF Gains
  <2>5. response'[e.object].type = response[e.object].type
    <3>1. response[e.object] \in Objects
      BY <2>3
    <3> QED
      BY <2>1, <3>1 DEF Objects
  <2> HIDE DEF pc, e
  <2>6. Acknowledges(pc, e.object)
    BY <2>1, <2>5 DEF Acknowledges, Writes
  <2>7. UNCHANGED script
    BY <2>1 DEF environment
  <2> QED
    BY <2>1, <2>2, <2>3, <2>4, <2>6, <2>7, AnswersKept
<1>10. ASSUME NEW r \in Rs, Forward(r) PROVE Goal
  <2>1. /\ worker[r].pc = "forward" /\ Writes(r) /\ response'[r].type = "none" /\ UNCHANGED <<environment, cache, written>>
        /\ \/ Becomes(r, "store", r, worker[r].etags, worker[r].reply)
           \/ Becomes(r, "dead", worker[r].response, worker[r].etags, worker[r].reply)
           \/ Becomes(r, "asked", r, worker[r].etags, worker[r].reply)
    BY <1>10, ForwardStep
  <2>2. UNCHANGED script /\ \A pc, x : Gains(r, pc, x) /\ Acknowledges(pc, x)
    BY <2>1, FadesReflexive DEF environment, Acknowledges, Writes
  <2>3. CASE Becomes(r, "store", r, worker[r].etags, worker[r].reply)
    BY <2>1, <2>2, <2>3, AnswersKept
  <2>4. CASE Becomes(r, "dead", worker[r].response, worker[r].etags, worker[r].reply)
    BY <2>1, <2>2, <2>4, AnswersKept
  <2>5. CASE Becomes(r, "asked", r, worker[r].etags, worker[r].reply)
    BY <2>1, <2>2, <2>5, AnswersKept
  <2> QED
    BY <2>1, <2>3, <2>4, <2>5
<1>11. ASSUME NEW r \in Rs, (mode = "forward" /\ ForwardRelay(r)) \/ (mode = "reverse" /\ ReverseRelay(r))
       PROVE  Goal
  <2>1. /\ worker[r].pc = "relay" /\ UNCHANGED <<environment, cache, written>>
        /\ \/ UNCHANGED response /\ Becomes(r, "dead", worker[r].response, worker[r].etags, worker[r].reply)
           \/ /\ Writes(r) /\ response'[r].type = response[r].type
              /\ Becomes(r, "store", worker[r].response, worker[r].etags, worker[r].reply)
    BY <1>11, RelayStep
  <2>2. UNCHANGED script /\ \A pc, x : Gains(r, pc, x) /\ Acknowledges(pc, x)
    BY <2>1, FadesReflexive DEF environment, Acknowledges, Writes
  <2>3. CASE Becomes(r, "dead", worker[r].response, worker[r].etags, worker[r].reply)
    BY <2>1, <2>2, <2>3, AnswersKept
  <2>4. CASE Becomes(r, "store", worker[r].response, worker[r].etags, worker[r].reply)
    BY <2>1, <2>2, <2>4, AnswersKept
  <2> QED
    BY <2>1, <2>3, <2>4
<1>12. ASSUME NEW r \in Rs, StoreMark(r) PROVE Goal
  <2>1. /\ worker[r].pc = "store" /\ Becomes(r, "answer", r, worker[r].etags, worker[r].reply)
        /\ \A j \in DOMAIN cache' : \E k \in DOMAIN cache :
             Fades(cache'[j], cache[k]) /\ (cache'[j].fresh => ~Related(r, cache[k]))
        /\ \A u \in Uris \ {script[r].uri} : written'[u] = written[u]
        /\ UNCHANGED <<environment, response>>
    BY <1>12, StoreMarkStep
  <2>2. \A k \in DOMAIN cache : cache[k].uri \in Uris
    <3>1. \A k \in DOMAIN cache : cache[k] \in Elements
      OBVIOUS
    <3> QED
      BY <3>1 DEF Elements
  <2>3. Gains(r, "answer", r)
    BY <2>1, <2>2 DEF Gains, Related
  <2>4. Acknowledges("answer", r) /\ UNCHANGED script
    BY <2>1 DEF Acknowledges, environment
  <2> QED
    BY <2>1, <2>3, <2>4, AnswersKept
<1>13. ASSUME NEW r \in Rs, StoreAdd(r) PROVE Goal
  <2>1. /\ worker[r].pc = "store" /\ Becomes(r, "answer", r, worker[r].etags, worker[r].reply)
        /\ \A j \in DOMAIN cache' : cache'[j] = NewElement(r, r) \/ \E k \in DOMAIN cache : cache'[j] = cache[k]
        /\ UNCHANGED <<environment, response, written>>
    BY <1>13, StoreAddStep
  <2>2. Gains(r, "answer", r)
    <3> SUFFICES ASSUME NEW j \in DOMAIN cache'
                 PROVE  \/ \E k \in DOMAIN cache :
                             Fades(cache'[j], cache[k]) /\ (cache'[j].fresh => written'[cache[k].uri] = written[cache[k].uri])
                        \/ /\ cache'[j].key = Key(r) /\ cache'[j].uri = script[r].uri /\ cache'[j].object = r
                           /\ cache'[j].marked = written'[script[r].uri]
      BY DEF Gains
    <3> QED
      BY <2>1 DEF NewElement, Fades
  <2>3. Acknowledges("answer", r) /\ UNCHANGED script
    BY <2>1 DEF Acknowledges, environment
  <2> QED
    BY <2>1, <2>2, <2>3, AnswersKept
<1>14. ASSUME NEW r \in Rs, StoreValid(r) PROVE Goal
  <2> DEFINE e == Element(r)
             x == IF worker[r].etags = ETags(r) THEN r ELSE e.object
  <2>1. /\ worker[r].pc = "store" /\ UNCHANGED <<environment, written>>
        /\ \/ UNCHANGED <<cache, response>> /\ Becomes(r, "answer", r, worker[r].etags, worker[r].reply)
           \/ UNCHANGED <<cache, response>> /\ Becomes(r, "dead", r, worker[r].etags, worker[r].reply)
           \/ /\ Find(Key(r)) \in DOMAIN cache /\ e \in Elements /\ e.key = Key(r)
              /\ Becomes(r, "answer", x, worker[r].etags, worker[r].reply)
              /\ Writes(e.object) /\ response'[e.object] = [response[e.object] EXCEPT !.etag = response[r].etag]
              /\ \A j \in DOMAIN cache' :
                   \/ \E k \in DOMAIN cache : cache'[j] = cache[k]
                   \/ /\ cache'[j].key = Key(r) /\ cache'[j].uri = script[r].uri
                      /\ cache'[j].object = e.object /\ cache'[j].marked = written[script[r].uri]
    BY <1>14, StoreValidStep
  <2>2. UNCHANGED script
    BY <2>1 DEF environment
  <2>3. ASSUME UNCHANGED <<cache, response>>, NEW pc \in {"answer", "dead"},
               Becomes(r, pc, r, worker[r].etags, worker[r].reply)
        PROVE  Goal
    <3>1. Gains(r, pc, r) /\ Acknowledges(pc, r)
      BY <2>1, <2>3, FadesReflexive DEF Acknowledges
    <3> QED
      BY <2>1, <2>2, <2>3, <3>1, AnswersKept
  <2>4. ASSUME Find(Key(r)) \in DOMAIN cache, e \in Elements, e.key = Key(r),
               Becomes(r, "answer", x, worker[r].etags, worker[r].reply),
               Writes(e.object), response'[e.object] = [response[e.object] EXCEPT !.etag = response[r].etag],
               \A j \in DOMAIN cache' :
                   \/ \E k \in DOMAIN cache : cache'[j] = cache[k]
                   \/ /\ cache'[j].key = Key(r) /\ cache'[j].uri = script[r].uri
                      /\ cache'[j].object = e.object /\ cache'[j].marked = written[script[r].uri]
        PROVE  Goal
    <3>1. /\ e.object \in Rs /\ Answers(e.object) /\ e.key = Key(e.object) 
      BY <2>4 DEF CacheOfAnswers, Elements, Element
    <3>2. Key(e.object) = Key(r) /\ script[e.object].uri = script[r].uri
      BY <2>4, <3>1 DEF Key
    <3>3. Gains(r, "answer", x)
      BY <2>1, <2>4, <3>1, <3>2 DEF Gains, Fades
    <3>4. response'[e.object].type = response[e.object].type
      <4>1. response[e.object] \in Objects
        BY <3>1
      <4> QED
        BY <2>4, <4>1 DEF Objects
    <3>5. x = r \/ (x \in Rs /\ Answers(x))
      BY <3>1
    <3> HIDE DEF x, e
    <3>6. Acknowledges("answer", x)
      BY <2>4, <3>4 DEF Acknowledges, Writes
    <3> QED
      BY <2>1, <2>2, <2>4, <3>3, <3>5, <3>6, AnswersKept
  <2> QED
    BY <2>1, <2>3, <2>4
<1>15. Goal
  BY <1>2, <1>3, <1>5, <1>6, <1>7, <1>8, <1>9, <1>10, <1>11, <1>12, <1>13, <1>14, StepCases
<1> QED
  BY <1>1, <1>15 DEF AnswersInv

-----------------------------------------------------------------------------
(* What the origins have answered, and who is handled.                     *)

\* Only transaction r goes on: a new one where a request may be handled.  It has
\* the reply it had, or a new one that its origin has given.
Moves(r) ==
  /\ \A q \in Rs \ {r} : worker'[q] = worker[q]
  /\ worker[r].pc = "new" => MayHandle
  /\ worker'[r].pc \notin {"new", "retransmit", "done", "dead"} => Active(r) \/ worker[r].pc = "new"
  /\ \/ worker'[r].reply = worker[r].reply /\ worker'[r].etags = worker[r].etags
     \/ worker'[r].reply = NoReply
     \/ /\ worker'[r].reply \in Outcomes(r) /\ worker'[r].etags = worker[r].etags
        /\ worker'[r].reply.epoch <= MaxEpoch /\ origin'[script[r].uri].epoch = worker'[r].reply.epoch
  /\ \A u \in Uris : written'[u] = written[u] \/ (u = script[r].uri /\ written'[u] = worker[r].reply.epoch)

\* A transaction that goes on moves in order.
LEMMA GotoMoves ==
  ASSUME TypeOK, UNCHANGED written, NEW r \in Rs, NEW pc, NEW x,
         Becomes(r, pc, x, worker[r].etags, worker[r].reply),
         worker[r].pc # "new", pc \in {"new", "retransmit", "done", "dead"} \/ Active(r)
  PROVE  Moves(r)
  BY DEF Becomes, Moves, Active

\* What every step does: one transaction moves at most, and epochs only grow.
LEMMA StepSummary ==
  ASSUME TypeInv, [Next]_vars
  PROVE  /\ UNCHANGED <<mode, script>> /\ (listener' = "starting" => listener = "starting")
         /\ \A u \in Uris : origin'[u].epoch >= origin[u].epoch
         /\ UNCHANGED <<worker, written>> \/ \E r \in Rs : Moves(r)
<1>0. /\ TypeOK /\ HasResponse /\ Beginnings /\ worker \in [Rs -> Transactions]
      /\ origin \in [Uris -> [epoch : Epochs, present : BOOLEAN]]
  BY DEF TypeInv, TypeOK
<1> USE <1>0
<1>1. \A u \in Uris : origin[u].epoch \in Int
  BY DEF Epochs
<1> DEFINE Summary ==
         /\ UNCHANGED <<mode, script>> /\ (listener' = "starting" => listener = "starting")
         /\ \A u \in Uris : origin'[u].epoch >= origin[u].epoch
         /\ UNCHANGED <<worker, written>> \/ \E r \in Rs : Moves(r)
<1>2. ASSUME UNCHANGED vars PROVE Summary
  BY <1>1, <1>2 DEF vars, environment
<1>3. ASSUME Discover \/ Tick PROVE Summary
  BY <1>1, <1>3 DEF Discover, Tick, environment
<1>4. ASSUME NEW u \in Changing, OriginChanges(u) PROVE Summary
  <2>1. /\ UNCHANGED <<mode, script, listener, worker, written>>
        /\ origin' = [origin EXCEPT ![u].epoch = @ + 1] /\ u \in Uris
    BY <1>4, BoundsAssumption DEF OriginChanges
  <2>2. \A v \in Uris : origin'[v].epoch >= origin[v].epoch
    <3>1. origin[u] \in [epoch : Epochs, present : BOOLEAN]
      BY <2>1
    <3>2. origin'[u].epoch = origin[u].epoch + 1
      BY <2>1, <3>1
    <3>3. \A v \in Uris \ {u} : origin'[v] = origin[v]
      BY <2>1
    <3> QED
      BY <1>1, <2>1, <3>2, <3>3
  <2> QED
    BY <2>1, <2>2
<1>5. ASSUME NEW r \in Rs, UNCHANGED environment, listener' \in {listener, "dead"}, Moves(r)
      PROVE  Summary
  BY <1>1, <1>5 DEF environment
<1>6. ASSUME NEW r \in Rs,
             Receive(r) \/ DuplicateCompleted(r) \/ DuplicatePending(r) \/ TimerFires(r) \/ LookupMiss(r)
               \/ LookupFound(r) \/ Forward(r)
      PROVE  Summary
  <2>1. CASE Receive(r)
    <3>1. /\ MayHandle /\ worker[r].pc = "new" /\ Becomes(r, "lookup", worker[r].response, Own(r), worker[r].reply)
          /\ UNCHANGED <<environment, listener, written>>
      BY <2>1, ReceiveStep
    <3>2. Moves(r)
      BY <3>1 DEF Becomes, Moves, Beginnings
    <3> QED
      BY <1>5, <3>1, <3>2
  <2>2. CASE DuplicateCompleted(r)
    <3>1. /\ SendResponse(r, worker[r].pc) /\ worker[r].response # 0 /\ worker[r].pc # "new"
          /\ UNCHANGED <<environment, listener, written>>
      BY <2>2 DEF DuplicateCompleted
    <3>2. worker[r].response \in Rs
      BY <3>1, ScriptTyped DEF Transactions
    <3>3. worker[r].pc \in {"new", "lookup", "forward", "asked", "relay", "store", "answer", "retransmit", "done", "dead"}
      BY DEF Transactions
    <3>4. Becomes(r, worker[r].pc, worker[r].response, worker[r].etags, worker[r].reply)
      BY <3>1, <3>2, <3>3, SendResponseStep
    <3>5. Moves(r)
      BY <3>1, <3>4, GotoMoves DEF Active
    <3> QED
      BY <1>5, <3>1, <3>5
  <2>3. CASE DuplicatePending(r) \/ TimerFires(r)
    <3>1. SendAck(r) /\ worker[r].pc # "new"
      BY <2>3 DEF DuplicatePending, TimerFires, Active
    <3>2. /\ Becomes(r, worker[r].pc, worker[r].response, worker[r].etags, worker[r].reply)
          /\ UNCHANGED <<environment, listener, written>>
      BY <3>1, SendAckStep
    <3>3. Moves(r)
      BY <3>1, <3>2, GotoMoves DEF Active
    <3> QED
      BY <1>5, <3>2, <3>3
  <2>4. CASE LookupMiss(r)
    <3>1. Goto(r, "forward") /\ UNCHANGED <<environment, listener, written>> /\ worker[r].pc = "lookup"
      BY <2>4 DEF LookupMiss
    <3>2. Becomes(r, "forward", worker[r].response, worker[r].etags, worker[r].reply)
      BY <3>1, GotoStep
    <3>3. Moves(r)
      BY <3>1, <3>2, GotoMoves DEF Active
    <3> QED
      BY <1>5, <3>1, <3>3
  <2>5. CASE LookupFound(r)
    <3> DEFINE e == Element(r)
               pc == IF Hit(r, e) THEN "answer" ELSE "forward"
    <3>1. /\ worker[r].pc = "lookup" /\ UNCHANGED <<environment, listener, written>>
          /\ \E etags \in {worker[r].etags, worker[r].etags \o ETags(e.object)} :
               Becomes(r, pc, e.object, etags, worker[r].reply)
      BY <2>5, LookupFoundStep
    <3>2. PICK etags : Becomes(r, pc, e.object, etags, worker[r].reply)
      BY <3>1
    <3>3. worker[r].reply = NoReply
      BY <3>1 DEF Beginnings
    <3>4. Moves(r)
      BY <3>1, <3>2, <3>3 DEF Moves, Becomes, Active
    <3> QED
      BY <1>5, <3>1, <3>4
  <2>6. CASE Forward(r)
    <3>1. /\ worker[r].pc = "forward" /\ UNCHANGED <<environment, written>> /\ listener' \in {listener, "dead"}
          /\ \/ Becomes(r, "store", r, worker[r].etags, worker[r].reply)
             \/ Becomes(r, "dead", worker[r].response, worker[r].etags, worker[r].reply)
             \/ Becomes(r, "asked", r, worker[r].etags, worker[r].reply)
      BY <2>6, ForwardStep
    <3>2. Moves(r)
      BY <3>1, GotoMoves DEF Active
    <3> QED
      BY <1>5, <3>1, <3>2
  <2> QED
    BY <1>6, <2>1, <2>2, <2>3, <2>4, <2>5, <2>6
<1>7. ASSUME NEW r \in Rs,
             (mode = "forward" /\ ForwardRelay(r)) \/ (mode = "reverse" /\ ReverseRelay(r))
               \/ OriginAnswers(r) \/ OriginSilent(r)
               \/ StoreMark(r) \/ StoreAdd(r) \/ StoreReject(r) \/ StoreValid(r)
      PROVE  Summary
  <2>1. CASE (mode = "forward" /\ ForwardRelay(r)) \/ (mode = "reverse" /\ ReverseRelay(r))
    <3>1. /\ worker[r].pc = "relay" /\ UNCHANGED <<environment, written>> /\ listener' \in {listener, "dead"}
          /\ \/ Becomes(r, "dead", worker[r].response, worker[r].etags, worker[r].reply)
             \/ Becomes(r, "store", worker[r].response, worker[r].etags, worker[r].reply)
      BY <2>1, RelayStep
    <3>2. Moves(r)
      BY <3>1, GotoMoves DEF Active
    <3> QED
      BY <1>5, <3>1, <3>2
  <2>2. CASE OriginAnswers(r)
    <3>1. /\ worker[r].pc = "asked"
          /\ \A u \in Uris \ {script[r].uri} : origin'[u] = origin[u]
          /\ UNCHANGED <<mode, script, listener, written>>
      BY <2>2, OriginAnswersStep
    <3>2. PICK a \in Outcomes(r) :
            /\ a.epoch <= MaxEpoch /\ Becomes(r, "relay", worker[r].response, worker[r].etags, a)
            /\ origin'[script[r].uri].epoch = a.epoch
      BY <2>2, OriginAnswersStep
    <3>3. Moves(r)
      BY <3>1, <3>2 DEF Moves, Becomes, Active
    <3>4. a.epoch >= origin[script[r].uri].epoch
      <4>1. /\ origin[script[r].uri].epoch \in Int
            /\ a.epoch \in {origin[script[r].uri].epoch, origin[script[r].uri].epoch + 1}
        BY <1>1, <3>2, OutcomeTrue, ScriptTyped
      <4> QED
        BY <4>1
    <3> QED
      BY <1>1, <3>1, <3>2, <3>3, <3>4
  <2>3. CASE OriginSilent(r)
    <3>1. Goto(r, "relay") /\ UNCHANGED <<environment, listener, written>> /\ worker[r].pc = "asked"
      BY <2>3 DEF OriginSilent
    <3>2. Becomes(r, "relay", worker[r].response, worker[r].etags, worker[r].reply)
      BY <3>1, GotoStep
    <3>3. Moves(r)
      BY <3>1, <3>2, GotoMoves DEF Active
    <3> QED
      BY <1>5, <3>1, <3>3
  <2>4. CASE StoreMark(r)
    <3>1. /\ worker[r].pc = "store" /\ Becomes(r, "answer", r, worker[r].etags, worker[r].reply)
          /\ \A u \in Uris \ {script[r].uri} : written'[u] = written[u]
          /\ written'[script[r].uri] \in {written[script[r].uri], worker[r].reply.epoch}
          /\ UNCHANGED <<environment, listener>>
      BY <2>4, StoreMarkStep
    <3>2. Moves(r)
      BY <3>1 DEF Moves, Becomes, Active
    <3> QED
      BY <1>5, <3>1, <3>2
  <2>5. CASE StoreAdd(r)
    <3>1. /\ worker[r].pc = "store" /\ Becomes(r, "answer", r, worker[r].etags, worker[r].reply)
          /\ UNCHANGED <<environment, listener, written>>
      BY <2>5, StoreAddStep
    <3>2. Moves(r)
      BY <3>1, GotoMoves DEF Active
    <3> QED
      BY <1>5, <3>1, <3>2
  <2>6. CASE StoreReject(r)
    <3>1. /\ worker[r].pc = "store" /\ Becomes(r, "dead", worker[r].response, worker[r].etags, worker[r].reply)
          /\ listener' \in {listener, "dead"} /\ UNCHANGED <<environment, written>>
      BY <2>6, StoreRejectStep
    <3>2. Moves(r)
      BY <3>1, GotoMoves DEF Active
    <3> QED
      BY <1>5, <3>1, <3>2
  <2>7. CASE StoreValid(r)
    <3>1. /\ worker[r].pc = "store" /\ UNCHANGED <<environment, written>> /\ listener' \in {listener, "dead"}
          /\ \E x : \/ Becomes(r, "answer", x, worker[r].etags, worker[r].reply)
                    \/ Becomes(r, "dead", x, worker[r].etags, worker[r].reply)
      BY <2>7, StoreValidStep
    <3>2. PICK x : \/ Becomes(r, "answer", x, worker[r].etags, worker[r].reply)
                   \/ Becomes(r, "dead", x, worker[r].etags, worker[r].reply)
      BY <3>1
    <3>3. Moves(r)
      BY <3>1, <3>2, GotoMoves DEF Active
    <3> QED
      BY <1>5, <3>1, <3>3
  <2> QED
    BY <1>7, <2>1, <2>2, <2>3, <2>4, <2>5, <2>6, <2>7
<1>8. ASSUME NEW r \in Rs, Reply(r) \/ Retransmit(r) \/ RetransmitEnds(r) \/ ReceiveEmpty(r)
      PROVE  Summary
  <2>1. CASE Reply(r)
    <3> DEFINE pc == IF Finished(r).type = "CON" THEN "retransmit" ELSE "done"
    <3>1. worker[r].pc = "answer" /\ SendResponse(r, pc) /\ UNCHANGED <<environment, listener, written>>
      BY <2>1 DEF Reply
    <3>2. worker[r].response \in Rs /\ pc \in {"retransmit", "done"}
      BY <3>1 DEF HasResponse
    <3> HIDE DEF pc
    <3>3. Becomes(r, pc, worker[r].response, worker[r].etags, worker[r].reply)
      BY <3>1, <3>2, SendResponseStep
    <3>4. Moves(r)
      BY <3>1, <3>2, <3>3, GotoMoves DEF Active
    <3> QED
      BY <1>5, <3>1, <3>4
  <2>2. CASE Retransmit(r)
    <3>1. /\ worker[r].pc = "retransmit"
          /\ Becomes(r, worker[r].pc, worker[r].response, worker[r].etags, worker[r].reply)
          /\ UNCHANGED <<environment, listener, written>>
      BY <2>2, RetransmitStep
    <3>2. Moves(r)
      BY <3>1, GotoMoves DEF Active
    <3> QED
      BY <1>5, <3>1, <3>2
  <2>3. CASE RetransmitEnds(r)
    <3>1. worker[r].pc = "retransmit" /\ Goto(r, "done") /\ UNCHANGED <<environment, listener, written>>
      BY <2>3 DEF RetransmitEnds
    <3>2. Becomes(r, "done", worker[r].response, worker[r].etags, worker[r].reply)
      BY <3>1, GotoStep
    <3>3. Moves(r)
      BY <3>1, <3>2, GotoMoves DEF Active
    <3> QED
      BY <1>5, <3>1, <3>3
  <2>4. CASE ReceiveEmpty(r)
    <3>1. UNCHANGED <<environment, listener, worker, written>>
      BY <2>4, ReceiveEmptyStep
    <3> QED
      BY <1>1, <3>1 DEF environment
  <2> QED
    BY <1>8, <2>1, <2>2, <2>3, <2>4
<1>9. Summary
  BY <1>2, <1>3, <1>4, <1>6, <1>7, <1>8, StepCases
<1> QED
  BY <1>9

\* A reply is true of a state that the resource had, an answer of an origin is
\* no silence, and what has marked the cache is no later than the resource.
RepliesAreTrue ==
  /\ \A u \in Uris : 1 <= origin[u].epoch /\ written[u] <= origin[u].epoch
  /\ \A r \in Rs :
       LET a == worker[r].reply IN
       /\ a.epoch <= origin[script[r].uri].epoch
       /\ a.etag \in {0, a.epoch}
       /\ a.code = "DELETED" => script[r].method \in {"DELETE", "POST"}
       /\ a.code = "VALID" => a.etag = a.epoch /\ a.etag \in ToSet(worker[r].etags)
       /\ a # NoReply => a.code \in Codes \ {"none", "SERVICE_UNAVAILABLE"}

\* The reverse proxy handles one request at a time, and none before it has
\* discovered what it stands for.
Alone ==
  /\ mode = "reverse" => \A q, r \in Rs : Active(q) /\ Active(r) => q = r
  /\ listener = "starting" => \A r \in Rs : worker[r].pc = "new"

\* Replies are true of the origin: kept by every step.
LEMMA RepliesStep ==
  ASSUME TypeInv, RepliesAreTrue, [Next]_vars
  PROVE  RepliesAreTrue'
<1>0. /\ TypeOK /\ TypeOK' /\ worker \in [Rs -> Transactions] /\ written \in [Uris -> Epochs]
      /\ origin \in [Uris -> [epoch : Epochs, present : BOOLEAN]]
      /\ origin' \in [Uris -> [epoch : Epochs, present : BOOLEAN]]
  BY TypeStep DEF TypeInv, TypeOK, Epochs
<1>1. /\ UNCHANGED script /\ \A u \in Uris : origin'[u].epoch >= origin[u].epoch
      /\ UNCHANGED <<worker, written>> \/ \E r \in Rs : Moves(r)
  BY StepSummary
<1>2. Rs' = Rs /\ Codes' = Codes /\ NoReply' = NoReply
  BY <1>1 DEF Rs, Codes, NoReply
<1>3. /\ \A u \in Uris : origin[u].epoch \in Int /\ origin'[u].epoch \in Int /\ written[u] \in Int
      /\ \A r \in Rs : worker[r].reply.epoch \in Int /\ script[r].uri \in Uris
  BY <1>0, ScriptTyped DEF Epochs, Transactions, Replies
<1> DEFINE True(r, a, etags) ==
             /\ a.epoch <= origin'[script[r].uri].epoch
             /\ a.etag \in {0, a.epoch}
             /\ a.code = "DELETED" => script[r].method \in {"DELETE", "POST"}
             /\ a.code = "VALID" => a.etag = a.epoch /\ a.etag \in ToSet(etags)
             /\ a # NoReply => a.code \in Codes \ {"none", "SERVICE_UNAVAILABLE"}
<1>4. \A r \in Rs : True(r, worker[r].reply, worker[r].etags)
  <2> SUFFICES ASSUME NEW r \in Rs PROVE True(r, worker[r].reply, worker[r].etags)
    OBVIOUS
  <2>1. worker[r].reply.epoch <= origin'[script[r].uri].epoch
    <3>1. worker[r].reply.epoch <= origin[script[r].uri].epoch
      BY DEF RepliesAreTrue
    <3> QED
      BY <1>1, <1>3, <3>1
  <2> QED
    BY <2>1 DEF RepliesAreTrue
<1>5. \A u \in Uris : 1 <= origin'[u].epoch /\ written[u] <= origin'[u].epoch
  BY <1>1, <1>3 DEF RepliesAreTrue
<1>6. ASSUME UNCHANGED <<worker, written>> PROVE RepliesAreTrue'
  BY <1>1, <1>2, <1>4, <1>5, <1>6 DEF RepliesAreTrue, ToSet
<1>7. ASSUME NEW r \in Rs, Moves(r) PROVE RepliesAreTrue'
  <2>1. \A u \in Uris : written'[u] <= origin'[u].epoch
    <3> SUFFICES ASSUME NEW u \in Uris PROVE written'[u] <= origin'[u].epoch
      OBVIOUS
    <3>1. written'[u] = written[u] \/ (u = script[r].uri /\ written'[u] = worker[r].reply.epoch)
      BY <1>7 DEF Moves
    <3> QED
      BY <1>4, <1>5, <3>1
  <2>2. True(r, worker'[r].reply, worker'[r].etags)
    <3>1. CASE worker'[r].reply = worker[r].reply /\ worker'[r].etags = worker[r].etags
      BY <1>4, <3>1
    <3>2. CASE worker'[r].reply = NoReply
      <4>1. 0 <= origin'[script[r].uri].epoch
        BY <1>3, <1>5
      <4> QED
        BY <3>2, <4>1 DEF NoReply
    <3>3. CASE /\ worker'[r].reply \in Outcomes(r) /\ worker'[r].etags = worker[r].etags
               /\ worker'[r].reply.epoch <= MaxEpoch
               /\ origin'[script[r].uri].epoch = worker'[r].reply.epoch
      <4>1. PICK a \in Outcomes(r) : worker'[r].reply = a
        BY <3>3
      <4>2. /\ a \in Replies /\ a.etag \in {0, a.epoch}
            /\ a.code \in Codes \ {"none", "SERVICE_UNAVAILABLE"}
            /\ a.code = "DELETED" => script[r].method \in {"DELETE", "POST"}
            /\ a.code = "VALID" => a.etag = a.epoch /\ a.etag \in ToSet(worker[r].etags)
        BY <1>0, <3>3, <4>1, OutcomeTrue
      <4>3. a.epoch \in Int
        BY <4>2 DEF Replies, Epochs
      <4> QED
        BY <3>3, <4>1, <4>2, <4>3
    <3> QED
      BY <1>7, <3>1, <3>2, <3>3 DEF Moves
  <2>3. \A q \in Rs : True(q, worker'[q].reply, worker'[q].etags)
    BY <1>4, <1>7, <2>2 DEF Moves
  <2>4. \A u \in Uris : 1 <= origin'[u].epoch
    BY <1>5
  <2> QED
    BY <1>1, <1>2, <2>1, <2>3, <2>4 DEF RepliesAreTrue, ToSet
<1> QED
  BY <1>1, <1>6, <1>7

\* Where a request may be handled, the reverse proxy has none in hand.
LEMMA NoneInHand ==
  ASSUME TypeOK, mode = "reverse", MayHandle
  PROVE  \A q \in Rs : ~Active(q)
<1> DEFINE A == {q \in Rs : Active(q)}
<1>1. IsFiniteSet(Rs)
  BY ScriptTyped, FS_Interval
<1>2. IsFiniteSet(A)
  BY <1>1, FS_Subset
<1>3. Cardinality(A) < 1
  BY DEF MayHandle
<1> HIDE DEF A
<1>4. Cardinality(A) = 0
  BY <1>2, <1>3, FS_CardinalityType
<1>5. A = {}
  BY <1>2, <1>4, FS_EmptySet
<1> QED
  BY <1>5 DEF A

\* The reverse proxy handles one request at a time: kept by every step.
LEMMA AloneStep ==
  ASSUME TypeInv, Alone, [Next]_vars
  PROVE  Alone'
<1>1. /\ UNCHANGED <<mode, script>> /\ (listener' = "starting" => listener = "starting")
      /\ UNCHANGED <<worker, written>> \/ \E r \in Rs : Moves(r)
  BY StepSummary
<1>2. Rs' = Rs /\ TypeOK
  BY <1>1 DEF Rs, TypeInv
<1>3. ASSUME UNCHANGED worker PROVE Alone'
  BY <1>1, <1>2, <1>3 DEF Alone, Active
<1>4. ASSUME NEW r \in Rs, Moves(r) PROVE Alone'
  <2>1. listener # "starting"
    BY <1>4 DEF Alone, Moves, MayHandle
  <2>2. ASSUME mode = "reverse", NEW p \in Rs, NEW q \in Rs, Active(p)', Active(q)' PROVE p = q
    <3>1. CASE p # r /\ q # r
      BY <1>4, <2>2, <3>1 DEF Alone, Active, Moves
    <3>2. ASSUME NEW s \in Rs, s # r, Active(s)', Active(r)' PROVE FALSE
      <4>1. Active(s)
        BY <1>4, <3>2 DEF Active, Moves
      <4>2. ~MayHandle
        BY <1>2, <2>2, <4>1, NoneInHand
      <4>3. Active(r)
        BY <1>4, <3>2, <4>2 DEF Active, Moves
      <4> QED
        BY <2>2, <3>2, <4>1, <4>3 DEF Alone
    <3> QED
      BY <2>2, <3>1, <3>2
  <2> QED
    BY <1>1, <1>2, <2>1, <2>2 DEF Alone
<1> QED
  BY <1>1, <1>3, <1>4

-----------------------------------------------------------------------------
(* The reverse proxy: one transaction at a time, and the cache.            *)

\* The element that transaction r has found stays the one for its key: its
\* Response has r's mid, and r has its ETag at most besides the client's own.
\* Without an element r has the client's ETag only.
OwnElement(r) ==
  /\ \A i \in DOMAIN cache : cache[i].key = Key(r) =>
       /\ response[cache[i].object].mid = r
       /\ worker[r].etags \in {Own(r), Own(r) \o ETags(cache[i].object)}
  /\ (\A i \in DOMAIN cache : cache[i].key # Key(r)) => worker[r].etags = Own(r)

\* What the transaction in hand has to go on with.
InHand(r) ==
  /\ worker[r].pc \in {"asked", "relay"} => Path(r) \in known
  /\ worker[r].pc \in {"forward", "asked", "relay", "store"} => OwnElement(r)
  /\ worker[r].pc = "answer" /\ worker[r].response # r => response[worker[r].response].mid = r
  /\ worker[r].pc = "relay" /\ worker[r].reply # NoReply => worker[r].reply.epoch >= written[script[r].uri]
  /\ worker[r].pc = "store" =>
       /\ response[r].code # "SERVICE_UNAVAILABLE"
       /\ response[r].code = "INCOMPLETE" => worker[r].reply.code = "INCOMPLETE"
       /\ response[r].code = "VALID" =>
            response[r].etag \in ToSet(worker[r].etags) /\ response[r].etag >= written[script[r].uri]
       /\ response[r].code \in {"CONTENT", "NOT_FOUND"} =>
            response[r].etag \in {0, response[r].version} /\ response[r].version >= written[script[r].uri]

\* Only a transaction that is over shares its Response.
SharedIsOver ==
  \A q, r \in Rs : worker[q].response = r /\ q # r => worker[r].pc \in {"retransmit", "done"}

\* Payload and ETag of a cached Response are of one state of the resource; as
\* long as it is fresh, of none before the last write that marked the cache.
CacheIsCoherent ==
  \A i \in DOMAIN cache :
    LET o == response[cache[i].object] IN
    /\ o.etag \in {0, o.version}
    /\ cache[i].fresh => o.version >= written[cache[i].uri]

\* The replies that end the listener: Fatal(r) is about the one that r has.
FatalReply(r, a) ==
  a = NoReply \/ a.code = "INCOMPLETE" \/ (a.code = "DELETED" /\ script[r].method = "POST")

ReverseInv ==
  mode = "reverse" =>
    /\ \A r \in Rs : InHand(r) /\ (worker[r].pc = "dead" => FatalReply(r, worker[r].reply))
    /\ SharedIsOver
    /\ ~ClientETags => CacheIsCoherent

CacheInv == AnswersInv /\ RepliesAreTrue /\ Alone /\ ReverseInv

\* What goes on elsewhere leaves a transaction that has no step alone.
LEMMA HandKept ==
  ASSUME NEW q \in Rs, InHand(q), UNCHANGED script,
         worker'[q].pc = worker[q].pc, worker'[q].response = worker[q].response,
         worker'[q].etags = worker[q].etags, worker'[q].reply = worker[q].reply,
         ~Active(q) \/ UNCHANGED <<known, cache, response, written>>
  PROVE  InHand(q)'
<1>1. CASE ~Active(q)
  BY <1>1 DEF Active, InHand
<1>2. CASE UNCHANGED <<known, cache, response, written>>
  <2>1. Path(q)' = Path(q)
    BY <1>2 DEF Path
  <2>2. worker[q].pc \in {"forward", "asked", "relay", "store"} => OwnElement(q)'
    BY <1>2 DEF InHand, OwnElement, Key, Own, ETags
  <2>3. NoReply' = NoReply /\ \A s : ToSet(s)' = ToSet(s)
    BY DEF NoReply, ToSet
  <2> QED
    BY <1>2, <2>1, <2>2, <2>3 DEF InHand, ToSet
<1> QED
  BY <1>1, <1>2

\* The cache stays coherent if elements fade at most and their Responses keep
\* their state.
LEMMA CoherentKept ==
  ASSUME CacheIsCoherent, UNCHANGED written, cache \in Seq(Elements),
         \A j \in DOMAIN cache' : \E k \in DOMAIN cache : Fades(cache'[j], cache[k]),
         \A k \in DOMAIN cache : /\ response'[cache[k].object].etag = response[cache[k].object].etag
                                 /\ response'[cache[k].object].version = response[cache[k].object].version
  PROVE  CacheIsCoherent'
<1>1. ASSUME NEW j \in DOMAIN cache'
      PROVE  /\ response'[cache'[j].object].etag \in {0, response'[cache'[j].object].version}
             /\ cache'[j].fresh => response'[cache'[j].object].version >= written'[cache'[j].uri]
  <2>1. PICK k \in DOMAIN cache : Fades(cache'[j], cache[k])
    BY <1>1
  <2> DEFINE y == cache[k].object
  <2>2. cache'[j].object = y /\ cache'[j].uri = cache[k].uri /\ (cache'[j].fresh => cache[k].fresh)
    BY <2>1 DEF Fades
  <2>3. /\ response[y].etag \in {0, response[y].version}
        /\ cache[k].fresh => response[y].version >= written[cache[k].uri]
    BY DEF CacheIsCoherent
  <2>4. response'[y].etag = response[y].etag /\ response'[y].version = response[y].version
    OBVIOUS
  <2> HIDE DEF y
  <2> QED
    BY <2>2, <2>3, <2>4
<1> QED
  BY <1>1 DEF CacheIsCoherent

\* No transaction goes on.
LEMMA ReverseStays ==
  ASSUME CacheInv, UNCHANGED <<mode, script, cache, worker, written>>,
         (\A q \in Rs : ~Active(q)) \/ UNCHANGED <<known, response>>,
         \A y \in Rs : response'[y].etag = response[y].etag /\ response'[y].version = response[y].version
  PROVE  ReverseInv'
<1> SUFFICES ASSUME mode = "reverse" PROVE ReverseInv'
  BY DEF ReverseInv
<1>1. Rs' = Rs /\ ClientETags' = ClientETags
  BY DEF Rs, ClientETags
<1>2. \A q \in Rs : InHand(q)'
  BY HandKept DEF CacheInv, ReverseInv
<1>3. SharedIsOver'
  BY <1>1 DEF CacheInv, ReverseInv, SharedIsOver
<1>4. ASSUME ~ClientETags PROVE CacheIsCoherent'
  <2>1. CacheIsCoherent /\ cache \in Seq(Elements)
    BY <1>4 DEF CacheInv, ReverseInv, AnswersInv, TypeInv, TypeOK
  <2>2. \A k \in DOMAIN cache : cache[k] \in Elements
    BY <2>1
  <2>3. \A k \in DOMAIN cache : cache[k].object \in Rs
    BY <2>2 DEF Elements
  <2>4. \A j \in DOMAIN cache' : Fades(cache'[j], cache[j]) /\ j \in DOMAIN cache
    BY DEF Fades
  <2> QED
    BY <2>1, <2>3, <2>4, CoherentKept
<1>5. \A q \in Rs : worker'[q].pc = "dead" => FatalReply(q, worker[q].reply)'
  BY DEF CacheInv, ReverseInv, FatalReply, NoReply
<1> QED
  BY <1>1, <1>2, <1>3, <1>4, <1>5 DEF ReverseInv

\* One transaction goes on.
LEMMA ReverseKept ==
  ASSUME CacheInv, mode = "reverse", UNCHANGED <<mode, script>>,
         NEW r \in Rs, NEW pc, NEW x, NEW etags, NEW reply, Becomes(r, pc, x, etags, reply),
         Active(r) \/ (\A q \in Rs : ~Active(q)) \/ UNCHANGED <<known, cache, response, written>>,
         InHand(r)',
         worker[r].pc \in {"retransmit", "done"} => pc \in {"retransmit", "done"},
         x = worker[r].response \/ x = r \/ worker[x].pc \in {"retransmit", "done"},
         worker[r].pc = "dead" \/ pc # "dead" \/ FatalReply(r, reply), worker[r].pc = "dead" => reply = worker[r].reply,
         ~ClientETags => CacheIsCoherent'
  PROVE  ReverseInv'
<1>1. Rs' = Rs /\ ClientETags' = ClientETags
  BY DEF Rs, ClientETags
<1>2. /\ \A q \in Rs \ {r} : worker'[q] = worker[q]
      /\ worker'[r].pc = pc /\ worker'[r].response = x /\ worker'[r].reply = reply
  BY DEF Becomes
<1>3. \A q \in Rs : InHand(q)'
  <2> SUFFICES ASSUME NEW q \in Rs, q # r PROVE InHand(q)'
    OBVIOUS
  <2>1. ~Active(q) \/ UNCHANGED <<known, cache, response, written>>
    BY DEF CacheInv, Alone
  <2>2. InHand(q)
    BY DEF CacheInv, ReverseInv
  <2> QED
    BY <1>2, <2>1, <2>2, HandKept
<1>4. SharedIsOver'
  <2> SUFFICES ASSUME NEW p \in Rs, NEW q \in Rs, worker'[p].response = q, p # q
               PROVE  worker'[q].pc \in {"retransmit", "done"}
    BY <1>1 DEF SharedIsOver
  <2>1. worker[q].pc \in {"retransmit", "done"}
    BY <1>2 DEF CacheInv, ReverseInv, SharedIsOver
  <2> QED
    BY <1>2, <2>1
<1>5. \A q \in Rs : worker'[q].pc = "dead" => FatalReply(q, worker[q].reply)'
  <2>1. \A q \in Rs : worker[q].pc = "dead" => FatalReply(q, worker[q].reply)
    BY DEF CacheInv, ReverseInv
  <2> QED
    BY <1>2, <2>1 DEF FatalReply, NoReply
<1> QED
  BY <1>1, <1>3, <1>4, <1>5 DEF ReverseInv

\* The facts about the transaction in hand that each of the following needs.
LEMMA HandFacts ==
  ASSUME CacheInv, mode = "reverse"
  PROVE  /\ TypeInv /\ TypeOK /\ HasResponse /\ Beginnings /\ CacheOfAnswers /\ SharedIsAnswered /\ AckIsGiven
         /\ RepliesAreTrue /\ Alone /\ SharedIsOver /\ (~ClientETags => CacheIsCoherent)
         /\ \A r \in Rs : InHand(r) /\ (worker[r].pc = "dead" => FatalReply(r, worker[r].reply))
         /\ response \in [Rs -> Objects] /\ worker \in [Rs -> Transactions] /\ cache \in Seq(Elements)
         /\ \A i \in DOMAIN cache : cache[i] \in Elements /\ cache[i].object \in Rs
         /\ \A q, r \in Rs : Active(q) /\ Active(r) => q = r
<1>1. /\ TypeInv /\ TypeOK /\ HasResponse /\ Beginnings /\ CacheOfAnswers /\ SharedIsAnswered /\ AckIsGiven
      /\ RepliesAreTrue /\ Alone /\ SharedIsOver /\ (~ClientETags => CacheIsCoherent)
      /\ \A r \in Rs : InHand(r) /\ (worker[r].pc = "dead" => FatalReply(r, worker[r].reply))
      /\ response \in [Rs -> Objects] /\ worker \in [Rs -> Transactions] /\ cache \in Seq(Elements)
  BY DEF CacheInv, ReverseInv, AnswersInv, TypeInv, TypeOK
<1>2. \A i \in DOMAIN cache : cache[i] \in Elements
  BY <1>1
<1>3. \A i \in DOMAIN cache : cache[i].object \in Rs
  BY <1>2 DEF Elements
<1>4. \A q, r \in Rs : Active(q) /\ Active(r) => q = r
  BY <1>1 DEF Alone
<1> QED
  BY <1>1, <1>2, <1>3, <1>4

\* A cached Response is of a transaction that is over, if another is in hand.
LEMMA CachedIsOver ==
  ASSUME CacheInv, mode = "reverse", NEW r \in Rs, worker[r].pc \in {"lookup", "forward", "asked", "relay", "store"},
         NEW i \in DOMAIN cache
  PROVE  cache[i].object # r /\ worker[cache[i].object].pc \in {"retransmit", "done"}
<1> DEFINE x == cache[i].object
<1>1. x \in Rs /\ Answers(x)
  BY HandFacts DEF CacheOfAnswers
<1>2. Active(r) /\ (Active(x) => x = r)
  BY <1>1, HandFacts DEF Active
<1> HIDE DEF x
<1>3. x # r
  BY <1>1 DEF Answers
<1> QED
  BY <1>1, <1>2, <1>3 DEF Answers, Active, x

\* The steps of a transaction at a cache and a tree that stay as they are, but
\* for its own Response.
LEMMA OwnElementKept ==
  ASSUME CacheInv, mode = "reverse", NEW r \in Rs, worker[r].pc \in {"forward", "asked", "relay", "store"},
         UNCHANGED <<script, cache>>, worker'[r].etags = worker[r].etags,
         \A y \in Rs \ {r} : response'[y] = response[y]
  PROVE  OwnElement(r)'
<1>1. OwnElement(r)
  BY HandFacts DEF InHand
<1>2. Key(r)' = Key(r) /\ Own(r)' = Own(r)
  BY DEF Key, Own
<1>3. ASSUME NEW i \in DOMAIN cache
      PROVE  response'[cache[i].object] = response[cache[i].object] /\ ETags(cache[i].object)' = ETags(cache[i].object)
  <2>1. cache[i].object \in Rs \ {r}
    BY CachedIsOver, HandFacts
  <2>2. PICK y \in Rs \ {r} : cache[i].object = y
    BY <2>1
  <2>3. response'[y] = response[y] /\ cache'[i].object = y
    BY <2>2
  <2>4. ETags(y)' = ETags(y)
    BY <2>3 DEF ETags
  <2> QED
    BY <2>2, <2>3, <2>4 DEF ETags
<1> QED
  BY <1>1, <1>2, <1>3 DEF OwnElement

\* A Response in hand is no element's, so changing it leaves the cache coherent.
LEMMA OwnCoherent ==
  ASSUME CacheInv, mode = "reverse", NEW r \in Rs, worker[r].pc \in {"lookup", "forward", "asked", "relay", "store"},
         UNCHANGED <<cache, written>>, \A y \in Rs \ {r} : response'[y] = response[y], ~ClientETags
  PROVE  CacheIsCoherent'
<1>1. \A k \in DOMAIN cache : response'[cache[k].object] = response[cache[k].object]
  BY CachedIsOver, HandFacts
<1>2. \A j \in DOMAIN cache' : Fades(cache'[j], cache[j]) /\ j \in DOMAIN cache
  BY DEF Fades
<1> QED
  BY <1>1, <1>2, CoherentKept, HandFacts

\* Steps that leave cache and Responses alone.
LEMMA QuietStep ==
  ASSUME CacheInv, mode = "reverse", NEW r \in Rs, UNCHANGED <<environment, known, cache, response, written>>,
         NEW pc, Becomes(r, pc, worker[r].response, worker[r].etags, worker[r].reply),
         pc = worker[r].pc \/ (worker[r].pc = "retransmit" /\ pc = "done")
  PROVE  ReverseInv'
<1>1. UNCHANGED <<mode, script>>
  BY DEF environment
<1>2. ASSUME ~ClientETags PROVE CacheIsCoherent'
  <2>1. \A j \in DOMAIN cache' : Fades(cache'[j], cache[j]) /\ j \in DOMAIN cache
    BY DEF Fades
  <2> QED
    BY <1>2, <2>1, CoherentKept, HandFacts
<1>3. InHand(r)'
  <2>1. CASE pc = worker[r].pc
    BY <1>1, <2>1, HandKept, HandFacts DEF Becomes
  <2>2. CASE worker[r].pc = "retransmit" /\ pc = "done"
    BY <2>2 DEF Becomes, InHand
  <2> QED
    BY <2>1, <2>2
<1>4. worker[r].pc = "dead" \/ pc # "dead"
  OBVIOUS
<1>5. worker[r].pc \in {"retransmit", "done"} => pc \in {"retransmit", "done"}
  OBVIOUS
<1> QED
  BY <1>1, <1>2, <1>3, <1>4, <1>5, ReverseKept

\* Steps of the transaction in hand before the cache has answered or stored.
LEMMA ReceiveReverse ==
  ASSUME CacheInv, mode = "reverse", NEW r \in Rs, Receive(r)
  PROVE  ReverseInv'
<1>1. /\ MayHandle /\ worker[r].pc = "new" /\ Becomes(r, "lookup", worker[r].response, Own(r), worker[r].reply)
      /\ UNCHANGED <<environment, known, listener, cache, response, written>>
  BY ReceiveStep, HandFacts
<1>2. InHand(r)'
  BY <1>1 DEF Becomes, InHand
<1>3. \A j \in DOMAIN cache' : Fades(cache'[j], cache[j]) /\ j \in DOMAIN cache
  BY <1>1 DEF Fades
<1>4. ~ClientETags => CacheIsCoherent'
  BY <1>1, <1>3, CoherentKept, HandFacts
<1> QED
  BY <1>1, <1>2, <1>4, ReverseKept DEF environment

\* A look-up that finds nothing.
LEMMA MissReverse ==
  ASSUME CacheInv, mode = "reverse", NEW r \in Rs, LookupMiss(r)
  PROVE  ReverseInv'
<1>1. /\ worker[r].pc = "lookup" /\ Goto(r, "forward") /\ Key(r) \notin Keys
      /\ UNCHANGED <<environment, known, cache, response, written>>
  BY DEF LookupMiss
<1>2. Becomes(r, "forward", worker[r].response, worker[r].etags, worker[r].reply)
  BY <1>1, GotoStep, HandFacts
<1>3. worker[r].etags = Own(r)
  BY <1>1, HandFacts DEF Beginnings
<1>4. OwnElement(r)'
  <2>1. Key(r)' = Key(r) /\ Own(r)' = Own(r) /\ cache' = cache /\ worker'[r].etags = Own(r)
    BY <1>1, <1>2, <1>3 DEF Key, Own, environment, Becomes
  <2>2. \A i \in DOMAIN cache : cache[i].key # Key(r)
    BY <1>1 DEF Keys
  <2> QED
    BY <2>1, <2>2 DEF OwnElement
<1>5. InHand(r)'
  BY <1>2, <1>4 DEF Becomes, InHand
<1>6. ~ClientETags => CacheIsCoherent'
  BY <1>1, OwnCoherent
<1>7. Active(r)
  BY <1>1 DEF Active
<1> QED
  BY <1>1, <1>2, <1>5, <1>6, <1>7, ReverseKept DEF environment

\* A look-up that finds an element: a hit, or a validation that it begins.
LEMMA FoundReverse ==
  ASSUME CacheInv, mode = "reverse", NEW r \in Rs, LookupFound(r)
  PROVE  ReverseInv'
<1> DEFINE e == Element(r)
           i == Find(Key(r))
           pc == IF Hit(r, e) THEN "answer" ELSE "forward"
<1>1. /\ worker[r].pc = "lookup" /\ i \in DOMAIN cache /\ e \in Elements /\ e.key = Key(r)
      /\ \E etags \in {worker[r].etags, worker[r].etags \o ETags(e.object)} :
           Becomes(r, pc, e.object, etags, worker[r].reply)
      /\ Writes(e.object) /\ response'[e.object] = [response[e.object] EXCEPT !.mid = r]
      /\ \A j \in DOMAIN cache' : \E k \in DOMAIN cache : Fades(cache'[j], cache[k])
      /\ \E j \in DOMAIN cache' : cache'[j].key = Key(r) /\ cache'[j].object = e.object
      /\ UNCHANGED <<environment, known, written>>
  BY LookupFoundStep, HandFacts
<1>2. PICK etags \in {worker[r].etags, worker[r].etags \o ETags(e.object)} :
        Becomes(r, pc, e.object, etags, worker[r].reply)
  BY <1>1
<1>3. e = cache[i]
  BY DEF Element
<1>4. pc \in {"answer", "forward"}
  OBVIOUS
<1> HIDE DEF e, i, pc
<1>5. PICK x \in Rs : e.object = x
  BY <1>1 DEF Elements
<1>6. x # r /\ worker[x].pc \in {"retransmit", "done"} /\ Active(r)
  BY <1>1, <1>3, <1>5, CachedIsOver DEF Active
<1>7. /\ response'[x].mid = r /\ response'[x].etag = response[x].etag /\ response'[x].version = response[x].version
      /\ \A y \in Rs \ {x} : response'[y] = response[y]
  <2>1. response[x] \in Objects
    BY HandFacts
  <2> QED
    BY <1>1, <1>5, <2>1 DEF Objects, Writes
<1>8. worker[r].etags = Own(r) /\ worker[r].reply = NoReply
  BY <1>1, HandFacts DEF Beginnings
<1>9. /\ worker'[r].pc = pc /\ worker'[r].response = x /\ worker'[r].etags = etags
  BY <1>2, <1>5 DEF Becomes
<1>10. OwnElement(r)'
  <2>1. Key(r)' = Key(r) /\ Own(r)' = Own(r) /\ ETags(x)' = ETags(x)
    BY <1>1, <1>7 DEF Key, Own, ETags, environment
  <2>2. etags \in {Own(r), Own(r) \o ETags(x)}
    BY <1>2, <1>5, <1>8
  <2>3. ASSUME NEW j \in DOMAIN cache', cache'[j].key = Key(r) PROVE cache'[j].object = x
    <3>1. PICK k \in DOMAIN cache : Fades(cache'[j], cache[k])
      BY <1>1
    <3>2. cache[k].key = cache[i].key
      BY <1>1, <1>3, <2>3, <3>1 DEF Fades
    <3>3. k = i
      BY <1>1, <3>2, HandFacts DEF TypeOK
    <3> QED
      BY <1>3, <1>5, <3>1, <3>3 DEF Fades
  <2>4. \E j \in DOMAIN cache' : cache'[j].key = Key(r)
    BY <1>1
  <2>5. ASSUME NEW j \in DOMAIN cache', cache'[j].key = Key(r)
        PROVE  response'[cache'[j].object].mid = r /\ ETags(cache[j].object)' = ETags(x)
    BY <1>7, <2>1, <2>3, <2>5 DEF ETags
  <2> QED
    BY <1>9, <2>1, <2>2, <2>4, <2>5 DEF OwnElement
<1>11. InHand(r)'
  BY <1>4, <1>7, <1>9, <1>10 DEF InHand
<1>12. ASSUME ~ClientETags PROVE CacheIsCoherent'
  <2>1. \A k \in DOMAIN cache : /\ response'[cache[k].object].etag = response[cache[k].object].etag
                                /\ response'[cache[k].object].version = response[cache[k].object].version
    BY <1>7, HandFacts
  <2> QED
    BY <1>1, <1>12, <2>1, CoherentKept, HandFacts
<1> QED
  BY <1>1, <1>2, <1>4, <1>5, <1>6, <1>11, <1>12, ReverseKept DEF environment

\* A request that is forwarded.
LEMMA ForwardReverse ==
  ASSUME CacheInv, mode = "reverse", NEW r \in Rs, Forward(r)
  PROVE  ReverseInv'
<1>1. /\ worker[r].pc = "forward" /\ Writes(r)
      /\ response'[r].version = origin[script[r].uri].epoch /\ response'[r].etag = 0
      /\ UNCHANGED <<environment, known, cache, written>>
      /\ \/ response'[r].code = "NOT_FOUND" /\ Becomes(r, "store", r, worker[r].etags, worker[r].reply)
         \/ Becomes(r, "dead", worker[r].response, worker[r].etags, worker[r].reply)
         \/ Path(r) \in known /\ Becomes(r, "asked", r, worker[r].etags, worker[r].reply)
  BY ForwardStep, HandFacts
<1>2. UNCHANGED <<mode, script>> /\ Active(r) /\ worker[r].reply = NoReply
  BY <1>1, HandFacts DEF environment, Active, Beginnings
<1>3. \A y \in Rs \ {r} : response'[y] = response[y]
  BY <1>1 DEF Writes
<1>4. ~ClientETags => CacheIsCoherent'
  BY <1>1, <1>3, OwnCoherent
<1>5. worker'[r].etags = worker[r].etags
  BY <1>1 DEF Becomes
<1>6. OwnElement(r)'
  BY <1>1, <1>2, <1>3, <1>5, OwnElementKept
<1>7. origin[script[r].uri].epoch >= written[script[r].uri]
  <2>1. script[r].uri \in Uris /\ written[script[r].uri] \in Int /\ origin[script[r].uri].epoch \in Int
    BY ScriptTyped, HandFacts DEF TypeOK, Epochs
  <2> QED
    BY <2>1, HandFacts DEF RepliesAreTrue
<1>8. CASE response'[r].code = "NOT_FOUND" /\ Becomes(r, "store", r, worker[r].etags, worker[r].reply)
  <2>1. InHand(r)'
    BY <1>1, <1>2, <1>6, <1>7, <1>8 DEF Becomes, InHand
  <2> QED
    BY <1>2, <1>4, <1>8, <2>1, <1>1, ReverseKept
<1>9. CASE Becomes(r, "dead", worker[r].response, worker[r].etags, worker[r].reply)
  <2>1. InHand(r)'
    BY <1>9 DEF Becomes, InHand
  <2> QED
    BY <1>2, <1>4, <1>9, <2>1, <1>1, ReverseKept DEF FatalReply
<1>10. CASE Path(r) \in known /\ Becomes(r, "asked", r, worker[r].etags, worker[r].reply)
  <2>1. Path(r)' \in known'
    BY <1>1, <1>2, <1>10 DEF Path
  <2>2. InHand(r)'
    BY <1>6, <1>10, <2>1 DEF Becomes, InHand
  <2> QED
    BY <1>2, <1>4, <1>10, <2>2, <1>1, ReverseKept
<1> QED
  BY <1>1, <1>8, <1>9, <1>10

\* The origin's answer becomes a Response.
LEMMA RelayReverse ==
  ASSUME CacheInv, mode = "reverse", NEW r \in Rs, ReverseRelay(r)
  PROVE  ReverseInv'
<1>1. /\ worker[r].pc = "relay" /\ UNCHANGED <<environment, cache, written>>
      /\ \/ /\ UNCHANGED response
            /\ Becomes(r, "dead", worker[r].response, worker[r].etags, worker[r].reply)
            /\ worker[r].reply = NoReply \/ (worker[r].reply.code = "DELETED" /\ script[r].uri \notin known)
         \/ /\ Writes(r)
            /\ Becomes(r, "store", worker[r].response, worker[r].etags, worker[r].reply)
            /\ worker[r].reply # NoReply
            /\ response'[r].code = worker[r].reply.code /\ response'[r].etag = worker[r].reply.etag
            /\ response'[r].version = IF worker[r].reply.code = "VALID" THEN 0 ELSE worker[r].reply.epoch
  BY RelayStep, HandFacts
<1>2. UNCHANGED <<mode, script>> /\ Active(r) /\ InHand(r)
  BY <1>1, HandFacts DEF environment, Active
<1>3. \A y \in Rs \ {r} : response'[y] = response[y]
  BY <1>1 DEF Writes
<1>4. ~ClientETags => CacheIsCoherent'
  BY <1>1, <1>3, OwnCoherent
<1>5. worker'[r].etags = worker[r].etags
  BY <1>1 DEF Becomes
<1>6. OwnElement(r)'
  BY <1>1, <1>2, <1>3, <1>5, OwnElementKept
<1>7. CASE /\ Becomes(r, "dead", worker[r].response, worker[r].etags, worker[r].reply)
           /\ worker[r].reply = NoReply \/ (worker[r].reply.code = "DELETED" /\ script[r].uri \notin known)
  <2>1. FatalReply(r, worker[r].reply)
    <3> SUFFICES ASSUME worker[r].reply.code = "DELETED", script[r].uri \notin known, script[r].method # "POST"
                 PROVE  FALSE
      BY <1>7 DEF FatalReply
    <3>1. Path(r) = script[r].uri
      BY DEF Path
    <3> QED
      BY <1>1, <1>2, <3>1 DEF InHand
  <2>2. InHand(r)'
    BY <1>7 DEF Becomes, InHand
  <2> QED
    BY <1>1, <1>2, <1>4, <1>7, <2>1, <2>2, ReverseKept
<1>8. CASE /\ Becomes(r, "store", worker[r].response, worker[r].etags, worker[r].reply)
           /\ worker[r].reply # NoReply
           /\ response'[r].code = worker[r].reply.code /\ response'[r].etag = worker[r].reply.etag
           /\ response'[r].version = IF worker[r].reply.code = "VALID" THEN 0 ELSE worker[r].reply.epoch
  <2> DEFINE a == worker[r].reply
  <2>1. /\ a.etag \in {0, a.epoch} /\ a.code # "SERVICE_UNAVAILABLE" /\ a.epoch >= written[script[r].uri]
        /\ a.code = "VALID" => a.etag = a.epoch /\ a.etag \in ToSet(worker[r].etags)
    BY <1>1, <1>2, <1>8, HandFacts DEF RepliesAreTrue, InHand
  <2>2. ToSet(worker[r].etags) = ToSet(worker'[r].etags)
    BY <1>5
  <2>3. /\ worker'[r].pc = "store" /\ worker'[r].reply = a
        /\ response'[r].code = a.code /\ response'[r].etag = a.etag
        /\ response'[r].version = IF a.code = "VALID" THEN 0 ELSE a.epoch
        /\ written'[script'[r].uri] = written[script[r].uri]
    BY <1>1, <1>2, <1>8 DEF Becomes
  <2> HIDE DEF a
  <2>4. response'[r].code = "VALID" =>
           response'[r].etag \in ToSet(worker'[r].etags) /\ response'[r].etag >= written'[script'[r].uri]
    BY <2>1, <2>2, <2>3
  <2>5. response'[r].code \in {"CONTENT", "NOT_FOUND"} =>
           /\ response'[r].etag \in {0, response'[r].version}
           /\ response'[r].version >= written'[script'[r].uri]
    BY <2>1, <2>3
  <2>6. InHand(r)'
    BY <1>6, <2>1, <2>3, <2>4, <2>5 DEF InHand, ToSet
  <2> QED
    BY <1>1, <1>2, <1>4, <1>8, <2>6, ReverseKept
<1> QED
  BY <1>1, <1>7, <1>8

\* The origin answers, or does not.
LEMMA OriginReverse ==
  ASSUME CacheInv, mode = "reverse", NEW r \in Rs, OriginAnswers(r) \/ OriginSilent(r)
  PROVE  ReverseInv'
<1>1. /\ worker[r].pc = "asked" /\ UNCHANGED <<mode, script, known, cache, response, written>>
      /\ \/ \E a \in Outcomes(r) :
              a.epoch <= MaxEpoch /\ Becomes(r, "relay", worker[r].response, worker[r].etags, a)
         \/ Becomes(r, "relay", worker[r].response, worker[r].etags, worker[r].reply)
  <2>1. CASE OriginAnswers(r)
    BY <2>1, OriginAnswersStep, HandFacts
  <2>2. CASE OriginSilent(r)
    BY <2>2, GotoStep, HandFacts DEF OriginSilent, environment
  <2> QED
    BY <2>1, <2>2
<1>2. Active(r) /\ InHand(r) /\ worker[r].reply = NoReply
  BY <1>1, HandFacts DEF Active, Beginnings
<1>3. ~ClientETags => CacheIsCoherent'
  BY <1>1, OwnCoherent
<1>4. worker'[r].etags = worker[r].etags
  BY <1>1 DEF Becomes
<1>5. OwnElement(r)' /\ Path(r)' \in known'
  BY <1>1, <1>2, <1>4, OwnElementKept DEF InHand, Path
<1>6. ASSUME NEW reply, Becomes(r, "relay", worker[r].response, worker[r].etags, reply),
             reply # NoReply => reply.epoch >= written[script[r].uri]
      PROVE  ReverseInv'
  <2>1. InHand(r)'
    BY <1>1, <1>5, <1>6 DEF Becomes, InHand, NoReply
  <2> QED
    BY <1>1, <1>2, <1>3, <1>6, <2>1, ReverseKept
<1>7. ASSUME NEW a \in Outcomes(r), a.epoch <= MaxEpoch, Becomes(r, "relay", worker[r].response, worker[r].etags, a)
      PROVE  ReverseInv'
  <2>1. /\ script[r].uri \in Uris /\ written[script[r].uri] \in Int /\ origin[script[r].uri].epoch \in Int
        /\ written[script[r].uri] <= origin[script[r].uri].epoch
    BY ScriptTyped, HandFacts DEF TypeOK, Epochs, RepliesAreTrue
  <2>2. a.epoch \in {origin[script[r].uri].epoch, origin[script[r].uri].epoch + 1}
    BY <1>7, OutcomeTrue, HandFacts
  <2>3. a.epoch >= written[script[r].uri]
    BY <2>1, <2>2
  <2> QED
    BY <1>6, <1>7, <2>3
<1>8. CASE Becomes(r, "relay", worker[r].response, worker[r].etags, worker[r].reply)
  BY <1>2, <1>6, <1>8
<1> QED
  BY <1>1, <1>7, <1>8

\* A write marks the cache.
LEMMA MarkReverse ==
  ASSUME CacheInv, mode = "reverse", NEW r \in Rs, StoreMark(r)
  PROVE  ReverseInv'
<1>1. /\ worker[r].pc = "store" /\ Becomes(r, "answer", r, worker[r].etags, worker[r].reply)
      /\ \A j \in DOMAIN cache' : \E k \in DOMAIN cache :
           Fades(cache'[j], cache[k]) /\ (cache'[j].fresh => ~Related(r, cache[k]))
      /\ UNCHANGED <<environment, known, response>>
  BY StoreMarkStep, HandFacts
<1>2. UNCHANGED <<mode, script>> /\ Active(r)
  BY <1>1 DEF environment, Active
<1>3. InHand(r)'
  BY <1>1 DEF Becomes, InHand
<1>4. ASSUME ~ClientETags PROVE CacheIsCoherent'
  <2>1. ASSUME NEW j \in DOMAIN cache'
        PROVE  ~cache'[j].fresh /\ response'[cache'[j].object].etag \in {0, response'[cache'[j].object].version}
    <3>1. PICK k \in DOMAIN cache : Fades(cache'[j], cache[k]) /\ (cache'[j].fresh => ~Related(r, cache[k]))
      BY <1>1
    <3>2. response[cache[k].object].etag \in {0, response[cache[k].object].version}
      BY <1>4, HandFacts DEF CacheIsCoherent
    <3> QED
      BY <1>1, <3>1, <3>2 DEF Fades, Related
  <2> QED
    BY <2>1 DEF CacheIsCoherent
<1> QED
  BY <1>1, <1>2, <1>3, <1>4, ReverseKept

\* A Response goes into the cache.
LEMMA AddReverse ==
  ASSUME CacheInv, mode = "reverse", NEW r \in Rs, StoreAdd(r)
  PROVE  ReverseInv'
<1>1. /\ worker[r].pc = "store" /\ Becomes(r, "answer", r, worker[r].etags, worker[r].reply)
      /\ response[r].code \in {"CONTENT", "NOT_FOUND", "SERVICE_UNAVAILABLE"}
      /\ \A j \in DOMAIN cache' : cache'[j] = NewElement(r, r) \/ \E k \in DOMAIN cache : cache'[j] = cache[k]
      /\ UNCHANGED <<environment, known, response, written>>
  BY StoreAddStep, HandFacts
<1>2. UNCHANGED <<mode, script>> /\ Active(r)
  BY <1>1 DEF environment, Active
<1>3. InHand(r)'
  BY <1>1 DEF Becomes, InHand
<1>4. response[r].etag \in {0, response[r].version} /\ response[r].version >= written[script[r].uri]
  BY <1>1, HandFacts DEF InHand
<1>5. ASSUME ~ClientETags PROVE CacheIsCoherent'
  <2>1. ASSUME NEW j \in DOMAIN cache'
        PROVE  /\ response'[cache'[j].object].etag \in {0, response'[cache'[j].object].version}
               /\ cache'[j].fresh => response'[cache'[j].object].version >= written'[cache'[j].uri]
    <3>1. CASE cache'[j] = NewElement(r, r)
      BY <1>1, <1>4, <3>1 DEF NewElement
    <3>2. CASE \E k \in DOMAIN cache : cache'[j] = cache[k]
      BY <1>1, <1>5, <3>2, HandFacts DEF CacheIsCoherent
    <3> QED
      BY <1>1, <3>1, <3>2
  <2> QED
    BY <2>1 DEF CacheIsCoherent
<1> QED
  BY <1>1, <1>2, <1>3, <1>5, ReverseKept

\* A Response that check_code raises for: it has the code of the origin's answer.
LEMMA RejectReverse ==
  ASSUME CacheInv, mode = "reverse", NEW r \in Rs, StoreReject(r)
  PROVE  ReverseInv'
<1>1. /\ worker[r].pc = "store" /\ response[r].code = "INCOMPLETE"
      /\ Becomes(r, "dead", worker[r].response, worker[r].etags, worker[r].reply)
      /\ UNCHANGED <<environment, known, cache, response, written>>
  BY StoreRejectStep, HandFacts
<1>2. UNCHANGED <<mode, script>> /\ Active(r)
  BY <1>1 DEF environment, Active
<1>3. FatalReply(r, worker[r].reply)
  BY <1>1, HandFacts DEF InHand, FatalReply
<1>4. InHand(r)'
  BY <1>1 DEF Becomes, InHand
<1>5. ~ClientETags => CacheIsCoherent'
  BY <1>1, OwnCoherent
<1> QED
  BY <1>1, <1>2, <1>3, <1>4, <1>5, ReverseKept

\* A 2.03 is for the ETag of the element that the transaction has found, if not
\* for the client's: where the cache has none, the Response is the answer.
LEMMA ValidReverse ==
  ASSUME CacheInv, mode = "reverse", NEW r \in Rs, StoreValid(r)
  PROVE  ReverseInv'
<1> DEFINE e == Element(r)
           i == Find(Key(r))
           own == worker[r].etags = ETags(r)
<1>1. /\ worker[r].pc = "store" /\ response[r].code = "VALID" /\ UNCHANGED <<environment, known, written>>
      /\ \/ UNCHANGED <<cache, response>> /\ Becomes(r, "answer", r, worker[r].etags, worker[r].reply)
         \/ Key(r) \notin Keys /\ ~own /\ Becomes(r, "dead", r, worker[r].etags, worker[r].reply)
         \/ /\ i \in DOMAIN cache /\ e \in Elements /\ e.key = Key(r)
            /\ Becomes(r, "answer", IF own THEN r ELSE e.object, worker[r].etags, worker[r].reply)
            /\ Writes(e.object) /\ response'[e.object] = [response[e.object] EXCEPT !.etag = response[r].etag]
            /\ \A j \in DOMAIN cache' :
                 \/ \E k \in DOMAIN cache : cache'[j] = cache[k]
                 \/ /\ cache'[j].key = Key(r) /\ cache'[j].uri = script[r].uri
                    /\ cache'[j].object = e.object /\ cache'[j].marked = written[script[r].uri]
  BY StoreValidStep, HandFacts
<1>2. UNCHANGED <<mode, script>> /\ Active(r) /\ InHand(r)
  BY <1>1, HandFacts DEF environment, Active
<1>3. OwnElement(r) /\ response[r].etag \in ToSet(worker[r].etags) /\ response[r].etag >= written[script[r].uri]
  BY <1>1, <1>2 DEF InHand
<1>4. response[r].etag \in 1..MaxEpoch
  <2>1. worker[r].etags \in Seq(1..MaxEpoch)
    BY HandFacts DEF Transactions
  <2>2. \A S, s : s \in Seq(S) => ToSet(s) \subseteq S
    BY FiniteRange
  <2>3. ToSet(worker[r].etags) \subseteq 1..MaxEpoch
    BY <2>1, <2>2
  <2> QED
    BY <1>3, <2>3
<1>5. ETags(r) = <<response[r].etag>>
  BY <1>4, BoundsAssumption DEF ETags
<1> HIDE DEF own, e, i
<1>6. CASE UNCHANGED <<cache, response>> /\ Becomes(r, "answer", r, worker[r].etags, worker[r].reply)
  <2>1. InHand(r)'
    BY <1>6 DEF Becomes, InHand
  <2>2. ~ClientETags => CacheIsCoherent'
    BY <1>1, <1>6, OwnCoherent
  <2> QED
    BY <1>1, <1>2, <1>6, <2>1, <2>2, ReverseKept
<1>7. ASSUME Key(r) \notin Keys, ~own PROVE FALSE
  <2>1. worker[r].etags = Own(r)
    BY <1>3, <1>7 DEF OwnElement, Keys
  <2>2. script[r].etag # 0 /\ worker[r].etags = <<script[r].etag>>
    BY <1>3, <2>1 DEF Own, ToSet
  <2>3. response[r].etag = script[r].etag
    BY <1>3, <2>2 DEF ToSet
  <2> QED
    BY <1>5, <1>7, <2>2, <2>3 DEF own
<1>8. CASE /\ i \in DOMAIN cache /\ e \in Elements /\ e.key = Key(r)
           /\ Becomes(r, "answer", IF own THEN r ELSE e.object, worker[r].etags, worker[r].reply)
           /\ Writes(e.object) /\ response'[e.object] = [response[e.object] EXCEPT !.etag = response[r].etag]
           /\ \A j \in DOMAIN cache' :
                \/ \E k \in DOMAIN cache : cache'[j] = cache[k]
                \/ /\ cache'[j].key = Key(r) /\ cache'[j].uri = script[r].uri
                   /\ cache'[j].object = e.object /\ cache'[j].marked = written[script[r].uri]
  <2>1. e = cache[i]
    BY DEF e, i, Element
  <2>2. PICK x \in Rs : e.object = x
    BY <1>8 DEF Elements
  <2>3. /\ x # r /\ worker[x].pc \in {"retransmit", "done"} /\ response[x].mid = r
        /\ worker[r].etags \in {Own(r), Own(r) \o ETags(x)}
    BY <1>1, <1>3, <1>8, <2>1, <2>2, CachedIsOver DEF OwnElement
  <2>4. /\ response'[x].mid = response[x].mid /\ response'[x].etag = response[r].etag
        /\ response'[x].version = response[x].version /\ \A y \in Rs \ {x} : response'[y] = response[y]
    <3>1. response[x] \in Objects
      BY HandFacts
    <3> QED
      BY <1>8, <2>2, <3>1 DEF Objects, Writes
  <2>5. PICK z \in {r, x} : Becomes(r, "answer", z, worker[r].etags, worker[r].reply)
    BY <1>8, <2>2
  <2>6. InHand(r)'
    BY <2>3, <2>4, <2>5 DEF Becomes, InHand
  <2>7. ASSUME ~ClientETags PROVE CacheIsCoherent'
    <3>1. Own(r) = <<>>
      BY <2>7 DEF ClientETags, Own
    <3>2. worker[r].etags = Own(r) \o ETags(x) /\ ETags(x) # <<>>
      <4>1. worker[r].etags # <<>>
        BY <1>3 DEF ToSet
      <4>2. ETags(x) # <<>>
        BY <2>3, <3>1, <4>1 DEF ETags
      <4> QED
        BY <2>3, <3>1, <4>1, <4>2
    <3>3. ETags(x) = <<response[x].etag>>
      BY <3>2 DEF ETags
    <3>4. response[r].etag = response[x].etag
      <4>1. worker[r].etags = <<response[x].etag>>
        BY <3>1, <3>2, <3>3
      <4> QED
        BY <1>3, <4>1 DEF ToSet
    <3>5. response[x].etag \in {0, response[x].version}
      BY <2>1, <2>2, <2>7, <1>8, HandFacts DEF CacheIsCoherent
    <3>6. response'[x].etag = response'[x].version /\ response'[x].version >= written'[script[r].uri]
      BY <1>1, <1>3, <1>4, <2>4, <3>4, <3>5
    <3>7. ASSUME NEW j \in DOMAIN cache'
          PROVE  /\ response'[cache'[j].object].etag \in {0, response'[cache'[j].object].version}
                 /\ cache'[j].fresh => response'[cache'[j].object].version >= written'[cache'[j].uri]
      <4>1. CASE \E k \in DOMAIN cache : cache'[j] = cache[k]
        <5>1. PICK k \in DOMAIN cache : cache'[j] = cache[k]
          BY <4>1
        <5>2. PICK y \in Rs : cache[k].object = y
          BY HandFacts
        <5>3. /\ response[y].etag \in {0, response[y].version}
              /\ cache[k].fresh => response[y].version >= written[cache[k].uri]
          BY <2>7, <5>2, HandFacts DEF CacheIsCoherent
        <5>4. response'[y].etag = response[y].etag /\ response'[y].version = response[y].version
          BY <2>4, <3>4
        <5> QED
          BY <1>1, <5>1, <5>2, <5>3, <5>4
      <4>2. CASE cache'[j].uri = script[r].uri /\ cache'[j].object = x
        BY <3>6, <4>2
      <4> QED
        BY <1>8, <2>2, <4>1, <4>2
    <3> QED
      BY <3>7 DEF CacheIsCoherent
  <2> QED
    BY <1>1, <1>2, <2>3, <2>5, <2>6, <2>7, ReverseKept
<1> QED
  BY <1>1, <1>6, <1>7, <1>8

\* What is sent leaves payload and ETag of the Response as they are.
LEMMA SentCoherent ==
  ASSUME CacheInv, mode = "reverse", NEW r \in Rs, worker[r].response \in Rs,
         Writes(worker[r].response), response'[worker[r].response] = Finished(r), UNCHANGED <<cache, written>>
  PROVE  ~ClientETags => CacheIsCoherent'
<1>1. PICK x \in Rs : worker[r].response = x
  OBVIOUS
<1>2. response'[x].etag = response[x].etag /\ response'[x].version = response[x].version
  BY <1>1, FinishedResponse, HandFacts
<1>3. \A y \in Rs : response'[y].etag = response[y].etag /\ response'[y].version = response[y].version
  BY <1>1, <1>2 DEF Writes
<1>4. \A k \in DOMAIN cache : /\ response'[cache[k].object].etag = response[cache[k].object].etag
                              /\ response'[cache[k].object].version = response[cache[k].object].version
  BY <1>3, HandFacts
<1>5. \A j \in DOMAIN cache' : Fades(cache'[j], cache[j]) /\ j \in DOMAIN cache
  BY DEF Fades
<1> QED
  BY <1>4, <1>5, CoherentKept, HandFacts

\* The answer is sent.
LEMMA ReplyReverse ==
  ASSUME CacheInv, mode = "reverse", NEW r \in Rs, Reply(r)
  PROVE  ReverseInv'
<1> DEFINE pc == IF Finished(r).type = "CON" THEN "retransmit" ELSE "done"
<1>1. worker[r].pc = "answer" /\ SendResponse(r, pc) /\ UNCHANGED <<environment, known, cache, written>>
  BY DEF Reply
<1>2. worker[r].response \in Rs /\ pc \in {"retransmit", "done"} /\ Active(r)
  BY <1>1, HandFacts DEF HasResponse, Active
<1> HIDE DEF pc
<1>3. /\ Becomes(r, pc, worker[r].response, worker[r].etags, worker[r].reply)
      /\ Writes(worker[r].response) /\ response'[worker[r].response] = Finished(r)
  BY <1>1, <1>2, SendResponseStep, HandFacts
<1>4. ~ClientETags => CacheIsCoherent'
  BY <1>1, <1>2, <1>3, SentCoherent
<1>5. InHand(r)'
  BY <1>2, <1>3 DEF Becomes, InHand
<1>6. UNCHANGED <<mode, script>>
  BY <1>1 DEF environment
<1> QED
  BY <1>1, <1>2, <1>3, <1>4, <1>5, <1>6, ReverseKept

\* The answer is sent again to a duplicate.
LEMMA DuplicateReverse ==
  ASSUME CacheInv, mode = "reverse", NEW r \in Rs, DuplicateCompleted(r)
  PROVE  ReverseInv'
<1>1. /\ MayHandle /\ SendResponse(r, worker[r].pc) /\ worker[r].response # 0
      /\ UNCHANGED <<environment, known, cache, written>>
  BY DEF DuplicateCompleted
<1>2. worker[r].response \in Rs
  BY <1>1, ScriptTyped, HandFacts DEF Transactions
<1>3. worker[r].pc \in {"new", "lookup", "forward", "asked", "relay", "store", "answer", "retransmit", "done", "dead"}
  BY HandFacts DEF Transactions
<1>4. /\ Becomes(r, worker[r].pc, worker[r].response, worker[r].etags, worker[r].reply)
      /\ Writes(worker[r].response) /\ response'[worker[r].response] = Finished(r)
  BY <1>1, <1>2, <1>3, SendResponseStep, HandFacts
<1>5. ~ClientETags => CacheIsCoherent'
  BY <1>1, <1>2, <1>4, SentCoherent
<1>6. \A q \in Rs : ~Active(q)
  BY <1>1, NoneInHand, HandFacts
<1>7. UNCHANGED <<mode, script>>
  BY <1>1 DEF environment
<1>8. InHand(r)'
  BY <1>4, <1>6, <1>7, HandKept, HandFacts DEF Becomes
<1> QED
  BY <1>4, <1>5, <1>6, <1>7, <1>8, ReverseKept

\* The invariant of the reverse proxy is kept by every step.
LEMMA ReverseStep ==
  ASSUME CacheInv, [Next]_vars
  PROVE  ReverseInv'
<1>1. UNCHANGED <<mode, script>>
  BY StepSummary DEF CacheInv, AnswersInv
<1> SUFFICES ASSUME mode = "reverse" PROVE ReverseInv'
  BY <1>1 DEF ReverseInv
<1>2. ASSUME UNCHANGED vars PROVE ReverseInv'
  BY <1>2, ReverseStays DEF vars, environment
<1>3. ASSUME Discover PROVE ReverseInv'
  <2>1. \A q \in Rs : ~Active(q)
    BY <1>3, HandFacts DEF Discover, Alone, Active
  <2> QED
    BY <1>3, <2>1, ReverseStays DEF Discover, environment
<1>4. ASSUME Tick \/ \E u \in Changing : OriginChanges(u) PROVE ReverseInv'
  <2>1. UNCHANGED <<mode, script, known, cache, response, worker, written>>
    BY <1>4 DEF Tick, OriginChanges
  <2> QED
    BY <2>1, ReverseStays
<1>5. ASSUME NEW r \in Rs, ReceiveEmpty(r) PROVE ReverseInv'
  <2>1. PICK x \in Rs : worker[r].response = x
    BY <1>5, ReceiveEmptyStep, HandFacts
  <2>2. /\ MayHandle /\ Writes(x) /\ response'[x] = [response[x] EXCEPT !.acked = TRUE]
        /\ UNCHANGED <<environment, known, cache, worker, written>>
    BY <1>5, <2>1, ReceiveEmptyStep, HandFacts
  <2>3. response'[x].etag = response[x].etag /\ response'[x].version = response[x].version
    <3>1. response[x] \in Objects
      BY HandFacts
    <3> QED
      BY <2>2, <3>1 DEF Objects
  <2>4. \A y \in Rs : response'[y].etag = response[y].etag /\ response'[y].version = response[y].version
    BY <2>2, <2>3 DEF Writes
  <2>5. \A q \in Rs : ~Active(q)
    BY <2>2, NoneInHand, HandFacts
  <2> QED
    BY <2>2, <2>4, <2>5, ReverseStays DEF environment
<1>6. ASSUME NEW r \in Rs, DuplicatePending(r) \/ TimerFires(r) PROVE ReverseInv'
  <2>1. SendAck(r)
    BY <1>6 DEF DuplicatePending, TimerFires
  <2> QED
    BY <2>1, SendAckStep, QuietStep, HandFacts
<1>7. ASSUME NEW r \in Rs, Retransmit(r) PROVE ReverseInv'
  BY <1>7, RetransmitStep, QuietStep, HandFacts
<1>8. ASSUME NEW r \in Rs, RetransmitEnds(r) PROVE ReverseInv'
  <2>1. worker[r].pc = "retransmit" /\ Goto(r, "done") /\ UNCHANGED <<environment, known, cache, response, written>>
    BY <1>8 DEF RetransmitEnds
  <2>2. Becomes(r, "done", worker[r].response, worker[r].etags, worker[r].reply)
    BY <2>1, GotoStep, HandFacts
  <2> QED
    BY <2>1, <2>2, QuietStep
<1> QED
  BY <1>2, <1>3, <1>4, <1>5, <1>6, <1>7, <1>8, StepCases, ReceiveReverse, MissReverse, FoundReverse,
     ForwardReverse, RelayReverse, OriginReverse, MarkReverse, AddReverse, RejectReverse, ValidReverse, ReplyReverse,
     DuplicateReverse

\* The invariant holds at first.
LEMMA CacheInit ==
  ASSUME Init
  PROVE  CacheInv
<1>1. TypeInv
  BY TypeInit
<1>2. /\ cache = <<>> /\ response = [r \in Rs |-> NoResponse] /\ worker = [r \in Rs |-> NewTransaction]
      /\ written = [u \in Uris |-> 0] /\ \A u \in Uris : origin[u].epoch = 1
      /\ listener = "starting" => mode = "reverse"
  BY DEF Init
<1>3. \A r \in Rs : /\ worker[r].pc = "new" /\ worker[r].response = 0 /\ worker[r].completed = FALSE
                    /\ worker[r].reply = NoReply /\ response[r].type = "none" /\ 0 \notin Rs
  BY <1>1, <1>2, ScriptTyped DEF NewTransaction, NoResponse, TypeInv
<1>4. DOMAIN cache = {}
  BY <1>2
<1>5. CacheOfAnswers /\ SharedIsAnswered /\ AckIsGiven
  <2>1. CacheOfAnswers
    BY <1>4 DEF CacheOfAnswers
  <2>2. SharedIsAnswered
    BY <1>3 DEF SharedIsAnswered
  <2>3. AckIsGiven
    BY <1>3 DEF AckIsGiven
  <2> QED
    BY <2>1, <2>2, <2>3
<1>6. RepliesAreTrue
  <2>1. \A r \in Rs : script[r].uri \in Uris
    BY <1>1, ScriptTyped DEF TypeInv
  <2> QED
    BY <1>2, <1>3, <2>1 DEF RepliesAreTrue, NoReply
<1>7. Alone
  BY <1>3 DEF Alone, Active
<1>8. ReverseInv
  <2>1. \A r \in Rs : InHand(r)
    BY <1>3 DEF InHand
  <2>2. SharedIsOver
    BY <1>3 DEF SharedIsOver
  <2>3. CacheIsCoherent
    BY <1>4 DEF CacheIsCoherent
  <2> QED
    BY <1>3, <2>1, <2>2, <2>3 DEF ReverseInv
<1> QED
  BY <1>1, <1>5, <1>6, <1>7, <1>8 DEF CacheInv, AnswersInv

\* The invariant is kept by every step.
LEMMA CacheStep ==
  ASSUME CacheInv, [Next]_vars
  PROVE  CacheInv'
<1>1. AnswersInv /\ TypeInv /\ RepliesAreTrue /\ Alone
  BY DEF CacheInv, AnswersInv
<1>2. AnswersInv' /\ RepliesAreTrue' /\ Alone'
  BY <1>1, AnswersStep, RepliesStep, AloneStep
<1>3. ReverseInv'
  BY ReverseStep
<1> QED
  BY <1>2, <1>3 DEF CacheInv

\* The invariant that the following rests on: what is cached or shared are
\* Responses that have answered, replies are true of their origins, and in the
\* reverse proxy what the transaction in hand has read stays as it is.
THEOREM CacheInvariant == Spec => []CacheInv
<1>1. Init => CacheInv
  BY CacheInit
<1>2. CacheInv /\ [Next]_vars => CacheInv'
  BY CacheStep
<1> QED
  BY <1>1, <1>2, PTL DEF Spec

-----------------------------------------------------------------------------
(* The properties.                                                         *)

\* The reverse proxy stops only at an answer that check_code raises for, at a 2.02
\* to a POST, or at none: the path of a DELETE is one that its tree still has, and a
\* 2.03 finds the element or the ETag it is for.
THEOREM DiesHolds == Spec => []DiesOnlyOfFatal
<1>1. CacheInv => DiesOnlyOfFatal
  BY DEF CacheInv, ReverseInv, DiesOnlyOfFatal, Fatal, FatalReply
<1> QED
  BY <1>1, CacheInvariant, PTL

\* A transaction leaves the lookup by an element of the cache or without one,
\* and the answer by sending it.
LEMMA LookupOrReply ==
  ASSUME TypeInv, [Next]_vars, NEW r \in Rs, worker[r].pc \in {"lookup", "answer"}, worker'[r].pc # worker[r].pc
  PROVE  LookupMiss(r) \/ LookupFound(r) \/ Reply(r)
<1>0. TypeOK /\ worker \in [Rs -> Transactions]
  BY DEF TypeInv, TypeOK
<1>1. ASSUME NEW q \in Rs,
             Receive(q) \/ Forward(q) \/ OriginAnswers(q) \/ OriginSilent(q)
               \/ (mode = "forward" /\ ForwardRelay(q)) \/ (mode = "reverse" /\ ReverseRelay(q))
               \/ StoreMark(q) \/ StoreAdd(q) \/ StoreReject(q) \/ StoreValid(q) \/ RetransmitEnds(q) \/ Retransmit(q)
      PROVE  worker'[r] = worker[r]
  <2>1. q # r
    BY <1>1 DEF Receive, Forward, OriginAnswers, OriginSilent, ForwardRelay, ReverseRelay,
                StoreMark, StoreAdd, StoreReject, StoreValid, RetransmitEnds, Retransmit
  <2>2. \E v : worker' = [worker EXCEPT ![q] = v]
    <3>1. CASE Receive(q) \/ OriginAnswers(q) \/ Retransmit(q)
      BY <3>1 DEF Receive, OriginAnswers, Retransmit
    <3>2. CASE OriginSilent(q) \/ StoreMark(q) \/ StoreAdd(q) \/ RetransmitEnds(q)
      BY <3>2 DEF OriginSilent, StoreMark, StoreAdd, RetransmitEnds, Goto
    <3>3. CASE Forward(q)
      BY <3>3 DEF Forward, Die, Goto
    <3>4. CASE (mode = "forward" /\ ForwardRelay(q)) \/ (mode = "reverse" /\ ReverseRelay(q))
      BY <3>4 DEF ForwardRelay, ReverseRelay, Die, Goto
    <3>5. CASE StoreReject(q) \/ StoreValid(q)
      BY <3>5 DEF StoreReject, StoreValid, Die, Goto
    <3> QED
      BY <1>1, <3>1, <3>2, <3>3, <3>4, <3>5
  <2> QED
    BY <1>0, <2>1, <2>2
<1>2. ASSUME NEW q \in Rs, DuplicatePending(q) \/ TimerFires(q) PROVE worker'[r].pc = worker[r].pc
  <2>1. SendAck(q)
    BY <1>2 DEF DuplicatePending, TimerFires
  <2> QED
    BY <1>0, <2>1, SendAckStep DEF Becomes
<1>3. ASSUME NEW q \in Rs, DuplicateCompleted(q) PROVE worker'[r].pc = worker[r].pc
  <2>1. SendResponse(q, worker[q].pc) /\ worker[q].response # 0
    BY <1>3 DEF DuplicateCompleted
  <2>2. worker[q].response \in Rs
    BY <1>0, <2>1, ScriptTyped DEF Transactions
  <2>3. worker[q].pc \in {"new", "lookup", "forward", "asked", "relay", "store", "answer", "retransmit", "done", "dead"}
    BY <1>0 DEF Transactions
  <2> QED
    BY <1>0, <2>1, <2>2, <2>3, SendResponseStep DEF Becomes
<1>4. ASSUME NEW q \in Rs, q # r, LookupMiss(q) \/ LookupFound(q) \/ Reply(q) PROVE worker'[r] = worker[r]
  <2>1. CASE LookupMiss(q)
    BY <1>0, <1>4, <2>1, GotoStep DEF LookupMiss, Becomes
  <2>2. CASE LookupFound(q)
    <3>1. \E pc, x, etags : Becomes(q, pc, x, etags, worker[q].reply)
      BY <2>2, LookupFoundStep
    <3> QED
      BY <1>4, <3>1 DEF Becomes
  <2>3. CASE Reply(q)
    <3> DEFINE pc == IF Finished(q).type = "CON" THEN "retransmit" ELSE "done"
    <3>1. worker[q].pc = "answer" /\ SendResponse(q, pc) /\ pc \in {"retransmit", "done"}
      BY <2>3 DEF Reply
    <3>2. worker[q].response \in Rs
      BY <3>1 DEF TypeInv, HasResponse
    <3> HIDE DEF pc
    <3>3. Becomes(q, pc, worker[q].response, worker[q].etags, worker[q].reply)
      BY <1>0, <3>1, <3>2, SendResponseStep
    <3> QED
      BY <1>4, <3>3 DEF Becomes
  <2> QED
    BY <1>4, <2>1, <2>2, <2>3
<1>5. ASSUME UNCHANGED vars \/ Discover \/ Tick \/ (\E u \in Changing : OriginChanges(u)) \/ \E q \in Rs : ReceiveEmpty(q)
      PROVE  UNCHANGED worker
  BY <1>5 DEF vars, Discover, Tick, OriginChanges, ReceiveEmpty
<1> QED
  BY <1>1, <1>2, <1>3, <1>4, <1>5, StepCases

\* A hit is an element that is fresh.
LEMMA ServedIsFresh ==
  ASSUME TypeInv, [Next]_vars, NEW r \in Rs, Served(r)
  PROVE  /\ Find(Key(r)) \in DOMAIN cache /\ Element(r).fresh /\ Element(r).key = Key(r)
<1>1. LookupFound(r)
  <2>1. LookupMiss(r) \/ LookupFound(r) \/ Reply(r)
    BY LookupOrReply DEF Served
  <2>2. ~LookupMiss(r)
    <3> SUFFICES ASSUME LookupMiss(r) PROVE worker'[r].pc = "forward"
      BY DEF Served
    <3> QED
      BY GotoStep DEF LookupMiss, Becomes, TypeInv
  <2>3. ~Reply(r)
    BY DEF Served, Reply
  <2> QED
    BY <2>1, <2>2, <2>3
<1>2. /\ Find(Key(r)) \in DOMAIN cache /\ Element(r).key = Key(r)
      /\ \E etags : Becomes(r, IF Hit(r, Element(r)) THEN "answer" ELSE "forward", Element(r).object, etags, worker[r].reply)
  BY <1>1, LookupFoundStep
<1>3. Hit(r, Element(r))
  BY <1>2 DEF Served, Becomes
<1> QED
  BY <1>2, <1>3 DEF Hit

\* Who is served from the cache gets an element of its own method and resource
\* that the last write has marked.
LEMMA ServedIsAnAnswer ==
  ASSUME CacheInv, [Next]_vars, NEW r \in Rs, Served(r)
  PROVE  LET x == Element(r).object IN
         /\ x \in Rs /\ script[x].uri = script[r].uri /\ script[x].method = script[r].method
         /\ Element(r).uri = script[r].uri /\ Element(r).fresh /\ Element(r).marked = written[script[r].uri]
         /\ mode = "reverse" /\ ~ClientETags =>
              response[x].etag \in {0, response[x].version} /\ response[x].version >= written[script[r].uri]
<1>1. TypeInv /\ CacheOfAnswers /\ cache \in Seq(Elements)
  BY DEF CacheInv, AnswersInv, TypeInv, TypeOK
<1> DEFINE i == Find(Key(r))
<1>2. i \in DOMAIN cache /\ cache[i].fresh /\ cache[i].key = Key(r) /\ Element(r) = cache[i]
  BY <1>1, ServedIsFresh DEF Element
<1> HIDE DEF i
<1>3. PICK x \in Rs : cache[i].object = x
  <2>1. cache[i] \in Elements
    BY <1>1, <1>2
  <2> QED
    BY <2>1 DEF Elements
<1>4. /\ Key(x) = Key(r) /\ cache[i].uri = script[x].uri /\ cache[i].marked = written[cache[i].uri]
  BY <1>1, <1>2, <1>3 DEF CacheOfAnswers
<1>5. script[x].uri = script[r].uri /\ script[x].method = script[r].method
  BY <1>4 DEF Key
<1>6. ASSUME mode = "reverse", ~ClientETags
      PROVE  response[x].etag \in {0, response[x].version} /\ response[x].version >= written[cache[i].uri]
  BY <1>2, <1>3, <1>6 DEF CacheInv, ReverseInv, CacheIsCoherent
<1> QED
  BY <1>2, <1>3, <1>4, <1>5, <1>6

\* A GET that comes after a write through the proxy was answered is not served
\* what the write has replaced; in the forward proxy, or with ETags of the
\* clients, it may be where the element became fresh after the write had marked it.
THEOREM WrittenHolds == Spec => WrittenIsSeen
<1>1. CacheInv /\ [Next]_vars =>
       [\A r \in Rs : Served(r) =>
          \/ response[Element(r).object].version >= written[script[r].uri]
          \/ (mode = "forward" \/ ClientETags) /\ Element(r).marked = written[script[r].uri]]_vars
  <2> SUFFICES ASSUME CacheInv, [Next]_vars, NEW r \in Rs, Served(r)
               PROVE  \/ response[Element(r).object].version >= written[script[r].uri]
                      \/ (mode = "forward" \/ ClientETags) /\ Element(r).marked = written[script[r].uri]
    OBVIOUS
  <2>1. mode \in {"forward", "reverse"}
    BY DEF CacheInv, AnswersInv, TypeInv, TypeOK
  <2> QED
    BY <2>1, ServedIsAnAnswer
<1> QED
  BY <1>1, CacheInvariant, PTL DEF Spec, WrittenIsSeen

\* What is served from the cache was an answer to the same method on the same
\* resource, and its payload and ETag are of one state of the resource.
THEOREM HitHolds == Spec => HitIsCoherent
<1>1. CacheInv /\ [Next]_vars =>
       [\A r \in Rs : Served(r) =>
          LET x == Element(r).object IN
          /\ script[x].uri = script[r].uri /\ script[x].method = script[r].method
          /\ mode = "reverse" /\ ~ClientETags => response[x].etag \in {0, response[x].version}]_vars
  BY ServedIsAnAnswer
<1> QED
  BY <1>1, CacheInvariant, PTL DEF Spec, HitIsCoherent

\* An ACK that carries an answer has the mid of the request it answers.
THEOREM AckHolds == Spec => AckOfItsRequest
<1>1. CacheInv /\ [Next]_vars =>
       [\A r \in Rs : worker[r].pc = "answer" /\ worker'[r].pc # "answer" /\ last'.type = "ACK"
          /\ (mode = "reverse" \/ \A q \in Rs \ {r} : worker[q].response # worker[r].response)
          => last'.mid = r]_vars
  <2> SUFFICES ASSUME CacheInv, [Next]_vars, NEW r \in Rs,
                      worker[r].pc = "answer", worker'[r].pc # "answer", last'.type = "ACK",
                      mode = "reverse" \/ \A q \in Rs \ {r} : worker[q].response # worker[r].response
               PROVE  last'.mid = r
    OBVIOUS
  <2>1. TypeInv /\ TypeOK /\ HasResponse /\ AckIsGiven
    BY DEF CacheInv, AnswersInv, TypeInv
  <2>2. Reply(r)
    BY <2>1, LookupOrReply DEF LookupMiss, LookupFound
  <2> DEFINE pc == IF Finished(r).type = "CON" THEN "retransmit" ELSE "done"
  <2>3. SendResponse(r, pc) /\ pc \in {"retransmit", "done"}
    BY <2>2 DEF Reply
  <2>4. PICK x \in Rs : worker[r].response = x
    BY <2>1 DEF HasResponse
  <2> HIDE DEF pc
  <2>5. last'.type = Finished(r).type /\ last'.mid = Finished(r).mid
    BY <2>1, <2>3, <2>4, SendResponseStep
  <2>6. /\ response[x].type # "none" =>
             Finished(r).type = response[x].type /\ (response[x].mid # 0 => Finished(r).mid = response[x].mid)
        /\ response[x].type = "none" /\ Finished(r).type = "ACK" => Finished(r).mid = r
    BY <2>1, <2>4, FinishedResponse
  <2>7. CASE response[x].type = "none"
    BY <2>5, <2>6, <2>7
  <2>8. CASE response[x].type # "none"
    <3>1. PICK q \in Rs : worker[q].response = x /\ worker[q].pc \in {"retransmit", "done"}
      BY <2>1, <2>5, <2>6, <2>8 DEF AckIsGiven
    <3>2. q # r /\ mode = "reverse"
      BY <2>4, <3>1
    <3>3. x # r
      BY <3>1, <3>2, HandFacts DEF SharedIsOver
    <3>4. response[x].mid = r /\ r # 0
      BY <2>1, <2>4, <3>2, <3>3, HandFacts, ScriptTyped DEF InHand
    <3> QED
      BY <2>5, <2>6, <2>8, <3>4
  <2> QED
    BY <2>7, <2>8
<1> QED
  BY <1>1, CacheInvariant, PTL DEF Spec, AckOfItsRequest
=============================================================================
