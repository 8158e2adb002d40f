-------------------------- MODULE BlockwiseProofs --------------------------
(***************************************************************************)
(* Proofs about Blockwise.                                                 *)
(*                                                                         *)
(* The types hold as they are.  That Blockwise implements Transfer needs   *)
(* to know, of each call, at which stage the client is and at which the    *)
(* server: an upload passes a handful of them (UploadInv); of a download   *)
(* there is a number of blocks, and what the client has is always the      *)
(* payload up to where the server cuts next (DownloadInv).                 *)
(***************************************************************************)
EXTENDS Blockwise, SequenceTheorems, TLAPS

-----------------------------------------------------------------------------
(* Slices.                                                                 *)

\* What a slice is: its length, and its elements.
LEMMA SliceProperties ==
  ASSUME NEW S, NEW p \in Seq(S), NEW b \in Nat, NEW n \in Nat
  PROVE  /\ Slice(p, b, n) \in Seq(S)
         /\ b <= Len(p) => Len(Slice(p, b, n)) = IF b + n <= Len(p) THEN n ELSE Len(p) - b
         /\ Len(p) <= b => Slice(p, b, n) = <<>>
         /\ \A i \in 1..Len(Slice(p, b, n)) : Slice(p, b, n)[i] = p[b + i]
<1> DEFINE e == IF b + n <= Len(p) THEN b + n ELSE Len(p)
<1>1. Len(p) \in Nat  BY LenProperties
<1>2. e \in Nat /\ b + 1 \in Nat  BY <1>1
<1>3. \A i \in (b + 1)..e : i \in 1..Len(p)  BY <1>1
<1>4. \A i \in (b + 1)..e : p[i] \in S  BY <1>3, ElementOfSeq
<1>5. Slice(p, b, n) = SubSeq(p, b + 1, e)  BY DEF Slice
<1> HIDE DEF e
<1>6. /\ SubSeq(p, b + 1, e) \in Seq(S)
      /\ Len(SubSeq(p, b + 1, e)) = IF b + 1 <= e THEN e - (b + 1) + 1 ELSE 0
      /\ \A i \in 1..(e - (b + 1) + 1) : SubSeq(p, b + 1, e)[i] = p[(b + 1) + i - 1]
  BY <1>2, <1>4, SubSeqProperties
<1>7. Len(p) <= b => e < b + 1  BY <1>1 DEF e
<1>8. Len(p) <= b => SubSeq(p, b + 1, e) = <<>>  BY <1>2, <1>7, SubSeqEmpty
<1>9. b <= Len(p) => Len(SubSeq(p, b + 1, e)) = IF b + n <= Len(p) THEN n ELSE Len(p) - b
  BY <1>1, <1>6 DEF e
<1>10. \A i \in 1..Len(SubSeq(p, b + 1, e)) : SubSeq(p, b + 1, e)[i] = p[b + i]
  BY <1>2, <1>6
<1>11. QED  BY <1>5, <1>6, <1>8, <1>9, <1>10

\* ... of the beginning.
LEMMA PrefixProperties ==
  ASSUME NEW S, NEW p \in Seq(S), NEW n \in Nat
  PROVE  /\ Slice(p, 0, n) \in Seq(S)
         /\ Len(Slice(p, 0, n)) = IF n <= Len(p) THEN n ELSE Len(p)
         /\ \A i \in 1..Len(Slice(p, 0, n)) : Slice(p, 0, n)[i] = p[i]
<1>1. Len(p) \in Nat  BY LenProperties
<1> DEFINE z == 0
<1>2. z \in Nat /\ z = 0  OBVIOUS
<1> HIDE DEF z
<1>3. /\ Slice(p, z, n) \in Seq(S)
      /\ z <= Len(p) => Len(Slice(p, z, n)) = IF z + n <= Len(p) THEN n ELSE Len(p) - z
      /\ \A i \in 1..Len(Slice(p, z, n)) : Slice(p, z, n)[i] = p[z + i]
  BY <1>2, SliceProperties, ZenonT(60)
<1>4. Slice(p, 0, n) = Slice(p, z, n)  BY <1>2
<1>5. Slice(p, z, n) \in Seq(S) /\ Len(Slice(p, z, n)) = IF n <= Len(p) THEN n ELSE Len(p)
  BY <1>1, <1>2, <1>3
<1>6. \A i \in 1..Len(Slice(p, z, n)) : Slice(p, z, n)[i] = p[i]
  BY <1>1, <1>2, <1>3, <1>5
<1>7. QED  BY <1>4, <1>5, <1>6

\* Two adjacent slices make one.
LEMMA SlicesJoin ==
  ASSUME NEW S, NEW p \in Seq(S), NEW b \in Nat, NEW n \in Nat, b <= Len(p)
  PROVE  Slice(p, 0, b) \o Slice(p, b, n) = Slice(p, 0, b + n)
<1> DEFINE s == Slice(p, 0, b)
           t == Slice(p, b, n)
           u == Slice(p, 0, b + n)
<1>1. Len(p) \in Nat /\ b + n \in Nat  BY LenProperties
<1>2. s \in Seq(S) /\ Len(s) = b /\ \A i \in 1..Len(s) : s[i] = p[i]
  BY <1>1, PrefixProperties
<1>3. /\ t \in Seq(S) /\ Len(t) = IF b + n <= Len(p) THEN n ELSE Len(p) - b
      /\ \A i \in 1..Len(t) : t[i] = p[b + i]
  BY SliceProperties
<1>4. /\ u \in Seq(S) /\ Len(u) = IF b + n <= Len(p) THEN b + n ELSE Len(p)
      /\ \A i \in 1..Len(u) : u[i] = p[i]
  BY <1>1, PrefixProperties
<1> HIDE DEF s, t, u
<1>5. /\ s \o t \in Seq(S) /\ Len(s \o t) = Len(s) + Len(t)
      /\ \A i \in 1..(Len(s) + Len(t)) : (s \o t)[i] = IF i <= Len(s) THEN s[i] ELSE t[i - Len(s)]
  BY <1>2, <1>3, ConcatProperties
<1>6. Len(s \o t) = Len(u)  BY <1>1, <1>2, <1>3, <1>4, <1>5
<1>7. \A i \in 1..Len(s \o t) : (s \o t)[i] = u[i]
  <2> SUFFICES ASSUME NEW i \in 1..Len(s \o t) PROVE (s \o t)[i] = u[i]
    OBVIOUS
  <2>1. Len(t) \in Nat /\ Len(s) = b /\ i \in 1..(Len(s) + Len(t))
    BY <1>1, <1>2, <1>3, <1>5
  <2>2. u[i] = p[i]  BY <1>1, <1>4, <1>6
  <2>3. CASE i <= b
    <3>1. i \in 1..Len(s)  BY <2>1, <2>3
    <3>2. s[i] = p[i]  BY <1>2, <3>1
    <3>3. QED  BY <1>5, <2>1, <2>2, <2>3, <3>2
  <2>4. CASE ~(i <= b)
    <3>1. i - b \in 1..Len(t) /\ b + (i - b) = i  BY <2>1, <2>4
    <3>2. t[i - b] = p[i]  BY <1>3, <3>1
    <3>3. QED  BY <1>5, <2>1, <2>2, <2>4, <3>2
  <2>5. QED  BY <2>3, <2>4
<1>8. s \o t = u  BY <1>4, <1>5, <1>6, <1>7, SeqEqual
<1>9. QED  BY <1>8 DEF s, t, u

\* A slice that is long enough is the whole.
LEMMA SliceIsWhole ==
  ASSUME NEW S, NEW p \in Seq(S), NEW n \in Nat, Len(p) <= n
  PROVE  Slice(p, 0, n) = p
<1>1. Len(p) \in Nat  BY LenProperties
<1>2. /\ Slice(p, 0, n) \in Seq(S) /\ Len(Slice(p, 0, n)) = IF n <= Len(p) THEN n ELSE Len(p)
      /\ \A i \in 1..Len(Slice(p, 0, n)) : Slice(p, 0, n)[i] = p[i]
  BY PrefixProperties
<1>3. Len(Slice(p, 0, n)) = Len(p)  BY <1>1, <1>2
<1>4. QED  BY <1>2, <1>3, SeqEqual

-----------------------------------------------------------------------------
(* Types.                                                                  *)

\* Slices of payloads are payloads.
LEMMA SliceType ==
  ASSUME NEW p \in Payload, NEW b \in Nat, NEW n \in Nat
  PROVE  Slice(p, b, n) \in Payload
BY SliceProperties DEF Payload

\* So are two payloads in a row.
LEMMA JoinType ==
  ASSUME NEW p \in Payload, NEW q \in Payload
  PROVE  p \o q \in Payload
BY ConcatProperties DEF Payload

\* And none.
LEMMA EmptyType == <<>> \in Payload
BY EmptySeq DEF Payload

\* The content of a call, and its units.
LEMMA ContentType ==
  ASSUME NEW c \in Calls
  PROVE  Content(c) \in Payload /\ Len(Content(c)) = c.length /\ c.length \in Nat
         /\ \A i \in 1..c.length : Content(c)[i] = <<c, i>>
<1>1. c.length \in Nat  BY CallsAssumption
<1>2. Content(c) \in [1..c.length -> (Calls \cup {None}) \X Nat]  BY <1>1 DEF Content
<1>3. Content(c) \in Seq((Calls \cup {None}) \X Nat)  BY <1>1, <1>2, SeqDef
<1>4. DOMAIN Content(c) = 1..c.length  BY DEF Content
<1>5. Len(Content(c)) = c.length
  <2>1. DOMAIN Content(c) = 1..Len(Content(c)) /\ Len(Content(c)) \in Nat  BY <1>3, LenProperties
  <2>2. QED  BY <1>1, <1>4, <2>1
<1>6. QED  BY <1>1, <1>3, <1>5 DEF Payload, Content

\* What the resource has at first is a payload.
LEMMA InitialType == Initial \in Payload
<1>1. InitialLength \in Nat  BY BoundsAssumption
<1>2. Initial \in [1..InitialLength -> (Calls \cup {None}) \X Nat]  BY <1>1 DEF Initial
<1>3. QED  BY <1>1, <1>2, SeqDef DEF Payload

\* The block that a call begins with.
LEMMA AskedType ==
  ASSUME NEW c \in Calls
  PROVE  /\ Asked(c) \in BlockOption /\ c.block \in BlockOption \cup {None}
         /\ Asked(c).num \in Nat /\ Asked(c).m \in BOOLEAN /\ Asked(c).size \in Nat /\ Asked(c).size > 0
<1>1. c.block \in BlockOption \cup {None} /\ MaxPayload \in Nat \ {0}
  BY CallsAssumption, BoundsAssumption
<1>2. Asked(c) \in BlockOption  BY <1>1 DEF Asked, Block, BlockOption
<1>3. QED  BY <1>1, <1>2 DEF BlockOption

\* BlockItem takes over what the option says.
LEMMA ItemType ==
  ASSUME NEW b \in Nat, NEW block \in BlockOption
  PROVE  Item(b, block) \in BlockItem
BY DEF Item, BlockOption, BlockItem

\* Everything but None differs from it.
LEMMA NotNone ==
  /\ \A x \in BlockOption : x # None
  /\ \A x \in BlockItem : x # None
  /\ \A x \in Message : x # None
  /\ \A x \in Response : x # None
  /\ \A x \in Outcome : x # None
  /\ \A x \in Download : x # None
  /\ \A x \in Upload : x # None
  /\ \A x \in Calls : x # None
BY NoneAssumption

\* The last conjunct of TypeOK.
Counted(c) ==
  /\ \A r \in requests[c] : r.mid \in 1..lastMid[c]
  /\ \A n \in 1..MaxSent : answers[c][n] # None => n <= lastMid[c]
  /\ request[c] = None => lastMid[c] = 0 /\ block1Sent[c] = None /\ block2Sent[c] = None
  /\ request[c] # None => request[c].mid <= lastMid[c]

\* What sending a request does to the Request object, the mids and the messages.
Sends(c, m) ==
  /\ m \in Message /\ m.mid \in 1..MaxSent
  /\ request' = [request EXCEPT ![c] = m]
  /\ requests' = [requests EXCEPT ![c] = @ \cup {m}]

\* A request that has a mid is sent under it, one that has none under the next.
LEMMA SendEffect ==
  ASSUME TypeOK, NEW c \in Calls, NEW r \in Message, r.mid <= lastMid[c], Send(c, r)
  PROVE  \/ /\ r.mid # 0 /\ Sends(c, r) /\ lastMid' = lastMid
         \/ /\ r.mid = 0 /\ Sends(c, [r EXCEPT !.mid = lastMid[c] + 1])
            /\ lastMid' = [lastMid EXCEPT ![c] = lastMid[c] + 1] /\ lastMid[c] + 1 <= MaxSent
<1>1. lastMid \in [Calls -> 0..MaxSent] /\ lastMid[c] \in 0..MaxSent /\ MaxSent \in Nat
  BY BoundsAssumption DEF TypeOK
<1>2. r.mid \in 0..MaxSent  BY DEF Message
<1>3. CASE r.mid # 0
  <2>1. r.mid <= MaxSent /\ request' = [request EXCEPT ![c] = r]
        /\ requests' = [requests EXCEPT ![c] = @ \cup {r}]
        /\ lastMid' = [lastMid EXCEPT ![c] = lastMid[c]]
    BY <1>3 DEF Send
  <2>2. lastMid' = lastMid  BY <1>1, <2>1
  <2>3. QED  BY <1>1, <1>2, <1>3, <2>1, <2>2 DEF Sends
<1>4. CASE r.mid = 0
  <2> DEFINE m == [r EXCEPT !.mid = lastMid[c] + 1]
  <2>1. m.mid = lastMid[c] + 1  BY DEF Message
  <2>2. m.mid <= MaxSent /\ request' = [request EXCEPT ![c] = m]
        /\ requests' = [requests EXCEPT ![c] = @ \cup {m}]
        /\ lastMid' = [lastMid EXCEPT ![c] = lastMid[c] + 1]
    BY <1>4 DEF Send
  <2>3. lastMid[c] + 1 \in 1..MaxSent  BY <1>1, <2>1, <2>2
  <2>4. m \in Message  BY <2>3 DEF Message
  <2>5. QED  BY <1>4, <2>1, <2>2, <2>3, <2>4 DEF Sends
<1>5. QED  BY <1>3, <1>4

\* The Request object of c is there, and is not ahead of its messages.
SentTyped(c) ==
  /\ request' \in [Calls -> Message \cup {None}]
  /\ requests' \in [Calls -> SUBSET Message]
  /\ lastMid' \in [Calls -> 0..MaxSent]
  /\ request'[c] # None /\ request'[c].mid <= lastMid'[c] /\ lastMid[c] <= lastMid'[c]
  /\ \A q \in requests'[c] : q.mid \in 1..lastMid'[c]
  /\ \A d \in Calls : d # c => /\ request'[d] = request[d] /\ requests'[d] = requests[d]
                               /\ lastMid'[d] = lastMid[d]

\* The types of what a request is sent from.
LEMMA SendType ==
  ASSUME TypeOK, NEW c \in Calls, NEW r \in Message, r.mid <= lastMid[c], Send(c, r)
  PROVE  SentTyped(c)
<1>1. /\ lastMid \in [Calls -> 0..MaxSent] /\ lastMid[c] \in 0..MaxSent /\ MaxSent \in Nat
      /\ request \in [Calls -> Message \cup {None}] /\ requests \in [Calls -> SUBSET Message]
      /\ \A q \in requests[c] : q.mid \in 1..lastMid[c]
  BY BoundsAssumption DEF TypeOK
<1>2. \A m : Sends(c, m) =>
        /\ request' \in [Calls -> Message \cup {None}] /\ requests' \in [Calls -> SUBSET Message]
        /\ request'[c] = m /\ m # None /\ requests'[c] = requests[c] \cup {m}
        /\ \A d \in Calls : d # c => request'[d] = request[d] /\ requests'[d] = requests[d]
  BY <1>1, NotNone DEF Sends
<1>3. CASE r.mid # 0 /\ Sends(c, r) /\ lastMid' = lastMid
  <2>1. r.mid \in 1..lastMid[c]  BY <1>1, <1>3 DEF Message
  <2>2. request'[c] = r /\ request'[c] # None /\ requests'[c] = requests[c] \cup {r}
    BY <1>2, <1>3
  <2>3. \A q \in requests'[c] : q.mid \in 1..lastMid'[c]  BY <1>1, <1>3, <2>1, <2>2
  <2>4. request'[c].mid <= lastMid'[c] /\ lastMid[c] <= lastMid'[c]  BY <1>1, <1>3, <2>1, <2>2
  <2>5. QED  BY <1>1, <1>2, <1>3, <2>2, <2>3, <2>4 DEF SentTyped
<1>4. CASE /\ r.mid = 0 /\ Sends(c, [r EXCEPT !.mid = lastMid[c] + 1])
           /\ lastMid' = [lastMid EXCEPT ![c] = lastMid[c] + 1] /\ lastMid[c] + 1 <= MaxSent
  <2> DEFINE m == [r EXCEPT !.mid = lastMid[c] + 1]
  <2>1. m.mid = lastMid[c] + 1  BY DEF Message
  <2>2. request'[c] = m /\ request'[c] # None /\ requests'[c] = requests[c] \cup {m}
    BY <1>2, <1>4
  <2> HIDE DEF m
  <2>3. lastMid' \in [Calls -> 0..MaxSent] /\ lastMid'[c] = lastMid[c] + 1
        /\ \A d \in Calls : d # c => lastMid'[d] = lastMid[d]
    <3>1. lastMid[c] + 1 \in 0..MaxSent  BY <1>1, <1>4
    <3>2. QED  BY <1>1, <1>4, <3>1
  <2>4. \A q \in requests'[c] : q.mid \in 1..lastMid'[c]
    <3> SUFFICES ASSUME NEW q \in requests'[c] PROVE q.mid \in 1..(lastMid[c] + 1)
      BY <2>3
    <3>1. CASE q \in requests[c]
      <4>1. q.mid \in 1..lastMid[c]  BY <1>1, <3>1
      <4>2. QED  BY <1>1, <4>1
    <3>2. CASE q = m  BY <1>1, <2>1, <3>2
    <3>3. QED  BY <2>2, <3>1, <3>2
  <2>5. request'[c].mid <= lastMid'[c] /\ lastMid[c] <= lastMid'[c]  BY <1>1, <2>1, <2>2, <2>3
  <2>6. QED  BY <1>2, <1>4, <2>2, <2>3, <2>4, <2>5 DEF SentTyped
<1>5. QED  BY <1>3, <1>4, SendEffect DEF SentTyped

-----------------------------------------------------------------------------
(* The client's steps.                                                     *)

\* The types at first.
LEMMA TypeInit == Init => TypeOK
<1> SUFFICES ASSUME Init PROVE TypeOK
  OBVIOUS
<1> USE DEF Init
<1>1. written \in Seq(Payload) /\ written # <<>>  BY InitialType
<1>2. MaxSent \in Nat  BY BoundsAssumption
<1>3. answers \in [Calls -> [1..MaxSent -> Response \cup {None}]]  OBVIOUS
<1>4. \A c \in Calls : Counted(c)  BY <1>2 DEF Counted
<1>5. QED  BY <1>1, <1>2, <1>3, <1>4 DEF TypeOK, Counted

\* The message of a call.
FirstRequest(c) ==
  [mid |-> 0,
   block1 |-> IF Cut(c) THEN Asked(c) ELSE None,
   block2 |-> IF c.op = "GET" THEN c.block ELSE None,
   payload |-> IF Cut(c) THEN Slice(Content(c), 0, Asked(c).size)
               ELSE IF c.op = "PUT" THEN Content(c) ELSE <<>>]

\* The request of a call is a message without mid.
LEMMA FirstRequestType ==
  ASSUME NEW c \in Calls
  PROVE  FirstRequest(c) \in Message /\ FirstRequest(c).mid = 0
<1>1. Asked(c) \in BlockOption /\ c.block \in BlockOption \cup {None} /\ Asked(c).size \in Nat
  BY AskedType
<1>2. Content(c) \in Payload  BY ContentType
<1>3. Slice(Content(c), 0, Asked(c).size) \in Payload  BY <1>1, <1>2, SliceType
<1> DEFINE p == IF Cut(c) THEN Slice(Content(c), 0, Asked(c).size)
                ELSE IF c.op = "PUT" THEN Content(c) ELSE <<>>
<1>4. p \in Payload  BY <1>2, <1>3, EmptyType
<1> HIDE DEF p
<1>5. FirstRequest(c) =
        [mid |-> 0, block1 |-> IF Cut(c) THEN Asked(c) ELSE None,
         block2 |-> IF c.op = "GET" THEN c.block ELSE None, payload |-> p]
  BY DEF FirstRequest, p
<1>6. 0 \in 0..MaxSent  BY BoundsAssumption
<1>7. QED  BY <1>1, <1>4, <1>5, <1>6 DEF Message

\* A call keeps the types.
LEMMA CallType ==
  ASSUME TypeOK, NEW c \in Calls, Call(c)
  PROVE  TypeOK'
<1>1. Send(c, FirstRequest(c))  BY DEF Call, FirstRequest
<1>2. FirstRequest(c) \in Message /\ FirstRequest(c).mid <= lastMid[c]
  BY FirstRequestType DEF TypeOK
<1>3. SentTyped(c)  BY <1>1, <1>2, SendType
<1>4. Item(Asked(c).size, Asked(c)) \in BlockItem  BY AskedType, ItemType
<1>5. block1Sent' \in [Calls -> BlockItem \cup {None}] /\ \A d \in Calls : d # c => block1Sent'[d] = block1Sent[d]
  BY <1>4 DEF Call, TypeOK
<1>6. block2Sent' \in [Calls -> Download \cup {None}] /\ \A d \in Calls : d # c => block2Sent'[d] = block2Sent[d]
  <2>1. c.op = "GET" /\ c.block # None => [num |-> c.block.num, payload |-> <<>>, typed |-> FALSE] \in Download
    BY AskedType, EmptyType DEF Download, BlockOption
  <2>2. QED  BY <2>1 DEF Call, TypeOK
<1>7. receiver' = "alive" /\ UNCHANGED <<result, taken, written, block1Receive, block2Receive, answers>>
  BY DEF Call, server
<1>8. \A d \in Calls : Counted(d)'
  <2>1. \A d \in Calls : Counted(d)  BY DEF TypeOK, Counted
  <2>2. \A d \in Calls : lastMid[d] \in Nat /\ lastMid'[d] \in Nat  BY <1>3, BoundsAssumption DEF TypeOK, SentTyped
  <2>3. Counted(c)'  BY <1>3, <1>7, <2>1, <2>2 DEF Counted, SentTyped
  <2>4. \A d \in Calls : d # c => Counted(d)'  BY <1>3, <1>5, <1>6, <1>7, <2>1 DEF Counted, SentTyped
  <2>5. QED  BY <2>3, <2>4
<1>9. QED  BY <1>3, <1>5, <1>6, <1>7, <1>8 DEF TypeOK, Counted, SentTyped

\* What a response that arrives finds.
LEMMA ArrivesType ==
  ASSUME TypeOK, NEW c \in Calls, NEW n \in 1..MaxSent, Arrives(c, n)
  PROVE  /\ answers[c][n] \in Response /\ answers[c][n] # None
         /\ request[c] \in Message /\ request[c] # None /\ request[c].mid <= lastMid[c]
         /\ n <= lastMid[c] /\ lastMid[c] \in Nat
         /\ taken' \subseteq Calls \X (1..MaxSent)
         /\ UNCHANGED <<written, block1Receive, block2Receive, answers>>
<1>1. answers[c][n] # None /\ taken' \subseteq Calls \X (1..MaxSent)
      /\ UNCHANGED <<written, block1Receive, block2Receive, answers>>
  BY DEF Arrives, server, TypeOK
<1>2. answers[c][n] \in Response
  <2>1. answers \in [Calls -> [1..MaxSent -> Response \cup {None}]]  BY DEF TypeOK
  <2>2. answers[c] \in [1..MaxSent -> Response \cup {None}]  BY <2>1
  <2>3. QED  BY <1>1, <2>2
<1>3. n <= lastMid[c] /\ lastMid[c] \in 0..MaxSent /\ MaxSent \in Nat
  BY <1>1, BoundsAssumption DEF TypeOK
<1>4. request[c] # None
  <2>1. request[c] = None => lastMid[c] = 0  BY DEF TypeOK
  <2>2. lastMid[c] # 0  BY <1>3
  <2>3. QED  BY <2>1, <2>2
<1>5. request[c] \in Message /\ request[c].mid <= lastMid[c]  BY <1>4 DEF TypeOK
<1>6. QED  BY <1>1, <1>2, <1>3, <1>4, <1>5

\* The client's step on a response keeps the types if its parts do.
LEMMA ReceiveParts ==
  ASSUME TypeOK, NEW c \in Calls, NEW n \in 1..MaxSent, Arrives(c, n), SentTyped(c),
         result' \in [Calls -> Outcome \cup {None}],
         block1Sent' \in [Calls -> BlockItem \cup {None}],
         \A d \in Calls : d # c => block1Sent'[d] = block1Sent[d],
         block2Sent' \in [Calls -> Download \cup {None}],
         \A d \in Calls : d # c => block2Sent'[d] = block2Sent[d],
         receiver' \in {"alive", "dead"}
  PROVE  TypeOK'
<1>1. /\ n <= lastMid[c] /\ taken' \subseteq Calls \X (1..MaxSent)
      /\ UNCHANGED <<written, block1Receive, block2Receive, answers>>
  BY ArrivesType
<1>2. \A d \in Calls : Counted(d)  BY DEF TypeOK, Counted
<1>3. \A d \in Calls : lastMid[d] \in Nat /\ lastMid'[d] \in Nat
  BY BoundsAssumption DEF TypeOK, SentTyped
<1>4. Counted(c)'  BY <1>1, <1>2, <1>3 DEF Counted, SentTyped
<1>5. \A d \in Calls : d # c => Counted(d)'  BY <1>1, <1>2 DEF Counted, SentTyped
<1>6. \A d \in Calls : Counted(d)'  BY <1>4, <1>5
<1>7. QED  BY <1>1, <1>6 DEF TypeOK, Counted, SentTyped

\* What the caller is given has its type.
LEMMA DeliverType ==
  ASSUME TypeOK, NEW c \in Calls, NEW p \in Payload,
         NEW code \in {"CONTENT", "CHANGED", "CONTINUE", "INCOMPLETE"}, Deliver(c, code, p)
  PROVE  result' \in [Calls -> Outcome \cup {None}]
<1>1. code # "CONTINUE" => [code |-> code, payload |-> p] \in Outcome  BY DEF Outcome
<1>2. QED  BY <1>1 DEF Deliver, TypeOK

\* The Request object may stay as it is.
LEMMA SameType ==
  ASSUME TypeOK, NEW c \in Calls, request[c] # None, UNCHANGED <<request, requests, lastMid>>
  PROVE  SentTyped(c)
<1>1. lastMid[c] \in Nat  BY BoundsAssumption DEF TypeOK
<1>2. QED  BY <1>1 DEF TypeOK, SentTyped

\* It may change without being sent.
LEMMA ObjectType ==
  ASSUME TypeOK, NEW c \in Calls, NEW r \in Message, r.mid <= lastMid[c],
         request' = [request EXCEPT ![c] = r], UNCHANGED <<requests, lastMid>>
  PROVE  SentTyped(c)
<1>1. lastMid[c] \in Nat  BY BoundsAssumption DEF TypeOK
<1>2. request' \in [Calls -> Message \cup {None}]  BY DEF TypeOK
<1>3. request'[c] = r /\ r # None /\ \A d \in Calls : d # c => request'[d] = request[d]
  BY NotNone DEF TypeOK
<1>4. QED  BY <1>1, <1>2, <1>3 DEF TypeOK, SentTyped

\* A Request object without mid, Block1 and with another payload or Block2.
LEMMA StrippedType ==
  ASSUME NEW m \in Message, NEW p \in Payload
  PROVE  /\ [m EXCEPT !.mid = 0, !.block1 = None, !.payload = p] \in Message
         /\ [m EXCEPT !.mid = 0, !.block1 = None, !.payload = p].mid = 0
<1>1. 0 \in 0..MaxSent  BY BoundsAssumption
<1>2. QED  BY <1>1 DEF Message

\* So is one that asks for the next block.
LEMMA RenewedType ==
  ASSUME NEW m \in Message, NEW b \in BlockOption
  PROVE  /\ [m EXCEPT !.mid = 0, !.block2 = b] \in Message
         /\ [m EXCEPT !.mid = 0, !.block2 = b].mid = 0
<1>1. 0 \in 0..MaxSent  BY BoundsAssumption
<1>2. QED  BY <1>1 DEF Message

\* A request sent again keeps the types.
LEMMA AgainType ==
  ASSUME TypeOK, NEW c \in Calls, NEW n \in 1..MaxSent, Arrives(c, n), Again(c)
  PROVE  TypeOK'
<1>1. request[c] \in Message /\ request[c].mid <= lastMid[c]  BY ArrivesType
<1>2. SentTyped(c)  BY <1>1, SendType DEF Again
<1>3. QED  BY <1>2, ReceiveParts DEF Again, TypeOK

\* ReceiveLateBlock1 keeps them.
LEMMA LateBlock1Type ==
  ASSUME TypeOK, NEW c \in Calls, NEW n \in 1..MaxSent, ReceiveLateBlock1(c, n)
  PROVE  TypeOK'
<1>1. Arrives(c, n)  BY DEF ReceiveLateBlock1
<1>2. answers[c][n] \in Response /\ request[c] \in Message /\ request[c].mid <= lastMid[c]
  BY <1>1, ArrivesType
<1> DEFINE r == [request[c] EXCEPT !.block1 = None]
<1>3. r \in Message /\ r.mid <= lastMid[c]  BY <1>2 DEF Message
<1>4. request' = [request EXCEPT ![c] = r]  BY DEF ReceiveLateBlock1
<1> HIDE DEF r
<1>5. SentTyped(c)  BY <1>3, <1>4, ObjectType DEF ReceiveLateBlock1
<1>6. answers[c][n].payload \in Payload
      /\ answers[c][n].code \in {"CONTENT", "CHANGED", "CONTINUE", "INCOMPLETE"}
  BY <1>2 DEF Response
<1>7. result' \in [Calls -> Outcome \cup {None}]  BY <1>6, DeliverType DEF ReceiveLateBlock1
<1>8. QED  BY <1>1, <1>5, <1>7, ReceiveParts DEF ReceiveLateBlock1, TypeOK

\* ReceiveBlock1 keeps them.
LEMMA Block1Type ==
  ASSUME TypeOK, NEW c \in Calls, NEW n \in 1..MaxSent, ReceiveBlock1(c, n)
  PROVE  TypeOK'
<1> DEFINE item == block1Sent[c]
           size == IF answers[c][n].block1.size < item.size THEN answers[c][n].block1.size ELSE item.size
           next == [num |-> item.num + 1, byte |-> item.byte + size, size |-> size,
                    m |-> c.length > item.byte + size]
           r == [request[c] EXCEPT !.mid = 0, !.block1 = None, !.payload = Slice(Content(c), item.byte, size)]
           s == [r EXCEPT !.block1 = Block(next.num, FALSE, size)]
<1>1. Arrives(c, n) /\ Continued(c, n)  BY DEF ReceiveBlock1
<1>2. answers[c][n] \in Response /\ request[c] \in Message /\ lastMid[c] \in Nat
  BY <1>1, ArrivesType
<1>3. item \in BlockItem /\ answers[c][n].block1 \in BlockOption
  BY <1>1, <1>2 DEF Continued, TypeOK, Response
<1>4. size \in Nat \ {0}  BY <1>3 DEF BlockItem, BlockOption
<1>5. item.num \in Nat /\ item.byte \in Nat /\ c.length \in Nat  BY <1>3, CallsAssumption DEF BlockItem
<1>6. Slice(Content(c), item.byte, size) \in Payload  BY <1>4, <1>5, ContentType, SliceType
<1>7. next \in BlockItem /\ next.num \in Nat  BY <1>4, <1>5 DEF BlockItem
<1>8. r \in Message /\ r.mid = 0  BY <1>2, <1>6, StrippedType
<1>9. s \in Message /\ s.mid = 0
  <2>1. Block(next.num, FALSE, size) \in BlockOption  BY <1>4, <1>7 DEF Block, BlockOption
  <2> HIDE DEF r
  <2>2. QED  BY <1>8, <2>1 DEF Message
<1>10. CASE answers[c][n].block1.num # item.num
  BY <1>1, <1>10, AgainType DEF ReceiveBlock1
<1>11. CASE answers[c][n].block1.num = item.num
  <2>1. /\ block1Sent' = [block1Sent EXCEPT ![c] = next] /\ UNCHANGED <<block2Sent, result>>
        /\ \/ Send(c, s) /\ UNCHANGED receiver
           \/ request' = [request EXCEPT ![c] = r] /\ receiver' = "dead" /\ UNCHANGED <<lastMid, requests>>
    BY <1>11 DEF ReceiveBlock1
  <2> HIDE DEF next, r, s
  <2>2. SentTyped(c)  BY <1>2, <1>8, <1>9, <2>1, SendType, ObjectType
  <2>3. block1Sent' \in [Calls -> BlockItem \cup {None}]
        /\ \A d \in Calls : d # c => block1Sent'[d] = block1Sent[d]
    BY <1>7, <2>1 DEF TypeOK
  <2>4. QED  BY <1>1, <2>1, <2>2, <2>3, ReceiveParts DEF TypeOK
<1>12. QED  BY <1>10, <1>11

\* ReceiveBlock2 keeps them.
LEMMA Block2Type ==
  ASSUME TypeOK, NEW c \in Calls, NEW n \in 1..MaxSent, ReceiveBlock2(c, n)
  PROVE  TypeOK'
<1> DEFINE block == answers[c][n].block2
           before == IF block2Sent[c] = None THEN <<>> ELSE block2Sent[c].payload
           item == [num |-> block.num + 1, payload |-> before \o answers[c][n].payload, typed |-> TRUE]
           r == [request[c] EXCEPT !.mid = 0, !.block2 = Block(block.num + 1, FALSE, block.size)]
<1>1. Arrives(c, n) /\ Cutting(c, n)  BY DEF ReceiveBlock2
<1>2. answers[c][n] \in Response /\ request[c] \in Message /\ lastMid[c] \in Nat
  BY <1>1, ArrivesType
<1>3. block \in BlockOption /\ answers[c][n].payload \in Payload
  BY <1>1, <1>2 DEF Cutting, Response
<1>4. before \in Payload  BY EmptyType DEF TypeOK, Download
<1>5. before \o answers[c][n].payload \in Payload  BY <1>3, <1>4, JoinType
<1>6. block.num + 1 \in Nat /\ block.size \in Nat \ {0}  BY <1>3 DEF BlockOption
<1>7. item \in Download  BY <1>5, <1>6 DEF Download
<1>8. r \in Message /\ r.mid = 0
  <2>1. Block(block.num + 1, FALSE, block.size) \in BlockOption  BY <1>6 DEF Block, BlockOption
  <2>2. QED  BY <1>2, <2>1, RenewedType
<1>9. CASE Again(c)
  BY <1>1, <1>9, AgainType
<1>10. CASE ~Again(c)
  <2>1. /\ block2Sent' = [block2Sent EXCEPT ![c] = item] /\ Send(c, r)
        /\ UNCHANGED <<block1Sent, result, receiver>>
    BY <1>10 DEF ReceiveBlock2
  <2> HIDE DEF item, r
  <2>2. SentTyped(c)  BY <1>2, <1>8, <2>1, SendType
  <2>3. block2Sent' \in [Calls -> Download \cup {None}]
        /\ \A d \in Calls : d # c => block2Sent'[d] = block2Sent[d]
    BY <1>7, <2>1 DEF TypeOK
  <2>4. QED  BY <1>1, <2>1, <2>2, <2>3, ReceiveParts DEF TypeOK
<1>11. QED  BY <1>9, <1>10

\* ReceiveLastBlock2 keeps them.
LEMMA LastBlock2Type ==
  ASSUME TypeOK, NEW c \in Calls, NEW n \in 1..MaxSent, ReceiveLastBlock2(c, n)
  PROVE  TypeOK'
<1> DEFINE before == IF block2Sent[c] = None THEN <<>> ELSE block2Sent[c].payload
<1>1. Arrives(c, n)  BY DEF ReceiveLastBlock2
<1>2. answers[c][n] \in Response /\ request[c] # None  BY <1>1, ArrivesType
<1>3. /\ answers[c][n].payload \in Payload
      /\ answers[c][n].code \in {"CONTENT", "CHANGED", "CONTINUE", "INCOMPLETE"}
  BY <1>2 DEF Response
<1>4. before \in Payload  BY EmptyType DEF TypeOK, Download
<1>5. before \o answers[c][n].payload \in Payload  BY <1>3, <1>4, JoinType
<1>6. CASE Again(c)
  BY <1>1, <1>6, AgainType
<1>7. CASE ~Again(c)
  <2>1. /\ Deliver(c, answers[c][n].code, before \o answers[c][n].payload)
        /\ block2Sent' = [block2Sent EXCEPT ![c] = None]
        /\ UNCHANGED <<request, lastMid, requests, block1Sent, receiver>>
    BY <1>7 DEF ReceiveLastBlock2
  <2> HIDE DEF before
  <2>2. result' \in [Calls -> Outcome \cup {None}]  BY <1>3, <1>5, <2>1, DeliverType
  <2>3. SentTyped(c)  BY <1>2, <2>1, SameType
  <2>4. QED  BY <1>1, <2>1, <2>2, <2>3, ReceiveParts DEF TypeOK
<1>8. QED  BY <1>6, <1>7

\* ReceiveWhole keeps them.
LEMMA WholeType ==
  ASSUME TypeOK, NEW c \in Calls, NEW n \in 1..MaxSent, ReceiveWhole(c, n)
  PROVE  TypeOK'
<1>1. Arrives(c, n)  BY DEF ReceiveWhole
<1>2. answers[c][n] \in Response /\ request[c] # None  BY <1>1, ArrivesType
<1>3. /\ answers[c][n].payload \in Payload
      /\ answers[c][n].code \in {"CONTENT", "CHANGED", "CONTINUE", "INCOMPLETE"}
  BY <1>2 DEF Response
<1>4. result' \in [Calls -> Outcome \cup {None}]  BY <1>3, DeliverType DEF ReceiveWhole
<1>5. SentTyped(c)  BY <1>2, SameType DEF ReceiveWhole
<1>6. QED  BY <1>1, <1>4, <1>5, ReceiveParts DEF ReceiveWhole, TypeOK

\* The server answers message m of c with x.
Answered(c, m, x) ==
  /\ x \in Response /\ m \in requests[c] /\ m \in Message /\ m.mid \in 1..MaxSent /\ m.mid <= lastMid[c]
  /\ answers' \in [Calls -> [1..MaxSent -> Response \cup {None}]]
  /\ answers[c][m.mid] = None /\ answers'[c][m.mid] = x
  /\ \A n \in 1..MaxSent : n # m.mid => answers'[c][n] = answers[c][n]
  /\ \A d \in Calls : d # c => answers'[d] = answers[d]

\* What Answer does to the responses.
LEMMA AnswerEffect ==
  ASSUME TypeOK, NEW c \in Calls, NEW m, New(c, m),
         NEW code \in {"CONTENT", "CHANGED", "CONTINUE", "INCOMPLETE"},
         NEW b1 \in BlockOption \cup {None}, NEW b2 \in BlockOption \cup {None}, NEW p \in Payload,
         Answer(m, c, code, b1, b2, p)
  PROVE  Answered(c, m, [code |-> code, block1 |-> b1, block2 |-> b2, payload |-> p])
<1> DEFINE x == [code |-> code, block1 |-> b1, block2 |-> b2, payload |-> p]
<1>1. x \in Response  BY DEF Response
<1>2. m \in requests[c] /\ m \in Message /\ m.mid \in 1..lastMid[c] /\ answers[c][m.mid] = None
  BY DEF New, TypeOK
<1>3. lastMid[c] \in 0..MaxSent /\ MaxSent \in Nat  BY BoundsAssumption DEF TypeOK
<1>4. m.mid \in 1..MaxSent /\ m.mid <= lastMid[c]  BY <1>2, <1>3
<1>5. answers \in [Calls -> [1..MaxSent -> Response \cup {None}]]  BY DEF TypeOK
<1>6. answers' = [answers EXCEPT ![c][m.mid] = x]  BY DEF Answer
<1> HIDE DEF x
<1>7. answers' = [answers EXCEPT ![c] = [answers[c] EXCEPT ![m.mid] = x]]  BY <1>5, <1>6
<1>8. answers[c] \in [1..MaxSent -> Response \cup {None}]  BY <1>5
<1> DEFINE a == [answers[c] EXCEPT ![m.mid] = x]
<1>9. a \in [1..MaxSent -> Response \cup {None}]  BY <1>1, <1>4, <1>8
<1>10. a[m.mid] = x /\ \A n \in 1..MaxSent : n # m.mid => a[n] = answers[c][n]  BY <1>4, <1>8
<1>11. answers' = [answers EXCEPT ![c] = a]  BY <1>7
<1> HIDE DEF a
<1>12. /\ answers' \in [Calls -> [1..MaxSent -> Response \cup {None}]] /\ answers'[c] = a
       /\ \A d \in Calls : d # c => answers'[d] = answers[d]
  BY <1>5, <1>9, <1>11
<1>13. Answered(c, m, x)  BY <1>1, <1>2, <1>4, <1>10, <1>12 DEF Answered
<1>14. QED  BY <1>13 DEF x

\* The server's step on a message keeps the types if its parts do.
LEMMA HandleParts ==
  ASSUME TypeOK, NEW c \in Calls, NEW m, NEW x, Answered(c, m, x), UNCHANGED client,
         written' \in Seq(Payload), written' # <<>>,
         block1Receive' \in [Calls -> Upload \cup {None}],
         block2Receive' \in [Calls -> BlockItem \cup {None}]
  PROVE  TypeOK'
<1>1. \A d \in Calls : Counted(d)  BY DEF TypeOK, Counted
<1>2. \A d \in Calls : d # c => Counted(d)'  BY <1>1 DEF Answered, Counted, client
<1>3. Counted(c)'  BY <1>1 DEF Answered, Counted, client
<1>4. \A d \in Calls : Counted(d)'  BY <1>2, <1>3
<1>5. QED  BY <1>4 DEF TypeOK, Counted, Answered, client

\* What a message of c looks like.
LEMMA MessageType ==
  ASSUME TypeOK, NEW c \in Calls, NEW m, New(c, m)
  PROVE  /\ m \in Message /\ m \in requests[c] /\ answers[c][m.mid] = None
         /\ m.payload \in Payload /\ m.block1 \in BlockOption \cup {None}
         /\ m.block2 \in BlockOption \cup {None} /\ m.mid \in 1..lastMid[c]
BY DEF New, TypeOK, Message

\* What the server joins is a payload.
LEMMA JoinedType ==
  ASSUME TypeOK, NEW c \in Calls, NEW m, New(c, m)
  PROVE  Joined(c, m) \in Payload
<1> DEFINE before == IF m.block1 = None \/ block1Receive[c] = None THEN <<>> ELSE block1Receive[c].payload
<1>1. block1Receive[c] # None => block1Receive[c].payload \in Payload
  BY DEF TypeOK, Upload
<1>2. before \in Payload  BY <1>1, EmptyType
<1>3. m.payload \in Payload  BY MessageType
<1> HIDE DEF before
<1>4. before \o m.payload \in Payload  BY <1>2, <1>3, JoinType
<1>5. QED  BY <1>4 DEF Joined, before

\* What the resource has now.
LEMMA CurrentType ==
  ASSUME TypeOK
  PROVE  /\ Len(written) \in Nat \ {0} /\ written[Len(written)] \in Payload
         /\ Len(written[Len(written)]) \in Nat /\ written[Len(written)] \in Promise!Held
         /\ Promise!Held = {written[i] : i \in 1..Len(written)}
<1>1. written \in Seq(Payload) /\ written # <<>>  BY DEF TypeOK
<1>2. Len(written) \in Nat \ {0}  BY <1>1, EmptySeq
<1>3. DOMAIN written = 1..Len(written)  BY <1>1, LenProperties
<1>4. Len(written) \in 1..Len(written)  BY <1>2
<1>5. written[Len(written)] \in Payload  BY <1>1, <1>4, ElementOfSeq
<1>6. Len(written[Len(written)]) \in Nat  BY <1>5, LenProperties DEF Payload
<1>7. Promise!Held = {written[i] : i \in 1..Len(written)}  BY <1>3 DEF Promise!Held
<1>8. written[Len(written)] \in Promise!Held  BY <1>4, <1>7
<1>9. QED  BY <1>2, <1>5, <1>6, <1>7, <1>8

\* A new payload is appended.
LEMMA WriteType ==
  ASSUME TypeOK, NEW p \in Payload, written' = Append(written, p)
  PROVE  /\ written' \in Seq(Payload) /\ written' # <<>>
         /\ Promise!Held' = Promise!Held \cup {p}
         /\ written'[Len(written')] = p
<1>1. written \in Seq(Payload) /\ Len(written) \in Nat  BY CurrentType DEF TypeOK
<1>2. written' \in Seq(Payload) /\ Len(written') = Len(written) + 1
      /\ \A i \in 1..Len(written') : written'[i] = IF i <= Len(written) THEN written[i] ELSE p
  BY <1>1
<1>3. written' # <<>>  BY <1>1, <1>2, EmptySeq
<1>4. Promise!Held' = {written'[i] : i \in 1..Len(written')}
  <2>1. DOMAIN written' = 1..Len(written')  BY <1>2, LenProperties
  <2>2. QED  BY <2>1 DEF Promise!Held
<1>5. Promise!Held = {written[i] : i \in 1..Len(written)}  BY CurrentType
<1>6. \A x : x \in Promise!Held' <=> x \in Promise!Held \cup {p}
  <2>1. ASSUME NEW i \in 1..Len(written') PROVE written'[i] \in {written[j] : j \in 1..Len(written)} \cup {p}
    <3>1. CASE i <= Len(written)
      <4>1. i \in 1..Len(written) /\ written'[i] = written[i]  BY <1>1, <1>2, <3>1
      <4>2. QED  BY <4>1
    <3>2. CASE ~(i <= Len(written))  BY <1>2, <3>2
    <3>3. QED  BY <3>1, <3>2
  <2>2. ASSUME NEW i \in 1..Len(written) PROVE written[i] \in {written'[j] : j \in 1..Len(written')}
    <3>1. i \in 1..Len(written') /\ written'[i] = written[i]  BY <1>1, <1>2
    <3>2. QED  BY <3>1
  <2>3. p \in {written'[j] : j \in 1..Len(written')}
    <3>1. Len(written) + 1 \in 1..Len(written') /\ written'[Len(written) + 1] = p  BY <1>1, <1>2
    <3>2. QED  BY <3>1
  <2>4. QED  BY <1>4, <1>5, <2>1, <2>2, <2>3
<1>7. written'[Len(written')] = p  BY <1>1, <1>2
<1>8. QED  BY <1>2, <1>3, <1>6, <1>7

\* The BlockItem with which the server cuts.
LEMMA CutterType ==
  ASSUME TypeOK, NEW c \in Calls, NEW m, New(c, m)
  PROVE  (IF Negotiated(c, m) # None THEN Negotiated(c, m) ELSE Item(0, Block(0, TRUE, MaxPayload)))
           \in BlockItem
<1> DEFINE asked == Negotiated(c, m)
<1>1. m.block2 \in BlockOption \cup {None}  BY MessageType
<1>2. asked \in BlockItem \cup {None}
  <2>1. block2Receive[c] \in BlockItem \cup {None}  BY DEF TypeOK
  <2>2. CASE m.block2 = None  BY <2>1, <2>2 DEF Negotiated
  <2>3. CASE m.block2 # None /\ block2Receive[c] = None
    <3>1. Item(0, m.block2) \in BlockItem  BY <1>1, <2>3, ItemType
    <3>2. QED  BY <2>3, <3>1 DEF Negotiated
  <2>4. CASE m.block2 # None /\ block2Receive[c] # None
    <3>1. block2Receive[c].byte \in Nat  BY <2>1, <2>4 DEF BlockItem
    <3>2. Item(block2Receive[c].byte, m.block2) \in BlockItem  BY <1>1, <2>4, <3>1, ItemType
    <3>3. QED  BY <2>4, <3>2 DEF Negotiated
  <2>5. QED  BY <2>2, <2>3, <2>4
<1>3. Item(0, Block(0, TRUE, MaxPayload)) \in BlockItem
  BY BoundsAssumption DEF Item, Block, BlockItem
<1>4. QED  BY <1>2, <1>3

\* HandleGet keeps the types.
LEMMA GetType ==
  ASSUME TypeOK, NEW c \in Calls, NEW m, HandleGet(c, m)
  PROVE  TypeOK'
<1> DEFINE payload == written[Len(written)]
           asked == Negotiated(c, m)
           item == IF asked # None THEN asked ELSE Item(0, Block(0, TRUE, MaxPayload))
           more == Len(payload) > item.byte + item.size
<1>1. New(c, m) /\ UNCHANGED <<client, written, block1Receive>>  BY DEF HandleGet
<1>2. m \in Message /\ m.block2 \in BlockOption \cup {None}  BY <1>1, MessageType
<1>3. payload \in Payload /\ Len(payload) \in Nat  BY CurrentType
<1>4. item \in BlockItem  BY <1>1, CutterType
<1>5. block1Receive' \in [Calls -> Upload \cup {None}] /\ written' \in Seq(Payload) /\ written' # <<>>
      /\ UNCHANGED client
  BY <1>1 DEF TypeOK
<1>6. CASE Answer(m, c, "CONTENT", None, None, payload) /\ UNCHANGED block2Receive
  <2> HIDE DEF payload
  <2>1. Answered(c, m, [code |-> "CONTENT", block1 |-> None, block2 |-> None, payload |-> payload])
    BY <1>1, <1>3, <1>6, AnswerEffect
  <2>2. QED  BY <1>5, <1>6, <2>1, HandleParts DEF TypeOK
<1>7. CASE /\ Answer(m, c, "CONTENT", None, Block(item.num, more, item.size), Slice(payload, item.byte, item.size))
           /\ block2Receive' = [block2Receive EXCEPT ![c] =
                IF more THEN [item EXCEPT !.byte = item.byte + item.size, !.num = item.num + 1] ELSE None]
  <2>1. Block(item.num, more, item.size) \in BlockOption  BY <1>4 DEF Block, BlockItem, BlockOption
  <2>2. item.byte \in Nat /\ item.size \in Nat  BY <1>4 DEF BlockItem
  <2> DEFINE b == Block(item.num, more, item.size)
             p == Slice(payload, item.byte, item.size)
             i == [item EXCEPT !.byte = item.byte + item.size, !.num = item.num + 1]
  <2>3. p \in Payload  BY <1>3, <2>2, SliceType
  <2>4. i \in BlockItem
    <3> HIDE DEF item
    <3>1. item.byte + item.size \in Nat /\ item.num + 1 \in Nat  BY <1>4, <2>2 DEF BlockItem
    <3>2. QED  BY <1>4, <3>1 DEF BlockItem
  <2>5. Answer(m, c, "CONTENT", None, b, p)
        /\ block2Receive' = [block2Receive EXCEPT ![c] = IF more THEN i ELSE None]
    BY <1>7
  <2>6. b \in BlockOption \cup {None}  BY <2>1
  <2> HIDE DEF b, p, i
  <2>7. Answered(c, m, [code |-> "CONTENT", block1 |-> None, block2 |-> b, payload |-> p])
    BY <1>1, <2>3, <2>5, <2>6, AnswerEffect
  <2>8. block2Receive' \in [Calls -> BlockItem \cup {None}]  BY <2>4, <2>5 DEF TypeOK
  <2>9. QED  BY <1>5, <2>7, <2>8, HandleParts
<1>8. QED  BY <1>6, <1>7 DEF HandleGet

\* HandlePut keeps them.
LEMMA PutType ==
  ASSUME TypeOK, NEW c \in Calls, NEW m, HandlePut(c, m)
  PROVE  TypeOK'
<1>1. New(c, m) /\ UNCHANGED <<client, block2Receive>> /\ written' = Append(written, Joined(c, m))
      /\ Answer(m, c, "CHANGED", None, None, <<>>)
      /\ block1Receive' = IF m.block1 = None THEN block1Receive ELSE [block1Receive EXCEPT ![c] = None]
  BY DEF HandlePut
<1>2. Joined(c, m) \in Payload  BY <1>1, JoinedType
<1>3. written' \in Seq(Payload) /\ written' # <<>>  BY <1>1, <1>2, WriteType
<1>4. Answered(c, m, [code |-> "CHANGED", block1 |-> None, block2 |-> None, payload |-> <<>>])
  BY <1>1, EmptyType, AnswerEffect
<1>5. block1Receive' \in [Calls -> Upload \cup {None}]  BY <1>1 DEF TypeOK
<1>6. UNCHANGED client /\ block2Receive' \in [Calls -> BlockItem \cup {None}]  BY <1>1 DEF TypeOK
<1>7. QED  BY <1>3, <1>4, <1>5, <1>6, HandleParts

\* ReceiveBlock keeps them.
LEMMA BlockType ==
  ASSUME TypeOK, NEW c \in Calls, NEW m, ReceiveBlock(c, m)
  PROVE  TypeOK'
<1>1. New(c, m) /\ UNCHANGED <<client, written, block2Receive>> /\ m.block1 # None
      /\ Answer(m, c, "CONTINUE", m.block1, None, <<>>)
      /\ block1Receive' = [block1Receive EXCEPT ![c] =
           [num |-> m.block1.num + 1, payload |-> Joined(c, m)]]
  BY DEF ReceiveBlock
<1>2. Joined(c, m) \in Payload  BY <1>1, JoinedType
<1>3. m.block1 \in BlockOption  BY <1>1, MessageType
<1>4. Answered(c, m, [code |-> "CONTINUE", block1 |-> m.block1, block2 |-> None, payload |-> <<>>])
  BY <1>1, <1>3, EmptyType, AnswerEffect
<1>5. [num |-> m.block1.num + 1, payload |-> Joined(c, m)] \in Upload
  BY <1>2, <1>3 DEF Upload, BlockOption
<1>6. block1Receive' \in [Calls -> Upload \cup {None}]  BY <1>1, <1>5 DEF TypeOK
<1>7. UNCHANGED client /\ block2Receive' \in [Calls -> BlockItem \cup {None}]
      /\ written' \in Seq(Payload) /\ written' # <<>>
  BY <1>1 DEF TypeOK
<1>8. QED  BY <1>4, <1>6, <1>7, HandleParts

\* Refuse keeps them.
LEMMA RefuseType ==
  ASSUME TypeOK, NEW c \in Calls, NEW m, Refuse(c, m)
  PROVE  TypeOK'
<1>1. New(c, m) /\ UNCHANGED <<client, written, block1Receive, block2Receive>>
      /\ Answer(m, c, "INCOMPLETE", None, None, <<>>)
  BY DEF Refuse
<1>2. Answered(c, m, [code |-> "INCOMPLETE", block1 |-> None, block2 |-> None, payload |-> <<>>])
  BY <1>1, EmptyType, AnswerEffect
<1>3. QED  BY <1>1, <1>2, HandleParts DEF TypeOK

-----------------------------------------------------------------------------
\* Every step keeps the types.
LEMMA TypeStep ==
  ASSUME TypeOK, [Next]_vars
  PROVE  TypeOK'
<1>1. CASE UNCHANGED vars  BY <1>1 DEF TypeOK, vars, client, server
<1>2. ASSUME NEW c \in Calls, Call(c) PROVE TypeOK'  BY <1>2, CallType
<1>3. ASSUME NEW c \in Calls, NEW n \in 1..MaxSent, Receive(c, n) PROVE TypeOK'
  BY <1>3, LateBlock1Type, Block1Type, Block2Type, LastBlock2Type, WholeType DEF Receive
<1>4. ASSUME NEW c \in Calls, NEW m \in requests[c], Handle(c, m) PROVE TypeOK'
  BY <1>4, GetType, PutType, BlockType, RefuseType DEF Handle
<1>5. QED  BY <1>1, <1>2, <1>3, <1>4 DEF Next

\* The variables keep their types, no response answers a message that was not sent,
\* and no call has items before it is made.
THEOREM TypeCorrect == Spec => []TypeOK
<1>1. Init => TypeOK  BY TypeInit
<1>2. TypeOK /\ [Next]_vars => TypeOK'  BY TypeStep
<1>3. QED  BY <1>1, <1>2, PTL DEF Spec

-----------------------------------------------------------------------------
(* What the calls must be like.                                            *)

\* An upload has content; one whose user says that its first block is the last fits
\* into it; and the first response to one of more than two blocks comes once.
UploadsFit ==
  \A c \in Calls : c.op = "PUT" =>
    /\ c.length > 0
    /\ Cut(c) /\ Asked(c).num = 0 =>
         /\ ~Asked(c).m => c.length <= Asked(c).size
         /\ Asked(c).m /\ c \in Repeats => c.length <= 2 * Asked(c).size

\* No upload starts during a download, nor a download during an upload.
InTurn == \A p \in Together : p[1].op = p[2].op

-----------------------------------------------------------------------------
(* Uploads.                                                                *)

Size(c) == Asked(c).size
\* An upload that the server puts together of two blocks.
Joins(c) == Cut(c) /\ Asked(c).num = 0 /\ Asked(c).m
Refuses(c) == Cut(c) /\ Asked(c).num # 0

WholeMessage(c) == [mid |-> 1, block1 |-> None, block2 |-> None, payload |-> Content(c)]
FirstBlock(c) == [mid |-> 1, block1 |-> Asked(c), block2 |-> None, payload |-> Slice(Content(c), 0, Size(c))]
SecondBlock(c) == [mid |-> 2, block1 |-> Block(1, FALSE, Size(c)), block2 |-> None,
                   payload |-> Slice(Content(c), Size(c), Size(c))]
FirstMessage(c) == IF Cut(c) THEN FirstBlock(c) ELSE WholeMessage(c)

\* The client has not called, has sent its first message, its second, or has a dead
\* receiver on its way to a third.
NotCalled(c) == request[c] = None /\ requests[c] = {} /\ lastMid[c] = 0 /\ block1Sent[c] = None
FirstSent(c) ==
  /\ request[c] = FirstMessage(c) /\ requests[c] = {FirstMessage(c)} /\ lastMid[c] = 1
  /\ block1Sent[c] = IF Cut(c) THEN Item(Size(c), Asked(c)) ELSE None
SecondSent(c) ==
  /\ Joins(c) /\ c.length <= 2 * Size(c)
  /\ request[c] # None /\ requests[c] = {FirstBlock(c), SecondBlock(c)} /\ lastMid[c] = 2
  /\ block1Sent[c] = Item(Size(c) + Size(c), Block(1, FALSE, Size(c)))
Stuck(c) ==
  /\ Joins(c) /\ c.length > 2 * Size(c) /\ <<c, 1>> \in taken /\ c \notin Repeats
  /\ request[c] # None /\ requests[c] = {FirstBlock(c)} /\ lastMid[c] = 1
  /\ block1Sent[c] # None /\ block1Sent[c].num = 1

Reply(code, block1) == [code |-> code, block1 |-> block1, block2 |-> None, payload |-> <<>>]
\* The answers to the first and the second message, and to no other.
Answers(c, first, second) ==
  \A n \in 1..MaxSent : answers[c][n] = IF n = 1 THEN first ELSE IF n = 2 THEN second ELSE None
Continue(c) == Reply("CONTINUE", Asked(c))
Changed == Reply("CHANGED", None)
Incomplete == Reply("INCOMPLETE", None)
Written(c) == Content(c) \in Promise!Held

\* The server has answered nothing, has the first block, or has answered all that will
\* come.
Unanswered(c) == Answers(c, None, None) /\ block1Receive[c] = None /\ ~Written(c)
Begun(c) ==
  /\ Joins(c) /\ Answers(c, Continue(c), None) /\ ~Written(c)
  /\ block1Receive[c] = [num |-> 1, payload |-> FirstBlock(c).payload]
Refusal(c) == Refuses(c) /\ Answers(c, Incomplete, None) /\ block1Receive[c] = None /\ ~Written(c)
Complete(c) ==
  /\ ~Refuses(c) /\ Written(c) /\ block1Receive[c] = None
  /\ IF Joins(c) THEN Answers(c, Continue(c), Changed) ELSE Answers(c, Changed, None)

UploadInv(c) ==
  /\ NotCalled(c) \/ FirstSent(c) \/ SecondSent(c) \/ Stuck(c)
  /\ Unanswered(c) \/ Begun(c) \/ Refusal(c) \/ Complete(c)
  /\ result[c] # None => \/ Complete(c) /\ result[c].code = "CHANGED"
                         \/ Refusal(c) /\ result[c].code = "INCOMPLETE"
  /\ SecondSent(c) \/ Stuck(c) => Begun(c) \/ Complete(c)

-----------------------------------------------------------------------------
(* Downloads.                                                              *)

Current == written[Len(written)]
UnitOf(c) == IF c.block = None THEN MaxPayload ELSE c.block.size
FirstNum(c) == IF c.block = None THEN 0 ELSE c.block.num
\* The n-th message, and what the client has when it sends it.
Ask(c, n) ==
  [mid |-> n, block1 |-> None, payload |-> <<>>,
   block2 |-> IF n = 1 THEN c.block ELSE Block(FirstNum(c) + n - 1, FALSE, UnitOf(c))]
Have(c) == IF block2Sent[c] = None THEN <<>> ELSE block2Sent[c].payload

Asks(c) ==
  /\ lastMid[c] \in 1..MaxSent /\ request[c] = Ask(c, lastMid[c])
  /\ \A r \in requests[c] : \E n \in 1..lastMid[c] : r = Ask(c, n)
  /\ request[c] \in requests[c]

\* The client has the payload up to where the server cuts next.
Has(c) ==
  /\ Have(c) = Slice(Current, 0, Len(Have(c)))
  /\ IF lastMid[c] = 1
     THEN block2Sent[c] = IF c.block = None THEN None
                          ELSE [num |-> c.block.num, payload |-> <<>>, typed |-> FALSE]
     ELSE /\ block2Sent[c] # None /\ block2Sent[c].typed
          /\ block2Sent[c].num = FirstNum(c) + lastMid[c] - 1
          /\ Len(Have(c)) < Len(Current)

More(c) == Len(Current) > Len(Have(c)) + UnitOf(c)
InOnePiece(c) == c.block = None /\ Len(Current) <= MaxPayload
Part(c) ==
  IF InOnePiece(c) THEN [code |-> "CONTENT", block1 |-> None, block2 |-> None, payload |-> Current]
  ELSE [code |-> "CONTENT", block1 |-> None,
        block2 |-> Block(FirstNum(c) + lastMid[c] - 1, More(c), UnitOf(c)),
        payload |-> Slice(Current, Len(Have(c)), UnitOf(c))]
At(c, byte) == block2Receive[c] # None /\ block2Receive[c].byte = byte

\* The last message waits for its answer, or has it; the earlier ones have blocks that
\* others follow.
Cuts(c) ==
  /\ lastMid[c] > 1 => ~InOnePiece(c)
  /\ \A n \in 1..MaxSent : n < lastMid[c] =>
       /\ answers[c][n] # None /\ answers[c][n].block2 # None
       /\ answers[c][n].block2.m /\ answers[c][n].block2.num = FirstNum(c) + n - 1
  /\ \A n \in 1..MaxSent : n > lastMid[c] => answers[c][n] = None
  /\ \/ /\ answers[c][lastMid[c]] = None
        /\ IF lastMid[c] = 1 THEN block2Receive[c] = None ELSE At(c, Len(Have(c)))
     \/ /\ answers[c][lastMid[c]] = Part(c)
        /\ ~InOnePiece(c) /\ More(c) => At(c, Len(Have(c)) + UnitOf(c))

DownloadInv(c) ==
  /\ block1Sent[c] = None
  /\ request[c] # None => request[c].block1 = None
  /\ \A r \in requests[c] : r.block1 = None
  /\ \A n \in 1..MaxSent : answers[c][n] # None => answers[c][n].code = "CONTENT" /\ answers[c][n].block1 = None
  /\ request[c] = None => /\ result[c] = None /\ block2Sent[c] = None /\ block2Receive[c] = None
                          /\ requests[c] = {} /\ lastMid[c] = 0
                          /\ \A n \in 1..MaxSent : answers[c][n] = None
  /\ result[c] # None => result[c].code = "CONTENT" /\ result[c].payload \in Promise!Held
  /\ request[c] # None /\ result[c] = None => Asks(c) /\ Has(c) /\ Cuts(c)

\* A download without result has the resource to itself.
Alone ==
  \A c, d \in Calls : /\ c.op = "GET" /\ request[c] # None /\ result[c] = None
                      /\ d.op = "PUT" /\ request[d] # None
                      => result[d] # None

BlockInv ==
  /\ \A c \in Calls : c.op = "PUT" => UploadInv(c)
  /\ \A c \in Calls : c.op = "GET" => DownloadInv(c)
  /\ Alone
-----------------------------------------------------------------------------
(* What a step leaves alone.                                               *)

SameCall(d) ==
  /\ request'[d] = request[d] /\ requests'[d] = requests[d] /\ lastMid'[d] = lastMid[d]
  /\ block1Sent'[d] = block1Sent[d] /\ block2Sent'[d] = block2Sent[d]
  /\ block1Receive'[d] = block1Receive[d] /\ block2Receive'[d] = block2Receive[d]
  /\ answers'[d] = answers[d] /\ result'[d] = result[d]

\* A request that is sent belongs to one call.
LEMMA SendRest ==
  ASSUME TypeOK, NEW c \in Calls, NEW r, Send(c, r), NEW d \in Calls, d # c
  PROVE  request'[d] = request[d] /\ requests'[d] = requests[d] /\ lastMid'[d] = lastMid[d]
BY DEF Send, TypeOK

\* A call leaves the state of the others alone.
LEMMA CallRest ==
  ASSUME TypeOK, NEW c \in Calls, Call(c), NEW d \in Calls, d # c
  PROVE  SameCall(d)
<1>1. request'[d] = request[d] /\ requests'[d] = requests[d] /\ lastMid'[d] = lastMid[d]
  BY SendRest DEF Call
<1>2. block1Sent'[d] = block1Sent[d] /\ block2Sent'[d] = block2Sent[d]
  BY DEF Call, TypeOK
<1>3. QED  BY <1>1, <1>2 DEF Call, server, SameCall

\* So does a response that arrives.
LEMMA ReceiveRest ==
  ASSUME TypeOK, NEW c \in Calls, NEW n, Receive(c, n), NEW d \in Calls, d # c
  PROVE  SameCall(d)
<1>1. UNCHANGED server  BY DEF Receive, ReceiveLateBlock1, ReceiveBlock1, ReceiveBlock2,
                               ReceiveLastBlock2, ReceiveWhole, Arrives
<1>2. request'[d] = request[d] /\ requests'[d] = requests[d] /\ lastMid'[d] = lastMid[d]
  <2>1. CASE ReceiveLateBlock1(c, n)  BY <2>1 DEF ReceiveLateBlock1, TypeOK
  <2>2. CASE ReceiveBlock1(c, n)
    <3>1. \/ \E r : Send(c, r)
          \/ \E r : request' = [request EXCEPT ![c] = r] /\ UNCHANGED <<lastMid, requests>>
      BY <2>2 DEF ReceiveBlock1, Again
    <3>2. CASE \E r : Send(c, r)  BY <3>2, SendRest
    <3>3. CASE \E r : request' = [request EXCEPT ![c] = r] /\ UNCHANGED <<lastMid, requests>>
      BY <3>3 DEF TypeOK
    <3>4. QED  BY <3>1, <3>2, <3>3
  <2>3. CASE ReceiveBlock2(c, n)  BY <2>3, SendRest DEF ReceiveBlock2, Again
  <2>4. CASE ReceiveLastBlock2(c, n)  BY <2>4, SendRest DEF ReceiveLastBlock2, Again
  <2>5. CASE ReceiveWhole(c, n)  BY <2>5 DEF ReceiveWhole
  <2>6. QED  BY <2>1, <2>2, <2>3, <2>4, <2>5 DEF Receive
<1>3. block1Sent'[d] = block1Sent[d] /\ block2Sent'[d] = block2Sent[d]
  <2>1. CASE ReceiveLateBlock1(c, n)  BY <2>1 DEF ReceiveLateBlock1
  <2>2. CASE ReceiveBlock1(c, n)
    <3>1. /\ block1Sent' = block1Sent \/ \E i : block1Sent' = [block1Sent EXCEPT ![c] = i]
          /\ block2Sent' = block2Sent
      BY <2>2 DEF ReceiveBlock1, Again
    <3>2. QED  BY <3>1 DEF TypeOK
  <2>3. CASE ReceiveBlock2(c, n)
    <3>1. /\ block1Sent' = block1Sent
          /\ block2Sent' = block2Sent \/ \E i : block2Sent' = [block2Sent EXCEPT ![c] = i]
      BY <2>3 DEF ReceiveBlock2, Again
    <3>2. QED  BY <3>1 DEF TypeOK
  <2>4. CASE ReceiveLastBlock2(c, n)  BY <2>4 DEF ReceiveLastBlock2, Again, TypeOK
  <2>5. CASE ReceiveWhole(c, n)  BY <2>5 DEF ReceiveWhole
  <2>6. QED  BY <2>1, <2>2, <2>3, <2>4, <2>5 DEF Receive
<1>4. result'[d] = result[d]
  <2>1. \A code, p : Deliver(c, code, p) => result'[d] = result[d]  BY DEF Deliver, TypeOK
  <2>2. CASE ReceiveLateBlock1(c, n)  BY <2>1, <2>2 DEF ReceiveLateBlock1
  <2>3. CASE ReceiveBlock1(c, n)  BY <2>3 DEF ReceiveBlock1, Again
  <2>4. CASE ReceiveBlock2(c, n)  BY <2>4 DEF ReceiveBlock2, Again
  <2>5. CASE ReceiveLastBlock2(c, n)  BY <2>1, <2>5 DEF ReceiveLastBlock2, Again
  <2>6. CASE ReceiveWhole(c, n)  BY <2>1, <2>6 DEF ReceiveWhole
  <2>7. QED  BY <2>2, <2>3, <2>4, <2>5, <2>6 DEF Receive
<1>5. QED  BY <1>1, <1>2, <1>3, <1>4 DEF server, SameCall

\* And a message that is handled.
LEMMA HandleRest ==
  ASSUME TypeOK, NEW c \in Calls, NEW m, Handle(c, m), NEW d \in Calls, d # c
  PROVE  SameCall(d)
<1>1. UNCHANGED client
  BY DEF Handle, HandleGet, HandlePut, ReceiveBlock, Refuse
<1>2. answers'[d] = answers[d]
  BY DEF Handle, HandleGet, HandlePut, ReceiveBlock, Refuse, Answer, TypeOK
<1>3. block1Receive'[d] = block1Receive[d]
  BY DEF Handle, HandleGet, HandlePut, ReceiveBlock, Refuse, TypeOK
<1>4. block2Receive'[d] = block2Receive[d]
  BY DEF Handle, HandleGet, HandlePut, ReceiveBlock, Refuse, TypeOK
<1>5. QED  BY <1>1, <1>2, <1>3, <1>4 DEF client, SameCall

\* What is true of a call whose state stays stays true.
LEMMA UploadFrame ==
  ASSUME NEW d \in Calls, UploadInv(d), SameCall(d), Written(d)' = Written(d),
         (<<d, 1>> \in taken') = (<<d, 1>> \in taken)
  PROVE  UploadInv(d)'
<1>1. /\ NotCalled(d)' = NotCalled(d) /\ FirstSent(d)' = FirstSent(d)
      /\ SecondSent(d)' = SecondSent(d) /\ Stuck(d)' = Stuck(d)
  BY DEF SameCall, NotCalled, FirstSent, SecondSent, Stuck
<1>2. /\ Unanswered(d)' = Unanswered(d) /\ Begun(d)' = Begun(d) /\ Refusal(d)' = Refusal(d)
      /\ Complete(d)' = Complete(d)
  BY DEF SameCall, Unanswered, Begun, Refusal, Complete, Answers
<1>3. QED  BY <1>1, <1>2 DEF UploadInv, SameCall

\* The same of a download, if what the resource has stays, or nothing is under way.
LEMMA DownloadFrame ==
  ASSUME NEW d \in Calls, DownloadInv(d), SameCall(d), Promise!Held \subseteq Promise!Held',
         Current' = Current \/ request[d] = None \/ result[d] # None
  PROVE  DownloadInv(d)'
<1>1. CASE request[d] # None /\ result[d] = None
  <2>1. Asks(d) /\ Has(d) /\ Cuts(d) /\ Current' = Current  BY <1>1 DEF DownloadInv
  <2>2. Asks(d)'  BY <2>1 DEF SameCall, Asks
  <2>3. Have(d)' = Have(d)  BY DEF SameCall, Have
  <2>4. Has(d)'  BY <2>1, <2>3 DEF SameCall, Has
  <2>5. More(d)' = More(d) /\ InOnePiece(d)' = InOnePiece(d)  BY <2>1, <2>3 DEF More, InOnePiece
  <2>6. Part(d)' = Part(d)  BY <2>1, <2>3, <2>5 DEF Part, SameCall
  <2>7. Cuts(d)'  BY <2>1, <2>3, <2>5, <2>6 DEF SameCall, Cuts, At
  <2>8. QED  BY <1>1, <2>2, <2>4, <2>7 DEF DownloadInv, SameCall
<1>2. CASE ~(request[d] # None /\ result[d] = None)
  BY <1>2 DEF DownloadInv, SameCall
<1>3. QED  BY <1>1, <1>2

\* What an upload is made of.
LEMMA UploadTypes ==
  ASSUME NEW c \in Calls
  PROVE  /\ Size(c) \in Nat /\ Size(c) > 0 /\ Asked(c) \in BlockOption /\ Asked(c) # None
         /\ Asked(c).num \in Nat /\ Asked(c).m \in BOOLEAN /\ Asked(c).size = Size(c)
         /\ Content(c) \in Payload /\ Len(Content(c)) = c.length /\ c.length \in Nat
         /\ FirstBlock(c).payload \in Payload /\ SecondBlock(c).payload \in Payload
         /\ FirstBlock(c).mid = 1 /\ SecondBlock(c).mid = 2 /\ WholeMessage(c).mid = 1
<1>1. /\ Asked(c) \in BlockOption /\ Asked(c).num \in Nat /\ Asked(c).m \in BOOLEAN
      /\ Size(c) \in Nat /\ Size(c) > 0 /\ Asked(c).size = Size(c)
  BY AskedType DEF Size
<1>2. Asked(c) # None  BY <1>1, NotNone
<1>3. Content(c) \in Payload /\ Len(Content(c)) = c.length /\ c.length \in Nat  BY ContentType
<1>4. FirstBlock(c).payload \in Payload  BY <1>1, <1>3, SliceType DEF FirstBlock
<1>5. SecondBlock(c).payload \in Payload  BY <1>1, <1>3, SliceType DEF SecondBlock
<1>6. QED  BY <1>1, <1>2, <1>3, <1>4, <1>5 DEF FirstBlock, SecondBlock, WholeMessage

\* The server's responses to an upload.
LEMMA ReplyTypes ==
  ASSUME NEW c \in Calls
  PROVE  /\ Continue(c) \in Response /\ Continue(c) # None /\ Continue(c).code = "CONTINUE"
         /\ Continue(c).block1 = Asked(c) /\ Continue(c).block1 # None
         /\ Changed \in Response /\ Changed # None /\ Changed.code = "CHANGED" /\ Changed.block1 = None
         /\ Incomplete \in Response /\ Incomplete # None /\ Incomplete.code = "INCOMPLETE"
         /\ Incomplete.block1 = None
         /\ \A x \in {Continue(c), Changed, Incomplete} : x.block2 = None /\ x.payload = <<>>
<1>1. Asked(c) \in BlockOption /\ Asked(c) # None  BY UploadTypes
<1>2. Continue(c) \in Response  BY <1>1, EmptyType DEF Continue, Reply, Response
<1>3. Changed \in Response /\ Incomplete \in Response  BY EmptyType DEF Changed, Incomplete, Reply, Response
<1>4. Continue(c) # None /\ Changed # None /\ Incomplete # None  BY <1>2, <1>3, NotNone
<1>5. QED  BY <1>1, <1>2, <1>3, <1>4 DEF Continue, Changed, Incomplete, Reply

\* The two blocks of an upload that joins two are its content.
LEMMA BlocksJoin ==
  ASSUME NEW c \in Calls, c.length <= 2 * Size(c)
  PROVE  FirstBlock(c).payload \o SecondBlock(c).payload = Content(c)
<1> DEFINE S == (Calls \cup {None}) \X Nat
           p == Content(c)
           n == Size(c)
<1>1. p \in Seq(S) /\ Len(p) = c.length /\ c.length \in Nat /\ n \in Nat /\ n + n \in Nat
  BY UploadTypes DEF Payload
<1>2. FirstBlock(c).payload = Slice(p, 0, n) /\ SecondBlock(c).payload = Slice(p, n, n)
  BY DEF FirstBlock, SecondBlock
<1>3. Len(p) <= n + n  BY <1>1
<1> HIDE DEF S, p, n
<1>4. CASE n <= Len(p)
  <2>1. Slice(p, 0, n) \o Slice(p, n, n) = Slice(p, 0, n + n)  BY <1>1, <1>4, SlicesJoin
  <2>2. Slice(p, 0, n + n) = p  BY <1>1, <1>3, SliceIsWhole
  <2>3. QED  BY <1>2, <2>1, <2>2 DEF p
<1>5. CASE ~(n <= Len(p))
  <2>1. Len(p) <= n  BY <1>1, <1>5
  <2>2. Slice(p, 0, n) = p  BY <1>1, <2>1, SliceIsWhole
  <2>3. Slice(p, n, n) = <<>>  BY <1>1, <2>1, SliceProperties
  <2>4. p \o <<>> = p  BY <1>1, ConcatEmptySeq
  <2>5. QED  BY <1>2, <2>2, <2>3, <2>4 DEF p
<1>6. QED  BY <1>4, <1>5

\* Contents of different calls differ, and are not what the resource had at first.
LEMMA ContentsDiffer ==
  ASSUME UploadsFit, NEW c \in Calls, c.op = "PUT"
  PROVE  /\ Content(c) # Initial
         /\ \A d \in Calls : d.op = "PUT" /\ d # c => Content(d) # Content(c)
<1>1. c.length > 0 /\ c.length \in Nat  BY CallsAssumption DEF UploadsFit
<1>2. 1 \in 1..c.length /\ Content(c)[1] = <<c, 1>>  BY <1>1 DEF Content
<1>3. Content(c) # Initial
  <2>1. SUFFICES ASSUME Content(c) = Initial PROVE FALSE
    OBVIOUS
  <2>2. DOMAIN Content(c) = 1..c.length /\ DOMAIN Initial = 1..InitialLength  BY DEF Content, Initial
  <2>3. 1 \in 1..InitialLength  BY <1>2, <2>1, <2>2
  <2>4. Initial[1] = <<None, 1>>  BY <2>3 DEF Initial
  <2>5. c = None  BY <1>2, <2>1, <2>4
  <2>6. QED  BY <2>5, NotNone
<1>4. ASSUME NEW d \in Calls, d.op = "PUT", d # c PROVE Content(d) # Content(c)
  <2>1. d.length > 0 /\ d.length \in Nat  BY <1>4, CallsAssumption DEF UploadsFit
  <2>2. 1 \in 1..d.length /\ Content(d)[1] = <<d, 1>>  BY <2>1 DEF Content
  <2>3. QED  BY <1>2, <1>4, <2>2
<1>5. QED  BY <1>3, <1>4

-----------------------------------------------------------------------------
(* The server's steps on uploads.                                          *)

\* The messages of an upload, and what they find.
LEMMA UploadMessage ==
  ASSUME TypeOK, NEW c \in Calls, UploadInv(c), NEW m, New(c, m)
  PROVE  \/ /\ m = FirstMessage(c) /\ m.mid = 1 /\ Unanswered(c) /\ FirstSent(c)
         \/ /\ m = SecondBlock(c) /\ m.mid = 2 /\ Begun(c) /\ SecondSent(c)
<1>1. m \in requests[c] /\ answers[c][m.mid] = None /\ m.mid \in 1..MaxSent
  <2>1. m.mid \in 1..lastMid[c] /\ lastMid[c] \in 0..MaxSent /\ MaxSent \in Nat
    BY MessageType, BoundsAssumption DEF TypeOK
  <2>2. QED  BY <2>1, MessageType
<1>2. FirstMessage(c).mid = 1 /\ SecondBlock(c).mid = 2 /\ FirstBlock(c).mid = 1
  BY UploadTypes DEF FirstMessage
<1>3. CASE m = FirstMessage(c)
  <2>1. answers[c][1] = None /\ 1 \in 1..MaxSent  BY <1>1, <1>2, <1>3
  <2>2. ~Begun(c) /\ ~Refusal(c) /\ ~Complete(c)
    BY <2>1, ReplyTypes DEF Begun, Refusal, Complete, Answers
  <2>3. Unanswered(c) /\ ~SecondSent(c) /\ ~Stuck(c) /\ ~NotCalled(c)
    BY <1>1, <2>2 DEF UploadInv, NotCalled
  <2>4. QED  BY <1>2, <1>3, <2>3 DEF UploadInv
<1>4. CASE m = SecondBlock(c) /\ SecondSent(c)
  <2>1. answers[c][2] = None /\ 2 \in 1..MaxSent  BY <1>1, <1>2, <1>4
  <2>2. ~Complete(c)  BY <1>4, <2>1, ReplyTypes DEF Complete, Answers, SecondSent
  <2>3. QED  BY <1>2, <1>4, <2>2 DEF UploadInv
<1>5. CASE m = FirstBlock(c) /\ (SecondSent(c) \/ Stuck(c))
  <2>1. answers[c][1] = None /\ 1 \in 1..MaxSent  BY <1>1, <1>2, <1>5
  <2>2. ~Begun(c) /\ ~Complete(c)  BY <2>1, ReplyTypes DEF Begun, Complete, Answers
  <2>3. QED  BY <1>5, <2>2 DEF UploadInv
<1>6. \/ m = FirstMessage(c)
      \/ m = SecondBlock(c) /\ SecondSent(c)
      \/ m = FirstBlock(c) /\ (SecondSent(c) \/ Stuck(c))
  <2>1. ~NotCalled(c)  BY <1>1 DEF NotCalled
  <2>2. CASE FirstSent(c)
    <3>1. m \in {FirstMessage(c)}  BY <1>1, <2>2 DEF FirstSent
    <3>2. QED  BY <3>1
  <2>3. CASE SecondSent(c)
    <3>1. requests[c] = {FirstBlock(c), SecondBlock(c)}  BY <2>3 DEF SecondSent
    <3>2. QED  BY <1>1, <2>3, <3>1
  <2>4. CASE Stuck(c)
    <3>1. requests[c] = {FirstBlock(c)}  BY <2>4 DEF Stuck
    <3>2. QED  BY <1>1, <2>4, <3>1
  <2>5. QED  BY <2>1, <2>2, <2>3, <2>4 DEF UploadInv
<1>7. QED  BY <1>3, <1>4, <1>5, <1>6

\* The server writes the content of the call, once.
LEMMA PutWrites ==
  ASSUME TypeOK, UploadsFit, NEW c \in Calls, c.op = "PUT", UploadInv(c), NEW m, HandlePut(c, m)
  PROVE  /\ Joined(c, m) = Content(c) /\ ~Written(c) /\ ~Refuses(c)
         /\ \/ m.mid = 1 /\ ~Joins(c) /\ Unanswered(c) /\ FirstSent(c)
            \/ m.mid = 2 /\ m.block1 # None /\ Joins(c) /\ Begun(c) /\ SecondSent(c)
<1> DEFINE S == (Calls \cup {None}) \X Nat
<1>1. New(c, m) /\ (m.block1 # None => ~Refused(c, m) /\ ~m.block1.m)  BY DEF HandlePut
<1>2. /\ Asked(c) # None /\ Asked(c).num \in Nat /\ Size(c) \in Nat /\ Content(c) \in Seq(S)
      /\ Len(Content(c)) = c.length
  BY UploadTypes DEF Payload
<1>3. CASE m = FirstMessage(c) /\ m.mid = 1 /\ Unanswered(c) /\ FirstSent(c)
  <2>1. block1Receive[c] = None /\ ~Written(c)  BY <1>3 DEF Unanswered
  <2>2. CASE ~Cut(c)
    <3>1. m = WholeMessage(c)  BY <1>3, <2>2 DEF FirstMessage
    <3>2. m.payload = Content(c) /\ <<>> \o Content(c) = Content(c)
      BY <1>2, <3>1, ConcatEmptySeq DEF WholeMessage
    <3>3. Joined(c, m) = Content(c)  BY <2>1, <3>2 DEF Joined
    <3>4. QED  BY <1>3, <2>1, <2>2, <3>3 DEF Refuses, Joins
  <2>3. CASE Cut(c)
    <3>1. m = FirstBlock(c)  BY <1>3, <2>3 DEF FirstMessage
    <3>2. m.block1 = Asked(c) /\ m.payload = Slice(Content(c), 0, Size(c))  BY <3>1 DEF FirstBlock
    <3>3. Asked(c).num = 0 /\ ~Asked(c).m  BY <1>1, <1>2, <2>1, <3>2 DEF Refused
    <3>4. c.length <= Size(c)  BY <2>3, <3>3 DEF UploadsFit, Size
    <3>5. m.payload = Content(c)  BY <1>2, <3>2, <3>4, SliceIsWhole
    <3>6. <<>> \o Content(c) = Content(c)  BY <1>2, ConcatEmptySeq
    <3>7. Joined(c, m) = Content(c)  BY <2>1, <3>5, <3>6 DEF Joined
    <3>8. QED  BY <1>3, <2>1, <3>3, <3>7 DEF Refuses, Joins
  <2>4. QED  BY <2>2, <2>3
<1>4. CASE m = SecondBlock(c) /\ m.mid = 2 /\ Begun(c) /\ SecondSent(c)
  <2>1. /\ Joins(c) /\ c.length <= 2 * Size(c) /\ ~Written(c)
        /\ block1Receive[c] = [num |-> 1, payload |-> FirstBlock(c).payload]
    BY <1>4 DEF Begun, SecondSent
  <2>2. m.block1 # None
    <3>1. Block(1, FALSE, Size(c)) \in BlockOption  BY UploadTypes DEF Block, BlockOption
    <3>2. QED  BY <1>4, <3>1, NotNone DEF SecondBlock
  <2>3. block1Receive[c] # None
    <3>1. [num |-> 1, payload |-> FirstBlock(c).payload] \in Upload  BY UploadTypes DEF Upload
    <3>2. QED  BY <2>1, <3>1, NotNone
  <2>4. Joined(c, m) = FirstBlock(c).payload \o SecondBlock(c).payload
    <3>1. Joined(c, m) = block1Receive[c].payload \o m.payload  BY <2>2, <2>3 DEF Joined
    <3>2. block1Receive[c].payload = FirstBlock(c).payload  BY <2>1
    <3>3. m.payload = SecondBlock(c).payload  BY <1>4
    <3>4. QED  BY <3>1, <3>2, <3>3
  <2>5. Joined(c, m) = Content(c)  BY <2>1, <2>4, BlocksJoin
  <2>6. QED  BY <1>4, <2>1, <2>2, <2>5 DEF Refuses, Joins
<1>5. QED  BY <1>1, <1>3, <1>4, UploadMessage

\* The client's half of an upload is not touched by the server.
LEMMA ClientSame ==
  ASSUME NEW c \in Calls, UNCHANGED client
  PROVE  /\ NotCalled(c)' = NotCalled(c) /\ FirstSent(c)' = FirstSent(c)
         /\ SecondSent(c)' = SecondSent(c) /\ Stuck(c)' = Stuck(c) /\ result'[c] = result[c]
BY DEF client, NotCalled, FirstSent, SecondSent, Stuck

\* Nor the server's by the client.
LEMMA ServerSame ==
  ASSUME NEW c \in Calls, UNCHANGED server
  PROVE  /\ Unanswered(c)' = Unanswered(c) /\ Begun(c)' = Begun(c)
         /\ Refusal(c)' = Refusal(c) /\ Complete(c)' = Complete(c)
<1>1. Written(c)' = Written(c)  BY DEF server, Written, Promise!Held
<1>2. QED  BY <1>1 DEF server, Unanswered, Begun, Refusal, Complete, Answers

\* HandlePut: all is written.
LEMMA UploadHandlePut ==
  ASSUME TypeOK, UploadsFit, NEW c \in Calls, c.op = "PUT", UploadInv(c), NEW m, HandlePut(c, m)
  PROVE  UploadInv(c)' /\ written' = Append(written, Content(c)) /\ ~Written(c) /\ result[c] = None
<1>1. /\ Joined(c, m) = Content(c) /\ ~Written(c) /\ ~Refuses(c)
      /\ \/ m.mid = 1 /\ ~Joins(c) /\ Unanswered(c) /\ FirstSent(c)
         \/ m.mid = 2 /\ m.block1 # None /\ Joins(c) /\ Begun(c) /\ SecondSent(c)
  BY PutWrites
<1>2. New(c, m) /\ UNCHANGED client /\ written' = Append(written, Content(c))
      /\ Answer(m, c, "CHANGED", None, None, <<>>)
      /\ block1Receive' = IF m.block1 = None THEN block1Receive ELSE [block1Receive EXCEPT ![c] = None]
  BY <1>1 DEF HandlePut
<1>3. Answered(c, m, Changed)  BY <1>2, EmptyType, AnswerEffect DEF Changed, Reply
<1>4. Written(c)'
  <2>1. Promise!Held' = Promise!Held \cup {Content(c)}  BY <1>2, UploadTypes, WriteType
  <2>2. QED  BY <2>1 DEF Written
<1>5. block1Receive'[c] = None
  <2>1. CASE m.block1 = None  BY <1>1, <1>2, <2>1 DEF Unanswered
  <2>2. CASE m.block1 # None  BY <1>2, <2>2 DEF TypeOK
  <2>3. QED  BY <2>1, <2>2
<1>6. result[c] = None  BY <1>1 DEF UploadInv, Complete, Refusal
<1>7. Complete(c)'
  <2>1. CASE m.mid = 1 /\ ~Joins(c) /\ Unanswered(c)
    <3>1. Answers(c, Changed, None)'  BY <1>3, <2>1 DEF Answered, Unanswered, Answers
    <3>2. QED  BY <1>1, <1>4, <1>5, <2>1, <3>1 DEF Complete
  <2>2. CASE m.mid = 2 /\ Joins(c) /\ Begun(c)
    <3>1. Answers(c, Continue(c), Changed)'  BY <1>3, <2>2 DEF Answered, Begun, Answers
    <3>2. QED  BY <1>1, <1>4, <1>5, <2>2, <3>1 DEF Complete
  <2>3. QED  BY <1>1, <2>1, <2>2
<1>8. QED  BY <1>1, <1>2, <1>6, <1>7, ClientSame DEF UploadInv

\* ReceiveBlock: the first block is kept.
LEMMA UploadReceiveBlock ==
  ASSUME TypeOK, NEW c \in Calls, UploadInv(c), NEW m, ReceiveBlock(c, m)
  PROVE  UploadInv(c)'
<1>1. /\ New(c, m) /\ UNCHANGED client /\ written' = written /\ m.block1 # None
      /\ ~Refused(c, m) /\ m.block1.m /\ Answer(m, c, "CONTINUE", m.block1, None, <<>>)
      /\ block1Receive' = [block1Receive EXCEPT ![c] =
           [num |-> m.block1.num + 1, payload |-> Joined(c, m)]]
  BY DEF ReceiveBlock
<1>2. m # SecondBlock(c)  BY <1>1 DEF SecondBlock, Block
<1>3. m = FirstMessage(c) /\ m.mid = 1 /\ Unanswered(c) /\ FirstSent(c)
  BY <1>1, <1>2, UploadMessage
<1>4. Cut(c) /\ m = FirstBlock(c) /\ m.block1 = Asked(c)
  BY <1>1, <1>3 DEF FirstMessage, WholeMessage, FirstBlock
<1>5. block1Receive[c] = None /\ ~Written(c) /\ Answers(c, None, None)  BY <1>3 DEF Unanswered
<1>6. Asked(c).num = 0 /\ Asked(c).m  BY <1>1, <1>4, <1>5 DEF Refused
<1>7. Joins(c)  BY <1>4, <1>6 DEF Joins
<1>8. Joined(c, m) = FirstBlock(c).payload
  <2>1. <<>> \o FirstBlock(c).payload = FirstBlock(c).payload
    BY UploadTypes, ConcatEmptySeq DEF Payload
  <2>2. QED  BY <1>4, <1>5, <2>1 DEF Joined
<1>9. block1Receive'[c] = [num |-> 1, payload |-> FirstBlock(c).payload]
  <2>1. block1Receive'[c] = [num |-> m.block1.num + 1, payload |-> Joined(c, m)]  BY <1>1 DEF TypeOK
  <2>2. m.block1.num + 1 = 1  BY <1>4, <1>6
  <2>3. QED  BY <1>8, <2>1, <2>2
<1>10. Answered(c, m, Continue(c))
  <2>1. m.block1 \in BlockOption \cup {None}  BY <1>4, UploadTypes
  <2>2. QED  BY <1>1, <1>4, <2>1, EmptyType, AnswerEffect DEF Continue, Reply
<1>11. Begun(c)'
  <2>1. Answers(c, Continue(c), None)'  BY <1>3, <1>5, <1>10 DEF Answered, Answers
  <2>2. ~Written(c)'  BY <1>1, <1>5 DEF Written, Promise!Held
  <2>3. QED  BY <1>7, <1>9, <2>1, <2>2 DEF Begun
<1>12. result[c] = None
  <2>1. ~Complete(c)  BY <1>5 DEF Complete
  <2>2. ~Refusal(c)  BY <1>7 DEF Refusal, Refuses, Joins
  <2>3. QED  BY <2>1, <2>2 DEF UploadInv
<1>13. QED  BY <1>1, <1>11, <1>12, ClientSame DEF UploadInv

\* Refuse: the upload began with another block than the first.
LEMMA UploadRefuse ==
  ASSUME TypeOK, NEW c \in Calls, UploadInv(c), NEW m, Refuse(c, m)
  PROVE  UploadInv(c)'
<1>1. /\ New(c, m) /\ UNCHANGED <<client, written, block1Receive>> /\ m.block1 # None
      /\ Refused(c, m) /\ Answer(m, c, "INCOMPLETE", None, None, <<>>)
  BY DEF Refuse
<1>2. m = FirstMessage(c) /\ m.mid = 1 /\ Unanswered(c) /\ FirstSent(c)
  <2>1. SUFFICES ASSUME m = SecondBlock(c), Begun(c) PROVE FALSE
    BY <1>1, UploadMessage
  <2>2. m.block1.num = 1  BY <2>1 DEF SecondBlock, Block
  <2>3. [num |-> 1, payload |-> FirstBlock(c).payload] \in Upload  BY UploadTypes DEF Upload
  <2>4. block1Receive[c] # None /\ block1Receive[c].num = 1  BY <2>1, <2>3, NotNone DEF Begun
  <2>5. QED  BY <1>1, <2>2, <2>4 DEF Refused
<1>3. Cut(c) /\ m.block1 = Asked(c)
  BY <1>1, <1>2 DEF FirstMessage, WholeMessage, FirstBlock
<1>4. block1Receive[c] = None /\ ~Written(c) /\ Answers(c, None, None)  BY <1>2 DEF Unanswered
<1>5. Refuses(c)  BY <1>1, <1>3, <1>4 DEF Refused, Refuses
<1>6. Answered(c, m, Incomplete)  BY <1>1, EmptyType, AnswerEffect DEF Incomplete, Reply
<1>7. Refusal(c)'
  <2>1. Answers(c, Incomplete, None)'  BY <1>2, <1>4, <1>6 DEF Answered, Answers
  <2>2. ~Written(c)' /\ block1Receive'[c] = None  BY <1>1, <1>4 DEF Written, Promise!Held
  <2>3. QED  BY <1>5, <2>1, <2>2 DEF Refusal
<1>8. result[c] = None
  <2>1. ~Complete(c)  BY <1>4 DEF Complete
  <2>2. ~Refusal(c)
    <3>1. answers[c][m.mid] = None /\ m.mid \in 1..MaxSent /\ m.mid = 1  BY <1>2, <1>6 DEF Answered
    <3>2. QED  BY <3>1, ReplyTypes DEF Refusal, Answers
  <2>3. QED  BY <2>1, <2>2 DEF UploadInv
<1>9. ~SecondSent(c) /\ ~Stuck(c)  BY <1>5 DEF SecondSent, Stuck, Refuses, Joins
<1>10. QED  BY <1>1, <1>7, <1>8, <1>9, ClientSame DEF UploadInv

\* The server's step on an upload: it may write the content, and only once.
LEMMA UploadHandle ==
  ASSUME TypeOK, UploadsFit, NEW c \in Calls, c.op = "PUT", UploadInv(c), NEW m, Handle(c, m)
  PROVE  /\ UploadInv(c)'
         /\ \/ written' = written
            \/ written' = Append(written, Content(c)) /\ ~Written(c) /\ result[c] = None
<1>1. ~HandleGet(c, m)  BY DEF HandleGet
<1>2. CASE HandlePut(c, m)  BY <1>2, UploadHandlePut
<1>3. CASE ReceiveBlock(c, m)  BY <1>3, UploadReceiveBlock DEF ReceiveBlock
<1>4. CASE Refuse(c, m)  BY <1>4, UploadRefuse DEF Refuse
<1>5. QED  BY <1>1, <1>2, <1>3, <1>4 DEF Handle

\* The call of an upload: the first message.
LEMMA UploadCall ==
  ASSUME TypeOK, NEW c \in Calls, c.op = "PUT", UploadInv(c), Call(c)
  PROVE  UploadInv(c)' /\ request'[c] # None
<1>1. request[c] = None /\ UNCHANGED <<result, server>>  BY DEF Call
<1>2. lastMid[c] = 0  BY <1>1 DEF TypeOK
<1>3. NotCalled(c) /\ ~FirstSent(c) /\ ~SecondSent(c) /\ ~Stuck(c)
  BY <1>1, <1>2 DEF UploadInv, FirstSent, SecondSent, Stuck
<1>4. Send(c, FirstRequest(c))  BY DEF Call, FirstRequest
<1>5. FirstRequest(c) \in Message /\ FirstRequest(c).mid = 0 /\ FirstRequest(c).mid <= lastMid[c]
  BY <1>2, FirstRequestType
<1>6. /\ Sends(c, [FirstRequest(c) EXCEPT !.mid = lastMid[c] + 1])
      /\ lastMid' = [lastMid EXCEPT ![c] = lastMid[c] + 1]
  BY <1>4, <1>5, SendEffect
<1>7. [FirstRequest(c) EXCEPT !.mid = lastMid[c] + 1] = FirstMessage(c)
  <2>1. lastMid[c] + 1 = 1  BY <1>2
  <2>2. CASE Cut(c)
    <3>1. FirstRequest(c) = [mid |-> 0, block1 |-> Asked(c), block2 |-> None,
                             payload |-> Slice(Content(c), 0, Asked(c).size)]
      BY <2>2 DEF FirstRequest
    <3>2. QED  BY <2>1, <2>2, <3>1 DEF FirstMessage, FirstBlock, Size
  <2>3. CASE ~Cut(c)
    <3>1. FirstRequest(c) = [mid |-> 0, block1 |-> None, block2 |-> None, payload |-> Content(c)]
      BY <2>3 DEF FirstRequest
    <3>2. QED  BY <2>1, <2>3, <3>1 DEF FirstMessage, WholeMessage
  <2>4. QED  BY <2>2, <2>3
<1>8. /\ request' = [request EXCEPT ![c] = FirstMessage(c)] /\ FirstMessage(c) \in Message
      /\ requests' = [requests EXCEPT ![c] = @ \cup {FirstMessage(c)}]
  BY <1>6, <1>7 DEF Sends
<1>9. request'[c] = FirstMessage(c) /\ FirstMessage(c) # None /\ requests'[c] = {FirstMessage(c)}
      /\ lastMid'[c] = 1
  BY <1>2, <1>3, <1>6, <1>8, NotNone DEF TypeOK, NotCalled
<1>10. block1Sent'[c] = IF Cut(c) THEN Item(Size(c), Asked(c)) ELSE None
  BY <1>3 DEF Call, TypeOK, NotCalled, Size
<1>11. FirstSent(c)'
  BY <1>9, <1>10 DEF FirstSent
<1>12. ~SecondSent(c)' /\ ~Stuck(c)'
  <2>1. ~SecondSent(c)'  BY <1>9 DEF SecondSent
  <2>2. ~Stuck(c)'
    <3>1. SUFFICES ASSUME Joins(c), block1Sent'[c].num = 1 PROVE FALSE
      BY DEF Stuck
    <3>2. block1Sent'[c] = Item(Size(c), Asked(c)) /\ Asked(c).num = 0  BY <1>10, <3>1 DEF Joins
    <3>3. QED  BY <3>1, <3>2 DEF Item
  <2>3. QED  BY <2>1, <2>2
<1>13. QED  BY <1>1, <1>9, <1>11, <1>12, ServerSame DEF UploadInv

\* The responses to an upload.
LEMMA UploadArrives ==
  ASSUME TypeOK, NEW c \in Calls, UploadInv(c), NEW n \in 1..MaxSent, Arrives(c, n)
  PROVE  /\ ~Cutting(c, n)
         /\ \/ /\ answers[c][n] = Continue(c) /\ n = 1 /\ Joins(c) /\ (Begun(c) \/ Complete(c))
               /\ FirstSent(c) \/ SecondSent(c)
            \/ answers[c][n] = Changed /\ Complete(c)
            \/ answers[c][n] = Incomplete /\ Refusal(c)
<1>1. answers[c][n] # None /\ request[c] # None  BY ArrivesType
<1>2. ~NotCalled(c) /\ ~Unanswered(c)  BY <1>1 DEF NotCalled, Unanswered, Answers
<1>3. \/ answers[c][n] = Continue(c) /\ n = 1 /\ Joins(c) /\ (Begun(c) \/ Complete(c))
      \/ answers[c][n] = Changed /\ Complete(c)
      \/ answers[c][n] = Incomplete /\ Refusal(c)
  <2>1. CASE Begun(c)  BY <1>1, <2>1 DEF Begun, Answers
  <2>2. CASE Refusal(c)  BY <1>1, <2>2 DEF Refusal, Answers
  <2>3. CASE Complete(c)  BY <1>1, <2>3 DEF Complete, Answers
  <2>4. QED  BY <1>2, <2>1, <2>2, <2>3 DEF UploadInv
<1>4. n = 1 => ~Stuck(c)  BY DEF Stuck, Arrives
<1>5. ~Cutting(c, n)  BY <1>3, ReplyTypes DEF Cutting
<1>6. QED  BY <1>2, <1>3, <1>4, <1>5 DEF UploadInv

\* A message is its fields.
LEMMA MessageFields ==
  ASSUME NEW m \in Message
  PROVE  m = [mid |-> m.mid, block1 |-> m.block1, block2 |-> m.block2, payload |-> m.payload]
BY DEF Message

\* The second request, before it has its mid.
LEMMA SecondBlockMade ==
  ASSUME NEW c \in Calls, NEW m \in Message, m.block2 = None, m.mid = 0, m.block1 = Block(1, FALSE, Size(c)),
         m.payload = Slice(Content(c), Size(c), Size(c)), 2 \in 0..MaxSent
  PROVE  [m EXCEPT !.mid = 2] = SecondBlock(c)
<1>1. [m EXCEPT !.mid = 2] \in Message /\ [m EXCEPT !.mid = 2].mid = 2
      /\ [m EXCEPT !.mid = 2].block1 = m.block1 /\ [m EXCEPT !.mid = 2].block2 = m.block2
      /\ [m EXCEPT !.mid = 2].payload = m.payload
  BY DEF Message
<1> DEFINE q == [m EXCEPT !.mid = 2]
<1> HIDE DEF q
<1>2. q = [mid |-> q.mid, block1 |-> q.block1, block2 |-> q.block2, payload |-> q.payload]
  BY <1>1, MessageFields DEF q
<1>3. q.mid = 2 /\ q.block1 = m.block1 /\ q.block2 = m.block2 /\ q.payload = m.payload
  BY <1>1 DEF q
<1>4. q = SecondBlock(c)  BY <1>2, <1>3 DEF SecondBlock
<1>5. QED  BY <1>4 DEF q

\* A response to all of an upload.
LEMMA UploadWhole ==
  ASSUME TypeOK, NEW c \in Calls, c.op = "PUT", UploadInv(c), NEW n \in 1..MaxSent, ReceiveWhole(c, n)
  PROVE  UploadInv(c)' /\ (result' = result \/ Promise!Return(c))
<1>1. /\ Arrives(c, n) /\ ~Continued(c, n) /\ UNCHANGED <<request, lastMid, requests, block1Sent, block2Sent>>
      /\ Deliver(c, answers[c][n].code, answers[c][n].payload)
  BY DEF ReceiveWhole
<1>2. UNCHANGED server /\ taken \subseteq taken' /\ written' = written  BY <1>1 DEF Arrives, server
<1>3. /\ NotCalled(c)' = NotCalled(c) /\ FirstSent(c)' = FirstSent(c)
      /\ SecondSent(c)' = SecondSent(c) /\ (Stuck(c) => Stuck(c)')
      /\ (Stuck(c)' => Joins(c) /\ c \notin Repeats)
  BY <1>1, <1>2 DEF NotCalled, FirstSent, SecondSent, Stuck
<1>4. \/ answers[c][n] = Continue(c) /\ n = 1 /\ Joins(c) /\ (FirstSent(c) \/ SecondSent(c))
      \/ answers[c][n] = Changed /\ Complete(c)
      \/ answers[c][n] = Incomplete /\ Refusal(c)
  BY <1>1, UploadArrives
<1>5. ~(answers[c][n] = Continue(c) /\ Joins(c) /\ (FirstSent(c) \/ SecondSent(c)))
  <2>1. SUFFICES ASSUME answers[c][n] = Continue(c), Joins(c), FirstSent(c) \/ SecondSent(c) PROVE FALSE
    OBVIOUS
  <2>2. block1Sent[c] # None
    <3>1. /\ Item(Size(c), Asked(c)) \in BlockItem
          /\ Item(Size(c) + Size(c), Block(1, FALSE, Size(c))) \in BlockItem
      BY UploadTypes DEF Item, Block, BlockItem
    <3>2. QED  BY <2>1, <3>1, NotNone DEF FirstSent, SecondSent, Joins
  <2>3. QED  BY <1>1, <2>1, <2>2, ReplyTypes DEF Continued
<1>6. CASE answers[c][n] = Changed /\ Complete(c)
  <2>1. /\ answers[c][n].code = "CHANGED" /\ answers[c][n].payload = <<>>
        /\ Content(c) \in Promise!Held
    BY <1>6, ReplyTypes DEF Complete, Written
  <2>2. \/ result' = result
        \/ result[c] = None /\ result' = [result EXCEPT ![c] = [code |-> "CHANGED", payload |-> <<>>]]
    BY <1>1, <2>1 DEF Deliver
  <2>3. result' = result \/ Promise!Return(c)  BY <1>2, <2>1, <2>2 DEF Promise!Return
  <2>4. Complete(c)'  BY <1>2, <1>6, ServerSame
  <2>5. result'[c] # None => result'[c].code = "CHANGED"
    <3>1. result[c] # None => result[c].code = "CHANGED"
      BY <1>6 DEF UploadInv, Complete, Refusal
    <3>2. result \in [Calls -> Outcome \cup {None}]  BY DEF TypeOK
    <3>3. QED  BY <2>2, <3>1, <3>2
  <2>6. (NotCalled(c) \/ FirstSent(c) \/ SecondSent(c) \/ Stuck(c))'  BY <1>3 DEF UploadInv
  <2>7. QED  BY <2>3, <2>4, <2>5, <2>6 DEF UploadInv
<1>7. CASE answers[c][n] = Incomplete /\ Refusal(c)
  <2>1. answers[c][n].code = "INCOMPLETE" /\ answers[c][n].payload = <<>>
    BY <1>7, ReplyTypes
  <2>2. \/ result' = result
        \/ result[c] = None /\ result' = [result EXCEPT ![c] = [code |-> "INCOMPLETE", payload |-> <<>>]]
    BY <1>1, <2>1 DEF Deliver
  <2>3. result' = result \/ Promise!Return(c)  BY <1>2, <2>2 DEF Promise!Return
  <2>4. Refusal(c)'  BY <1>2, <1>7, ServerSame
  <2>5. result'[c] # None => result'[c].code = "INCOMPLETE"
    <3>1. result[c] # None => result[c].code = "INCOMPLETE"
      BY <1>7 DEF UploadInv, Complete, Refusal
    <3>2. result \in [Calls -> Outcome \cup {None}]  BY DEF TypeOK
    <3>3. QED  BY <2>2, <3>1, <3>2
  <2>6. (NotCalled(c) \/ FirstSent(c) \/ SecondSent(c) \/ Stuck(c))'  BY <1>3 DEF UploadInv
  <2>7. ~SecondSent(c)' /\ ~Stuck(c)'  BY <1>3, <1>7 DEF Refusal, Refuses, Joins, SecondSent
  <2>8. QED  BY <2>3, <2>4, <2>5, <2>6, <2>7 DEF UploadInv
<1>8. QED  BY <1>4, <1>5, <1>6, <1>7

\* A copy of the response to the first block, after the second was sent.
LEMMA UploadLate ==
  ASSUME TypeOK, NEW c \in Calls, c.op = "PUT", UploadInv(c), NEW n \in 1..MaxSent, ReceiveLateBlock1(c, n)
  PROVE  UploadInv(c)' /\ result' = result
<1>1. /\ Arrives(c, n) /\ Continued(c, n) /\ ~block1Sent[c].m
      /\ request' = [request EXCEPT ![c].block1 = None] /\ UNCHANGED <<lastMid, requests, block1Sent>>
      /\ Deliver(c, answers[c][n].code, answers[c][n].payload)
  BY DEF ReceiveLateBlock1
<1>2. /\ answers[c][n] = Continue(c) /\ Joins(c) /\ (Begun(c) \/ Complete(c))
      /\ FirstSent(c) \/ SecondSent(c)
  BY <1>1, UploadArrives, ReplyTypes DEF Continued
<1>3. SecondSent(c)
  <2>1. ~FirstSent(c)
    <3>1. Joins(c) /\ FirstSent(c) => block1Sent[c] = Item(Size(c), Asked(c)) /\ Asked(c).m
      BY DEF FirstSent, Joins
    <3>2. Item(Size(c), Asked(c)).m = Asked(c).m  BY DEF Item
    <3>3. QED  BY <1>1, <1>2, <3>1, <3>2
  <2>2. QED  BY <1>2, <2>1
<1>4. result' = result  BY <1>1, <1>2, ReplyTypes DEF Deliver
<1>5. request'[c] # None
  <2>1. request[c] \in Message  BY <1>1, ArrivesType
  <2>2. [request[c] EXCEPT !.block1 = None] \in Message  BY <2>1 DEF Message
  <2>3. request'[c] = [request[c] EXCEPT !.block1 = None]  BY <1>1 DEF TypeOK
  <2>4. QED  BY <2>2, <2>3, NotNone
<1>6. SecondSent(c)'  BY <1>1, <1>3, <1>5 DEF SecondSent
<1>7. UNCHANGED server  BY <1>1 DEF Arrives
<1>8. (Begun(c) \/ Complete(c))'  BY <1>2, <1>7, ServerSame
<1>9. result[c] # None => Complete(c) /\ result[c].code = "CHANGED"
  BY <1>2 DEF UploadInv, Refusal, Refuses, Joins
<1>10. QED  BY <1>4, <1>6, <1>7, <1>8, <1>9, ServerSame DEF UploadInv

\* The response to the first block: the second is sent, or the receiver dies.
LEMMA UploadBlock1 ==
  ASSUME TypeOK, UploadsFit, NEW c \in Calls, c.op = "PUT", UploadInv(c), NEW n \in 1..MaxSent,
         ReceiveBlock1(c, n)
  PROVE  UploadInv(c)' /\ result' = result
<1> DEFINE r == [FirstBlock(c) EXCEPT !.mid = 0, !.block1 = None, !.payload = Slice(Content(c), Size(c), Size(c))]
           s == [r EXCEPT !.block1 = Block(1, FALSE, Size(c))]
           next == [num |-> 1, byte |-> Size(c) + Size(c), size |-> Size(c),
                    m |-> c.length > Size(c) + Size(c)]
<1>1. Arrives(c, n) /\ Continued(c, n) /\ block1Sent[c].m  BY DEF ReceiveBlock1
<1>2. /\ answers[c][n] = Continue(c) /\ n = 1 /\ Joins(c) /\ (Begun(c) \/ Complete(c))
      /\ FirstSent(c) \/ SecondSent(c)
  BY <1>1, UploadArrives, ReplyTypes DEF Continued
<1>3. FirstSent(c)  BY <1>1, <1>2 DEF SecondSent, Item, Block
<1>4. /\ Size(c) \in Nat /\ Size(c) > 0 /\ Asked(c).size = Size(c) /\ Asked(c).num = 0
      /\ c.length \in Nat /\ Asked(c).m /\ Cut(c)
  BY <1>2, UploadTypes DEF Joins
<1>5. /\ request[c] = FirstBlock(c) /\ requests[c] = {FirstBlock(c)} /\ lastMid[c] = 1
      /\ block1Sent[c] = Item(Size(c), Asked(c))
  BY <1>3, <1>4 DEF FirstSent, FirstMessage
<1>6. /\ block1Sent[c].num = 0 /\ block1Sent[c].byte = Size(c) /\ block1Sent[c].size = Size(c)
      /\ answers[c][n].block1.num = 0 /\ answers[c][n].block1.size = Size(c)
  BY <1>2, <1>4, <1>5, ReplyTypes DEF Item
<1>7. /\ block1Sent' = [block1Sent EXCEPT ![c] = next] /\ UNCHANGED result
      /\ \/ ~next.m /\ Send(c, s)
         \/ next.m /\ request' = [request EXCEPT ![c] = r] /\ UNCHANGED <<lastMid, requests>>
  <2> DEFINE size == IF answers[c][n].block1.size < block1Sent[c].size THEN answers[c][n].block1.size ELSE block1Sent[c].size
             after == [num |-> block1Sent[c].num + 1, byte |-> block1Sent[c].byte + size, size |-> size,
                       m |-> c.length > block1Sent[c].byte + size]
             stripped == [request[c] EXCEPT !.mid = 0, !.block1 = None,
                                            !.payload = Slice(Content(c), block1Sent[c].byte, size)]
  <2>1. /\ block1Sent' = [block1Sent EXCEPT ![c] = after] /\ UNCHANGED result
        /\ \/ ~after.m /\ Send(c, [stripped EXCEPT !.block1 = Block(after.num, FALSE, size)])
           \/ after.m /\ request' = [request EXCEPT ![c] = stripped] /\ UNCHANGED <<lastMid, requests>>
    BY <1>6 DEF ReceiveBlock1
  <2>2. size = Size(c)  BY <1>6
  <2> HIDE DEF size
  <2>3. after = next  BY <1>6, <2>2
  <2>4. after.num = 1  BY <1>6
  <2>5. stripped = r  BY <1>5, <1>6, <2>2
  <2> HIDE DEF after, stripped, next, r
  <2>6. QED  BY <2>1, <2>2, <2>3, <2>4, <2>5
<1>8. UNCHANGED server  BY <1>1 DEF Arrives
<1>9. (Begun(c) \/ Complete(c))'  BY <1>2, <1>8, ServerSame
<1>10. result[c] # None => Complete(c) /\ result[c].code = "CHANGED"
  BY <1>2 DEF UploadInv, Refusal, Refuses, Joins
<1>11. FirstBlock(c) \in Message
  <2>1. request[c] # None  BY <1>1, ArrivesType
  <2>2. QED  BY <1>5, <2>1 DEF TypeOK
<1>12. r \in Message /\ r.mid = 0  BY <1>11, UploadTypes, StrippedType DEF SecondBlock
<1> DEFINE long == c.length > Size(c) + Size(c)
<1>13. next.m = long /\ (long => c.length > 2 * Size(c)) /\ (~long => c.length <= 2 * Size(c))
  BY <1>4
<1>14. ~long => next = Item(Size(c) + Size(c), Block(1, FALSE, Size(c)))
  <2>1. Item(Size(c) + Size(c), Block(1, FALSE, Size(c))) =
          [byte |-> Size(c) + Size(c), num |-> 1, m |-> FALSE, size |-> Size(c)]
    BY DEF Item, Block
  <2>2. CASE ~long
    <3>1. long = FALSE  BY <2>2
    <3>2. QED  BY <2>1, <3>1
  <2>3. QED  BY <2>2
<1> HIDE DEF long
<1>15. block1Sent'[c] = next  BY <1>7 DEF TypeOK
<1>16. SecondSent(c)' \/ Stuck(c)'
  <2>1. CASE ~next.m /\ Send(c, s)
    <3>2. s \in Message /\ s.mid = 0
      <4>1. Block(1, FALSE, Size(c)) \in BlockOption  BY <1>4 DEF Block, BlockOption
      <4> HIDE DEF r
      <4>2. QED  BY <1>12, <4>1 DEF Message
    <3>3. [s EXCEPT !.mid = lastMid[c] + 1] = SecondBlock(c)
      <4>1. r.block2 = None /\ r.payload = Slice(Content(c), Size(c), Size(c))
        BY <1>11 DEF Message, FirstBlock
      <4>2. s.block2 = None /\ s.payload = Slice(Content(c), Size(c), Size(c)) /\ s.block1 = Block(1, FALSE, Size(c))
        <5> HIDE DEF r
        <5>1. QED  BY <1>12, <4>1 DEF Message
      <4> HIDE DEF s
      <4>3. lastMid[c] + 1 = 2 /\ 2 \in 0..MaxSent
        <5>1. s.mid = 0 /\ s.mid <= lastMid[c]  BY <1>5, <3>2
        <5>2. lastMid[c] + 1 <= MaxSent  BY <2>1, <3>2, <5>1, SendEffect
        <5>3. MaxSent \in Nat  BY BoundsAssumption
        <5>4. QED  BY <1>5, <5>2, <5>3
      <4>4. QED  BY <3>2, <4>2, <4>3, SecondBlockMade
    <3> HIDE DEF s, next
    <3>4. s.mid <= lastMid[c]  BY <1>5, <3>2
    <3>5. Sends(c, SecondBlock(c)) /\ lastMid' = [lastMid EXCEPT ![c] = lastMid[c] + 1]
      BY <2>1, <3>2, <3>3, <3>4, SendEffect
    <3>6. request'[c] = SecondBlock(c) /\ SecondBlock(c) # None  BY <3>5, NotNone DEF Sends, TypeOK
    <3>7. requests'[c] = {FirstBlock(c), SecondBlock(c)}  BY <1>5, <3>5 DEF Sends, TypeOK
    <3>8. lastMid'[c] = 2  BY <1>5, <3>5 DEF TypeOK
    <3>9. c.length <= 2 * Size(c)  BY <1>13, <2>1
    <3>10. block1Sent'[c] = Item(Size(c) + Size(c), Block(1, FALSE, Size(c)))
      BY <1>15, <1>13, <1>14, <2>1
    <3>11. QED  BY <1>2, <3>6, <3>7, <3>8, <3>9, <3>10 DEF SecondSent
  <2>2. CASE next.m /\ request' = [request EXCEPT ![c] = r] /\ UNCHANGED <<lastMid, requests>>
    <3>0. lastMid'[c] = 1 /\ requests'[c] = {FirstBlock(c)}  BY <1>5, <2>2
    <3>1. c.length > 2 * Size(c)  BY <1>13, <2>2
    <3>2. c \notin Repeats
      <4>1. c \in Repeats => c.length <= 2 * Asked(c).size  BY <1>4 DEF UploadsFit
      <4>2. QED  BY <1>4, <3>1, <4>1
    <3>3. <<c, 1>> \in taken'  BY <1>1, <1>2, <3>2 DEF Arrives
    <3>4. next # None /\ next.num = 1
      <4>1. next \in BlockItem  BY <1>4 DEF BlockItem
      <4>2. QED  BY <4>1, NotNone
    <3> HIDE DEF r, next
    <3>5. request'[c] = r /\ r # None  BY <1>12, <2>2, NotNone DEF TypeOK
    <3>6. QED  BY <1>2, <1>15, <3>0, <3>1, <3>2, <3>3, <3>4, <3>5 DEF Stuck
  <2>3. QED  BY <1>7, <2>1, <2>2
<1>17. QED  BY <1>7, <1>8, <1>9, <1>10, <1>16, ServerSame DEF UploadInv

\* A response to an upload: the caller may be told that all was written, or nothing.
LEMMA UploadReceive ==
  ASSUME TypeOK, UploadsFit, NEW c \in Calls, c.op = "PUT", UploadInv(c), NEW n \in 1..MaxSent, Receive(c, n)
  PROVE  UploadInv(c)' /\ (result' = result \/ Promise!Return(c))
<1>1. CASE ReceiveLateBlock1(c, n)  BY <1>1, UploadLate
<1>2. CASE ReceiveBlock1(c, n)  BY <1>2, UploadBlock1
<1>3. CASE ReceiveBlock2(c, n)  BY <1>3, UploadArrives DEF ReceiveBlock2
<1>4. CASE ReceiveLastBlock2(c, n)  BY <1>4, UploadArrives DEF ReceiveLastBlock2
<1>5. CASE ReceiveWhole(c, n)  BY <1>5, UploadWhole
<1>6. QED  BY <1>1, <1>2, <1>3, <1>4, <1>5 DEF Receive

\* What a download is made of.
LEMMA DownloadTypes ==
  ASSUME TypeOK, NEW c \in Calls
  PROVE  /\ UnitOf(c) \in Nat /\ UnitOf(c) > 0 /\ FirstNum(c) \in Nat /\ c.block \in BlockOption \cup {None}
         /\ Have(c) \in Payload /\ Len(Have(c)) \in Nat /\ Current \in Payload /\ Len(Current) \in Nat
         /\ lastMid[c] \in Nat /\ MaxSent \in Nat /\ MaxPayload \in Nat /\ Current \in Promise!Held
<1>1. c.block \in BlockOption \cup {None} /\ MaxPayload \in Nat \ {0} /\ MaxSent \in Nat
  BY CallsAssumption, BoundsAssumption
<1>2. UnitOf(c) \in Nat /\ UnitOf(c) > 0 /\ FirstNum(c) \in Nat
  <2>1. CASE c.block = None  BY <1>1, <2>1 DEF UnitOf, FirstNum
  <2>2. CASE c.block # None
    <3>1. c.block \in BlockOption  BY <1>1, <2>2
    <3>2. c.block.size \in Nat \ {0} /\ c.block.num \in Nat  BY <3>1 DEF BlockOption
    <3>3. QED  BY <2>2, <3>2 DEF UnitOf, FirstNum
  <2>3. QED  BY <2>1, <2>2
<1>3. Have(c) \in Payload  BY EmptyType DEF Have, TypeOK, Download
<1>4. Len(Have(c)) \in Nat  BY <1>3, LenProperties DEF Payload
<1>5. Current \in Payload /\ Len(Current) \in Nat /\ Current \in Promise!Held
  BY CurrentType DEF Current
<1>6. lastMid[c] \in Nat  BY <1>1 DEF TypeOK
<1>7. QED  BY <1>1, <1>2, <1>3, <1>4, <1>5, <1>6

\* What a step on a download that has a result, or gets it, must keep.
Answering(c) ==
  /\ block1Sent[c] = None
  /\ request[c] # None /\ request[c].block1 = None
  /\ \A r \in requests[c] : r.block1 = None
  /\ \A n \in 1..MaxSent : answers[c][n] # None => answers[c][n].code = "CONTENT" /\ answers[c][n].block1 = None
  /\ result[c] # None => result[c].code = "CONTENT" /\ result[c].payload \in Promise!Held

\* DownloadInv of a call that has been made.
LEMMA DownloadSplit ==
  ASSUME NEW c \in Calls
  PROVE  request[c] # None =>
           (DownloadInv(c) <=> Answering(c) /\ (result[c] = None => Asks(c) /\ Has(c) /\ Cuts(c)))
BY DEF DownloadInv, Answering

\* The same of the next state.
LEMMA DownloadJoined ==
  ASSUME NEW c \in Calls, Answering(c)', result'[c] = None => Asks(c)' /\ Has(c)' /\ Cuts(c)'
  PROVE  DownloadInv(c)'
BY DEF DownloadInv, Answering

\* A request without Block1 keeps the messages so.
LEMMA SendsNoBlock1 ==
  ASSUME TypeOK, NEW c \in Calls, NEW r \in Message, r.mid <= lastMid[c], Send(c, r), r.block1 = None,
         \A q \in requests[c] : q.block1 = None
  PROVE  request'[c] # None /\ request'[c].block1 = None /\ \A q \in requests'[c] : q.block1 = None
<1>1. PICK m : Sends(c, m) /\ m.block1 = None
  <2>1. CASE r.mid # 0  BY <2>1, SendEffect
  <2>2. CASE r.mid = 0
    <3>1. Sends(c, [r EXCEPT !.mid = lastMid[c] + 1])  BY <2>2, SendEffect
    <3>2. [r EXCEPT !.mid = lastMid[c] + 1].block1 = None  BY DEF Message
    <3>3. QED  BY <3>1, <3>2
  <2>3. QED  BY <2>1, <2>2
<1>2. request'[c] = m /\ m # None  BY <1>1, NotNone DEF Sends, TypeOK
<1>3. requests'[c] = requests[c] \cup {m}  BY <1>1 DEF Sends, TypeOK
<1>4. QED  BY <1>1, <1>2, <1>3

\* The call of a download: the first message.
LEMMA DownloadCall ==
  ASSUME TypeOK, NEW c \in Calls, c.op = "GET", DownloadInv(c), Call(c)
  PROVE  DownloadInv(c)'
<1>1. request[c] = None /\ UNCHANGED <<result, server>>  BY DEF Call
<1>2. /\ result[c] = None /\ block2Sent[c] = None /\ block2Receive[c] = None
      /\ requests[c] = {} /\ lastMid[c] = 0 /\ block1Sent[c] = None
      /\ \A n \in 1..MaxSent : answers[c][n] = None
  BY <1>1 DEF DownloadInv
<1>3. Send(c, FirstRequest(c))  BY DEF Call, FirstRequest
<1>4. FirstRequest(c) \in Message /\ FirstRequest(c).mid = 0 /\ FirstRequest(c).mid <= lastMid[c]
  BY <1>2, FirstRequestType
<1>5. /\ Sends(c, [FirstRequest(c) EXCEPT !.mid = lastMid[c] + 1]) /\ lastMid[c] + 1 <= MaxSent
      /\ lastMid' = [lastMid EXCEPT ![c] = lastMid[c] + 1]
  BY <1>3, <1>4, SendEffect
<1>6. [FirstRequest(c) EXCEPT !.mid = lastMid[c] + 1] = Ask(c, 1)
  <2>1. lastMid[c] + 1 = 1  BY <1>2
  <2>2. ~Cut(c) /\ c.op # "PUT"  BY DEF Cut
  <2>3. FirstRequest(c) = [mid |-> 0, block1 |-> None, block2 |-> c.block, payload |-> <<>>]
    BY <2>2 DEF FirstRequest
  <2>4. Ask(c, 1) = [mid |-> 1, block1 |-> None, payload |-> <<>>, block2 |-> c.block]  BY DEF Ask
  <2>5. QED  BY <2>1, <2>3, <2>4
<1>7. request'[c] = Ask(c, 1) /\ Ask(c, 1) # None /\ requests'[c] = {Ask(c, 1)} /\ lastMid'[c] = 1
  <2>1. Sends(c, Ask(c, 1))  BY <1>5, <1>6
  <2>2. request'[c] = Ask(c, 1) /\ Ask(c, 1) # None  BY <2>1, NotNone DEF Sends, TypeOK
  <2>3. requests'[c] = requests[c] \cup {Ask(c, 1)}  BY <2>1 DEF Sends, TypeOK
  <2>4. lastMid'[c] = 1  BY <1>2, <1>5 DEF TypeOK
  <2>5. QED  BY <1>2, <2>2, <2>3, <2>4
<1>8. block1Sent'[c] = None  BY <1>2 DEF Call, Cut
<1>9. block2Sent'[c] = IF c.block = None THEN None
                       ELSE [num |-> c.block.num, payload |-> <<>>, typed |-> FALSE]
  BY <1>2 DEF Call, TypeOK
<1>10. Ask(c, 1).block1 = None  BY DEF Ask
<1>11. 1 \in 1..MaxSent /\ 1 \in 1..1
  BY <1>2, <1>5, BoundsAssumption
<1>12. Answering(c)'
  <2>1. \A n \in 1..MaxSent : answers'[c][n] = None  BY <1>1, <1>2 DEF server
  <2>2. result'[c] = None  BY <1>1, <1>2
  <2>3. QED  BY <1>7, <1>8, <1>10, <2>1, <2>2 DEF Answering
<1>13. Asks(c)'  BY <1>7, <1>11 DEF Asks
<1>14. Has(c)'
  <2>1. Have(c)' = <<>>
    <3>1. CASE c.block = None  BY <1>9, <3>1 DEF Have
    <3>2. CASE c.block # None
      <4>1. block2Sent'[c] = [num |-> c.block.num, payload |-> <<>>, typed |-> FALSE]  BY <1>9, <3>2
      <4>2. QED  BY <4>1 DEF Have
    <3>3. QED  BY <3>1, <3>2
  <2>2. Current' = Current  BY <1>1 DEF server, Current
  <2>3. Slice(Current, 0, 0) = <<>>
    <3>1. Current \in Seq((Calls \cup {None}) \X Nat)  BY DownloadTypes DEF Payload
    <3>2. 0 \in Nat /\ 0 <= Len(Current) /\ 0 + 0 = 0  BY DownloadTypes
    <3>3. Slice(Current, 0, 0) \in Seq((Calls \cup {None}) \X Nat) /\ Len(Slice(Current, 0, 0)) = 0
      BY <3>1, <3>2, SliceProperties
    <3>4. QED  BY <3>3, EmptySeq
  <2>4. Have(c)' = Slice(Current, 0, Len(Have(c)))'
    <3>1. Len(<<>>) = 0  OBVIOUS
    <3>2. QED  BY <2>1, <2>2, <2>3, <3>1
  <2>5. QED  BY <1>7, <1>9, <2>4 DEF Has
<1>15. Cuts(c)'
  <2>1. \A n \in 1..MaxSent : answers'[c][n] = None  BY <1>1, <1>2 DEF server
  <2>2. block2Receive'[c] = None  BY <1>1, <1>2 DEF server
  <2>3. \A n \in 1..MaxSent : ~(n < 1)  OBVIOUS
  <2>4. QED  BY <1>7, <1>11, <2>1, <2>2, <2>3 DEF Cuts
<1>16. QED  BY <1>12, <1>13, <1>14, <1>15, DownloadJoined

-----------------------------------------------------------------------------
(* Responses to downloads.                                                 *)

\* A response that comes again, or is refused, has the last message sent again.
LEMMA DownloadAgain ==
  ASSUME TypeOK, NEW c \in Calls, DownloadInv(c), NEW n \in 1..MaxSent, Arrives(c, n), Again(c)
  PROVE  DownloadInv(c)' /\ result' = result
<1>1. /\ request[c] \in Message /\ request[c] # None /\ request[c].mid <= lastMid[c] /\ lastMid[c] \in Nat
      /\ UNCHANGED server
  BY ArrivesType DEF server
<1>2. Answering(c)  BY <1>1, DownloadSplit
<1>3. Send(c, request[c]) /\ UNCHANGED <<block1Sent, block2Sent, result>>  BY DEF Again
<1>4. request'[c] # None /\ request'[c].block1 = None /\ \A q \in requests'[c] : q.block1 = None
  BY <1>1, <1>2, <1>3, SendsNoBlock1 DEF Answering
<1>5. Promise!Held' = Promise!Held  BY <1>1 DEF server, Promise!Held
<1>6. Answering(c)'  BY <1>1, <1>2, <1>3, <1>4, <1>5 DEF Answering, server
<1>7. ASSUME result'[c] = None PROVE Asks(c)' /\ Has(c)' /\ Cuts(c)'
  <2>1. Asks(c) /\ Has(c) /\ Cuts(c)  BY <1>1, <1>3, <1>7, DownloadSplit
  <2>2. request[c] = Ask(c, lastMid[c]) /\ request[c] \in requests[c] /\ lastMid[c] \in 1..MaxSent
    BY <2>1 DEF Asks
  <2>3. request[c].mid = lastMid[c]  BY <2>2 DEF Ask
  <2>4. request[c].mid # 0  BY <2>2, <2>3
  <2>5. Sends(c, request[c]) /\ lastMid' = lastMid  BY <1>1, <1>3, <2>4, SendEffect
  <2>6. request'[c] = request[c] /\ requests'[c] = requests[c]  BY <2>2, <2>5 DEF Sends, TypeOK
  <2>7. SameCall(c)  BY <1>1, <1>3, <2>5, <2>6 DEF SameCall, server
  <2>8. Current' = Current  BY <1>1 DEF server, Current
  <2>9. DownloadInv(c)'  BY <1>5, <2>7, <2>8, DownloadFrame
  <2>10. QED  BY <1>4, <1>7, <2>9 DEF DownloadInv
<1>8. QED  BY <1>3, <1>6, <1>7, DownloadJoined

\* The download ends with what the resource has, or had ended before.
LEMMA DownloadEnds ==
  ASSUME TypeOK, NEW c \in Calls, c.op = "GET", DownloadInv(c), NEW n \in 1..MaxSent, Arrives(c, n),
         NEW p, Deliver(c, "CONTENT", p), p = Current \/ result[c] # None,
         UNCHANGED <<request, lastMid, requests, block1Sent>>
  PROVE  DownloadInv(c)' /\ (result' = result \/ Promise!Return(c))
<1>1. request[c] # None /\ UNCHANGED server  BY ArrivesType DEF server
<1>2. Answering(c)  BY <1>1, DownloadSplit
<1>3. Promise!Held' = Promise!Held /\ Current \in Promise!Held /\ written' = written
  BY <1>1, CurrentType DEF server, Promise!Held, Current
<1>4. result \in [Calls -> Outcome \cup {None}]  BY DEF TypeOK
<1>5. CASE result[c] # None
  <2>1. result' = result  BY <1>5 DEF Deliver
  <2>2. Answering(c)'  BY <1>1, <1>2, <1>3, <2>1 DEF Answering, server
  <2>3. QED  BY <1>5, <2>1, <2>2, DownloadJoined
<1>6. CASE result[c] = None
  <2>1. result' = [result EXCEPT ![c] = [code |-> "CONTENT", payload |-> Current]]
    BY <1>6 DEF Deliver
  <2>2. Promise!Return(c)  BY <1>3, <1>6, <2>1 DEF Promise!Return
  <2>3. result'[c] = [code |-> "CONTENT", payload |-> Current]  BY <1>4, <2>1
  <2>4. [code |-> "CONTENT", payload |-> Current] # None
    <3>1. [code |-> "CONTENT", payload |-> Current] \in Outcome  BY DownloadTypes DEF Outcome
    <3>2. QED  BY <3>1, NotNone
  <2>5. Answering(c)'  BY <1>1, <1>2, <1>3, <2>3 DEF Answering, server
  <2>6. QED  BY <2>2, <2>3, <2>4, <2>5, DownloadJoined
<1>7. QED  BY <1>5, <1>6

\* What arrives while there is no result: the answer to an earlier message, which has
\* a block with an earlier number, or the part that is due.
LEMMA DownloadArrives ==
  ASSUME TypeOK, NEW c \in Calls, DownloadInv(c), NEW n \in 1..MaxSent, Arrives(c, n), result[c] = None
  PROVE  /\ Asks(c) /\ Has(c) /\ Cuts(c)
         /\ \/ /\ n < lastMid[c] /\ Cutting(c, n) /\ answers[c][n].block2.m
               /\ answers[c][n].block2.num = FirstNum(c) + n - 1 /\ block2Sent[c] # None
               /\ block2Sent[c].num = FirstNum(c) + lastMid[c] - 1
            \/ n = lastMid[c] /\ answers[c][n] = Part(c)
<1>1. request[c] # None /\ answers[c][n] # None /\ n <= lastMid[c] /\ lastMid[c] \in Nat
  BY ArrivesType
<1>2. Asks(c) /\ Has(c) /\ Cuts(c)  BY <1>1, DownloadSplit
<1>3. CASE n = lastMid[c]
  BY <1>1, <1>2, <1>3 DEF Cuts
<1>4. CASE n < lastMid[c]
  <2>1. /\ answers[c][n].block2 # None /\ answers[c][n].block2.m
        /\ answers[c][n].block2.num = FirstNum(c) + n - 1
    BY <1>2, <1>4 DEF Cuts
  <2>2. block1Sent[c] = None  BY DEF DownloadInv
  <2>3. Cutting(c, n)  BY <2>1, <2>2 DEF Cutting, Continued
  <2>4. lastMid[c] # 1  BY <1>1, <1>4
  <2>5. block2Sent[c] # None /\ block2Sent[c].num = FirstNum(c) + lastMid[c] - 1
    BY <1>2, <2>4 DEF Has
  <2>6. QED  BY <1>2, <1>4, <2>1, <2>3, <2>5
<1>5. QED  BY <1>1, <1>3, <1>4

\* The part that is due.
LEMMA PartProperties ==
  ASSUME TypeOK, NEW c \in Calls, Asks(c)
  PROVE  /\ Part(c).code = "CONTENT" /\ Part(c).block1 = None
         /\ InOnePiece(c) => Part(c).block2 = None /\ Part(c).payload = Current
         /\ ~InOnePiece(c) =>
              /\ Part(c).block2 \in BlockOption /\ Part(c).block2 # None
              /\ Part(c).block2.num = FirstNum(c) + lastMid[c] - 1
              /\ Part(c).block2.m = More(c) /\ Part(c).block2.size = UnitOf(c)
              /\ Part(c).payload = Slice(Current, Len(Have(c)), UnitOf(c))
<1>1. CASE InOnePiece(c)  BY <1>1 DEF Part
<1>2. CASE ~InOnePiece(c)
  <2> DEFINE b == Block(FirstNum(c) + lastMid[c] - 1, More(c), UnitOf(c))
  <2>1. FirstNum(c) + lastMid[c] - 1 \in Nat /\ UnitOf(c) \in Nat \ {0}  BY DownloadTypes DEF Asks
  <2>2. More(c) \in BOOLEAN  BY DEF More
  <2>3. b \in BlockOption  BY <2>1, <2>2 DEF Block, BlockOption
  <2>4. b # None  BY <2>3, NotNone
  <2>5. b.num = FirstNum(c) + lastMid[c] - 1 /\ b.m = More(c) /\ b.size = UnitOf(c)  BY DEF Block
  <2> HIDE DEF b
  <2>6. Part(c) = [code |-> "CONTENT", block1 |-> None, block2 |-> b,
                   payload |-> Slice(Current, Len(Have(c)), UnitOf(c))]
    BY <1>2 DEF Part, b
  <2>7. QED  BY <1>2, <2>3, <2>4, <2>5, <2>6
<1>3. QED  BY <1>1, <1>2

\* What the client has and the part that is due are the payload up to its end.
LEMMA PartExtends ==
  ASSUME TypeOK, NEW c \in Calls, Asks(c), Has(c), ~InOnePiece(c)
  PROVE  /\ Have(c) \o Part(c).payload = Slice(Current, 0, Len(Have(c)) + UnitOf(c))
         /\ More(c) => Len(Slice(Current, 0, Len(Have(c)) + UnitOf(c))) = Len(Have(c)) + UnitOf(c)
         /\ ~More(c) => Slice(Current, 0, Len(Have(c)) + UnitOf(c)) = Current
<1> DEFINE S == (Calls \cup {None}) \X Nat
           p == Current
           b == Len(Have(c))
           n == UnitOf(c)
<1>1. p \in Seq(S) /\ Len(p) \in Nat /\ b \in Nat /\ n \in Nat /\ b + n \in Nat
  BY DownloadTypes DEF Payload
<1>2. Have(c) = Slice(p, 0, b)  BY DEF Has
<1>3. Part(c).payload = Slice(p, b, n)  BY PartProperties
<1>4. (More(c) => Len(p) > b + n) /\ (~More(c) => Len(p) <= b + n)  BY <1>1 DEF More
<1>5. b <= Len(p)
  <2>1. b = Len(Slice(p, 0, b))  BY <1>2
  <2> HIDE DEF p, b, S
  <2>2. Len(Slice(p, 0, b)) = IF b <= Len(p) THEN b ELSE Len(p)  BY <1>1, PrefixProperties
  <2>3. QED  BY <1>1, <2>1, <2>2
<1> HIDE DEF p, b, n, S
<1>6. Slice(p, 0, b) \o Slice(p, b, n) = Slice(p, 0, b + n)  BY <1>1, <1>5, SlicesJoin
<1>7. ASSUME More(c) PROVE Len(Slice(p, 0, b + n)) = b + n
  <2>1. b + n <= Len(p)  BY <1>1, <1>4, <1>7
  <2>2. QED  BY <1>1, <2>1, PrefixProperties
<1>8. ASSUME ~More(c) PROVE Slice(p, 0, b + n) = p
  BY <1>1, <1>4, <1>8, SliceIsWhole
<1>9. Have(c) \o Part(c).payload = Slice(p, 0, b + n)  BY <1>2, <1>3, <1>6
<1>10. QED  BY <1>7, <1>8, <1>9 DEF p, b, n

\* A block that others follow, when it is due: the next is asked for.
LEMMA DownloadNext ==
  ASSUME TypeOK, NEW c \in Calls, c.op = "GET", DownloadInv(c), result[c] = None, NEW n \in 1..MaxSent,
         Arrives(c, n), n = lastMid[c], answers[c][n] = Part(c), ~InOnePiece(c), More(c),
         NEW before, before = Have(c),
         block2Sent' = [block2Sent EXCEPT ![c] =
           [num |-> answers[c][n].block2.num + 1, payload |-> before \o answers[c][n].payload, typed |-> TRUE]],
         Send(c, [request[c] EXCEPT !.mid = 0, !.block2 =
           Block(answers[c][n].block2.num + 1, FALSE, answers[c][n].block2.size)]),
         UNCHANGED <<block1Sent, result>>
  PROVE  DownloadInv(c)'
<1> DEFINE k == lastMid[c] + 1
           num == FirstNum(c) + lastMid[c] - 1
           b == Block(num + 1, FALSE, UnitOf(c))
           r == [request[c] EXCEPT !.mid = 0, !.block2 = b]
           full == Len(Have(c)) + UnitOf(c)
           got == Slice(Current, 0, full)
           item == [num |-> num + 1, payload |-> got, typed |-> TRUE]
<1>1. /\ request[c] # None /\ request[c] \in Message /\ lastMid[c] \in Nat /\ UNCHANGED server
      /\ answers[c][n] # None
  BY ArrivesType DEF server
<1>2. Answering(c) /\ Asks(c) /\ Has(c) /\ Cuts(c)  BY <1>1, DownloadSplit
<1>3. /\ FirstNum(c) \in Nat /\ UnitOf(c) \in Nat /\ UnitOf(c) > 0 /\ Len(Have(c)) \in Nat /\ num \in Nat
      /\ lastMid[c] \in 1..MaxSent /\ MaxSent \in Nat
  BY <1>2, DownloadTypes DEF Asks
<1>4. /\ Part(c).block2.num = num /\ Part(c).block2.size = UnitOf(c) /\ Part(c).block2.m
      /\ Part(c).block2 # None
  BY <1>2, PartProperties
<1>5. Have(c) \o Part(c).payload = got /\ Len(got) = full  BY <1>2, PartExtends
<1>6. block2Sent' = [block2Sent EXCEPT ![c] = item] /\ Send(c, r)
  BY <1>4, <1>5
<1>7. r \in Message /\ r.mid = 0 /\ r.block1 = None /\ r.payload = <<>> /\ r.block2 = b
  <2>1. b \in BlockOption  BY <1>3 DEF Block, BlockOption
  <2>2. r \in Message /\ r.mid = 0  BY <1>1, <2>1, RenewedType
  <2>3. request[c].block1 = None /\ request[c].payload = <<>>  BY <1>2 DEF Asks, Ask
  <2> HIDE DEF b
  <2>4. r.block1 = request[c].block1 /\ r.payload = request[c].payload /\ r.block2 = b
    BY <1>1 DEF Message
  <2>5. QED  BY <2>2, <2>3, <2>4
<1> HIDE DEF r
<1>8. request'[c] # None /\ request'[c].block1 = None /\ \A q \in requests'[c] : q.block1 = None
  BY <1>1, <1>2, <1>6, <1>7, SendsNoBlock1 DEF Answering
<1>9. Promise!Held' = Promise!Held /\ Current' = Current  BY <1>1 DEF server, Promise!Held, Current
<1>10. Answering(c)'  BY <1>1, <1>2, <1>8, <1>9 DEF Answering, server
<1>11. k <= MaxSent /\ Sends(c, [r EXCEPT !.mid = k]) /\ lastMid' = [lastMid EXCEPT ![c] = k]
  BY <1>1, <1>6, <1>7, SendEffect
<1>12. [r EXCEPT !.mid = k] = Ask(c, k)
  <2> DEFINE q == [r EXCEPT !.mid = k]
  <2>1. q \in Message  BY <1>11 DEF Sends
  <2>2. q.mid = k /\ q.block1 = None /\ q.payload = <<>> /\ q.block2 = b  BY <1>7 DEF Message
  <2> HIDE DEF q
  <2>3. q = [mid |-> k, block1 |-> None, block2 |-> b, payload |-> <<>>]  BY <2>1, <2>2, MessageFields
  <2>4. k # 1 /\ FirstNum(c) + k - 1 = num + 1  BY <1>3
  <2>5. Ask(c, k) = [mid |-> k, block1 |-> None, payload |-> <<>>, block2 |-> b]  BY <2>4 DEF Ask
  <2>6. QED  BY <2>3, <2>5 DEF q
<1>13. request'[c] = Ask(c, k)  BY <1>11, <1>12 DEF Sends, TypeOK
<1>14. requests'[c] = requests[c] \cup {Ask(c, k)}  BY <1>11, <1>12 DEF Sends, TypeOK
<1>15. lastMid'[c] = k /\ k \in 1..MaxSent  BY <1>3, <1>11 DEF TypeOK
<1>16. Asks(c)'
  <2>1. ASSUME NEW q \in requests'[c] PROVE \E i \in 1..k : q = Ask(c, i)
    <3>1. CASE q \in requests[c]
      <4>1. PICK i \in 1..lastMid[c] : q = Ask(c, i)  BY <1>2, <3>1 DEF Asks
      <4>2. i \in 1..k  BY <1>3
      <4>3. QED  BY <4>1, <4>2
    <3>2. CASE q = Ask(c, k)
      <4>1. k \in 1..k  BY <1>3
      <4>2. QED  BY <3>2, <4>1
    <3>3. QED  BY <1>14, <3>1, <3>2
  <2> HIDE DEF k
  <2>2. QED  BY <1>13, <1>14, <1>15, <2>1 DEF Asks
<1>17. block2Sent'[c] = item /\ item # None
  <2>1. got \in Payload
    <3>1. full \in Nat /\ 0 \in Nat  BY <1>3
    <3> HIDE DEF full
    <3>2. QED  BY <3>1, SliceType, DownloadTypes
  <2>2. item \in Download
    <3> HIDE DEF got
    <3>1. num + 1 \in Nat  BY <1>3
    <3>2. QED  BY <2>1, <3>1 DEF Download
  <2> HIDE DEF item
  <2>3. QED  BY <1>6, <2>2, NotNone DEF TypeOK
<1>18. Have(c)' = got /\ Len(got) = full
  <2>1. item.payload = got  OBVIOUS
  <2> HIDE DEF item, got
  <2>2. QED  BY <1>5, <1>17, <2>1 DEF Have
<1>19. Has(c)'
  <2>1. Have(c)' = Slice(Current, 0, Len(Have(c)))'
    <3> HIDE DEF full
    <3>1. QED  BY <1>9, <1>18
  <2>2. full < Len(Current)  BY <1>3, DownloadTypes DEF More
  <2>3. k # 1 /\ num + 1 = FirstNum(c) + k - 1  BY <1>3
  <2>4. item.typed /\ item.num = num + 1  OBVIOUS
  <2>5. block2Sent'[c] # None /\ block2Sent'[c].typed /\ block2Sent'[c].num = FirstNum(c) + lastMid'[c] - 1
        /\ lastMid'[c] # 1
    BY <1>15, <1>17, <2>3, <2>4
  <2>6. Len(Have(c)') < Len(Current)  BY <1>18, <2>2
  <2> HIDE DEF item, got, full, k, num
  <2>7. QED  BY <1>9, <2>1, <2>5, <2>6 DEF Has
<1>20. Cuts(c)'
  <2>1. ~InOnePiece(c)'  BY <1>9 DEF InOnePiece
  <2>2. ASSUME NEW i \in 1..MaxSent, i < k
        PROVE  /\ answers'[c][i] # None /\ answers'[c][i].block2 # None
               /\ answers'[c][i].block2.m /\ answers'[c][i].block2.num = FirstNum(c) + i - 1
    <3>1. CASE i = lastMid[c]  BY <1>1, <1>4, <3>1 DEF server
    <3>2. CASE i < lastMid[c]  BY <1>1, <1>2, <3>2 DEF server, Cuts
    <3>3. QED  BY <1>3, <2>2, <3>1, <3>2
  <2>3. ASSUME NEW i \in 1..MaxSent, i >= k PROVE answers'[c][i] = None
    <3>1. i > lastMid[c]  BY <1>3, <2>3
    <3>2. QED  BY <1>1, <1>2, <3>1 DEF server, Cuts
  <2>4. answers'[c][k] = None
    <3>1. k >= k  BY <1>3
    <3>2. QED  BY <1>15, <2>3, <3>1
  <2>5. At(c, Len(Have(c)))'
    <3>1. At(c, full)  BY <1>1, <1>2 DEF Cuts
    <3>2. At(c, Len(Have(c)))' = At(c, full)  BY <1>1, <1>18 DEF At, server
    <3>3. QED  BY <3>1, <3>2
  <2>6. k # 1  BY <1>3
  <2>7. \A i \in 1..MaxSent : i > k => answers'[c][i] = None
    <3>1. \A i \in 1..MaxSent : i > k => i >= k  BY <1>3
    <3>2. QED  BY <2>3, <3>1
  <2> HIDE DEF k
  <2>8. QED  BY <1>15, <2>1, <2>2, <2>4, <2>5, <2>6, <2>7 DEF Cuts
<1>21. QED  BY <1>10, <1>16, <1>19, <1>20, DownloadJoined

\* ReceiveBlock2: a block out of its turn, or the next one.
LEMMA DownloadBlock2 ==
  ASSUME TypeOK, NEW c \in Calls, c.op = "GET", DownloadInv(c), NEW n \in 1..MaxSent, ReceiveBlock2(c, n)
  PROVE  DownloadInv(c)' /\ result' = result
<1> DEFINE before == IF block2Sent[c] = None THEN <<>> ELSE block2Sent[c].payload
           block == answers[c][n].block2
           r == [request[c] EXCEPT !.mid = 0, !.block2 = Block(block.num + 1, FALSE, block.size)]
           item == [num |-> block.num + 1, payload |-> before \o answers[c][n].payload, typed |-> TRUE]
<1>1. Arrives(c, n) /\ Cutting(c, n) /\ block.m  BY DEF ReceiveBlock2
<1>2. CASE Again(c) /\ ~Expected(c, block)  BY <1>1, <1>2, DownloadAgain
<1>3. CASE /\ Expected(c, block) /\ block2Sent' = [block2Sent EXCEPT ![c] = item] /\ Send(c, r)
           /\ UNCHANGED <<block1Sent, result>>
  <2>1. /\ request[c] \in Message /\ request[c] # None /\ request[c].mid <= lastMid[c] /\ lastMid[c] \in Nat
        /\ UNCHANGED server /\ answers[c][n] \in Response
    BY <1>1, ArrivesType DEF server
  <2>2. Answering(c)  BY <2>1, DownloadSplit
  <2>3. CASE result[c] # None
    <3>1. r \in Message /\ r.mid = 0 /\ r.block1 = None
      <4>1. Block(block.num + 1, FALSE, block.size) \in BlockOption
        <5>1. block \in BlockOption  BY <1>1, <2>1 DEF Cutting, Response
        <5>2. block.num + 1 \in Nat /\ block.size \in Nat \ {0}  BY <5>1 DEF BlockOption
        <5> HIDE DEF block
        <5>3. QED  BY <5>2 DEF Block, BlockOption
      <4>2. r \in Message /\ r.mid = 0  BY <2>1, <4>1, RenewedType
      <4>3. r.block1 = request[c].block1  BY <2>1 DEF Message
      <4>4. QED  BY <2>2, <4>2, <4>3 DEF Answering
    <3> HIDE DEF r
    <3>2. request'[c] # None /\ request'[c].block1 = None /\ \A q \in requests'[c] : q.block1 = None
      BY <1>3, <2>1, <2>2, <3>1, SendsNoBlock1 DEF Answering
    <3>3. Answering(c)'  BY <1>3, <2>1, <2>2, <3>2 DEF Answering, server, Promise!Held
    <3>4. QED  BY <1>3, <2>3, <3>3, DownloadJoined
  <2>4. CASE result[c] = None
    <3>1. /\ Asks(c) /\ Has(c) /\ Cuts(c)
          /\ \/ /\ n < lastMid[c] /\ block.num = FirstNum(c) + n - 1 /\ block2Sent[c] # None
                /\ block2Sent[c].num = FirstNum(c) + lastMid[c] - 1
             \/ n = lastMid[c] /\ answers[c][n] = Part(c)
      BY <1>1, <2>4, DownloadArrives
    <3>2. n = lastMid[c] /\ answers[c][n] = Part(c)
      <4>1. ASSUME n < lastMid[c], block.num = FirstNum(c) + n - 1, block2Sent[c] # None,
                   block2Sent[c].num = FirstNum(c) + lastMid[c] - 1
            PROVE  FALSE
        <5>1. block.num = block2Sent[c].num  BY <1>3, <4>1 DEF Expected
        <5>2. FirstNum(c) \in Nat /\ n \in Nat  BY DownloadTypes
        <5>3. QED  BY <2>1, <4>1, <5>1, <5>2
      <4>2. QED  BY <3>1, <4>1
    <3>3. ~InOnePiece(c) /\ More(c)
      <4>1. ~InOnePiece(c)  BY <1>1, <3>1, <3>2, PartProperties DEF Cutting
      <4>2. More(c)  BY <1>1, <3>1, <3>2, <4>1, PartProperties
      <4>3. QED  BY <4>1, <4>2
    <3>4. before = Have(c)  BY DEF Have
    <3> HIDE DEF before
    <3>5. DownloadInv(c)'  BY <1>1, <1>3, <2>4, <3>2, <3>3, <3>4, DownloadNext
    <3>6. QED  BY <1>3, <3>5
  <2>5. QED  BY <1>3, <2>3, <2>4
<1>4. QED  BY <1>2, <1>3 DEF ReceiveBlock2

\* ReceiveLastBlock2: the payload is whole.
LEMMA DownloadLastBlock2 ==
  ASSUME TypeOK, NEW c \in Calls, c.op = "GET", DownloadInv(c), NEW n \in 1..MaxSent, ReceiveLastBlock2(c, n)
  PROVE  DownloadInv(c)' /\ (result' = result \/ Promise!Return(c))
<1> DEFINE p == (IF block2Sent[c] = None THEN <<>> ELSE block2Sent[c].payload) \o answers[c][n].payload
<1>1. Arrives(c, n) /\ Cutting(c, n) /\ ~answers[c][n].block2.m  BY DEF ReceiveLastBlock2
<1>2. CASE Again(c)  BY <1>1, <1>2, DownloadAgain
<1>3. CASE ~Again(c)
  <2>1. /\ Deliver(c, answers[c][n].code, p) /\ UNCHANGED <<request, lastMid, requests, block1Sent>>
        /\ block2Sent[c] # None => block2Sent[c].typed
    BY <1>3 DEF ReceiveLastBlock2
  <2>2. answers[c][n].code = "CONTENT"  BY <1>1 DEF Arrives, DownloadInv
  <2>3. p = Current \/ result[c] # None
    <3>1. SUFFICES ASSUME result[c] = None PROVE p = Current
      OBVIOUS
    <3>2. /\ Asks(c) /\ Has(c) /\ n = lastMid[c] /\ answers[c][n] = Part(c)
      BY <1>1, <3>1, DownloadArrives
    <3>3. ~InOnePiece(c) /\ ~More(c)
      <4>1. ~InOnePiece(c)  BY <1>1, <3>2, PartProperties DEF Cutting
      <4>2. ~More(c)  BY <1>1, <3>2, <4>1, PartProperties
      <4>3. QED  BY <4>1, <4>2
    <3>4. p = Have(c) \o Part(c).payload  BY <3>2 DEF Have
    <3> HIDE DEF p
    <3>5. QED  BY <3>2, <3>3, <3>4, PartExtends
  <2> HIDE DEF p
  <2>4. QED  BY <1>1, <2>1, <2>2, <2>3, DownloadEnds
<1>4. QED  BY <1>2, <1>3

\* ReceiveWhole: it was whole at once.
LEMMA DownloadWhole ==
  ASSUME TypeOK, NEW c \in Calls, c.op = "GET", DownloadInv(c), NEW n \in 1..MaxSent, ReceiveWhole(c, n)
  PROVE  DownloadInv(c)' /\ (result' = result \/ Promise!Return(c))
<1> DEFINE p == answers[c][n].payload
<1>1. /\ Arrives(c, n) /\ ~Continued(c, n) /\ ~Cutting(c, n) /\ Deliver(c, answers[c][n].code, p)
      /\ UNCHANGED <<request, lastMid, requests, block1Sent>>
  BY DEF ReceiveWhole
<1>2. answers[c][n].code = "CONTENT"  BY <1>1 DEF Arrives, DownloadInv
<1>3. p = Current \/ result[c] # None
  <2>1. SUFFICES ASSUME result[c] = None PROVE p = Current
    OBVIOUS
  <2>2. Asks(c) /\ answers[c][n] = Part(c)  BY <1>1, <2>1, DownloadArrives
  <2>3. InOnePiece(c)  BY <1>1, <2>2, PartProperties DEF Cutting
  <2>4. QED  BY <2>2, <2>3, PartProperties
<1> HIDE DEF p
<1>4. QED  BY <1>1, <1>2, <1>3, DownloadEnds

\* A response to a download: the caller may be given what the resource has.
LEMMA DownloadReceive ==
  ASSUME TypeOK, NEW c \in Calls, c.op = "GET", DownloadInv(c), NEW n \in 1..MaxSent, Receive(c, n)
  PROVE  DownloadInv(c)' /\ (result' = result \/ Promise!Return(c))
<1>1. block1Sent[c] = None  BY DEF DownloadInv
<1>2. ~ReceiveLateBlock1(c, n) /\ ~ReceiveBlock1(c, n)
  BY <1>1 DEF ReceiveLateBlock1, ReceiveBlock1, Continued
<1>3. CASE ReceiveBlock2(c, n)  BY <1>3, DownloadBlock2
<1>4. CASE ReceiveLastBlock2(c, n)  BY <1>4, DownloadLastBlock2
<1>5. CASE ReceiveWhole(c, n)  BY <1>5, DownloadWhole
<1>6. QED  BY <1>2, <1>3, <1>4, <1>5 DEF Receive

-----------------------------------------------------------------------------
(* The server's step on downloads.                                         *)

\* The BlockItem with which the server cuts the part that is due.
LEMMA DownloadItem ==
  ASSUME TypeOK, NEW c \in Calls, Asks(c), Has(c), Cuts(c), NEW m, New(c, m)
  PROVE  /\ m.mid = lastMid[c]
         /\ InOnePiece(c) => Negotiated(c, m) = None
         /\ ~InOnePiece(c) =>
              /\ Negotiated(c, m) # None \/ Len(Current) > MaxPayload
              /\ (IF Negotiated(c, m) # None THEN Negotiated(c, m) ELSE Item(0, Block(0, TRUE, MaxPayload)))
                   \in BlockItem
              /\ \E x \in BOOLEAN :
                   (IF Negotiated(c, m) # None THEN Negotiated(c, m) ELSE Item(0, Block(0, TRUE, MaxPayload)))
                     = [byte |-> Len(Have(c)), num |-> FirstNum(c) + lastMid[c] - 1, m |-> x,
                        size |-> UnitOf(c)]
<1> DEFINE asked == Negotiated(c, m)
           item == IF asked # None THEN asked ELSE Item(0, Block(0, TRUE, MaxPayload))
           due(x) == [byte |-> Len(Have(c)), num |-> FirstNum(c) + lastMid[c] - 1, m |-> x, size |-> UnitOf(c)]
<1>1. /\ UnitOf(c) \in Nat /\ UnitOf(c) > 0 /\ FirstNum(c) \in Nat /\ Len(Have(c)) \in Nat
      /\ lastMid[c] \in Nat /\ lastMid[c] \in 1..MaxSent /\ MaxPayload \in Nat /\ Len(Current) \in Nat
  BY DownloadTypes DEF Asks
<1>2. PICK k \in 1..lastMid[c] : m = Ask(c, k)  BY DEF New, Asks
<1>3. m.mid = k /\ k \in 1..MaxSent
  <2>1. m.mid = k  BY <1>2 DEF Ask
  <2>2. MaxSent \in Nat  BY BoundsAssumption
  <2>3. QED  BY <1>1, <2>1, <2>2
<1>4. k = lastMid[c]
  <2>1. answers[c][k] = None  BY <1>3 DEF New
  <2>2. ~(k < lastMid[c])  BY <1>3, <2>1 DEF Cuts
  <2>3. QED  BY <1>1, <1>2, <2>2
<1>5. answers[c][lastMid[c]] = None  BY <1>3, <1>4 DEF New
<1>6. IF lastMid[c] = 1 THEN block2Receive[c] = None ELSE At(c, Len(Have(c)))
  <2>1. Part(c) # None
    <3>1. Part(c).code = "CONTENT"  BY PartProperties
    <3>2. Part(c) \in Response
      <4>1. CASE InOnePiece(c)  BY <4>1, DownloadTypes DEF Part, Response
      <4>2. CASE ~InOnePiece(c)
        <5>1. Part(c).block2 \in BlockOption  BY <4>2, PartProperties
        <5>2. Slice(Current, Len(Have(c)), UnitOf(c)) \in Payload  BY <1>1, DownloadTypes, SliceType
        <5>3. Part(c) = [code |-> "CONTENT", block1 |-> None, block2 |-> Part(c).block2,
                         payload |-> Slice(Current, Len(Have(c)), UnitOf(c))]
          BY <4>2 DEF Part
        <5>4. QED  BY <5>1, <5>2, <5>3 DEF Response
      <4>3. QED  BY <4>1, <4>2
    <3>3. QED  BY <3>2, NotNone
  <2>2. QED  BY <1>5, <2>1 DEF Cuts
<1>7. CASE lastMid[c] = 1
  <2>1. m.block2 = c.block /\ block2Receive[c] = None  BY <1>2, <1>4, <1>6, <1>7 DEF Ask
  <2>2. FirstNum(c) + lastMid[c] - 1 = FirstNum(c)  BY <1>1, <1>7
  <2>3. Len(Have(c)) = 0
    <3>1. Have(c) = <<>>
      <4>1. CASE c.block = None  BY <1>7, <4>1 DEF Has, Have
      <4>2. CASE c.block # None
        <5>1. block2Sent[c] = [num |-> c.block.num, payload |-> <<>>, typed |-> FALSE]
          BY <1>7, <4>2 DEF Has
        <5>2. QED  BY <5>1 DEF Have
      <4>3. QED  BY <4>1, <4>2
    <3>2. QED  BY <3>1
  <2>4. CASE c.block = None
    <3>1. asked = None  BY <2>1, <2>4 DEF Negotiated
    <3>2. item = Item(0, Block(0, TRUE, MaxPayload))  BY <3>1
    <3>3. Item(0, Block(0, TRUE, MaxPayload)) = due(TRUE)
      BY <2>2, <2>3, <2>4 DEF Item, Block, FirstNum, UnitOf
    <3>4. item \in BlockItem
      <4>1. Block(0, TRUE, MaxPayload) \in BlockOption  BY BoundsAssumption DEF Block, BlockOption
      <4>2. 0 \in Nat  OBVIOUS
      <4>3. QED  BY <3>2, <4>1, <4>2, ItemType
    <3>5. ~InOnePiece(c) => Len(Current) > MaxPayload  BY <1>1, <2>4 DEF InOnePiece
    <3> HIDE DEF asked, item, due
    <3>6. item = due(TRUE)  BY <3>2, <3>3 DEF item
    <3>7. QED  BY <1>3, <1>4, <3>1, <3>4, <3>5, <3>6 DEF asked, item, due
  <2>5. CASE c.block # None
    <3>1. c.block \in BlockOption  BY <2>5, DownloadTypes
    <3>2. asked = Item(0, c.block)  BY <2>1, <2>5 DEF Negotiated
    <3>3. asked \in BlockItem /\ asked # None
      <4>1. 0 \in Nat  OBVIOUS
      <4>2. Item(0, c.block) \in BlockItem  BY <3>1, <4>1, ItemType
      <4>3. QED  BY <3>2, <4>2, NotNone
    <3>4. Item(0, c.block) = due(c.block.m)
      BY <2>2, <2>3, <2>5 DEF Item, FirstNum, UnitOf
    <3>5. ~InOnePiece(c)  BY <2>5 DEF InOnePiece
    <3>6. item = asked  BY <3>3
    <3>7. c.block.m \in BOOLEAN  BY <3>1 DEF BlockOption
    <3> HIDE DEF asked, item, due
    <3>8. item = due(c.block.m)  BY <3>2, <3>4, <3>6
    <3>9. QED  BY <1>3, <1>4, <3>3, <3>5, <3>6, <3>7, <3>8 DEF asked, item, due
  <2>6. QED  BY <2>4, <2>5
<1>8. CASE lastMid[c] # 1
  <2> DEFINE b == Block(FirstNum(c) + lastMid[c] - 1, FALSE, UnitOf(c))
  <2>1. m.block2 = b  BY <1>2, <1>4, <1>8 DEF Ask
  <2>2. b \in BlockOption /\ b # None
    <3>1. FirstNum(c) + lastMid[c] - 1 \in Nat  BY <1>1
    <3>2. b \in BlockOption  BY <1>1, <3>1 DEF Block, BlockOption
    <3>3. QED  BY <3>2, NotNone
  <2>3. block2Receive[c] # None /\ block2Receive[c].byte = Len(Have(c))  BY <1>6, <1>8 DEF At
  <2>4. ~InOnePiece(c)  BY <1>1, <1>8 DEF Cuts
  <2>5. Item(Len(Have(c)), b) = due(FALSE)  BY DEF Item, Block
  <2> HIDE DEF b
  <2>6. asked = Item(Len(Have(c)), b)  BY <2>1, <2>2, <2>3 DEF Negotiated
  <2>7. asked \in BlockItem /\ asked # None
    <3>1. Item(Len(Have(c)), b) \in BlockItem  BY <1>1, <2>2, ItemType
    <3>2. QED  BY <2>6, <3>1, NotNone
  <2>8. item = asked  BY <2>7
  <2> HIDE DEF asked, item, due
  <2>9. item = due(FALSE)  BY <2>5, <2>6, <2>8
  <2>10. QED  BY <1>3, <1>4, <2>4, <2>7, <2>8, <2>9 DEF asked, item, due
<1>9. QED  BY <1>7, <1>8

\* What the server's answer to the message in hand does to a download.
LEMMA DownloadCut ==
  ASSUME TypeOK, NEW c \in Calls, Asks(c), Has(c), Cuts(c), NEW m, HandleGet(c, m)
  PROVE  /\ m.mid = lastMid[c] /\ Answer(m, c, "CONTENT", None, Part(c).block2, Part(c).payload)
         /\ ~InOnePiece(c) /\ More(c) => At(c, Len(Have(c)) + UnitOf(c))'
<1> DEFINE asked == Negotiated(c, m)
           item == IF asked # None THEN asked ELSE Item(0, Block(0, TRUE, MaxPayload))
           more == Len(Current) > item.byte + item.size
<1>1. /\ New(c, m) /\ UNCHANGED <<client, written>>
      /\ \/ /\ asked = None /\ Len(Current) <= MaxPayload
            /\ Answer(m, c, "CONTENT", None, None, Current)
         \/ /\ asked # None \/ Len(Current) > MaxPayload
            /\ Answer(m, c, "CONTENT", None, Block(item.num, more, item.size),
                      Slice(Current, item.byte, item.size))
            /\ block2Receive' = [block2Receive EXCEPT ![c] =
                 IF more THEN [item EXCEPT !.byte = item.byte + item.size, !.num = item.num + 1] ELSE None]
  BY DEF HandleGet, Current
<1> HIDE DEF item, asked
<1>2. /\ m.mid = lastMid[c] /\ (InOnePiece(c) => asked = None)
      /\ ~InOnePiece(c) => asked # None \/ Len(Current) > MaxPayload
  BY <1>1, DownloadItem DEF asked
<1>3. /\ UnitOf(c) \in Nat /\ Len(Have(c)) \in Nat /\ MaxPayload \in Nat /\ Len(Current) \in Nat
      /\ FirstNum(c) \in Nat /\ lastMid[c] \in Nat
  BY DownloadTypes
<1>4. CASE InOnePiece(c)
  <2>1. asked = None /\ ~(Len(Current) > MaxPayload)  BY <1>2, <1>3, <1>4 DEF InOnePiece
  <2>2. Answer(m, c, "CONTENT", None, None, Current)  BY <1>1, <2>1
  <2>3. Part(c).block2 = None /\ Part(c).payload = Current  BY <1>4, PartProperties
  <2>4. QED  BY <1>2, <1>4, <2>2, <2>3
<1>5. CASE ~InOnePiece(c)
  <2>1. ~(asked = None /\ Len(Current) <= MaxPayload)  BY <1>2, <1>3, <1>5
  <2>2. /\ Answer(m, c, "CONTENT", None, Block(item.num, more, item.size), Slice(Current, item.byte, item.size))
        /\ block2Receive' = [block2Receive EXCEPT ![c] =
             IF more THEN [item EXCEPT !.byte = item.byte + item.size, !.num = item.num + 1] ELSE None]
    BY <1>1, <2>1
  <2>3. item \in BlockItem  BY <1>1, <1>5, DownloadItem DEF item, asked
  <2>4. PICK x \in BOOLEAN : item = [byte |-> Len(Have(c)), num |-> FirstNum(c) + lastMid[c] - 1, m |-> x,
                                     size |-> UnitOf(c)]
    BY <1>1, <1>5, DownloadItem DEF item, asked
  <2>5. item.byte = Len(Have(c)) /\ item.num = FirstNum(c) + lastMid[c] - 1 /\ item.size = UnitOf(c)
    BY <2>4
  <2>6. more = More(c)  BY <2>5 DEF More
  <2>7. /\ Part(c).block2 = Block(FirstNum(c) + lastMid[c] - 1, More(c), UnitOf(c))
        /\ Part(c).payload = Slice(Current, Len(Have(c)), UnitOf(c))
    BY <1>5 DEF Part
  <2>8. Answer(m, c, "CONTENT", None, Part(c).block2, Part(c).payload)
    BY <2>2, <2>5, <2>6, <2>7
  <2>9. ASSUME More(c) PROVE At(c, Len(Have(c)) + UnitOf(c))'
    <3> DEFINE after == [item EXCEPT !.byte = item.byte + item.size, !.num = item.num + 1]
    <3>1. after \in BlockItem /\ after.byte = Len(Have(c)) + UnitOf(c)
      <4>1. item.byte + item.size \in Nat /\ item.num + 1 \in Nat  BY <2>3 DEF BlockItem
      <4>2. after \in BlockItem /\ after.byte = item.byte + item.size  BY <2>3, <4>1 DEF BlockItem
      <4>3. QED  BY <2>5, <4>2
    <3>2. block2Receive' = [block2Receive EXCEPT ![c] = after]  BY <2>2, <2>6, <2>9
    <3> HIDE DEF after
    <3>3. block2Receive'[c] = after /\ after # None  BY <3>1, <3>2, NotNone DEF TypeOK
    <3>4. Have(c)' = Have(c)  BY <1>1 DEF client, Have
    <3>5. QED  BY <3>1, <3>3, <3>4 DEF At
  <2>10. QED  BY <1>2, <2>8, <2>9
<1>6. QED  BY <1>4, <1>5

\* The server's step on a download: the part that is due.
LEMMA DownloadHandle ==
  ASSUME TypeOK, NEW c \in Calls, c.op = "GET", DownloadInv(c), NEW m, Handle(c, m)
  PROVE  DownloadInv(c)' /\ written' = written
<1>1. HandleGet(c, m)
  <2>1. m \in requests[c] => m.block1 = None  BY DEF DownloadInv
  <2>2. QED  BY <2>1 DEF Handle, HandlePut, ReceiveBlock, Refuse, New
<1>2. New(c, m) /\ UNCHANGED <<client, written>>  BY <1>1 DEF HandleGet
<1>3. m.mid \in 1..lastMid[c] /\ request[c] # None
  <2>1. m.mid \in 1..lastMid[c]  BY <1>2, MessageType
  <2>2. lastMid[c] # 0  BY <2>1
  <2>3. QED  BY <2>1, <2>2 DEF TypeOK
<1>4. Answering(c)  BY <1>3, DownloadSplit
<1>5. PICK b2 \in BlockOption \cup {None}, p \in Payload : Answer(m, c, "CONTENT", None, b2, p)
  <2>1. CASE Answer(m, c, "CONTENT", None, None, Current)  BY <2>1, DownloadTypes
  <2>2. CASE ~Answer(m, c, "CONTENT", None, None, Current)
    <3>1. PICK item : /\ item = IF Negotiated(c, m) # None THEN Negotiated(c, m)
                                ELSE Item(0, Block(0, TRUE, MaxPayload))
                      /\ Answer(m, c, "CONTENT", None,
                                Block(item.num, Len(Current) > item.byte + item.size, item.size),
                                Slice(Current, item.byte, item.size))
      BY <1>1, <2>2 DEF HandleGet, Current
    <3>2. item \in BlockItem  BY <1>2, <3>1, CutterType
    <3>3. item.num \in Nat /\ item.size \in Nat \ {0} /\ item.byte \in Nat /\ item.size \in Nat
      BY <3>2 DEF BlockItem
    <3>4. Block(item.num, Len(Current) > item.byte + item.size, item.size) \in BlockOption
      BY <3>3 DEF Block, BlockOption
    <3>5. Slice(Current, item.byte, item.size) \in Payload  BY <3>3, DownloadTypes, SliceType
    <3>6. QED  BY <3>1, <3>4, <3>5
  <2>3. QED  BY <2>1, <2>2
<1>6. Answered(c, m, [code |-> "CONTENT", block1 |-> None, block2 |-> b2, payload |-> p])
  BY <1>2, <1>5, AnswerEffect
<1>7. Answering(c)'
  <2>1. Promise!Held' = Promise!Held  BY <1>2 DEF Promise!Held
  <2>2. \A n \in 1..MaxSent : answers'[c][n] # None =>
          answers'[c][n].code = "CONTENT" /\ answers'[c][n].block1 = None
    BY <1>4, <1>6 DEF Answering, Answered
  <2>3. QED  BY <1>2, <1>4, <2>1, <2>2 DEF Answering, client
<1>8. ASSUME result'[c] = None PROVE Asks(c)' /\ Has(c)' /\ Cuts(c)'
  <2>1. Asks(c) /\ Has(c) /\ Cuts(c)  BY <1>2, <1>3, <1>8, DownloadSplit DEF client
  <2>2. /\ m.mid = lastMid[c] /\ Answer(m, c, "CONTENT", None, Part(c).block2, Part(c).payload)
        /\ ~InOnePiece(c) /\ More(c) => At(c, Len(Have(c)) + UnitOf(c))'
    BY <1>1, <2>1, DownloadCut
  <2>3. Answered(c, m, Part(c))
    <3>1. Part(c).block2 \in BlockOption \cup {None}  BY <2>1, PartProperties
    <3>2. Part(c).payload \in Payload
      <4>1. CASE InOnePiece(c)  BY <2>1, <4>1, PartProperties, DownloadTypes
      <4>2. CASE ~InOnePiece(c)  BY <2>1, <4>2, PartProperties, DownloadTypes, SliceType
      <4>3. QED  BY <4>1, <4>2
    <3>3. Answered(c, m, [code |-> "CONTENT", block1 |-> None, block2 |-> Part(c).block2,
                          payload |-> Part(c).payload])
      BY <1>2, <2>2, <3>1, <3>2, AnswerEffect
    <3>4. Part(c) = [code |-> "CONTENT", block1 |-> None, block2 |-> Part(c).block2,
                     payload |-> Part(c).payload]
      BY DEF Part
    <3>5. QED  BY <3>3, <3>4
  <2>4. /\ Have(c)' = Have(c) /\ Current' = Current /\ More(c)' = More(c) /\ InOnePiece(c)' = InOnePiece(c)
        /\ Part(c)' = Part(c) /\ lastMid' = lastMid
    BY <1>2 DEF client, Have, Current, More, InOnePiece, Part
  <2>5. Asks(c)'  BY <1>2, <2>1 DEF client, Asks
  <2>6. Has(c)'  BY <1>2, <2>1, <2>4 DEF client, Has
  <2>7. Cuts(c)'
    <3>1. answers'[c][lastMid[c]] = Part(c) /\ \A n \in 1..MaxSent : n # lastMid[c] => answers'[c][n] = answers[c][n]
      BY <2>2, <2>3 DEF Answered
    <3>2. lastMid[c] \in Nat  BY DownloadTypes
    <3>3. \A n \in 1..MaxSent : n < lastMid[c] =>
            /\ answers'[c][n] # None /\ answers'[c][n].block2 # None
            /\ answers'[c][n].block2.m /\ answers'[c][n].block2.num = FirstNum(c) + n - 1
      BY <2>1, <3>1, <3>2 DEF Cuts
    <3>4. \A n \in 1..MaxSent : n > lastMid[c] => answers'[c][n] = None
      BY <2>1, <3>1, <3>2 DEF Cuts
    <3>5. lastMid[c] > 1 => ~InOnePiece(c)  BY <2>1 DEF Cuts
    <3>6. ~InOnePiece(c)' /\ More(c)' => At(c, Len(Have(c)) + UnitOf(c))'  BY <2>2, <2>4
    <3>7. QED  BY <2>4, <3>1, <3>3, <3>4, <3>5, <3>6 DEF Cuts
  <2>8. QED  BY <2>5, <2>6, <2>7
<1>9. QED  BY <1>2, <1>7, <1>8, DownloadJoined

-----------------------------------------------------------------------------
(* The steps together.                                                     *)

\* What Transfer sees of a step.
Promised == \/ UNCHANGED <<written, result>>
            \/ \E c \in Calls : Promise!Write(c) \/ Promise!Return(c)

\* The invariant at first.
LEMMA BlockInit == UploadsFit /\ Init => BlockInv
<1> SUFFICES ASSUME UploadsFit, Init PROVE BlockInv
  OBVIOUS
<1>1. Promise!Held = {Initial}  BY DEF Init, Promise!Held
<1>2. ASSUME NEW c \in Calls, c.op = "PUT" PROVE UploadInv(c)
  <2>1. ~Written(c)  BY <1>1, <1>2, ContentsDiffer DEF Written
  <2>2. NotCalled(c)  BY DEF Init, NotCalled
  <2>3. Unanswered(c)  BY <2>1 DEF Init, Unanswered, Answers
  <2>4. result[c] = None /\ ~SecondSent(c) /\ ~Stuck(c)  BY DEF Init, SecondSent, Stuck
  <2>5. QED  BY <2>2, <2>3, <2>4 DEF UploadInv
<1>3. ASSUME NEW c \in Calls PROVE DownloadInv(c)
  BY DEF Init, DownloadInv
<1>4. Alone  BY DEF Init, Alone
<1>5. QED  BY <1>2, <1>3, <1>4 DEF BlockInv

\* A call keeps it.
LEMMA BlockCall ==
  ASSUME TypeOK, UploadsFit, InTurn, BlockInv, NEW c \in Calls, Call(c)
  PROVE  BlockInv' /\ Promised
<1>1. UNCHANGED <<result, taken, written>>  BY DEF Call, server
<1>2. Promised  BY <1>1 DEF Promised
<1>3. Current' = Current /\ Promise!Held' = Promise!Held  BY <1>1 DEF Current, Promise!Held
<1>4. ASSUME NEW d \in Calls, d.op = "PUT" PROVE UploadInv(d)'
  <2>1. UploadInv(d)  BY <1>4 DEF BlockInv
  <2>2. CASE d = c  BY <1>4, <2>1, <2>2, UploadCall
  <2>3. CASE d # c
    <3>1. SameCall(d)  BY <2>3, CallRest
    <3>2. Written(d)' = Written(d)  BY <1>3 DEF Written
    <3>3. QED  BY <1>1, <2>1, <3>1, <3>2, UploadFrame
  <2>4. QED  BY <2>2, <2>3
<1>5. ASSUME NEW d \in Calls, d.op = "GET" PROVE DownloadInv(d)'
  <2>1. DownloadInv(d)  BY <1>5 DEF BlockInv
  <2>2. CASE d = c  BY <1>5, <2>1, <2>2, DownloadCall
  <2>3. CASE d # c
    <3>1. SameCall(d)  BY <2>3, CallRest
    <3>2. QED  BY <1>3, <2>1, <3>1, DownloadFrame
  <2>4. QED  BY <2>2, <2>3
<1>6. Alone'
  <2> SUFFICES ASSUME NEW a \in Calls, NEW b \in Calls, a.op = "GET", request'[a] # None, result'[a] = None,
                      b.op = "PUT", request'[b] # None, result'[b] = None
               PROVE  FALSE
    BY DEF Alone
  <2>1. result[a] = None /\ result[b] = None /\ a # b  BY <1>1
  <2>2. \A d \in Calls : d # c => request'[d] = request[d]  BY CallRest DEF SameCall
  <2>3. \A d \in Calls : request[d] # None => result[d] # None \/ <<c, d>> \in Together  BY DEF Call
  <2>4. CASE c = a
    <3>1. <<a, b>> \in Together  BY <2>1, <2>2, <2>3, <2>4
    <3>2. a.op = b.op
      <4>1. \A p \in Together : p[1].op = p[2].op  BY DEF InTurn
      <4>2. QED  BY <3>1, <4>1
    <3>3. QED  BY <3>2
  <2>5. CASE c = b
    <3>1. <<b, a>> \in Together  BY <2>1, <2>2, <2>3, <2>5
    <3>2. a.op = b.op
      <4>1. \A p \in Together : p[1].op = p[2].op  BY DEF InTurn
      <4>2. QED  BY <3>1, <4>1
    <3>3. QED  BY <3>2
  <2>6. CASE c # a /\ c # b
    <3>1. request[a] # None /\ request[b] # None  BY <2>2, <2>6
    <3>2. QED  BY <2>1, <3>1 DEF BlockInv, Alone
  <2>7. QED  BY <2>4, <2>5, <2>6
<1>7. QED  BY <1>2, <1>4, <1>5, <1>6 DEF BlockInv

\* A response that arrives keeps it, and at most returns a call.
LEMMA BlockReceive ==
  ASSUME TypeOK, UploadsFit, BlockInv, NEW c \in Calls, NEW n \in 1..MaxSent, Receive(c, n)
  PROVE  BlockInv' /\ Promised
<1>1. Arrives(c, n)
  BY DEF Receive, ReceiveLateBlock1, ReceiveBlock1, ReceiveBlock2, ReceiveLastBlock2, ReceiveWhole
<1>2. written' = written /\ UNCHANGED server  BY <1>1 DEF Arrives, server
<1>3. Current' = Current /\ Promise!Held' = Promise!Held  BY <1>2 DEF Current, Promise!Held
<1>4. c.op \in {"GET", "PUT"}  BY CallsAssumption
<1>5. result' = result \/ Promise!Return(c)
  BY <1>4, UploadReceive, DownloadReceive DEF BlockInv
<1>6. Promised  BY <1>2, <1>5 DEF Promised
<1>7. ASSUME NEW d \in Calls, d.op = "PUT" PROVE UploadInv(d)'
  <2>1. UploadInv(d)  BY <1>7 DEF BlockInv
  <2>2. CASE d = c  BY <1>7, <2>1, <2>2, UploadReceive
  <2>3. CASE d # c
    <3>1. SameCall(d)  BY <2>3, ReceiveRest
    <3>2. Written(d)' = Written(d)  BY <1>3 DEF Written
    <3>3. (<<d, 1>> \in taken') = (<<d, 1>> \in taken)
      <4>1. taken' = taken \/ taken' = taken \cup {<<c, n>>}  BY <1>1 DEF Arrives
      <4>2. <<d, 1>> # <<c, n>>  BY <2>3
      <4>3. QED  BY <4>1, <4>2
    <3>4. QED  BY <2>1, <3>1, <3>2, <3>3, UploadFrame
  <2>4. QED  BY <2>2, <2>3
<1>8. ASSUME NEW d \in Calls, d.op = "GET" PROVE DownloadInv(d)'
  <2>1. DownloadInv(d)  BY <1>8 DEF BlockInv
  <2>2. CASE d = c  BY <1>8, <2>1, <2>2, DownloadReceive
  <2>3. CASE d # c
    <3>1. SameCall(d)  BY <2>3, ReceiveRest
    <3>2. QED  BY <1>3, <2>1, <3>1, DownloadFrame
  <2>4. QED  BY <2>2, <2>3
<1>9. Alone'
  <2>1. \A d \in Calls : d # c => request'[d] = request[d] /\ result'[d] = result[d]
    BY ReceiveRest DEF SameCall
  <2>2. request[c] # None  BY <1>1, ArrivesType
  <2>3. result[c] # None => result'[c] = result[c]  BY <1>5 DEF Promise!Return
  <2>4. QED  BY <2>1, <2>2, <2>3 DEF BlockInv, Alone
<1>10. QED  BY <1>6, <1>7, <1>8, <1>9 DEF BlockInv

\* A message that is handled keeps it, and at most writes a content.
LEMMA BlockHandle ==
  ASSUME TypeOK, UploadsFit, BlockInv, NEW c \in Calls, NEW m \in requests[c], Handle(c, m)
  PROVE  BlockInv' /\ Promised
<1>1. UNCHANGED client
  BY DEF Handle, HandleGet, HandlePut, ReceiveBlock, Refuse
<1>2. c.op \in {"GET", "PUT"}  BY CallsAssumption
<1>3. \/ written' = written
      \/ /\ c.op = "PUT" /\ written' = Append(written, Content(c)) /\ ~Written(c) /\ result[c] = None
  BY <1>2, UploadHandle, DownloadHandle DEF BlockInv
<1>4. Promised  BY <1>1, <1>3 DEF Promised, Promise!Write, Written, client
<1>5. written' # written => Promise!Held' = Promise!Held \cup {Content(c)}
  BY <1>3, UploadTypes, WriteType
<1>6. written' = written => Promise!Held' = Promise!Held /\ Current' = Current
  BY DEF Promise!Held, Current
<1>7. request[c] # None
  <2>1. m.mid \in 1..lastMid[c]  BY DEF TypeOK
  <2>2. lastMid[c] # 0  BY <2>1
  <2>3. QED  BY <2>2 DEF TypeOK
<1>8. ASSUME NEW d \in Calls, d.op = "PUT" PROVE UploadInv(d)'
  <2>1. UploadInv(d)  BY <1>8 DEF BlockInv
  <2>2. CASE d = c  BY <1>8, <2>1, <2>2, UploadHandle
  <2>3. CASE d # c
    <3>1. SameCall(d)  BY <2>3, HandleRest
    <3>2. Written(d)' = Written(d)
      <4>1. CASE written' = written  BY <1>6, <4>1 DEF Written
      <4>2. CASE written' # written
        <5>1. Content(d) # Content(c)  BY <1>3, <1>8, <2>3, <4>2, ContentsDiffer
        <5>2. QED  BY <1>5, <4>2, <5>1 DEF Written
      <4>3. QED  BY <4>1, <4>2
    <3>3. taken' = taken  BY <1>1 DEF client
    <3>4. QED  BY <2>1, <3>1, <3>2, <3>3, UploadFrame
  <2>4. QED  BY <2>2, <2>3
<1>9. ASSUME NEW d \in Calls, d.op = "GET" PROVE DownloadInv(d)'
  <2>1. DownloadInv(d)  BY <1>9 DEF BlockInv
  <2>2. CASE d = c  BY <1>9, <2>1, <2>2, DownloadHandle
  <2>3. CASE d # c
    <3>1. SameCall(d)  BY <2>3, HandleRest
    <3>2. Promise!Held \subseteq Promise!Held'  BY <1>5, <1>6
    <3>3. Current' = Current \/ request[d] = None \/ result[d] # None
      <4>1. CASE written' = written  BY <1>6, <4>1
      <4>2. CASE written' # written
        <5>1. c.op = "PUT" /\ result[c] = None  BY <1>3, <4>2
        <5>2. QED  BY <1>7, <1>9, <5>1 DEF BlockInv, Alone
      <4>3. QED  BY <4>1, <4>2
    <3>4. QED  BY <2>1, <3>1, <3>2, <3>3, DownloadFrame
  <2>4. QED  BY <2>2, <2>3
<1>10. Alone'  BY <1>1 DEF BlockInv, Alone, client
<1>11. QED  BY <1>4, <1>8, <1>9, <1>10 DEF BlockInv

\* Every step keeps it, and is one of Transfer or none.
LEMMA BlockStep ==
  ASSUME TypeOK, UploadsFit, InTurn, BlockInv, [Next]_vars
  PROVE  BlockInv' /\ Promised
<1>1. CASE \E c \in Calls : Call(c)  BY <1>1, BlockCall
<1>2. CASE \E c \in Calls, n \in 1..MaxSent : Receive(c, n)  BY <1>2, BlockReceive
<1>3. CASE \E c \in Calls : \E m \in requests[c] : Handle(c, m)  BY <1>3, BlockHandle
<1>4. CASE UNCHANGED vars
  <2>1. UNCHANGED client /\ UNCHANGED server  BY <1>4 DEF vars
  <2>2. Promised  BY <2>1 DEF Promised, client, server
  <2>3. /\ Current' = Current /\ Promise!Held' = Promise!Held /\ taken' = taken
        /\ \A d \in Calls : Written(d)' = Written(d)
    BY <2>1 DEF client, server, Current, Promise!Held, Written
  <2>4. \A d \in Calls : SameCall(d)  BY <2>1 DEF client, server, SameCall
  <2>5. \A d \in Calls : d.op = "PUT" => UploadInv(d)'
    BY <2>3, <2>4, UploadFrame DEF BlockInv
  <2>6. \A d \in Calls : d.op = "GET" => DownloadInv(d)'
    BY <2>3, <2>4, DownloadFrame DEF BlockInv
  <2>7. Alone'  BY <2>1 DEF client, BlockInv, Alone
  <2>8. QED  BY <2>2, <2>5, <2>6, <2>7 DEF BlockInv
<1>5. QED  BY <1>1, <1>2, <1>3, <1>4 DEF Next

\* Every upload is at a stage of UploadInv and every download has the resource's payload
\* up to where the server cuts next, where uploads are of at most two blocks unless their
\* first response comes once, and downloads and uploads take turns (blocklayer.py 53-261).
THEOREM BlockInvariant ==
  ASSUME UploadsFit, InTurn
  PROVE  Spec => []BlockInv
<1>1. Init => BlockInv  BY BlockInit
<1>2. TypeOK /\ BlockInv /\ [Next]_vars => BlockInv'  BY BlockStep
<1>3. QED  BY <1>1, <1>2, TypeCorrect, PTL DEF Spec

\* A download gives a payload that the resource has had, whatever is repeated
\* (blocklayer.py 160-197).
THEOREM DownloadsHold ==
  ASSUME UploadsFit, InTurn
  PROVE  Spec => []DownloadsAreWhole
<1>1. BlockInv => DownloadsAreWhole
  <2> SUFFICES ASSUME BlockInv, NEW c \in Calls, result[c] # None, result[c].code = "CONTENT"
               PROVE  result[c].payload \in Promise!Held
    BY DEF DownloadsAreWhole
  <2>1. c.op # "PUT"  BY DEF BlockInv, UploadInv
  <2>2. c.op = "GET"  BY <2>1, CallsAssumption
  <2>3. QED  BY <2>2 DEF BlockInv, DownloadInv
<1>2. QED  BY <1>1, BlockInvariant, PTL

\* Blockwise transfer writes a payload whole and once, and tells the caller so only if it has
\* (blocklayer.py 31-34).
THEOREM Implementation ==
  ASSUME UploadsFit, InTurn
  PROVE  Spec => ImplementsTransfer
<1>1. Init => Promise!Init  BY DEF Init, Promise!Init
<1>2. TypeOK /\ BlockInv /\ [Next]_vars => [Promise!Next]_<<written, result>>
  BY BlockStep DEF Promised, Promise!Next
<1>3. QED  BY <1>1, <1>2, TypeCorrect, BlockInvariant, PTL DEF Spec, ImplementsTransfer, Promise!Spec
=============================================================================
