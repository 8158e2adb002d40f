----------------------- MODULE ClientExchangeProofs -----------------------
(***************************************************************************)
(* Theorems about ClientExchange, for any set of requests, any number of   *)
(* blocks and transactions, any MAX_RETRANSMIT.                            *)
(***************************************************************************)
EXTENDS ClientExchange, SequenceTheorems, TLAPS

ReceiverHasTransaction ==
  \A v \in Receivers :
    LET t == receiver[v].on IN
    receiver[v].pc \notin {"idle", "recvfrom", "ended", "dead"} =>
      t \in Transactions /\ t[2] <= sent[t[1]]

\* The transactions made are the first ones, and each has used one mid at most.
TransactionsMade ==
  \A t \in Transactions : /\ asked[t].mid <= t[2]
                          /\ asked[t].mid > 0 <=> t[2] <= sent[t[1]]

\* The loop's condition still holds of the counter behind it.
WaitCounts == \A t \in Transactions : retransmitter[t].pc = "wait"
                                        => retransmitter[t].count <= MAX_RETRANSMIT

TypeInv == TypeOK /\ ReceiverHasTransaction /\ TransactionsMade /\ WaitCounts

LEMMA AtLoopType ==
  /\ AtLoop \in [pc : ReceiverPcs, on : Transactions \cup {None}, empty : BOOLEAN]
  /\ AtLoop.pc \in {"recvfrom", "ended"}
  BY DEF AtLoop, ReceiverPcs

\* A list without its i-th element.
LEMMA Removed ==
  ASSUME NEW T, NEW s \in Seq(T), NEW i \in 1..Len(s)
  PROVE  /\ RemoveAt(s, i) \in Seq(T)
         /\ Len(RemoveAt(s, i)) = Len(s) - 1
         /\ \A j \in 1..(Len(s) - 1) : RemoveAt(s, i)[j] = IF j < i THEN s[j] ELSE s[j + 1]
<1> DEFINE a == SubSeq(s, 1, i - 1)
           b == SubSeq(s, i + 1, Len(s))
<1>1. a \in Seq(T) /\ Len(a) = i - 1 /\ \A j \in 1..(i - 1) : a[j] = s[j]
  <2>1. 1 \in Int /\ i - 1 \in Int /\ \A j \in 1..(i - 1) : s[j] \in T
    OBVIOUS
  <2>2. /\ a \in Seq(T) /\ Len(a) = IF 1 <= i - 1 THEN (i - 1) - 1 + 1 ELSE 0
        /\ \A j \in 1..((i - 1) - 1 + 1) : a[j] = s[1 + j - 1]
    BY <2>1, SubSeqProperties
  <2> QED
    BY <2>2
<1>2. b \in Seq(T) /\ Len(b) = Len(s) - i /\ \A j \in 1..(Len(s) - i) : b[j] = s[i + j]
  <2>1. i + 1 \in Int /\ Len(s) \in Int /\ \A j \in (i + 1)..Len(s) : s[j] \in T
    OBVIOUS
  <2>2. /\ b \in Seq(T) /\ Len(b) = IF i + 1 <= Len(s) THEN Len(s) - (i + 1) + 1 ELSE 0
        /\ \A j \in 1..(Len(s) - (i + 1) + 1) : b[j] = s[(i + 1) + j - 1]
    BY <2>1, SubSeqProperties
  <2> QED
    BY <2>2
<1>3. RemoveAt(s, i) = a \o b
  BY DEF RemoveAt
<1> HIDE DEF a, b
<1>4. a \o b \in Seq(T) /\ Len(a \o b) = Len(s) - 1
  <2>1. a \o b \in Seq(T) /\ Len(a \o b) = Len(a) + Len(b)
    BY <1>1, <1>2, ConcatProperties
  <2> QED
    BY <1>1, <1>2, <2>1
<1>5. ASSUME NEW j \in 1..(Len(s) - 1) PROVE (a \o b)[j] = IF j < i THEN s[j] ELSE s[j + 1]
  <2>1. (a \o b)[j] = IF j <= Len(a) THEN a[j] ELSE b[j - Len(a)]
    BY <1>1, <1>2, ConcatProperties
  <2> QED
    BY <1>1, <1>2, <2>1
<1> QED
  BY <1>3, <1>4, <1>5

LEMMA InitTypeInv == Init => TypeInv
<1> SUFFICES ASSUME Init PROVE TypeInv
  OBVIOUS
<1> USE BoundsAssumption
<1>1. NotAsked \in [mid : 0..MaxTransactions, block : 0..Blocks]
  BY DEF NotAsked
<1>2. [pc |-> "idle", count |-> 0] \in [pc : RetransmitterPcs, count : 0..MAX_RETRANSMIT + 1]
  BY DEF RetransmitterPcs
<1>3. [pc |-> "idle", on |-> None, empty |-> FALSE]
        \in [pc : ReceiverPcs, on : Transactions \cup {None}, empty : BOOLEAN]
  BY DEF ReceiverPcs
<1>4. closer \in [pc : CloserPcs, next : Nat, left : SUBSET Requests, all : SUBSET Requests]
  BY DEF Init, CloserPcs
<1>5. /\ contexts \subseteq Requests /\ responded \subseteq Requests
      /\ result \in [Requests -> {"none", "response", "request"}]
      /\ returned \in [Requests -> {"none", "response", "request"}]
      /\ flag \in [Requests -> M!Flags]
      /\ user \in [Requests -> UserPcs]
      /\ stop \in [Transactions -> {"none", "clear", "set"}]
      /\ receiverThread \in Receivers \cup {None} /\ stopped \in BOOLEAN
  BY DEF Init, M!Flags, UserPcs
<1>6. /\ asked \in [Transactions -> [mid : 0..MaxTransactions, block : 0..Blocks]]
      /\ sent \in [Requests -> 0..MaxTransactions]
      /\ item \in [Requests -> 0..Blocks]
      /\ response \in [Transactions -> 0..Blocks]
  BY <1>1 DEF Init
<1>7. toBeStopped \in Seq(Transactions)
  BY DEF Init
<1>8. /\ receiver \in [Receivers -> [pc : ReceiverPcs, on : Transactions \cup {None},
                                    empty : BOOLEAN]]
      /\ retransmitter \in [Transactions -> [pc : RetransmitterPcs,
                                            count : 0..MAX_RETRANSMIT + 1]]
  BY <1>2, <1>3 DEF Init
<1>9. ReceiverHasTransaction /\ TransactionsMade /\ WaitCounts
  BY DEF Init, ReceiverHasTransaction, TransactionsMade, WaitCounts, NotAsked, Transactions
<1> QED
  BY <1>4, <1>5, <1>6, <1>7, <1>8, <1>9 DEF TypeInv, TypeOK

\* A receiver that goes on with its transaction, or to the next datagram.
LEMMA ReceiverMoves ==
  ASSUME TypeInv, NEW v \in Receivers, NEW pc \in ReceiverPcs, sent' = sent,
         receiver[v].pc \notin {"idle", "recvfrom", "ended", "dead"},
         ReceiverGoto(v, pc) \/ NextDatagram(v)
  PROVE  /\ receiver' \in [Receivers -> [pc : ReceiverPcs, on : Transactions \cup {None},
                                         empty : BOOLEAN]]
         /\ ReceiverHasTransaction'
<1> USE AtLoopType DEF TypeInv, TypeOK, ReceiverHasTransaction
<1>1. CASE ReceiverGoto(v, pc)
  BY <1>1 DEF ReceiverGoto
<1>2. CASE NextDatagram(v)
  BY <1>2 DEF NextDatagram
<1> QED
  BY <1>1, <1>2

\* What a context is given, or nothing, keeps to the types.
LEMMA DeliverType ==
  ASSUME TypeInv, NEW r, NEW object \in {"none", "response", "request"},
         Deliver(r, object) \/ UNCHANGED helper
  PROVE  /\ contexts' \subseteq Requests /\ responded' \subseteq Requests
         /\ result' \in [Requests -> {"none", "response", "request"}] /\ returned' = returned
<1>1. /\ contexts \subseteq Requests /\ responded \subseteq Requests
      /\ result \in [Requests -> {"none", "response", "request"}]
  BY DEF TypeInv, TypeOK
<1>2. CASE Deliver(r, object)
  BY <1>1, <1>2, RequestsAssumption DEF Deliver
<1>3. CASE UNCHANGED helper
  BY <1>1, <1>3 DEF helper
<1> QED
  BY <1>2, <1>3

\* A retransmission that goes on without counting.
LEMMA RetransmitterMoves ==
  ASSUME TypeInv, NEW t \in Transactions, NEW pc \in RetransmitterPcs, pc # "wait",
         retransmitter' = [retransmitter EXCEPT ![t].pc = pc]
  PROVE  /\ retransmitter' \in [Transactions -> [pc : RetransmitterPcs,
                                                 count : 0..MAX_RETRANSMIT + 1]]
         /\ WaitCounts'
  BY BoundsAssumption DEF TypeInv, TypeOK, WaitCounts

LEMMA FirstTransaction == \A r \in Requests : <<r, 1>> \in Transactions
  BY BoundsAssumption DEF Transactions

\* A transaction made for a request keeps to the types, and is the first new one.
LEMMA NewTransactionType ==
  ASSUME TypeInv, NEW r \in Requests, NEW block \in 0..Blocks, NEW mid \in Nat \ {0},
         mid <= sent[r] + 1, NewTransaction(r, mid, block)
  PROVE  /\ <<r, sent[r] + 1>> \in Transactions
         /\ sent' \in [Requests -> 0..MaxTransactions]
         /\ asked' \in [Transactions -> [mid : 0..MaxTransactions, block : 0..Blocks]]
         /\ TransactionsMade'
         /\ \A t \in Transactions : t[2] <= sent[t[1]] => t[2] <= sent'[t[1]]
<1> USE BoundsAssumption
<1> DEFINE new == <<r, sent[r] + 1>>
<1>1. sent \in [Requests -> 0..MaxTransactions] /\ sent[r] < MaxTransactions
  BY DEF TypeInv, TypeOK, NewTransaction
<1>2. new \in Transactions
  BY <1>1 DEF Transactions
<1>3. sent' = [sent EXCEPT ![r] = @ + 1]
  BY DEF NewTransaction
<1>4. asked' = [asked EXCEPT ![new] = [mid |-> mid, block |-> block]]
  BY DEF NewTransaction
<1>5. [mid |-> mid, block |-> block] \in [mid : 0..MaxTransactions, block : 0..Blocks]
  BY <1>1
<1>6. asked' \in [Transactions -> [mid : 0..MaxTransactions, block : 0..Blocks]]
  BY <1>4, <1>5 DEF TypeInv, TypeOK
<1>7. \A t \in Transactions : t[1] \in Requests /\ t[2] \in Nat /\ t = <<t[1], t[2]>>
  BY DEF Transactions
<1>8. ASSUME NEW t \in Transactions
      PROVE  /\ asked'[t].mid <= t[2]
             /\ asked'[t].mid > 0 <=> t[2] <= sent'[t[1]]
  <2>1. CASE t = new
    BY <1>1, <1>2, <1>3, <1>4, <2>1 DEF TypeInv, TypeOK
  <2>2. CASE t # new
    <3>1. asked'[t] = asked[t]
      BY <1>4, <2>2 DEF TypeInv, TypeOK
    <3>2. t[2] <= sent'[t[1]] <=> t[2] <= sent[t[1]]
      BY <1>1, <1>3, <1>7, <2>2
    <3> QED
      BY <3>1, <3>2 DEF TypeInv, TransactionsMade
  <2> QED
    BY <2>1, <2>2
<1> QED
  BY <1>1, <1>2, <1>3, <1>6, <1>7, <1>8 DEF TransactionsMade

LEMMA UserTypeStep ==
  ASSUME TypeInv, NEW r \in Requests, UserStep(r) \/ UserRegister(r)
  PROVE  TypeInv'
<1> USE AtLoopType DEF TypeInv, TypeOK, ReceiverHasTransaction, WaitCounts
<1>1. CASE UserRegister(r)
  BY <1>1 DEF UserRegister, UserGoto, UserPcs, exchange, TransactionsMade
<1>2. CASE UserSend(r)
  <2>1. NewTransaction(r, 1, 1)
    BY <1>2 DEF UserSend
  <2>2. /\ sent' \in [Requests -> 0..MaxTransactions]
        /\ asked' \in [Transactions -> [mid : 0..MaxTransactions, block : 0..Blocks]]
        /\ TransactionsMade'
        /\ \A t \in Transactions : t[2] <= sent[t[1]] => t[2] <= sent'[t[1]]
    BY <2>1, NewTransactionType, BoundsAssumption, 1 \in Nat \ {0}, 1 \in 0..Blocks,
       1 <= sent[r] + 1
  <2>3. user' \in [Requests -> UserPcs]
    BY <1>2 DEF UserSend, UserGoto, AfterSend, UserPcs
  <2> QED
    BY <1>2, <2>2, <2>3 DEF UserSend, helper
<1>3. CASE UserStartReceiver(r)
  BY <1>3 DEF UserStartReceiver, StartReceiver, UserGoto, AfterSend, UserPcs, helper,
     exchange, TransactionsMade
<1>4. CASE UserPrepare(r)
  <2>1. /\ stop' \in [Transactions -> {"none", "clear", "set"}]
        /\ toBeStopped' \in Seq(Transactions) /\ user' \in [Requests -> UserPcs]
    BY <1>4, FirstTransaction DEF UserPrepare, Prepare, UserGoto, UserPcs
  <2>2. UNCHANGED <<helper, exchange, receiver, receiverThread, retransmitter, closer, stopped>>
    BY <1>4 DEF UserPrepare
  <2> QED
    BY <2>1, <2>2 DEF helper, exchange, TransactionsMade
<1>5. CASE UserStart(r)
  <2>1. /\ retransmitter' \in [Transactions -> [pc : RetransmitterPcs,
                                              count : 0..MAX_RETRANSMIT + 1]]
        /\ WaitCounts'
    BY <1>5, FirstTransaction, RetransmitterMoves DEF UserStart, StartRetransmission, RetransmitterPcs
  <2> QED
    BY <1>5, <2>1 DEF UserStart, UserGoto, UserPcs, helper, exchange, TransactionsMade
<1>6. CASE UserWake(r)
  BY <1>6 DEF UserWake, UserGoto, UserPcs, helper, exchange, TransactionsMade
<1>7. CASE UserDelete(r)
  BY <1>7 DEF UserDelete, UserGoto, UserPcs, exchange, TransactionsMade
<1>8. CASE UserReturn(r)
  BY <1>8 DEF UserReturn, UserGoto, UserPcs, exchange, TransactionsMade
<1> QED
  BY <1>1, <1>2, <1>3, <1>4, <1>5, <1>6, <1>7, <1>8 DEF UserStep

LEMMA ReceiverTypeStep ==
  ASSUME TypeInv, NEW v \in Receivers, ReceiverStep(v)
  PROVE  TypeInv'
<1> USE AtLoopType DEF TypeInv, TypeOK, ReceiverHasTransaction, WaitCounts, ReceiverGoto,
        NextDatagram, AfterEvent, ReceiverPcs
<1>1. CASE ReceiverTimeout(v)
  BY <1>1 DEF ReceiverTimeout, helper, exchange, TransactionsMade
<1>2. CASE ReceiverIfEvent(v)
  <2>1. \E pc \in ReceiverPcs : ReceiverGoto(v, pc) \/ NextDatagram(v)
    BY <1>2 DEF ReceiverIfEvent
  <2>2. /\ receiver' \in [Receivers -> [pc : ReceiverPcs, on : Transactions \cup {None},
                                        empty : BOOLEAN]]
        /\ ReceiverHasTransaction'
    BY <1>2, <2>1, ReceiverMoves DEF ReceiverIfEvent, exchange
  <2> QED
    BY <1>2, <2>2 DEF ReceiverIfEvent, helper, exchange, TransactionsMade
<1>3. CASE ReceiverSetEvent(v)
  <2>1. \E pc \in ReceiverPcs : ReceiverGoto(v, pc) \/ NextDatagram(v)
    BY <1>3 DEF ReceiverSetEvent
  <2>2. /\ receiver' \in [Receivers -> [pc : ReceiverPcs, on : Transactions \cup {None},
                                        empty : BOOLEAN]]
        /\ ReceiverHasTransaction'
    BY <1>3, <2>1, ReceiverMoves DEF ReceiverSetEvent, exchange
  <2>3. stop' \in [Transactions -> {"none", "clear", "set"}]
    BY <1>3 DEF ReceiverSetEvent
  <2> QED
    BY <1>3, <2>2, <2>3 DEF ReceiverSetEvent, helper, exchange, TransactionsMade
<1>4. CASE ReceiverWait(v)
  BY <1>4 DEF ReceiverWait, helper, exchange, TransactionsMade
<1>5. CASE ReceiverBlock(v)
  <2> DEFINE t == receiver[v].on
  <2>1. t \in Transactions /\ RequestOf(t) \in Requests
    BY <1>5 DEF ReceiverBlock, Transactions, RequestOf
  <2>2. response[t] \in 0..Blocks
    BY <2>1
  <2>3. response[t] < Blocks => response[t] + 1 \in 0..Blocks
    BY <2>2, BoundsAssumption
  <2>4. 0 \in 0..Blocks
    BY BoundsAssumption
  <2>5. \E n \in 0..Blocks : item' = [item EXCEPT ![RequestOf(t)] = n]
    <3>1. CASE response[t] < Blocks
      <4> DEFINE n == IF item[RequestOf(t)] \in {0, response[t]} THEN response[t] + 1
                      ELSE item[RequestOf(t)]
      <4>1. item' = [item EXCEPT ![RequestOf(t)] = n]
        BY <1>5, <3>1 DEF ReceiverBlock
      <4>2. n \in 0..Blocks
        BY <2>1, <2>3, <3>1
      <4> QED
        BY <4>1, <4>2
    <3>2. CASE ~(response[t] < Blocks)
      BY <1>5, <3>2, <2>4 DEF ReceiverBlock
    <3> QED
      BY <3>1, <3>2
  <2>6. item' \in [Requests -> 0..Blocks]
    BY <2>1, <2>5
  <2>7. \E pc \in ReceiverPcs : ReceiverGoto(v, pc)
    BY <1>5 DEF ReceiverBlock
  <2>8. /\ receiver' \in [Receivers -> [pc : ReceiverPcs, on : Transactions \cup {None},
                                        empty : BOOLEAN]]
        /\ ReceiverHasTransaction'
    BY <1>5, <2>7, ReceiverMoves DEF ReceiverBlock
  <2> QED
    BY <1>5, <2>6, <2>8 DEF ReceiverBlock, helper, TransactionsMade
<1>6. CASE ReceiverNext(v)
  <2> DEFINE t == receiver[v].on
             r == RequestOf(t)
             last == asked[Latest(r)]
  <2>1. t \in Transactions /\ r \in Requests /\ t[2] <= sent[r] /\ t[2] \in 1..MaxTransactions
    BY <1>6 DEF ReceiverNext, Transactions, RequestOf
  <2>2. Latest(r) \in Transactions
    BY <2>1, BoundsAssumption DEF Transactions, Latest
  <2>3. last.mid \in Nat \ {0} /\ last.mid <= sent[r] /\ last.block \in 0..Blocks
    BY <2>2, <2>1, BoundsAssumption, SMTT(30) DEF TransactionsMade, Latest
  <2>4. \/ NewTransaction(r, last.mid + 1, item[r])
        \/ NewTransaction(r, last.mid, last.block)
    BY <1>6 DEF ReceiverNext
  <2>5. /\ <<r, sent[r] + 1>> \in Transactions
        /\ sent' \in [Requests -> 0..MaxTransactions]
        /\ asked' \in [Transactions -> [mid : 0..MaxTransactions, block : 0..Blocks]]
        /\ TransactionsMade'
        /\ \A u \in Transactions : u[2] <= sent[u[1]] => u[2] <= sent'[u[1]]
    <3>1. item[r] \in 0..Blocks /\ sent[r] \in Nat
      BY <2>1, BoundsAssumption
    <3>2. CASE NewTransaction(r, last.mid + 1, item[r])
      <4>1. last.mid + 1 \in Nat \ {0} /\ last.mid + 1 <= sent[r] + 1
        BY <2>3, <3>1, SMTT(30)
      <4> QED
        BY ONLY TypeInv, <2>1, <3>1, <3>2, <4>1, NewTransactionType
    <3>3. CASE NewTransaction(r, last.mid, last.block)
      <4>1. last.mid <= sent[r] + 1
        BY <2>3, <3>1
      <4> QED
        BY ONLY TypeInv, <2>1, <2>3, <3>3, <4>1, NewTransactionType
    <3> QED
      BY <2>4, <3>2, <3>3
  <2>6. flag' \in [Requests -> M!Flags]
    BY <1>6 DEF ReceiverNext, M!Flags
  <2>7. sent'[r] = sent[r] + 1
    BY <2>1, <2>4 DEF NewTransaction
  <2>8. CASE r \in Confirmable
    <3>1. receiver' = [receiver EXCEPT ![v] =
                         [@ EXCEPT !.pc = "prepare", !.on = <<r, sent[r] + 1>>]]
      BY <1>6, <2>8 DEF ReceiverNext
    <3>2. sent[r] + 1 <= sent'[r]
      BY <2>1, <2>7, BoundsAssumption
    <3>3. /\ <<r, sent[r] + 1>>[1] = r
          /\ <<r, sent[r] + 1>>[2] = sent[r] + 1
      OBVIOUS
    <3>4. receiver' \in [Receivers -> [pc : ReceiverPcs, on : Transactions \cup {None},
                                       empty : BOOLEAN]]
      BY <2>5, <3>1
    <3>5. ReceiverHasTransaction'
      BY <2>5, <3>1, <3>2, <3>3
    <3> QED
      BY <1>6, <2>5, <2>6, <3>4, <3>5 DEF ReceiverNext, helper
  <2>9. CASE r \notin Confirmable
    <3>1. receiver' = [receiver EXCEPT ![v] = AtLoop]
      BY <1>6, <2>9 DEF ReceiverNext
    <3>2. receiver' \in [Receivers -> [pc : ReceiverPcs, on : Transactions \cup {None},
                                       empty : BOOLEAN]]
      BY <3>1
    <3>3. ReceiverHasTransaction'
      BY <2>5, <3>1
    <3> QED
      BY <1>6, <2>5, <2>6, <3>2, <3>3 DEF ReceiverNext, helper
  <2> QED
    BY <2>8, <2>9
<1>7. CASE ReceiverPrepare(v)
  <2>1. receiver[v].on \in Transactions
    BY <1>7 DEF ReceiverPrepare
  <2>2. /\ receiver' \in [Receivers -> [pc : ReceiverPcs, on : Transactions \cup {None},
                                        empty : BOOLEAN]]
        /\ ReceiverHasTransaction'
    BY <1>7, ReceiverMoves DEF ReceiverPrepare, exchange
  <2>3. /\ stop' \in [Transactions -> {"none", "clear", "set"}]
        /\ toBeStopped' \in Seq(Transactions)
    BY <1>7, <2>1 DEF ReceiverPrepare, Prepare
  <2> QED
    BY <1>7, <2>2, <2>3 DEF ReceiverPrepare, helper, exchange, TransactionsMade
<1>8. CASE ReceiverStart(v)
  <2>1. /\ receiver' \in [Receivers -> [pc : ReceiverPcs, on : Transactions \cup {None},
                                        empty : BOOLEAN]]
        /\ ReceiverHasTransaction'
    BY <1>8, ReceiverMoves DEF ReceiverStart, exchange
  <2>2. /\ retransmitter' \in [Transactions -> [pc : RetransmitterPcs,
                                              count : 0..MAX_RETRANSMIT + 1]]
        /\ WaitCounts'
    BY <1>8, RetransmitterMoves DEF ReceiverStart, StartRetransmission, RetransmitterPcs
  <2> QED
    BY <1>8, <2>1, <2>2 DEF ReceiverStart, helper, exchange, TransactionsMade
<1>9. CASE ReceiverCallback(v)
  <2>1. \E pc \in ReceiverPcs : ReceiverGoto(v, pc) \/ NextDatagram(v)
    BY <1>9 DEF ReceiverCallback
  <2>2. /\ receiver' \in [Receivers -> [pc : ReceiverPcs, on : Transactions \cup {None},
                                        empty : BOOLEAN]]
        /\ ReceiverHasTransaction'
    BY <1>9, <2>1, ReceiverMoves DEF ReceiverCallback, exchange
  <2> QED
    BY <1>9, <2>2 DEF ReceiverCallback, helper, exchange, TransactionsMade
<1>10. CASE ReceiverDeliver(v)
  <2>1. \E pc \in ReceiverPcs : ReceiverGoto(v, pc)
    BY <1>10 DEF ReceiverDeliver
  <2>2. /\ receiver' \in [Receivers -> [pc : ReceiverPcs, on : Transactions \cup {None},
                                        empty : BOOLEAN]]
        /\ ReceiverHasTransaction'
    BY <1>10, <2>1, ReceiverMoves DEF ReceiverDeliver, exchange
  <2> QED
    BY <1>10, <2>2 DEF ReceiverDeliver, helper, exchange, TransactionsMade
<1>11. CASE ReceiverRespond(v)
  <2>1. "ended" \in ReceiverPcs
    OBVIOUS
  <2>2. /\ receiver' \in [Receivers -> [pc : ReceiverPcs, on : Transactions \cup {None},
                                        empty : BOOLEAN]]
        /\ ReceiverHasTransaction'
    BY <1>11, <2>1, ReceiverMoves DEF ReceiverRespond, exchange
  <2>3. /\ contexts' \subseteq Requests /\ responded' \subseteq Requests
        /\ result' \in [Requests -> {"none", "response", "request"}] /\ returned' = returned
    BY <1>11, DeliverType DEF ReceiverRespond, helper
  <2> QED
    BY <1>11, <2>2, <2>3 DEF ReceiverRespond, exchange, TransactionsMade
<1> QED
  BY <1>1, <1>2, <1>3, <1>4, <1>5, <1>6, <1>7, <1>8, <1>9, <1>10, <1>11 DEF ReceiverStep

LEMMA RetransmitterTypeStep ==
  ASSUME TypeInv, NEW t \in Transactions, RetransmitterStep(t)
  PROVE  TypeInv'
<1> USE BoundsAssumption DEF TypeInv, TypeOK, ReceiverHasTransaction, TransactionsMade,
        WaitCounts, RetransmitterGoto, RetransmitterOnly, RetransmitterPcs, helper, exchange
<1>1. CASE RetransmitterWhile(t)
  BY <1>1 DEF RetransmitterWhile, MayRetransmit
<1>2. CASE RetransmitterWake(t)
  <2> DEFINE count == retransmitter[t].count + 1
  <2>1. count \in 0..MAX_RETRANSMIT + 1
    BY <1>2 DEF RetransmitterWake
  <2>2. CASE MustCount(t)
    <3>1. \E pc \in {"resend", "while"} :
            retransmitter' = [retransmitter EXCEPT ![t] = [pc |-> pc, count |-> count]]
      BY <1>2, <2>2 DEF RetransmitterWake
    <3>2. /\ retransmitter' \in [Transactions -> [pc : RetransmitterPcs,
                                                count : 0..MAX_RETRANSMIT + 1]]
          /\ WaitCounts'
      BY <2>1, <3>1
    <3> QED
      BY <1>2, <3>2 DEF RetransmitterWake
  <2>3. CASE ~MustCount(t)
    <3>1. retransmitter' = [retransmitter EXCEPT ![t] = [@ EXCEPT !.pc = "while"]]
      BY <1>2, <2>3 DEF RetransmitterWake
    <3>2. retransmitter' = [retransmitter EXCEPT ![t].pc = "while"]
      BY <3>1
    <3>3. /\ retransmitter' \in [Transactions -> [pc : RetransmitterPcs,
                                                count : 0..MAX_RETRANSMIT + 1]]
          /\ WaitCounts'
      BY <3>2, RetransmitterMoves
    <3> QED
      BY <1>2, <3>3 DEF RetransmitterWake
  <2> QED
    BY <2>2, <2>3
<1>3. CASE RetransmitterSend(t)
  <2>1. /\ retransmitter' \in [Transactions -> [pc : RetransmitterPcs,
                                              count : 0..MAX_RETRANSMIT + 1]]
        /\ WaitCounts'
    BY <1>3, RetransmitterMoves DEF RetransmitterSend
  <2>2. \/ UNCHANGED <<receiver, receiverThread>>
        \/ \E v \in Receivers : /\ receiver' = [receiver EXCEPT ![v] = AtLoop]
                                /\ receiverThread' = v
    BY <1>3 DEF RetransmitterSend, StartReceiver
  <2>3. /\ receiver' \in [Receivers -> [pc : ReceiverPcs, on : Transactions \cup {None},
                                        empty : BOOLEAN]]
        /\ receiverThread' \in Receivers \cup {None}
    <3>1. CASE UNCHANGED <<receiver, receiverThread>>
      BY <3>1
    <3>2. ASSUME NEW v \in Receivers, receiver' = [receiver EXCEPT ![v] = AtLoop],
                 receiverThread' = v
          PROVE  /\ receiver' \in [Receivers -> [pc : ReceiverPcs,
                                    on : Transactions \cup {None}, empty : BOOLEAN]]
                 /\ receiverThread' \in Receivers \cup {None}
      BY <3>2, AtLoopType
    <3> QED
      BY <2>2, <3>1, <3>2
  <2>4. ReceiverHasTransaction'
    BY <1>3, <2>2, AtLoopType DEF RetransmitterSend
  <2> QED
    BY <1>3, <2>1, <2>3, <2>4 DEF RetransmitterSend
<1>4. CASE RetransmitterIfAnswered(t)
  BY <1>4, ZenonT(60) DEF RetransmitterIfAnswered
<1>5. CASE RetransmitterGiveUp(t)
  BY <1>5 DEF RetransmitterGiveUp, M!Flags
<1>6. CASE RetransmitterCallback(t)
  BY <1>6 DEF RetransmitterCallback
<1>7. CASE RetransmitterDeliver(t)
  <2>1. \E pc \in {"if_timeouted", "dead"} :
          retransmitter' = [retransmitter EXCEPT ![t].pc = pc]
    BY <1>7 DEF RetransmitterDeliver
  <2>2. /\ retransmitter' \in [Transactions -> [pc : RetransmitterPcs,
                                              count : 0..MAX_RETRANSMIT + 1]]
        /\ WaitCounts'
    BY <2>1, RetransmitterMoves
  <2> QED
    BY <1>7, <2>2 DEF RetransmitterDeliver
<1>9. CASE RetransmitterIfTimeouted(t)
  <2>1. \E pc \in {"respond_none", "respond_request"} :
          retransmitter' = [retransmitter EXCEPT ![t].pc = pc]
    BY <1>9 DEF RetransmitterIfTimeouted
  <2>2. /\ retransmitter' \in [Transactions -> [pc : RetransmitterPcs,
                                              count : 0..MAX_RETRANSMIT + 1]]
        /\ WaitCounts'
    BY <2>1, RetransmitterMoves
  <2> QED
    BY <1>9, <2>2 DEF RetransmitterIfTimeouted
<1>10. CASE RetransmitterRespond(t)
  <2>1. retransmitter' = [retransmitter EXCEPT ![t].pc = "cleanup"]
    BY <1>10 DEF RetransmitterRespond
  <2>2. /\ retransmitter' \in [Transactions -> [pc : RetransmitterPcs,
                                              count : 0..MAX_RETRANSMIT + 1]]
        /\ WaitCounts'
    BY <2>1, RetransmitterMoves
  <2>3. /\ contexts' \subseteq Requests /\ responded' \subseteq Requests
        /\ result' \in [Requests -> {"none", "response", "request"}] /\ returned' = returned
    BY <1>10, DeliverType DEF RetransmitterRespond
  <2> QED
    BY <1>10, <2>2, <2>3 DEF RetransmitterRespond
<1>8. CASE RetransmitterCleanup(t)
  <2>1. toBeStopped' \in Seq(Transactions)
    BY <1>8, Removed DEF RetransmitterCleanup, ForgetEvent
  <2>2. /\ retransmitter' \in [Transactions -> [pc : RetransmitterPcs,
                                              count : 0..MAX_RETRANSMIT + 1]]
        /\ WaitCounts'
    BY <1>8, RetransmitterMoves DEF RetransmitterCleanup
  <2>3. stop' \in [Transactions -> {"none", "clear", "set"}]
    BY <1>8 DEF RetransmitterCleanup
  <2> QED
    BY <1>8, <2>1, <2>2, <2>3 DEF RetransmitterCleanup
<1> QED
  BY <1>1, <1>2, <1>3, <1>4, <1>5, <1>6, <1>7, <1>8, <1>9, <1>10 DEF RetransmitterStep

LEMMA CloserTypeStep ==
  ASSUME TypeInv, CloserStep \/ CloserBegin
  PROVE  TypeInv'
<1> USE DEF TypeInv, TypeOK, ReceiverHasTransaction, TransactionsMade, WaitCounts,
        CloserOnly, CloserPcs, helper, exchange
<1>1. CASE CloserBegin
  BY <1>1 DEF CloserBegin
<1>2. CASE CloserEvents
  <2>1. stop' \in [Transactions -> {"none", "clear", "set"}]
    <3>1. \/ stop' = stop
          \/ \E t : stop' = [stop EXCEPT ![t] = IF @ = "none" THEN @ ELSE "set"]
      BY <1>2 DEF CloserEvents
    <3>2. ASSUME NEW t, stop' = [stop EXCEPT ![t] = IF @ = "none" THEN @ ELSE "set"]
          PROVE  stop' \in [Transactions -> {"none", "clear", "set"}]
      BY <3>2
    <3> QED
      BY <3>1, <3>2
  <2>2. closer' \in [pc : CloserPcs, next : Nat, left : SUBSET Requests, all : SUBSET Requests]
    <3>1. \/ closer' = [closer EXCEPT !.pc = "join"]
          \/ closer' = [closer EXCEPT !.next = closer.next + 1]
      BY <1>2 DEF CloserEvents
    <3>2. closer.next + 1 \in Nat
      OBVIOUS
    <3> QED
      BY <3>1, <3>2
  <2> QED
    BY <1>2, <2>1, <2>2 DEF CloserEvents
<1>3. CASE CloserJoin
  BY <1>3 DEF CloserJoin
<1>4. CASE CloserLock
  BY <1>4 DEF CloserLock
<1>5. CASE CloserSignal
  <2>1. closer' \in [pc : CloserPcs, next : Nat, left : SUBSET Requests, all : SUBSET Requests]
    BY <1>5, ZenonT(60) DEF CloserSignal
  <2>2. \/ UNCHANGED helper
        \/ \E r \in Requests : /\ responded' = responded \cup ({r} \cap Blocking)
                               /\ UNCHANGED <<contexts, result, returned>>
    BY <1>5 DEF CloserSignal, Signal
  <2>3. /\ contexts' \subseteq Requests /\ responded' \subseteq Requests
        /\ result' \in [Requests -> {"none", "response", "request"}] /\ returned' = returned
    BY <2>2 DEF helper
  <2> QED
    BY <1>5, <2>1, <2>3 DEF CloserSignal
<1> QED
  BY <1>1, <1>2, <1>3, <1>4, <1>5 DEF CloserStep

LEMMA MessageTypeStep ==
  ASSUME TypeInv, NEW v \in Receivers, NEW t \in Transactions, NEW u \in Transactions,
         \/ ReceiveResponse(v, t, u)
         \/ \E type \in {"ACK", "RST"} : ReceiveEmpty(v, t, u, type)
  PROVE  TypeInv'
<1> USE DEF TypeInv, TypeOK, WaitCounts, ReceiverPcs
<1>1. ByToken(u, t) \/ ByMid(u, t)
  BY DEF ReceiveResponse, ReceiveEmpty
<1>2. Sent(t)
  BY DEF ReceiveResponse, ReceiveEmpty
<1>3. RequestOf(t) \in Requests /\ RequestOf(u) = RequestOf(t) /\ u[1] = RequestOf(u)
  BY <1>1 DEF ByToken, ByMid, Transactions, RequestOf, Latest
<1>4. u[2] <= sent[u[1]]
  <2>1. CASE ByToken(u, t)
    BY <2>1, BoundsAssumption DEF ByToken, Latest, RequestOf, Transactions
  <2>2. CASE ByMid(u, t)
    BY <1>2, <2>2 DEF ByMid, Sent, TransactionsMade
  <2> QED
    BY <1>1, <2>1, <2>2
<1>5. CASE ReceiveResponse(v, t, u)
  BY <1>3, <1>4, <1>5 DEF ReceiveResponse, ReceiverHasTransaction, TransactionsMade, helper, M!Flags
<1>6. ASSUME NEW type \in {"ACK", "RST"}, ReceiveEmpty(v, t, u, type) PROVE TypeInv'
  <2>1. flag' \in [Requests -> M!Flags]
    <3>1. \E f \in M!Flags : flag' = [flag EXCEPT ![RequestOf(t)] = f]
      <4>1. flag[RequestOf(t)] \in M!Flags
        BY <1>3
      <4>2. M!RequestFlagAfterEmpty(type, flag[RequestOf(t)]) \in M!Flags
        BY <4>1 DEF M!RequestFlagAfterEmpty, M!Flags
      <4>3. \/ flag' = flag
            \/ flag' = [flag EXCEPT ![RequestOf(t)] =
                          M!RequestFlagAfterEmpty(type, flag[RequestOf(t)])]
        BY <1>6 DEF ReceiveEmpty
      <4>4. flag = [flag EXCEPT ![RequestOf(t)] = flag[RequestOf(t)]]
        BY <1>3
      <4> QED
        BY <4>1, <4>2, <4>3, <4>4
    <3> QED
      BY <3>1
  <2>2. /\ receiver' \in [Receivers -> [pc : ReceiverPcs, on : Transactions \cup {None},
                                        empty : BOOLEAN]]
        /\ ReceiverHasTransaction'
    <3>1. CASE receiver' = [receiver EXCEPT ![v].pc = "dead"]
      <4>1. sent' = sent
        BY <1>6 DEF ReceiveEmpty
      <4>2. ReceiverHasTransaction'
        BY <3>1, <4>1 DEF ReceiverHasTransaction
      <4> QED
        BY <3>1, <4>2
    <3>2. CASE receiver' = [receiver EXCEPT ![v] = [pc |-> "if_event", on |-> u, empty |-> TRUE]]
      BY <1>4, <1>6, <3>2 DEF ReceiveEmpty, ReceiverHasTransaction
    <3> QED
      BY <1>6, <3>1, <3>2 DEF ReceiveEmpty, ReceiverGoto
  <2> QED
    BY <1>6, <2>1, <2>2 DEF ReceiveEmpty, TransactionsMade, helper
<1> QED
  BY <1>5, <1>6

\* Every variable keeps to its values (TypeOK), for any number of blocks and
\* repeated requests: a thread's transaction has been made, the mid of a further
\* request is new, and the counter passes MAX_RETRANSMIT by one at most.
THEOREM TypeCorrect == Spec => []TypeInv
<1>1. Init => TypeInv
  BY InitTypeInv
<1>2. TypeInv /\ [Next]_vars => TypeInv'
  <2> SUFFICES ASSUME TypeInv, [Next]_vars PROVE TypeInv'
    OBVIOUS
  <2>1. CASE UNCHANGED vars
    BY <2>1 DEF vars, helper, exchange, TypeInv, TypeOK, ReceiverHasTransaction,
       TransactionsMade, WaitCounts
  <2>2. CASE System
    BY <2>2, UserTypeStep, ReceiverTypeStep, RetransmitterTypeStep, CloserTypeStep DEF System
  <2>3. CASE Environment
    BY <2>3, UserTypeStep, MessageTypeStep, CloserTypeStep DEF Environment
  <2> QED
    BY <2>1, <2>2, <2>3 DEF Next
<1> QED
  BY <1>1, <1>2, PTL DEF Spec

\* The variables keep to their values.
THEOREM TypesHold == Spec => []TypeOK
<1>1. TypeInv => TypeOK
  BY DEF TypeInv
<1> QED
  BY <1>1, TypeCorrect, PTL

-----------------------------------------------------------------------------
(* The Events that close() finds.                                          *)

\* No retransmission has been prepared for t, or one has and is not started.
Fresh(t) == retransmitter[t].pc = "idle" /\ ~Kept(t)
Prepared(t) == retransmitter[t].pc = "idle" /\ Kept(t) /\ stop[t] # "none"

NoRepeats ==
  \A i, j \in 1..Len(toBeStopped) : toBeStopped[i] = toBeStopped[j] => i = j

FutureFresh == \A t \in Transactions : t[2] > sent[t[1]] => Fresh(t)

UsersReady ==
  \A r \in Requests :
    /\ user[r] \in {"idle", "send"} => sent[r] = 0
    /\ user[r] \in {"start_receiver", "prepare", "start"} => sent[r] >= 1
    /\ user[r] \in {"start_receiver", "prepare"} => Fresh(<<r, 1>>)
    /\ user[r] = "start" => Prepared(<<r, 1>>)

\* A receiver that is about to start a retransmission.
Starting(v) == receiver[v].pc \in {"prepare", "start"}

ReceiversReady ==
  \A v \in Receivers : Starting(v) =>
    /\ receiver[v].on[2] >= 2
    /\ receiver[v].pc = "prepare" => Fresh(receiver[v].on)
    /\ receiver[v].pc = "start" => Prepared(receiver[v].on)
    /\ \A w \in Receivers : Starting(w) /\ receiver[w].on = receiver[v].on => w = v

EventsInv == /\ NoRepeats /\ FutureFresh /\ UsersReady /\ ReceiversReady
             /\ EventsOfRunningRetransmissions

\* A step that prepares nothing, starts nothing and ends nothing.
LEMMA QuietStep ==
  ASSUME TypeInv, EventsInv, toBeStopped' = toBeStopped, sent' = sent,
         \A t \in Transactions : stop'[t] = "none" <=> stop[t] = "none",
         \A t \in Transactions :
            \/ retransmitter'[t].pc = retransmitter[t].pc
            \/ Running(t) /\ retransmitter'[t].pc \notin {"idle", "done"},
         \A v \in Receivers : Starting(v)' => receiver'[v] = receiver[v],
         \A r \in Requests :
            \/ user'[r] = user[r]
            \/ user[r] = "idle" /\ user'[r] = "send"
            \/ user[r] = "start_receiver" /\ user'[r] = "prepare"
            \/ user'[r] \in {"wait", "delete", "return", "done"}
  PROVE  EventsInv'
<1> USE DEF EventsInv, Fresh, Prepared, Running
<1>1. \A t : Kept(t)' <=> Kept(t)
  BY DEF Kept
<1>2. \A t \in Transactions : (Fresh(t) => Fresh(t)') /\ (Prepared(t) => Prepared(t)')
  BY <1>1
<1>3. NoRepeats'
  BY DEF NoRepeats
<1>4. FutureFresh'
  BY <1>2 DEF FutureFresh
<1>5. UsersReady'
  BY <1>2, FirstTransaction DEF UsersReady
<1>6. ReceiversReady'
  <2> SUFFICES ASSUME NEW v \in Receivers, Starting(v)'
               PROVE  /\ (receiver[v].on[2] >= 2)'
                      /\ (receiver[v].pc = "prepare" => Fresh(receiver[v].on))'
                      /\ (receiver[v].pc = "start" => Prepared(receiver[v].on))'
                      /\ \A w \in Receivers : (Starting(w) /\ receiver[w].on = receiver[v].on)'
                                                => w = v
    BY DEF ReceiversReady, Starting
  <2>1. receiver'[v] = receiver[v] /\ Starting(v)
    BY DEF Starting
  <2>2. \A w \in Receivers : Starting(w)' => receiver'[w] = receiver[w] /\ Starting(w)
    BY DEF Starting
  <2>3. PICK t \in Transactions : t = receiver[v].on
    BY <2>1 DEF Starting, TypeInv, ReceiverHasTransaction
  <2>4. /\ t[2] >= 2
        /\ receiver[v].pc = "prepare" => Fresh(t)
        /\ receiver[v].pc = "start" => Prepared(t)
        /\ \A w \in Receivers : Starting(w) /\ receiver[w].on = t => w = v
    BY <2>1, <2>3 DEF ReceiversReady
  <2> QED
    BY <1>2, <2>1, <2>2, <2>3, <2>4
<1>7. EventsOfRunningRetransmissions'
  BY <1>1 DEF EventsOfRunningRetransmissions
<1> QED
  BY <1>3, <1>4, <1>5, <1>6, <1>7

\* What is said of other transactions remains true of them.
OthersRemain(x) ==
  \A y \in Transactions : y # x => (Fresh(y) => Fresh(y)') /\ (Prepared(y) => Prepared(y)')

LEMMA MadeTransaction ==
  ASSUME TypeInv, NEW x \in Transactions, x[2] <= sent[x[1]]
  PROVE  \A t \in Transactions : t[2] > sent[t[1]] => t # x
<1>1. x[2] \in Nat /\ sent[x[1]] \in Nat
  BY BoundsAssumption DEF Transactions, TypeInv, TypeOK
<1> QED
  BY <1>1

LEMMA PrepareStep ==
  ASSUME TypeInv, EventsInv, NEW x \in Transactions, x[2] <= sent[x[1]], Fresh(x), Prepare(x),
         sent' = sent, retransmitter' = retransmitter
  PROVE  /\ NoRepeats' /\ FutureFresh' /\ EventsOfRunningRetransmissions'
         /\ OthersRemain(x) /\ Prepared(x)'
<1>1. toBeStopped \in Seq(Transactions) /\ stop \in [Transactions -> {"none", "clear", "set"}]
  BY DEF TypeInv, TypeOK
<1>2. toBeStopped' = Append(toBeStopped, x) /\ stop' = [stop EXCEPT ![x] = "clear"]
  BY DEF Prepare
<1>3. /\ Len(toBeStopped) \in Nat /\ Len(toBeStopped') = Len(toBeStopped) + 1
      /\ \A i \in 1..Len(toBeStopped) : toBeStopped'[i] = toBeStopped[i]
      /\ toBeStopped'[Len(toBeStopped) + 1] = x
  BY <1>1, <1>2
<1>4. \A y : Kept(y)' <=> Kept(y) \/ y = x
  BY <1>3 DEF Kept
<1>5. NoRepeats'
  BY <1>3 DEF NoRepeats, EventsInv, Fresh, Kept
<1>6. OthersRemain(x) /\ Prepared(x)'
  BY <1>1, <1>2, <1>4 DEF OthersRemain, Fresh, Prepared
<1>7. FutureFresh'
  BY <1>6, MadeTransaction DEF FutureFresh, EventsInv, OthersRemain
<1>8. EventsOfRunningRetransmissions'
  BY <1>1, <1>2, <1>4 DEF EventsOfRunningRetransmissions, EventsInv, Running, Fresh
<1> QED
  BY <1>5, <1>6, <1>7, <1>8

LEMMA StartStep ==
  ASSUME TypeInv, EventsInv, NEW x \in Transactions, x[2] <= sent[x[1]], Prepared(x),
         StartRetransmission(x), sent' = sent, stop' = stop, toBeStopped' = toBeStopped
  PROVE  /\ NoRepeats' /\ FutureFresh' /\ EventsOfRunningRetransmissions'
         /\ OthersRemain(x)
<1>1. retransmitter \in [Transactions -> [pc : RetransmitterPcs, count : 0..MAX_RETRANSMIT + 1]]
  BY DEF TypeInv, TypeOK
<1>2. retransmitter' = [retransmitter EXCEPT ![x].pc = "while"]
  BY DEF StartRetransmission
<1>3. /\ \A y : Kept(y)' <=> Kept(y)
      /\ NoRepeats'
  BY DEF Kept, NoRepeats, EventsInv
<1>4. /\ retransmitter'[x].pc = "while"
      /\ \A y \in Transactions : y # x => retransmitter'[y] = retransmitter[y]
  BY <1>1, <1>2
<1>5. OthersRemain(x)
  BY <1>3, <1>4 DEF OthersRemain, Fresh, Prepared
<1>6. FutureFresh'
  BY <1>5, MadeTransaction DEF FutureFresh, EventsInv, OthersRemain
<1>7. EventsOfRunningRetransmissions'
  BY <1>3, <1>4 DEF EventsOfRunningRetransmissions, EventsInv, Running, Prepared
<1> QED
  BY <1>3, <1>5, <1>6, <1>7

\* A user that prepares or starts the retransmission of its first transaction.
LEMMA UserAdvances ==
  ASSUME TypeInv, EventsInv, NEW r \in Requests, OthersRemain(<<r, 1>>),
         NEW pc \in {"start", "wait", "done"}, pc = "start" => Prepared(<<r, 1>>)',
         user[r] \in {"prepare", "start"}, user' = [user EXCEPT ![r] = pc],
         sent' = sent, receiver' = receiver
  PROVE  UsersReady' /\ ReceiversReady'
<1>1. user \in [Requests -> UserPcs]
  BY DEF TypeInv, TypeOK
<1>2. ASSUME NEW q \in Requests, q # r
      PROVE  (Fresh(<<q, 1>>) => Fresh(<<q, 1>>)') /\ (Prepared(<<q, 1>>) => Prepared(<<q, 1>>)')
  BY <1>2, FirstTransaction DEF OthersRemain
<1>3. UsersReady'
  <2>1. user'[r] = pc /\ \A q \in Requests : q # r => user'[q] = user[q]
    BY <1>1
  <2>2. sent[r] >= 1
    BY DEF UsersReady, EventsInv
  <2> QED
    BY <1>2, <2>1, <2>2 DEF UsersReady, EventsInv
<1>4. ReceiversReady'
  <2> SUFFICES ASSUME NEW v \in Receivers, Starting(v)
               PROVE  /\ receiver[v].pc = "prepare" => Fresh(receiver[v].on)'
                      /\ receiver[v].pc = "start" => Prepared(receiver[v].on)'
    BY DEF ReceiversReady, Starting, EventsInv
  <2>1. PICK t \in Transactions : t = receiver[v].on
    BY DEF Starting, TypeInv, ReceiverHasTransaction
  <2>2. /\ t[2] >= 2
        /\ receiver[v].pc = "prepare" => Fresh(t)
        /\ receiver[v].pc = "start" => Prepared(t)
    BY <2>1 DEF ReceiversReady, EventsInv
  <2>3. t # <<r, 1>>
    BY <2>2
  <2> QED
    BY <2>1, <2>2, <2>3 DEF OthersRemain
<1> QED
  BY <1>3, <1>4

\* A receiver that does so for a further transaction.
LEMMA ReceiverAdvances ==
  ASSUME TypeInv, EventsInv, NEW v \in Receivers, NEW x \in Transactions,
         Starting(v), receiver[v].on = x, OthersRemain(x), user' = user, sent' = sent,
         \/ receiver' = [receiver EXCEPT ![v].pc = "start"] /\ Prepared(x)'
         \/ receiver' = [receiver EXCEPT ![v] = AtLoop]
  PROVE  UsersReady' /\ ReceiversReady'
<1>1. x[2] >= 2
  BY DEF ReceiversReady, EventsInv
<1>2. \A r \in Requests : <<r, 1>> \in Transactions /\ <<r, 1>> # x
  <2> SUFFICES ASSUME NEW r \in Requests, <<r, 1>> = x PROVE FALSE
    BY FirstTransaction
  <2>1. x[2] = 1
    OBVIOUS
  <2> QED
    BY <1>1, <2>1
<1>3. UsersReady'
  <2>1. \A r \in Requests : /\ Fresh(<<r, 1>>) => Fresh(<<r, 1>>)'
                            /\ Prepared(<<r, 1>>) => Prepared(<<r, 1>>)'
    BY <1>2 DEF OthersRemain
  <2> QED
    BY <2>1 DEF UsersReady, EventsInv
<1>4. receiver \in [Receivers -> [pc : ReceiverPcs, on : Transactions \cup {None}, empty : BOOLEAN]]
  BY DEF TypeInv, TypeOK
<1>5. /\ Starting(v)' => receiver'[v].pc = "start" /\ receiver'[v].on = x /\ Prepared(x)'
      /\ \A w \in Receivers : w # v => receiver'[w] = receiver[w]
  BY <1>4, AtLoopType DEF Starting
<1>6. ASSUME NEW w \in Receivers, w # v, Starting(w)
      PROVE  /\ receiver[w].on \in Transactions /\ receiver[w].on # x
             /\ receiver[w].pc = "prepare" => Fresh(receiver[w].on)
             /\ receiver[w].pc = "start" => Prepared(receiver[w].on)
             /\ receiver[w].on[2] >= 2
  BY <1>6 DEF ReceiversReady, EventsInv, Starting, TypeInv, ReceiverHasTransaction
<1>7. ReceiversReady'
  <2> SUFFICES ASSUME NEW w \in Receivers, Starting(w)'
               PROVE  /\ (receiver[w].on[2] >= 2)'
                      /\ (receiver[w].pc = "prepare" => Fresh(receiver[w].on))'
                      /\ (receiver[w].pc = "start" => Prepared(receiver[w].on))'
                      /\ \A u \in Receivers : (Starting(u) /\ receiver[u].on = receiver[w].on)'
                                                => u = w
    BY DEF ReceiversReady, Starting
  <2>1. \A u \in Receivers : u # v /\ Starting(u)' => Starting(u)
    BY <1>5 DEF Starting
  <2>2. CASE w = v
    BY <1>1, <1>5, <1>6, <2>1, <2>2
  <2>3. CASE w # v
    <3>1. receiver'[w] = receiver[w] /\ Starting(w)
      BY <1>5, <2>1, <2>3
    <3>2. PICK t \in Transactions : t = receiver[w].on
      BY <1>6, <2>3, <3>1
    <3>3. /\ t # x /\ t[2] >= 2
          /\ receiver[w].pc = "prepare" => Fresh(t)
          /\ receiver[w].pc = "start" => Prepared(t)
      BY <1>6, <2>3, <3>1, <3>2
    <3>4. (Fresh(t) => Fresh(t)') /\ (Prepared(t) => Prepared(t)')
      BY <3>3 DEF OthersRemain
    <3>5. \A u \in Receivers : (Starting(u) /\ receiver[u].on = receiver[w].on)' => u = w
      <4> SUFFICES ASSUME NEW u \in Receivers, Starting(u)', receiver'[u].on = t
                   PROVE  u = w
        BY <3>1, <3>2
      <4>1. CASE u = v
        BY <1>5, <3>3, <4>1
      <4>2. CASE u # v
        BY <1>5, <2>1, <3>1, <3>2, <4>2 DEF ReceiversReady, EventsInv
      <4> QED
        BY <4>1, <4>2
    <3> QED
      BY <3>1, <3>2, <3>3, <3>4, <3>5
  <2> QED
    BY <2>2, <2>3
<1> QED
  BY <1>3, <1>7

LEMMA UserEventsStep ==
  ASSUME TypeInv, EventsInv, NEW r \in Requests, UserStep(r) \/ UserRegister(r)
  PROVE  EventsInv'
<1>1. user \in [Requests -> UserPcs] /\ sent \in [Requests -> 0..MaxTransactions]
  BY DEF TypeInv, TypeOK
<1>2. user[r] \in {"start_receiver", "prepare", "start"} => sent[r] >= 1
  BY DEF EventsInv, UsersReady
<1>3. ASSUME NEW pc, user' = [user EXCEPT ![r] = pc],
             \/ user[r] = "idle" /\ pc = "send"
             \/ user[r] = "start_receiver" /\ pc = "prepare"
             \/ pc \in {"wait", "delete", "return", "done"},
             UNCHANGED <<exchange, stop, toBeStopped, retransmitter>>,
             \/ receiver' = receiver
             \/ \E v \in Receivers : receiver' = [receiver EXCEPT ![v] = AtLoop]
      PROVE  EventsInv'
  <2>1. \A v \in Receivers : Starting(v)' => receiver'[v] = receiver[v]
    BY <1>3, AtLoopType DEF Starting, TypeInv, TypeOK
  <2>2. \A q \in Requests : q # r => user'[q] = user[q]
    BY <1>1, <1>3
  <2>3. user'[r] = pc
    BY <1>1, <1>3
  <2> QED
    BY <1>3, <2>1, <2>2, <2>3, QuietStep DEF exchange
<1>4. CASE UserRegister(r)
  BY <1>3, <1>4 DEF UserRegister, UserGoto
<1>5. CASE UserStartReceiver(r)
  BY <1>3, <1>5 DEF UserStartReceiver, StartReceiver, UserGoto, AfterSend
<1>6. CASE UserWake(r)
  BY <1>3, <1>6 DEF UserWake, UserGoto
<1>7. CASE UserDelete(r) \/ UserReturn(r)
  BY <1>3, <1>7 DEF UserDelete, UserReturn, UserGoto, exchange
<1>8. CASE UserSend(r)
  <2>1. sent[r] = 0 /\ sent' = [sent EXCEPT ![r] = @ + 1]
    BY <1>8 DEF UserSend, NewTransaction, EventsInv, UsersReady
  <2>2. \E pc \in {"start_receiver", "prepare", "wait", "done"} : user' = [user EXCEPT ![r] = pc]
    BY <1>8 DEF UserSend, UserGoto, AfterSend
  <2>3. UNCHANGED <<stop, toBeStopped, receiver, retransmitter>>
    BY <1>8 DEF UserSend
  <2>4. \A t : (Kept(t)' <=> Kept(t)) /\ (Fresh(t)' <=> Fresh(t)) /\ (Prepared(t)' <=> Prepared(t))
    BY <2>3 DEF Kept, Fresh, Prepared
  <2>5. Fresh(<<r, 1>>)
    BY <2>1, FirstTransaction DEF EventsInv, FutureFresh
  <2>6. FutureFresh'
    <3>1. \A t \in Transactions : t[1] \in Requests /\ t[2] \in Nat
      BY BoundsAssumption DEF Transactions
    <3>2. \A t \in Transactions : t[2] > sent'[t[1]] => t[2] > sent[t[1]]
      BY <1>1, <2>1, <3>1
    <3> QED
      BY <2>4, <3>2 DEF EventsInv, FutureFresh
  <2>7. UsersReady'
    <3>1. \A q \in Requests : /\ Fresh(<<q, 1>>)' <=> Fresh(<<q, 1>>)
                              /\ Prepared(<<q, 1>>)' <=> Prepared(<<q, 1>>)
      BY <2>4
    <3>2. /\ sent'[r] = 1
          /\ \A q \in Requests : q # r => sent'[q] = sent[q] /\ user'[q] = user[q]
      BY <1>1, <2>1, <2>2, BoundsAssumption
    <3>3. user'[r] \in {"start_receiver", "prepare", "wait", "done"}
      BY <1>1, <2>2
    <3>4. /\ user'[r] \notin {"idle", "send", "start"} /\ sent'[r] >= 1
          /\ Fresh(<<r, 1>>)'
      BY <2>5, <3>1, <3>2, <3>3
    <3> QED
      BY <3>1, <3>2, <3>4 DEF EventsInv, UsersReady
  <2>8. NoRepeats' /\ ReceiversReady' /\ EventsOfRunningRetransmissions'
    BY <2>3, <2>4 DEF EventsInv, NoRepeats, ReceiversReady, Starting,
       EventsOfRunningRetransmissions, Running
  <2> QED
    BY <2>6, <2>7, <2>8 DEF EventsInv
<1>9. CASE UserPrepare(r)
  <2>1. Fresh(<<r, 1>>) /\ user[r] = "prepare" /\ 1 <= sent[r]
    BY <1>1, <1>2, <1>9 DEF UserPrepare, EventsInv, UsersReady
  <2>2. /\ NoRepeats' /\ FutureFresh' /\ EventsOfRunningRetransmissions'
        /\ OthersRemain(<<r, 1>>) /\ Prepared(<<r, 1>>)'
    BY <1>9, <2>1, FirstTransaction, PrepareStep DEF UserPrepare, exchange
  <2>3. UsersReady' /\ ReceiversReady'
    BY <1>9, <2>1, <2>2, UserAdvances DEF UserPrepare, UserGoto, exchange
  <2> QED
    BY <2>2, <2>3 DEF EventsInv
<1>10. CASE UserStart(r)
  <2>1. Prepared(<<r, 1>>) /\ user[r] = "start" /\ 1 <= sent[r]
    BY <1>1, <1>2, <1>10 DEF UserStart, EventsInv, UsersReady
  <2>2. /\ NoRepeats' /\ FutureFresh' /\ EventsOfRunningRetransmissions'
        /\ OthersRemain(<<r, 1>>)
    BY <1>10, <2>1, FirstTransaction, StartStep DEF UserStart, exchange
  <2>3. UsersReady' /\ ReceiversReady'
    BY <1>10, <2>1, <2>2, UserAdvances DEF UserStart, UserGoto, exchange
  <2> QED
    BY <2>2, <2>3 DEF EventsInv
<1> QED
  BY <1>4, <1>5, <1>6, <1>7, <1>8, <1>9, <1>10 DEF UserStep

LEMMA ReceiverEventsStep ==
  ASSUME TypeInv, EventsInv, NEW v \in Receivers, ReceiverStep(v)
  PROVE  EventsInv'
<1>1. receiver \in [Receivers -> [pc : ReceiverPcs, on : Transactions \cup {None}, empty : BOOLEAN]]
  BY DEF TypeInv, TypeOK
<1>2. ASSUME UNCHANGED <<sent, toBeStopped, user, retransmitter>>,
             \A t \in Transactions : stop'[t] = "none" <=> stop[t] = "none",
             \/ NextDatagram(v)
             \/ \E pc \in ReceiverPcs \ {"prepare", "start"} : ReceiverGoto(v, pc)
      PROVE  EventsInv'
  <2>1. \A w \in Receivers : Starting(w)' => receiver'[w] = receiver[w]
    BY <1>1, <1>2, AtLoopType DEF Starting, NextDatagram, ReceiverGoto
  <2> QED
    BY <1>2, <2>1, QuietStep
<1>3. CASE ReceiverTimeout(v) \/ ReceiverIfEvent(v) \/ ReceiverWait(v) \/ ReceiverBlock(v)
  BY <1>2, <1>3 DEF ReceiverTimeout, ReceiverIfEvent, ReceiverWait, ReceiverBlock, AfterEvent,
     ReceiverPcs, exchange
<1>4. CASE ReceiverSetEvent(v)
  <2>1. \A t \in Transactions : stop'[t] = "none" <=> stop[t] = "none"
    BY <1>4 DEF ReceiverSetEvent, TypeInv, TypeOK
  <2> QED
    BY <1>2, <1>4, <2>1 DEF ReceiverSetEvent, AfterEvent, ReceiverPcs, exchange
<1>5. CASE ReceiverCallback(v) \/ ReceiverDeliver(v) \/ ReceiverRespond(v)
  BY <1>2, <1>5 DEF ReceiverCallback, ReceiverDeliver, ReceiverRespond, ReceiverPcs, exchange
<1>6. CASE ReceiverNext(v)
  <2> DEFINE t == receiver[v].on
             r == RequestOf(t)
  <2>1. /\ r \in Requests /\ sent[r] \in Nat /\ sent[r] >= 1
        /\ sent \in [Requests -> 0..MaxTransactions]
    <3>1. t \in Transactions /\ t[2] <= sent[t[1]] /\ sent \in [Requests -> 0..MaxTransactions]
      BY <1>6 DEF ReceiverNext, TypeInv, TypeOK, ReceiverHasTransaction
    <3>2. t[1] \in Requests /\ t[2] \in Nat /\ t[2] >= 1
      BY <3>1, BoundsAssumption DEF Transactions
    <3> QED
      BY <3>1, <3>2, BoundsAssumption DEF RequestOf
  <2>2. sent[r] < MaxTransactions /\ sent' = [sent EXCEPT ![r] = @ + 1]
    BY <1>6 DEF ReceiverNext, NewTransaction
  <2>3. UNCHANGED <<stop, toBeStopped, user, retransmitter>>
    BY <1>6 DEF ReceiverNext
  <2>4. \A u : (Kept(u)' <=> Kept(u)) /\ (Fresh(u)' <=> Fresh(u)) /\ (Prepared(u)' <=> Prepared(u))
    BY <2>3 DEF Kept, Fresh, Prepared
  <2>5. PICK new \in Transactions : /\ new = <<r, sent[r] + 1>>
                                    /\ new[1] = r /\ new[2] = sent[r] + 1
    <3>1. sent[r] + 1 \in 1..MaxTransactions
      BY <2>1, <2>2, BoundsAssumption
    <3>2. <<r, sent[r] + 1>> \in Transactions
      BY <2>1, <3>1 DEF Transactions
    <3> QED
      BY <3>2
  <2>6. Fresh(new)
    <3>1. new[2] > sent[new[1]]
      BY <2>1, <2>5
    <3> QED
      BY <2>5, <3>1 DEF EventsInv, FutureFresh
  <2>7. FutureFresh'
    <3>1. \A u \in Transactions : u[1] \in Requests /\ u[2] \in Nat
      BY BoundsAssumption DEF Transactions
    <3>2. \A u \in Transactions : u[2] > sent'[u[1]] => u[2] > sent[u[1]]
      BY <2>1, <2>2, <3>1
    <3> QED
      BY <2>4, <3>2 DEF EventsInv, FutureFresh
  <2>8. UsersReady'
    <3>1. \A q \in Requests : /\ Fresh(<<q, 1>>)' <=> Fresh(<<q, 1>>)
                              /\ Prepared(<<q, 1>>)' <=> Prepared(<<q, 1>>)
      BY <2>4
    <3>2. /\ sent'[r] = sent[r] + 1
          /\ \A q \in Requests : q # r => sent'[q] = sent[q]
      BY <2>1, <2>2
    <3>3. \A q \in Requests : sent[q] >= 1 => sent'[q] >= 1
      BY <2>1, <3>2
    <3>4. user[r] \notin {"idle", "send"}
      <4>1. user[r] \in {"idle", "send"} => sent[r] = 0
        BY <2>1 DEF EventsInv, UsersReady
      <4> HIDE DEF r
      <4> QED
        BY <2>1, <4>1
    <3>5. \A q \in Requests : user[q] \in {"idle", "send"} => sent'[q] = 0
      BY <3>2, <3>4 DEF EventsInv, UsersReady
    <3> QED
      BY <2>3, <3>1, <3>3, <3>5 DEF EventsInv, UsersReady
  <2>9. NoRepeats' /\ EventsOfRunningRetransmissions'
    BY <2>3, <2>4 DEF EventsInv, NoRepeats, EventsOfRunningRetransmissions, Running
  <2>10. /\ Starting(v)' => receiver'[v].pc = "prepare" /\ receiver'[v].on = new
         /\ \A w \in Receivers : w # v => receiver'[w] = receiver[w]
    <3>1. \/ receiver' = [receiver EXCEPT ![v] = [@ EXCEPT !.pc = "prepare", !.on = new]]
          \/ receiver' = [receiver EXCEPT ![v] = AtLoop]
      BY <1>6, <2>5 DEF ReceiverNext, NextDatagram
    <3> QED
      BY <1>1, <3>1, AtLoopType DEF Starting
  <2>11. ReceiversReady'
    <3> SUFFICES ASSUME NEW w \in Receivers, Starting(w)'
                 PROVE  /\ (receiver[w].on[2] >= 2)'
                        /\ (receiver[w].pc = "prepare" => Fresh(receiver[w].on))'
                        /\ (receiver[w].pc = "start" => Prepared(receiver[w].on))'
                        /\ \A u \in Receivers : (Starting(u) /\ receiver[u].on = receiver[w].on)'
                                                  => u = w
      BY DEF ReceiversReady, Starting
    <3>1. ASSUME NEW u \in Receivers, u # v, Starting(u)'
          PROVE  /\ Starting(u) /\ receiver'[u] = receiver[u]
                 /\ receiver'[u].on # new
      <4>1. Starting(u) /\ receiver'[u] = receiver[u]
        BY <2>10, <3>1 DEF Starting
      <4>2. receiver[u].on[2] <= sent[receiver[u].on[1]]
        BY <4>1 DEF Starting, TypeInv, ReceiverHasTransaction
      <4> QED
        BY <2>1, <2>5, <4>1, <4>2
    <3>2. CASE w = v
      <4>1. receiver'[w].pc = "prepare" /\ receiver'[w].on = new
        BY <2>10, <3>2
      <4>2. Fresh(new)' /\ new[2] >= 2
        BY <2>1, <2>4, <2>5, <2>6
      <4>3. ASSUME NEW u \in Receivers, Starting(u)', receiver'[u].on = new PROVE u = w
        BY <3>1, <3>2, <4>3
      <4> QED
        BY <4>1, <4>2, <4>3
    <3>3. CASE w # v
      <4>1. PICK x \in Transactions : x = receiver[w].on
        BY <3>1, <3>3 DEF Starting, TypeInv, ReceiverHasTransaction
      <4>2. /\ Starting(w) /\ receiver'[w] = receiver[w] /\ x # new
            /\ x[2] >= 2
            /\ receiver[w].pc = "prepare" => Fresh(x)
            /\ receiver[w].pc = "start" => Prepared(x)
        BY <3>1, <3>3, <4>1 DEF EventsInv, ReceiversReady
      <4>3. ASSUME NEW u \in Receivers, Starting(u)', receiver'[u].on = x PROVE u = w
        <5>1. CASE u = v
          BY <2>10, <4>2, <4>3, <5>1
        <5>2. CASE u # v
          BY <3>1, <4>1, <4>2, <4>3, <5>2 DEF EventsInv, ReceiversReady
        <5> QED
          BY <5>1, <5>2
      <4> QED
        BY <2>4, <4>1, <4>2, <4>3
    <3> QED
      BY <3>2, <3>3
  <2> QED
    BY <2>7, <2>8, <2>9, <2>11 DEF EventsInv
<1>7. CASE ReceiverPrepare(v)
  <2>1. PICK x \in Transactions : x = receiver[v].on
    BY <1>7 DEF ReceiverPrepare, TypeInv, ReceiverHasTransaction
  <2>2. Starting(v) /\ x[2] <= sent[x[1]] /\ Fresh(x)
    BY <1>7, <2>1 DEF ReceiverPrepare, Starting, TypeInv, ReceiverHasTransaction, EventsInv, ReceiversReady
  <2>3. /\ NoRepeats' /\ FutureFresh' /\ EventsOfRunningRetransmissions'
        /\ OthersRemain(x) /\ Prepared(x)'
    BY <1>7, <2>1, <2>2, PrepareStep DEF ReceiverPrepare, exchange
  <2>4. UsersReady' /\ ReceiversReady'
    BY <1>7, <2>1, <2>2, <2>3, ReceiverAdvances DEF ReceiverPrepare, ReceiverGoto, exchange
  <2> QED
    BY <2>3, <2>4 DEF EventsInv
<1>8. CASE ReceiverStart(v)
  <2>1. PICK x \in Transactions : x = receiver[v].on
    BY <1>8 DEF ReceiverStart, TypeInv, ReceiverHasTransaction
  <2>2. Starting(v) /\ x[2] <= sent[x[1]] /\ Prepared(x)
    BY <1>8, <2>1 DEF ReceiverStart, Starting, TypeInv, ReceiverHasTransaction, EventsInv, ReceiversReady
  <2>3. NoRepeats' /\ FutureFresh' /\ EventsOfRunningRetransmissions' /\ OthersRemain(x)
    BY <1>8, <2>1, <2>2, StartStep DEF ReceiverStart, exchange
  <2>4. UsersReady' /\ ReceiversReady'
    BY <1>8, <2>1, <2>2, <2>3, ReceiverAdvances DEF ReceiverStart, NextDatagram, exchange
  <2> QED
    BY <2>3, <2>4 DEF EventsInv
<1> QED
  BY <1>3, <1>4, <1>5, <1>6, <1>7, <1>8 DEF ReceiverStep

LEMMA RetransmitterEventsStep ==
  ASSUME TypeInv, EventsInv, NEW t \in Transactions, RetransmitterStep(t)
  PROVE  EventsInv'
<1>1. /\ retransmitter \in [Transactions -> [pc : RetransmitterPcs, count : 0..MAX_RETRANSMIT + 1]]
      /\ stop \in [Transactions -> {"none", "clear", "set"}]
      /\ toBeStopped \in Seq(Transactions)
  BY DEF TypeInv, TypeOK
<1>2. ASSUME UNCHANGED <<sent, toBeStopped, stop, user>>, Running(t),
             \A u \in Transactions : u # t => retransmitter'[u] = retransmitter[u],
             retransmitter'[t].pc \notin {"idle", "done"},
             \/ receiver' = receiver
             \/ \E v \in Receivers : receiver' = [receiver EXCEPT ![v] = AtLoop]
      PROVE  EventsInv'
  <2>1. \A v \in Receivers : Starting(v)' => receiver'[v] = receiver[v]
    BY <1>2, AtLoopType DEF Starting, TypeInv, TypeOK
  <2> QED
    BY <1>2, <2>1, QuietStep
<1>3. CASE RetransmitterWhile(t) \/ RetransmitterIfAnswered(t) \/ RetransmitterCallback(t)
  BY <1>1, <1>2, <1>3 DEF RetransmitterWhile, RetransmitterIfAnswered, RetransmitterCallback,
     RetransmitterOnly, RetransmitterGoto, Running, exchange
<1>4. CASE RetransmitterWake(t)
  <2>1. \/ \E pc \in {"resend", "while"} : \E count : retransmitter' =
             [retransmitter EXCEPT ![t] = [pc |-> pc, count |-> count]]
        \/ retransmitter' = [retransmitter EXCEPT ![t] = [@ EXCEPT !.pc = "while"]]
    BY <1>4 DEF RetransmitterWake
  <2>2. /\ \A u \in Transactions : u # t => retransmitter'[u] = retransmitter[u]
        /\ retransmitter'[t].pc \in {"resend", "while"}
    BY <1>1, <2>1
  <2> QED
    BY <1>2, <1>4, <2>2 DEF RetransmitterWake, RetransmitterOnly, Running, exchange
<1>5. CASE RetransmitterGiveUp(t) \/ RetransmitterDeliver(t)
  BY <1>1, <1>2, <1>5 DEF RetransmitterGiveUp, RetransmitterDeliver, RetransmitterOnly,
     RetransmitterGoto, Running, exchange
<1>8. CASE RetransmitterIfTimeouted(t) \/ RetransmitterRespond(t)
  BY <1>1, <1>2, <1>8 DEF RetransmitterIfTimeouted, RetransmitterRespond, RetransmitterOnly,
     RetransmitterGoto, Running, exchange
<1>6. CASE RetransmitterSend(t)
  BY <1>1, <1>2, <1>6 DEF RetransmitterSend, StartReceiver, RetransmitterGoto, Running, exchange
<1>7. CASE RetransmitterCleanup(t)
  <2>1. /\ retransmitter' = [retransmitter EXCEPT ![t].pc = "done"]
        /\ stop' = [stop EXCEPT ![t] = "none"] /\ ForgetEvent(t)
        /\ UNCHANGED <<sent, user, receiver>> /\ retransmitter[t].pc = "cleanup"
    BY <1>7 DEF RetransmitterCleanup, RetransmitterGoto, exchange
  <2>2. Kept(t)
    BY <2>1 DEF EventsInv, EventsOfRunningRetransmissions, Running
  <2>3. PICK i \in 1..Len(toBeStopped) :
          toBeStopped[i] = t /\ toBeStopped' = RemoveAt(toBeStopped, i)
    BY <2>1, <2>2 DEF ForgetEvent, Kept
  <2>4. /\ Len(toBeStopped) \in Nat /\ Len(toBeStopped') = Len(toBeStopped) - 1
        /\ \A j \in 1..(Len(toBeStopped) - 1) :
             toBeStopped'[j] = IF j < i THEN toBeStopped[j] ELSE toBeStopped[j + 1]
    BY <1>1, <2>3, Removed, SMTT(30)
  <2>5. \A j, k \in 1..Len(toBeStopped) : toBeStopped[j] = toBeStopped[k] => j = k
    BY DEF EventsInv, NoRepeats
  <2>6. NoRepeats'
    BY <2>4, <2>5 DEF NoRepeats
  <2>7. ~Kept(t)'
    BY <2>3, <2>4, <2>5 DEF Kept
  <2>8. ASSUME NEW u, u # t PROVE Kept(u)' <=> Kept(u)
    <3>1. Kept(u)' => Kept(u)
      BY <2>4 DEF Kept
    <3>2. ASSUME NEW j \in 1..Len(toBeStopped), toBeStopped[j] = u PROVE Kept(u)'
      <4>1. CASE j < i
        BY <2>4, <3>2, <4>1 DEF Kept
      <4>2. CASE j > i
        <5>1. j - 1 \in 1..(Len(toBeStopped) - 1) /\ ~(j - 1 < i) /\ (j - 1) + 1 = j
          BY <2>4, <4>2
        <5> QED
          BY <2>4, <3>2, <5>1 DEF Kept
      <4>3. j # i
        BY <2>3, <2>8, <3>2
      <4> QED
        BY <2>4, <4>1, <4>2, <4>3
    <3> QED
      BY <3>1, <3>2 DEF Kept
  <2>9. \A u \in Transactions : (Fresh(u) => Fresh(u)') /\ (Prepared(u) => Prepared(u)')
    BY <1>1, <2>1, <2>8 DEF Fresh, Prepared
  <2>10. FutureFresh'
    BY <2>1, <2>9 DEF EventsInv, FutureFresh
  <2>11. UsersReady'
    <3>1. \A r \in Requests : /\ Fresh(<<r, 1>>) => Fresh(<<r, 1>>)'
                              /\ Prepared(<<r, 1>>) => Prepared(<<r, 1>>)'
      BY <2>9, FirstTransaction
    <3> QED
      BY <2>1, <3>1 DEF EventsInv, UsersReady
  <2>12. ReceiversReady'
    <3> SUFFICES ASSUME NEW v \in Receivers, Starting(v)
                 PROVE  /\ receiver[v].pc = "prepare" => Fresh(receiver[v].on)'
                        /\ receiver[v].pc = "start" => Prepared(receiver[v].on)'
      BY <2>1 DEF ReceiversReady, Starting, EventsInv
    <3>1. PICK x \in Transactions : x = receiver[v].on
      BY DEF Starting, TypeInv, ReceiverHasTransaction
    <3>2. /\ receiver[v].pc = "prepare" => Fresh(x)
          /\ receiver[v].pc = "start" => Prepared(x)
      BY <3>1 DEF EventsInv, ReceiversReady
    <3>3. receiver' = receiver
      BY <2>1
    <3> QED
      BY <2>9, <3>1, <3>2, <3>3
  <2>13. EventsOfRunningRetransmissions'
    <3> SUFFICES ASSUME NEW u \in Transactions
                 PROVE  /\ Running(u)' => Kept(u)' /\ stop'[u] # "none"
                        /\ retransmitter'[u].pc = "done" => ~Kept(u)' /\ stop'[u] = "none"
      BY DEF EventsOfRunningRetransmissions
    <3>1. CASE u = t
      BY <1>1, <2>1, <2>7, <3>1 DEF Running
    <3>2. CASE u # t
      <4>1. retransmitter'[u] = retransmitter[u] /\ stop'[u] = stop[u]
        BY <1>1, <2>1, <3>2
      <4> QED
        BY <2>8, <3>2, <4>1 DEF EventsInv, EventsOfRunningRetransmissions, Running
    <3> QED
      BY <3>1, <3>2
  <2> QED
    BY <2>6, <2>10, <2>11, <2>12, <2>13 DEF EventsInv
<1> QED
  BY <1>3, <1>4, <1>5, <1>6, <1>7, <1>8 DEF RetransmitterStep

LEMMA OthersEventsStep ==
  ASSUME TypeInv, EventsInv,
         \/ CloserStep \/ CloserBegin
         \/ \E v \in Receivers, t, u \in Transactions :
              \/ ReceiveResponse(v, t, u)
              \/ \E type \in {"ACK", "RST"} : ReceiveEmpty(v, t, u, type)
  PROVE  EventsInv'
<1>1. CASE CloserStep \/ CloserBegin
  <2>1. UNCHANGED <<sent, toBeStopped, user, receiver, retransmitter>>
    BY <1>1 DEF CloserStep, CloserBegin, CloserEvents, CloserJoin, CloserLock, CloserSignal,
       CloserOnly, exchange
  <2>2. \A t \in Transactions : stop'[t] = "none" <=> stop[t] = "none"
    <3>1. CASE CloserEvents
      <4>1. \/ stop' = stop
            \/ \E t : stop' = [stop EXCEPT ![t] = IF @ = "none" THEN @ ELSE "set"]
        BY <3>1 DEF CloserEvents
      <4>2. ASSUME NEW t, stop' = [stop EXCEPT ![t] = IF @ = "none" THEN @ ELSE "set"]
            PROVE  \A u \in Transactions : stop'[u] = "none" <=> stop[u] = "none"
        BY <4>2 DEF TypeInv, TypeOK
      <4> QED
        BY <4>1, <4>2
    <3>2. CASE ~CloserEvents
      BY <1>1, <3>2 DEF CloserStep, CloserBegin, CloserJoin, CloserLock, CloserSignal
    <3> QED
      BY <3>1, <3>2
  <2> QED
    BY <2>1, <2>2, QuietStep
<1>2. ASSUME NEW v \in Receivers, NEW t \in Transactions, NEW u \in Transactions,
             \/ ReceiveResponse(v, t, u)
             \/ \E type \in {"ACK", "RST"} : ReceiveEmpty(v, t, u, type)
      PROVE  EventsInv'
  <2>1. UNCHANGED <<sent, stop, toBeStopped, user, retransmitter>>
    BY <1>2 DEF ReceiveResponse, ReceiveEmpty
  <2>2. \/ receiver' = [receiver EXCEPT ![v].pc = "dead"]
        \/ \E empty : receiver' = [receiver EXCEPT ![v] =
                                     [pc |-> "if_event", on |-> u, empty |-> empty]]
    BY <1>2 DEF ReceiveResponse, ReceiveEmpty, ReceiverGoto
  <2>3. \A w \in Receivers : Starting(w)' => receiver'[w] = receiver[w]
    BY <2>2 DEF Starting, TypeInv, TypeOK
  <2> QED
    BY <2>1, <2>3, QuietStep
<1> QED
  BY <1>1, <1>2

\* A retransmission is prepared once, by the one thread that made the
\* transaction; what is prepared is started, and is forgotten as it ends.
THEOREM EventsInvariant == Spec => []EventsInv
<1>1. Init => EventsInv
  <2> SUFFICES ASSUME Init PROVE EventsInv
    OBVIOUS
  <2>1. \A t : ~Kept(t)
    BY DEF Init, Kept
  <2>2. \A t \in Transactions : Fresh(t)
    BY <2>1 DEF Init, Fresh
  <2>3. NoRepeats
    BY DEF Init, NoRepeats
  <2> QED
    BY <2>2, <2>3 DEF Init, EventsInv, FutureFresh, UsersReady, ReceiversReady, Starting,
       EventsOfRunningRetransmissions, Running
<1>2. TypeInv /\ EventsInv /\ [Next]_vars => EventsInv'
  <2> SUFFICES ASSUME TypeInv, EventsInv, [Next]_vars PROVE EventsInv'
    OBVIOUS
  <2>1. CASE UNCHANGED vars
    <3>1. UNCHANGED <<sent, stop, toBeStopped, user, receiver, retransmitter>>
      BY <2>1 DEF vars, exchange
    <3> QED
      BY <3>1, QuietStep
  <2>2. CASE System
    BY <2>2, UserEventsStep, ReceiverEventsStep, RetransmitterEventsStep, OthersEventsStep DEF System
  <2>3. CASE Environment
    BY <2>3, UserEventsStep, OthersEventsStep DEF Environment
  <2> QED
    BY <2>1, <2>2, <2>3 DEF Next
<1> QED
  BY <1>1, <1>2, TypeCorrect, PTL DEF Spec

\* close() finds the Event of every retransmission that runs, for any number of
\* requests and blocks (client/coap.py 201, 238-241).
THEOREM EventsHold == Spec => []EventsOfRunningRetransmissions
<1>1. EventsInv => EventsOfRunningRetransmissions
  BY DEF EventsInv
<1> QED
  BY <1>1, EventsInvariant, PTL

-----------------------------------------------------------------------------
(* What None means to a caller, where answers are not in blocks.           *)

\* The thread of r's first transaction has gone through its rounds, or the
\* client is being stopped.
Silent(r) == stopped \/ retransmitter[<<r, 1>>].count > MAX_RETRANSMIT
Told(r) == flag[r] \in {"acknowledged", "rejected"} \/ Silent(r)

\* An answer in one message is answered by one transaction.
OneMessage ==
  /\ \A r \in Requests : sent[r] <= 1
  /\ \A t \in Transactions : Sent(t) => asked[t].block = 1
  /\ \A v \in Receivers :
       /\ receiver[v].pc \notin {"next", "prepare", "start"}
       /\ \/ receiver[v].pc \in {"if_event", "set_event"} /\ ~receiver[v].empty
          \/ receiver[v].pc \in {"wait", "block"}
          => response[receiver[v].on] = 1

\* What ends a retransmission has been said to its request before.
EventsAreTold == \A r \in Requests : stop[<<r, 1>>] = "set" => Told(r)
ReceiversHaveTold ==
  \A v \in Receivers :
    receiver[v].pc \in {"if_event", "set_event"} => Told(RequestOf(receiver[v].on))
GivingUp == {"give_up", "callback", "deliver", "if_timeouted", "respond_none", "respond_request"}
GivesUpInSilence ==
  \A r \in Requests :
    /\ retransmitter[<<r, 1>>].pc = "if_answered" => Told(r)
    /\ retransmitter[<<r, 1>>].pc \in GivingUp => Silent(r)
    /\ flag[r] = "timeouted" => Silent(r)
\* Who is woken has a result, or nothing has come.
WokenHaveResult ==
  /\ \A r \in Blocking : r \in responded /\ result[r] = "none" => Silent(r)
  /\ \A r \in Blocking \ Timed : user[r] \in {"delete", "return", "done"} => r \in responded
  /\ \A r \in Blocking \ Timed : user[r] = "done" /\ returned[r] = "none" => Silent(r)
CloserStops == closer.pc # "idle" => stopped

SilenceInv == /\ OneMessage /\ EventsAreTold /\ ReceiversHaveTold /\ GivesUpInSilence
              /\ WokenHaveResult /\ CloserStops

\* Rounds are counted up, and a client that was stopped stays so.
LEMMA SilentStays ==
  ASSUME TypeInv, [Next]_vars
  PROVE  /\ stopped => stopped'
         /\ \A r \in Requests : Silent(r) => Silent(r)'
<1> USE DEF TypeInv, TypeOK
<1>1. \A t \in Transactions : retransmitter[t].count \in Nat
  BY BoundsAssumption
<1>2. ASSUME stopped => stopped', retransmitter' = retransmitter
      PROVE  \A r \in Requests : Silent(r) => Silent(r)'
  BY <1>2 DEF Silent
<1>3. ASSUME stopped => stopped', NEW t \in Transactions, NEW pc, NEW count \in Nat,
             retransmitter[t].count <= count,
             retransmitter' = [retransmitter EXCEPT ![t] = [pc |-> pc, count |-> count]]
      PROVE  \A r \in Requests : Silent(r) => Silent(r)'
  <2>1. \A u \in Transactions : retransmitter[u].count <= retransmitter'[u].count /\ retransmitter'[u].count \in Nat
    BY <1>1, <1>3
  <2>2. \A r \in Requests : /\ retransmitter[<<r, 1>>].count <= retransmitter'[<<r, 1>>].count
                            /\ retransmitter[<<r, 1>>].count \in Nat /\ retransmitter'[<<r, 1>>].count \in Nat
    BY <1>1, <2>1, FirstTransaction
  <2>3. MAX_RETRANSMIT \in Nat /\ (stopped => stopped')
    BY <1>3, BoundsAssumption
  <2>4. QED  BY <2>2, <2>3, SMTT(30) DEF Silent
<1>4. ASSUME stopped => stopped', NEW t \in Transactions, NEW pc,
             retransmitter' = [retransmitter EXCEPT ![t].pc = pc]
      PROVE  \A r \in Requests : Silent(r) => Silent(r)'
  <2>1. \A u \in Transactions : retransmitter'[u].count = retransmitter[u].count
    BY <1>4
  <2>2. QED  BY <1>4, <2>1, FirstTransaction DEF Silent
<1>5. CASE UNCHANGED vars
  BY <1>2, <1>5 DEF vars
<1>6. ASSUME NEW r \in Requests, UserStep(r) \/ UserRegister(r)
      PROVE  UNCHANGED stopped /\ \A q \in Requests : Silent(q) => Silent(q)'
  <2>1. CASE UserStart(r)
    BY <1>4, <2>1, FirstTransaction DEF UserStart, StartRetransmission
  <2>2. CASE ~UserStart(r)
    BY <1>2, <1>6, <2>2 DEF UserStep, UserRegister, UserSend, UserStartReceiver, UserPrepare,
       UserWake, UserDelete, UserReturn
  <2>3. QED  BY <2>1, <2>2
<1>7. ASSUME NEW v \in Receivers, ReceiverStep(v)
      PROVE  UNCHANGED stopped /\ \A q \in Requests : Silent(q) => Silent(q)'
  <2>1. CASE ReceiverStart(v)
    <3>1. receiver[v].on \in Transactions
      BY <2>1 DEF ReceiverStart, ReceiverHasTransaction
    <3>2. QED  BY <1>4, <2>1, <3>1 DEF ReceiverStart, StartRetransmission
  <2>2. CASE ~ReceiverStart(v)
    BY <1>2, <1>7, <2>2 DEF ReceiverStep, ReceiverTimeout, ReceiverIfEvent, ReceiverSetEvent,
       ReceiverWait, ReceiverBlock, ReceiverNext, ReceiverPrepare, ReceiverCallback, ReceiverDeliver, ReceiverRespond
  <2>3. QED  BY <2>1, <2>2
<1>8. ASSUME NEW t \in Transactions, RetransmitterStep(t)
      PROVE  UNCHANGED stopped /\ \A q \in Requests : Silent(q) => Silent(q)'
  <2>1. CASE RetransmitterWake(t)
    <3>1. \/ \E pc : retransmitter' = [retransmitter EXCEPT ![t] = [pc |-> pc, count |-> retransmitter[t].count + 1]]
          \/ retransmitter' = [retransmitter EXCEPT ![t] = [@ EXCEPT !.pc = "while"]]
      BY <2>1 DEF RetransmitterWake
    <3>2. UNCHANGED stopped
      BY <2>1 DEF RetransmitterWake, RetransmitterOnly
    <3>3. CASE \E pc : retransmitter' = [retransmitter EXCEPT ![t] = [pc |-> pc, count |-> retransmitter[t].count + 1]]
      <4>1. PICK pc : retransmitter' = [retransmitter EXCEPT ![t] = [pc |-> pc, count |-> retransmitter[t].count + 1]]
        BY <3>3
      <4>2. retransmitter[t].count + 1 \in Nat /\ retransmitter[t].count <= retransmitter[t].count + 1
        BY <1>1
      <4>3. QED  BY <1>3, <3>2, <4>1, <4>2
    <3>4. CASE retransmitter' = [retransmitter EXCEPT ![t] = [@ EXCEPT !.pc = "while"]]
      <4>1. retransmitter' = [retransmitter EXCEPT ![t].pc = "while"]
        BY <3>4
      <4>2. QED  BY <1>4, <3>2, <4>1
    <3>5. QED  BY <3>1, <3>2, <3>3, <3>4
  <2>2. CASE ~RetransmitterWake(t)
    <3>1. \E pc : retransmitter' = [retransmitter EXCEPT ![t].pc = pc]
      BY <1>8, <2>2 DEF RetransmitterStep, RetransmitterGoto, RetransmitterWhile, RetransmitterSend,
         RetransmitterIfAnswered, RetransmitterGiveUp, RetransmitterCallback, RetransmitterDeliver,
         RetransmitterIfTimeouted, RetransmitterRespond, RetransmitterCleanup
    <3>2. UNCHANGED stopped
      BY <1>8, <2>2 DEF RetransmitterStep, RetransmitterOnly, RetransmitterWhile, RetransmitterSend,
         RetransmitterIfAnswered, RetransmitterGiveUp, RetransmitterCallback, RetransmitterDeliver,
         RetransmitterIfTimeouted, RetransmitterRespond, RetransmitterCleanup
    <3>3. QED  BY <1>4, <3>1, <3>2
  <2>3. QED  BY <2>1, <2>2
<1>9. CASE CloserStep \/ CloserBegin
  <2>1. retransmitter' = retransmitter /\ (stopped => stopped')
    BY <1>9 DEF CloserStep, CloserBegin, CloserEvents, CloserJoin, CloserLock, CloserSignal, CloserOnly
  <2>2. QED  BY <1>2, <2>1
<1>10. ASSUME NEW v \in Receivers, NEW t \in Transactions, NEW u \in Transactions,
             \/ ReceiveResponse(v, t, u)
             \/ \E type \in {"ACK", "RST"} : ReceiveEmpty(v, t, u, type)
      PROVE  UNCHANGED stopped /\ \A q \in Requests : Silent(q) => Silent(q)'
  <2>1. UNCHANGED <<retransmitter, stopped>>
    BY <1>10 DEF ReceiveResponse, ReceiveEmpty
  <2>2. QED  BY <1>2, <2>1
<1>11. QED
  BY <1>5, <1>6, <1>7, <1>8, <1>9, <1>10 DEF Next, System, Environment

\* The only transaction of its request.
LEMMA FirstIsOnly ==
  ASSUME TypeInv, OneMessage, NEW t \in Transactions, t[2] <= sent[t[1]]
  PROVE  t = <<RequestOf(t), 1>> /\ RequestOf(t) \in Requests
<1>1. t[1] \in Requests /\ t[2] \in Nat \ {0} /\ t = <<t[1], t[2]>>
  BY BoundsAssumption DEF Transactions
<1>2. sent[t[1]] \in Nat /\ sent[t[1]] <= 1
  BY <1>1, BoundsAssumption DEF TypeInv, TypeOK, OneMessage
<1>3. t[2] = 1
  BY <1>1, <1>2
<1>4. QED  BY <1>1, <1>3 DEF RequestOf

\* So is one that has a thread.
LEMMA StartedIsOnly ==
  ASSUME TypeInv, EventsInv, OneMessage, NEW t \in Transactions, retransmitter[t].pc # "idle"
  PROVE  t = <<RequestOf(t), 1>> /\ RequestOf(t) \in Requests
<1>1. ~(t[2] > sent[t[1]])
  BY DEF EventsInv, FutureFresh, Fresh
<1>2. t[1] \in Requests /\ t[2] \in Nat /\ sent[t[1]] \in Nat
  BY BoundsAssumption DEF Transactions, TypeInv, TypeOK
<1>3. QED  BY <1>1, <1>2, FirstIsOnly

\* A step keeps the invariant if Events are set, loops are left and users are
\* woken only after a word to the request, or in silence.
LEMMA SilenceStep ==
  ASSUME TypeInv, SilenceInv, OneMessage',
         stopped => stopped', \A r \in Requests : Silent(r) => Silent(r)',
         \A r \in Requests :
           \/ flag'[r] \in {flag[r], "acknowledged", "rejected"}
           \/ flag'[r] = "timeouted" /\ Silent(r),
         \A r \in Requests : stop'[<<r, 1>>] = "set" => stop[<<r, 1>>] = "set" \/ Told(r)',
         \A v \in Receivers :
           receiver'[v].pc \in {"if_event", "set_event"} =>
             \/ Told(RequestOf(receiver[v].on))'
             \/ receiver[v].pc \in {"if_event", "set_event"} /\ receiver'[v].on = receiver[v].on,
         \A r \in Requests :
           \/ retransmitter'[<<r, 1>>].pc \in {retransmitter[<<r, 1>>].pc, "idle", "while", "wait",
                                              "resend", "cleanup", "done", "dead"}
           \/ retransmitter'[<<r, 1>>].pc = "if_answered" /\ Told(r)'
           \/ Silent(r)',
         \A r \in Blocking :
           r \in responded' /\ result'[r] = "none" =>
             Silent(r)' \/ (r \in responded /\ result[r] = "none"),
         responded \subseteq responded',
         \A r \in Blocking \ Timed :
           user'[r] \in {"delete", "return", "done"} =>
             user[r] \in {"delete", "return", "done"} \/ r \in responded',
         \A r \in Blocking \ Timed :
           user'[r] = "done" /\ returned'[r] = "none" =>
             Silent(r)' \/ (user[r] = "done" /\ returned[r] = "none"),
         closer'.pc # "idle" => closer.pc # "idle" \/ stopped'
  PROVE  SilenceInv'
<1>1. \A r \in Requests : Told(r) => Told(r)'
  BY DEF Told
<1>2. EventsAreTold'
  BY <1>1 DEF SilenceInv, EventsAreTold
<1>3. ReceiversHaveTold'
  <2>1. ASSUME NEW v \in Receivers, receiver[v].pc \in {"if_event", "set_event"}
        PROVE  RequestOf(receiver[v].on) \in Requests
    BY <2>1 DEF TypeInv, ReceiverHasTransaction, Transactions, RequestOf
  <2> SUFFICES ASSUME NEW v \in Receivers, receiver'[v].pc \in {"if_event", "set_event"},
                      receiver[v].pc \in {"if_event", "set_event"}, receiver'[v].on = receiver[v].on
               PROVE  Told(RequestOf(receiver[v].on))'
    BY DEF ReceiversHaveTold
  <2>2. PICK r \in Requests : r = RequestOf(receiver[v].on)
    BY <2>1
  <2>3. Told(r)'
    BY <1>1, <2>2 DEF SilenceInv, ReceiversHaveTold
  <2>4. r = RequestOf(receiver'[v].on)
    BY <2>2
  <2>5. QED  BY <2>3, <2>4 DEF Told, Silent
<1>4. GivesUpInSilence'
  <2> SUFFICES ASSUME NEW r \in Requests
               PROVE  /\ retransmitter'[<<r, 1>>].pc = "if_answered" => Told(r)'
                      /\ retransmitter'[<<r, 1>>].pc \in GivingUp => Silent(r)'
                      /\ flag'[r] = "timeouted" => Silent(r)'
    BY DEF GivesUpInSilence
  <2>1. /\ retransmitter[<<r, 1>>].pc = "if_answered" => Told(r)
        /\ retransmitter[<<r, 1>>].pc \in GivingUp => Silent(r)
        /\ flag[r] = "timeouted" => Silent(r)
    BY DEF SilenceInv, GivesUpInSilence
  <2>2. (Told(r) => Told(r)') /\ (Silent(r) => Silent(r)') /\ (Silent(r)' => Told(r)')
    BY <1>1 DEF Told
  <2>3. flag'[r] = "timeouted" => Silent(r)'
    BY <2>1, <2>2
  <2>4. QED  BY <2>1, <2>2, <2>3 DEF GivingUp
<1>5. WokenHaveResult'
  BY RequestsAssumption DEF SilenceInv, WokenHaveResult
<1>6. CloserStops'
  BY DEF SilenceInv, CloserStops
<1>7. QED  BY <1>2, <1>3, <1>4, <1>5, <1>6 DEF SilenceInv

\* Receivers that go on with what they have keep to one message.
LEMMA OneMessageStays ==
  ASSUME TypeInv, OneMessage, UNCHANGED <<sent, asked, response>>,
         \A v \in Receivers :
           \/ receiver'[v] = receiver[v]
           \/ receiver'[v].pc \in {"recvfrom", "ended", "dead", "callback", "deliver", "respond"}
           \/ receiver'[v].pc = "set_event" /\ receiver[v].pc = "if_event"
              /\ receiver'[v].on = receiver[v].on /\ receiver'[v].empty = receiver[v].empty
           \/ receiver'[v].pc \in {"wait", "block"} /\ receiver'[v].on = receiver[v].on
              /\ response[receiver[v].on] = 1
  PROVE  OneMessage'
<1>1. \A t \in Transactions : Sent(t)' <=> Sent(t)
  BY DEF Sent
<1>2. ASSUME NEW v \in Receivers
      PROVE  /\ receiver'[v].pc \notin {"next", "prepare", "start"}
             /\ \/ receiver'[v].pc \in {"if_event", "set_event"} /\ ~receiver'[v].empty
                \/ receiver'[v].pc \in {"wait", "block"}
                => response[receiver'[v].on] = 1
  BY DEF OneMessage
<1>3. QED  BY <1>1, <1>2 DEF OneMessage

\* A transaction is made once, for the first block.
LEMMA UserSilenceStep ==
  ASSUME TypeInv, EventsInv, SilenceInv, [Next]_vars, NEW r \in Requests, UserStep(r) \/ UserRegister(r)
  PROVE  SilenceInv'
<1>1. /\ user \in [Requests -> UserPcs] /\ sent \in [Requests -> 0..MaxTransactions]
      /\ receiver \in [Receivers -> [pc : ReceiverPcs, on : Transactions \cup {None}, empty : BOOLEAN]]
      /\ retransmitter \in [Transactions -> [pc : RetransmitterPcs, count : 0..MAX_RETRANSMIT + 1]]
      /\ stop \in [Transactions -> {"none", "clear", "set"}]
      /\ asked \in [Transactions -> [mid : 0..MaxTransactions, block : 0..Blocks]]
      /\ returned \in [Requests -> {"none", "response", "request"}]
  BY DEF TypeInv, TypeOK
<1>2. UNCHANGED <<flag, result, responded, closer, stopped, response>>
  BY DEF UserStep, UserRegister, UserSend, UserStartReceiver, UserPrepare, UserStart, UserWake,
     UserDelete, UserReturn, helper, exchange
<1>3. \A q \in Requests : stop'[<<q, 1>>] = "set" => stop[<<q, 1>>] = "set"
  <2>1. CASE UserPrepare(r)
    BY <1>1, <2>1, FirstTransaction DEF UserPrepare, Prepare
  <2>2. CASE ~UserPrepare(r)
    BY <2>2 DEF UserStep, UserRegister, UserSend, UserStartReceiver, UserStart, UserWake, UserDelete, UserReturn
  <2>3. QED  BY <2>1, <2>2
<1>4. \A v \in Receivers : receiver'[v] = receiver[v] \/ receiver'[v].pc \in {"recvfrom", "ended"}
  <2>1. CASE UserStartReceiver(r)
    BY <1>1, <2>1, AtLoopType DEF UserStartReceiver, StartReceiver
  <2>2. CASE ~UserStartReceiver(r)
    BY <2>2 DEF UserStep, UserRegister, UserSend, UserPrepare, UserStart, UserWake, UserDelete, UserReturn
  <2>3. QED  BY <2>1, <2>2
<1>5. \A q \in Requests : retransmitter'[<<q, 1>>].pc \in {retransmitter[<<q, 1>>].pc, "while"}
  <2>1. CASE UserStart(r)
    BY <1>1, <2>1, FirstTransaction DEF UserStart, StartRetransmission
  <2>2. CASE ~UserStart(r)
    BY <2>2 DEF UserStep, UserRegister, UserSend, UserPrepare, UserStartReceiver, UserWake, UserDelete, UserReturn
  <2>3. QED  BY <2>1, <2>2
<1>6. \A q \in Blocking \ Timed :
        user'[q] \in {"delete", "return", "done"} =>
          user[q] \in {"delete", "return", "done"} \/ q \in responded
  <2>1. \E pc : /\ user' = [user EXCEPT ![r] = pc]
                /\ r \in Blocking \ Timed /\ pc \in {"delete", "return", "done"} =>
                     user[r] \in {"delete", "return", "done"} \/ r \in responded
    BY DEF UserStep, UserRegister, UserSend, UserStartReceiver, UserPrepare, UserStart, UserWake,
       UserDelete, UserReturn, UserGoto, AfterSend
  <2>2. QED  BY <1>1, <2>1, RequestsAssumption
<1>7. OneMessage'
  <2>1. CASE UserSend(r)
    <3>1. sent[r] = 0 /\ sent' = [sent EXCEPT ![r] = @ + 1] /\ receiver' = receiver
          /\ asked' = [asked EXCEPT ![<<r, sent[r] + 1>>] = [mid |-> 1, block |-> 1]]
      BY <2>1 DEF UserSend, NewTransaction, EventsInv, UsersReady
    <3>2. asked' = [asked EXCEPT ![<<r, 1>>] = [mid |-> 1, block |-> 1]]
      BY <3>1
    <3>3. \A q \in Requests : sent'[q] <= 1
      BY <1>1, <3>1 DEF SilenceInv, OneMessage
    <3>4. \A t \in Transactions : Sent(t)' => asked'[t].block = 1
      <4>1. \A t \in Transactions : asked'[t] = IF t = <<r, 1>> THEN [mid |-> 1, block |-> 1] ELSE asked[t]
        BY <1>1, <3>2
      <4>2. QED  BY <4>1 DEF Sent, SilenceInv, OneMessage
    <3>5. QED  BY <1>2, <3>1, <3>3, <3>4 DEF SilenceInv, OneMessage
  <2>2. CASE ~UserSend(r)
    <3>1. UNCHANGED <<sent, asked, response>>
      BY <2>2 DEF UserStep, UserRegister, UserStartReceiver, UserPrepare, UserStart, UserWake,
         UserDelete, UserReturn, exchange
    <3>2. QED  BY <1>4, <3>1, OneMessageStays DEF SilenceInv
  <2>3. QED  BY <2>1, <2>2
<1>8. \A q \in Blocking \ Timed :
        user'[q] = "done" /\ returned'[q] = "none" =>
          Silent(q)' \/ (user[q] = "done" /\ returned[q] = "none")
  <2>1. CASE UserReturn(r)
    <3>1. \A q \in Requests : q # r => user'[q] = user[q] /\ returned'[q] = returned[q]
      BY <1>1, <2>1 DEF UserReturn, UserGoto
    <3>2. returned'[r] = result[r] /\ user[r] = "return"
      BY <1>1, <2>1 DEF UserReturn
    <3>3. r \in Blocking \ Timed /\ result[r] = "none" => Silent(r)'
      BY <3>2, SilentStays DEF SilenceInv, WokenHaveResult
    <3>4. QED  BY <3>1, <3>2, <3>3, RequestsAssumption
  <2>2. CASE ~UserReturn(r)
    <3>1. /\ returned' = returned
          /\ \E pc : user' = [user EXCEPT ![r] = pc] /\ (r \in Blocking => pc # "done")
      BY <2>2 DEF UserStep, UserRegister, UserSend, UserStartReceiver, UserPrepare, UserStart,
         UserWake, UserDelete, UserGoto, AfterSend, helper
    <3>2. QED  BY <1>1, <3>1, RequestsAssumption
  <2>3. QED  BY <2>1, <2>2
<1>9. QED
  BY <1>2, <1>3, <1>4, <1>5, <1>6, <1>7, <1>8, SilentStays, SilenceStep

\* Only an Event that a message has set ends a wait, and that has marked the request.
LEMMA ReceiverSilenceStep ==
  ASSUME Blocks = 1, TypeInv, SilenceInv, [Next]_vars, NEW v \in Receivers, ReceiverStep(v)
  PROVE  SilenceInv'
<1>1. /\ receiver \in [Receivers -> [pc : ReceiverPcs, on : Transactions \cup {None}, empty : BOOLEAN]]
      /\ stop \in [Transactions -> {"none", "clear", "set"}]
      /\ result \in [Requests -> {"none", "response", "request"}] /\ responded \subseteq Requests
  BY DEF TypeInv, TypeOK
<1>2. receiver[v].pc \notin {"next", "prepare", "start"}
  BY DEF SilenceInv, OneMessage
<1>3. /\ UNCHANGED <<returned, flag, asked, sent, response, user, receiverThread, retransmitter, closer, stopped>>
      /\ \A w \in Receivers \ {v} : receiver'[w] = receiver[w]
  BY <1>1, <1>2 DEF ReceiverStep, ReceiverTimeout, ReceiverIfEvent, ReceiverSetEvent,
     ReceiverWait, ReceiverBlock, ReceiverNext, ReceiverPrepare, ReceiverStart, ReceiverCallback,
     ReceiverDeliver, ReceiverRespond, Deliver, ReceiverGoto, NextDatagram, AfterEvent, helper, exchange
<1>4. \/ receiver'[v].pc \in {"recvfrom", "ended", "dead", "callback", "deliver", "respond"}
      \/ receiver'[v].pc = "set_event" /\ receiver[v].pc = "if_event"
         /\ receiver'[v].on = receiver[v].on /\ receiver'[v].empty = receiver[v].empty
      \/ receiver'[v].pc \in {"wait", "block"} /\ receiver'[v].on = receiver[v].on
         /\ response[receiver[v].on] = 1
  <2>1. ASSUME NextDatagram(v) PROVE receiver'[v].pc \in {"recvfrom", "ended"}
    BY <1>1, <2>1, AtLoopType DEF NextDatagram
  <2>2. ASSUME NEW pc, ReceiverGoto(v, pc)
        PROVE  receiver'[v].pc = pc /\ receiver'[v].on = receiver[v].on /\ receiver'[v].empty = receiver[v].empty
    BY <1>1, <2>2 DEF ReceiverGoto
  <2>3. CASE ReceiverIfEvent(v)
    BY <2>1, <2>2, <2>3 DEF ReceiverIfEvent, AfterEvent, SilenceInv, OneMessage
  <2>4. CASE ReceiverSetEvent(v)
    BY <2>1, <2>2, <2>4 DEF ReceiverSetEvent, AfterEvent, SilenceInv, OneMessage
  <2>5. CASE ReceiverWait(v)
    BY <2>2, <2>5 DEF ReceiverWait, SilenceInv, OneMessage
  <2>6. CASE ReceiverBlock(v)
    BY <2>2, <2>6 DEF ReceiverBlock, SilenceInv, OneMessage
  <2>7. CASE ReceiverTimeout(v) \/ ReceiverCallback(v) \/ ReceiverDeliver(v) \/ ReceiverRespond(v)
    BY <2>1, <2>2, <2>7 DEF ReceiverTimeout, ReceiverCallback, ReceiverDeliver, ReceiverRespond
  <2>8. QED
    BY <1>2, <2>3, <2>4, <2>5, <2>6, <2>7 DEF ReceiverStep, ReceiverNext, ReceiverPrepare, ReceiverStart
<1>5. OneMessage'
  BY <1>3, <1>4, OneMessageStays DEF SilenceInv
<1>6. ASSUME receiver[v].pc = "set_event"
      PROVE  /\ receiver[v].on = <<RequestOf(receiver[v].on), 1>> /\ RequestOf(receiver[v].on) \in Requests
             /\ Told(RequestOf(receiver[v].on))
  <2>1. PICK t \in Transactions : t = receiver[v].on /\ t[2] <= sent[t[1]]
    BY <1>6 DEF TypeInv, ReceiverHasTransaction
  <2>2. QED  BY <1>6, <2>1, FirstIsOnly DEF SilenceInv, ReceiversHaveTold
<1>7. \A r \in Requests : stop'[<<r, 1>>] = "set" => stop[<<r, 1>>] = "set" \/ Told(r)'
  <2>1. CASE ReceiverSetEvent(v) /\ stop[receiver[v].on] # "none"
    <3>1. stop' = [stop EXCEPT ![receiver[v].on] = "set"] /\ receiver[v].pc = "set_event"
      BY <2>1 DEF ReceiverSetEvent
    <3>2. Told(RequestOf(receiver[v].on))
      BY <1>6, <3>1
    <3>3. \A r \in Requests : Told(r)' <=> Told(r)
      BY <1>3 DEF Told, Silent
    <3>4. \A r \in Requests : stop'[<<r, 1>>] # stop[<<r, 1>>] => r = RequestOf(receiver[v].on)
      BY <1>1, <3>1, FirstTransaction DEF RequestOf
    <3>5. QED  BY <3>2, <3>3, <3>4
  <2>2. CASE ~(ReceiverSetEvent(v) /\ stop[receiver[v].on] # "none")
    BY <1>2, <2>2 DEF ReceiverStep, ReceiverTimeout, ReceiverIfEvent, ReceiverSetEvent,
       ReceiverWait, ReceiverBlock, ReceiverNext, ReceiverPrepare, ReceiverStart, ReceiverCallback,
       ReceiverDeliver, ReceiverRespond
  <2>3. QED  BY <2>1, <2>2
<1>8. /\ responded \subseteq responded'
      /\ \A r \in Blocking : r \in responded' /\ result'[r] = "none" => r \in responded /\ result[r] = "none"
  <2>1. CASE ReceiverRespond(v)
    BY <1>1, <2>1, RequestsAssumption DEF ReceiverRespond, Deliver, helper
  <2>2. CASE ~ReceiverRespond(v)
    BY <2>2 DEF ReceiverStep, ReceiverTimeout, ReceiverIfEvent, ReceiverSetEvent, ReceiverWait,
       ReceiverBlock, ReceiverNext, ReceiverPrepare, ReceiverStart, ReceiverCallback,
       ReceiverDeliver, helper
  <2>3. QED  BY <2>1, <2>2
<1>9. \A w \in Receivers :
        receiver'[w].pc \in {"if_event", "set_event"} =>
          receiver[w].pc \in {"if_event", "set_event"} /\ receiver'[w].on = receiver[w].on
  BY <1>3, <1>4
<1>10. QED
  BY <1>3, <1>5, <1>7, <1>8, <1>9, SilentStays, SilenceStep

\* The thread leaves its loop because the request has been marked, or in silence.
LEMMA RetransmitterSilenceStep ==
  ASSUME TypeInv, EventsInv, SilenceInv, [Next]_vars, NEW t \in Transactions, RetransmitterStep(t)
  PROVE  SilenceInv'
<1>1. /\ retransmitter \in [Transactions -> [pc : RetransmitterPcs, count : 0..MAX_RETRANSMIT + 1]]
      /\ receiver \in [Receivers -> [pc : ReceiverPcs, on : Transactions \cup {None}, empty : BOOLEAN]]
      /\ stop \in [Transactions -> {"none", "clear", "set"}]
      /\ flag \in [Requests -> {"open", "acknowledged", "rejected", "timeouted"}]
      /\ result \in [Requests -> {"none", "response", "request"}] /\ responded \subseteq Requests
  BY DEF TypeInv, TypeOK, M!Flags
<1>2. retransmitter[t].pc # "idle"
  BY DEF RetransmitterStep, RetransmitterWhile, RetransmitterWake, RetransmitterSend,
     RetransmitterIfAnswered, RetransmitterGiveUp, RetransmitterCallback, RetransmitterDeliver,
     RetransmitterIfTimeouted, RetransmitterRespond, RetransmitterCleanup
<1>3. PICK r \in Requests : t = <<r, 1>> /\ RequestOf(t) = r
  BY <1>2, StartedIsOnly DEF SilenceInv
<1>4. UNCHANGED <<returned, asked, sent, response, user, closer, stopped>>
  BY DEF RetransmitterStep, RetransmitterWhile, RetransmitterWake, RetransmitterSend,
     RetransmitterIfAnswered, RetransmitterGiveUp, RetransmitterCallback, RetransmitterDeliver,
     RetransmitterIfTimeouted, RetransmitterRespond, RetransmitterCleanup, Deliver,
     RetransmitterOnly, helper, exchange
<1>5. /\ stopped => stopped'
      /\ \A q \in Requests : Silent(q) => Silent(q)'
  BY SilentStays
<1>6. \A v \in Receivers : receiver'[v] = receiver[v] \/ receiver'[v].pc \in {"recvfrom", "ended"}
  <2>1. CASE RetransmitterSend(t)
    BY <1>1, <2>1, AtLoopType DEF RetransmitterSend, StartReceiver
  <2>2. CASE ~RetransmitterSend(t)
    BY <2>2 DEF RetransmitterStep, RetransmitterWhile, RetransmitterWake,
       RetransmitterIfAnswered, RetransmitterGiveUp, RetransmitterCallback, RetransmitterDeliver,
       RetransmitterIfTimeouted, RetransmitterRespond, RetransmitterCleanup, RetransmitterOnly
  <2>3. QED  BY <2>1, <2>2
<1>7. OneMessage'
  BY <1>4, <1>6, OneMessageStays DEF SilenceInv
<1>8. \A q \in Requests :
        \/ flag'[q] \in {flag[q], "acknowledged", "rejected"}
        \/ flag'[q] = "timeouted" /\ Silent(q)
  <2>1. CASE RetransmitterGiveUp(t)
    BY <1>1, <1>3, <2>1 DEF RetransmitterGiveUp, SilenceInv, GivesUpInSilence, GivingUp
  <2>2. CASE ~RetransmitterGiveUp(t)
    BY <2>2 DEF RetransmitterStep, RetransmitterWhile, RetransmitterWake, RetransmitterSend,
       RetransmitterIfAnswered, RetransmitterCallback, RetransmitterDeliver,
       RetransmitterIfTimeouted, RetransmitterRespond, RetransmitterCleanup, RetransmitterOnly, exchange
  <2>3. QED  BY <2>1, <2>2
<1>9. \A q \in Requests : stop'[<<q, 1>>] = "set" => stop[<<q, 1>>] = "set"
  <2>1. CASE RetransmitterCleanup(t)
    BY <1>1, <2>1, FirstTransaction DEF RetransmitterCleanup
  <2>2. CASE ~RetransmitterCleanup(t)
    BY <2>2 DEF RetransmitterStep, RetransmitterWhile, RetransmitterWake, RetransmitterSend,
       RetransmitterIfAnswered, RetransmitterGiveUp, RetransmitterCallback, RetransmitterDeliver,
       RetransmitterIfTimeouted, RetransmitterRespond, RetransmitterOnly
  <2>3. QED  BY <2>1, <2>2
<1>10. Answered(t) => Told(r)'
  BY <1>3, <1>5, <1>8 DEF Answered, Told
<1>11. \/ retransmitter'[t].pc \in {"while", "wait", "resend", "cleanup", "done", "dead"}
       \/ retransmitter'[t].pc = "if_answered" /\ Told(r)'
       \/ Silent(r)'
  <2>1. ASSUME NEW pc, RetransmitterGoto(t, pc) PROVE retransmitter'[t].pc = pc
    BY <1>1, <2>1 DEF RetransmitterGoto
  <2>2. CASE RetransmitterWhile(t)
    <3>1. CASE MayRetransmit(t)
      BY <2>1, <2>2, <3>1 DEF RetransmitterWhile
    <3>2. CASE retransmitter[t].count > MAX_RETRANSMIT
      BY <1>3, <1>5, <3>2 DEF Silent
    <3>3. CASE Answered(t)
      BY <1>10, <2>1, <2>2, <3>3 DEF RetransmitterWhile, MayRetransmit
    <3>4. CASE stop[t] = "set"
      <4>1. Told(r)'
        BY <1>3, <1>5, <1>8, <3>4 DEF SilenceInv, EventsAreTold, Told
      <4>2. QED  BY <2>1, <2>2, <3>4, <4>1 DEF RetransmitterWhile, MayRetransmit
    <3>5. retransmitter[t].count \in Nat
      BY <1>1
    <3>6. QED  BY <3>1, <3>2, <3>3, <3>4, <3>5, BoundsAssumption DEF MayRetransmit
  <2>3. CASE RetransmitterIfAnswered(t)
    <3>1. CASE Answered(t)
      BY <2>1, <2>3, <3>1 DEF RetransmitterIfAnswered
    <3>2. CASE ~Answered(t)
      BY <1>3, <1>5, <2>3, <3>2 DEF RetransmitterIfAnswered, Answered, SilenceInv, GivesUpInSilence, Told
    <3>3. QED  BY <3>1, <3>2
  <2>4. CASE \/ RetransmitterGiveUp(t) \/ RetransmitterCallback(t) \/ RetransmitterDeliver(t)
             \/ RetransmitterIfTimeouted(t) \/ RetransmitterRespond(t)
    BY <1>3, <1>5, <2>4 DEF RetransmitterGiveUp, RetransmitterCallback, RetransmitterDeliver,
       RetransmitterIfTimeouted, RetransmitterRespond, SilenceInv, GivesUpInSilence, GivingUp
  <2>5. CASE RetransmitterWake(t)
    <3>1. \/ \E pc \in {"resend", "while"} : \E count : retransmitter' =
               [retransmitter EXCEPT ![t] = [pc |-> pc, count |-> count]]
          \/ retransmitter' = [retransmitter EXCEPT ![t] = [@ EXCEPT !.pc = "while"]]
      BY <2>5 DEF RetransmitterWake
    <3>2. QED  BY <1>1, <3>1
  <2>6. CASE RetransmitterSend(t) \/ RetransmitterCleanup(t)
    BY <2>1, <2>6 DEF RetransmitterSend, RetransmitterCleanup
  <2>7. QED  BY <2>2, <2>3, <2>4, <2>5, <2>6 DEF RetransmitterStep
<1>12. \A u \in Transactions \ {t} : retransmitter'[u] = retransmitter[u]
  <2>1. \/ \E rec : retransmitter' = [retransmitter EXCEPT ![t] = rec]
        \/ \E pc : retransmitter' = [retransmitter EXCEPT ![t].pc = pc]
    BY DEF RetransmitterStep, RetransmitterWhile, RetransmitterWake, RetransmitterSend,
       RetransmitterIfAnswered, RetransmitterGiveUp, RetransmitterCallback, RetransmitterDeliver,
       RetransmitterIfTimeouted, RetransmitterRespond, RetransmitterCleanup, RetransmitterGoto
  <2>2. QED  BY <1>1, <2>1
<1>13. \A q \in Requests :
         \/ retransmitter'[<<q, 1>>].pc \in {retransmitter[<<q, 1>>].pc, "idle", "while", "wait",
                                             "resend", "cleanup", "done", "dead"}
         \/ retransmitter'[<<q, 1>>].pc = "if_answered" /\ Told(q)'
         \/ Silent(q)'
  <2> SUFFICES ASSUME NEW q \in Requests
               PROVE  \/ retransmitter'[<<q, 1>>].pc \in {retransmitter[<<q, 1>>].pc, "idle", "while", "wait",
                                                          "resend", "cleanup", "done", "dead"}
                      \/ retransmitter'[<<q, 1>>].pc = "if_answered" /\ Told(q)'
                      \/ Silent(q)'
    OBVIOUS
  <2>1. CASE q = r
    BY <1>3, <1>11, <2>1
  <2>2. CASE q # r
    <3>1. <<q, 1>> \in Transactions \ {t}
      BY <1>3, <2>2, FirstTransaction
    <3>2. QED  BY <1>12, <3>1
  <2>3. QED  BY <2>1, <2>2
<1>14. /\ responded \subseteq responded'
       /\ \A q \in Blocking :
            q \in responded' /\ result'[q] = "none" => Silent(q)' \/ (q \in responded /\ result[q] = "none")
  <2>1. CASE RetransmitterRespond(t)
    <3>1. Silent(r)'
      BY <1>3, <1>5, <2>1 DEF RetransmitterRespond, SilenceInv, GivesUpInSilence, GivingUp
    <3>2. \/ UNCHANGED <<result, responded>>
          \/ /\ \E object : result' = [result EXCEPT ![r] = object]
             /\ responded' = responded \cup ({r} \cap Blocking)
      BY <1>1, <1>3, <2>1 DEF RetransmitterRespond, Deliver, helper
    <3>3. \A q \in Requests \ {r} : result'[q] = result[q]
      BY <1>1, <3>2
    <3>4. QED  BY <3>1, <3>2, <3>3, RequestsAssumption
  <2>2. CASE ~RetransmitterRespond(t)
    BY <2>2 DEF RetransmitterStep, RetransmitterWhile, RetransmitterWake, RetransmitterSend,
       RetransmitterIfAnswered, RetransmitterGiveUp, RetransmitterCallback,
       RetransmitterDeliver, RetransmitterIfTimeouted, RetransmitterCleanup, RetransmitterOnly, helper
  <2>3. QED  BY <2>1, <2>2
<1>15. \A v \in Receivers :
         receiver'[v].pc \in {"if_event", "set_event"} =>
           receiver[v].pc \in {"if_event", "set_event"} /\ receiver'[v].on = receiver[v].on
  BY <1>6
<1>16. QED
  BY <1>4, <1>5, <1>7, <1>8, <1>9, <1>13, <1>14, <1>15, SilenceStep

\* stop() sets Events and wakes users of a client that is stopped.
LEMMA CloserSilenceStep ==
  ASSUME TypeInv, SilenceInv, [Next]_vars, CloserStep \/ CloserBegin
  PROVE  SilenceInv'
<1>1. /\ UNCHANGED <<flag, asked, sent, response, user, receiver, retransmitter, result, returned>>
      /\ responded \subseteq responded'
  BY DEF CloserStep, CloserBegin, CloserEvents, CloserJoin, CloserLock, CloserSignal, Signal,
     CloserOnly, exchange, helper
<1>2. stopped'
  BY DEF CloserStep, CloserBegin, CloserEvents, CloserJoin, CloserLock, CloserSignal,
     SilenceInv, CloserStops
<1>3. \A r : Silent(r)'
  BY <1>2 DEF Silent
<1>4. OneMessage'
  BY <1>1, OneMessageStays DEF SilenceInv
<1>5. \A r : Told(r)'
  BY <1>3 DEF Told
<1>6. QED
  BY <1>1, <1>2, <1>3, <1>4, <1>5, SilentStays, SilenceStep

\* A message that is matched marks its request, unless it ends the receiver.
LEMMA MessageMarks ==
  ASSUME NEW v \in Receivers, NEW t \in Transactions, NEW u \in Transactions,
         \/ ReceiveResponse(v, t, u)
         \/ \E type \in {"ACK", "RST"} : ReceiveEmpty(v, t, u, type)
  PROVE  \/ receiver' = [receiver EXCEPT ![v].pc = "dead"] /\ flag' = flag
         \/ /\ \E empty : receiver' = [receiver EXCEPT ![v] = [pc |-> "if_event", on |-> u, empty |-> empty]]
            /\ \E mark \in {"acknowledged", "rejected"} : flag' = [flag EXCEPT ![t[1]] = mark]
<1>1. CASE ReceiveResponse(v, t, u)
  BY <1>1 DEF ReceiveResponse, RequestOf
<1>2. ASSUME NEW type \in {"ACK", "RST"}, ReceiveEmpty(v, t, u, type),
             receiver' # [receiver EXCEPT ![v].pc = "dead"] \/ flag' # flag
      PROVE  /\ receiver' = [receiver EXCEPT ![v] = [pc |-> "if_event", on |-> u, empty |-> TRUE]]
             /\ flag' = [flag EXCEPT ![t[1]] = M!RequestFlagAfterEmpty(type, flag[t[1]])]
  BY <1>2 DEF ReceiveEmpty, RequestOf, ReceiverGoto
<1>3. ASSUME NEW type \in {"ACK", "RST"}
      PROVE  M!RequestFlagAfterEmpty(type, flag[t[1]]) \in {"acknowledged", "rejected"}
  <2>1. CASE type = "ACK"
    BY <2>1 DEF M!RequestFlagAfterEmpty
  <2>2. CASE type = "RST" /\ flag[t[1]] # "acknowledged"
    BY <2>2 DEF M!RequestFlagAfterEmpty
  <2>3. CASE type = "RST" /\ flag[t[1]] = "acknowledged"
    BY <2>3 DEF M!RequestFlagAfterEmpty
  <2>4. QED  BY <2>1, <2>2, <2>3
<1>4. QED  BY <1>1, <1>2, <1>3

\* Every message marks its request before its receiver looks for the Event.
LEMMA MessageSilenceStep ==
  ASSUME TypeInv, SilenceInv, [Next]_vars,
         NEW v \in Receivers, NEW t \in Transactions, NEW u \in Transactions,
         \/ ReceiveResponse(v, t, u)
         \/ \E type \in {"ACK", "RST"} : ReceiveEmpty(v, t, u, type)
  PROVE  SilenceInv'
<1>1. /\ receiver \in [Receivers -> [pc : ReceiverPcs, on : Transactions \cup {None}, empty : BOOLEAN]]
      /\ flag \in [Requests -> {"open", "acknowledged", "rejected", "timeouted"}]
      /\ response \in [Transactions -> 0..Blocks]
  BY DEF TypeInv, TypeOK, M!Flags
<1>2. UNCHANGED <<helper, asked, sent, stop, user, retransmitter, closer, stopped>>
  BY DEF ReceiveResponse, ReceiveEmpty
<1>3. t[1] \in Requests /\ Sent(t) /\ u[1] = t[1]
  BY DEF ReceiveResponse, ReceiveEmpty, ByMid, ByToken, Latest, RequestOf, Transactions
<1>4. \/ receiver' = [receiver EXCEPT ![v].pc = "dead"] /\ flag' = flag
      \/ /\ \E empty : receiver' = [receiver EXCEPT ![v] = [pc |-> "if_event", on |-> u, empty |-> empty]]
         /\ \E mark \in {"acknowledged", "rejected"} : flag' = [flag EXCEPT ![t[1]] = mark]
  BY MessageMarks
<1>5. /\ \A r \in Requests : flag'[r] \in {flag[r], "acknowledged", "rejected"}
      /\ receiver'[v].pc # "dead" => flag'[t[1]] \in {"acknowledged", "rejected"}
  BY <1>1, <1>3, <1>4
<1>6. \A w \in Receivers :
        receiver'[w].pc \in {"if_event", "set_event"} =>
          \/ Told(RequestOf(receiver[w].on))'
          \/ receiver[w].pc \in {"if_event", "set_event"} /\ receiver'[w].on = receiver[w].on
  BY <1>1, <1>3, <1>4, <1>5 DEF Told, RequestOf
<1>7. OneMessage'
  <2>1. CASE ReceiveResponse(v, t, u)
    <3>1. asked[t].block = 1 /\ response' = [response EXCEPT ![u] = asked[t].block]
          /\ receiver' = [receiver EXCEPT ![v] = [pc |-> "if_event", on |-> u, empty |-> FALSE]]
      BY <1>3, <2>1 DEF ReceiveResponse, SilenceInv, OneMessage
    <3>2. response'[u] = 1 /\ \A x : response[x] = 1 /\ x \in Transactions => response'[x] = 1
      BY <1>1, <3>1
    <3>3. \A w \in Receivers :
            /\ receiver'[w].pc \notin {"next", "prepare", "start"}
            /\ \/ receiver'[w].pc \in {"if_event", "set_event"} /\ ~receiver'[w].empty
               \/ receiver'[w].pc \in {"wait", "block"}
               => response'[receiver'[w].on] = 1
      BY <1>1, <3>1, <3>2 DEF SilenceInv, OneMessage, TypeInv, ReceiverHasTransaction
    <3>4. QED  BY <1>2, <3>3 DEF SilenceInv, OneMessage, Sent
  <2>2. ASSUME NEW type \in {"ACK", "RST"}, ReceiveEmpty(v, t, u, type) PROVE OneMessage'
    <3>1. UNCHANGED <<asked, sent, response>>
      BY <2>2 DEF ReceiveEmpty
    <3>2. \/ receiver' = [receiver EXCEPT ![v].pc = "dead"]
          \/ receiver' = [receiver EXCEPT ![v] = [pc |-> "if_event", on |-> u, empty |-> TRUE]]
      BY <2>2 DEF ReceiveEmpty, ReceiverGoto
    <3>3. QED  BY <1>1, <3>1, <3>2 DEF SilenceInv, OneMessage, Sent
  <2>3. QED  BY <2>1, <2>2
<1>8. QED
  BY <1>2, <1>5, <1>6, <1>7, SilentStays, SilenceStep DEF helper

\* Without blocks: whatever ends a retransmission has marked the request before,
\* and who is woken has a result or a thread that has gone through its rounds.
THEOREM SilenceInvariant == ASSUME Blocks = 1 PROVE Spec => []SilenceInv
<1>1. Init => SilenceInv
  <2> SUFFICES ASSUME Init PROVE SilenceInv
    OBVIOUS
  <2>1. OneMessage
    BY DEF Init, OneMessage, NotAsked, Sent
  <2>2. \A r \in Requests : stop[<<r, 1>>] = "none" /\ retransmitter[<<r, 1>>].pc = "idle"
    BY FirstTransaction DEF Init
  <2>3. WokenHaveResult
    BY RequestsAssumption DEF Init, WokenHaveResult
  <2>4. QED
    BY <2>1, <2>2, <2>3 DEF Init, SilenceInv, EventsAreTold, ReceiversHaveTold, GivesUpInSilence, GivingUp,
       CloserStops
<1>2. TypeInv /\ EventsInv /\ SilenceInv /\ [Next]_vars => SilenceInv'
  <2> SUFFICES ASSUME TypeInv, EventsInv, SilenceInv, [Next]_vars PROVE SilenceInv'
    OBVIOUS
  <2>1. CASE UNCHANGED vars
    <3>1. UNCHANGED <<result, responded, returned, flag, asked, sent, response, stop, user, receiver,
                      retransmitter, closer, stopped>>
      BY <2>1 DEF vars, helper, exchange
    <3>2. OneMessage'
      BY <3>1, OneMessageStays DEF SilenceInv
    <3>3. QED  BY <3>1, <3>2, SilentStays, SilenceStep
  <2>2. CASE System
    BY <2>2, UserSilenceStep, ReceiverSilenceStep, RetransmitterSilenceStep, CloserSilenceStep DEF System
  <2>3. CASE Environment
    BY <2>3, UserSilenceStep, CloserSilenceStep, MessageSilenceStep DEF Environment
  <2>4. QED  BY <2>1, <2>2, <2>3 DEF Next
<1>3. QED
  BY <1>1, <1>2, TypeCorrect, EventsInvariant, PTL DEF Spec

\* A blocking call that is answered in one message, without timeout, on a client
\* that is not stopped, returns None only after every round (client/coap.py
\* 218-236, helperclient.py 48-63, 273-275), for any number of calls, receivers
\* and rounds.
THEOREM NoneHolds == ASSUME Blocks = 1 PROVE Spec => []NoneMeansGivenUp
<1>1. TypeInv /\ SilenceInv => NoneMeansGivenUp
  <2> SUFFICES ASSUME TypeInv, SilenceInv, NEW r \in Blocking \ Timed,
                      user[r] = "done", returned[r] = "none", ~stopped
               PROVE  \E t \in Transactions : RequestOf(t) = r /\ retransmitter[t].count > MAX_RETRANSMIT
    BY DEF NoneMeansGivenUp
  <2>1. r \in Requests /\ Silent(r)
    BY RequestsAssumption DEF SilenceInv, WokenHaveResult
  <2>2. <<r, 1>> \in Transactions /\ RequestOf(<<r, 1>>) = r
    BY <2>1, FirstTransaction DEF RequestOf
  <2>3. QED  BY <2>1, <2>2 DEF Silent
<1>2. QED
  BY <1>1, TypeCorrect, SilenceInvariant, PTL

-----------------------------------------------------------------------------
(* The order of an answer and a give-up, where answers are not in blocks.  *)

Idle(r) == retransmitter[<<r, 1>>].pc = "idle"
Marked(r) == flag[r] \in {"acknowledged", "rejected"}

\* The thread of r's transaction will not report a give-up any more.
Settled(r) ==
  \/ retransmitter[<<r, 1>>].pc \in {"cleanup", "done", "dead"}
  \/ retransmitter[<<r, 1>>].pc \notin GivingUp /\ Marked(r)

\* A receiver that waits for a thread which has not begun has marked the request;
\* when it goes on no give-up can follow, nor after what it delivers.
AnswersWait ==
  \A v \in Receivers :
    LET r == RequestOf(receiver[v].on) IN
    /\ receiver[v].pc \in {"if_event", "set_event", "wait"} /\ Idle(r) => Marked(r)
    /\ receiver[v].pc \in {"block", "callback", "deliver", "respond"} => Settled(r)
AnsweredIsSettled == \A r \in Requests : result[r] = "response" => Settled(r)

AnswerInv == AnswersWait /\ AnsweredIsSettled

\* Steps that leave the retransmissions alone and unmark no request.
LEMMA SettledStays ==
  ASSUME TypeInv, retransmitter' = retransmitter,
         \A r \in Requests : flag'[r] \in {flag[r], "acknowledged", "rejected"}
  PROVE  \A r \in Requests : /\ Idle(r)' => Idle(r)
                             /\ Idle(r)' /\ Marked(r) => Marked(r)'
                             /\ Settled(r) => Settled(r)'
  BY DEF Idle, Marked, Settled

\* What a step leaves to the receivers and the results.
LEMMA AnswerKept ==
  ASSUME TypeInv, SilenceInv, AnswerInv,
         \A r \in Requests : /\ Idle(r)' => Idle(r)
                             /\ Idle(r)' /\ Marked(r) => Marked(r)'
                             /\ Settled(r) => Settled(r)',
         \A v \in Receivers :
           \/ receiver'[v] = receiver[v]
           \/ receiver'[v].pc \in {"recvfrom", "ended", "dead"},
         result' = result
  PROVE  AnswerInv'
<1>1. AnswersWait'
  <2> SUFFICES ASSUME NEW v \in Receivers, receiver'[v] = receiver[v],
                      receiver[v].pc \in {"if_event", "set_event", "wait", "block", "callback",
                                         "deliver", "respond"}
               PROVE  LET r == RequestOf(receiver[v].on) IN
                      /\ receiver[v].pc \in {"if_event", "set_event", "wait"} /\ Idle(r)' => Marked(r)'
                      /\ receiver[v].pc \in {"block", "callback", "deliver", "respond"} => Settled(r)'
    BY DEF AnswersWait, Idle, Marked, Settled
  <2>1. PICK r \in Requests : r = RequestOf(receiver[v].on)
    BY DEF TypeInv, ReceiverHasTransaction, Transactions, RequestOf
  <2>2. /\ receiver[v].pc \in {"if_event", "set_event", "wait"} /\ Idle(r) => Marked(r)
        /\ receiver[v].pc \in {"block", "callback", "deliver", "respond"} => Settled(r)
    BY <2>1 DEF AnswerInv, AnswersWait
  <2>3. /\ Idle(r)' => Idle(r)
        /\ Idle(r)' /\ Marked(r) => Marked(r)'
        /\ Settled(r) => Settled(r)'
    OBVIOUS
  <2> QED
    BY <2>1, <2>2, <2>3
<1>2. AnsweredIsSettled'
  BY DEF AnswerInv, AnsweredIsSettled
<1> QED
  BY <1>1, <1>2 DEF AnswerInv

\* A call's thread of retransmission is started once, from the beginning.
LEMMA UserAnswerStep ==
  ASSUME TypeInv, EventsInv, SilenceInv, AnswerInv, NEW r \in Requests,
         UserStep(r) \/ UserRegister(r)
  PROVE  AnswerInv' /\ result' = result
<1>1. /\ receiver \in [Receivers -> [pc : ReceiverPcs, on : Transactions \cup {None}, empty : BOOLEAN]]
      /\ retransmitter \in [Transactions -> [pc : RetransmitterPcs, count : 0..MAX_RETRANSMIT + 1]]
  BY DEF TypeInv, TypeOK
<1>2. UNCHANGED <<flag, result>>
  BY DEF UserStep, UserRegister, UserSend, UserStartReceiver, UserPrepare, UserStart, UserWake,
     UserDelete, UserReturn, helper, exchange
<1>3. \A v \in Receivers : receiver'[v] = receiver[v] \/ receiver'[v].pc \in {"recvfrom", "ended"}
  <2>1. CASE UserStartReceiver(r)
    BY <1>1, <2>1, AtLoopType DEF UserStartReceiver, StartReceiver
  <2>2. CASE ~UserStartReceiver(r)
    BY <2>2 DEF UserStep, UserRegister, UserSend, UserPrepare, UserStart, UserWake, UserDelete,
       UserReturn
  <2>3. QED  BY <2>1, <2>2
<1>4. CASE UserStart(r)
  <2>1. retransmitter[<<r, 1>>].pc = "idle"
    BY <1>4 DEF UserStart, EventsInv, UsersReady, Prepared
  <2>2. \A q \in Requests :
          retransmitter'[<<q, 1>>].pc = IF q = r THEN "while" ELSE retransmitter[<<q, 1>>].pc
    BY <1>1, <1>4, FirstTransaction DEF UserStart, StartRetransmission
  <2>3. \A q \in Requests : /\ Idle(q)' => Idle(q)
                            /\ Idle(q)' /\ Marked(q) => Marked(q)'
                            /\ Settled(q) => Settled(q)'
    BY <1>2, <2>1, <2>2 DEF Idle, Marked, Settled, GivingUp
  <2>4. QED  BY <1>2, <1>3, <2>3, AnswerKept
<1>5. CASE ~UserStart(r)
  <2>1. retransmitter' = retransmitter
    BY <1>5 DEF UserStep, UserRegister, UserSend, UserStartReceiver, UserPrepare, UserWake,
       UserDelete, UserReturn
  <2>2. QED  BY <1>2, <1>3, <2>1, SettledStays, AnswerKept
<1>6. QED  BY <1>4, <1>5

\* The receiver passes its wait when the thread has not begun or is through.
LEMMA ReceiverAnswerStep ==
  ASSUME Blocks = 1, TypeInv, EventsInv, SilenceInv, AnswerInv, NEW v \in Receivers, ReceiverStep(v)
  PROVE  /\ AnswerInv'
         /\ \A r \in Requests : result[r] = "response" => result'[r] = "response"
<1>1. /\ receiver \in [Receivers -> [pc : ReceiverPcs, on : Transactions \cup {None}, empty : BOOLEAN]]
      /\ result \in [Requests -> {"none", "response", "request"}]
  BY DEF TypeInv, TypeOK
<1>2. receiver[v].pc \notin {"next", "prepare", "start"}
  BY DEF SilenceInv, OneMessage
<1>3. /\ UNCHANGED <<flag, retransmitter>>
      /\ \A w \in Receivers \ {v} : receiver'[w] = receiver[w]
  BY <1>1, <1>2 DEF ReceiverStep, ReceiverTimeout, ReceiverIfEvent, ReceiverSetEvent,
     ReceiverWait, ReceiverBlock, ReceiverNext, ReceiverPrepare, ReceiverStart, ReceiverCallback,
     ReceiverDeliver, ReceiverRespond, ReceiverGoto, NextDatagram, AfterEvent, exchange
<1>4. PICK t : t = receiver[v].on
  OBVIOUS
<1> DEFINE r == RequestOf(t)
<1>5. receiver[v].pc \notin {"idle", "recvfrom", "ended", "dead"} =>
        t \in Transactions /\ r \in Requests /\ t = <<r, 1>>
  BY <1>4, FirstIsOnly DEF TypeInv, ReceiverHasTransaction, SilenceInv
<1>6. /\ receiver[v].pc \in {"if_event", "set_event", "wait"} /\ Idle(r) => Marked(r)
      /\ receiver[v].pc \in {"block", "callback", "deliver", "respond"} => Settled(r)
  BY <1>4 DEF AnswerInv, AnswersWait
<1>7. /\ \A q : (Idle(q)' <=> Idle(q)) /\ (Marked(q)' <=> Marked(q)) /\ (Settled(q)' <=> Settled(q))
  BY <1>3 DEF Idle, Marked, Settled
<1> HIDE DEF r
<1>8. ASSUME receiver'[v].on = t,
             /\ receiver'[v].pc \in {"if_event", "set_event", "wait"} /\ Idle(r) => Marked(r)
             /\ receiver'[v].pc \in {"block", "callback", "deliver", "respond"} => Settled(r)
      PROVE  AnswersWait'
  <2> SUFFICES ASSUME NEW w \in Receivers
               PROVE  /\ receiver'[w].pc \in {"if_event", "set_event", "wait"}
                           /\ Idle(RequestOf(receiver'[w].on)) => Marked(RequestOf(receiver'[w].on))
                      /\ receiver'[w].pc \in {"block", "callback", "deliver", "respond"}
                           => Settled(RequestOf(receiver'[w].on))
    BY <1>3 DEF AnswersWait, Idle, Marked, Settled
  <2>1. CASE w = v
    BY <1>8, <2>1 DEF r
  <2>2. CASE w # v
    BY <1>3, <2>2 DEF AnswerInv, AnswersWait
  <2>3. QED  BY <2>1, <2>2
<1>9. ASSUME NextDatagram(v) PROVE AnswersWait'
  <2>1. receiver'[v].pc \in {"recvfrom", "ended"}
    BY <1>1, <1>9, AtLoopType DEF NextDatagram
  <2>2. QED
    BY <1>3, <2>1 DEF AnswerInv, AnswersWait, Idle, Marked, Settled
<1>10. ASSUME NEW pc, ReceiverGoto(v, pc) PROVE receiver'[v].pc = pc /\ receiver'[v].on = t
  BY <1>1, <1>4, <1>10 DEF ReceiverGoto
<1>11. AnswersWait'
  <2>1. CASE ReceiverTimeout(v) \/ ReceiverRespond(v)
    BY <1>9, <2>1 DEF ReceiverTimeout, ReceiverRespond
  <2>2. CASE ReceiverIfEvent(v) \/ ReceiverSetEvent(v)
    BY <1>6, <1>8, <1>9, <1>10, <2>2 DEF ReceiverIfEvent, ReceiverSetEvent, AfterEvent
  <2>3. CASE ReceiverWait(v)
    <3>1. receiver[v].pc = "wait" /\ retransmitter[t].pc \in {"idle", "done"} /\ t = <<r, 1>>
      BY <1>4, <1>5, <2>3 DEF ReceiverWait, RetransmitThreadIsNone
    <3>2. Settled(r)
      BY <1>6, <3>1 DEF Settled, Idle, Marked, GivingUp
    <3>3. QED  BY <1>8, <1>10, <2>3, <3>2 DEF ReceiverWait
  <2>4. CASE ReceiverBlock(v) \/ ReceiverCallback(v) \/ ReceiverDeliver(v)
    <3>1. Settled(r)
      BY <1>6, <2>4 DEF ReceiverBlock, ReceiverCallback, ReceiverDeliver
    <3>2. \/ NextDatagram(v)
          \/ \E pc \in {"next", "callback", "deliver", "respond", "dead"} : ReceiverGoto(v, pc)
      BY <2>4 DEF ReceiverBlock, ReceiverCallback, ReceiverDeliver
    <3>3. QED  BY <1>8, <1>9, <1>10, <3>1, <3>2
  <2>5. QED
    BY <1>2, <2>1, <2>2, <2>3, <2>4 DEF ReceiverStep, ReceiverNext, ReceiverPrepare, ReceiverStart
<1>12. CASE ReceiverRespond(v)
  <2>1. Settled(r) /\ r \in Requests
    BY <1>5, <1>6, <1>12 DEF ReceiverRespond
  <2>2. \A q \in Requests : result'[q] = IF q = r /\ r \in Blocking THEN "response" ELSE result[q]
    BY <1>1, <1>4, <1>12 DEF ReceiverRespond, Deliver, r
  <2>3. AnsweredIsSettled'
    BY <1>7, <2>1, <2>2 DEF AnswerInv, AnsweredIsSettled
  <2>4. QED  BY <1>11, <2>2, <2>3 DEF AnswerInv
<1>13. CASE ~ReceiverRespond(v)
  <2>1. result' = result
    BY <1>13 DEF ReceiverStep, ReceiverTimeout, ReceiverIfEvent, ReceiverSetEvent, ReceiverWait,
       ReceiverBlock, ReceiverNext, ReceiverPrepare, ReceiverStart, ReceiverCallback,
       ReceiverDeliver, helper
  <2>2. AnsweredIsSettled'
    BY <1>7, <2>1 DEF AnswerInv, AnsweredIsSettled
  <2>3. QED  BY <1>11, <2>1, <2>2 DEF AnswerInv
<1>14. QED  BY <1>12, <1>13

\* A thread that gives up has found its request unmarked: no answer has been
\* delivered, nor will one be before it has reported.
LEMMA RetransmitterAnswerStep ==
  ASSUME TypeInv, EventsInv, SilenceInv, AnswerInv, NEW t \in Transactions, RetransmitterStep(t)
  PROVE  /\ AnswerInv'
         /\ \A r \in Requests : result[r] = "response" => result'[r] = "response"
<1>1. /\ retransmitter \in [Transactions -> [pc : RetransmitterPcs, count : 0..MAX_RETRANSMIT + 1]]
      /\ receiver \in [Receivers -> [pc : ReceiverPcs, on : Transactions \cup {None}, empty : BOOLEAN]]
      /\ flag \in [Requests -> {"open", "acknowledged", "rejected", "timeouted"}]
      /\ result \in [Requests -> {"none", "response", "request"}]
  BY DEF TypeInv, TypeOK, M!Flags
<1>2. retransmitter[t].pc # "idle"
  BY DEF RetransmitterStep, RetransmitterWhile, RetransmitterWake, RetransmitterSend,
     RetransmitterIfAnswered, RetransmitterGiveUp, RetransmitterCallback, RetransmitterDeliver,
     RetransmitterIfTimeouted, RetransmitterRespond, RetransmitterCleanup
<1>3. PICK r \in Requests : t = <<r, 1>> /\ RequestOf(t) = r
  BY <1>2, StartedIsOnly DEF SilenceInv
<1>4. \A v \in Receivers : receiver'[v] = receiver[v] \/ receiver'[v].pc \in {"recvfrom", "ended"}
  <2>1. CASE RetransmitterSend(t)
    BY <1>1, <2>1, AtLoopType DEF RetransmitterSend, StartReceiver
  <2>2. CASE ~RetransmitterSend(t)
    BY <2>2 DEF RetransmitterStep, RetransmitterWhile, RetransmitterWake,
       RetransmitterIfAnswered, RetransmitterGiveUp, RetransmitterCallback, RetransmitterDeliver,
       RetransmitterIfTimeouted, RetransmitterRespond, RetransmitterCleanup, RetransmitterOnly
  <2>3. QED  BY <2>1, <2>2
<1>5. \A u \in Transactions \ {t} : retransmitter'[u] = retransmitter[u]
  <2>1. \/ \E rec : retransmitter' = [retransmitter EXCEPT ![t] = rec]
        \/ \E pc : retransmitter' = [retransmitter EXCEPT ![t].pc = pc]
    BY DEF RetransmitterStep, RetransmitterWhile, RetransmitterWake, RetransmitterSend,
       RetransmitterIfAnswered, RetransmitterGiveUp, RetransmitterCallback, RetransmitterDeliver,
       RetransmitterIfTimeouted, RetransmitterRespond, RetransmitterCleanup, RetransmitterGoto
  <2>2. QED  BY <1>1, <2>1
<1>6. /\ \A q \in Requests \ {r} : flag'[q] = flag[q]
      /\ Marked(r) /\ retransmitter[t].pc # "give_up" => Marked(r)'
  <2>1. CASE RetransmitterGiveUp(t)
    BY <1>1, <1>3, <2>1 DEF RetransmitterGiveUp
  <2>2. CASE ~RetransmitterGiveUp(t)
    BY <2>2 DEF RetransmitterStep, RetransmitterWhile, RetransmitterWake, RetransmitterSend,
       RetransmitterIfAnswered, RetransmitterCallback, RetransmitterDeliver,
       RetransmitterIfTimeouted, RetransmitterRespond, RetransmitterCleanup, RetransmitterOnly,
       exchange, Marked
  <2>3. QED  BY <2>1, <2>2
<1>7. retransmitter'[t].pc # "idle"
  <2>1. ASSUME NEW pc, RetransmitterGoto(t, pc) PROVE retransmitter'[t].pc = pc
    BY <1>1, <2>1 DEF RetransmitterGoto
  <2>2. CASE RetransmitterWake(t)
    <3>1. \/ \E pc \in {"resend", "while"} : \E count : retransmitter' =
               [retransmitter EXCEPT ![t] = [pc |-> pc, count |-> count]]
          \/ retransmitter' = [retransmitter EXCEPT ![t] = [@ EXCEPT !.pc = "while"]]
      BY <2>2 DEF RetransmitterWake
    <3>2. QED  BY <1>1, <3>1
  <2>3. CASE ~RetransmitterWake(t)
    <3>1. \E pc : RetransmitterGoto(t, pc) /\ pc # "idle"
      BY <2>3 DEF RetransmitterStep, RetransmitterWhile, RetransmitterSend,
         RetransmitterIfAnswered, RetransmitterGiveUp, RetransmitterCallback, RetransmitterDeliver,
         RetransmitterIfTimeouted, RetransmitterRespond, RetransmitterCleanup
    <3>2. QED  BY <2>1, <3>1
  <2>4. QED  BY <2>2, <2>3
<1>8. Settled(r) => Settled(r)'
  <2> SUFFICES ASSUME Settled(r) PROVE Settled(r)'
    OBVIOUS
  <2>1. ASSUME NEW pc, RetransmitterGoto(t, pc) PROVE retransmitter'[<<r, 1>>].pc = pc
    BY <1>1, <1>3, <2>1 DEF RetransmitterGoto
  <2>2. \/ retransmitter[t].pc \in {"cleanup", "done", "dead"}
        \/ retransmitter[t].pc \notin GivingUp /\ Marked(r)
    BY <1>3 DEF Settled
  <2>3. CASE RetransmitterCleanup(t)
    BY <2>1, <2>3 DEF RetransmitterCleanup, Settled
  <2>4. CASE RetransmitterIfAnswered(t)
    BY <1>3, <2>1, <2>2, <2>4 DEF RetransmitterIfAnswered, Answered, Marked, Settled
  <2>5. CASE RetransmitterWhile(t) \/ RetransmitterWake(t) \/ RetransmitterSend(t)
    <3>1. Marked(r)'
      BY <1>6, <2>2, <2>5 DEF RetransmitterWhile, RetransmitterWake, RetransmitterSend
    <3>2. retransmitter'[<<r, 1>>].pc \in {"while", "wait", "resend", "if_answered"}
      <4>1. CASE RetransmitterWake(t)
        <5>1. \/ \E pc \in {"resend", "while"} : \E count : retransmitter' =
                   [retransmitter EXCEPT ![t] = [pc |-> pc, count |-> count]]
              \/ retransmitter' = [retransmitter EXCEPT ![t] = [@ EXCEPT !.pc = "while"]]
          BY <4>1 DEF RetransmitterWake
        <5>2. retransmitter'[t].pc \in {"resend", "while"}
          BY <1>1, <5>1
        <5>3. QED  BY <1>3, <5>2
      <4>2. CASE RetransmitterWhile(t) \/ RetransmitterSend(t)
        BY <2>1, <4>2 DEF RetransmitterWhile, RetransmitterSend
      <4>3. QED  BY <2>5, <4>1, <4>2
    <3>3. QED  BY <3>1, <3>2 DEF Settled, GivingUp
  <2>6. QED
    BY <2>2, <2>3, <2>4, <2>5 DEF RetransmitterStep, RetransmitterGiveUp, RetransmitterCallback,
       RetransmitterDeliver, RetransmitterIfTimeouted, RetransmitterRespond, GivingUp
<1>9. \A q \in Requests : /\ Idle(q)' => Idle(q)
                          /\ Idle(q)' /\ Marked(q) => Marked(q)'
                          /\ Settled(q) => Settled(q)'
  <2> SUFFICES ASSUME NEW q \in Requests
               PROVE  /\ Idle(q)' => Idle(q)
                      /\ Idle(q)' /\ Marked(q) => Marked(q)'
                      /\ Settled(q) => Settled(q)'
    OBVIOUS
  <2>1. CASE q = r
    BY <1>3, <1>7, <1>8, <2>1 DEF Idle
  <2>2. CASE q # r
    <3>1. <<q, 1>> \in Transactions \ {t}
      BY <1>3, <2>2, FirstTransaction
    <3>2. retransmitter'[<<q, 1>>] = retransmitter[<<q, 1>>] /\ flag'[q] = flag[q]
      BY <1>5, <1>6, <2>2, <3>1
    <3>3. QED  BY <3>2 DEF Idle, Marked, Settled
  <2>3. QED  BY <2>1, <2>2
<1>10. CASE RetransmitterRespond(t)
  <2>1. ~Settled(r)
    BY <1>3, <1>10 DEF RetransmitterRespond, Settled, GivingUp
  <2>2. result[r] # "response"
    BY <2>1 DEF AnswerInv, AnsweredIsSettled
  <2>3. PICK object \in {"none", "request"} : Deliver(r, object)
    BY <1>3, <1>10 DEF RetransmitterRespond
  <2>4. \A q \in Requests : result'[q] = IF q = r /\ r \in Blocking THEN object ELSE result[q]
    BY <1>1, <2>3 DEF Deliver
  <2>5. \A q \in Requests : result'[q] = "response" <=> result[q] = "response"
    BY <2>2, <2>4
  <2>6. AnsweredIsSettled'
    BY <1>9, <2>5 DEF AnswerInv, AnsweredIsSettled
  <2>7. receiver' = receiver
    BY <1>10 DEF RetransmitterRespond
  <2>8. AnswersWait'
    <3> SUFFICES ASSUME NEW v \in Receivers,
                        receiver[v].pc \in {"if_event", "set_event", "wait", "block", "callback",
                                           "deliver", "respond"}
                 PROVE  LET q == RequestOf(receiver[v].on) IN
                        /\ receiver[v].pc \in {"if_event", "set_event", "wait"} /\ Idle(q)' => Marked(q)'
                        /\ receiver[v].pc \in {"block", "callback", "deliver", "respond"} => Settled(q)'
      BY <2>7 DEF AnswersWait, Idle, Marked, Settled
    <3>1. PICK q \in Requests : q = RequestOf(receiver[v].on)
      BY DEF TypeInv, ReceiverHasTransaction, Transactions, RequestOf
    <3>2. /\ receiver[v].pc \in {"if_event", "set_event", "wait"} /\ Idle(q) => Marked(q)
          /\ receiver[v].pc \in {"block", "callback", "deliver", "respond"} => Settled(q)
      BY <3>1 DEF AnswerInv, AnswersWait
    <3>3. /\ Idle(q)' => Idle(q)
          /\ Idle(q)' /\ Marked(q) => Marked(q)'
          /\ Settled(q) => Settled(q)'
      BY <1>9
    <3>4. QED  BY <2>7, <3>1, <3>2, <3>3
  <2>9. QED  BY <2>5, <2>6, <2>8 DEF AnswerInv
<1>11. CASE ~RetransmitterRespond(t)
  <2>1. result' = result
    BY <1>11 DEF RetransmitterStep, RetransmitterWhile, RetransmitterWake, RetransmitterSend,
       RetransmitterIfAnswered, RetransmitterGiveUp, RetransmitterCallback,
       RetransmitterDeliver, RetransmitterIfTimeouted, RetransmitterCleanup, RetransmitterOnly,
       helper
  <2>2. QED  BY <1>4, <1>9, <2>1, AnswerKept
<1>12. QED  BY <1>10, <1>11

\* Every message that is matched marks its request.
LEMMA MessageAnswerStep ==
  ASSUME TypeInv, SilenceInv, AnswerInv,
         NEW v \in Receivers, NEW t \in Transactions, NEW u \in Transactions,
         \/ ReceiveResponse(v, t, u)
         \/ \E type \in {"ACK", "RST"} : ReceiveEmpty(v, t, u, type)
  PROVE  AnswerInv' /\ result' = result
<1>1. /\ receiver \in [Receivers -> [pc : ReceiverPcs, on : Transactions \cup {None}, empty : BOOLEAN]]
      /\ flag \in [Requests -> {"open", "acknowledged", "rejected", "timeouted"}]
  BY DEF TypeInv, TypeOK, M!Flags
<1>2. UNCHANGED <<result, retransmitter>>
  BY DEF ReceiveResponse, ReceiveEmpty, helper
<1>3. t[1] \in Requests /\ u[1] = t[1]
  BY DEF ReceiveResponse, ReceiveEmpty, ByMid, ByToken, Latest, RequestOf, Transactions
<1>4. \/ receiver' = [receiver EXCEPT ![v].pc = "dead"] /\ flag' = flag
      \/ /\ \E empty : receiver' = [receiver EXCEPT ![v] = [pc |-> "if_event", on |-> u, empty |-> empty]]
         /\ \E mark \in {"acknowledged", "rejected"} : flag' = [flag EXCEPT ![t[1]] = mark]
  BY <1>3, MessageMarks
<1>5. \A r \in Requests : flag'[r] \in {flag[r], "acknowledged", "rejected"}
  BY <1>1, <1>3, <1>4
<1>6. CASE receiver' = [receiver EXCEPT ![v].pc = "dead"] /\ flag' = flag
  <2>1. \A w \in Receivers : receiver'[w] = receiver[w] \/ receiver'[w].pc = "dead"
    BY <1>1, <1>6
  <2>2. QED  BY <1>2, <1>5, <2>1, SettledStays, AnswerKept
<1>7. CASE /\ \E empty : receiver' = [receiver EXCEPT ![v] = [pc |-> "if_event", on |-> u, empty |-> empty]]
           /\ \E mark \in {"acknowledged", "rejected"} : flag' = [flag EXCEPT ![t[1]] = mark]
  <2>1. Marked(t[1])'
    BY <1>1, <1>3, <1>7 DEF Marked
  <2>2. receiver'[v].pc = "if_event" /\ receiver'[v].on = u /\ RequestOf(u) = t[1]
    BY <1>1, <1>3, <1>7 DEF RequestOf
  <2>3. \A w \in Receivers \ {v} : receiver'[w] = receiver[w]
    BY <1>1, <1>7
  <2>4. \A r \in Requests : /\ Idle(r)' => Idle(r)
                            /\ Idle(r)' /\ Marked(r) => Marked(r)'
                            /\ Settled(r) => Settled(r)'
    BY <1>2, <1>5, SettledStays
  <2>5. AnswersWait'
    <3> SUFFICES ASSUME NEW w \in Receivers \ {v},
                        receiver[w].pc \in {"if_event", "set_event", "wait", "block", "callback",
                                           "deliver", "respond"}
                 PROVE  LET q == RequestOf(receiver[w].on) IN
                        /\ receiver[w].pc \in {"if_event", "set_event", "wait"} /\ Idle(q)' => Marked(q)'
                        /\ receiver[w].pc \in {"block", "callback", "deliver", "respond"} => Settled(q)'
      BY <2>1, <2>2, <2>3 DEF AnswersWait, Idle, Marked, Settled
    <3>1. PICK q \in Requests : q = RequestOf(receiver[w].on)
      BY DEF TypeInv, ReceiverHasTransaction, Transactions, RequestOf
    <3>2. /\ receiver[w].pc \in {"if_event", "set_event", "wait"} /\ Idle(q) => Marked(q)
          /\ receiver[w].pc \in {"block", "callback", "deliver", "respond"} => Settled(q)
      BY <3>1 DEF AnswerInv, AnswersWait
    <3>3. QED  BY <2>3, <2>4, <3>1, <3>2
  <2>6. AnsweredIsSettled'
    BY <1>2, <2>4 DEF AnswerInv, AnsweredIsSettled
  <2>7. QED  BY <1>2, <2>5, <2>6 DEF AnswerInv
<1>8. QED  BY <1>2, <1>4, <1>6, <1>7

\* An answer in one message is not replaced by the give-up of its request
\* (client/coap.py 140-150, 229-236; helperclient.py 48-63), for any number of
\* calls, receivers and rounds, with or without timeouts.
THEOREM AnswerHolds == ASSUME Blocks = 1 PROVE Spec => AnswerIsNotReplaced
<1>1. Init => AnswerInv
  BY DEF Init, AnswerInv, AnswersWait, AnsweredIsSettled
<1>2. TypeInv /\ EventsInv /\ SilenceInv /\ AnswerInv /\ [Next]_vars =>
        /\ AnswerInv'
        /\ \A r \in Requests : result[r] = "response" => result'[r] = "response"
  <2> SUFFICES ASSUME TypeInv, EventsInv, SilenceInv, AnswerInv, [Next]_vars
               PROVE  /\ AnswerInv'
                      /\ \A r \in Requests : result[r] = "response" => result'[r] = "response"
    OBVIOUS
  <2>1. CASE UNCHANGED <<result, flag, retransmitter, receiver>>
    <3>1. \A r \in Requests : flag'[r] \in {flag[r], "acknowledged", "rejected"}
      BY <2>1
    <3>2. QED  BY <2>1, <3>1, SettledStays, AnswerKept
  <2>2. CASE UNCHANGED vars
    BY <2>1, <2>2 DEF vars, helper, exchange
  <2>3. CASE CloserStep \/ CloserBegin
    BY <2>1, <2>3 DEF CloserStep, CloserBegin, CloserEvents, CloserJoin, CloserLock, CloserSignal,
       CloserOnly, exchange, helper
  <2>4. CASE System
    BY <2>3, <2>4, UserAnswerStep, ReceiverAnswerStep, RetransmitterAnswerStep DEF System
  <2>5. CASE Environment
    BY <2>3, <2>5, UserAnswerStep, MessageAnswerStep DEF Environment
  <2>6. QED  BY <2>2, <2>4, <2>5 DEF Next
<1>3. TypeInv /\ EventsInv /\ SilenceInv /\ AnswerInv /\ [Next]_vars =>
        [\A r \in Requests : result[r] = "response" => result'[r] = "response"]_vars
  BY <1>2
<1>4. QED
  BY <1>1, <1>2, <1>3, TypeCorrect, EventsInvariant, SilenceInvariant, PTL
     DEF Spec, AnswerIsNotReplaced
=============================================================================
