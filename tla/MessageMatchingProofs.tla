----------------------- MODULE MessageMatchingProofs -----------------------
(***************************************************************************)
(* Proofs about MessageMatching, for every set of ports and any numbers of *)
(* requests and mids.                                                      *)
(***************************************************************************)
EXTENDS MessageMatching, TLAPS, FiniteSetTheorems

Widths == {10, 100, 1000, 10000, 100000}

LEMMA ScaleOfWidth ==
  ASSUME NEW m \in Nat, m < 65535
  PROVE  Scale(m) \in Nat /\ Scale(m) \in Widths /\ m < Scale(m)
BY DEF Scale, Widths

\* Five digits with some behind them lie between the powers of ten.
LEMMA KeyBounds ==
  ASSUME NEW p \in Nat, 10000 <= p, p < 65536, NEW m \in Nat, m < 65535
  PROVE  10000 * Scale(m) <= Key(p, m) /\ Key(p, m) < 65536 * Scale(m)
<1>1. ASSUME NEW s \in Nat, m < s PROVE 10000 * s <= p * s + m /\ p * s + m < 65536 * s
  BY <1>1
<1> QED
  BY <1>1, ScaleOfWidth DEF Key

\* The concatenated keys of two messages from ports with five digits are the same
\* only for the same port and mid (messagelayer.py 15-21, 79).
THEOREM KeysAreDistinct ==
  ASSUME NEW p \in Nat, 10000 <= p, p < 65536, NEW m \in Nat, m < 65535,
         NEW q \in Nat, 10000 <= q, q < 65536, NEW n \in Nat, n < 65535,
         Key(p, m) = Key(q, n)
  PROVE  p = q /\ m = n
<1>1. /\ Scale(m) \in Nat /\ Scale(m) \in Widths /\ m < Scale(m)
      /\ Scale(n) \in Nat /\ Scale(n) \in Widths /\ n < Scale(n)
  BY ScaleOfWidth
<1>2. Scale(m) = Scale(n)
  <2>1. 10000 * Scale(m) < 65536 * Scale(n) /\ 10000 * Scale(n) < 65536 * Scale(m)
    <3>1. Key(p, m) \in Nat
      BY <1>1 DEF Key
    <3> QED
      BY <1>1, <3>1, KeyBounds
  <2> QED
    BY <1>1, <2>1 DEF Widths
<1>3. ASSUME NEW s \in Nat, m < s, n < s, p * s + m = q * s + n
      PROVE  p = q /\ m = n
  BY <1>3
<1> QED
  BY <1>1, <1>2, <1>3 DEF Key

-----------------------------------------------------------------------------
(* Types.                                                                  *)

LEMMA KeyType ==
  ASSUME NEW p \in Ports, NEW m \in Mids
  PROVE  Key(p, m) \in Keys
BY DEF Keys

LEMMA FollowingType ==
  ASSUME NEW m \in Mids
  PROVE  /\ Following(m) \in Mids
         /\ Following(m) = m + 1 \/ Following(m) = m + 1 - W
<1>1. W \in Nat /\ W > 0 /\ m + 1 \in Nat /\ m + 1 <= W
  BY MidsAssumption DEF Mids
<1>2. CASE m + 1 = W
  <2>1. W % W = 0
    BY <1>1
  <2> QED
    BY <1>1, <1>2, <2>1 DEF Following, Mids
<1>3. CASE m + 1 < W
  <2>1. (m + 1) % W = m + 1
    BY <1>1, <1>3
  <2> QED
    BY <1>1, <1>3, <2>1 DEF Following, Mids
<1> QED
  BY <1>1, <1>2, <1>3

LEMMA RunType ==
  ASSUME NEW w \in Runs
  PROVE  RequestOf(w) \in Requests /\ w[2] \in 1..2 /\ w = <<RequestOf(w), w[2]>>
BY DEF Runs, RequestOf

LEMMA RequestType ==
  ASSUME NEW r \in Requests
  PROVE  PortOf(r) \in Ports /\ r[2] \in 1..N /\ r = <<PortOf(r), r[2]>>
BY DEF Requests, PortOf

\* A response is given to a request, or to none.
LEMMA MatchType ==
  ASSUME TypeOK, NEW q \in Requests, NEW m \in Mids
  PROVE  Match(q, m) \in Requests \cup {None}
<1>1. PortOf(q) \in Ports /\ lower[q] \in Tokens
  BY RequestType DEF TypeOK
<1>2. clientTokens[PortOf(q)][lower[q]] \in Requests \cup {None}
  BY <1>1 DEF TypeOK
<1> QED
  BY <1>2 DEF Match, WithToken

LEMMA TypeInit == Init => TypeOK
<1> SUFFICES ASSUME Init PROVE TypeOK
  OBVIOUS
<1>1. 0 \in Mids
  BY MidsAssumption DEF Mids
<1> QED
  BY <1>1 DEF Init, TypeOK, NoResponse

LEMMA TypeStep ==
  ASSUME TypeOK, [Next]_vars
  PROVE  TypeOK'
<1> USE DEF TypeOK
<1>1. ASSUME NEW r \in Requests, NEW t \in {"CON", "NON"}, ClientSend(r, t) PROVE TypeOK'
  <2>1. PortOf(r) \in Ports /\ clientMid[PortOf(r)] \in Mids
    BY RequestType
  <2>2. Following(clientMid[PortOf(r)]) \in Mids
    BY <2>1, FollowingType
  <2>3. lower[r] \in Tokens
    OBVIOUS
  <2>4. clientTokens' \in [Ports -> [Tokens -> Requests \cup {None}]]
    BY <1>1, <2>1, <2>3 DEF ClientSend
  <2> QED
    BY <1>1, <2>1, <2>2, <2>4 DEF ClientSend, server
<1>2. ASSUME NEW r \in Requests, ServerReceiveRequest(r) PROVE TypeOK'
  <2> DEFINE key == Key(PortOf(r), midOf[r])
             found == table[key]
             new == <<r, runs[r] + 1>>
  <2>1. key \in Keys
    BY RequestType, KeyType
  <2>2. CASE /\ found = None /\ new \in Runs
             /\ runs' = [runs EXCEPT ![r] = @ + 1]
             /\ table' = [table EXCEPT ![key] = new]
             /\ tokens' = [tokens EXCEPT ![PortOf(r)][lower[r]] = new]
             /\ UNCHANGED <<accepted, acks>>
    <3>1. runs[r] + 1 \in 0..2
      BY <2>2, RunType
    <3>2. tokens' \in [Ports -> [Tokens -> Runs \cup {None}]]
      BY <2>2, RequestType
    <3> QED
      BY <1>2, <2>1, <2>2, <3>1, <3>2 DEF ServerReceiveRequest, client
  <2>3. CASE /\ found # None
             /\ IF type[RequestOf(found)] = "CON" /\ found \notin accepted
                THEN accepted' = accepted \cup {found} /\ acks' = acks \cup {found}
                ELSE UNCHANGED <<accepted, acks>>
             /\ UNCHANGED <<runs, table, tokens>>
    <3>1. found \in Runs
      BY <2>1, <2>3
    <3> QED
      BY <1>2, <2>3, <3>1 DEF ServerReceiveRequest, client
  <2> QED
    BY <1>2, <2>2, <2>3 DEF ServerReceiveRequest
<1>3. ASSUME NEW w \in Runs, ClientReceiveResponse(w) PROVE TypeOK'
  <2>1. Match(RequestOf(w), response[w].mid) \in Requests
    BY <1>3, RunType, MatchType DEF ClientReceiveResponse
  <2> QED
    BY <1>3, <2>1 DEF ClientReceiveResponse, server
<1>4. ASSUME NEW w \in Runs, ClientReceiveAck(w) PROVE TypeOK'
  <2>1. clientTable[PortOf(RequestOf(w))][AckMid(w)] \in Requests \cup {None}
    BY RunType, RequestType DEF AckMid
  <2> QED
    BY <1>4, <2>1 DEF ClientReceiveAck, server
<1>5. ASSUME NEW w \in Runs, ServerAck(w) PROVE TypeOK'
  BY <1>5 DEF ServerAck, client
<1>6. ASSUME NEW w \in Runs, ServerRespond(w) PROVE TypeOK'
  <2>1. /\ RequestOf(w) \in Requests /\ PortOf(RequestOf(w)) \in Ports
        /\ type[RequestOf(w)] \in {"none", "CON", "NON"}
    BY RunType, RequestType
  <2>2. Key(PortOf(RequestOf(w)), serverMid) \in Keys /\ Following(serverMid) \in Mids
    BY <2>1, KeyType, FollowingType
  <2> DEFINE r == RequestOf(w)
  <2>3. CASE /\ response' = [response EXCEPT ![w] = [type |-> "ACK", mid |-> midOf[r]]]
             /\ UNCHANGED <<serverMid, table>>
    <3>1. response' \in [Runs -> [type : {"none", "CON", "NON", "ACK"}, mid : Mids]]
      BY <2>1, <2>3
    <3> QED
      BY <1>6, <2>3, <3>1 DEF ServerRespond, client
  <2>4. CASE /\ response' = [response EXCEPT ![w] = [type |-> type[r], mid |-> serverMid]]
             /\ serverMid' = Following(serverMid)
             /\ table' = [table EXCEPT ![Key(PortOf(r), serverMid)] = w]
    <3>1. response' \in [Runs -> [type : {"none", "CON", "NON", "ACK"}, mid : Mids]]
      BY <2>1, <2>4
    <3> QED
      BY <1>6, <2>2, <2>4, <3>1 DEF ServerRespond, client
  <2> QED
    BY <1>6, <2>3, <2>4 DEF ServerRespond
<1>7. ASSUME NEW w \in Runs, ServerReceiveAck(w) PROVE TypeOK'
  <2> DEFINE byMid == table[Key(PortOf(RequestOf(w)), ConfirmMid(w))]
             found == IF byMid # None THEN byMid ELSE tokens[PortOf(RequestOf(w))][lower[RequestOf(w)]]
  <2>1. /\ RequestOf(w) \in Requests /\ PortOf(RequestOf(w)) \in Ports
        /\ lower[RequestOf(w)] \in Tokens
    BY RunType, RequestType
  <2>2. Key(PortOf(RequestOf(w)), ConfirmMid(w)) \in Keys
    BY <2>1, KeyType DEF ConfirmMid
  <2>3. found \in Runs
    <3>1. tokens[PortOf(RequestOf(w))][lower[RequestOf(w)]] \in Runs \cup {None}
      BY <2>1
    <3>2. byMid \in Runs \cup {None}
      BY <2>2
    <3> QED
      BY <1>7, <3>1, <3>2 DEF ServerReceiveAck
  <2> QED
    BY <1>7, <2>3 DEF ServerReceiveAck, client
<1>8. ASSUME NEW w \in Runs, Expire(w) PROVE TypeOK'
  BY <1>8 DEF Expire, client, server
<1>9. CASE ServerPurge
  <2>1. tokens' \in [Ports -> [Tokens -> Runs \cup {None}]]
    BY <1>9 DEF ServerPurge
  <2> QED
    BY <1>9, <2>1 DEF ServerPurge, client
<1>10. CASE UNCHANGED vars
  BY <1>10 DEF vars, client, server
<1> QED
  BY <1>1, <1>2, <1>3, <1>4, <1>5, <1>6, <1>7, <1>8, <1>9, <1>10 DEF Next

\* Every variable keeps its type: the mids that client and server draw are below
\* 65535, and a response has a type whenever it is sent.
THEOREM TypesHold == Spec => []TypeOK
<1>1. Init => TypeOK
  BY TypeInit
<1>2. TypeOK /\ [Next]_vars => TypeOK'
  BY TypeStep
<1> QED
  BY <1>1, <1>2, PTL DEF Spec

-----------------------------------------------------------------------------
(* A client's mids.                                                        *)

\* Entry m of a client's table is a request of its own that was sent with mid m.
TableOfSent ==
  \A p \in Ports : \A m \in Mids :
    LET r == clientTable[p][m] IN
    r # None => PortOf(r) = p /\ midOf[r] = m /\ type[r] # "none"

\* A client's requests are sent in their order.
SentInOrder ==
  \A p \in Ports : \A m \in 1..N : \A n \in 1..N :
    n < m /\ type[<<p, m>>] # "none" => type[<<p, n>>] # "none"

\* The mids of two requests differ as their numbers do, modulo W.
MidsInOrder ==
  \A p \in Ports : \A m \in 1..N : \A n \in 1..N :
    n < m /\ type[<<p, m>>] # "none" =>
      \/ midOf[<<p, m>>] = midOf[<<p, n>>] + (m - n)
      \/ midOf[<<p, m>>] = midOf[<<p, n>>] + (m - n) - W

\* The next mid is the one that follows the last request's.
NextMid ==
  \A p \in Ports : \A m \in 1..N :
    /\ type[<<p, m>>] # "none"
    /\ m + 1 \in 1..N => type[<<p, m + 1>>] = "none"
    => clientMid[p] = Following(midOf[<<p, m>>])

ClientInv == TableOfSent /\ SentInOrder /\ MidsInOrder /\ NextMid

\* The requests of a client are in order whatever N is.
LEMMA OrderStep ==
  ASSUME TypeOK, SentInOrder, [Next]_vars
  PROVE  SentInOrder'
<1>1. ASSUME NEW r \in Requests, NEW t \in {"CON", "NON"}, ClientSend(r, t) PROVE SentInOrder'
  <2> SUFFICES ASSUME NEW p \in Ports, NEW m \in 1..N, NEW n \in 1..N, n < m,
                      type'[<<p, m>>] # "none"
               PROVE  type'[<<p, n>>] # "none"
    BY DEF SentInOrder
  <2>1. /\ <<p, m>> \in Requests /\ <<p, n>> \in Requests
        /\ PortOf(<<p, m>>) = p /\ PortOf(<<p, n>>) = p
    BY DEF Requests, PortOf
  <2>2. \A q \in Requests : type'[q] = IF q = r THEN t ELSE type[q]
    BY <1>1 DEF ClientSend, TypeOK
  <2>3. CASE <<p, m>> = r
    <3>1. PortOf(<<p, n>>) = PortOf(r) /\ <<p, n>>[2] < r[2]
      BY <2>1, <2>3
    <3>2. type[<<p, n>>] # "none"
      BY <1>1, <2>1, <3>1 DEF ClientSend
    <3> QED
      BY <2>1, <2>2, <3>2
  <2>4. CASE <<p, m>> # r
    BY <2>1, <2>2, <2>4 DEF SentInOrder
  <2> QED
    BY <2>3, <2>4
<1>2. CASE UNCHANGED type
  BY <1>2 DEF SentInOrder
<1>3. ASSUME NEW r \in Requests, ServerReceiveRequest(r)  PROVE UNCHANGED type
  BY <1>3 DEF ServerReceiveRequest, client
<1>4. ASSUME NEW w \in Runs,
             \/ ClientReceiveResponse(w) \/ ClientReceiveAck(w) \/ ServerAck(w)
             \/ ServerRespond(w) \/ ServerReceiveAck(w) \/ Expire(w)
      PROVE  UNCHANGED type
  BY <1>4 DEF ClientReceiveResponse, ClientReceiveAck, ServerAck, ServerRespond,
              ServerReceiveAck, Expire, client
<1>5. ServerPurge \/ UNCHANGED vars => UNCHANGED type
  BY DEF ServerPurge, vars, client
<1> QED
  BY <1>1, <1>2, <1>3, <1>4, <1>5 DEF Next

LEMMA ClientInvInit == Init => ClientInv
<1> SUFFICES ASSUME Init PROVE ClientInv
  OBVIOUS
<1>1. \A p \in Ports : \A m \in 1..N : <<p, m>> \in Requests /\ type[<<p, m>>] = "none"
  BY DEF Init, Requests
<1>2. TableOfSent
  BY DEF Init, TableOfSent
<1> QED
  BY <1>1, <1>2 DEF ClientInv, SentInOrder, MidsInOrder, NextMid

\* Only ClientSend changes what the invariant is about.
LEMMA ClientInvStep ==
  ASSUME TypeOK, N <= W, ClientInv, [Next]_vars
  PROVE  ClientInv'
<1>1. ASSUME NEW r \in Requests, NEW t \in {"CON", "NON"}, ClientSend(r, t) PROVE ClientInv'
  <2> DEFINE p == PortOf(r)
             k == r[2]
             mid == clientMid[p]
  <2>1. p \in Ports /\ k \in 1..N /\ r = <<p, k>>
    BY RequestType
  <2>2. mid \in Mids
    BY <2>1 DEF TypeOK
  <2>3. \A q \in Requests : type'[q] = IF q = r THEN t ELSE type[q]
    BY <1>1 DEF ClientSend, TypeOK
  <2>4. \A q \in Requests : midOf'[q] = IF q = r THEN mid ELSE midOf[q]
    BY <1>1 DEF ClientSend, TypeOK
  <2>5. \A q \in Ports : clientMid'[q] = IF q = p THEN Following(mid) ELSE clientMid[q]
    BY <1>1, <2>1 DEF ClientSend, TypeOK
  <2>6. type[r] = "none" /\ t # "none"
    BY <1>1 DEF ClientSend
  <2>7. \A n \in 1..N : n < k => type[<<p, n>>] # "none"
    <3> SUFFICES ASSUME NEW n \in 1..N, n < k PROVE type[<<p, n>>] # "none"
      OBVIOUS
    <3>1. <<p, n>> \in Requests /\ PortOf(<<p, n>>) = p
      BY <2>1 DEF Requests, PortOf
    <3> QED
      BY <1>1, <3>1 DEF ClientSend
  <2>8. \A m \in 1..N : k <= m => type[<<p, m>>] = "none"
    BY <2>1, <2>6 DEF ClientInv, SentInOrder
  <2>9. \A q \in Ports, m \in 1..N : <<q, m>> \in Requests
    BY DEF Requests
  <2>10. \A q \in Ports, m \in 1..N : <<q, m>> = r <=> q = p /\ m = k
    BY <2>1
  <2>11. N \in Nat /\ W \in Nat \ {0}
    BY MidsAssumption
  <2>12. TableOfSent'
    <3> SUFFICES ASSUME NEW q \in Ports, NEW m \in Mids, clientTable'[q][m] # None
                 PROVE  LET s == clientTable'[q][m] IN
                        PortOf(s) = q /\ midOf'[s] = m /\ type'[s] # "none"
      BY DEF TableOfSent
    <3> DEFINE s == clientTable'[q][m]
    <3>1. clientTable' = [clientTable EXCEPT ![p][mid] = r]
      BY <1>1 DEF ClientSend
    <3>2. CASE q = p /\ m = mid
      <4>1. s = r
        BY <2>1, <2>2, <3>1, <3>2 DEF TypeOK
      <4> QED
        BY <2>3, <2>4, <2>6, <3>2, <4>1
    <3>3. CASE ~(q = p /\ m = mid)
      <4>1. s = clientTable[q][m] /\ s \in Requests
        BY <3>1, <3>3 DEF TypeOK
      <4>2. PortOf(s) = q /\ midOf[s] = m /\ type[s] # "none"
        BY <4>1 DEF ClientInv, TableOfSent
      <4> QED
        BY <2>3, <2>4, <2>6, <4>1, <4>2
    <3> QED
      BY <3>2, <3>3
  <2>13. SentInOrder'
    BY OrderStep DEF ClientInv
  <2>14. k > 1 => mid = Following(midOf[<<p, k - 1>>])
    <3> SUFFICES ASSUME k > 1 PROVE mid = Following(midOf[<<p, k - 1>>])
      OBVIOUS
    <3>1. k - 1 \in 1..N /\ (k - 1) + 1 = k
      BY <2>1, <2>11
    <3>2. type[<<p, k - 1>>] # "none"
      BY <2>7, <3>1
    <3> QED
      BY <2>1, <2>6, <3>1, <3>2 DEF ClientInv, NextMid
  <2>15. \A n \in 1..N : n < k => \/ mid = midOf[<<p, n>>] + (k - n)
                                  \/ mid = midOf[<<p, n>>] + (k - n) - W
    <3> SUFFICES ASSUME NEW n \in 1..N, n < k
                 PROVE  \/ mid = midOf[<<p, n>>] + (k - n)
                        \/ mid = midOf[<<p, n>>] + (k - n) - W
      OBVIOUS
    <3>1. k - 1 \in 1..N
      BY <2>1, <2>11
    <3> DEFINE before == midOf[<<p, k - 1>>]
               first == midOf[<<p, n>>]
    <3>2. before \in Mids /\ first \in Mids
      BY <2>1, <2>9, <3>1 DEF TypeOK
    <3>3. mid = before + 1 \/ mid = before + 1 - W
      BY <2>1, <2>14, <3>2, FollowingType
    <3>4. CASE n = k - 1
      BY <2>1, <3>2, <3>3, <3>4
    <3>5. CASE n < k - 1
      <4>1. before = first + (k - 1 - n) \/ before = first + (k - 1 - n) - W
        BY <2>1, <2>7, <3>1, <3>5 DEF ClientInv, MidsInOrder
      <4>2. /\ mid \in 0..(W - 1) /\ before \in 0..(W - 1) /\ first \in 0..(W - 1)
            /\ k \in 1..N /\ N <= W
        BY <2>1, <2>2, <3>2 DEF Mids
      <4> HIDE DEF before, first, mid, k
      <4>3. mid = first + (k - n) \/ mid = first + (k - n) - W
        BY <2>11, <3>3, <4>1, <4>2
      <4> QED
        BY <4>3 DEF first
    <3> QED
      BY <2>1, <3>4, <3>5
  <2>16. MidsInOrder'
    <3> SUFFICES ASSUME NEW q \in Ports, NEW m \in 1..N, NEW n \in 1..N, n < m,
                        type'[<<q, m>>] # "none"
                 PROVE  \/ midOf'[<<q, m>>] = midOf'[<<q, n>>] + (m - n)
                        \/ midOf'[<<q, m>>] = midOf'[<<q, n>>] + (m - n) - W
      BY DEF MidsInOrder
    <3>1. CASE <<q, m>> = r
      <4>1. q = p /\ m = k /\ n # k /\ <<q, n>> # r
        BY <2>1, <2>10, <3>1
      <4> QED
        BY <2>4, <2>9, <2>10, <2>15, <3>1, <4>1
    <3>2. CASE <<q, m>> # r
      <4>1. type[<<q, m>>] # "none"
        BY <2>3, <2>9, <3>2
      <4>2. <<q, n>> # r
        BY <2>6, <4>1 DEF ClientInv, SentInOrder
      <4> QED
        BY <2>4, <2>9, <3>2, <4>1, <4>2 DEF ClientInv, MidsInOrder
    <3> QED
      BY <3>1, <3>2
  <2>17. NextMid'
    <3> SUFFICES ASSUME NEW q \in Ports, NEW m \in 1..N, type'[<<q, m>>] # "none",
                        m + 1 \in 1..N => type'[<<q, m + 1>>] = "none"
                 PROVE  clientMid'[q] = Following(midOf'[<<q, m>>])
      BY DEF NextMid
    <3>1. CASE <<q, m>> = r
      BY <2>4, <2>5, <2>9, <2>10, <3>1
    <3>2. CASE <<q, m>> # r
      <4>1. type[<<q, m>>] # "none"
        BY <2>3, <2>9, <3>2
      <4>2. q # p
        <5> SUFFICES ASSUME q = p PROVE FALSE
          OBVIOUS
        <5>1. m < k
          BY <2>1, <2>8, <4>1
        <5>2. m + 1 \in 1..N /\ m + 1 <= k
          BY <2>1, <2>11, <5>1
        <5>3. type'[<<p, m + 1>>] # "none"
          <6>1. CASE m + 1 = k
            BY <2>1, <2>3, <2>6, <6>1
          <6>2. CASE m + 1 < k
            BY <2>1, <2>3, <2>6, <2>7, <2>9, <5>2, <6>2
          <6> QED
            BY <2>1, <5>2, <6>1, <6>2
        <5> QED
          BY <5>2, <5>3
      <4>3. m + 1 \in 1..N => type[<<q, m + 1>>] = "none"
        BY <2>3, <2>9, <2>10, <4>2
      <4> QED
        BY <2>4, <2>5, <2>9, <3>2, <4>1, <4>2, <4>3 DEF ClientInv, NextMid
    <3> QED
      BY <3>1, <3>2
  <2> QED
    BY <2>12, <2>13, <2>16, <2>17 DEF ClientInv
<1>2. CASE UNCHANGED <<clientMid, type, midOf, clientTable>>
  BY <1>2 DEF ClientInv, TableOfSent, SentInOrder, MidsInOrder, NextMid
<1>3. ASSUME NEW r \in Requests, ServerReceiveRequest(r)
      PROVE  UNCHANGED <<clientMid, type, midOf, clientTable>>
  BY <1>3 DEF ServerReceiveRequest, client
<1>4. ASSUME NEW w \in Runs,
             \/ ClientReceiveResponse(w) \/ ClientReceiveAck(w) \/ ServerAck(w)
             \/ ServerRespond(w) \/ ServerReceiveAck(w) \/ Expire(w)
      PROVE  UNCHANGED <<clientMid, type, midOf, clientTable>>
  BY <1>4 DEF ClientReceiveResponse, ClientReceiveAck, ServerAck, ServerRespond,
              ServerReceiveAck, Expire, client
<1>5. ServerPurge \/ UNCHANGED vars => UNCHANGED <<clientMid, type, midOf, clientTable>>
  BY DEF ServerPurge, vars, client
<1> QED
  BY <1>1, <1>2, <1>3, <1>4, <1>5 DEF Next

\* With no more requests than mids, those of a client have mids of their own.
LEMMA MidsAreDistinct ==
  ASSUME TypeOK, N <= W, ClientInv,
         NEW q \in Requests, NEW r \in Requests,
         PortOf(q) = PortOf(r), midOf[q] = midOf[r],
         type[q] # "none", type[r] # "none"
  PROVE  q = r
<1>1. /\ PortOf(q) \in Ports /\ q[2] \in 1..N /\ q = <<PortOf(q), q[2]>>
      /\ PortOf(r) \in Ports /\ r[2] \in 1..N /\ r = <<PortOf(r), r[2]>>
  BY RequestType
<1>2. midOf[q] \in Mids /\ midOf[r] \in Mids
  BY DEF TypeOK
<1>3. ~(q[2] < r[2])
  <2> SUFFICES ASSUME q[2] < r[2] PROVE FALSE
    OBVIOUS
  <2>1. \/ midOf[r] = midOf[q] + (r[2] - q[2])
        \/ midOf[r] = midOf[q] + (r[2] - q[2]) - W
    BY <1>1 DEF ClientInv, MidsInOrder
  <2>2. r[2] \in Nat /\ q[2] \in Nat /\ q[2] >= 1 /\ r[2] <= N
    BY <1>1
  <2>3. W \in Nat /\ N \in Nat /\ midOf[q] \in Nat
    BY <1>2, MidsAssumption DEF Mids
  <2> QED
    BY <2>1, <2>2, <2>3
<1>4. ~(r[2] < q[2])
  <2> SUFFICES ASSUME r[2] < q[2] PROVE FALSE
    OBVIOUS
  <2>1. \/ midOf[q] = midOf[r] + (q[2] - r[2])
        \/ midOf[q] = midOf[r] + (q[2] - r[2]) - W
    BY <1>1 DEF ClientInv, MidsInOrder
  <2>2. q[2] \in Nat /\ r[2] \in Nat /\ r[2] >= 1 /\ q[2] <= N
    BY <1>1
  <2>3. W \in Nat /\ N \in Nat /\ midOf[r] \in Nat
    BY <1>2, MidsAssumption DEF Mids
  <2> QED
    BY <2>1, <2>2, <2>3
<1> QED
  BY <1>1, <1>3, <1>4

-----------------------------------------------------------------------------
(* The server's runs.                                                      *)

\* A run is made for a request that was sent.
RunsOfSent == \A r \in Requests : runs[r] > 0 => type[r] # "none"

\* What the server keeps, acknowledges and answers are runs that it has made.
OnlyRunsMade ==
  /\ \A k \in Keys : table[k] # None => Running(table[k])
  /\ \A w \in acks : Running(w)
  /\ \A w \in Runs : response[w] # NoResponse => Running(w)

ServerInv == RunsOfSent /\ OnlyRunsMade

LEMMA ServerInvInit == Init => ServerInv
<1> SUFFICES ASSUME Init PROVE ServerInv
  OBVIOUS
<1>1. RunsOfSent
  BY DEF Init, RunsOfSent
<1>2. OnlyRunsMade
  BY DEF Init, OnlyRunsMade
<1> QED
  BY <1>1, <1>2 DEF ServerInv

\* Running(w) in the next state.
StillRunning(w) == w[2] <= runs'[RequestOf(w)]

\* A run that was made stays made.
LEMMA RunsGrow ==
  ASSUME TypeOK, TypeOK', \A r \in Requests : runs[r] <= runs'[r],
         NEW w \in Runs, Running(w)
  PROVE  StillRunning(w)
<1>1. RequestOf(w) \in Requests /\ w[2] \in 1..2
  BY RunType
<1>2. runs[RequestOf(w)] \in 0..2 /\ runs'[RequestOf(w)] \in 0..2
  BY <1>1 DEF TypeOK
<1>3. runs[RequestOf(w)] <= runs'[RequestOf(w)]
  BY <1>1
<1> QED
  BY <1>1, <1>2, <1>3 DEF Running, StillRunning

\* What a step does not change, and the runs it does not take back, keep ServerInv.
LEMMA ServerInvKept ==
  ASSUME TypeOK, TypeOK', ServerInv,
         \A r \in Requests : runs[r] <= runs'[r],
         \A r \in Requests : runs'[r] > 0 => type'[r] # "none",
         \A k \in Keys : \/ table'[k] \in {None, table[k]}
                         \/ table'[k] \in Runs /\ StillRunning(table'[k]),
         \A w \in acks' : w \in acks \/ StillRunning(w),
         \A w \in Runs : response'[w] = response[w] \/ StillRunning(w)
  PROVE  ServerInv'
<1>1. ASSUME NEW w \in Runs, Running(w) PROVE StillRunning(w)
  BY <1>1, RunsGrow
<1>2. ASSUME NEW k \in Keys, table'[k] # None PROVE StillRunning(table'[k])
  <2>1. CASE table'[k] = table[k]
    <3>1. table[k] \in Runs
      BY <1>2, <2>1 DEF TypeOK
    <3>2. Running(table[k])
      BY <1>2, <2>1 DEF ServerInv, OnlyRunsMade
    <3> QED
      BY <1>1, <2>1, <3>1, <3>2
  <2> QED
    BY <1>2, <2>1
<1>3. \A w \in acks' : StillRunning(w)
  BY <1>1 DEF ServerInv, OnlyRunsMade, TypeOK
<1>4. \A w \in Runs : response'[w] # NoResponse => StillRunning(w)
  BY <1>1 DEF ServerInv, OnlyRunsMade
<1>5. RunsOfSent'
  BY DEF RunsOfSent
<1>6. OnlyRunsMade'
  BY <1>2, <1>3, <1>4 DEF OnlyRunsMade, Running, StillRunning, NoResponse
<1> QED
  BY <1>5, <1>6 DEF ServerInv

LEMMA ServerInvStep ==
  ASSUME TypeOK, TypeOK', ServerInv, [Next]_vars
  PROVE  ServerInv'
<1>1. \A r \in Requests : runs[r] \in 0..2 /\ (runs[r] > 0 => type[r] # "none")
  BY DEF ServerInv, RunsOfSent, TypeOK
<1>2. ASSUME NEW r \in Requests, NEW t \in {"CON", "NON"}, ClientSend(r, t) PROVE ServerInv'
  <2>1. \A q \in Requests : type'[q] = IF q = r THEN t ELSE type[q]
    BY <1>2 DEF ClientSend, TypeOK
  <2>2. UNCHANGED <<runs, table, acks, response>>
    BY <1>2 DEF ClientSend, server
  <2> QED
    BY <1>1, <2>1, <2>2, ServerInvKept
<1>3. ASSUME NEW r \in Requests, ServerReceiveRequest(r) PROVE ServerInv'
  <2> DEFINE key == Key(PortOf(r), midOf[r])
             found == table[key]
             new == <<r, runs[r] + 1>>
  <2>1. key \in Keys
    BY RequestType, KeyType DEF TypeOK
  <2>2. type[r] # "none" /\ UNCHANGED <<type, response>>
    BY <1>3 DEF ServerReceiveRequest, client
  <2>3. CASE /\ found = None /\ new \in Runs
             /\ runs' = [runs EXCEPT ![r] = @ + 1]
             /\ table' = [table EXCEPT ![key] = new]
             /\ UNCHANGED <<accepted, acks>>
    <3>1. \A q \in Requests : runs'[q] = IF q = r THEN runs[r] + 1 ELSE runs[q]
      BY <2>3 DEF TypeOK
    <3>2. \A k \in Keys : table'[k] = IF k = key THEN new ELSE table[k]
      BY <2>1, <2>3 DEF TypeOK
    <3>3. StillRunning(new)
      BY <1>1, <3>1 DEF StillRunning, RequestOf
    <3> QED
      BY <1>1, <2>2, <2>3, <3>1, <3>2, <3>3, ServerInvKept
  <2>4. CASE /\ found # None
             /\ acks' \subseteq acks \cup {found}
             /\ UNCHANGED <<runs, table>>
    <3>1. Running(found)
      BY <2>1, <2>4 DEF ServerInv, OnlyRunsMade
    <3>2. StillRunning(found)
      BY <2>4, <3>1 DEF Running, StillRunning
    <3> QED
      BY <1>1, <2>2, <2>4, <3>2, ServerInvKept
  <2> QED
    BY <1>3, <2>3, <2>4 DEF ServerReceiveRequest
<1>4. ASSUME NEW w \in Runs, ServerAck(w) PROVE ServerInv'
  <2>1. /\ Running(w) /\ acks' = acks \cup {w}
        /\ UNCHANGED <<type, runs, table, response>>
    BY <1>4 DEF ServerAck, client
  <2>2. StillRunning(w)
    BY <2>1 DEF Running, StillRunning
  <2> QED
    BY <1>1, <2>1, <2>2, ServerInvKept
<1>5. ASSUME NEW w \in Runs, ServerRespond(w) PROVE ServerInv'
  <2>1. Running(w) /\ UNCHANGED <<type, runs, acks>>
    BY <1>5 DEF ServerRespond, client
  <2>2. StillRunning(w)
    BY <2>1 DEF Running, StillRunning
  <2>3. \A v \in Runs : response'[v] = response[v] \/ v = w
    BY <1>5 DEF ServerRespond, TypeOK
  <2>4. \A k \in Keys : table'[k] = table[k] \/ table'[k] = w
    BY <1>5 DEF ServerRespond, TypeOK
  <2> QED
    BY <1>1, <2>1, <2>2, <2>3, <2>4, ServerInvKept
<1>6. CASE ServerPurge
  <2>1. \A k \in Keys : table'[k] \in {None, table[k]}
    BY <1>6 DEF ServerPurge
  <2>2. UNCHANGED <<type, runs, acks, response>>
    BY <1>6 DEF ServerPurge, client
  <2> QED
    BY <1>1, <2>1, <2>2, ServerInvKept
<1>7. CASE UNCHANGED <<type, runs, table, acks, response>>
  BY <1>1, <1>7, ServerInvKept
<1>8. ASSUME NEW w \in Runs,
             \/ ClientReceiveResponse(w) \/ ClientReceiveAck(w)
             \/ ServerReceiveAck(w) \/ Expire(w)
      PROVE  UNCHANGED <<type, runs, table, acks, response>>
  BY <1>8 DEF ClientReceiveResponse, ClientReceiveAck, ServerReceiveAck, Expire, client, server
<1>9. UNCHANGED vars => UNCHANGED <<type, runs, table, acks, response>>
  BY DEF vars, client, server
<1> QED
  BY <1>2, <1>3, <1>4, <1>5, <1>6, <1>7, <1>8, <1>9 DEF Next

-----------------------------------------------------------------------------
(* What the clients may rely on.                                           *)

LEMMA AcknowledgedStep ==
  ASSUME TypeOK, TypeOK', N <= W, ClientInv, ServerInv, AcknowledgedWasRun, [Next]_vars
  PROVE  AcknowledgedWasRun'
<1>1. ASSUME NEW w \in Runs, Running(w) PROVE RequestOf(w) \in Requests /\ runs[RequestOf(w)] > 0
  <2>1. RequestOf(w) \in Requests /\ w[2] \in 1..2 /\ runs[RequestOf(w)] \in 0..2
    BY RunType DEF TypeOK
  <2> QED
    BY <1>1, <2>1 DEF Running
<1>2. ASSUME NEW w \in Runs, ClientReceiveResponse(w) PROVE AcknowledgedWasRun'
  <2>0. Match(RequestOf(w), response[w].mid) \in Requests
    BY <1>2, RunType, MatchType DEF TypeOK, ClientReceiveResponse
  <2>2. PICK r \in Requests : r = Match(RequestOf(w), response[w].mid)
    BY <2>0
  <2>1. /\ acknowledged' = acknowledged \cup {r} /\ UNCHANGED runs
        /\ got' = [got EXCEPT ![r] = w] /\ response[w] # NoResponse
    BY <1>2, <2>2 DEF ClientReceiveResponse, server
  <2>3. Running(w)
    BY <2>1 DEF ServerInv, OnlyRunsMade
  <2>4. got'[r] = w /\ \A q \in Requests \ {r} : got'[q] = got[q]
    BY <2>1, <2>2 DEF TypeOK
  <2>5. w # None /\ RequestOf(w) \in Requests
    BY RunType, NoneAssumption
  <2>6. runs'[r] > 0 \/ MistakenFor(r)'
    <3>1. CASE RequestOf(w) = r
      BY <1>1, <2>1, <2>3, <3>1
    <3>2. CASE RequestOf(w) # r
      BY <2>4, <2>5, <3>2 DEF MistakenFor
    <3> QED
      BY <3>1, <3>2
  <2>7. \A q \in acknowledged \ {r} : q \in Requests /\ (runs'[q] > 0 \/ MistakenFor(q)')
    BY <2>1, <2>4 DEF AcknowledgedWasRun, MistakenFor
  <2> QED
    BY <2>1, <2>2, <2>6, <2>7 DEF AcknowledgedWasRun
<1>3. ASSUME NEW w \in Runs, ClientReceiveAck(w) PROVE AcknowledgedWasRun'
  <2> DEFINE q == RequestOf(w)
             r == clientTable[PortOf(q)][midOf[q]]
  <2>1. /\ w \in acks /\ r # None
        /\ acknowledged' = acknowledged \cup {r} /\ UNCHANGED <<runs, got>>
    BY <1>3 DEF ClientReceiveAck, AckMid, server
  <2>2. q \in Requests /\ runs[q] > 0
    BY <1>1, <2>1 DEF ServerInv, OnlyRunsMade
  <2>3. type[q] # "none"
    BY <2>2 DEF ServerInv, RunsOfSent
  <2>4. PortOf(q) \in Ports /\ midOf[q] \in Mids
    BY <2>2, RequestType DEF TypeOK
  <2>5. r \in Requests
    BY <2>1, <2>4 DEF TypeOK
  <2>6. PortOf(r) = PortOf(q) /\ midOf[r] = midOf[q] /\ type[r] # "none"
    BY <2>1, <2>4 DEF ClientInv, TableOfSent
  <2>7. r = q
    BY <2>2, <2>3, <2>5, <2>6, MidsAreDistinct
  <2> QED
    BY <2>1, <2>2, <2>7 DEF AcknowledgedWasRun, MistakenFor
<1>4. ASSUME NEW r \in Requests, ServerReceiveRequest(r) PROVE AcknowledgedWasRun'
  <2>1. UNCHANGED <<acknowledged, got>>
    BY <1>4 DEF ServerReceiveRequest, client
  <2>2. UNCHANGED runs \/ runs' = [runs EXCEPT ![r] = @ + 1]
    BY <1>4 DEF ServerReceiveRequest
  <2>3. \A q \in Requests : runs[q] > 0 => runs'[q] > 0
    BY <2>2, SMTT(30) DEF TypeOK
  <2> QED
    BY <2>1, <2>3 DEF AcknowledgedWasRun, MistakenFor
<1>5. CASE UNCHANGED <<acknowledged, runs, got>>
  BY <1>5 DEF AcknowledgedWasRun, MistakenFor
<1>6. ASSUME NEW r \in Requests, NEW t \in {"CON", "NON"}, ClientSend(r, t)
      PROVE  UNCHANGED <<acknowledged, runs, got>>
  BY <1>6 DEF ClientSend, server
<1>7. ASSUME NEW w \in Runs,
             ServerAck(w) \/ ServerRespond(w) \/ ServerReceiveAck(w) \/ Expire(w)
      PROVE  UNCHANGED <<acknowledged, runs, got>>
  BY <1>7 DEF ServerAck, ServerRespond, ServerReceiveAck, Expire, client, server
<1>8. ServerPurge \/ UNCHANGED vars => UNCHANGED <<acknowledged, runs, got>>
  BY DEF ServerPurge, vars, client, server
<1> QED
  BY <1>2, <1>3, <1>4, <1>5, <1>6, <1>7, <1>8 DEF Next

\* A request that its client takes for acknowledged has been run by the server, or
\* has a response to another one, as long as no client has sent more requests than
\* there are mids: an empty ACK, which has no token, then finds the request that it
\* is for.
THEOREM AcknowledgedHolds == ASSUME N <= W PROVE Spec => []AcknowledgedWasRun
<1> DEFINE Inv == TypeOK /\ ClientInv /\ ServerInv /\ AcknowledgedWasRun
<1>1. Init => Inv
  <2>1. Init => AcknowledgedWasRun
    BY DEF Init, AcknowledgedWasRun, MistakenFor
  <2> QED
    BY <2>1, TypeInit, ClientInvInit, ServerInvInit
<1>2. Inv /\ [Next]_vars => Inv'
  <2> SUFFICES ASSUME Inv, [Next]_vars PROVE Inv'
    OBVIOUS
  <2>1. TypeOK'
    BY TypeStep
  <2> QED
    BY <2>1, ClientInvStep, ServerInvStep, AcknowledgedStep
<1>3. Inv => AcknowledgedWasRun
  OBVIOUS
<1> QED
  BY <1>1, <1>2, <1>3, PTL DEF Spec

-----------------------------------------------------------------------------
(* The entries of the server's table.                                     *)

\* Ports of five digits, as the operating systems give them to clients.
LongPorts == \A p \in Ports : 10000 <= p

KeyOf(r) == Key(PortOf(r), midOf[r])

\* The runs whose response is a message of its own, with a mid of the server.
Separate == {w \in Runs : response[w].type \in {"CON", "NON"}}

\* A port has sixteen bits.
LEMMA PortRange ==
  ASSUME NEW p \in Ports
  PROVE  p \in Nat /\ p < 65536
BY PortsAssumption

\* A mid is below 65535.
LEMMA MidRange ==
  ASSUME NEW m \in Mids
  PROVE  m \in Nat /\ m < 65535
<1>1. W \in Nat /\ W <= 65535
  BY MidsAssumption
<1>2. QED  BY <1>1 DEF Mids

\* For ports of five digits the keys of the table are distinct.
LEMMA KeyInjective ==
  ASSUME LongPorts, NEW p \in Ports, NEW q \in Ports, NEW m \in Mids, NEW n \in Mids,
         Key(p, m) = Key(q, n)
  PROVE  p = q /\ m = n
<1>1. 10000 <= p /\ 10000 <= q
  BY DEF LongPorts
<1>2. p \in Nat /\ p < 65536 /\ q \in Nat /\ q < 65536
  BY PortRange
<1>3. m \in Nat /\ m < 65535 /\ n \in Nat /\ n < 65535
  BY MidRange
<1>4. QED  BY <1>1, <1>2, <1>3, KeysAreDistinct

\* What every step leaves as it was: the mid of a request that was sent, a
\* response that was made, and the tokens.
Lasting ==
  /\ \A r \in Requests : type[r] # "none" => type'[r] = type[r] /\ midOf'[r] = midOf[r]
  /\ \A w \in Runs : response[w] # NoResponse => response'[w] = response[w]
  /\ \A r \in Requests : runs[r] <= runs'[r]
  /\ old \subseteq old' /\ confirmed \subseteq confirmed' /\ lower' = lower

\* What a step may do to an entry of the table: keep it, purge it, make it that of
\* a new run of request r, or that of a run w that is answered.
Purged(k) == table[k] \in old /\ table'[k] = None
MadeFor(k, r) == /\ table[k] = None /\ k = KeyOf(r) /\ type[r] # "none"
                 /\ table'[k] \in Runs /\ RequestOf(table'[k]) = r /\ response' = response
AnsweredBy(k, w) == /\ k = Key(PortOf(RequestOf(w)), serverMid) /\ table'[k] = w
                    /\ response[w] = NoResponse
                    /\ response'[w].type \in {"CON", "NON"} /\ response'[w].mid = serverMid
EntryChange(k) ==
  \/ table'[k] = table[k] \/ Purged(k)
  \/ \E r \in Requests : MadeFor(k, r)
  \/ \E w \in Runs : AnsweredBy(k, w)

\* A run beyond the first is made while the entry of its request is free.
NewRun ==
  \A r \in Requests : runs'[r] # runs[r] =>
    /\ type[r] # "none" /\ <<r, 1>> \notin old /\ old' = old
    /\ table[KeyOf(r)] = None /\ table'[KeyOf(r)] = <<r, runs'[r]>> /\ runs'[r] = runs[r] + 1

\* Every action is of these kinds.
LEMMA EveryStep ==
  ASSUME TypeOK, ServerInv, [Next]_vars
  PROVE  Lasting /\ NewRun /\ \A k \in Keys : EntryChange(k)
<1> USE DEF TypeOK
<1>1. \A r \in Requests : runs[r] \in 0..2
  OBVIOUS
<1>2. ASSUME NEW r \in Requests, NEW t \in {"CON", "NON"}, ClientSend(r, t)
      PROVE  Lasting /\ NewRun /\ \A k \in Keys : EntryChange(k)
  <2>1. /\ type[r] = "none"
        /\ \A q \in Requests \ {r} : type'[q] = type[q] /\ midOf'[q] = midOf[q]
        /\ UNCHANGED <<lower, runs, table, tokens, response, old, confirmed>>
    BY <1>2 DEF ClientSend, server
  <2>2. QED  BY <1>1, <2>1 DEF Lasting, NewRun, EntryChange
<1>3. ASSUME NEW r \in Requests, ServerReceiveRequest(r)
      PROVE  Lasting /\ NewRun /\ \A k \in Keys : EntryChange(k)
  <2> DEFINE key == Key(PortOf(r), midOf[r])
             new == <<r, runs[r] + 1>>
  <2>1. key \in Keys /\ key = KeyOf(r)
    BY RequestType, KeyType DEF KeyOf
  <2>2. /\ type[r] # "none" /\ <<r, 1>> \notin old
        /\ UNCHANGED <<lower, type, midOf, response, old, confirmed>>
    BY <1>3 DEF ServerReceiveRequest, client
  <2>3. CASE /\ table[key] = None /\ new \in Runs
             /\ runs' = [runs EXCEPT ![r] = @ + 1]
             /\ table' = [table EXCEPT ![key] = new]
    <3>1. \A q \in Requests : runs'[q] = IF q = r THEN runs[r] + 1 ELSE runs[q]
      BY <2>3
    <3>2. \A k \in Keys : table'[k] = IF k = key THEN new ELSE table[k]
      BY <2>1, <2>3
    <3>3. Lasting
      BY <1>1, <2>2, <3>1 DEF Lasting
    <3>4. NewRun
      BY <2>1, <2>2, <2>3, <3>1, <3>2 DEF NewRun
    <3>5. \A k \in Keys : EntryChange(k)
      BY <2>1, <2>2, <2>3, <3>2 DEF EntryChange, MadeFor, RequestOf
    <3>6. QED  BY <3>3, <3>4, <3>5
  <2>4. CASE UNCHANGED <<runs, table, tokens>>
    BY <1>1, <2>2, <2>4 DEF Lasting, NewRun, EntryChange
  <2>5. QED  BY <1>3, <2>3, <2>4 DEF ServerReceiveRequest
<1>4. ASSUME NEW w \in Runs, ServerRespond(w)
      PROVE  Lasting /\ NewRun /\ \A k \in Keys : EntryChange(k)
  <2> DEFINE r == RequestOf(w)
             key == Key(PortOf(r), serverMid)
  <2>1. r \in Requests /\ key \in Keys
    BY RunType, RequestType, KeyType
  <2>2. /\ Running(w) /\ response[w] = NoResponse
        /\ UNCHANGED <<lower, type, midOf, runs, tokens, old, confirmed>>
    BY <1>4 DEF ServerRespond, client
  <2>3. \A v \in Runs \ {w} : response'[v] = response[v]
    BY <1>4 DEF ServerRespond
  <2>4. Lasting /\ NewRun
    BY <1>1, <2>2, <2>3 DEF Lasting, NewRun
  <2>5. CASE UNCHANGED table
    BY <2>4, <2>5 DEF EntryChange
  <2>6. CASE /\ response' = [response EXCEPT ![w] = [type |-> type[r], mid |-> serverMid]]
             /\ table' = [table EXCEPT ![key] = w]
    <3>1. \A k \in Keys : table'[k] = IF k = key THEN w ELSE table[k]
      BY <2>1, <2>6
    <3>2. runs[r] > 0
      BY <1>1, <2>1, <2>2, RunType DEF Running
    <3>3. type[r] \in {"CON", "NON"}
      BY <2>1, <3>2 DEF ServerInv, RunsOfSent
    <3>4. response'[w].type \in {"CON", "NON"} /\ response'[w].mid = serverMid
      BY <2>6, <3>3
    <3>5. QED  BY <2>2, <2>4, <3>1, <3>4 DEF EntryChange, AnsweredBy
  <2>7. QED  BY <1>4, <2>5, <2>6 DEF ServerRespond
<1>5. CASE ServerPurge
  <2>1. UNCHANGED <<lower, type, midOf, runs, response, old, confirmed>>
    BY <1>5 DEF ServerPurge, client
  <2>2. \A k \in Keys : table'[k] = table[k] \/ Purged(k)
    BY <1>5 DEF ServerPurge, TooOld, Purged
  <2>3. QED  BY <1>1, <2>1, <2>2 DEF Lasting, NewRun, EntryChange
<1>6. ASSUME /\ UNCHANGED <<lower, type, midOf, runs, table, response>>
             /\ old \subseteq old' /\ confirmed \subseteq confirmed'
      PROVE  Lasting /\ NewRun /\ \A k \in Keys : EntryChange(k)
  BY <1>1, <1>6 DEF Lasting, NewRun, EntryChange
<1>7. ASSUME NEW w \in Runs, \/ ClientReceiveResponse(w) \/ ClientReceiveAck(w) \/ ServerAck(w)
                             \/ ServerReceiveAck(w) \/ Expire(w)
      PROVE  /\ UNCHANGED <<lower, type, midOf, runs, table, response>>
             /\ old \subseteq old' /\ confirmed \subseteq confirmed'
  BY <1>7 DEF ClientReceiveResponse, ClientReceiveAck, ServerAck, ServerReceiveAck, Expire, client, server
<1>8. UNCHANGED vars => UNCHANGED <<lower, type, midOf, runs, table, response, old, confirmed>>
  BY DEF vars, client, server
<1>9. QED  BY <1>2, <1>3, <1>4, <1>5, <1>6, <1>7, <1>8 DEF Next

\* A run is of a request that was sent.
LEMMA RunningIsSent ==
  ASSUME TypeOK, ServerInv, NEW w \in Runs, Running(w)
  PROVE  RequestOf(w) \in Requests /\ type[RequestOf(w)] # "none"
<1>1. RequestOf(w) \in Requests /\ w[2] \in 1..2 /\ runs[RequestOf(w)] \in 0..2
  BY RunType DEF TypeOK
<1>2. runs[RequestOf(w)] > 0
  BY <1>1 DEF Running
<1>3. QED  BY <1>1, <1>2 DEF ServerInv, RunsOfSent

\* The server's types and runs, joined.
LEMMA ServerTyped == Spec => [](TypeOK /\ ServerInv)
<1>1. Init => TypeOK /\ ServerInv
  BY TypeInit, ServerInvInit
<1>2. TypeOK /\ ServerInv /\ [Next]_vars => TypeOK' /\ ServerInv'
  BY TypeStep, ServerInvStep
<1>3. QED  BY <1>1, <1>2, PTL DEF Spec

-----------------------------------------------------------------------------
(* Responses taken for those of other requests.                            *)

\* A request that was sent has an entry under its mid for good, and under its
\* token itself or a later one.
LatestToken ==
  \A q \in Requests : type[q] # "none" =>
    /\ clientTable[PortOf(q)][midOf[q]] # None
    /\ \E r \in Requests : WithToken(q) = r /\ SameToken(q, r) /\ q[2] <= r[2]

\* An ACK has its request's mid.
AckHasMid ==
  \A w \in Runs : response[w].type = "ACK" => response[w].mid = midOf[RequestOf(w)]

\* What a request is given is a response that was made, for it or for an earlier one.
MayGet(r, w) ==
  /\ response[w] # NoResponse
  /\ RequestOf(w) # r => /\ response[w].type # "ACK"
                         /\ SameToken(RequestOf(w), r) /\ RequestOf(w)[2] < r[2]
GotAsItMay == \A r \in Requests : \A w \in Runs : got[r] = w => MayGet(r, w)

MatchInv == SentInOrder /\ LatestToken /\ AckHasMid /\ GotAsItMay

\* A request takes the place only of those that were sent before it.
LEMMA LatestStep ==
  ASSUME TypeOK, TypeOK', MatchInv, [Next]_vars
  PROVE  LatestToken'
<1> USE DEF TypeOK
<1>1. ASSUME NEW r \in Requests, NEW t \in {"CON", "NON"}, ClientSend(r, t)
      PROVE  LatestToken'
  <2> SUFFICES ASSUME NEW q \in Requests, type'[q] # "none"
               PROVE  /\ clientTable'[PortOf(q)][midOf'[q]] # None
                      /\ \E l \in Requests : /\ clientTokens'[PortOf(q)][lower'[q]] = l
                                             /\ SameToken(q, l)' /\ q[2] <= l[2]
    BY DEF LatestToken, WithToken
  <2>1. /\ PortOf(q) \in Ports /\ lower[q] \in Tokens /\ PortOf(r) \in Ports /\ lower[r] \in Tokens
        /\ q[2] \in Nat /\ r[2] \in Nat /\ r # None
    BY RequestType, NoneAssumption
  <2>2. /\ lower' = lower
        /\ type' = [type EXCEPT ![r] = t] /\ midOf' = [midOf EXCEPT ![r] = clientMid[PortOf(r)]]
        /\ clientTable' = [clientTable EXCEPT ![PortOf(r)][clientMid[PortOf(r)]] = r]
        /\ clientTokens' = [clientTokens EXCEPT ![PortOf(r)][lower[r]] = r]
    BY <1>1 DEF ClientSend
  <2>3. clientMid[PortOf(r)] \in Mids /\ midOf[q] \in Mids
    BY <2>1
  <2>4. CASE q = r
    <3>1. midOf'[q] = clientMid[PortOf(r)]
      BY <2>2, <2>4
    <3>2. clientTable'[PortOf(q)][midOf'[q]] = r
      BY <2>1, <2>2, <2>3, <2>4, <3>1
    <3>3. clientTokens'[PortOf(q)][lower'[q]] = r
      BY <2>1, <2>2, <2>4
    <3> QED
      BY <2>1, <2>4, <3>2, <3>3 DEF SameToken
  <2>5. CASE q # r
    <3>1. type[q] # "none" /\ midOf'[q] = midOf[q]
      BY <2>2, <2>5
    <3>2. PICK l \in Requests : WithToken(q) = l /\ SameToken(q, l) /\ q[2] <= l[2]
      BY <3>1 DEF MatchInv, LatestToken
    <3>3. clientTable'[PortOf(q)][midOf'[q]] # None
      <4>1. clientTable[PortOf(q)][midOf[q]] # None
        BY <3>1 DEF MatchInv, LatestToken
      <4> QED
        BY <2>1, <2>2, <2>3, <3>1, <4>1
    <3>4. CASE PortOf(q) = PortOf(r) /\ lower[q] = lower[r]
      <4>1. clientTokens'[PortOf(q)][lower'[q]] = r
        BY <2>1, <2>2, <3>4
      <4>2. q[2] <= r[2]
        <5> SUFFICES ASSUME r[2] < q[2] PROVE FALSE
          BY <2>1
        <5>1. /\ q = <<PortOf(q), q[2]>> /\ r = <<PortOf(q), r[2]>>
              /\ q[2] \in 1..N /\ r[2] \in 1..N
          BY <3>4, RequestType
        <5>2. type[r] # "none"
          BY <2>1, <3>1, <5>1 DEF MatchInv, SentInOrder
        <5> QED
          BY <1>1, <5>2 DEF ClientSend
      <4>3. SameToken(q, r)'
        BY <2>2, <3>4 DEF SameToken
      <4> QED
        BY <3>3, <4>1, <4>2, <4>3
    <3>5. CASE ~(PortOf(q) = PortOf(r) /\ lower[q] = lower[r])
      <4>1. clientTokens'[PortOf(q)][lower'[q]] = WithToken(q)
        BY <2>1, <2>2, <3>5 DEF WithToken
      <4>2. SameToken(q, l)'
        BY <2>2, <3>2 DEF SameToken
      <4> QED
        BY <3>2, <3>3, <4>1, <4>2
    <3> QED
      BY <3>4, <3>5
  <2> QED
    BY <2>4, <2>5
<1>2. CASE UNCHANGED <<lower, type, midOf, clientTable, clientTokens>>
  BY <1>2 DEF MatchInv, LatestToken, WithToken, SameToken
<1>3. ASSUME NEW r \in Requests, ServerReceiveRequest(r)
      PROVE  UNCHANGED <<lower, type, midOf, clientTable, clientTokens>>
  BY <1>3 DEF ServerReceiveRequest, client
<1>4. ASSUME NEW w \in Runs,
             \/ ClientReceiveResponse(w) \/ ClientReceiveAck(w) \/ ServerAck(w)
             \/ ServerRespond(w) \/ ServerReceiveAck(w) \/ Expire(w)
      PROVE  UNCHANGED <<lower, type, midOf, clientTable, clientTokens>>
  BY <1>4 DEF ClientReceiveResponse, ClientReceiveAck, ServerAck, ServerRespond,
              ServerReceiveAck, Expire, client
<1>5. ServerPurge \/ UNCHANGED vars => UNCHANGED <<lower, type, midOf, clientTable, clientTokens>>
  BY DEF ServerPurge, vars, client
<1> QED
  BY <1>1, <1>2, <1>3, <1>4, <1>5 DEF Next

\* Only ServerRespond makes an ACK, with the mid of its request, which was sent.
LEMMA AckHasMidStep ==
  ASSUME TypeOK, TypeOK', ServerInv, AckHasMid, [Next]_vars
  PROVE  AckHasMid'
<1> SUFFICES ASSUME NEW w \in Runs, response'[w].type = "ACK"
             PROVE  response'[w].mid = midOf'[RequestOf(w)]
  BY DEF AckHasMid
<1>1. Lasting
  BY EveryStep
<1>2. CASE response[w] # NoResponse
  <2>1. response'[w] = response[w] /\ Running(w)
    BY <1>1, <1>2 DEF Lasting, ServerInv, OnlyRunsMade
  <2>2. midOf'[RequestOf(w)] = midOf[RequestOf(w)]
    BY <1>1, <2>1, RunningIsSent DEF Lasting
  <2> QED
    BY <2>1, <2>2 DEF AckHasMid
<1>3. CASE response[w] = NoResponse
  <2>1. response'[w] # response[w]
    BY <1>3 DEF NoResponse
  <2>2. ASSUME NEW v \in Runs, ServerRespond(v)
        PROVE  response'[w].mid = midOf'[RequestOf(w)]
    <3> DEFINE r == RequestOf(v)
    <3>1. /\ UNCHANGED midOf /\ type[r] # "ACK"
          /\ \/ response' = [response EXCEPT ![v] = [type |-> "ACK", mid |-> midOf[r]]]
             \/ response' = [response EXCEPT ![v] = [type |-> type[r], mid |-> serverMid]]
      BY <2>2, RunType DEF ServerRespond, client, TypeOK
    <3>2. w = v
      <4> SUFFICES ASSUME w # v PROVE FALSE
        OBVIOUS
      <4>1. response \in [Runs -> [type : {"none", "CON", "NON", "ACK"}, mid : Mids]]
        BY DEF TypeOK
      <4> QED
        BY <2>1, <3>1, <4>1
    <3> QED
      BY <3>1, <3>2 DEF TypeOK
  <2>3. ASSUME NEW r \in Requests,
               ServerReceiveRequest(r) \/ \E t \in {"CON", "NON"} : ClientSend(r, t)
        PROVE  UNCHANGED response
    BY <2>3 DEF ServerReceiveRequest, ClientSend, server
  <2>4. ASSUME NEW v \in Runs, \/ ClientReceiveResponse(v) \/ ClientReceiveAck(v) \/ ServerAck(v)
                               \/ ServerReceiveAck(v) \/ Expire(v)
        PROVE  UNCHANGED response
    BY <2>4 DEF ClientReceiveResponse, ClientReceiveAck, ServerAck, ServerReceiveAck, Expire, server
  <2>5. ServerPurge \/ UNCHANGED vars => UNCHANGED response
    BY DEF ServerPurge, vars, server
  <2> QED
    BY <2>1, <2>2, <2>3, <2>4, <2>5 DEF Next
<1> QED
  BY <1>2, <1>3

\* What is found by mid has the message's token; what is found by token is the last
\* request with it, and only a separate response gets there.
LEMMA MistakenStep ==
  ASSUME TypeOK, TypeOK', ServerInv, MatchInv, [Next]_vars
  PROVE  GotAsItMay'
<1>1. Lasting
  BY EveryStep
<1>2. ASSUME NEW r \in Requests, NEW w \in Runs, got[r] = w
      PROVE  MayGet(r, w)'
  <2>1. MayGet(r, w)
    BY <1>2 DEF MatchInv, GotAsItMay
  <2>2. response'[w] = response[w] /\ lower' = lower
    BY <1>1, <2>1 DEF Lasting, MayGet
  <2> QED
    BY <2>1, <2>2 DEF MayGet, SameToken, NoResponse
<1>3. ASSUME NEW v \in Runs, ClientReceiveResponse(v),
             NEW r \in Requests, NEW w \in Runs, got'[r] = w, got[r] # w
      PROVE  MayGet(r, w)'
  <2>1. PICK q \in Requests : q = RequestOf(v)
    BY RunType
  <2>2. /\ response[v] # NoResponse /\ UNCHANGED <<response, lower>>
        /\ got' = [got EXCEPT ![Match(q, response[v].mid)] = v]
    BY <1>3, <2>1 DEF ClientReceiveResponse, server
  <2>3. r = Match(q, response[v].mid) /\ w = v
    BY <1>3, <2>2 DEF TypeOK
  <2>4. type[q] # "none"
    BY <2>1, <2>2, RunningIsSent DEF ServerInv, OnlyRunsMade
  <2>5. CASE r = q
    BY <2>1, <2>2, <2>3, <2>5 DEF MayGet, NoResponse
  <2>6. CASE r # q
    <3>1. r # None
      BY NoneAssumption
    <3>2. clientTable[PortOf(q)][response[v].mid] = None /\ r = WithToken(q)
      BY <2>3, <2>6, <3>1 DEF Match
    <3>3. response[v].type # "ACK"
      BY <2>1, <2>4, <3>2 DEF MatchInv, AckHasMid, LatestToken
    <3>4. SameToken(q, r) /\ q[2] <= r[2]
      BY <2>4, <3>2 DEF MatchInv, LatestToken
    <3>5. q[2] < r[2]
      <4>1. /\ q = <<PortOf(q), q[2]>> /\ r = <<PortOf(r), r[2]>>
            /\ q[2] \in 1..N /\ r[2] \in 1..N
        BY RequestType
      <4>2. q[2] # r[2]
        BY <2>6, <3>4, <4>1 DEF SameToken
      <4> QED
        BY <3>4, <4>1, <4>2
    <3> QED
      BY <2>1, <2>2, <2>3, <3>3, <3>4, <3>5 DEF MayGet, SameToken, NoResponse
  <2> QED
    BY <2>5, <2>6
<1>4. ASSUME NEW r \in Requests,
             ServerReceiveRequest(r) \/ \E t \in {"CON", "NON"} : ClientSend(r, t)
      PROVE  UNCHANGED got
  BY <1>4 DEF ServerReceiveRequest, ClientSend, client
<1>5. ASSUME NEW w \in Runs,
             \/ ClientReceiveAck(w) \/ ServerAck(w) \/ ServerRespond(w)
             \/ ServerReceiveAck(w) \/ Expire(w)
      PROVE  UNCHANGED got
  BY <1>5 DEF ClientReceiveAck, ServerAck, ServerRespond, ServerReceiveAck, Expire, client
<1>6. ServerPurge \/ UNCHANGED vars => UNCHANGED got
  BY DEF ServerPurge, vars, client
<1>7. ASSUME NEW r \in Requests, NEW w \in Runs, got'[r] = w  PROVE MayGet(r, w)'
  BY <1>2, <1>3, <1>4, <1>5, <1>6, <1>7 DEF Next
<1> QED
  BY <1>7 DEF GotAsItMay

\* A response is taken for that of another request only if it is a separate one and
\* the other a later request whose token differs by case only, even where the mids
\* wrap around (messagelayer.py 18-21, 108-118).
THEOREM MistakenHolds == Spec => []MistakenForLaterOnly
<1>1. Init => MatchInv
  <2> SUFFICES ASSUME Init PROVE MatchInv
    OBVIOUS
  <2>1. SentInOrder
    BY DEF Init, SentInOrder, Requests
  <2>2. LatestToken /\ AckHasMid
    BY DEF Init, LatestToken, AckHasMid, NoResponse
  <2>3. GotAsItMay
    BY NoneAssumption DEF Init, GotAsItMay
  <2> QED
    BY <2>1, <2>2, <2>3 DEF MatchInv
<1>2. TypeOK /\ ServerInv /\ TypeOK' /\ MatchInv /\ [Next]_vars => MatchInv'
  BY OrderStep, LatestStep, AckHasMidStep, MistakenStep DEF MatchInv
<1>3. TypeOK /\ MatchInv => MistakenForLaterOnly
  BY DEF MatchInv, GotAsItMay, MayGet, MistakenForLaterOnly, MistakenFor, TypeOK
<1>4. QED  BY <1>1, <1>2, <1>3, ServerTyped, PTL DEF Spec

-----------------------------------------------------------------------------
(* A second run.                                                           *)

\* A response to the client of request r has r's mid.
Replaced(r) ==
  \E w \in Runs : /\ response[w].type \in {"CON", "NON"}
                  /\ PortOf(RequestOf(w)) = PortOf(r) /\ response[w].mid = midOf[r]

\* The entry of a request that was run stays its first run's until that is too
\* old, unless a response replaces it.
FirstRunIsKept ==
  \A r \in Requests : runs[r] > 0 /\ <<r, 1>> \notin old =>
    table[KeyOf(r)] = <<r, 1>> \/ Replaced(r)

\* The response that has a request's mid keeps it.
LEMMA ReplacedStays ==
  ASSUME TypeOK, Lasting, NEW r \in Requests, type[r] # "none", Replaced(r)
  PROVE  Replaced(r)'
<1>1. PICK w \in Runs : /\ response[w].type \in {"CON", "NON"}
                        /\ PortOf(RequestOf(w)) = PortOf(r) /\ response[w].mid = midOf[r]
  BY DEF Replaced
<1>2. response'[w] = response[w] /\ midOf'[r] = midOf[r]
  BY <1>1 DEF Lasting, NoResponse
<1>3. QED  BY <1>1, <1>2 DEF Replaced

\* The entry under a request's key is only purged with an old run, and only a
\* response with its mid takes its place.
LEMMA FirstRunStep ==
  ASSUME TypeOK, TypeOK', ServerInv, LongPorts, FirstRunIsKept, [Next]_vars
  PROVE  FirstRunIsKept'
<1> SUFFICES ASSUME NEW r \in Requests, runs'[r] > 0, <<r, 1>> \notin old'
             PROVE  (table[KeyOf(r)])' = <<r, 1>> \/ Replaced(r)'
  BY DEF FirstRunIsKept
<1>1. Lasting /\ NewRun /\ \A k \in Keys : EntryChange(k)
  BY EveryStep
<1>2. <<r, 1>> \notin old /\ runs[r] \in 0..2
  BY <1>1 DEF Lasting, TypeOK
<1>3. type[r] # "none"
  BY <1>1, <1>2 DEF ServerInv, RunsOfSent, NewRun
<1>4. KeyOf(r)' = KeyOf(r) /\ KeyOf(r) \in Keys /\ midOf'[r] = midOf[r]
  BY <1>1, <1>3, RequestType, KeyType DEF KeyOf, Lasting, TypeOK
<1>5. <<r, 1>> \in Runs /\ <<r, 1>> # None
  BY NoneAssumption DEF Runs
<1>6. CASE runs[r] = 0
  <2>1. table'[KeyOf(r)] = <<r, runs'[r]>> /\ runs'[r] = 1
    BY <1>1, <1>6 DEF NewRun
  <2>2. QED  BY <1>4, <2>1
<1>7. CASE runs[r] > 0
  <2>1. CASE Replaced(r)
    BY <1>1, <1>3, <2>1, ReplacedStays
  <2>2. CASE table[KeyOf(r)] = <<r, 1>>
    <3>1. CASE \E w \in Runs : AnsweredBy(KeyOf(r), w)
      <4>1. PICK w \in Runs : AnsweredBy(KeyOf(r), w)
        BY <3>1
      <4>2. /\ PortOf(r) \in Ports /\ midOf[r] \in Mids
            /\ PortOf(RequestOf(w)) \in Ports /\ serverMid \in Mids
        BY RequestType, RunType DEF TypeOK
      <4>3. PortOf(RequestOf(w)) = PortOf(r) /\ serverMid = midOf[r]
        BY <4>1, <4>2, KeyInjective DEF AnsweredBy, KeyOf
      <4>4. QED  BY <1>4, <4>1, <4>3 DEF AnsweredBy, Replaced
    <3>2. ~Purged(KeyOf(r)) /\ \A q \in Requests : ~MadeFor(KeyOf(r), q)
      BY <1>2, <1>5, <2>2 DEF Purged, MadeFor
    <3>3. QED  BY <1>1, <1>4, <2>2, <3>1, <3>2 DEF EntryChange
  <2>3. QED  BY <1>2, <1>7, <2>1, <2>2 DEF FirstRunIsKept
<1>8. QED  BY <1>2, <1>6, <1>7

\* A second run finds the key free while the first one is not old.
LEMMA RunAgainStep ==
  ASSUME TypeOK, ServerInv, FirstRunIsKept, RunAgainOnlyIfReplaced, [Next]_vars
  PROVE  RunAgainOnlyIfReplaced'
<1> SUFFICES ASSUME NEW r \in Requests, runs'[r] > 1  PROVE Replaced(r)'
  BY DEF RunAgainOnlyIfReplaced, Replaced
<1>1. Lasting /\ NewRun
  BY EveryStep
<1>2. type[r] # "none" /\ runs[r] \in 0..2
  <2>1. runs[r] \in 0..2
    BY DEF TypeOK
  <2>2. runs[r] > 0 \/ runs'[r] # runs[r]
    BY <2>1
  <2>3. QED  BY <1>1, <2>1, <2>2 DEF ServerInv, RunsOfSent, NewRun
<1>3. CASE runs[r] > 1
  <2>1. Replaced(r)
    BY <1>3 DEF RunAgainOnlyIfReplaced, Replaced
  <2>2. QED  BY <1>1, <1>2, <2>1, ReplacedStays
<1>4. CASE runs[r] <= 1
  <2>1. runs[r] > 0 /\ <<r, 1>> \notin old /\ table[KeyOf(r)] = None
    BY <1>1, <1>2, <1>4 DEF NewRun
  <2>2. <<r, 1>> # None
    BY NoneAssumption DEF Runs
  <2>3. Replaced(r)
    BY <2>1, <2>2 DEF FirstRunIsKept
  <2>4. QED  BY <1>1, <1>2, <2>3, ReplacedStays
<1>5. QED  BY <1>2, <1>3, <1>4

\* A request is run again only if a response to the same client has its mid, for
\* any number of requests, also where the mids wrap around (messagelayer.py
\* 82-89, 252-253).
THEOREM RunAgainHolds == ASSUME LongPorts PROVE Spec => []RunAgainOnlyIfReplaced
<1> DEFINE Inv == FirstRunIsKept /\ RunAgainOnlyIfReplaced
<1>1. Init => Inv
  BY DEF Init, FirstRunIsKept, RunAgainOnlyIfReplaced
<1>2. TypeOK /\ ServerInv /\ TypeOK' /\ Inv /\ [Next]_vars => Inv'
  BY FirstRunStep, RunAgainStep
<1>3. QED  BY <1>1, <1>2, ServerTyped, PTL DEF Spec

-----------------------------------------------------------------------------
(* The server's mids.                                                      *)

\* What a step does to the responses with a mid of the server: no more of them,
\* or one, which takes the next mid and the entry of the table under it.
NoAnswer == /\ serverMid' = serverMid
            /\ \A w \in Runs : response'[w].type \in {"CON", "NON"} => response'[w] = response[w]
AnswerOf(w) ==
  /\ response[w] = NoResponse
  /\ response'[w].type \in {"CON", "NON"} /\ response'[w].mid = serverMid
  /\ \A v \in Runs \ {w} : response'[v] = response[v]
  /\ serverMid' = Following(serverMid)
  /\ table'[Key(PortOf(RequestOf(w)), serverMid)] = w

\* Every action is one of the two.
LEMMA EveryAnswer ==
  ASSUME TypeOK, ServerInv, [Next]_vars
  PROVE  NoAnswer \/ \E w \in Runs : AnswerOf(w)
<1> USE DEF TypeOK
<1>1. ASSUME NEW w \in Runs, ServerRespond(w)
      PROVE  NoAnswer \/ AnswerOf(w)
  <2> DEFINE r == RequestOf(w)
             key == Key(PortOf(r), serverMid)
  <2>1. r \in Requests /\ key \in Keys /\ Running(w) /\ response[w] = NoResponse
    BY <1>1, RunType, RequestType, KeyType DEF ServerRespond
  <2>2. CASE /\ response' = [response EXCEPT ![w] = [type |-> "ACK", mid |-> midOf[r]]]
             /\ UNCHANGED serverMid
    BY <2>2 DEF NoAnswer
  <2>3. CASE /\ response' = [response EXCEPT ![w] = [type |-> type[r], mid |-> serverMid]]
             /\ serverMid' = Following(serverMid)
             /\ table' = [table EXCEPT ![key] = w]
    <3>1. runs[r] > 0
      BY <2>1, RunType DEF Running
    <3>2. type[r] \in {"CON", "NON"}
      BY <2>1, <3>1 DEF ServerInv, RunsOfSent
    <3>3. table'[key] = w
      BY <2>1, <2>3
    <3>4. response'[w] = [type |-> type[r], mid |-> serverMid]
          /\ \A v \in Runs \ {w} : response'[v] = response[v]
      BY <2>3
    <3>5. QED  BY <2>1, <2>3, <3>2, <3>3, <3>4 DEF AnswerOf
  <2>4. QED  BY <1>1, <2>2, <2>3 DEF ServerRespond
<1>2. ASSUME UNCHANGED <<serverMid, response>>  PROVE NoAnswer
  BY <1>2 DEF NoAnswer
<1>3. ASSUME NEW r \in Requests, ServerReceiveRequest(r) \/ \E t \in {"CON", "NON"} : ClientSend(r, t)
      PROVE  UNCHANGED <<serverMid, response>>
  BY <1>3 DEF ServerReceiveRequest, ClientSend, server
<1>4. ASSUME NEW w \in Runs, \/ ClientReceiveResponse(w) \/ ClientReceiveAck(w) \/ ServerAck(w)
                             \/ ServerReceiveAck(w) \/ Expire(w)
      PROVE  UNCHANGED <<serverMid, response>>
  BY <1>4 DEF ClientReceiveResponse, ClientReceiveAck, ServerAck, ServerReceiveAck, Expire, server
<1>5. ServerPurge \/ UNCHANGED vars => UNCHANGED <<serverMid, response>>
  BY DEF ServerPurge, vars, server
<1>6. QED  BY <1>1, <1>2, <1>3, <1>4, <1>5 DEF Next

\* A response that has a mid of the server got it at most as many draws ago as
\* there are such responses.
ServerMids ==
  \A w \in Separate : \E d \in 1..Cardinality(Separate) :
    serverMid = response[w].mid + d \/ serverMid = response[w].mid + d - W

\* No more runs than mids, so that the server's mids do not come round.
FewRuns == Cardinality(Runs) <= W

\* A finite number of clients makes a finite number of requests.
LEMMA RunsAreFinite == IsFiniteSet(Runs)
<1>1. ASSUME NEW n \in Nat  PROVE IsFiniteSet(1..n)
  BY FS_Interval
<1>2. ASSUME NEW n \in Nat, \A p \in Ports : p \in Nat /\ 0 < p /\ p < n
      PROVE  IsFiniteSet(Ports)
  <2>1. Ports \subseteq 1..n
    BY <1>2
  <2>2. QED  BY <1>1, <2>1, FS_Subset
<1>3. IsFiniteSet(Ports)
  <2>1. 65536 \in Nat
    OBVIOUS
  <2>2. QED  BY <1>2, <2>1, PortsAssumption
<1>4. N \in Nat
  BY MidsAssumption
<1>5. IsFiniteSet(1..N) /\ IsFiniteSet(1..2)
  BY <1>1, <1>4
<1>6. IsFiniteSet(Requests)
  BY <1>3, <1>5, FS_Product DEF Requests
<1>7. QED  BY <1>5, <1>6, FS_Product DEF Runs

\* Before the last run is answered there are fewer responses than mids.
LEMMA SeparateCount ==
  ASSUME FewRuns
  PROVE  /\ IsFiniteSet(Separate) /\ Cardinality(Separate) \in Nat /\ Cardinality(Separate) <= W
         /\ Separate # Runs => Cardinality(Separate) < W
<1>1. Separate \subseteq Runs
  BY DEF Separate
<1>2. W \in Nat /\ Cardinality(Runs) \in Nat
  BY MidsAssumption, RunsAreFinite, FS_CardinalityType
<1>3. QED  BY <1>1, <1>2, RunsAreFinite, FS_Subset, FS_CardinalityType DEF FewRuns

\* The mid that is drawn next is that of none of them, while there are fewer
\* than mids.
LEMMA NextIsFree ==
  ASSUME TypeOK, FewRuns, ServerMids, Cardinality(Separate) < W, NEW w \in Separate
  PROVE  response[w].mid # serverMid
<1>1. W \in Nat /\ response[w].mid \in Mids /\ serverMid \in Mids
  BY MidsAssumption DEF TypeOK, Separate
<1>2. PICK d \in 1..Cardinality(Separate) :
        serverMid = response[w].mid + d \/ serverMid = response[w].mid + d - W
  BY DEF ServerMids
<1>3. Cardinality(Separate) \in Nat
  BY SeparateCount
<1> DEFINE c == Cardinality(Separate)
           m == response[w].mid
<1>4. c \in Nat /\ d \in 1..c /\ c < W /\ m \in Nat /\ serverMid \in Nat
  BY <1>1, <1>3 DEF Mids
<1> HIDE DEF c, m
<1>5. m + d # m /\ m + d - W # m
  BY <1>1, <1>4
<1>6. QED  BY <1>2, <1>5 DEF m

\* A response that is made is one draw behind, and the others one more.
LEMMA ServerMidsStep ==
  ASSUME TypeOK, ServerInv, FewRuns, ServerMids, [Next]_vars
  PROVE  ServerMids'
<1>1. W \in Nat /\ serverMid \in Mids /\ \A w \in Runs : response[w].mid \in Mids
  BY MidsAssumption DEF TypeOK
<1>2. CASE NoAnswer
  <2>1. \A w \in Separate' : w \in Separate /\ response'[w] = response[w]
    BY <1>2 DEF NoAnswer, Separate
  <2>2. \A w \in Separate : w \in Separate'
    <3>1. \A w \in Separate : w \in Runs /\ response[w] # NoResponse
      BY DEF Separate, NoResponse
    <3>2. \A w \in Separate : response'[w] = response[w]
      BY <3>1, EveryStep DEF Lasting
    <3>3. QED  BY <3>1, <3>2 DEF Separate
  <2>3. Separate' = Separate
    BY <2>1, <2>2
  <2>4. QED  BY <1>2, <2>1, <2>3 DEF NoAnswer, ServerMids
<1>3. ASSUME NEW w \in Runs, AnswerOf(w)  PROVE ServerMids'
  <2> DEFINE c == Cardinality(Separate)
  <2>1. w \notin Separate /\ Separate' = Separate \cup {w}
    BY <1>3 DEF AnswerOf, Separate, NoResponse
  <2>2. Cardinality(Separate') = c + 1
    BY <2>1, SeparateCount, FS_AddElement
  <2>3. c \in Nat /\ c < W
    BY <1>3, <2>1, SeparateCount
  <2>4. Following(serverMid) \in Mids
        /\ (Following(serverMid) = serverMid + 1 \/ Following(serverMid) = serverMid + 1 - W)
    BY <1>1, FollowingType
  <2>5. serverMid' = Following(serverMid)
    BY <1>3 DEF AnswerOf
  <2> HIDE DEF c
  <2>6. ASSUME NEW v \in Separate'
        PROVE  \E d \in 1..(c + 1) :
                 \/ serverMid' = response'[v].mid + d \/ serverMid' = response'[v].mid + d - W
    <3>1. CASE v = w
      <4>1. response'[v].mid = serverMid
        BY <1>3, <3>1 DEF AnswerOf
      <4>2. 1 \in 1..(c + 1)
        BY <2>3
      <4>3. QED  BY <2>4, <2>5, <4>1, <4>2
    <3>2. CASE v \in Separate /\ v # w
      <4> DEFINE m == response[v].mid
      <4>1. response'[v] = response[v] /\ m \in Mids
        BY <1>1, <1>3, <3>2 DEF AnswerOf, Separate
      <4>2. PICK d \in 1..c : serverMid = m + d \/ serverMid = m + d - W
        BY <3>2 DEF ServerMids, c
      <4> HIDE DEF m
      <4>3. /\ d \in Nat /\ d >= 1 /\ d <= c /\ m \in Nat /\ m < W /\ serverMid \in Nat /\ serverMid < W
            /\ serverMid' \in Nat
        BY <1>1, <2>3, <2>4, <2>5, <4>1 DEF Mids
      <4>4. serverMid' = serverMid + 1 \/ serverMid' = serverMid + 1 - W
        BY <2>4, <2>5
      <4>5. serverMid' = m + (d + 1) \/ serverMid' = m + (d + 1) - W
        BY <1>1, <2>3, <4>2, <4>3, <4>4
      <4>6. d + 1 \in 1..(c + 1)
        BY <2>3, <4>3
      <4>7. QED  BY <4>1, <4>5, <4>6 DEF m
    <3>3. QED  BY <2>1, <3>1, <3>2
  <2>7. QED  BY <2>2, <2>6 DEF ServerMids, c
<1>4. QED  BY <1>2, <1>3, EveryAnswer

-----------------------------------------------------------------------------
(* What the server takes for acknowledged.                                 *)

\* A token's entry is a run of a request with that token; only runs are settled; a client
\* acknowledges confirmable responses.
TokensOfRuns ==
  \A p \in Ports : \A t \in Tokens :
    LET w == tokens[p][t] IN
    w # None => PortOf(RequestOf(w)) = p /\ lower[RequestOf(w)] = t /\ Running(w)
SettledRuns == \A w \in settled : Running(w)
ConfirmedIsCon == \A v \in confirmed : response[v].type = "CON"

\* Under the mid of a response the table has its run. Once that is old, it may
\* have a later request of the same client with that mid, or nothing.
EntryOf(v) == table[Key(PortOf(RequestOf(v)), response[v].mid)]
HasOther(v) ==
  EntryOf(v) # None => /\ PortOf(RequestOf(EntryOf(v))) = PortOf(RequestOf(v))
                       /\ midOf[RequestOf(EntryOf(v))] = response[v].mid
EntryOfResponse == \A v \in Separate : EntryOf(v) = v \/ (v \in old /\ HasOther(v))

\* A late ACK has been taken for one of the response of run w.
Mistaken(w) ==
  \E v \in confirmed \cap old :
    \/ SameToken(RequestOf(v), RequestOf(w))
    \/ PortOf(RequestOf(v)) = PortOf(RequestOf(w)) /\ response[v].mid = midOf[RequestOf(w)]

SettledInv == TokensOfRuns /\ SettledRuns /\ ConfirmedIsCon /\ EntryOfResponse /\ ServerMids

\* No later response draws the mid of an earlier one, so its entry is only
\* purged, and after that free for a request.
LEMMA EntryStep ==
  ASSUME TypeOK, TypeOK', ServerInv, LongPorts, FewRuns, SettledInv, [Next]_vars
  PROVE  EntryOfResponse'
<1> SUFFICES ASSUME NEW v \in Separate'
             PROVE  (EntryOf(v) = v \/ (v \in old /\ HasOther(v)))'
  BY DEF EntryOfResponse
<1>1. Lasting /\ \A k \in Keys : EntryChange(k)
  BY EveryStep
<1>2. v \in Runs /\ PortOf(RequestOf(v)) \in Ports /\ RequestOf(v) \in Requests
  BY RunType, RequestType DEF Separate
<1>3. CASE response[v] # NoResponse
  <2> DEFINE p == PortOf(RequestOf(v))
             k == Key(p, response[v].mid)
             e == table[k]
  <2>1. response'[v] = response[v] /\ v \in Separate /\ response[v].mid \in Mids /\ k \in Keys
    BY <1>1, <1>2, <1>3, KeyType DEF Lasting, Separate, TypeOK
  <2>2. EntryOf(v) = e /\ EntryOf(v)' = table'[k]
    BY <2>1 DEF EntryOf
  <2>3. e = v \/ (v \in old /\ (e # None => PortOf(RequestOf(e)) = p /\ midOf[RequestOf(e)] = response[v].mid))
    BY <2>1, <2>2 DEF SettledInv, EntryOfResponse, HasOther
  <2>4. old \subseteq old'
    BY <1>1 DEF Lasting
  <2>5. SUFFICES \/ table'[k] = v
                 \/ /\ v \in old
                    /\ table'[k] # None => /\ PortOf(RequestOf(table'[k])) = p
                                           /\ midOf'[RequestOf(table'[k])] = response[v].mid
    BY <2>1, <2>2, <2>4 DEF HasOther
  <2>6. CASE table'[k] = e
    <3>1. CASE e = v
      BY <2>6, <3>1
    <3>2. CASE e # v /\ e # None
      <4>1. e \in Runs /\ Running(e)
        BY <2>1, <3>2 DEF TypeOK, ServerInv, OnlyRunsMade
      <4>2. midOf'[RequestOf(e)] = midOf[RequestOf(e)]
        BY <1>1, <4>1, RunningIsSent DEF Lasting
      <4>3. QED  BY <2>3, <2>6, <3>2, <4>2
    <3>3. CASE e # v /\ e = None
      BY <2>3, <2>6, <3>3
    <3>4. QED  BY <3>1, <3>2, <3>3
  <2>7. CASE Purged(k)
    BY <2>3, <2>7 DEF Purged
  <2>8. CASE \E r \in Requests : MadeFor(k, r)
    <3>1. PICK r \in Requests : MadeFor(k, r)
      BY <2>8
    <3>2. PortOf(r) \in Ports /\ midOf[r] \in Mids
      BY RequestType DEF TypeOK
    <3>3. PortOf(r) = p /\ midOf[r] = response[v].mid
      BY <1>2, <2>1, <3>1, <3>2, KeyInjective DEF MadeFor, KeyOf
    <3>4. midOf'[r] = midOf[r]
      BY <1>1, <3>1 DEF Lasting, MadeFor
    <3>5. v \in old
      <4>1. e = None /\ v # None
        BY <1>2, <3>1, NoneAssumption DEF MadeFor
      <4>2. QED  BY <2>3, <4>1
    <3>6. QED  BY <3>1, <3>3, <3>4, <3>5 DEF MadeFor
  <2>9. CASE \E w \in Runs : AnsweredBy(k, w)
    <3>1. PICK w \in Runs : AnsweredBy(k, w)
      BY <2>9
    <3>2. PortOf(RequestOf(w)) \in Ports /\ serverMid \in Mids
      BY RequestType, RunType DEF TypeOK
    <3>3. serverMid = response[v].mid
      BY <1>2, <2>1, <3>1, <3>2, KeyInjective DEF AnsweredBy
    <3>4. w \in Runs /\ w \notin Separate
      BY <3>1 DEF AnsweredBy, Separate, NoResponse
    <3>5. Cardinality(Separate) < W
      BY <3>4, SeparateCount
    <3>6. QED  BY <2>1, <3>3, <3>5, NextIsFree DEF SettledInv
  <2>10. QED  BY <1>1, <2>1, <2>6, <2>7, <2>8, <2>9 DEF EntryChange
<1>4. CASE response[v] = NoResponse
  <2>1. ~NoAnswer
    BY <1>2, <1>4 DEF NoAnswer, Separate, NoResponse
  <2>2. PICK w \in Runs : AnswerOf(w)
    BY <2>1, EveryAnswer
  <2>3. w = v
    BY <1>2, <1>4, <2>2 DEF AnswerOf, Separate, NoResponse
  <2>4. QED  BY <2>2, <2>3 DEF AnswerOf, EntryOf
<1>5. QED  BY <1>3, <1>4

\* The entry of a token after a step, in which it may be made a new run's.
NewEntry(p, t) ==
  \E r \in Requests : PortOf(r) = p /\ lower[r] = t /\ tokens'[p][t] = <<r, runs'[r]>>

\* The tokens' entries and what is confirmed, after a step.
LEMMA BookStep ==
  ASSUME TypeOK, TypeOK', ServerInv, SettledInv, [Next]_vars
  PROVE  /\ \A p \in Ports, t \in Tokens : tokens'[p][t] \in {tokens[p][t], None} \/ NewEntry(p, t)
         /\ \A v \in confirmed' : v \in confirmed \/ response[v].type = "CON"
<1> USE DEF TypeOK
<1>1. ASSUME NEW r \in Requests, ServerReceiveRequest(r)
      PROVE  /\ \A p \in Ports, t \in Tokens : tokens'[p][t] = tokens[p][t] \/ NewEntry(p, t)
             /\ UNCHANGED confirmed
  <2>1. UNCHANGED confirmed
    BY <1>1 DEF ServerReceiveRequest, client
  <2>2. CASE UNCHANGED tokens
    BY <2>1, <2>2
  <2>3. CASE /\ runs' = [runs EXCEPT ![r] = @ + 1]
             /\ tokens' = [tokens EXCEPT ![PortOf(r)][lower[r]] = <<r, runs[r] + 1>>]
    <3> SUFFICES ASSUME NEW p \in Ports, NEW t \in Tokens
                 PROVE  tokens'[p][t] = tokens[p][t] \/ NewEntry(p, t)
      BY <2>1
    <3>1. CASE p = PortOf(r) /\ t = lower[r]
      <4>1. tokens'[p][t] = <<r, runs[r] + 1>>
        BY <2>3, <3>1
      <4>2. runs'[r] = runs[r] + 1
        BY <2>3
      <4> QED
        BY <3>1, <4>1, <4>2 DEF NewEntry
    <3>2. CASE ~(p = PortOf(r) /\ t = lower[r])
      BY <2>3, <3>2
    <3> QED
      BY <3>1, <3>2
  <2>4. QED  BY <1>1, <2>2, <2>3 DEF ServerReceiveRequest
<1>2. ASSUME NEW w \in Runs, ClientReceiveResponse(w)
      PROVE  /\ UNCHANGED tokens
             /\ \A v \in confirmed' : v \in confirmed \/ response[v].type = "CON"
  BY <1>2 DEF ClientReceiveResponse, server
<1>3. CASE ServerPurge
  BY <1>3 DEF ServerPurge, client
<1>4. ASSUME NEW w \in Runs, \/ ClientReceiveAck(w) \/ ServerAck(w) \/ ServerRespond(w)
                             \/ ServerReceiveAck(w) \/ Expire(w)
      PROVE  UNCHANGED <<tokens, confirmed>>
  BY <1>4 DEF ClientReceiveAck, ServerAck, ServerRespond, ServerReceiveAck, Expire, client, server
<1>5. ASSUME NEW r \in Requests, NEW t \in {"CON", "NON"}, ClientSend(r, t)
      PROVE  UNCHANGED <<tokens, confirmed>>
  BY <1>5 DEF ClientSend, server
<1>6. UNCHANGED vars => UNCHANGED <<tokens, confirmed>>
  BY DEF vars, client, server
<1>7. CASE UNCHANGED <<tokens, confirmed>>
  BY <1>7
<1>8. QED  BY <1>1, <1>2, <1>3, <1>4, <1>5, <1>6, <1>7 DEF Next

\* ServerReceiveRequest and the purge keep the tokens' entries so.
LEMMA TokensStep ==
  ASSUME TypeOK, TypeOK', ServerInv, SettledInv, [Next]_vars
  PROVE  TokensOfRuns'
<1> SUFFICES ASSUME NEW p \in Ports, NEW t \in Tokens, NEW w, w = tokens'[p][t], w # None
             PROVE  PortOf(RequestOf(w)) = p /\ lower'[RequestOf(w)] = t /\ StillRunning(w)
  BY DEF TokensOfRuns, Running, StillRunning
<1>1. lower' = lower /\ \A q \in Requests : runs[q] <= runs'[q]
  BY EveryStep DEF Lasting
<1>2. tokens'[p][t] \in {tokens[p][t], None} \/ NewEntry(p, t)
  BY BookStep
<1>3. CASE tokens'[p][t] = tokens[p][t]
  <2>1. w \in Runs /\ PortOf(RequestOf(w)) = p /\ lower[RequestOf(w)] = t /\ Running(w)
    BY <1>3 DEF SettledInv, TokensOfRuns, TypeOK
  <2>2. QED  BY <1>1, <1>3, <2>1, RunsGrow
<1>4. CASE NewEntry(p, t)
  <2>1. PICK r \in Requests : PortOf(r) = p /\ lower[r] = t /\ w = <<r, runs'[r]>>
    BY <1>4 DEF NewEntry
  <2>2. runs'[r] \in 0..2
    BY DEF TypeOK
  <2>3. QED  BY <1>1, <2>1, <2>2 DEF RequestOf, StillRunning
<1>5. QED  BY <1>2, <1>3, <1>4

\* A client acknowledges what has come as a CON, and that keeps its type.
LEMMA ConfirmedStep ==
  ASSUME TypeOK, TypeOK', ServerInv, SettledInv, [Next]_vars
  PROVE  ConfirmedIsCon'
<1>1. Lasting
  BY EveryStep
<1>2. ASSUME NEW v \in confirmed'  PROVE response'[v].type = "CON"
  <2>1. v \in Runs /\ response[v].type = "CON"
    BY <1>2, BookStep DEF SettledInv, ConfirmedIsCon, TypeOK
  <2>2. QED  BY <1>1, <2>1 DEF Lasting, NoResponse
<1>3. QED  BY <1>2 DEF ConfirmedIsCon

\* A late ACK has been taken for it for good.
LEMMA MistakenStays ==
  ASSUME TypeOK, ServerInv, SettledInv, Lasting, NEW w \in Runs, Running(w), Mistaken(w)
  PROVE  Mistaken(w)'
<1>1. PICK v \in confirmed \cap old :
        \/ SameToken(RequestOf(v), RequestOf(w))
        \/ PortOf(RequestOf(v)) = PortOf(RequestOf(w)) /\ response[v].mid = midOf[RequestOf(w)]
  BY DEF Mistaken
<1>2. v \in Runs /\ response[v].type = "CON"
  BY <1>1 DEF SettledInv, ConfirmedIsCon, TypeOK
<1>3. response'[v] = response[v] /\ v \in confirmed' /\ v \in old'
  BY <1>1, <1>2 DEF Lasting, NoResponse
<1>4. midOf'[RequestOf(w)] = midOf[RequestOf(w)] /\ lower' = lower
  BY RunningIsSent DEF Lasting
<1>5. QED  BY <1>1, <1>3, <1>4 DEF Mistaken, SameToken

\* What a step newly takes for settled has been confirmed, or the ACK was mistaken.
LEMMA NewlySettled ==
  ASSUME TypeOK, ServerInv, SettledInv, [Next]_vars, NEW w \in settled' \ settled
  PROVE  w \in Runs /\ Running(w) /\ (w \in confirmed \/ Mistaken(w))
<1>1. ASSUME NEW v \in Runs, ServerReceiveAck(v)
      PROVE  w \in Runs /\ Running(w) /\ (w \in confirmed \/ Mistaken(w))
  <2> DEFINE r == RequestOf(v)
             byMid == EntryOf(v)
             byToken == tokens[PortOf(r)][lower[r]]
             found == IF byMid # None THEN byMid ELSE byToken
  <2>1. byMid = table[Key(PortOf(r), ConfirmMid(v))]
    BY DEF EntryOf, ConfirmMid
  <2>2. v \in confirmed /\ found # None /\ w = found
    BY <1>1, <2>1 DEF ServerReceiveAck
  <2>3. r \in Requests /\ PortOf(r) \in Ports /\ response[v].mid \in Mids /\ lower[r] \in Tokens
    BY RunType, RequestType DEF TypeOK
  <2>4. v \in Separate
    BY <2>2 DEF SettledInv, ConfirmedIsCon, Separate
  <2>5. byMid = v \/ (v \in old /\ HasOther(v))
    BY <2>4 DEF SettledInv, EntryOfResponse
  <2>6. CASE byMid # None
    <3>1. Key(PortOf(r), response[v].mid) \in Keys
      BY <2>3, KeyType
    <3>2. byMid \in Runs /\ Running(byMid)
      BY <2>6, <3>1 DEF EntryOf, TypeOK, ServerInv, OnlyRunsMade
    <3>3. CASE byMid = v
      BY <2>2, <2>6, <3>2, <3>3
    <3>4. CASE v \in old /\ HasOther(v)
      <4>1. /\ PortOf(RequestOf(byMid)) = PortOf(r)
            /\ midOf[RequestOf(byMid)] = response[v].mid
        BY <2>6, <3>4 DEF HasOther
      <4>2. Mistaken(w)
        BY <2>2, <2>6, <3>4, <4>1 DEF Mistaken
      <4>3. QED  BY <2>2, <2>6, <3>2, <4>2
    <3>5. QED  BY <2>5, <3>3, <3>4
  <2>7. CASE byMid = None
    <3>1. v \in old
      BY <1>1, <2>5, <2>7, NoneAssumption
    <3>2. w = byToken /\ w # None
      BY <2>2, <2>7
    <3>3. w \in Runs /\ PortOf(RequestOf(w)) = PortOf(r) /\ lower[RequestOf(w)] = lower[r] /\ Running(w)
      BY <2>3, <3>2 DEF SettledInv, TokensOfRuns, TypeOK
    <3>4. Mistaken(w)
      BY <2>2, <3>1, <3>3 DEF Mistaken, SameToken
    <3>5. QED  BY <3>3, <3>4
  <2>8. QED  BY <2>6, <2>7
<1>2. ASSUME NEW r \in Requests, ServerReceiveRequest(r) \/ \E t \in {"CON", "NON"} : ClientSend(r, t)
      PROVE  UNCHANGED settled
  BY <1>2 DEF ServerReceiveRequest, ClientSend, server
<1>3. ASSUME NEW v \in Runs, \/ ClientReceiveResponse(v) \/ ClientReceiveAck(v) \/ ServerAck(v)
                             \/ ServerRespond(v) \/ Expire(v)
      PROVE  UNCHANGED settled
  BY <1>3 DEF ClientReceiveResponse, ClientReceiveAck, ServerAck, ServerRespond, Expire, server
<1>4. ServerPurge \/ UNCHANGED vars => UNCHANGED settled
  BY DEF ServerPurge, vars, server
<1>5. QED  BY <1>1, <1>2, <1>3, <1>4 DEF Next

\* Both parts of the invariant about settled runs.
LEMMA SettledStep ==
  ASSUME TypeOK, TypeOK', ServerInv, SettledInv, SettledWasConfirmed, [Next]_vars
  PROVE  SettledRuns' /\ SettledWasConfirmed'
<1>1. Lasting
  BY EveryStep
<1>2. ASSUME NEW w \in settled'
      PROVE  w \in Runs /\ Running(w) /\ (w \in confirmed \/ Mistaken(w))
  <2>1. CASE w \in settled
    BY <2>1 DEF SettledInv, SettledRuns, SettledWasConfirmed, Mistaken, TypeOK
  <2>2. CASE w \notin settled
    BY <2>2, NewlySettled
  <2>3. QED  BY <2>1, <2>2
<1>3. ASSUME NEW w \in settled'  PROVE StillRunning(w)
  BY <1>1, <1>2, RunsGrow DEF Lasting
<1>4. ASSUME NEW w \in settled'  PROVE w \in confirmed' \/ Mistaken(w)'
  BY <1>1, <1>2, MistakenStays DEF Lasting
<1>5. QED  BY <1>3, <1>4 DEF SettledRuns, Running, StillRunning, SettledWasConfirmed, Mistaken

\* What the server takes for acknowledged has been acknowledged by its client, or
\* a late ACK has found another run, as long as the server's mids do not come
\* round (messagelayer.py 53-65, 148-167, 252-253).
THEOREM SettledHolds == ASSUME LongPorts, FewRuns PROVE Spec => []SettledWasConfirmed
<1> DEFINE Inv == SettledInv /\ SettledWasConfirmed
<1>1. Init => Inv
  <2> SUFFICES ASSUME Init PROVE Inv
    OBVIOUS
  <2>1. Separate = {}
    BY DEF Init, Separate, NoResponse
  <2>2. QED  BY <2>1 DEF Init, SettledInv, TokensOfRuns, SettledRuns, ConfirmedIsCon, EntryOfResponse,
                         ServerMids, SettledWasConfirmed
<1>2. TypeOK /\ ServerInv /\ TypeOK' /\ Inv /\ [Next]_vars => Inv'
  BY TokensStep, SettledStep, ConfirmedStep, EntryStep, ServerMidsStep DEF SettledInv
<1>3. QED  BY <1>1, <1>2, ServerTyped, PTL DEF Spec
=============================================================================
