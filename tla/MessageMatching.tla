-------------------------- MODULE MessageMatching --------------------------
(***************************************************************************)
(* The tables with which coapthon/layers/messagelayer.py finds the         *)
(* transaction of a message: one server and its clients, each with its own *)
(* MessageLayer and its own mids.                                          *)
(*                                                                         *)
(* A request is <<port of the client, n>>, its n-th one; it has a token of *)
(* its own, for which it stands, and which the tables know in lower case   *)
(* only.  A run is a Transaction that the server makes for a request.      *)
(* What was sent may arrive at any time, as often as it likes, or never.   *)
(* ServerExchange and ClientExchange say what threads do with a            *)
(* transaction once it is found.                                           *)
(***************************************************************************)
EXTENDS Naturals

CONSTANTS Ports,    \* the clients' ports, on one host
          N,        \* bound on the requests of a client
          W,        \* mids are 0..W-1; 65535 in the code
          Tokens,   \* tokens in lower case
          None

ASSUME PortsAssumption == \A p \in Ports : p \in Nat /\ 0 < p /\ p < 65536
ASSUME MidsAssumption == W \in Nat \ {0} /\ W <= 65535 /\ N \in Nat

Requests == Ports \X (1..N)
Runs == Requests \X (1..2)
Mids == 0..(W - 1)

ASSUME NoneAssumption == None \notin Requests \cup Runs

\* str_append_hash: the port's decimal digits with the mid's behind them.
Scale(mid) == IF mid < 10 THEN 10 ELSE IF mid < 100 THEN 100
              ELSE IF mid < 1000 THEN 1000 ELSE IF mid < 10000 THEN 10000 ELSE 100000
Key(port, mid) == port * Scale(mid) + mid
Keys == {Key(p, m) : p \in Ports, m \in Mids}

VARIABLES
  lower,        \* [Requests]: what str_append_hash makes of its token
  clientMid,    \* [Ports]: the client's _current_mid
  type, midOf,  \* [Requests]: type and mid once it is sent
  clientTable,  \* [Ports]: the client's _transactions by mid
  clientTokens, \* [Ports]: the client's _transactions_token
  acknowledged, \* the requests that are acknowledged for their client
  got,          \* [Requests]: the run that made transaction.response
  serverMid,    \* the server's _current_mid
  runs,         \* [Requests]: the transactions made by the server
  table,        \* the server's _transactions
  tokens,       \* [Ports]: the server's _transactions_token
  accepted,     \* the runs whose request is acknowledged for the server
  acks,         \* those of them for which an empty ACK was sent
  response,     \* [Runs]: type and mid of the response
  confirmed,    \* the runs whose response the client has sent an ACK for
  settled,      \* the runs whose response is acknowledged for the server
  old,          \* the runs older than EXCHANGE_LIFETIME
  arrived       \* the requests of which a copy has come to the server

client == <<lower, clientMid, type, midOf, clientTable, clientTokens, acknowledged, got, confirmed>>
server == <<serverMid, runs, table, tokens, accepted, acks, response, settled, arrived>>
vars == <<client, server, old>>

NoResponse == [type |-> "none", mid |-> 0]
PortOf(r) == r[1]
RequestOf(w) == w[1]

\* Their tokens differ by case only, or are one.
SameToken(q, r) == PortOf(q) = PortOf(r) /\ lower[q] = lower[r]

\* A MessageLayer starts at a random mid; tokens are drawn at random.
Init ==
  /\ lower \in [Requests -> Tokens]
  /\ clientMid \in [Ports -> Mids]
  /\ type = [r \in Requests |-> "none"] /\ midOf = [r \in Requests |-> 0]
  /\ clientTable = [p \in Ports |-> [m \in Mids |-> None]]
  /\ clientTokens = [p \in Ports |-> [t \in Tokens |-> None]]
  /\ acknowledged = {} /\ confirmed = {}
  /\ got = [r \in Requests |-> None]
  /\ serverMid \in Mids
  /\ runs = [r \in Requests |-> 0]
  /\ table = [k \in Keys |-> None] /\ tokens = [p \in Ports |-> [t \in Tokens |-> None]]
  /\ accepted = {} /\ acks = {} /\ settled = {}
  /\ response = [w \in Runs |-> NoResponse]
  /\ old = {} /\ arrived = {}

\* One more mid than there are.
WrongFollowing(mid) == (mid + 1) % (W + 1)
\* fetch_mid
Following(mid) == (mid + 1) % W

-----------------------------------------------------------------------------
(* The client.                                                             *)

\* send_request; the requests of a client are numbered in their order.
ClientSend(r, t) ==
  LET p == PortOf(r) IN
  /\ type[r] = "none"
  /\ \A q \in Requests : PortOf(q) = p /\ q[2] < r[2] => type[q] # "none"
  /\ type' = [type EXCEPT ![r] = t]
  /\ midOf' = [midOf EXCEPT ![r] = clientMid[p]]
  /\ clientTable' = [clientTable EXCEPT ![p][clientMid[p]] = r]
  /\ clientTokens' = [clientTokens EXCEPT ![p][lower[r]] = r]
  /\ clientMid' = [clientMid EXCEPT ![p] = Following(@)]
  /\ UNCHANGED <<lower, acknowledged, got, confirmed, server, old>>

\* What has the token's key, in lower case.
WithToken(r) == clientTokens[PortOf(r)][lower[r]]

\* The token is looked up first.
WrongMatch(r, mid) == WithToken(r)

\* receive_response: one found by mid must have the message's token, which is r's;
\* without one, that of the token's key is taken, and no token is compared.
Match(r, mid) ==
  LET found == clientTable[PortOf(r)][mid] IN
  IF found = None THEN WithToken(r) ELSE IF found = r THEN r ELSE None

\* A response that matches; the ACK is sent at once.
ClientReceiveResponse(w) ==
  LET r == Match(RequestOf(w), response[w].mid) IN
  /\ response[w] # NoResponse /\ r # None
  /\ got' = [got EXCEPT ![r] = w]
  /\ acknowledged' = acknowledged \cup {r}
  /\ confirmed' = IF response[w].type = "CON" THEN confirmed \cup {w} ELSE confirmed
  /\ UNCHANGED <<lower, clientMid, type, midOf, clientTable, clientTokens, server, old>>

\* The mid is left as that of the response.
WrongAckMid(w) == response[w].mid
\* send_empty for the request.
AckMid(w) == midOf[RequestOf(w)]

\* receive_empty for the server's ACK, which has no token.
ClientReceiveAck(w) ==
  LET r == clientTable[PortOf(RequestOf(w))][AckMid(w)] IN
  /\ w \in acks /\ r # None
  /\ acknowledged' = acknowledged \cup {r}
  /\ UNCHANGED <<lower, clientMid, type, midOf, clientTable, clientTokens, got, confirmed, server,
                 old>>

-----------------------------------------------------------------------------
(* The server.                                                             *)

\* The purge takes what is not old yet, too.
WrongTooOld(w) == w # None
TooOld(w) == w \in old

\* purge
ServerPurge ==
  /\ table' = [k \in Keys |-> IF TooOld(table[k]) THEN None ELSE table[k]]
  /\ tokens' = [p \in Ports |-> [t \in Tokens |-> IF TooOld(tokens[p][t]) THEN None ELSE tokens[p][t]]]
  /\ UNCHANGED <<client, serverMid, runs, accepted, acks, response, settled, arrived, old>>

\* listen and receive_request: a message whose key is known is a duplicate of
\* that transaction's request.  No copy of a request comes later than
\* EXCHANGE_LIFETIME.
ServerReceiveRequest(r) ==
  LET key == Key(PortOf(r), midOf[r])
      found == table[key]
      new == <<r, runs[r] + 1>> IN
  /\ type[r] # "none" /\ <<r, 1>> \notin old
  /\ arrived' = arrived \cup {r}
  /\ \/ /\ found = None /\ new \in Runs
        /\ runs' = [runs EXCEPT ![r] = @ + 1]
        /\ table' = [table EXCEPT ![key] = new]
        /\ tokens' = [tokens EXCEPT ![PortOf(r)][lower[r]] = new]
        /\ UNCHANGED <<accepted, acks>>
     \/ /\ found # None
        /\ IF type[RequestOf(found)] = "CON" /\ found \notin accepted
           THEN accepted' = accepted \cup {found} /\ acks' = acks \cup {found}
           ELSE UNCHANGED <<accepted, acks>>
        /\ UNCHANGED <<runs, table, tokens>>
  /\ UNCHANGED <<client, serverMid, response, settled, old>>

Running(w) == w[2] <= runs[RequestOf(w)]

\* _send_ack
ServerAck(w) ==
  /\ Running(w) /\ w \notin accepted /\ type[RequestOf(w)] = "CON"
  /\ accepted' = accepted \cup {w} /\ acks' = acks \cup {w}
  /\ UNCHANGED <<client, serverMid, runs, table, tokens, response, settled, arrived, old>>

\* send_response: a piggybacked one has the request's mid, another one a new
\* mid, by which the transaction is found from then on.
ServerRespond(w) ==
  LET r == RequestOf(w)
      piggybacked == type[r] = "CON" /\ w \notin accepted IN
  /\ Running(w) /\ response[w] = NoResponse
  /\ \/ /\ piggybacked
        /\ response' = [response EXCEPT ![w] = [type |-> "ACK", mid |-> midOf[r]]]
        /\ UNCHANGED <<serverMid, table>>
     \/ /\ ~piggybacked
        /\ response' = [response EXCEPT ![w] = [type |-> type[r], mid |-> serverMid]]
        /\ serverMid' = Following(serverMid)
        /\ table' = [table EXCEPT ![Key(PortOf(r), serverMid)] = w]
  /\ accepted' = accepted \cup {w}
  /\ UNCHANGED <<client, runs, tokens, acks, settled, arrived, old>>

\* The mid is that of the request.
WrongConfirmMid(w) == midOf[RequestOf(w)]
\* send_empty for the response.
ConfirmMid(w) == response[w].mid

\* receive_empty for the client's ACK, which has the response's token, too.
ServerReceiveAck(w) ==
  LET r == RequestOf(w)
      byMid == table[Key(PortOf(r), ConfirmMid(w))]
      found == IF byMid # None THEN byMid ELSE tokens[PortOf(r)][lower[r]] IN
  /\ w \in confirmed /\ found # None
  /\ accepted' = accepted \cup {found}
  /\ settled' = IF found \in accepted /\ response[found].type \in {"CON", "NON"}
                THEN settled \cup {found} ELSE settled
  /\ UNCHANGED <<client, serverMid, runs, table, tokens, acks, response, arrived, old>>

\* EXCHANGE_LIFETIME has passed since the run began.
Expire(w) ==
  /\ Running(w) /\ w \notin old
  /\ old' = old \cup {w}
  /\ UNCHANGED <<client, server>>

Next ==
  \/ \E r \in Requests : ServerReceiveRequest(r) \/ \E t \in {"CON", "NON"} : ClientSend(r, t)
  \/ \E w \in Runs : \/ ClientReceiveResponse(w) \/ ClientReceiveAck(w)
                     \/ ServerAck(w) \/ ServerRespond(w) \/ ServerReceiveAck(w) \/ Expire(w)
  \/ ServerPurge

Spec == Init /\ [][Next]_vars

-----------------------------------------------------------------------------
(* Properties.                                                             *)

\* The values of the variables.
TypeOK ==
  /\ lower \in [Requests -> Tokens]
  /\ clientMid \in [Ports -> Mids] /\ serverMid \in Mids
  /\ type \in [Requests -> {"none", "CON", "NON"}] /\ midOf \in [Requests -> Mids]
  /\ clientTable \in [Ports -> [Mids -> Requests \cup {None}]]
  /\ clientTokens \in [Ports -> [Tokens -> Requests \cup {None}]]
  /\ acknowledged \subseteq Requests /\ arrived \subseteq Requests
  /\ got \in [Requests -> Runs \cup {None}]
  /\ runs \in [Requests -> 0..2]
  /\ table \in [Keys -> Runs \cup {None}] 
  /\ tokens \in [Ports -> [Tokens -> Runs \cup {None}]]
  /\ accepted \subseteq Runs /\ acks \subseteq Runs /\ confirmed \subseteq Runs
  /\ settled \subseteq Runs /\ old \subseteq Runs
  /\ response \in [Runs -> [type : {"none", "CON", "NON", "ACK"}, mid : Mids]]

\* The client takes a response made for another request for r's.
MistakenFor(r) == got[r] # None /\ RequestOf(got[r]) # r

\* A response is taken for that of another request only if it is a separate one,
\* and the other a later request whose token differs by case only: an ACK finds its
\* own request, which the client never forgets (messagelayer.py 18-21, 108-118).
MistakenForLaterOnly ==
  \A r \in Requests : MistakenFor(r) =>
    /\ response[got[r]].type # "ACK"
    /\ SameToken(RequestOf(got[r]), r) /\ RequestOf(got[r])[2] < r[2]

\* A request that its client takes for acknowledged, and no longer sends, has been
\* run by the server, or a response to another has been taken for its
\* (messagelayer.py 117-118, 162-165, 286-291).
AcknowledgedWasRun == acknowledged \subseteq {r \in Requests : runs[r] > 0 \/ MistakenFor(r)}

\* A response that the server takes for acknowledged, and no longer sends, has
\* been acknowledged by its client, unless an ACK came after its own entry had been
\* purged and found, by its token in lower case, another run or, by its mid, a later
\* request (messagelayer.py 53-65, 148-167, 252-253).
SettledWasConfirmed ==
  \A w \in settled \ confirmed : \E v \in confirmed \cap old :
    \/ SameToken(RequestOf(v), RequestOf(w))
    \/ PortOf(RequestOf(v)) = PortOf(RequestOf(w)) /\ response[v].mid = midOf[RequestOf(w)]

\* A request is run again only if the server has used its mid for a response to
\* the same client, whose entry took the place of its own (messagelayer.py
\* 82-89, 252-253).
RunAgainOnlyIfReplaced ==
  \A r \in Requests : runs[r] > 1 =>
    \E w \in Runs : /\ response[w].type \in {"CON", "NON"}
                    /\ PortOf(RequestOf(w)) = PortOf(r) /\ response[w].mid = midOf[r]
=============================================================================
