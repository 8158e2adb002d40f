------------------------- MODULE MCClientExchange -------------------------
(***************************************************************************)
(* Instances of ClientExchange for TLC: one call answered in one message,  *)
(* one answered in two blocks on a client that nobody stops, and two calls *)
(* at once.                                                                *)
(***************************************************************************)
EXTENDS ClientExchange

\* Without stop(), and with answers only.
TransferNext ==
  \/ System
  \/ \E r \in Requests : UserRegister(r)
  \/ \E v \in Receivers, t, u \in Transactions : ReceiveResponse(v, t, u)
TransferSpec == Init /\ [][TransferNext]_vars
=============================================================================
