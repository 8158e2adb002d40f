------------------------- MODULE MCServerExchange -------------------------
(***************************************************************************)
(* Instances of ServerExchange for TLC: one confirmable exchange, and one  *)
(* that neither close() nor the purge disturbs, for the liveness           *)
(* properties.  Exchanges share nothing but the listener and `stopped', so *)
(* one with both of its runs shows what its threads do to each other.      *)
(***************************************************************************)
EXTENDS ServerExchange

\* The environment never closes the server and no entry grows too old.
Undisturbed == ~stopped /\ \A e \in Exchanges : table[e] # "purged"
UndisturbedSpec == Init /\ [][Next /\ Undisturbed']_vars /\ Fairness
=============================================================================
