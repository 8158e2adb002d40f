------------------------------ MODULE Transfer ------------------------------
(***************************************************************************)
(* What blockwise transfer promises: a payload is written whole and once,  *)
(* and read whole.  A call may fail, and be told so.                       *)
(***************************************************************************)
EXTENDS Sequences

CONSTANTS Calls,        \* records with op: "GET" or "PUT"
          Initial,      \* the payload at first
          Content(_),   \* the payload of a PUT
          None

VARIABLES written,  \* the payloads that the resource has had, the last one being its own
          result    \* [Calls]: None, or code and payload of the response

Held == {written[i] : i \in DOMAIN written}

Init == written = <<Initial>> /\ result = [c \in Calls |-> None]

Write(c) ==
  /\ c.op = "PUT" /\ Content(c) \notin Held
  /\ written' = Append(written, Content(c))
  /\ UNCHANGED result

Return(c) ==
  /\ result[c] = None
  /\ \/ /\ c.op = "GET"
        /\ \E p \in Held : result' = [result EXCEPT ![c] = [code |-> "CONTENT", payload |-> p]]
     \/ /\ c.op = "PUT" /\ Content(c) \in Held
        /\ result' = [result EXCEPT ![c] = [code |-> "CHANGED", payload |-> <<>>]]
     \/ result' = [result EXCEPT ![c] = [code |-> "INCOMPLETE", payload |-> <<>>]]
  /\ UNCHANGED written

Next == \E c \in Calls : Write(c) \/ Return(c)
Spec == Init /\ [][Next]_<<written, result>>
=============================================================================
