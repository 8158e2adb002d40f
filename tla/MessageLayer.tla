--------------------------- MODULE MessageLayer ---------------------------
(***************************************************************************)
(* The decisions of coapthon/layers/messagelayer.py that depend on nothing *)
(* but the flags of one transaction: which type an answer gets, and what   *)
(* an empty message does to the request and to the response it is matched  *)
(* with.  The modules that model a server or a client apply them to their  *)
(* own state.                                                              *)
(*                                                                         *)
(* The flags acknowledged, rejected and timeouted of a Message are one     *)
(* value here: each setter of messages/message.py that is given True       *)
(* resets the two others, so at most one of them is True at any time.      *)
(***************************************************************************)

Types == {"CON", "NON", "ACK", "RST"}

\* The flag that is True, "open" when none is.
Flags == {"open", "acknowledged", "rejected", "timeouted"}

\* The type send_response gives to an answer that has none yet.
ResponseType(requestType, requestFlag) ==
  CASE requestType = "CON" /\ requestFlag # "acknowledged" -> "ACK"
    [] requestType = "NON"                                 -> "NON"
    [] OTHER                                               -> "CON"

\* The request's flag after receive_empty has handled an empty message.
RequestFlagAfterEmpty(type, requestFlag) ==
  CASE type = "ACK" -> "acknowledged"
    [] type = "CON" -> "acknowledged"
    [] type = "RST" /\ requestFlag # "acknowledged" -> "rejected"
    [] OTHER -> requestFlag

\* The response's flag after it: an empty message is for the response only
\* when the request has been acknowledged before.
ResponseFlagAfterEmpty(type, requestFlag, responseFlag) ==
  IF requestFlag # "acknowledged" \/ responseFlag = "acknowledged" THEN responseFlag
  ELSE CASE type = "ACK" -> "acknowledged" [] type = "RST" -> "rejected" [] OTHER -> responseFlag
=============================================================================
