--------------------------- MODULE MCSubscription ---------------------------
(***************************************************************************)
(* Instances of Subscription for TLC: one observation, beside a    *)
(* call that competes for its token, or alone.                             *)
(***************************************************************************)
EXTENDS Subscription

Call(op, of, n) == [op |-> op, of |-> of, n |-> n]
Watch == Call("observe", None, 1)
Cancel == Call("cancel", Watch, 1)
Get == Call("get", None, 1)

Competing == {Watch, Cancel, Get}
Alone == {Watch, Cancel}
=============================================================================
