----------------------------- MODULE MCObserve -----------------------------
(***************************************************************************)
(* Instances of Observe for TLC.                                           *)
(***************************************************************************)
EXTENDS Observe

Request(op, c, n) == [op |-> op, client |-> c, n |-> n]

\* Two observers, one of which cancels, and a change.
CONSTANTS a, b
Regular == {Request("observe", a, 1), Request("observe", b, 1), Request("cancel", b, 1),
            Request("PUT", a, 1)}
\* Two observers that register while the resource changes.
Crossing == {Request("observe", a, 1), Request("observe", b, 1), Request("PUT", a, 1)}
=============================================================================
