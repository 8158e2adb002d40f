------------------------ MODULE MCMessageMatching ------------------------
(***************************************************************************)
(* Instances of MessageMatching for TLC.                                   *)
(***************************************************************************)
EXTENDS MessageMatching
=============================================================================
