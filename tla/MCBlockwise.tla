---------------------------- MODULE MCBlockwise ----------------------------
(***************************************************************************)
(* Instances of Blockwise for TLC.                                         *)
(***************************************************************************)
EXTENDS Blockwise

Get(block) == [op |-> "GET", length |-> 0, block |-> block]
Put(length, block) == [op |-> "PUT", length |-> length, block |-> block]

Unasked == Get(None)
Small == Get(Block(0, FALSE, 1))
Two == Put(4, None)
Three == Put(5, None)
One == Put(1, None)
Skipped == Put(2, Block(1, TRUE, 1))

\* Downloads in blocks of the server's size and of the user's; uploads of one, two
\* and three blocks, and one that begins with its second block.
AllCalls == {Unasked, Small, One, Two, Three, Skipped}
UploadPairs == {Two, Three} \X {Two, Three}
Repeated == {Unasked, Small, Two}
=============================================================================
