-------------------------- MODULE MCBuddyAllocator --------------------------
(* Small regions for TLC: sizes that start and end off a block boundary. *)
EXTENDS BuddyAllocator

MCBlockSize == [k \in 0 .. MaxOrder |-> MinBlockSize * 2 ^ k]
=============================================================================
