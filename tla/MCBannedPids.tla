---------------------------- MODULE MCBannedPids ----------------------------
(* Three numbers that share a bit of the mask, which is what makes taking  *)
(* one of them out hard, and one slot fewer than there are numbers.        *)
EXTENDS BannedPids, TLC

MCBitOf == [p \in Pid |-> 0]
Alike == Permutations(Pid)
=============================================================================
