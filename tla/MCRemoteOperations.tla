------------------------ MODULE MCRemoteOperations ------------------------
(* RemoteOperations for TLC: a sandbox and an execution, two lanes. *)
EXTENDS RemoteOperations, TLC

CONSTANTS o1, o2, l1, l2

LaneSymmetry == Permutations(Lanes)

=============================================================================
