---------------------------- MODULE MCGatewayHosts ----------------------------
(* GatewayHosts for TLC: one host, at most one snapshot of it. *)
EXTENDS GatewayHosts, TLC

CONSTANTS h1, s1, t1, t2

TaskSymmetry == Permutations(Tasks)

===============================================================================
