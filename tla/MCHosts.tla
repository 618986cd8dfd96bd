------------------------------ MODULE MCHosts ------------------------------
(***************************************************************************)
(* The parts that create, drive and reach execution hosts, for TLC: the    *)
(* gateway's E2B hosts, the runtime's remote operations, the gateway's     *)
(* registered hosts and the E2B client.  They share no state: a behaviour  *)
(* runs one of them, the others stay as they are initially.  The           *)
(* properties are those of the components.                                 *)
(***************************************************************************)
EXTENDS GatewayHosts, RemoteOperations, RegisteredHosts, E2bClient, TLC

CONSTANTS h1, s1, t1, t2, o1, o2, l1, l2

VARIABLE part

HostsInit ==
    /\ part \in {"gateway", "remote", "registered", "e2b"}
    /\ Init
    /\ RemoteInit
    /\ RegInit
    /\ IF part = "e2b" THEN E2bInit ELSE E2bStart(TRUE, "dead", [q \in Requests |-> "verify"])

HostsNext ==
    \/ /\ part = "gateway" /\ Next
       /\ UNCHANGED <<remoteState, regVars, e2bVars, part>>
    \/ /\ part = "remote" /\ RemoteNext
       /\ UNCHANGED <<vars, regVars, e2bVars, part>>
    \/ /\ part = "registered" /\ RegNext
       /\ UNCHANGED <<vars, remoteState, e2bVars, part>>
    \/ /\ part = "e2b" /\ E2bNext
       /\ UNCHANGED <<vars, remoteState, regVars, part>>

hostsVars == <<vars, remoteState, regVars, e2bVars, part>>

HostsSpec == HostsInit /\ [][HostsNext]_hostsVars

\* Tasks and lanes are interchangeable.
HostsSymmetry == Permutations(Tasks) \cup Permutations(Lanes)
=============================================================================
