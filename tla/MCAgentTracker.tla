--------------------------- MODULE MCAgentTracker ---------------------------
(* AgentTracker for TLC.                                                   *)
EXTENDS AgentTracker, TLC

CONSTANTS p1, p2, t1, t2, a1, a2, u1, u2, v1, v2, s1

ClassTenant == (1 :> t1) @@ (2 :> t2)
OwnAgents == (t1 :> a1) @@ (t2 :> a2)
OneAgent == (t1 :> a1) @@ (t2 :> a1)
FirstURLs == (a1 :> u1) @@ (a2 :> u2)
FirstURL == a1 :> u1
Nodes == (1 :> p1) @@ (2 :> p2)
Claimed == (v1 :> 1) @@ (s1 :> 1) @@ (v2 :> 2)
ClaimedBoth == (v1 :> 1) @@ (v2 :> 2)
OfFirst == s1 :> v1
OfNone == [s \in {} |-> s]
=============================================================================
