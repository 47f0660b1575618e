------------------------------ MODULE MCPaxos ------------------------------
(* TLC instance of PaxosEngine: three nodes, two competing clients.        *)
EXTENDS PaxosEngine

CONSTANTS v1, v2

NoFault == During(0, 0, {})

(* A late competitor, a lost message, a node whose traffic is discarded    *)
(* once, a partition that heals, a node that is unreachable for a while,   *)
(* and a link that fails in one direction.                                 *)
SixPlans ==
    { Plan(NoFault, 0, 0, 1), Plan(NoFault, 1, 0, 0), Plan(NoFault, 0, 1, 0),
      Plan(During(0, 2, Split({1}, {2, 3})), 0, 0, 0), Plan(During(0, MaxNow, Link(1, 2)), 0, 0, 0),
      Plan(During(1, 3, Severed({3}, Server)), 0, 0, 0) }

TwoClients == { << 1, v1 >>, << 3, v2 >> }
=============================================================================
