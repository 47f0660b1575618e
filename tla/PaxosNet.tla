------------------------------ MODULE PaxosNet ------------------------------
(***************************************************************************)
(* Paxos nodes over the weakest network: a message sent may be delivered   *)
(* at any time, any number of times, or never.  What holds here holds on   *)
(* every network, the deterministic engine's included (PaxosEngine).       *)
(***************************************************************************)
EXTENDS Paxos

VARIABLES nodes,  \* what each node holds
          sent    \* every message ever sent

netVars == << nodes, sent >>

NetInit == nodes = [i \in Server |-> NewNode] /\ sent = {}

(* A call of node i that leaves it as p: its buffer is drained. *)
Runs(i, p) ==
    /\ nodes' = [nodes EXCEPT ![i] = [p EXCEPT !.out = {}]]
    /\ sent' = sent \cup p.out

NetPropose(i) == \E v \in Value : Runs(i, Propose(nodes[i], i, v))

NetDeliver(i) == \E m \in sent : m.to = i /\ Runs(i, Step(nodes[i], i, m))

(* Time that passes within a timeout, and a timeout that fires. *)
NetWait(i)  == /\ Waiting(nodes[i])
               /\ \/ Runs(i, [nodes[i] EXCEPT !.elapsed = @ + 1])
                  \/ Runs(i, Propose(nodes[i], i, nodes[i].myVal))

NetNext == \E i \in Server : NetPropose(i) \/ NetDeliver(i) \/ NetWait(i)

NetSpec == NetInit /\ [][NetNext]_netVars

-----------------------------------------------------------------------------
(* Cluster.chosenValues: the proposals that a quorum has accepted. *)
HasAccepted(i, b, v) == \E k \in DOMAIN nodes[i].accepts : nodes[i].accepts[k] = << b, v >>

Chosen(b, v) == IsQuorum({ i \in Server : HasAccepted(i, b, v) })

Proposals == UNION { { nodes[i].accepts[k] : k \in DOMAIN nodes[i].accepts } : i \in Server }

(* checkSingleChoice, "at most one value chosen" (invariants.go:17),       *)
(* across all rounds, proposers and message orders.                        *)
SingleChoice ==
    \A p, q \in Proposals : Chosen(p[1], p[2]) /\ Chosen(q[1], q[2]) => p[2] = q[2]

(* A proposer that reports Decided has a quorum behind it, although        *)
(* acceptors may have moved on to other rounds since.                      *)
DecidedIsChosen ==
    \A i \in Server : nodes[i].phase = "decided" => Chosen(nodes[i].myNum, nodes[i].myVal)
=============================================================================
