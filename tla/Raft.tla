-------------------------------- MODULE Raft --------------------------------
(***************************************************************************)
(* A cluster of Raft nodes, the network between them, and the driver that  *)
(* runs each node: the event loop of package server, or a test driver in   *)
(* the style of packages sim and dst/raftcluster.                          *)
(*                                                                         *)
(* SPEC.md: "Messages may be delayed, duplicated, reordered, or dropped,   *)
(* but not forged."  A message that was sent may be received at any later  *)
(* time, in any order, or never; a message may be received again, up to a  *)
(* bound.  msgs keeps every message ever sent, for the properties that     *)
(* speak of the past.                                                      *)
(***************************************************************************)
EXTENDS RaftNode

CONSTANTS Driver,           \* "server": apply and compact in every turn of the
                            \* event loop; "caller": whenever the caller chooses
          SnapshotEntries,  \* Config.SnapshotEntries of the server, 0 for never
          NewVoterSets,     \* the voter sets offered to ProposeJoint
          Electable,        \* the nodes whose election timeouts fire
          Heartbeats,       \* whether leaders send heartbeats on Tick
          Lost,             \* the types of message that the network always loses
          MaxTimeouts,      \* bounds: election timeouts that fire,
          MaxTransfers,     \* calls of TransferLeadership,
          MaxDuplicates,    \* messages received again,
          MaxTerm,          \* terms,
          MaxProposals,     \* commands that callers propose,
          MaxConfigs,       \* configuration entries that callers propose,
          MaxReads,         \* reads that begin,
          MaxFaults,        \* store calls that fail,
          MaxRestarts,      \* crashes and restarts,
          MaxCompactions    \* compactions that a caller asks for

ASSUME DriverAssumption == Driver \in {"server", "caller"} /\ Heartbeats \in BOOLEAN
ASSUME BoundAssumption ==
    {SnapshotEntries, MaxTimeouts, MaxTransfers, MaxDuplicates, MaxTerm, MaxProposals,
     MaxConfigs, MaxReads, MaxFaults, MaxRestarts, MaxCompactions} \subseteq Nat
ASSUME SetAssumption == NewVoterSets \subseteq SUBSET Server /\ Electable \subseteq Server

VARIABLES node,      \* node[i]: the state of server i, its disk included
          msgs,      \* every message ever sent
          inFlight,  \* the messages sent and not yet received
          readFloor, \* readFloor[c]: highest commit index anywhere when read c began
          used       \* how much of each bound has been used up

vars == << node, msgs, inFlight, readFloor, used >>

Bound == [timeouts |-> MaxTimeouts, transfers |-> MaxTransfers, duplicates |-> MaxDuplicates,
          proposals |-> MaxProposals, configs |-> MaxConfigs, reads |-> MaxReads,
          faults |-> MaxFaults, restarts |-> MaxRestarts, compactions |-> MaxCompactions]

Init ==
    /\ node = [i \in Server |-> NewNodeWithStore(i, EmptyDisk)]
    /\ msgs = {} /\ inFlight = {}
    /\ readFloor = [c \in ReadContext |-> 0]
    /\ used = [b \in DOMAIN Bound |-> 0]

----------------------------------------------------------------------------
(* One turn of a driver: the handler, then the sends, then, in the server, *)
(* the application of what has been committed and the periodic compaction. *)
(* A fate says which store call of the turn fails, if any.                 *)

NoFault == [ops |-> MaxStoreCalls, landed |-> FALSE]

Fates == {NoFault} \cup
         IF used.faults < MaxFaults THEN [ops : 0 .. MaxStoreCalls - 1, landed : BOOLEAN] ELSE {}

Under(n, fate) == [n EXCEPT !.ops = fate.ops, !.landed = fate.landed]

Settle(n) ==
    LET applied == ApplyEntries(n)
    IN  IF Driver = "caller" \/ n.faulted THEN n
        ELSE IF SnapshotEntries # 0 /\ applied.applied - applied.base >= SnapshotEntries
             THEN Compact(applied, applied.applied)
             ELSE applied

(* The node after the turn; what the handler had to send is sent by then. *)
AtRest(n) == [Under(Settle(n), NoFault) EXCEPT !.out = {}]

(* got is the message that the turn takes from the network, if any. *)
TurnOn(i, fate, n, got) ==
    LET rested == AtRest(n)
    IN  /\ fate # NoFault => rested.err = "io"
        /\ node' = [node EXCEPT ![i] = rested]
        /\ msgs' = msgs \cup n.out
        /\ inFlight' = (inFlight \ got) \cup n.out

Turn(i, fate, n) == TurnOn(i, fate, n, {})

(* Use up one unit of each bound in B. *)
Spend(B) ==
    /\ \A b \in B : used[b] < Bound[b]
    /\ used' = [b \in DOMAIN used |-> IF b \in B THEN used[b] + 1 ELSE used[b]]

Faults(fate) == IF fate = NoFault THEN {} ELSE {"faults"}

----------------------------------------------------------------------------
(* Tick of a leader, and Tick of any other node whose timeout expires.  A  *)
(* heartbeat that only repeats messages under way is left out.             *)
Heartbeat(i) ==
    /\ Heartbeats /\ node[i].state = "Leader"
    /\ Turn(i, NoFault, BroadcastAppend(node[i]))
    /\ inFlight' # inFlight
    /\ UNCHANGED << readFloor, used >>

ElectionTimeout(i) ==
    /\ i \in Electable /\ ~node[i].faulted
    /\ node[i].state # "Leader" /\ node[i].term < MaxTerm
    /\ \E fate \in Fates :
          /\ Spend({"timeouts"} \cup Faults(fate))
          /\ Turn(i, fate, StartPreVote(Under(node[i], fate)))
    /\ UNCHANGED readFloor

(* A receipt that changes nothing and sends nothing new is left out: it is *)
(* no different from the message being still on its way.                   *)
Receive(i, m) ==
    /\ ~node[i].faulted /\ m.to = i /\ m.type \notin Lost
    /\ \E fate \in Fates :
          /\ Spend(Faults(fate) \cup IF m \in inFlight THEN {} ELSE {"duplicates"})
          /\ TurnOn(i, fate, Step(Under(node[i], fate), m), {m})
    /\ node' # node \/ ~(inFlight' \subseteq inFlight)
    /\ UNCHANGED readFloor

ClientPropose(i, c) ==
    /\ node[i].state = "Leader"
    /\ \E fate \in Fates :
          /\ Spend({"proposals"} \cup Faults(fate))
          /\ Turn(i, fate, Propose(Under(node[i], fate), c))
    /\ UNCHANGED readFloor

BeginJoint(i, voters) ==
    /\ CanProposeJoint(node[i])
    /\ \E fate \in Fates :
          /\ Spend({"configs"} \cup Faults(fate))
          /\ Turn(i, fate, ProposeJoint(Under(node[i], fate), voters))
    /\ UNCHANGED readFloor

BeginFinal(i) ==
    /\ CanProposeFinal(node[i])
    /\ \E fate \in Fates :
          /\ Spend({"configs"} \cup Faults(fate))
          /\ Turn(i, fate, ProposeFinal(Under(node[i], fate)))
    /\ UNCHANGED readFloor

(* Callers never use a context twice. *)
BeginRead(i, c) ==
    /\ CanStartRead(node[i]) /\ readFloor[c] = 0
    /\ Spend({"reads"})
    /\ Turn(i, NoFault, StartReadIndex(node[i], c))
    /\ readFloor' = [readFloor EXCEPT ![c] = SetMax({node[j].commit : j \in Server})]

Transfer(i, target) ==
    /\ node[i].state = "Leader" /\ node[i].term < MaxTerm
    /\ Spend({"transfers"})
    /\ Turn(i, NoFault, TransferLeadership(node[i], target))
    /\ UNCHANGED readFloor

(* A caller of package raft applies and compacts when its caller says so;  *)
(* application matters only to a compaction that may still come.           *)
ApplyAt(i) ==
    /\ Driver = "caller" /\ ~node[i].faulted /\ node[i].applied < node[i].commit
    /\ used.compactions < MaxCompactions
    /\ Turn(i, NoFault, ApplyEntries(node[i]))
    /\ UNCHANGED << readFloor, used >>

CompactAt(i) ==
    /\ Driver = "caller" /\ ~node[i].faulted /\ node[i].applied > node[i].base
    /\ \E fate \in Fates :
          /\ Spend({"compactions"} \cup Faults(fate))
          /\ Turn(i, fate, Compact(Under(node[i], fate), node[i].applied))
    /\ UNCHANGED readFloor

(* A crash at rest or after a storage fault, and the restart.  server.Open *)
(* applies what the recovered node knows to be committed.                  *)
Restart(i) ==
    LET n == Recovered(i, node[i].disk)
    IN  /\ node' = [node EXCEPT ![i] = IF Driver = "caller" \/ n.faulted THEN n ELSE ApplyEntries(n)]
        /\ Spend({"restarts"})
        /\ UNCHANGED << msgs, inFlight, readFloor >>

Next ==
    \/ \E i \in Server : Heartbeat(i) \/ ElectionTimeout(i) \/ Restart(i)
    \/ \E i \in Server : ApplyAt(i) \/ CompactAt(i) \/ BeginFinal(i)
    \/ \E i \in Server, m \in msgs : Receive(i, m)
    \/ \E i \in Server, c \in Command : ClientPropose(i, c)
    \/ \E i \in Server, voters \in NewVoterSets : BeginJoint(i, voters)
    \/ \E i \in Server, c \in ReadContext : BeginRead(i, c)
    \/ \E i, target \in Server : Transfer(i, target)

Spec == Init /\ [][Next]_vars

(* Once nodes stay up and the network has healed, a leader's ticks keep    *)
(* coming, and a node for which messages are under way receives one: weak  *)
(* fairness of Heartbeat and of Receive, written out with the conditions   *)
(* under which a step that changes something is enabled.                   *)
TickDue(i) == Heartbeats /\ node[i].state = "Leader" /\ ~(BroadcastAppend(node[i]).out \subseteq inFlight)

MailDue(i) == ~node[i].faulted /\ \E m \in inFlight :
                 /\ m.to = i /\ m.type \notin Lost
                 /\ LET n == Step(node[i], m)
                    IN  AtRest(n) # node[i] \/ ~(n.out \subseteq inFlight)

Fairness ==
    \A i \in Server :
        /\ []<>~TickDue(i) \/ []<><<inFlight \subseteq inFlight' /\ Heartbeat(i)>>_vars
        /\ []<>~MailDue(i) \/ []<><<\E m \in inFlight \ inFlight' : Receive(i, m)>>_vars
=============================================================================
