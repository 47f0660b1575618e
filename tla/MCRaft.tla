------------------------------- MODULE MCRaft -------------------------------
(***************************************************************************)
(* Small instances of the Raft cluster for TLC, from the empty cluster or  *)
(* from the scenarios of MCScenarios.                                      *)
(***************************************************************************)
EXTENDS RaftProperties, MCScenarios

CONSTANTS x, r1

Symmetric == Permutations(Nodes3)

Steps == [][Next]_vars

(* Elections from the empty cluster, and one more when logs have diverged. *)
(* The nodes of the second start may be renamed like those of the first.   *)
SpecElection == (Init \/ From({<< Revived, << >> >>})) /\ Steps

(* Replication, elections and reads, each with what makes it hard. *)
SpecCluster ==
    From({<< Led, [proposals |-> 1, duplicates |-> 1, faults |-> 1, restarts |-> 1] >>,
          << Cut(x), [timeouts |-> 1, restarts |-> 1] >>,
          << Forgotten(x), [timeouts |-> 2] >>,
          << Overtaken(x), [reads |-> 1] >>,
          << Deposed(x) \o << Beat(n2) >>, [faults |-> 1, restarts |-> 1] >>}) /\ Steps

(* Compaction and configuration changes with crashes, each alone and both  *)
(* together, and a lagging node caught up by snapshots.                    *)
SpecReconfigure ==
    From({<< Led, [proposals |-> 1, compactions |-> 1, faults |-> 1, restarts |-> 1] >>,
          << Behind(x), [proposals |-> 1, compactions |-> 2] >>,
          << Behind(x) \o << Compaction(n1), Beat(n1) >>, [faults |-> 1, restarts |-> 1] >>,
          << Led, [configs |-> 2, faults |-> 1, restarts |-> 1] >>,
          << Led, [configs |-> 1, compactions |-> 1, restarts |-> 1] >>,
          << Deposed(x) \o << Beat(n2) >>, [faults |-> 1, restarts |-> 1] >>,
          << Unaware, [configs |-> 1, compactions |-> 1, restarts |-> 1] >>,
          << Resumed, [faults |-> 1, restarts |-> 1] >>}) /\ Steps

(* Leadership handed over, a deposed leader that comes back, with a longer *)
(* log, too, and a follower caught up across a compaction.                 *)
SpecHandover ==
    From({<< Lagging(x), [transfers |-> 1] >>, << Deposed(x), << >> >>, << Outrun(x), << >> >>,
          << Overgrown(x), [proposals |-> 1] >>,
          << Snapshotted(x), << >> >>, << CompactedFollower(x), << >> >>})
    /\ Steps /\ Fairness

SpecShrunk == From({<< CompactedThenShrunk(x), Bound >>}) /\ Steps
=============================================================================
