---------------------------- MODULE AtomicStore ----------------------------
(***************************************************************************)
(* What raftstore.Store promises a Raft node, without WAL, devices, temp   *)
(* files or renames: one durable image that a call replaces in one step.   *)
(* A call that returns nil has taken effect.  A call that fails, or that a *)
(* crash cuts off, takes effect at the crash or never.  Open gives back    *)
(* the image, with an interrupted compaction completed.                    *)
(***************************************************************************)
EXTENDS StableStore

VARIABLES disk,   \* the durable image, a member of Disk
          stage,  \* "ready", "busy", "failed" (fail-stop) or "down"
          op      \* the call in progress while busy or failed

vars == << disk, stage, op >>

NoCall == [type |-> "none"]

(* The calls of raft.Node on its StableStore and SnapshotStore. *)
HardCall(h)      == [type |-> "hard", hard |-> h]
AppendCall(k, e) == [type |-> "append", index |-> k, entry |-> e]
SnapshotCall(s)  == [type |-> "snapshot", snap |-> s]
CompactCall(k)   == [type |-> "compact", index |-> k]

Effect(d, o) ==
    CASE o.type = "hard"     -> WithHardState(d, o.hard)
      [] o.type = "append"   -> WithEntry(d, o.index, o.entry)
      [] o.type = "snapshot" -> WithSnapshot(d, o.snap)
      [] o.type = "compact"  -> Compacted(d)

Accepts(d, o) ==
    CASE o.type = "hard"     -> AcceptsHardState(d, o.hard)
      [] o.type = "append"   -> AcceptsAppend(d, o.index)
      [] o.type = "snapshot" -> AcceptsSnapshot(d, o.snap)
      [] o.type = "compact"  -> AcceptsCompact(d, o.index)

Init == disk \in Disk /\ stage = "down" /\ op = NoCall

Call == /\ stage = "ready" /\ stage' = "busy"
        /\ Accepts(disk, op')
        /\ UNCHANGED disk

Return == /\ stage = "busy" /\ stage' = "ready"
          /\ disk' = Effect(disk, op)
          /\ op' = NoCall

Fail == stage = "busy" /\ stage' = "failed" /\ UNCHANGED << disk, op >>

Crash == /\ stage' = "down" /\ op' = NoCall
         /\ \/ UNCHANGED disk
            \/ stage \in {"busy", "failed"} /\ disk' = Effect(disk, op)

Open == /\ stage = "down" /\ stage' = "ready"
        /\ Openable(disk) /\ disk' = Opened(disk)
        /\ UNCHANGED op

(* Open completed the compaction and crashed before it returned. *)
Complete == /\ stage = "down" /\ Openable(disk)
            /\ disk' = Opened(disk)
            /\ UNCHANGED << stage, op >>

Next == Call \/ Return \/ Fail \/ Crash \/ Open \/ Complete

Spec == Init /\ [][Next]_vars
=============================================================================
