------------------------------ MODULE RaftLog ------------------------------
(***************************************************************************)
(* The compacted log of package raft, as absolute indexes over a base.     *)
(*                                                                         *)
(* The code keeps a slice whose element 0 stands for the compacted base.   *)
(* Here a log holder x is any record with the fields base, baseTerm and    *)
(* log, where log is the sequence of the entries AFTER the base.  A node   *)
(* (RaftNode) and its durable image (StableStore) are both log holders.    *)
(***************************************************************************)
EXTENDS Integers, Sequences

CONSTANTS Server,   \* node IDs
          Command,  \* opaque client commands
          None      \* node ID 0, command 0: "nobody", "nothing"

ASSUME NoneAssumption == None \notin Server /\ None \notin Command

Max2(a, b) == IF a > b THEN a ELSE b
Min2(a, b) == IF a < b THEN a ELSE b

EntryKind == {"normal", "joint", "final", "noop"}

Entry == [term : Nat, kind : EntryKind, cmd : Command \cup {None},
          old : SUBSET Server, new : SUBSET Server]

NormalEntry(t, c)     == [term |-> t, kind |-> "normal", cmd |-> c, old |-> {}, new |-> {}]
NoopEntry(t)          == [term |-> t, kind |-> "noop", cmd |-> None, old |-> {}, new |-> {}]
JointEntry(t, vo, vn) == [term |-> t, kind |-> "joint", cmd |-> None, old |-> vo, new |-> vn]
FinalEntry(t, v)      == [term |-> t, kind |-> "final", cmd |-> None, old |-> v, new |-> {}]

IsConfig(e) == e.kind \in {"joint", "final"}

LastIndex(x) == x.base + Len(x.log)

(* offset: is the absolute index k held by x, the base included? *)
Present(x, k) == x.base <= k /\ k <= LastIndex(x)

TermAt(x, k) == IF k = x.base THEN x.baseTerm ELSE x.log[k - x.base].term

EntryAt(x, k) == x.log[k - x.base]

LastTerm(x) == TermAt(x, LastIndex(x))

(* The entries of x up to index k, and the entries of x after index k. *)
UpTo(x, k)  == SubSeq(x.log, 1, k - x.base)
After(x, k) == SubSeq(x.log, k - x.base + 1, Len(x.log))
=============================================================================
