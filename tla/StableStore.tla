---------------------------- MODULE StableStore ----------------------------
(***************************************************************************)
(* What storage/raftstore keeps on disk for one node, and what its         *)
(* operations do to it: the hard state and the log of the WAL              *)
(* (storage/raftwal) and the published snapshot (storage/snapshot).        *)
(*                                                                         *)
(* Every operation is given twice: the condition under which the code      *)
(* accepts it before touching the device, and the image it leaves.         *)
(* Operators named Bad... are deliberately wrong variants; see RaftNode.   *)
(***************************************************************************)
EXTENDS RaftLog

HardState == [term : Nat, votedFor : Server \cup {None}, commit : Nat]

Snapshot == [index : Nat, term : Nat, old : SUBSET Server, new : SUBSET Server]

NoSnapshot == [index |-> 0, term |-> 0, old |-> {}, new |-> {}]

Disk == [hard : HardState, base : Nat, baseTerm : Nat, log : Seq(Entry), snap : Snapshot]

EmptyDisk == [hard |-> [term |-> 0, votedFor |-> None, commit |-> 0],
              base |-> 0, baseTerm |-> 0, log |-> << >>, snap |-> NoSnapshot]

(* raftwal.Store.SaveHardState refuses to go back in term or commit, or to *)
(* change a vote within a term.                                            *)
AcceptsHardState(d, h) ==
    /\ h.term >= d.hard.term
    /\ h.commit >= d.hard.commit
    /\ h.term = d.hard.term => d.hard.votedFor \in {None, h.votedFor}

WithHardState(d, h) == [d EXCEPT !.hard = h]

(* raftwal.Store.Append replaces everything from index k on. *)
AcceptsAppend(d, k) == d.base < k /\ k <= LastIndex(d) + 1

(* Wrong: the new entry goes behind a suffix that conflicts with it. *)
BadWithEntry(d, k, e) == [d EXCEPT !.log = Append(@, e)]

WithEntry(d, k, e) == [d EXCEPT !.log = Append(UpTo(d, k - 1), e)]

(* snapshot.Store.Save publishes by rename; an older image is refused. *)
AcceptsSnapshot(d, s) == s.index >= d.snap.index

WithSnapshot(d, s) == [d EXCEPT !.snap = s]

(* raftstore.Store.CompactLog fences the WAL at the published snapshot:    *)
(* raftwal.CompactLog keeps the suffix of a log that agrees with the       *)
(* snapshot, raftwal.ResetBase drops the whole log otherwise.              *)
AgreesWithSnapshot(d) == Present(d, d.snap.index) /\ TermAt(d, d.snap.index) = d.snap.term

AcceptsCompact(d, k) ==
    /\ d.snap.index = k
    /\ IF AgreesWithSnapshot(d) THEN k > d.base ELSE k >= d.base

Compacted(d) ==
    [d EXCEPT !.base = d.snap.index,
              !.baseTerm = d.snap.term,
              !.log = IF AgreesWithSnapshot(d) THEN After(d, d.snap.index) ELSE << >>]

(* raftstore.Open: the images it refuses, and the image it leaves, with a  *)
(* compaction that the crash interrupted completed.                        *)
Openable(d) ==
    /\ d.base <= d.snap.index
    /\ d.snap.index > d.base => d.snap.index <= LastIndex(d)

(* Wrong: the vote of the term is not read back. *)
BadOpened(d) == [d EXCEPT !.hard.votedFor = None]

Opened(d) == IF d.snap.index > d.base THEN Compacted(d) ELSE d
=============================================================================
