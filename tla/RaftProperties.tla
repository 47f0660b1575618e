--------------------------- MODULE RaftProperties ---------------------------
(***************************************************************************)
(* What the Raft core promises: the safety claims of SPEC.md and of the    *)
(* tests, stated over the nodes, their disks and every message ever sent.  *)
(***************************************************************************)
EXTENDS Raft

NodeState ==
    [id : Server, peers : SUBSET Server, state : Role, term : Nat,
     votedFor : Server \cup {None}, leader : Server \cup {None},
     log : Seq(Entry), base : Nat, baseTerm : Nat, commit : Nat, applied : Nat,
     voteMask : SUBSET Server, preVoteMask : SUBSET Server, preVoteTerm : Nat,
     next : [Server -> Nat], match : [Server -> Nat],
     readContext : ReadContext \cup {None}, readAckMask : SUBSET Server,
     readIndex : Nat, readReady : BOOLEAN, snap : Snapshot,
     votersOld : SUBSET Server, votersNew : SUBSET Server, pendingConfig : Nat,
     faulted : BOOLEAN, err : Reason, disk : Disk,
     out : {{}}, ops : {MaxStoreCalls}, landed : {FALSE}]

VoteRequest  == [type : {"PreVote", "RequestVote"}, from : Server, to : Server, term : Nat,
                 logIndex : Nat, logTerm : Nat]
VoteResponse == [type : {"PreVoteResponse", "RequestVoteResponse"}, from : Server, to : Server,
                 term : Nat, reject : BOOLEAN]
AppendRequest == [type : {"Append"}, from : Server, to : Server, term : Nat, logIndex : Nat,
                  logTerm : Nat, entries : Seq(Entry), commit : Nat,
                  context : ReadContext \cup {None}]
AppendResponse == [type : {"AppendResponse"}, from : Server, to : Server, term : Nat,
                   reject : BOOLEAN, match : Nat, context : ReadContext \cup {None}]
SnapshotRequest == [type : {"InstallSnapshot"}, from : Server, to : Server, term : Nat,
                    snap : Snapshot]
SnapshotResponse == [type : {"InstallSnapshotResponse"}, from : Server, to : Server, term : Nat,
                     reject : BOOLEAN, match : Nat]
TransferRequest == [type : {"TimeoutNow"}, from : Server, to : Server, term : Nat]

Message == VoteRequest \cup VoteResponse \cup AppendRequest \cup AppendResponse
             \cup SnapshotRequest \cup SnapshotResponse \cup TransferRequest

(* Every node and every message has the shape of its Go struct.         *)
TypeOK ==
    /\ node \in [Server -> NodeState]
    /\ \A m \in msgs : m \in Message /\ (m.type = "Append" => Len(m.entries) <= 1)
    /\ inFlight \subseteq msgs
    /\ readFloor \in [ReadContext -> Nat]
    /\ used \in [DOMAIN Bound -> Nat]

Running == {i \in Server : ~node[i].faulted}

----------------------------------------------------------------------------
(* The entry with absolute index k in the log of x, if x still holds it.   *)
Holds(x, k) == x.base < k /\ k <= LastIndex(x)

(* The messages that cast a vote: a candidate votes for itself by asking   *)
(* for the votes of the others.                                            *)
IsVote(m) == m.type = "RequestVote" \/ (m.type = "RequestVoteResponse" /\ ~m.reject)

VotedFor(v) == IF v.type = "RequestVote" THEN v.from ELSE v.to

(* The hard state h remembers that the vote v was cast; it has developed   *)
(* into g without going back or changing a vote within a term.             *)
Durable(h, v) == h.term > v.term \/ (h.term = v.term /\ h.votedFor = VotedFor(v))
Grows(h, g)   == /\ g.term >= h.term /\ g.commit >= h.commit
                 /\ g.term = h.term => h.votedFor \in {None, g.votedFor}

LeaderTypes == {"Append", "InstallSnapshot", "TimeoutNow"}

(* Election safety, over the whole history: no two nodes ever speak as the *)
(* leader of one term, whatever crashed in between, because startElection  *)
(* and onVote persist the vote before they send it.                        *)
ElectionSafety ==
    \A m1, m2 \in {m \in msgs : m.type \in LeaderTypes} : m1.term = m2.term => m1.from = m2.from

(* SPEC.md "Persist(term, vote) happens-before Send(VoteGranted)": a vote  *)
(* that was ever cast is on the voter's disk or superseded by a higher     *)
(* term there, through every crash and failed write.                       *)
VoteDurable ==
    \A v \in {m \in msgs : IsVote(m)} : Durable(node[v.from].disk.hard, v)

(* A node votes for one candidate in a term, itself included, over the     *)
(* whole history: a crash between storing the vote and sending it, or a    *)
(* recovery from the disk, never lets it vote again.                       *)
OneVotePerTerm ==
    \A v, w \in {m \in msgs : IsVote(m)} :
        v.from = w.from /\ v.term = w.term => VotedFor(v) = VotedFor(w)

(* SPEC.md "Persist(log[index]) happens-before Send(AppendAccepted(index))":
   what a follower acknowledged to a leader is on its disk, equal to what
   that leader holds, as long as neither has moved to a later term. *)
AckDurable ==
    \A m \in {m \in msgs : m.type = "AppendResponse" /\ ~m.reject} :
        LET disk == node[m.from].disk
            lead == node[m.to]
        IN  lead.state = "Leader" /\ lead.term = m.term /\ disk.hard.term = m.term =>
                /\ m.match <= Max2(LastIndex(disk), disk.snap.index)
                /\ \A k \in 1 .. m.match :
                       Holds(disk, k) /\ Holds(lead, k) => EntryAt(disk, k) = EntryAt(lead, k)

(* Log matching: two running nodes that hold entries of the same term at   *)
(* one index hold equal entries there and at every earlier index.          *)
LogMatching ==
    \A i, j \in Running : \A k \in 1 .. Min2(LastIndex(node[i]), LastIndex(node[j])) :
        Holds(node[i], k) /\ Holds(node[j], k) /\ TermAt(node[i], k) = TermAt(node[j], k) =>
            \A l \in 1 .. k : Holds(node[i], l) /\ Holds(node[j], l) =>
                EntryAt(node[i], l) = EntryAt(node[j], l)

(* State machine safety: two running nodes agree on every entry that both  *)
(* consider committed, and on the term at the base of a compacted log.     *)
StateMachineSafety ==
    \A i, j \in Running : \A k \in 1 .. Min2(node[i].commit, node[j].commit) :
        /\ Present(node[i], k) /\ Present(node[j], k) => TermAt(node[i], k) = TermAt(node[j], k)
        /\ Holds(node[i], k) /\ Holds(node[j], k) => EntryAt(node[i], k) = EntryAt(node[j], k)

(* Leader completeness: a leader holds, or has compacted, every entry that *)
(* a node of its term or an earlier one considers committed.               *)
LeaderCompleteness ==
    \A i, j \in Running :
        node[i].state = "Leader" /\ node[j].term <= node[i].term =>
            /\ node[j].commit <= LastIndex(node[i])
            /\ \A k \in 1 .. node[j].commit :
                   Present(node[i], k) /\ Present(node[j], k) => TermAt(node[i], k) = TermAt(node[j], k)

(* SPEC.md, membership: two running nodes with the same commit index are   *)
(* under the same committed configuration, however they came to it: by     *)
(* committing entries, by installing a snapshot or by recovering.          *)
CommittedConfigAgreement ==
    \A i, j \in Running : node[i].commit = node[j].commit =>
        node[i].votersOld = node[j].votersOld /\ node[i].votersNew = node[j].votersNew

(* ProposeFinal "appends C_new after the joint entry has committed": once  *)
(* the joint configuration is committed and no other configuration entry   *)
(* is in the log, nothing is pending: as leader the node may propose the   *)
(* final entry, as follower it accepts it.  There are two exceptions: a    *)
(* node that installed a snapshot over its pending entry still has that    *)
(* one pending, and a single voter that proposes itself again commits the  *)
(* joint entry before it notes it as pending (node.go:495).                *)
JointCommittedOpensFinal ==
    \A i \in Running : LET n == node[i] IN
        /\ n.votersNew # {} /\ n.votersOld \cup n.votersNew # {i}
        /\ ConfigIndexes(n, n.commit + 1, LastIndex(n)) = {}
        => n.pendingConfig = 0 \/ n.pendingConfig \in 1 .. n.snap.index

(* Linearizable reads: the index ReadIndex answers with is at least every  *)
(* commit index that any node knew when StartReadIndex opened the barrier. *)
ReadFreshness ==
    \A i \in Running, c \in ReadContext :
        ReadReady(node[i], c) => node[i].readIndex >= readFloor[c]

(* SPEC.md "an isolated minority can retry pre-vote indefinitely without   *)
(* increasing the term": somebody speaks for a term only after a majority  *)
(* granted it a pre-vote for that term, or a leader of the term before     *)
(* handed over to it.                                                      *)
NoTermWithoutQuorum ==
    \A m \in {m \in msgs : m.type = "RequestVote"} :
        \/ Majority(InitVoters, {m.from} \cup
             {g.from : g \in {g \in msgs : /\ g.type = "PreVoteResponse" /\ ~g.reject
                                           /\ g.to = m.from /\ g.term = m.term}})
        \/ \E t \in msgs : t.type = "TimeoutNow" /\ t.to = m.from /\ t.term = m.term - 1

(* The store never refuses what a handler asks of it: every hard state, log *)
(* index, snapshot and compaction index that the handlers compute, in any  *)
(* order of messages and crashes, is one that the store accepts.           *)
StoreContractKept == \A i \in Server : node[i].err # "contract"

(* Three images that a restart refuses, although the node did nothing but  *)
(* crash.  The snapshot came from a leader and lies beyond the log: Open   *)
(* does not complete what onInstallSnapshot left behind (store.go:43).     *)
InstallCutShort(i) ==
    LET d == node[i].disk
    IN  /\ LastIndex(d) < d.snap.index
        /\ \E m \in msgs : m.type = "InstallSnapshot" /\ m.to = i /\ m.snap = d.snap

(* A compaction below the commit index stored the voters in force, which   *)
(* are those of a configuration entry above it (node.go:222).              *)
VotersAhead(d) ==
    \E k \in ConfigIndexes(d, d.base + 1, d.hard.commit) :
        VotersAfter(EntryAt(d, k)) = [old |-> d.snap.old, new |-> d.snap.new]

(* A later leader sent a configuration entry that replaced another entry,  *)
(* which validNewEntry does not look at (node.go:370), and the crash came  *)
(* before the commit index that settles the one before it was stored.      *)
ConfigOverConflict(d) ==
    \E j, k \in ConfigIndexes(d, d.hard.commit + 1, LastIndex(d)) :
        j < k /\ TermAt(d, k) < d.hard.term

(* raftstore.Open: a "crash after the snapshot rename but before the WAL   *)
(* compaction fence is completed here".  With these exceptions, no crash   *)
(* and no failed store call leaves an image that Open refuses, and what    *)
(* Open accepts is a log that recovery accepts: commit index, voters and   *)
(* configuration entries fit together.                                     *)
RecoverySucceeds ==
    \A i \in Server :
        /\ node[i].err = "open" => InstallCutShort(i)
        /\ node[i].err = "recover" => VotersAhead(node[i].disk) \/ ConfigOverConflict(node[i].disk)

(* While a node runs, its disk holds its term, its vote and its log, and   *)
(* recovering from the disk would find its commit index again.             *)
DiskMirrorsNode ==
    \A i \in Running :
        LET n == node[i] IN
        /\ n.disk.hard.term = n.term /\ n.disk.hard.votedFor = n.votedFor
        /\ n.disk.base = n.base /\ n.disk.log = n.log /\ n.disk.snap = n.snap
        /\ n.commit = Max2(n.disk.hard.commit, n.disk.snap.index)

----------------------------------------------------------------------------
(* No step, a crash and recovery included, takes back a commit index, or   *)
(* loses or changes an entry below it other than by compaction: onAppend   *)
(* never truncates committed entries.                                      *)
CommittedIsForever ==
    [][\A i \in Server : ~node'[i].faulted =>
          /\ node'[i].commit >= node[i].commit
          /\ \A k \in 1 .. node[i].commit :
                 Holds(node[i], k) /\ k > node'[i].base =>
                     Holds(node'[i], k) /\ EntryAt(node'[i], k) = EntryAt(node[i], k)]_vars

----------------------------------------------------------------------------
(* TransferLeadership "asks an up-to-date voter to start an immediate     *)
(* election": with fair links and no other election or proposal, whoever   *)
(* is asked becomes leader.                                                *)
TransferHandsOver ==
    \A i \in Server :
        (\E m \in msgs : m.type = "TimeoutNow" /\ m.to = i) ~> (node[i].state = "Leader")

(* Whom the leader l may never catch up.  A rejection that names an index  *)
(* beyond l's log is dropped as out of range (node.go:425): a node with a  *)
(* longer log has to wait until that of l has grown.  A late rejection     *)
(* takes next back to what the node has compacted: l then sends it a       *)
(* snapshot that it has, which does not move next (node.go:278), or        *)
(* probes below its base for ever.                                         *)
Overlong(l) == {i \in Running : LastIndex(node[i]) > LastIndex(node[l])}
Outpaced(l) == {i \in Running \ {l} : node[l].next[i] <= node[i].base}

(* Once a leader is stable and the links are fair, who runs follows it     *)
(* for good, with the leader's log and its commit index: SPEC.md "On       *)
(* conflict, the follower deletes the conflicting suffix", partition_test  *)
(* "After the window closes the isolated node must rejoin".  The stranded  *)
(* nodes are excepted, without whom the leader may lack the quorum to      *)
(* commit.                                                                 *)
FollowersCatchUp ==
    <>[](\E l \in Server : LET stranded == Overlong(l) \cup Outpaced(l) IN
            /\ node[l].state = "Leader"
            /\ \A i \in Running \ stranded :
                  /\ node[i].leader = l
                  /\ LastIndex(node[i]) = LastIndex(node[l]) /\ LastTerm(node[i]) = LastTerm(node[l])
                  /\ node[i].commit = LastIndex(node[l]) \/ stranded # {})
=============================================================================
