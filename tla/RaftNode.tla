------------------------------ MODULE RaftNode ------------------------------
(***************************************************************************)
(* One Raft node: package raft, node.go and recover.go.                    *)
(*                                                                         *)
(* The code is a single-threaded state machine: a handler runs to its end  *)
(* on the node's own state and leaves messages in an outbound buffer.  So  *)
(* a handler is an operator from the node record before it to the node     *)
(* record after it, with the operators it calls named as in the code.      *)
(*                                                                         *)
(* Besides the fields of the Go struct a node record holds its durable     *)
(* image (disk), the messages the running handler has sent (out), why it   *)
(* fail-stopped (err), and the fate of the store calls of the running      *)
(* handler: the first `ops` succeed, the next one reports an error, and    *)
(* `landed` says whether that failed write reached the disk all the same.  *)
(* An error is also what a crash between two store calls looks like.       *)
(*                                                                         *)
(* Timers: elapsed and timeout are abstracted.  Outside Tick a follower    *)
(* always has elapsed < timeout, and a leader has elapsed < 3, so with     *)
(* the election timeouts the repository uses (at least 10 ticks) the       *)
(* leaderActive test of onPreVote is "a leader is known".                  *)
(*                                                                         *)
(* An operator whose name starts with Bad is a deliberately wrong variant  *)
(* of the one after it and is used nowhere: it stands for a mistake that   *)
(* the properties must be able to see.                                     *)
(***************************************************************************)
EXTENDS StableStore, FiniteSets

CONSTANTS ReadContext,  \* contexts callers of StartReadIndex pass
          InitVoters    \* the voters in every node's start configuration

ASSUME ContextAssumption == None \notin ReadContext
ASSUME VotersAssumption  == InitVoters \subseteq Server /\ IsFiniteSet(Server)

(* No turn of a driver makes more store calls: at most three in a handler  *)
(* and two in the compaction that may follow it.                           *)
MaxStoreCalls == 5

Role == {"Follower", "Candidate", "Leader"}
Reason == {"none", "io", "contract", "recover", "open"}

----------------------------------------------------------------------------
(* Messages; the field entries holds the one entry of HasEntry, or none.   *)

PreVoteMsg(n, p) == [type |-> "PreVote", from |-> n.id, to |-> p, term |-> n.preVoteTerm,
                     logIndex |-> LastIndex(n), logTerm |-> LastTerm(n)]

RequestVoteMsg(n, p) == [type |-> "RequestVote", from |-> n.id, to |-> p, term |-> n.term,
                         logIndex |-> LastIndex(n), logTerm |-> LastTerm(n)]

TimeoutNowMsg(n, p) == [type |-> "TimeoutNow", from |-> n.id, to |-> p, term |-> n.term]

PreVoteReply(n, m, reject) == [type |-> "PreVoteResponse", from |-> n.id, to |-> m.from,
                               term |-> m.term, reject |-> reject]

VoteReply(n, m, reject) == [type |-> "RequestVoteResponse", from |-> n.id, to |-> m.from,
                            term |-> n.term, reject |-> reject]

AppendReply(n, m, reject, match) ==
    [type |-> "AppendResponse", from |-> n.id, to |-> m.from, term |-> n.term,
     reject |-> reject, match |-> match, context |-> m.context]

SnapshotReply(n, m, reject) ==
    [type |-> "InstallSnapshotResponse", from |-> n.id, to |-> m.from, term |-> n.term,
     reject |-> reject, match |-> n.base]

(* Wrong: all the entries that the peer lacks at once. *)
BadAppendMsg(n, p, context) ==
    [type |-> "Append", from |-> n.id, to |-> p, term |-> n.term,
     logIndex |-> Min2(n.next[p], LastIndex(n) + 1) - 1,
     logTerm |-> TermAt(n, Min2(n.next[p], LastIndex(n) + 1) - 1),
     entries |-> After(n, Min2(n.next[p], LastIndex(n) + 1) - 1),
     commit |-> n.commit, context |-> context]

(* appendToContext: a peer whose next index is compacted gets the          *)
(* snapshot, without the read context; any other gets at most one entry.   *)
AppendMsg(n, p, context) ==
    LET next == Max2(1, Min2(n.next[p], LastIndex(n) + 1))
    IN  IF n.next[p] <= n.base
        THEN [type |-> "InstallSnapshot", from |-> n.id, to |-> p, term |-> n.term,
              snap |-> n.snap]
        ELSE [type |-> "Append", from |-> n.id, to |-> p, term |-> n.term,
              logIndex |-> next - 1, logTerm |-> TermAt(n, next - 1),
              entries |-> IF next <= LastIndex(n) THEN << EntryAt(n, next) >> ELSE << >>,
              commit |-> n.commit, context |-> context]

Send(n, ms) == [n EXCEPT !.out = @ \cup ms]

AppendToAll(n, peers, context) ==
    Send([n EXCEPT !.next = [p \in Server |-> IF p \in peers THEN Min2(@[p], LastIndex(n) + 1)
                                                             ELSE @[p]]],
         {AppendMsg(n, p, context) : p \in peers})

AppendTo(n, p) == AppendToAll(n, {p}, None)

----------------------------------------------------------------------------
(* The store boundary: a refused or failed call fail-stops the node and    *)
(* drops what it was about to send.                                        *)

FailStorage(n, why) ==
    [n EXCEPT !.faulted = TRUE, !.err = why, !.state = "Follower", !.leader = None, !.out = {}]

StoreCall(n, accepts, image) ==
    IF ~accepts THEN FailStorage(n, "contract")
    ELSE IF n.ops = 0
         THEN FailStorage([n EXCEPT !.disk = IF n.landed THEN image ELSE @], "io")
         ELSE [n EXCEPT !.disk = image, !.ops = @ - 1]

PersistHardState(n, term, votedFor, commit) ==
    LET h == [term |-> term, votedFor |-> votedFor, commit |-> commit]
    IN  StoreCall(n, AcceptsHardState(n.disk, h), WithHardState(n.disk, h))

PersistEntry(n, k, e) == StoreCall(n, AcceptsAppend(n.disk, k), WithEntry(n.disk, k, e))

(* Wrong: the log is fenced before the snapshot is published. *)
BadPersistSnapshot(n, s) ==
    LET fence  == [Compacted(WithSnapshot(n.disk, s)) EXCEPT !.snap = n.disk.snap]
        fenced == StoreCall(n, TRUE, fence)
    IN  IF fenced.faulted THEN fenced ELSE StoreCall(fenced, TRUE, WithSnapshot(fence, s))

(* SaveSnapshot followed by CompactLog, as Compact and onInstallSnapshot   *)
(* do.                                                                     *)
PersistSnapshot(n, s) ==
    LET saved == StoreCall(n, AcceptsSnapshot(n.disk, s), WithSnapshot(n.disk, s))
    IN  IF saved.faulted THEN saved
        ELSE StoreCall(saved, AcceptsCompact(saved.disk, s.index), Compacted(saved.disk))

----------------------------------------------------------------------------
(* Configurations and quorums                                              *)

SetMax(S) == CHOOSE k \in S : \A j \in S : j <= k

(* Wrong: half of the voters are enough. *)
BadMajority(voters, acked) ==
    voters # {} /\ Cardinality(voters \cap acked) >= Cardinality(voters) \div 2

Majority(voters, acked) ==
    voters # {} /\ Cardinality(voters \cap acked) >= Cardinality(voters) \div 2 + 1

(* The voters once the log up to index k is taken into account: a joint    *)
(* entry counts as soon as it is in the log, a final one when committed.   *)
VotersAsOf(n, k) ==
    LET joints == {j \in n.commit + 1 .. k : j > n.base /\ EntryAt(n, j).kind = "joint"}
    IN  IF joints = {} THEN [old |-> n.votersOld, new |-> n.votersNew]
        ELSE LET e == EntryAt(n, SetMax(joints)) IN [old |-> e.old, new |-> e.new]

QuorumOf(v, acked) == Majority(v.old, acked) /\ (v.new = {} \/ Majority(v.new, acked))

QuorumMask(n, acked) == QuorumOf(VotersAsOf(n, LastIndex(n)), acked)

CanCommitIndex(n, k, acked) == QuorumOf(VotersAsOf(n, k), acked)

IsVoter(n, p) == LET v == VotersAsOf(n, LastIndex(n)) IN p \in v.old \cup v.new

EnsurePeers(n, voters) ==
    LET fresh == (voters \ {n.id}) \ n.peers
    IN  [n EXCEPT !.peers = @ \cup fresh,
                  !.next  = [p \in Server |-> IF p \in fresh THEN LastIndex(n) + 1 ELSE @[p]],
                  !.match = [p \in Server |-> IF p \in fresh THEN 0 ELSE @[p]]]

ConfigIndexes(n, first, last) ==
    {k \in first .. last : k > n.base /\ IsConfig(EntryAt(n, k))}

VotersNamed(n, K) == UNION {EntryAt(n, k).old \cup EntryAt(n, k).new : k \in K}

(* The configuration in force right after the configuration entry e, which *)
(* the code assigns to votersOld, votersNew (a final entry has no new).    *)
VotersAfter(e) == [old |-> e.old, new |-> e.new]

(* Wrong: a pending entry stays pending when it commits. *)
BadSettlePending(n, first, last) == n

(* The pending entry is no longer pending once it commits. *)
SettlePending(n, first, last) ==
    [n EXCEPT !.pendingConfig = IF @ \in first .. last /\ @ > n.base THEN 0 ELSE @]

(* The last configuration entry of first..last decides the voters; a final *)
(* entry that leaves this node out makes it step down.                     *)
ApplyCommittedConfigurations(n, first, last) ==
    LET K        == ConfigIndexes(n, first, last)
        voters   == VotersAfter(EntryAt(n, SetMax(K)))
        after(k) == [n EXCEPT !.votersOld = EntryAt(n, k).old, !.votersNew = EntryAt(n, k).new]
        removed  == \E k \in K : EntryAt(n, k).kind = "final" /\ ~IsVoter(after(k), n.id)
        peered   == EnsurePeers(n, VotersNamed(n, {k \in K : EntryAt(n, k).kind = "joint"}))
        configured ==
            IF K = {} THEN n
            ELSE [peered EXCEPT !.votersOld = voters.old,
                                !.votersNew = voters.new,
                                !.state     = IF removed THEN "Follower" ELSE @,
                                !.leader    = IF removed THEN None ELSE @,
                                !.readReady = @ /\ ~removed]
    IN  SettlePending(configured, first, last)

RebuildPendingConfig(n) ==
    LET K == ConfigIndexes(n, n.commit + 1, LastIndex(n))
    IN  [EnsurePeers(n, VotersNamed(n, K)) EXCEPT !.pendingConfig = IF K = {} THEN 0 ELSE SetMax(K)]

ValidNewEntry(n, e) ==
    CASE e.kind \in {"normal", "noop"} -> e.old = {} /\ e.new = {}
      [] e.kind = "joint" -> /\ n.pendingConfig = 0 /\ n.votersNew = {}
                             /\ e.old = n.votersOld /\ e.old # {} /\ e.new # {}
      [] e.kind = "final" -> /\ n.pendingConfig = 0 /\ n.votersNew # {}
                             /\ e.old = n.votersNew /\ e.new = {}

----------------------------------------------------------------------------
(* The leader's log                                                        *)

AppendLocal(n, e) ==
    LET stored    == PersistEntry(n, LastIndex(n) + 1, e)
        appended  == [stored EXCEPT !.log = Append(@, e)]
        last      == LastIndex(appended)
        persisted == PersistHardState(appended, appended.term, appended.votedFor, last)
    IN  IF stored.faulted THEN stored
        ELSE IF ~QuorumMask(appended, {n.id}) THEN appended
        ELSE IF persisted.faulted THEN persisted
        ELSE ApplyCommittedConfigurations([persisted EXCEPT !.commit = last], n.commit + 1, last)

BroadcastAppend(n) == AppendToAll(n, {p \in n.peers : IsVoter(n, p)}, None)

BecomeLeader(n) ==
    LET elected == AppendLocal([n EXCEPT !.state = "Leader", !.leader = n.id], NoopEntry(n.term))
        last    == LastIndex(elected) + 1
    IN  IF elected.faulted THEN elected
        ELSE BroadcastAppend(
               [elected EXCEPT
                  !.next  = [p \in Server |-> IF p \in elected.peers THEN last ELSE @[p]],
                  !.match = [p \in Server |-> IF p \in elected.peers THEN 0 ELSE @[p]]])

----------------------------------------------------------------------------
(* Elections                                                               *)

StartElection(n) ==
    LET persisted == PersistHardState(n, n.term + 1, n.id, n.commit)
        candidate == [persisted EXCEPT !.state = "Candidate", !.term = n.term + 1,
                                       !.votedFor = n.id, !.voteMask = {n.id},
                                       !.preVoteMask = {}]
        asked     == Send(candidate, {RequestVoteMsg(candidate, p) : p \in n.peers})
    IN  IF persisted.faulted THEN persisted
        ELSE IF QuorumMask(asked, asked.voteMask) THEN BecomeLeader(asked) ELSE asked

StartPreVote(n) ==
    LET opened == [n EXCEPT !.preVoteTerm = n.term + 1, !.leader = None, !.preVoteMask = {n.id}]
        asked  == Send(opened, {PreVoteMsg(opened, p) : p \in n.peers})
    IN  IF QuorumMask(asked, asked.preVoteMask) THEN StartElection(asked) ELSE asked

(* Wrong: only the last terms are compared. *)
BadUpToDate(n, m) == m.logTerm >= LastTerm(n)

UpToDate(n, m) ==
    \/ m.logTerm > LastTerm(n)
    \/ m.logTerm = LastTerm(n) /\ m.logIndex >= LastIndex(n)

OnPreVote(n, m) ==
    LET grant == IsVoter(n, m.from) /\ m.term >= n.term + 1 /\ UpToDate(n, m) /\ n.leader = None
    IN  Send(n, {PreVoteReply(n, m, ~grant)})

(* Wrong: a refused pre-vote counts. *)
BadOnPreVoteResponse(n, m) ==
    LET counted == [n EXCEPT !.preVoteMask = @ \cup {m.from}]
        counts  == n.state # "Leader" /\ m.term = n.term + 1 /\ m.term = n.preVoteTerm
    IN  IF ~counts THEN n
        ELSE IF QuorumMask(counted, counted.preVoteMask) THEN StartElection(counted) ELSE counted

OnPreVoteResponse(n, m) ==
    LET counted == [n EXCEPT !.preVoteMask = @ \cup {m.from}]
        counts  == /\ n.state # "Leader" /\ IsVoter(n, m.from) /\ ~m.reject
                   /\ m.term = n.term + 1 /\ m.term = n.preVoteTerm
    IN  IF ~counts THEN n
        ELSE IF QuorumMask(counted, counted.preVoteMask) THEN StartElection(counted) ELSE counted

OnVote(n, m) ==
    LET grant     == /\ IsVoter(n, m.from) /\ m.term = n.term
                     /\ n.votedFor \in {None, m.from} /\ UpToDate(n, m)
        persisted == PersistHardState(n, n.term, m.from, n.commit)
    IN  IF ~grant THEN Send(n, {VoteReply(n, m, TRUE)})
        ELSE IF persisted.faulted THEN persisted
        ELSE Send([persisted EXCEPT !.votedFor = m.from], {VoteReply(n, m, FALSE)})

OnVoteResponse(n, m) ==
    LET counted == [n EXCEPT !.voteMask = @ \cup {m.from}]
        counts  == n.state = "Candidate" /\ IsVoter(n, m.from) /\ m.term = n.term /\ ~m.reject
    IN  IF ~counts THEN n
        ELSE IF QuorumMask(counted, counted.voteMask) THEN BecomeLeader(counted) ELSE counted

OnTimeoutNow(n, m) ==
    IF n.state = "Follower" /\ m.term = n.term /\ m.from = n.leader THEN StartElection(n) ELSE n

----------------------------------------------------------------------------
(* Replication                                                             *)

(* Wrong: an entry already held is taken for the one received. *)
BadKeepConflict(n, at, e) ==
    LET stored == PersistEntry(n, at, e)
    IN  IF at # LastIndex(n) + 1 THEN n
        ELSE IF stored.faulted THEN stored ELSE [stored EXCEPT !.log = Append(@, e)]

(* The tail of the accepted entry: drop a conflicting suffix, store and    *)
(* append what is new.                                                     *)
AcceptEntry(n, at, e) ==
    LET conflict  == Present(n, at) /\ TermAt(n, at) # e.term
        truncated == IF conflict THEN RebuildPendingConfig([n EXCEPT !.log = UpTo(n, at - 1)]) ELSE n
        stored    == PersistEntry(truncated, at, e)
        appended  == [stored EXCEPT !.log = Append(@, e)]
    IN  IF at # LastIndex(truncated) + 1 THEN truncated
        ELSE IF stored.faulted THEN stored
        ELSE IF ~IsConfig(e) THEN appended
        ELSE EnsurePeers([appended EXCEPT !.pendingConfig = at], e.old \cup e.new)

(* Wrong: whatever the log holds up to the leader's commit index commits. *)
BadAcceptCommit(n, m, matched) ==
    LET commit    == Min2(m.commit, LastIndex(n))
        persisted == PersistHardState(n, n.term, n.votedFor, commit)
    IN  IF commit <= n.commit THEN n
        ELSE IF persisted.faulted THEN persisted ELSE [persisted EXCEPT !.commit = commit]

(* The tail of the accepted request: the commit index follows the leader's *)
(* as far as the request proved the logs equal.                            *)
AcceptCommit(n, m, matched) ==
    LET commit    == Min2(m.commit, matched)
        persisted == PersistHardState(n, n.term, n.votedFor, commit)
    IN  IF m.commit <= n.commit \/ matched <= n.commit THEN n
        ELSE IF persisted.faulted THEN persisted
        ELSE ApplyCommittedConfigurations([persisted EXCEPT !.commit = commit], n.commit + 1, commit)

(* Wrong: the term of the entry before is not compared. *)
BadRejectsAppend(n, m) == m.term < n.term \/ ~Present(n, m.logIndex)

RejectsAppend(n, m) ==
    \/ m.term < n.term
    \/ ~Present(n, m.logIndex)
    \/ TermAt(n, m.logIndex) # m.logTerm
    \/ /\ m.entries # << >> /\ m.logIndex = LastIndex(n)
       /\ ~ValidNewEntry(n, m.entries[1])

OnAppend(n, m) ==
    LET matched   == m.logIndex + Len(m.entries)
        following == [n EXCEPT !.state = "Follower", !.leader = m.from]
        extended  == IF m.entries = << >> THEN following
                     ELSE AcceptEntry(following, m.logIndex + 1, m.entries[1])
        committed == AcceptCommit(extended, m, matched)
    IN  IF RejectsAppend(n, m) THEN Send(n, {AppendReply(n, m, TRUE, LastIndex(n))})
        ELSE IF extended.faulted THEN extended
        ELSE IF committed.faulted THEN committed
        ELSE Send(committed, {AppendReply(n, m, FALSE, matched)})

(* The read barrier is acknowledged before anything else is looked at. *)
AckRead(n, m) ==
    LET acks   == n.readAckMask \cup {m.from}
        counts == /\ n.state = "Leader" /\ m.term = n.term /\ ~m.reject
                  /\ m.context # None /\ m.context = n.readContext /\ IsVoter(n, m.from)
        quorum == QuorumMask(n, acks)
    IN  IF ~counts THEN n
        ELSE [n EXCEPT !.readAckMask = acks,
                       !.readIndex   = IF quorum THEN n.commit ELSE @,
                       !.readReady   = @ \/ quorum]

(* Wrong: an entry of an earlier term that a quorum stores commits. *)
BadAdvanceCommit(n) ==
    LET acked(k)   == {n.id} \cup {p \in n.peers : n.match[p] >= k}
        commitable == {k \in n.commit + 1 .. LastIndex(n) : CanCommitIndex(n, k, acked(k))}
        persisted  == PersistHardState(n, n.term, n.votedFor, SetMax(commitable))
    IN  IF commitable = {} THEN n
        ELSE IF persisted.faulted THEN persisted
        ELSE BroadcastAppend([persisted EXCEPT !.commit = SetMax(commitable)])

(* The highest entry of the leader's own term that a quorum stores commits *)
(* everything up to it.                                                    *)
AdvanceCommit(n) ==
    LET acked(k)    == {n.id} \cup {p \in n.peers : n.match[p] >= k}
        commitable  == {k \in n.commit + 1 .. LastIndex(n) :
                            TermAt(n, k) = n.term /\ CanCommitIndex(n, k, acked(k))}
        k           == SetMax(commitable)
        persisted   == PersistHardState(n, n.term, n.votedFor, k)
        committed   == ApplyCommittedConfigurations([persisted EXCEPT !.commit = k], n.commit + 1, k)
    IN  IF commitable = {} THEN n
        ELSE IF persisted.faulted THEN persisted
        ELSE IF committed.state = "Leader" THEN BroadcastAppend(committed) ELSE committed

BackOff(n, p) == [n EXCEPT !.next[p] = IF @ > 1 THEN @ - 1 ELSE @]

OnAppendResponse(n, m) ==
    LET r        == AckRead(n, m)
        advanced == AdvanceCommit([r EXCEPT !.match[m.from] = m.match,
                                            !.next[m.from] = m.match + 1])
    IN  IF r.state # "Leader" \/ m.term # r.term \/ m.match > LastIndex(r) THEN r
        ELSE IF m.reject THEN AppendTo(BackOff(r, m.from), m.from)
        ELSE IF advanced.state = "Leader" /\ advanced.next[m.from] <= LastIndex(advanced)
             THEN AppendTo(advanced, m.from) ELSE advanced

----------------------------------------------------------------------------
(* Snapshots                                                               *)

Compact(n, k) ==
    LET snap  == [index |-> k, term |-> TermAt(n, k), old |-> n.votersOld, new |-> n.votersNew]
        saved == PersistSnapshot(n, snap)
    IN  IF k <= n.base \/ k > n.applied \/ ~Present(n, k) THEN n
        ELSE IF saved.faulted THEN saved
        ELSE [saved EXCEPT !.log = After(n, k), !.base = k, !.baseTerm = snap.term, !.snap = snap]

(* Wrong: a snapshot older than the node's own is taken. *)
BadRejectsSnapshot(n, m) == m.term < n.term \/ m.snap.old = {}

RejectsSnapshot(n, m) ==
    \/ m.term < n.term \/ m.snap.index < n.base \/ m.snap.old = {}
    \/ m.snap.index = n.base /\ m.snap.term # n.baseTerm

(* Wrong: the node keeps entries that the snapshot covers. *)
BadInstalledLog(n, s) == n.log

(* What a node keeps of its log: what follows the snapshot, if it agrees.  *)
InstalledLog(n, s) ==
    IF Present(n, s.index) /\ TermAt(n, s.index) = s.term THEN After(n, s.index) ELSE << >>

OnInstallSnapshot(n, m) ==
    LET s         == m.snap
        saved     == PersistSnapshot(n, s)
        installed == IF s.index = n.base THEN n
                     ELSE IF saved.faulted THEN saved
                     ELSE [saved EXCEPT !.log = InstalledLog(n, s),
                                        !.base = s.index, !.baseTerm = s.term, !.snap = s,
                                        !.votersOld = s.old, !.votersNew = s.new,
                                        !.commit = Max2(@, s.index), !.applied = Max2(@, s.index)]
        following == [installed EXCEPT !.state = "Follower", !.leader = m.from]
    IN  IF RejectsSnapshot(n, m) THEN Send(n, {SnapshotReply(n, m, TRUE)})
        ELSE IF installed.faulted THEN installed
        ELSE Send(following, {SnapshotReply(following, m, FALSE)})

OnInstallSnapshotResponse(n, m) ==
    LET advanced == IF m.match <= n.match[m.from] THEN n
                    ELSE [n EXCEPT !.match[m.from] = m.match, !.next[m.from] = m.match + 1]
    IN  IF n.state # "Leader" \/ m.term # n.term \/ m.reject \/ ~IsVoter(n, m.from) THEN n
        ELSE IF advanced.next[m.from] <= LastIndex(n) THEN AppendTo(advanced, m.from) ELSE advanced

----------------------------------------------------------------------------
(* What callers ask of a node                                              *)

Propose(n, c) ==
    LET appended == AppendLocal(n, NormalEntry(n.term, c))
    IN  IF n.state # "Leader" \/ n.faulted THEN n
        ELSE IF appended.faulted THEN appended ELSE BroadcastAppend(appended)

(* ProposeJoint and ProposeFinal note the entry as pending after           *)
(* appendLocal, which may have committed it already.                       *)
ProposeConfig(n, e) ==
    LET appended == AppendLocal(n, e)
    IN  IF appended.faulted THEN appended
        ELSE BroadcastAppend([appended EXCEPT !.pendingConfig = LastIndex(appended)])

CanProposeJoint(n) == n.state = "Leader" /\ ~n.faulted /\ n.votersNew = {} /\ n.pendingConfig = 0
CanProposeFinal(n) == n.state = "Leader" /\ ~n.faulted /\ n.votersNew # {} /\ n.pendingConfig = 0

ProposeJoint(n, voters) ==
    IF voters = {} \/ ~CanProposeJoint(n) THEN n
    ELSE ProposeConfig(EnsurePeers(n, voters), JointEntry(n.term, n.votersOld, voters))

ProposeFinal(n) ==
    IF ~CanProposeFinal(n) THEN n ELSE ProposeConfig(n, FinalEntry(n.term, n.votersNew))

(* Wrong: a leader that has committed nothing in its term may answer. *)
BadCanStartRead(n) == n.state = "Leader" /\ ~n.faulted /\ n.commit # 0

CanStartRead(n) ==
    /\ n.state = "Leader" /\ ~n.faulted /\ n.commit # 0
    /\ TermAt(n, n.commit) = n.term \/ QuorumMask(n, {n.id})

StartReadIndex(n, context) ==
    LET ready == QuorumMask(n, {n.id})
    IN  IF ~CanStartRead(n) THEN n
        ELSE AppendToAll([n EXCEPT !.readContext = context, !.readAckMask = {n.id},
                                   !.readReady = ready,
                                   !.readIndex = IF ready THEN n.commit ELSE @],
                         n.peers, context)

(* ReadIndex: is the answer for this context ready? *)
ReadReady(n, context) == n.state = "Leader" /\ context = n.readContext /\ n.readReady

(* Wrong: the target may lack entries. *)
BadTransferLeadership(n, target) ==
    IF n.state # "Leader" \/ target = n.id \/ ~IsVoter(n, target) THEN n
    ELSE Send(n, {TimeoutNowMsg(n, target)})

TransferLeadership(n, target) ==
    IF n.state # "Leader" \/ target = n.id \/ ~IsVoter(n, target) THEN n
    ELSE IF n.match[target] < LastIndex(n) THEN AppendTo(n, target)
    ELSE Send(n, {TimeoutNowMsg(n, target)})

ApplyEntries(n) == [n EXCEPT !.applied = Max2(@, n.commit)]

----------------------------------------------------------------------------
(* Step: the dispatcher of messages.  Anything but a pre-vote message of a *)
(* higher term makes the node a follower in that term first.               *)

PreVoteTypes == {"PreVote", "PreVoteResponse"}
VoteTypes    == PreVoteTypes \cup {"RequestVote", "RequestVoteResponse"}
MessageTypes == VoteTypes \cup {"Append", "AppendResponse", "TimeoutNow", "InstallSnapshot",
                                "InstallSnapshotResponse"}

ObserveTerm(n, m) ==
    LET persisted == PersistHardState(n, m.term, None, n.commit)
    IN  IF m.type \in PreVoteTypes \/ m.term <= n.term THEN n
        ELSE IF persisted.faulted THEN persisted
        ELSE [persisted EXCEPT !.state = "Follower", !.term = m.term, !.votedFor = None,
                               !.leader = None, !.readReady = FALSE]

Dispatch(n, m) ==
    CASE m.type = "PreVote"                 -> OnPreVote(n, m)
      [] m.type = "PreVoteResponse"         -> OnPreVoteResponse(n, m)
      [] m.type = "RequestVote"             -> OnVote(n, m)
      [] m.type = "RequestVoteResponse"     -> OnVoteResponse(n, m)
      [] m.type = "Append"                  -> OnAppend(n, m)
      [] m.type = "AppendResponse"          -> OnAppendResponse(n, m)
      [] m.type = "InstallSnapshot"         -> OnInstallSnapshot(n, m)
      [] m.type = "InstallSnapshotResponse" -> OnInstallSnapshotResponse(n, m)
      [] m.type = "TimeoutNow"              -> OnTimeoutNow(n, m)

Step(n, m) ==
    LET current == ObserveTerm(n, m)
    IN  IF current.faulted THEN current ELSE Dispatch(current, m)

----------------------------------------------------------------------------
(* Construction and recovery                                               *)

NewNodeWithStore(i, d) ==
    [id |-> i, peers |-> InitVoters \ {i}, state |-> "Follower", term |-> 0, votedFor |-> None,
     leader |-> None, log |-> << >>, base |-> 0, baseTerm |-> 0, commit |-> 0, applied |-> 0,
     voteMask |-> {}, preVoteMask |-> {}, preVoteTerm |-> 0,
     next |-> [p \in Server |-> 0], match |-> [p \in Server |-> 0],
     readContext |-> None, readAckMask |-> {}, readIndex |-> 0, readReady |-> FALSE,
     snap |-> NoSnapshot, votersOld |-> InitVoters \cup {i}, votersNew |-> {},
     pendingConfig |-> 0, faulted |-> FALSE, err |-> "none",
     disk |-> d, out |-> {}, ops |-> MaxStoreCalls, landed |-> FALSE]

(* The configuration that the entries before index k leave in force. *)
VotersBefore(n, k) ==
    LET K == ConfigIndexes(n, n.base + 1, k - 1)
    IN  IF K = {} THEN [old |-> n.votersOld, new |-> n.votersNew]
        ELSE VotersAfter(EntryAt(n, SetMax(K)))

(* restoreConfigurationState: each configuration entry must follow from    *)
(* the one before it, which must be committed.                             *)
RestorableConfig(n, k) ==
    LET e == EntryAt(n, k)
        v == VotersBefore(n, k)
    IN  /\ ConfigIndexes(n, n.commit + 1, k - 1) = {}
        /\ e.kind = "joint" => v.new = {} /\ e.old = v.old /\ e.old # {} /\ e.new # {}
        /\ e.kind = "final" => v.new # {} /\ e.old = v.new /\ e.new = {}

(* Wrong: the voters of the configuration file are kept. *)
BadRestoreConfigurationState(n) == n

RestoreConfigurationState(n) ==
    LET K       == ConfigIndexes(n, n.base + 1, LastIndex(n))
        pending == ConfigIndexes(n, n.commit + 1, LastIndex(n))
        voters  == VotersBefore(n, n.commit + 1)
    IN  IF \E k \in K : ~RestorableConfig(n, k) THEN FailStorage(n, "recover")
        ELSE [EnsurePeers(n, VotersNamed(n, K)) EXCEPT
                !.votersOld = voters.old, !.votersNew = voters.new,
                !.pendingConfig = IF pending = {} THEN 0 ELSE SetMax(pending)]

(* Wrong: the commit index comes from the snapshot alone. *)
BadRecovered(i, d) ==
    LET n == [NewNodeWithStore(i, d) EXCEPT
                !.term = d.hard.term, !.votedFor = d.hard.votedFor, !.base = d.base,
                !.baseTerm = d.baseTerm, !.snap = d.snap, !.log = d.log,
                !.commit = d.snap.index, !.applied = d.snap.index]
    IN  RestoreConfigurationState(n)

(* raftstore.Open, then NewRecoveredNode or NewRecoveredNodeWithSnapshot.  *)
Recovered(i, d) ==
    LET o      == Opened(d)
        fresh  == NewNodeWithStore(i, o)
        based  == [fresh EXCEPT !.term = o.hard.term, !.votedFor = o.hard.votedFor,
                                !.base = o.base, !.baseTerm = o.baseTerm, !.snap = o.snap,
                                !.votersOld = IF o.snap.index = 0 THEN @ ELSE o.snap.old,
                                !.votersNew = IF o.snap.index = 0 THEN @ ELSE o.snap.new]
        peered == EnsurePeers(based, based.votersOld \cup based.votersNew)
        loaded == [peered EXCEPT !.log = o.log, !.applied = o.snap.index,
                                 !.commit = Max2(o.hard.commit, o.snap.index)]
    IN  IF ~Openable(d) THEN FailStorage(NewNodeWithStore(i, d), "open")
        ELSE IF loaded.votersOld = {} \/ loaded.commit > LastIndex(loaded)
             THEN FailStorage(loaded, "recover")
             ELSE RestoreConfigurationState(loaded)
=============================================================================
