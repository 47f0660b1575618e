--------------------------- MODULE RaftStepProofs ---------------------------
(***************************************************************************)
(* The second half of the lemmas on handlers of RaftNodeProofs: entries    *)
(* and snapshots, the calls of a driver, Step and recovery.                *)
(*                                                                         *)
(* Then what every handler preserves while nobody asks for a change of     *)
(* membership, for each helper: the configuration stays the one every node *)
(* started with, and no handler but startElection, becomeLeader and        *)
(* onVoteResponse touches the role, the term of a candidate or leader, or  *)
(* the votes counted.                                                      *)
(***************************************************************************)
EXTENDS RaftNodeProofs

----------------------------------------------------------------------------
(* Replication, the follower's side                                        *)

(* The accepted entry of onAppend: truncation, store call and append. *)
LEMMA AcceptEntryEvolves ==
    ASSUME NEW n \in Working, NEW at \in Nat, Present(n, at - 1), NEW e \in Entry
    PROVE  LET p == AcceptEntry(n, at, e)
           IN  Evolves(n, p) /\ (p.faulted = FALSE => at <= LastIndex(p))
  <1> DEFINE conflict  == Present(n, at) /\ TermAt(n, at) # e.term
             cut       == [n EXCEPT !.log = UpTo(n, at - 1)]
             truncated == IF conflict THEN RebuildPendingConfig(cut) ELSE n
             stored    == PersistEntry(truncated, at, e)
             appended  == [stored EXCEPT !.log = Append(@, e)]
             pending   == [appended EXCEPT !.pendingConfig = at]
             peered    == EnsurePeers(pending, e.old \cup e.new)
  <1>0. n.base \in Nat /\ LastIndex(n) \in Nat /\ at - 1 \in Int /\ at - 1 <= LastIndex(n)
    BY IndexTypes DEF Present
  <1>1. Evolves(n, cut) /\ cut \in Working /\ LastIndex(cut) = at - 1
    <2>1. UpTo(n, at - 1) \in Seq(Entry) /\ Len(UpTo(n, at - 1)) = at - 1 - n.base
      BY <1>0, WorkingLog, UpToFacts
    <2>2. /\ cut \in Working /\ cut.id = n.id /\ cut.disk = n.disk /\ cut.out = n.out
          /\ cut.log = UpTo(n, at - 1) /\ cut.base = n.base
      BY ZenonT(30), <2>1 DEF Working
    <2> HIDE DEF cut
    <2> QED BY <1>0, <2>1, <2>2, EvolvesFrame DEF LastIndex
  <1> HIDE DEF cut
  <1>2. /\ Evolves(n, truncated) /\ truncated \in Working
        /\ at # LastIndex(truncated) + 1 => at <= LastIndex(truncated)
    <2>1. CASE conflict
      <3>1. Evolves(cut, truncated) /\ SameLog(cut, truncated)
        BY <1>1, <2>1, RebuildPendingConfigEvolves
      <3>2. LastIndex(truncated) = at - 1
        BY <1>1, <3>1 DEF LastIndex, SameLog
      <3> HIDE DEF truncated
      <3> QED BY <1>1, <3>1, <3>2, EvolvesTrans, EvolvesWorking
    <2>2. CASE ~conflict
      BY <1>0, <2>2, EvolvesRefl
    <2> HIDE DEF conflict, truncated
    <2> QED BY <2>1, <2>2
  <1> HIDE DEF conflict, truncated
  <1>3. /\ Evolves(n, stored) /\ stored \in Working
        /\ stored.faulted = FALSE => LastIndex(stored) = LastIndex(truncated)
    <2>1. /\ Evolves(truncated, stored)
          /\ stored.faulted = FALSE => stored = Stored(truncated, WithEntry(truncated.disk, at, e))
      BY ZenonT(30), <1>2, PersistEntryEvolves
    <2> HIDE DEF stored
    <2>2. stored.faulted = FALSE => SameLog(truncated, stored)
      BY <1>2, <2>1, StoredFrame
    <2> QED BY SMTT(30), <1>2, <2>1, <2>2, EvolvesTrans, EvolvesWorking DEF SameLog, LastIndex
  <1> HIDE DEF stored
  <1>4. Evolves(n, appended) /\ appended \in Working /\ LastIndex(appended) = LastIndex(stored) + 1
    BY ZenonT(30), <1>3, ExtendEvolves, EvolvesTrans, EvolvesWorking
  <1> HIDE DEF appended
  <1>5. Evolves(n, pending) /\ pending \in Working /\ LastIndex(pending) = LastIndex(appended)
    <2>1. /\ pending \in Working /\ pending.id = appended.id /\ pending.disk = appended.disk
          /\ pending.out = appended.out /\ pending.log = appended.log /\ pending.base = appended.base
      BY ZenonT(30), <1>4 DEF Working
    <2> HIDE DEF pending
    <2> QED BY <1>4, <2>1, EvolvesFrame, EvolvesTrans DEF LastIndex
  <1> HIDE DEF pending
  <1>6. Evolves(n, peered) /\ LastIndex(peered) = LastIndex(pending)
    <2>1. e.old \cup e.new \subseteq Server
      BY DEF Entry
    <2>2. Evolves(pending, peered) /\ SameLog(pending, peered)
      BY <1>5, <2>1, EnsurePeersEvolves
    <2> HIDE DEF peered
    <2> QED BY <1>5, <2>2, EvolvesTrans DEF SameLog, LastIndex
  <1>7. AcceptEntry(n, at, e) = IF at # LastIndex(truncated) + 1 THEN truncated
                                ELSE IF stored.faulted THEN stored
                                ELSE IF ~IsConfig(e) THEN appended ELSE peered
    BY DEF AcceptEntry, conflict, cut, truncated, stored, appended, pending
  <1> HIDE DEF peered
  <1>8. LastIndex(truncated) \in Nat /\ stored.faulted \in BOOLEAN
    BY <1>2, <1>3, IndexTypes, FaultedType
  <1> QED BY SMTT(30), <1>2, <1>3, <1>4, <1>5, <1>6, <1>7, <1>8

(* The commit index of onAppend. *)
LEMMA AcceptCommitEvolves ==
    ASSUME NEW n \in Working, NEW m, m.commit \in Nat, NEW matched \in Nat, matched <= LastIndex(n)
    PROVE  Evolves(n, AcceptCommit(n, m, matched))
  <1> DEFINE commit    == Min2(m.commit, matched)
             persisted == PersistHardState(n, n.term, n.votedFor, commit)
             committed == ApplyCommittedConfigurations([persisted EXCEPT !.commit = commit],
                                                       n.commit + 1, commit)
  <1>1. /\ commit \in Nat /\ commit <= LastIndex(n) /\ n.commit + 1 \in Nat
        /\ n.term \in Nat /\ n.votedFor \in Server \cup {None}
    BY IndexTypes DEF Min2
  <1>2. AcceptCommit(n, m, matched) =
          IF m.commit <= n.commit \/ matched <= n.commit THEN n
          ELSE IF persisted.faulted THEN persisted ELSE committed
    BY DEF AcceptCommit
  <1> HIDE DEF commit
  <1>3. Evolves(n, persisted) /\ persisted \in Working
    BY ZenonT(30), <1>1, PersistHardStateEvolves, EvolvesWorking
  <1>4. persisted.faulted = FALSE => Evolves(n, committed)
    BY ZenonT(30), <1>1, CommitEvolves
  <1> HIDE DEF persisted, committed
  <1> QED BY <1>2, <1>3, <1>4, EvolvesRefl, FaultedType

(* The answer of onAppend is no vote. *)
LEMMA AppendReplyType ==
    ASSUME NEW n \in Working, NEW m \in Mail, m.type = "Append", NEW reject \in BOOLEAN,
           NEW match \in Nat
    PROVE  LET r == AppendReply(n, m, reject, match)
           IN  {r} \subseteq Mail /\ \A x \in {r} : ~IsVote(x)
  <1>1. m.context \in ReadContext \cup {None}
    BY MailFields DEF AppendRequest
  <1>2. AppendReply(n, m, reject, match) \in AppendResponse
    BY <1>1, MailFields, IndexTypes DEF AppendReply, AppendResponse
  <1> QED BY <1>2, PlainMail

(* onAppend, rejected or accepted. *)
LEMMA OnAppendEvolves ==
    ASSUME NEW n \in Working, NEW m \in Mail, m.type = "Append"
    PROVE  Evolves(n, OnAppend(n, m))
  <1> DEFINE matched   == m.logIndex + Len(m.entries)
             following == [n EXCEPT !.state = "Follower", !.leader = m.from]
             extended  == IF m.entries = << >> THEN following
                          ELSE AcceptEntry(following, m.logIndex + 1, m.entries[1])
             committed == AcceptCommit(extended, m, matched)
             no        == AppendReply(n, m, TRUE, LastIndex(n))
             yes       == AppendReply(n, m, FALSE, matched)
  <1>1. /\ m.logIndex \in Nat /\ m.entries \in Seq(Entry) /\ Len(m.entries) <= 1
        /\ m.commit \in Nat /\ m.from \in Server
    BY MailFields DEF AppendRequest
  <1>2. /\ matched \in Nat
        /\ m.entries = << >> => matched = m.logIndex
        /\ m.entries # << >> => matched = m.logIndex + 1 /\ m.entries[1] \in Entry
    BY SMTT(30), <1>1
  <1> HIDE DEF matched
  <1>3. Evolves(n, Send(n, {no}))
    BY ZenonT(30), IndexTypes, AppendReplyType, SendEvolves
  <1>4. Evolves(n, following) /\ following \in Working /\ following.log = n.log /\ following.base = n.base
    <2>1. /\ following \in Working /\ following.id = n.id /\ following.disk = n.disk
          /\ following.out = n.out /\ following.log = n.log /\ following.base = n.base
      BY ZenonT(30), <1>1 DEF Working, Role
    <2> HIDE DEF following
    <2> QED BY <2>1, EvolvesFrame
  <1> HIDE DEF following
  <1>5. ASSUME ~RejectsAppend(n, m)
        PROVE  /\ Evolves(n, extended) /\ extended \in Working
               /\ extended.faulted = FALSE => matched <= LastIndex(extended)
    <2>1. Present(following, m.logIndex)
      BY <1>4, <1>5 DEF RejectsAppend, Present, LastIndex
    <2>2. CASE m.entries = << >>
      BY <1>2, <1>4, <2>1, <2>2 DEF Present
    <2>3. CASE m.entries # << >>
      <3>1. (m.logIndex + 1) - 1 = m.logIndex /\ m.logIndex + 1 \in Nat
        BY <1>1
      <3>2. /\ Evolves(following, extended)
            /\ extended.faulted = FALSE => m.logIndex + 1 <= LastIndex(extended)
        BY ZenonT(30), <1>2, <1>4, <2>1, <2>3, <3>1, AcceptEntryEvolves
      <3> HIDE DEF extended
      <3> QED BY SMTT(30), <1>2, <1>4, <2>3, <3>2, EvolvesTrans, EvolvesWorking
    <2> QED BY ZenonT(30), <2>2, <2>3
  <1>6. OnAppend(n, m) = IF RejectsAppend(n, m) THEN Send(n, {no})
                         ELSE IF extended.faulted THEN extended
                         ELSE IF committed.faulted THEN committed ELSE Send(committed, {yes})
    BY DEF OnAppend, following, matched
  <1>7. CASE RejectsAppend(n, m)
    BY <1>3, <1>6, <1>7
  <1>8. CASE ~RejectsAppend(n, m)
    <2> HIDE DEF extended
    <2>1. CASE extended.faulted = TRUE
      BY <1>5, <1>6, <1>8, <2>1
    <2>2. CASE extended.faulted = FALSE
      <3>1. Evolves(n, committed) /\ committed \in Working
        BY ZenonT(30), <1>1, <1>2, <1>5, <1>8, <2>2, AcceptCommitEvolves, EvolvesTrans, EvolvesWorking
      <3> HIDE DEF committed, yes
      <3>2. Evolves(n, Send(committed, {yes}))
        <4>1. {yes} \subseteq Mail /\ \A x \in {yes} : ~IsVote(x)
          BY ZenonT(30), <1>2, AppendReplyType DEF yes
        <4> QED BY <3>1, <4>1, SendEvolves, EvolvesTrans
      <3> QED BY <1>6, <1>8, <2>2, <3>1, <3>2
    <2> QED BY ZenonT(30), <1>5, <1>8, <2>1, <2>2, FaultedType
  <1> QED BY <1>7, <1>8

----------------------------------------------------------------------------
(* Replication, the leader's side                                          *)

(* The read barrier touches no vote. *)
LEMMA AckReadEvolves ==
    ASSUME NEW n \in Working, NEW m \in Mail
    PROVE  Evolves(n, AckRead(n, m))
  <1> DEFINE acks   == n.readAckMask \cup {m.from}
             counts == /\ n.state = "Leader" /\ m.term = n.term /\ ~m.reject
                       /\ m.context # None /\ m.context = n.readContext /\ IsVoter(n, m.from)
             quorum == QuorumMask(n, acks)
             ri     == IF quorum THEN n.commit ELSE n.readIndex
             rr     == n.readReady \/ quorum
             p      == [n EXCEPT !.readAckMask = acks, !.readIndex = ri, !.readReady = rr]
  <1>1. acks \subseteq Server
    BY SMTT(30), MailFields DEF Working
  <1>2. ri \in Nat
    BY DEF Working
  <1>3. rr \in BOOLEAN
    OBVIOUS
  <1>4. AckRead(n, m) = IF ~counts THEN n ELSE p
    BY DEF AckRead
  <1> HIDE DEF acks, counts, quorum, ri, rr
  <1>5. p \in Working /\ p.id = n.id /\ p.disk = n.disk /\ p.out = n.out
    BY ZenonT(30), <1>1, <1>2, <1>3 DEF Working
  <1> HIDE DEF p
  <1> QED BY SMTT(30), <1>4, <1>5, EvolvesFrame, EvolvesRefl

(* The commit loop of onAppendResponse. *)
LEMMA AdvanceCommitEvolves ==
    ASSUME NEW n \in Working
    PROVE  Evolves(n, AdvanceCommit(n))
  <1> DEFINE acked(k)   == {n.id} \cup {p \in n.peers : n.match[p] >= k}
             commitable == {k \in n.commit + 1 .. LastIndex(n) :
                              TermAt(n, k) = n.term /\ CanCommitIndex(n, k, acked(k))}
             k          == SetMax(commitable)
             persisted  == PersistHardState(n, n.term, n.votedFor, k)
             committed  == ApplyCommittedConfigurations([persisted EXCEPT !.commit = k],
                                                        n.commit + 1, k)
  <1>1. AdvanceCommit(n) = IF commitable = {} THEN n
                           ELSE IF persisted.faulted THEN persisted
                           ELSE IF committed.state = "Leader" THEN BroadcastAppend(committed)
                           ELSE committed
    BY DEF AdvanceCommit
  <1>2. /\ n.commit + 1 \in Nat /\ LastIndex(n) \in Nat /\ n.term \in Nat
        /\ n.votedFor \in Server \cup {None}
    BY IndexTypes
  <1>3. commitable \subseteq Nat /\ \A j \in commitable : j <= LastIndex(n)
    BY <1>2
  <1> HIDE DEF commitable
  <1>4. CASE commitable = {}
    BY <1>1, <1>4, EvolvesRefl
  <1>5. CASE commitable # {}
    <2>1. k \in Nat /\ k <= LastIndex(n)
      BY ZenonT(30), <1>2, <1>3, <1>5, SetMaxBounded
    <2> HIDE DEF k
    <2>2. Evolves(n, persisted) /\ persisted \in Working
      BY ZenonT(30), <1>2, <2>1, PersistHardStateEvolves, EvolvesWorking
    <2>3. persisted.faulted = FALSE => Evolves(n, committed)
      BY ZenonT(30), <1>2, <2>1, CommitEvolves
    <2> HIDE DEF persisted, committed
    <2>4. persisted.faulted = FALSE => Evolves(n, BroadcastAppend(committed))
      BY SMTT(30), <2>3, EvolvesWorking, BroadcastAppendEvolves, EvolvesTrans
    <2> QED BY SMTT(30), <1>1, <1>5, <2>2, <2>3, <2>4, FaultedType
  <1> QED BY <1>4, <1>5

(* The next index after a rejection. *)
LEMMA BackOffEvolves ==
    ASSUME NEW n \in Working, NEW p \in Server
    PROVE  Evolves(n, BackOff(n, p))
  <1> DEFINE v == IF n.next[p] > 1 THEN n.next[p] - 1 ELSE n.next[p]
             q == [n EXCEPT !.next[p] = v]
  <1>0. n.next \in [Server -> Nat]
    BY SMTT(30) DEF Working
  <1>1. v \in Nat
    BY <1>0
  <1>2. BackOff(n, p) = q
    BY DEF BackOff
  <1> HIDE DEF v
  <1>3. q \in Working /\ q.id = n.id /\ q.disk = n.disk /\ q.out = n.out
    BY ZenonT(30), <1>1 DEF Working
  <1> HIDE DEF q
  <1> QED BY <1>2, <1>3, EvolvesFrame

(* The leader notes what a peer has acknowledged. *)
LEMMA MatchedEvolves ==
    ASSUME NEW n \in Working, NEW p \in Server, NEW k \in Nat
    PROVE  Evolves(n, [n EXCEPT !.match[p] = k, !.next[p] = k + 1])
  <1> DEFINE q == [n EXCEPT !.match[p] = k, !.next[p] = k + 1]
  <1>1. k + 1 \in Nat
    OBVIOUS
  <1>2. q \in Working /\ q.id = n.id /\ q.disk = n.disk /\ q.out = n.out
    BY ZenonT(30), <1>1 DEF Working
  <1> HIDE DEF q
  <1>3. Evolves(n, q)
    BY <1>2, EvolvesFrame
  <1> QED BY <1>3 DEF q

(* onAppendResponse. *)
LEMMA OnAppendResponseEvolves ==
    ASSUME NEW n \in Working, NEW m \in Mail, m.type = "AppendResponse"
    PROVE  Evolves(n, OnAppendResponse(n, m))
  <1> DEFINE r        == AckRead(n, m)
             matched  == [r EXCEPT !.match[m.from] = m.match, !.next[m.from] = m.match + 1]
             advanced == AdvanceCommit(matched)
  <1>1. m.from \in Server /\ m.match \in Nat
    BY MailFields DEF AppendResponse
  <1>2. OnAppendResponse(n, m) =
          IF r.state # "Leader" \/ m.term # r.term \/ m.match > LastIndex(r) THEN r
          ELSE IF m.reject THEN AppendTo(BackOff(r, m.from), m.from)
          ELSE IF advanced.state = "Leader" /\ advanced.next[m.from] <= LastIndex(advanced)
               THEN AppendTo(advanced, m.from) ELSE advanced
    BY DEF OnAppendResponse
  <1>3. Evolves(n, r) /\ r \in Working
    BY AckReadEvolves, EvolvesWorking
  <1> HIDE DEF r
  <1>4. Evolves(n, AppendTo(BackOff(r, m.from), m.from))
    <2> DEFINE b == BackOff(r, m.from)
    <2>1. Evolves(n, b) /\ b \in Working
      BY SMTT(30), <1>1, <1>3, BackOffEvolves, EvolvesTrans, EvolvesWorking
    <2> HIDE DEF b
    <2>2. Evolves(n, AppendTo(b, m.from))
      BY SMTT(30), <1>1, <2>1, AppendToEvolves, EvolvesTrans
    <2> QED BY <2>2 DEF b
  <1>5. Evolves(n, matched) /\ matched \in Working
    <2>1. Evolves(r, matched)
      BY ZenonT(30), <1>1, <1>3, MatchedEvolves
    <2> HIDE DEF matched
    <2> QED BY SMTT(30), <1>3, <2>1, EvolvesTrans, EvolvesWorking
  <1> HIDE DEF matched
  <1>6. Evolves(n, advanced) /\ advanced \in Working
    BY SMTT(30), <1>5, AdvanceCommitEvolves, EvolvesTrans, EvolvesWorking
  <1> HIDE DEF advanced
  <1>7. Evolves(n, AppendTo(advanced, m.from))
    BY SMTT(30), <1>1, <1>6, AppendToEvolves, EvolvesTrans
  <1> QED BY <1>2, <1>3, <1>4, <1>6, <1>7

----------------------------------------------------------------------------
(* Snapshots                                                               *)

(* Compact keeps the log after the snapshot. *)
LEMMA CompactEvolves ==
    ASSUME NEW n \in Working, NEW k \in Nat
    PROVE  Evolves(n, Compact(n, k))
  <1> DEFINE snap  == [index |-> k, term |-> TermAt(n, k), old |-> n.votersOld, new |-> n.votersNew]
             saved == PersistSnapshot(n, snap)
             done  == [saved EXCEPT !.log = After(n, k), !.base = k, !.baseTerm = snap.term,
                                    !.snap = snap]
  <1>1. Compact(n, k) = IF k <= n.base \/ k > n.applied \/ ~Present(n, k) THEN n
                        ELSE IF saved.faulted THEN saved ELSE done
    BY DEF Compact
  <1>2. CASE ~Present(n, k)
    BY <1>1, <1>2, EvolvesRefl
  <1>3. CASE Present(n, k)
    <2>1. TermAt(n, k) \in Nat /\ After(n, k) \in Seq(Entry)
      BY SMTT(30), <1>3, WorkingLog, LogFacts, AfterFacts
    <2>2. snap \in Snapshot /\ snap.term \in Nat
      BY ZenonT(30), <2>1 DEF Snapshot, Working
    <2> HIDE DEF snap
    <2>3. Evolves(n, saved) /\ saved \in Working
      BY <2>2, PersistSnapshotEvolves, EvolvesWorking
    <2> HIDE DEF saved
    <2>4. done \in Working /\ done.id = saved.id /\ done.disk = saved.disk /\ done.out = saved.out
      BY ZenonT(30), <2>1, <2>2, <2>3 DEF Working
    <2> HIDE DEF done
    <2>5. Evolves(n, done)
      BY <2>3, <2>4, EvolvesFrame, EvolvesTrans
    <2> QED BY SMTT(30), <1>1, <2>3, <2>5, EvolvesRefl
  <1> QED BY <1>2, <1>3

(* The answer of onInstallSnapshot is no vote. *)
LEMMA SnapshotReplyType ==
    ASSUME NEW n \in Working, NEW m \in Mail, NEW reject \in BOOLEAN
    PROVE  LET r == SnapshotReply(n, m, reject)
           IN  {r} \subseteq Mail /\ \A x \in {r} : ~IsVote(x)
  <1>1. SnapshotReply(n, m, reject) \in SnapshotResponse
    BY MailFields, IndexTypes DEF SnapshotReply, SnapshotResponse
  <1> QED BY <1>1, PlainMail

(* onInstallSnapshot, rejected, repeated or installed. *)
LEMMA OnInstallSnapshotEvolves ==
    ASSUME NEW n \in Working, NEW m \in Mail, m.type = "InstallSnapshot"
    PROVE  Evolves(n, OnInstallSnapshot(n, m))
  <1> DEFINE s         == m.snap
             saved     == PersistSnapshot(n, s)
             taken     == [saved EXCEPT !.log = InstalledLog(n, s),
                                        !.base = s.index, !.baseTerm = s.term, !.snap = s,
                                        !.votersOld = s.old, !.votersNew = s.new,
                                        !.commit = Max2(@, s.index), !.applied = Max2(@, s.index)]
             installed == IF s.index = n.base THEN n ELSE IF saved.faulted THEN saved ELSE taken
             following == [installed EXCEPT !.state = "Follower", !.leader = m.from]
             no        == SnapshotReply(n, m, TRUE)
             yes       == SnapshotReply(following, m, FALSE)
  <1>1. OnInstallSnapshot(n, m) = IF RejectsSnapshot(n, m) THEN Send(n, {no})
                                  ELSE IF installed.faulted THEN installed
                                  ELSE Send(following, {yes})
    BY DEF OnInstallSnapshot
  <1>2. m.from \in Server /\ s \in Snapshot
    BY MailFields DEF SnapshotRequest
  <1> HIDE DEF s
  <1>3. /\ s.index \in Nat /\ s.term \in Nat /\ s.old \subseteq Server /\ s.new \subseteq Server
    BY <1>2 DEF Snapshot
  <1>4. InstalledLog(n, s) \in Seq(Entry)
    <2>1. Present(n, s.index) => After(n, s.index) \in Seq(Entry)
      BY SMTT(30), <1>3, WorkingLog, AfterFacts
    <2> QED BY <2>1 DEF InstalledLog
  <1>5. Evolves(n, saved) /\ saved \in Working
    BY SMTT(30), <1>2, PersistSnapshotEvolves, EvolvesWorking
  <1> HIDE DEF saved
  <1>6. Evolves(n, taken) /\ taken \in Working
    <2>1. saved.commit \in Nat /\ saved.applied \in Nat
      BY <1>5, IndexTypes
    <2>2. Max2(saved.commit, s.index) \in Nat /\ Max2(saved.applied, s.index) \in Nat
      BY <1>3, <2>1 DEF Max2
    <2>3. taken \in Working /\ taken.id = saved.id /\ taken.disk = saved.disk /\ taken.out = saved.out
      BY ZenonT(30), <1>2, <1>3, <1>4, <1>5, <2>2 DEF Working
    <2> HIDE DEF taken
    <2> QED BY SMTT(30), <1>5, <2>3, EvolvesFrame, EvolvesTrans
  <1> HIDE DEF taken
  <1>7. Evolves(n, installed) /\ installed \in Working
    BY <1>5, <1>6, EvolvesRefl
  <1> HIDE DEF installed
  <1>8. Evolves(n, following) /\ following \in Working
    <2>1. /\ following \in Working /\ following.id = installed.id
          /\ following.disk = installed.disk /\ following.out = installed.out
      BY ZenonT(30), <1>2, <1>7 DEF Working, Role
    <2> HIDE DEF following
    <2> QED BY <1>7, <2>1, EvolvesFrame, EvolvesTrans
  <1> HIDE DEF following
  <1>9. Evolves(n, Send(n, {no})) /\ Evolves(n, Send(following, {yes}))
    BY ZenonT(30), <1>8, SnapshotReplyType, SendEvolves, EvolvesTrans
  <1> QED BY <1>1, <1>7, <1>9

(* onInstallSnapshotResponse. *)
LEMMA OnInstallSnapshotResponseEvolves ==
    ASSUME NEW n \in Working, NEW m \in Mail, m.type = "InstallSnapshotResponse"
    PROVE  Evolves(n, OnInstallSnapshotResponse(n, m))
  <1> DEFINE matched  == [n EXCEPT !.match[m.from] = m.match, !.next[m.from] = m.match + 1]
             advanced == IF m.match <= n.match[m.from] THEN n ELSE matched
  <1>1. m.from \in Server /\ m.match \in Nat
    BY MailFields DEF SnapshotResponse
  <1>2. OnInstallSnapshotResponse(n, m) =
          IF n.state # "Leader" \/ m.term # n.term \/ m.reject \/ ~IsVoter(n, m.from) THEN n
          ELSE IF advanced.next[m.from] <= LastIndex(n) THEN AppendTo(advanced, m.from) ELSE advanced
    BY DEF OnInstallSnapshotResponse
  <1>3. Evolves(n, matched)
    BY ZenonT(30), <1>1, MatchedEvolves
  <1> HIDE DEF matched
  <1>4. Evolves(n, advanced) /\ advanced \in Working
    BY <1>3, EvolvesRefl, EvolvesWorking
  <1> HIDE DEF advanced
  <1>5. Evolves(n, AppendTo(advanced, m.from))
    BY SMTT(30), <1>1, <1>4, AppendToEvolves, EvolvesTrans
  <1> QED BY <1>2, <1>4, <1>5, EvolvesRefl

----------------------------------------------------------------------------
(* What callers ask of a node                                              *)

(* Propose. *)
LEMMA ProposeEvolves ==
    ASSUME NEW n \in Working, NEW c \in Command
    PROVE  Evolves(n, Propose(n, c))
  <1> DEFINE appended == AppendLocal(n, NormalEntry(n.term, c))
  <1>1. NormalEntry(n.term, c) \in Entry
    BY IndexTypes DEF NormalEntry, Entry, EntryKind
  <1>2. Evolves(n, appended) /\ appended \in Working
    BY SMTT(30), <1>1, AppendLocalEvolves, EvolvesWorking
  <1>3. Propose(n, c) = IF n.state # "Leader" \/ n.faulted THEN n
                        ELSE IF appended.faulted THEN appended ELSE BroadcastAppend(appended)
    BY DEF Propose
  <1> HIDE DEF appended
  <1>4. Evolves(n, BroadcastAppend(appended))
    BY <1>2, BroadcastAppendEvolves, EvolvesTrans
  <1> QED BY SMTT(30), <1>2, <1>3, <1>4, EvolvesRefl

(* The common part of ProposeJoint and ProposeFinal. *)
LEMMA ProposeConfigEvolves ==
    ASSUME NEW n \in Working, NEW e \in Entry
    PROVE  Evolves(n, ProposeConfig(n, e))
  <1> DEFINE appended == AppendLocal(n, e)
             pending  == [appended EXCEPT !.pendingConfig = LastIndex(appended)]
  <1>1. Evolves(n, appended) /\ appended \in Working
    BY AppendLocalEvolves, EvolvesWorking
  <1>2. ProposeConfig(n, e) = IF appended.faulted THEN appended ELSE BroadcastAppend(pending)
    BY DEF ProposeConfig
  <1> HIDE DEF appended
  <1>3. LastIndex(appended) \in Nat
    BY <1>1, IndexTypes
  <1>4. /\ pending \in Working /\ pending.id = appended.id /\ pending.disk = appended.disk
        /\ pending.out = appended.out
    BY ZenonT(30), <1>1, <1>3 DEF Working
  <1> HIDE DEF pending
  <1>5. Evolves(n, pending)
    BY <1>1, <1>4, EvolvesFrame, EvolvesTrans
  <1>6. Evolves(n, BroadcastAppend(pending))
    BY <1>4, <1>5, BroadcastAppendEvolves, EvolvesTrans
  <1> QED BY SMTT(30), <1>1, <1>2, <1>6

(* ProposeJoint. *)
LEMMA ProposeJointEvolves ==
    ASSUME NEW n \in Working, NEW voters \in SUBSET Server
    PROVE  Evolves(n, ProposeJoint(n, voters))
  <1> DEFINE m == EnsurePeers(n, voters)
             e == JointEntry(n.term, n.votersOld, voters)
  <1>1. n.votersOld \in SUBSET Server
    BY DEF Working
  <1>2. e \in Entry
    BY <1>1, IndexTypes DEF JointEntry, Entry, EntryKind
  <1>3. Evolves(n, m) /\ m \in Working
    BY EnsurePeersEvolves, EvolvesWorking
  <1>4. ProposeJoint(n, voters) = IF voters = {} \/ ~CanProposeJoint(n) THEN n ELSE ProposeConfig(m, e)
    BY DEF ProposeJoint
  <1> HIDE DEF m, e
  <1>5. Evolves(n, ProposeConfig(m, e))
    BY SMTT(30), <1>2, <1>3, ProposeConfigEvolves, EvolvesTrans
  <1> QED BY <1>4, <1>5, EvolvesRefl

(* ProposeFinal. *)
LEMMA ProposeFinalEvolves ==
    ASSUME NEW n \in Working
    PROVE  Evolves(n, ProposeFinal(n))
  <1> DEFINE e == FinalEntry(n.term, n.votersNew)
  <1>1. n.votersNew \in SUBSET Server
    BY DEF Working
  <1>2. e \in Entry
    BY <1>1, IndexTypes DEF FinalEntry, Entry, EntryKind
  <1>3. ProposeFinal(n) = IF ~CanProposeFinal(n) THEN n ELSE ProposeConfig(n, e)
    BY DEF ProposeFinal
  <1> HIDE DEF e
  <1> QED BY SMTT(30), <1>2, <1>3, ProposeConfigEvolves, EvolvesRefl

(* StartReadIndex. *)
LEMMA StartReadIndexEvolves ==
    ASSUME NEW n \in Working, NEW context \in ReadContext
    PROVE  Evolves(n, StartReadIndex(n, context))
  <1> DEFINE ready == QuorumMask(n, {n.id})
             ri    == IF ready THEN n.commit ELSE n.readIndex
             m     == [n EXCEPT !.readContext = context, !.readAckMask = {n.id},
                                !.readReady = ready, !.readIndex = ri]
  <1>1. ready \in BOOLEAN
    BY DEF QuorumMask, QuorumOf
  <1>2. ri \in Nat /\ n.peers \subseteq Server /\ n.id \in Server
    BY DEF Working
  <1>3. StartReadIndex(n, context) = IF ~CanStartRead(n) THEN n ELSE AppendToAll(m, n.peers, context)
    BY DEF StartReadIndex
  <1> HIDE DEF ready, ri
  <1>4. m \in Working /\ m.id = n.id /\ m.disk = n.disk /\ m.out = n.out
    BY ZenonT(30), <1>1, <1>2 DEF Working
  <1> HIDE DEF m
  <1>5. Evolves(n, AppendToAll(m, n.peers, context))
    BY <1>2, <1>4, EvolvesFrame, AppendToAllEvolves, EvolvesTrans
  <1> QED BY SMTT(30), <1>3, <1>5, EvolvesRefl

(* TransferLeadership asks another node to vote and casts no vote. *)
LEMMA TransferLeadershipEvolves ==
    ASSUME NEW n \in Working, NEW target \in Server
    PROVE  Evolves(n, TransferLeadership(n, target))
  <1> DEFINE t == TimeoutNowMsg(n, target)
  <1>1. t \in TransferRequest
    BY IndexTypes DEF TimeoutNowMsg, TransferRequest
  <1>2. TransferLeadership(n, target) =
          IF n.state # "Leader" \/ target = n.id \/ ~IsVoter(n, target) THEN n
          ELSE IF n.match[target] < LastIndex(n) THEN AppendTo(n, target) ELSE Send(n, {t})
    BY DEF TransferLeadership
  <1> HIDE DEF t
  <1>3. {t} \subseteq Mail /\ \A x \in {t} : ~IsVote(x)
    BY <1>1, PlainMail
  <1> QED BY <1>2, <1>3, EvolvesRefl, AppendToEvolves, SendEvolves

(* ApplyEntries moves the applied index only. *)
LEMMA ApplyEntriesEvolves ==
    ASSUME NEW n \in Working
    PROVE  LET p == ApplyEntries(n)
           IN  Evolves(n, p) /\ p.out = n.out
  <1> DEFINE a == Max2(n.applied, n.commit)
             p == [n EXCEPT !.applied = a]
  <1>1. a \in Nat
    BY IndexTypes DEF Max2
  <1>2. ApplyEntries(n) = p
    BY DEF ApplyEntries
  <1> HIDE DEF a
  <1>3. p \in Working /\ p.id = n.id /\ p.disk = n.disk /\ p.out = n.out
    BY ZenonT(30), <1>1 DEF Working
  <1> HIDE DEF p
  <1> QED BY SMTT(30), <1>2, <1>3, EvolvesFrame

----------------------------------------------------------------------------
(* Step                                                                    *)

(* Step persists a higher term, without a vote, before it adopts it. *)
LEMMA ObserveTermEvolves ==
    ASSUME NEW n \in Working, NEW m \in Mail
    PROVE  Evolves(n, ObserveTerm(n, m))
  <1> DEFINE persisted == PersistHardState(n, m.term, None, n.commit)
             p == [persisted EXCEPT !.state = "Follower", !.term = m.term, !.votedFor = None,
                                    !.leader = None, !.readReady = FALSE]
  <1>1. m.term \in Nat /\ None \in Server \cup {None} /\ n.commit \in Nat
    BY MailFields, IndexTypes
  <1>2. Evolves(n, persisted) /\ persisted \in Working
    BY ZenonT(30), <1>1, PersistHardStateEvolves, EvolvesWorking
  <1>3. ObserveTerm(n, m) = IF m.type \in PreVoteTypes \/ m.term <= n.term THEN n
                            ELSE IF persisted.faulted THEN persisted ELSE p
    BY DEF ObserveTerm
  <1> HIDE DEF persisted
  <1>4. p \in Working /\ p.id = persisted.id /\ p.disk = persisted.disk /\ p.out = persisted.out
    BY ZenonT(30), <1>1, <1>2 DEF Working, Role
  <1> HIDE DEF p
  <1>5. Evolves(n, p)
    BY <1>2, <1>4, EvolvesFrame, EvolvesTrans
  <1> QED BY <1>2, <1>3, <1>5, EvolvesRefl

(* One handler per type of message. *)
LEMMA DispatchEvolves ==
    ASSUME NEW n \in Working, NEW m \in Mail
    PROVE  Evolves(n, Dispatch(n, m))
  <1>0. m.type \in MessageTypes
    BY MailFields
  <1>1. CASE m.type = "PreVote"
    BY <1>1, OnPreVoteEvolves DEF Dispatch
  <1>2. CASE m.type = "PreVoteResponse"
    BY <1>2, OnPreVoteResponseEvolves DEF Dispatch
  <1>3. CASE m.type = "RequestVote"
    BY <1>3, OnVoteEvolves DEF Dispatch
  <1>4. CASE m.type = "RequestVoteResponse"
    BY <1>4, OnVoteResponseEvolves DEF Dispatch
  <1>5. CASE m.type = "Append"
    BY <1>5, OnAppendEvolves DEF Dispatch
  <1>6. CASE m.type = "AppendResponse"
    BY <1>6, OnAppendResponseEvolves DEF Dispatch
  <1>7. CASE m.type = "InstallSnapshot"
    BY <1>7, OnInstallSnapshotEvolves DEF Dispatch
  <1>8. CASE m.type = "InstallSnapshotResponse"
    BY <1>8, OnInstallSnapshotResponseEvolves DEF Dispatch
  <1>9. CASE m.type = "TimeoutNow"
    BY <1>9, OnTimeoutNowEvolves DEF Dispatch
  <1> QED BY <1>0, <1>1, <1>2, <1>3, <1>4, <1>5, <1>6, <1>7, <1>8, <1>9
          DEF MessageTypes, VoteTypes, PreVoteTypes

(* Step: whatever message arrives, the node evolves. *)
LEMMA StepEvolves ==
    ASSUME NEW n \in Working, NEW m \in Mail
    PROVE  Evolves(n, Step(n, m))
  <1> DEFINE current == ObserveTerm(n, m)
  <1>1. Evolves(n, current) /\ current \in Working
    BY ObserveTermEvolves, EvolvesWorking
  <1>2. Step(n, m) = IF current.faulted THEN current ELSE Dispatch(current, m)
    BY DEF Step
  <1> HIDE DEF current
  <1> QED BY SMTT(30), <1>1, <1>2, DispatchEvolves, EvolvesTrans

----------------------------------------------------------------------------
(* A cluster whose membership does not change                              *)

(* Entries, snapshots, disks and messages that say nothing of another      *)
(* configuration than the one in which every server votes.                 *)
PlainEntry == {e \in Entry : ~IsConfig(e)}

PlainSnapshot ==
    {s \in Snapshot : s.new = {} /\ (s.old = Server \/ (s.old = {} /\ s.index = 0))}

PlainDisk == {d \in Disk : d.log \in Seq(PlainEntry) /\ d.snap \in PlainSnapshot}

SteadyMail == {m \in Mail : /\ m.type = "Append" => m.entries \in Seq(PlainEntry)
                            /\ m.type = "InstallSnapshot" => m.snap \in PlainSnapshot}

(* A node that knows of no other configuration. *)
Steady(n) ==
    /\ n.peers = Server \ {n.id} /\ n.votersOld = Server /\ n.votersNew = {}
    /\ n.log \in Seq(PlainEntry) /\ n.snap \in PlainSnapshot /\ n.disk \in PlainDisk
    /\ n.out \subseteq SteadyMail

Ranked(n, p) == p.state = n.state /\ p.term = n.term /\ p.voteMask = n.voteMask

Leads(m) == m.type \in LeaderTypes

(* The node n may become the node p without an election: p is what n was   *)
(* or a follower, and only a leader has spoken as one.  Messages are only  *)
(* dropped with the role.                                                  *)
Calm(n, p) ==
    /\ p \in Working /\ p.id = n.id /\ Steady(p)
    /\ p.state = "Follower" \/ Ranked(n, p)
    /\ n.out \subseteq p.out \/ (p.state = "Follower" /\ \A m \in p.out : ~Leads(m))
    /\ \A m \in p.out \ n.out : Leads(m) =>
          n.state = "Leader" /\ m.from = n.id /\ m.term = n.term

----------------------------------------------------------------------------
(* Facts about Calm                                                        *)

(* What a node calmly becomes is a steady node. *)
LEMMA CalmNode ==
    ASSUME NEW n, NEW p, Calm(n, p)
    PROVE  p \in Working /\ Steady(p) /\ p.id = n.id
  BY DEF Calm

(* A handler that changes neither the messages nor, but to follower, the   *)
(* role.                                                                   *)
LEMMA CalmFrame ==
    ASSUME NEW n, NEW p \in Working, p.id = n.id, Steady(p), p.out = n.out,
           p.state = "Follower" \/ Ranked(n, p)
    PROVE  Calm(n, p)
  BY DEF Calm

(* A handler that returns early. *)
LEMMA CalmRefl ==
    ASSUME NEW n \in Working, Steady(n)
    PROVE  Calm(n, n)
  BY DEF Calm, Ranked

(* A handler that calls two others in turn. *)
LEMMA CalmTrans ==
    ASSUME NEW n, NEW p, NEW q, Calm(n, p), Calm(p, q)
    PROVE  Calm(n, q)
  <1>1. q \in Working /\ q.id = n.id /\ p.id = n.id /\ Steady(q)
    BY DEF Calm
  <1>2. q.state = "Follower" \/ Ranked(n, q)
    BY DEF Calm, Ranked
  <1>3. ASSUME NEW m \in q.out \ n.out, Leads(m)
        PROVE  n.state = "Leader" /\ m.from = n.id /\ m.term = n.term
    <2>1. CASE m \in p.out
      BY <1>3, <2>1 DEF Calm
    <2>2. CASE m \notin p.out
      <3>1. p.state = "Leader" /\ m.from = p.id /\ m.term = p.term
        BY <1>3, <2>2 DEF Calm
      <3>2. Ranked(n, p)
        BY <3>1 DEF Calm
      <3> QED BY SMTT(30), <1>1, <3>1, <3>2 DEF Ranked
    <2> QED BY SMTT(30), <2>1, <2>2
  <1>4. n.out \subseteq q.out \/ (q.state = "Follower" /\ \A m \in q.out : ~Leads(m))
    <2>1. CASE n.out \subseteq p.out
      BY <2>1 DEF Calm
    <2>2. CASE p.state = "Follower" /\ \A m \in p.out : ~Leads(m)
      BY <2>2 DEF Calm, Ranked
    <2> QED BY SMTT(30), <2>1, <2>2 DEF Calm
  <1> QED BY SMTT(30), <1>1, <1>2, <1>3, <1>4 DEF Calm

(* A steady node stays so when nothing that Steady reads changes. *)
LEMMA SteadyFrame ==
    ASSUME NEW n, Steady(n), NEW p, p.id = n.id, p.peers = n.peers, p.votersOld = n.votersOld,
           p.votersNew = n.votersNew, p.log = n.log, p.snap = n.snap, p.disk = n.disk,
           p.out = n.out
    PROVE  Steady(p)
  BY DEF Steady

----------------------------------------------------------------------------
(* The log holds no configuration entry                                    *)

(* Truncating, compacting and appending keep the log free of them. *)
LEMMA PlainLogs ==
    ASSUME NEW x, x.log \in Seq(PlainEntry), x.base \in Nat
    PROVE  /\ \A k \in Int : Present(x, k) => UpTo(x, k) \in Seq(PlainEntry)
           /\ \A k \in Int : Present(x, k) => After(x, k) \in Seq(PlainEntry)
           /\ \A e \in PlainEntry : Append(x.log, e) \in Seq(PlainEntry)
           /\ \A k \in Int : x.base < k /\ k <= LastIndex(x) => EntryAt(x, k) \in PlainEntry
  <1>1. ASSUME NEW k \in Int, Present(x, k)
        PROVE  UpTo(x, k) \in Seq(PlainEntry)
    <2>1. \A i \in 1 .. k - x.base : x.log[i] \in PlainEntry
      BY <1>1 DEF Present, LastIndex
    <2>2. k - x.base \in Nat
      BY <1>1 DEF Present
    <2> QED BY <2>1, <2>2 DEF UpTo
  <1>2. ASSUME NEW k \in Int, Present(x, k)
        PROVE  After(x, k) \in Seq(PlainEntry)
    <2>1. \A i \in k - x.base + 1 .. Len(x.log) : x.log[i] \in PlainEntry
      BY <1>2 DEF Present, LastIndex
    <2>2. k - x.base + 1 \in Int /\ Len(x.log) \in Int
      OBVIOUS
    <2> QED BY <2>1, <2>2 DEF After
  <1>3. \A e \in PlainEntry : Append(x.log, e) \in Seq(PlainEntry)
    OBVIOUS
  <1>4. ASSUME NEW k \in Int, x.base < k, k <= LastIndex(x)
        PROVE  EntryAt(x, k) \in PlainEntry
    <2>1. k - x.base \in 1 .. Len(x.log)
      BY <1>4 DEF LastIndex
    <2> QED BY <2>1 DEF EntryAt
  <1> QED BY SMTT(30), <1>1, <1>2, <1>3, <1>4

(* The log of a steady node and that of its disk. *)
LEMMA SteadyLogs ==
    ASSUME NEW n \in Working, Steady(n)
    PROVE  /\ n.log \in Seq(PlainEntry) /\ n.base \in Nat
           /\ n.disk \in PlainDisk /\ n.disk.log \in Seq(PlainEntry) /\ n.disk.base \in Nat
  BY WorkingLog DEF Steady, PlainDisk, IsLog

(* No part of the log names a configuration. *)
LEMMA NoConfigs ==
    ASSUME NEW n \in Working, Steady(n), NEW first \in Nat, NEW last \in Int, last <= LastIndex(n)
    PROVE  ConfigIndexes(n, first, last) = {}
  <1> SUFFICES ASSUME NEW k \in first .. last, k > n.base, IsConfig(EntryAt(n, k)) PROVE FALSE
    BY DEF ConfigIndexes
  <1>1. LastIndex(n) \in Nat
    BY IndexTypes
  <1>2. k \in Int /\ n.base < k /\ k <= LastIndex(n)
    BY SMTT(30), <1>1, SteadyLogs
  <1>3. EntryAt(n, k) \in PlainEntry
    BY SMTT(30), <1>2, SteadyLogs, PlainLogs
  <1> QED BY <1>3 DEF PlainEntry

(* Every server votes, and a quorum is a majority of all servers. *)
LEMMA SteadyQuorum ==
    ASSUME NEW n \in Working, Steady(n), NEW acked, QuorumMask(n, acked)
    PROVE  Majority(Server, acked)
  <1> DEFINE joints == {j \in n.commit + 1 .. LastIndex(n) :
                           j > n.base /\ EntryAt(n, j).kind = "joint"}
  <1>1. n.commit \in Nat /\ LastIndex(n) \in Nat
    BY IndexTypes
  <1>2. joints = {}
    <2> SUFFICES ASSUME NEW j \in n.commit + 1 .. LastIndex(n), j > n.base,
                        EntryAt(n, j).kind = "joint"
                 PROVE  FALSE
      OBVIOUS
    <2>1. EntryAt(n, j) \in PlainEntry
      BY SMTT(30), <1>1, SteadyLogs, PlainLogs
    <2> QED BY <2>1 DEF PlainEntry, IsConfig
  <1>3. VotersAsOf(n, LastIndex(n)) = [old |-> n.votersOld, new |-> n.votersNew]
    BY <1>2 DEF VotersAsOf
  <1> QED BY <1>3 DEF QuorumMask, QuorumOf, Steady

----------------------------------------------------------------------------
(* The store boundary                                                      *)

(* failStorage makes the node a follower and drops what it would send. *)
LEMMA FailStorageCalm ==
    ASSUME NEW n \in Working, Steady(n), NEW why \in Reason
    PROVE  Calm(n, FailStorage(n, why))
  <1> DEFINE p == FailStorage(n, why)
  <1>1. p \in Working /\ p.id = n.id
    BY ZenonT(30), FailStorageEvolves DEF Evolves
  <1>2. /\ p.peers = n.peers /\ p.votersOld = n.votersOld /\ p.votersNew = n.votersNew
        /\ p.log = n.log /\ p.snap = n.snap /\ p.disk = n.disk /\ p.out = {}
        /\ p.state = "Follower"
    BY DEF FailStorage, Working
  <1> HIDE DEF p
  <1>3. Steady(p)
    BY SMTT(30), <1>1, <1>2 DEF Steady
  <1>4. Calm(n, p)
    BY SMTT(30), <1>1, <1>2, <1>3 DEF Calm
  <1> QED BY <1>4 DEF p

(* A node whose disk alone changes. *)
LEMMA DiskCalm ==
    ASSUME NEW n \in Working, Steady(n), NEW d \in PlainDisk, NEW k \in Nat
    PROVE  LET p == [n EXCEPT !.disk = d, !.ops = k]
           IN  Calm(n, p) /\ Ranked(n, p)
  <1> DEFINE p == [n EXCEPT !.disk = d, !.ops = k]
  <1>0. d \in Disk
    BY DEF PlainDisk
  <1>1. p \in Working
    BY ZenonT(30), <1>0 DEF Working
  <1>2. /\ p.id = n.id /\ p.peers = n.peers /\ p.votersOld = n.votersOld
        /\ p.votersNew = n.votersNew /\ p.log = n.log /\ p.snap = n.snap /\ p.disk = d
        /\ p.out = n.out /\ p.state = n.state /\ p.term = n.term /\ p.voteMask = n.voteMask
    BY DEF Working
  <1> HIDE DEF p
  <1>3. Steady(p) /\ Ranked(n, p)
    BY <1>2 DEF Steady, Ranked
  <1>4. Calm(n, p)
    BY SMTT(30), <1>1, <1>2, <1>3, CalmFrame
  <1> QED BY <1>3, <1>4 DEF p

(* A store call that is refused, fails, lands late or succeeds. *)
LEMMA StoreCallCalm ==
    ASSUME NEW n \in Working, Steady(n), NEW accepts \in BOOLEAN, NEW image,
           accepts => image \in PlainDisk
    PROVE  LET p == StoreCall(n, accepts, image)
           IN  Calm(n, p) /\ (p.faulted = FALSE => Ranked(n, p))
  <1> DEFINE p == StoreCall(n, accepts, image)
  <1>f. \A q \in Working, why \in Reason : FailStorage(q, why).faulted = TRUE
    BY ZenonT(30), FailStorageEvolves
  <1>1. CASE ~accepts
    BY ZenonT(30), <1>1, <1>f, FailStorageCalm DEF StoreCall, Reason
  <1>2. CASE accepts /\ n.ops = 0
    <2> DEFINE d == IF n.landed THEN image ELSE n.disk
               m == [n EXCEPT !.disk = d]
               w == [n EXCEPT !.disk = d, !.ops = 0]
    <2>1. d \in PlainDisk
      BY <1>2, SteadyLogs
    <2> HIDE DEF d
    <2>2. m = w
      BY ZenonT(30), <1>2 DEF Working
    <2>3. Calm(n, w)
      BY ZenonT(30), <2>1, DiskCalm
    <2>4. p = FailStorage(m, "io")
      BY <1>2 DEF StoreCall, d
    <2> HIDE DEF m, w
    <2>5. m \in Working /\ Steady(m) /\ Calm(n, m)
      BY <2>2, <2>3, CalmNode
    <2> QED BY ZenonT(30), <1>f, <2>4, <2>5, FailStorageCalm, CalmTrans DEF Reason
  <1>3. CASE accepts /\ n.ops # 0
    <2>1. n.ops - 1 \in Nat
      <3>1. n.ops \in Nat
        BY ZenonT(30) DEF Working
      <3>2. \A k \in Nat : k # 0 => k - 1 \in Nat
        OBVIOUS
      <3> QED BY ONLY ZenonT(30), <1>3, <3>1, <3>2
    <2>2. p = [n EXCEPT !.disk = image, !.ops = n.ops - 1]
      BY <1>3 DEF StoreCall
    <2> QED BY ZenonT(30), <1>3, <2>1, <2>2, DiskCalm
  <1> QED BY ZenonT(30), <1>1, <1>2, <1>3

(* persistHardState. *)
LEMMA PersistHardStateCalm ==
    ASSUME NEW n \in Working, Steady(n), NEW t \in Nat, NEW v \in Server \cup {None}, NEW c \in Nat
    PROVE  LET p == PersistHardState(n, t, v, c)
           IN  Calm(n, p) /\ (p.faulted = FALSE => Ranked(n, p))
  <1> DEFINE h == [term |-> t, votedFor |-> v, commit |-> c]
             d == WithHardState(n.disk, h)
             a == AcceptsHardState(n.disk, h)
  <1>1. d \in Disk /\ d.log = n.disk.log /\ d.snap = n.disk.snap
    BY SMTT(30), HardType DEF WithHardState, Disk, HardState
  <1>2. d \in PlainDisk
    <2> HIDE DEF d
    <2> QED BY SMTT(30), <1>1, SteadyLogs DEF PlainDisk
  <1>3. a \in BOOLEAN
    BY DEF AcceptsHardState
  <1>4. PersistHardState(n, t, v, c) = StoreCall(n, a, d)
    BY DEF PersistHardState
  <1> HIDE DEF a, d
  <1> QED BY ZenonT(30), <1>2, <1>3, <1>4, StoreCallCalm

(* Storing an entry that is no configuration. *)
LEMMA PersistEntryCalm ==
    ASSUME NEW n \in Working, Steady(n), NEW k \in Nat, NEW e \in PlainEntry
    PROVE  LET p == PersistEntry(n, k, e)
           IN  Calm(n, p) /\ (p.faulted = FALSE => Ranked(n, p))
  <1> DEFINE d == WithEntry(n.disk, k, e)
             a == AcceptsAppend(n.disk, k)
             l == Append(UpTo(n.disk, k - 1), e)
  <1>0. e \in Entry
    BY DEF PlainEntry
  <1>1. a => d \in PlainDisk
    <2> SUFFICES ASSUME a PROVE d \in PlainDisk
      OBVIOUS
    <2>1. Present(n.disk, k - 1) /\ k - 1 \in Int
      BY WorkingLog DEF AcceptsAppend, Present, IsLog, LastIndex
    <2>2. UpTo(n.disk, k - 1) \in Seq(PlainEntry) /\ UpTo(n.disk, k - 1) \in Seq(Entry)
      BY SMTT(30), <2>1, WorkingLog, UpToFacts, SteadyLogs, PlainLogs
    <2>3. l \in Seq(PlainEntry) /\ l \in Seq(Entry)
      BY <1>0, <2>2
    <2>4. d = [n.disk EXCEPT !.log = l]
      BY DEF WithEntry
    <2> HIDE DEF l
    <2>5. d \in Disk /\ d.log = l /\ d.snap = n.disk.snap
      BY ZenonT(30), <2>3, <2>4, HardType DEF Disk
    <2> HIDE DEF d
    <2> QED BY SMTT(30), <2>3, <2>5, SteadyLogs DEF PlainDisk
  <1>2. a \in BOOLEAN
    BY DEF AcceptsAppend
  <1>3. PersistEntry(n, k, e) = StoreCall(n, a, d)
    BY DEF PersistEntry
  <1> HIDE DEF a, d
  <1> QED BY ZenonT(30), <1>1, <1>2, <1>3, StoreCallCalm

(* Fencing the WAL. *)
LEMMA CompactedPlain ==
    ASSUME NEW d \in PlainDisk
    PROVE  Compacted(d) \in PlainDisk
  <1>1. /\ d \in Disk /\ d.log \in Seq(PlainEntry) /\ d.base \in Nat
        /\ d.snap \in PlainSnapshot /\ d.snap.index \in Nat
    BY DEF PlainDisk, Disk, Snapshot
  <1> DEFINE l == IF AgreesWithSnapshot(d) THEN After(d, d.snap.index) ELSE << >>
  <1>2. l \in Seq(PlainEntry)
    <2>1. AgreesWithSnapshot(d) => After(d, d.snap.index) \in Seq(PlainEntry)
      BY <1>1, PlainLogs DEF AgreesWithSnapshot
    <2> QED BY SMTT(30), <2>1
  <1>3. Compacted(d) = [d EXCEPT !.base = d.snap.index, !.baseTerm = d.snap.term, !.log = l]
    BY DEF Compacted
  <1> HIDE DEF l
  <1>4. Compacted(d).log = l /\ Compacted(d).snap = d.snap
    BY ZenonT(30), <1>1, <1>3 DEF Disk
  <1>5. Compacted(d) \in Disk
    BY <1>1, CompactedType
  <1> QED BY SMTT(30), <1>1, <1>2, <1>4, <1>5 DEF PlainDisk

(* SaveSnapshot and CompactLog, for a snapshot of the one configuration. *)
LEMMA PersistSnapshotCalm ==
    ASSUME NEW n \in Working, Steady(n), NEW s \in PlainSnapshot
    PROVE  LET p == PersistSnapshot(n, s)
           IN  Calm(n, p) /\ (p.faulted = FALSE => Ranked(n, p))
  <1> DEFINE a == AcceptsSnapshot(n.disk, s)
             d == WithSnapshot(n.disk, s)
             saved == StoreCall(n, a, d)
             b == AcceptsCompact(saved.disk, s.index)
             c == Compacted(saved.disk)
             fenced == StoreCall(saved, b, c)
  <1>0. s \in Snapshot
    BY DEF PlainSnapshot
  <1>1. d \in PlainDisk
    <2>1. d \in Disk /\ d.log = n.disk.log /\ d.snap = s
      BY SMTT(30), <1>0, HardType DEF WithSnapshot, Disk
    <2> HIDE DEF d
    <2> QED BY <2>1, SteadyLogs DEF PlainDisk
  <1>2. a \in BOOLEAN /\ b \in BOOLEAN
    BY DEF AcceptsSnapshot, AcceptsCompact
  <1>3. Calm(n, saved) /\ (saved.faulted = FALSE => Ranked(n, saved))
    <2> HIDE DEF a, d
    <2> QED BY ZenonT(30), <1>1, <1>2, StoreCallCalm
  <1>4. PersistSnapshot(n, s) = IF saved.faulted THEN saved ELSE fenced
    BY DEF PersistSnapshot
  <1> HIDE DEF saved
  <1>5. saved \in Working /\ Steady(saved) /\ saved.faulted \in BOOLEAN
    BY SMTT(30), <1>3, CalmNode, FaultedType
  <1>6. c \in PlainDisk
    BY <1>5, SteadyLogs, CompactedPlain
  <1> HIDE DEF b, c
  <1>7. Calm(saved, fenced) /\ (fenced.faulted = FALSE => Ranked(saved, fenced))
    BY ZenonT(30), <1>2, <1>5, <1>6, StoreCallCalm
  <1> HIDE DEF fenced
  <1>8. CASE saved.faulted = TRUE
    BY SMTT(30), <1>3, <1>4, <1>8
  <1>9. CASE saved.faulted = FALSE
    <2>1. PersistSnapshot(n, s) = fenced
      BY <1>4, <1>9
    <2>2. Calm(n, fenced)
      BY SMTT(30), <1>3, <1>7, CalmTrans
    <2>3. fenced.faulted = FALSE => Ranked(n, fenced)
      BY SMTT(30), <1>3, <1>7, <1>9 DEF Ranked
    <2> QED BY SMTT(30), <2>1, <2>2, <2>3
  <1> QED BY ZenonT(30), <1>5, <1>8, <1>9

----------------------------------------------------------------------------
(* Messages                                                                *)

(* Sending messages that only a leader sends as a leader. *)
LEMMA SendCalm ==
    ASSUME NEW n \in Working, Steady(n), NEW ms, ms \subseteq SteadyMail,
           \A m \in ms : Leads(m) => n.state = "Leader" /\ m.from = n.id /\ m.term = n.term
    PROVE  Calm(n, Send(n, ms))
  <1> DEFINE p == Send(n, ms)
  <1>0. ms \subseteq Mail
    BY DEF SteadyMail
  <1>1. p \in Working
    BY ZenonT(30), <1>0 DEF Working, Send
  <1>2. /\ p.id = n.id /\ p.peers = n.peers /\ p.votersOld = n.votersOld
        /\ p.votersNew = n.votersNew /\ p.log = n.log /\ p.snap = n.snap /\ p.disk = n.disk
        /\ p.out = n.out \cup ms /\ p.state = n.state /\ p.term = n.term
        /\ p.voteMask = n.voteMask
    BY DEF Working, Send
  <1> HIDE DEF p
  <1>3. Steady(p) /\ Ranked(n, p)
    BY SMTT(30), <1>2 DEF Steady, Ranked
  <1>4. Calm(n, p)
    BY <1>1, <1>2, <1>3 DEF Calm
  <1> QED BY <1>4 DEF p

(* Any other answer than an append or a snapshot is steady. *)
LEMMA OtherMail ==
    ASSUME NEW m \in Mail, m.type \notin {"Append", "InstallSnapshot"}
    PROVE  m \in SteadyMail
  BY SMTT(30) DEF SteadyMail

(* appendTo speaks for the leader and names no configuration. *)
LEMMA AppendMsgSteady ==
    ASSUME NEW n \in Working, Steady(n), NEW p \in Server, NEW context \in ReadContext \cup {None}
    PROVE  LET m == AppendMsg(n, p, context)
           IN  m \in SteadyMail /\ m.from = n.id /\ m.term = n.term
  <1> DEFINE m == AppendMsg(n, p, context)
  <1>0. m \in Mail
    BY SMTT(30), AppendMsgType
  <1>1. IsLog(n) /\ LastIndex(n) \in Nat /\ n.next[p] \in Nat /\ n.base \in Nat
    BY ZenonT(30), WorkingLog, LogFacts DEF Working
  <1>2. CASE n.next[p] <= n.base
    <2>1. m.type = "InstallSnapshot" /\ m.snap = n.snap /\ m.from = n.id /\ m.term = n.term
      BY ZenonT(30), <1>2 DEF AppendMsg
    <2>2. m \in SteadyMail
      <3> HIDE DEF m
      <3> QED BY SMTT(30), <1>0, <2>1 DEF SteadyMail, Steady
    <2> QED BY SMTT(30), <2>1, <2>2
  <1>3. CASE ~(n.next[p] <= n.base)
    <2> DEFINE next == Max2(1, Min2(n.next[p], LastIndex(n) + 1))
               es == IF next <= LastIndex(n) THEN << EntryAt(n, next) >> ELSE << >>
    <2>1. next \in Nat /\ n.base < next
      BY SMTT(30), <1>1, <1>3, LogFacts DEF Max2, Min2
    <2>2. m.type = "Append" /\ m.entries = es /\ m.from = n.id /\ m.term = n.term
      BY ZenonT(30), <1>3 DEF AppendMsg
    <2> HIDE DEF next
    <2>3. es \in Seq(PlainEntry)
      <3>1. next <= LastIndex(n) => EntryAt(n, next) \in PlainEntry
        BY SMTT(30), <2>1, SteadyLogs, PlainLogs
      <3> QED BY SMTT(30), <3>1
    <2>4. m \in SteadyMail
      <3> HIDE DEF m, es
      <3> QED BY SMTT(30), <1>0, <2>2, <2>3 DEF SteadyMail
    <2> QED BY SMTT(30), <2>2, <2>4
  <1> QED BY <1>2, <1>3

(* A leader's appends to any set of peers. *)
LEMMA AppendToAllCalm ==
    ASSUME NEW n \in Working, Steady(n), n.state = "Leader", NEW peers, peers \subseteq Server,
           NEW context \in ReadContext \cup {None}
    PROVE  Calm(n, AppendToAll(n, peers, context))
  <1> DEFINE f == [p \in Server |-> IF p \in peers THEN Min2(n.next[p], LastIndex(n) + 1)
                                                   ELSE n.next[p]]
             m == [n EXCEPT !.next = f]
             ms == {AppendMsg(n, p, context) : p \in peers}
  <1>1. f \in [Server -> Nat]
    <2>1. n.next \in [Server -> Nat] /\ LastIndex(n) \in Nat
      BY ZenonT(30), IndexTypes DEF Working
    <2> QED BY SMTT(30), <2>1 DEF Min2
  <1> HIDE DEF f
  <1>2. m \in Working
    BY ZenonT(30), <1>1 DEF Working
  <1>3. /\ m.id = n.id /\ m.peers = n.peers /\ m.votersOld = n.votersOld
        /\ m.votersNew = n.votersNew /\ m.log = n.log /\ m.snap = n.snap /\ m.disk = n.disk
        /\ m.out = n.out /\ m.state = n.state /\ m.term = n.term /\ m.voteMask = n.voteMask
    BY DEF Working
  <1>4. ms \subseteq SteadyMail /\ \A x \in ms : x.from = n.id /\ x.term = n.term
    BY AppendMsgSteady
  <1>5. AppendToAll(n, peers, context) = Send(m, ms)
    BY SMTT(30) DEF AppendToAll, f
  <1> HIDE DEF m, ms
  <1>6. Steady(m) /\ Calm(n, m)
    BY SMTT(30), <1>2, <1>3, SteadyFrame, CalmFrame DEF Ranked
  <1>7. Calm(m, Send(m, ms))
    BY SMTT(30), <1>2, <1>3, <1>4, <1>6, SendCalm
  <1> QED BY SMTT(30), <1>5, <1>6, <1>7, CalmTrans

(* appendTo, to one peer. *)
LEMMA AppendToCalm ==
    ASSUME NEW n \in Working, Steady(n), n.state = "Leader", NEW p \in Server
    PROVE  Calm(n, AppendTo(n, p))
  <1>1. {p} \subseteq Server /\ None \in ReadContext \cup {None}
    BY SMTT(30)
  <1> QED BY <1>1, AppendToAllCalm DEF AppendTo

(* broadcastAppend, to every peer that votes. *)
LEMMA BroadcastAppendCalm ==
    ASSUME NEW n \in Working, Steady(n), n.state = "Leader"
    PROVE  Calm(n, BroadcastAppend(n))
  <1>1. {p \in n.peers : IsVoter(n, p)} \subseteq Server /\ None \in ReadContext \cup {None}
    BY DEF Working
  <1> QED BY SMTT(30), <1>1, AppendToAllCalm DEF BroadcastAppend

----------------------------------------------------------------------------
(* Configurations and the leader's log                                     *)

(* ensurePeers finds no peer that is missing. *)
LEMMA EnsurePeersCalm ==
    ASSUME NEW n \in Working, Steady(n), NEW voters, voters \subseteq Server
    PROVE  LET p == EnsurePeers(n, voters)
           IN  Calm(n, p) /\ Ranked(n, p)
  <1> DEFINE p == EnsurePeers(n, voters)
  <1>1. p \in Working
    BY SMTT(30), EnsurePeersEvolves, EvolvesWorking
  <1>2. p.peers = n.peers \cup ((voters \ {n.id}) \ n.peers)
    BY DEF EnsurePeers, Working
  <1>3. /\ p.id = n.id /\ p.votersOld = n.votersOld
        /\ p.votersNew = n.votersNew /\ p.log = n.log /\ p.snap = n.snap /\ p.disk = n.disk
        /\ p.out = n.out /\ p.state = n.state /\ p.term = n.term /\ p.voteMask = n.voteMask
    BY DEF EnsurePeers, Working
  <1> HIDE DEF p
  <1>4. p.peers = n.peers
    BY SMTT(30), <1>2 DEF Steady
  <1>5. Steady(p) /\ Ranked(n, p)
    BY SMTT(30), <1>3, <1>4, SteadyFrame DEF Ranked
  <1>6. Calm(n, p)
    BY SMTT(30), <1>1, <1>3, <1>5, CalmFrame
  <1> QED BY SMTT(30), <1>5, <1>6 DEF p

(* Noting or clearing a pending configuration changes nothing else. *)
LEMMA PendingCalm ==
    ASSUME NEW n \in Working, Steady(n), NEW c \in Nat
    PROVE  LET p == [n EXCEPT !.pendingConfig = c]
           IN  Calm(n, p) /\ Ranked(n, p)
  <1> DEFINE p == [n EXCEPT !.pendingConfig = c]
  <1>1. p \in Working
    BY ZenonT(30) DEF Working
  <1>2. /\ p.id = n.id /\ p.peers = n.peers /\ p.votersOld = n.votersOld
        /\ p.votersNew = n.votersNew /\ p.log = n.log /\ p.snap = n.snap /\ p.disk = n.disk
        /\ p.out = n.out /\ p.state = n.state /\ p.term = n.term /\ p.voteMask = n.voteMask
    BY DEF Working
  <1> HIDE DEF p
  <1>3. Steady(p) /\ Ranked(n, p)
    BY SMTT(30), <1>2, SteadyFrame DEF Ranked
  <1>4. Calm(n, p)
    BY SMTT(30), <1>1, <1>2, <1>3, CalmFrame
  <1> QED BY <1>3, <1>4 DEF p

(* applyCommittedConfigurations finds nothing to apply. *)
LEMMA ApplyCommittedConfigurationsCalm ==
    ASSUME NEW n \in Working, Steady(n), NEW first \in Nat, NEW last \in Nat, last <= LastIndex(n)
    PROVE  LET p == ApplyCommittedConfigurations(n, first, last)
           IN  Calm(n, p) /\ Ranked(n, p)
  <1> DEFINE c == IF n.pendingConfig \in first .. last /\ n.pendingConfig > n.base
                  THEN 0 ELSE n.pendingConfig
  <1>1. ConfigIndexes(n, first, last) = {}
    BY NoConfigs
  <1>2. ApplyCommittedConfigurations(n, first, last) = SettlePending(n, first, last)
    BY SMTT(30), <1>1 DEF ApplyCommittedConfigurations
  <1>3. c \in Nat
    BY DEF Working
  <1>4. SettlePending(n, first, last) = [n EXCEPT !.pendingConfig = c]
    BY DEF SettlePending
  <1> HIDE DEF c
  <1> QED BY ZenonT(30), <1>2, <1>3, <1>4, PendingCalm

(* rebuildPendingConfig finds nothing pending. *)
LEMMA RebuildPendingConfigCalm ==
    ASSUME NEW n \in Working, Steady(n)
    PROVE  LET p == RebuildPendingConfig(n)
           IN  Calm(n, p) /\ Ranked(n, p)
  <1> DEFINE m == EnsurePeers(n, VotersNamed(n, {}))
             p == [m EXCEPT !.pendingConfig = 0]
  <1>1. n.commit + 1 \in Nat /\ LastIndex(n) \in Nat
    BY IndexTypes
  <1>2. ConfigIndexes(n, n.commit + 1, LastIndex(n)) = {}
    BY <1>1, NoConfigs
  <1>3. RebuildPendingConfig(n) = p
    BY SMTT(30), <1>2 DEF RebuildPendingConfig
  <1>4. VotersNamed(n, {}) \subseteq Server
    BY DEF VotersNamed
  <1>5. Calm(n, m) /\ Ranked(n, m)
    BY ZenonT(30), <1>4, EnsurePeersCalm
  <1> HIDE DEF m
  <1>6. m \in Working /\ Steady(m) /\ 0 \in Nat
    BY <1>5, CalmNode
  <1>7. Calm(m, p) /\ Ranked(m, p)
    BY ZenonT(30), <1>6, PendingCalm
  <1> HIDE DEF p
  <1>8. Calm(n, p) /\ Ranked(n, p)
    BY SMTT(30), <1>5, <1>7, CalmTrans DEF Ranked
  <1> QED BY SMTT(30), <1>3, <1>8

(* The node remembers c as its commit index. *)
LEMMA CommitCalm ==
    ASSUME NEW n \in Working, Steady(n), NEW c \in Nat, c <= LastIndex(n), NEW first \in Nat,
           PersistHardState(n, n.term, n.votedFor, c).faulted = FALSE
    PROVE  LET p == PersistHardState(n, n.term, n.votedFor, c)
               q == ApplyCommittedConfigurations([p EXCEPT !.commit = c], first, c)
           IN  Calm(n, q) /\ Ranked(n, q)
  <1> DEFINE p == PersistHardState(n, n.term, n.votedFor, c)
             h == [term |-> n.term, votedFor |-> n.votedFor, commit |-> c]
             m == [p EXCEPT !.commit = c]
             q == ApplyCommittedConfigurations(m, first, c)
  <1>1. p = Stored(n, WithHardState(n.disk, h))
    BY ZenonT(30), IndexTypes, PersistHardStateEvolves
  <1>2. Calm(n, p) /\ Ranked(n, p)
    BY ZenonT(30), IndexTypes, PersistHardStateCalm
  <1>3. SameLog(n, p)
    BY <1>1, StoredFrame
  <1> HIDE DEF p
  <1>4. p \in Working /\ Steady(p)
    BY <1>2, CalmNode
  <1>5. m \in Working
    BY ZenonT(30), <1>4 DEF Working
  <1>6. /\ m.id = p.id /\ m.peers = p.peers /\ m.votersOld = p.votersOld /\ m.base = p.base
        /\ m.votersNew = p.votersNew /\ m.log = p.log /\ m.snap = p.snap /\ m.disk = p.disk
        /\ m.out = p.out /\ m.state = p.state /\ m.term = p.term /\ m.voteMask = p.voteMask
    BY <1>4 DEF Working
  <1> HIDE DEF m
  <1>7. Steady(m) /\ Ranked(p, m)
    BY SMTT(30), <1>4, <1>6, SteadyFrame DEF Ranked
  <1>8. Calm(p, m)
    BY SMTT(30), <1>5, <1>6, <1>7, CalmFrame
  <1>9. c <= LastIndex(m)
    BY <1>3, <1>6 DEF LastIndex, SameLog
  <1>10. Calm(m, q) /\ Ranked(m, q)
    BY ZenonT(30), <1>5, <1>7, <1>9, ApplyCommittedConfigurationsCalm
  <1> HIDE DEF q
  <1>11. Calm(n, q) /\ Ranked(n, q)
    BY SMTT(30), <1>2, <1>7, <1>8, <1>10, CalmTrans DEF Ranked
  <1> QED BY <1>11 DEF q, m, p

(* A log of plain entries in place of the node's own. *)
LEMMA LogCalm ==
    ASSUME NEW n \in Working, Steady(n), NEW l \in Seq(PlainEntry), l \in Seq(Entry)
    PROVE  LET p == [n EXCEPT !.log = l]
           IN  Calm(n, p) /\ Ranked(n, p)
  <1> DEFINE p == [n EXCEPT !.log = l]
  <1>1. p \in Working
    BY ZenonT(30) DEF Working
  <1>2. /\ p.id = n.id /\ p.peers = n.peers /\ p.votersOld = n.votersOld
        /\ p.votersNew = n.votersNew /\ p.log = l /\ p.snap = n.snap /\ p.disk = n.disk
        /\ p.out = n.out /\ p.state = n.state /\ p.term = n.term /\ p.voteMask = n.voteMask
    BY DEF Working
  <1> HIDE DEF p
  <1>3. Steady(p) /\ Ranked(n, p)
    BY <1>2 DEF Steady, Ranked
  <1>4. Calm(n, p)
    BY SMTT(30), <1>1, <1>2, <1>3, CalmFrame
  <1> QED BY <1>3, <1>4 DEF p

(* Appending a plain entry to the log in memory. *)
LEMMA ExtendCalm ==
    ASSUME NEW n \in Working, Steady(n), NEW e \in PlainEntry
    PROVE  LET p == [n EXCEPT !.log = Append(@, e)]
           IN  Calm(n, p) /\ Ranked(n, p)
  <1>1. Append(n.log, e) \in Seq(PlainEntry)
    BY SMTT(30), SteadyLogs, PlainLogs
  <1>2. Append(n.log, e) \in Seq(Entry)
    BY AppendFacts DEF Working, PlainEntry
  <1> DEFINE l == Append(n.log, e)
  <1>3. [n EXCEPT !.log = Append(@, e)] = [n EXCEPT !.log = l]
    OBVIOUS
  <1> HIDE DEF l
  <1>4. l \in Seq(PlainEntry) /\ l \in Seq(Entry)
    BY SMTT(30), <1>1, <1>2 DEF l
  <1> QED BY ZenonT(30), <1>3, <1>4, LogCalm

(* appendLocal; unless the store fails the role stays. *)
LEMMA AppendLocalCalm ==
    ASSUME NEW n \in Working, Steady(n), NEW e \in PlainEntry
    PROVE  LET p == AppendLocal(n, e)
           IN  Calm(n, p) /\ (p.faulted = FALSE => Ranked(n, p))
  <1> DEFINE stored    == PersistEntry(n, LastIndex(n) + 1, e)
             appended  == [stored EXCEPT !.log = Append(@, e)]
             last      == LastIndex(appended)
             persisted == PersistHardState(appended, appended.term, appended.votedFor, last)
             committed == ApplyCommittedConfigurations([persisted EXCEPT !.commit = last],
                                                       n.commit + 1, last)
  <1>0. LastIndex(n) + 1 \in Nat /\ n.commit + 1 \in Nat
    BY IndexTypes
  <1>1. Calm(n, stored) /\ (stored.faulted = FALSE => Ranked(n, stored))
    BY ZenonT(30), <1>0, PersistEntryCalm
  <1> HIDE DEF stored
  <1>2. stored \in Working /\ Steady(stored) /\ stored.faulted \in BOOLEAN
    BY <1>1, CalmNode, FaultedType
  <1>3. Calm(stored, appended) /\ Ranked(stored, appended)
    BY ZenonT(30), <1>2, ExtendCalm
  <1> HIDE DEF appended
  <1>4. appended \in Working /\ Steady(appended) /\ Calm(n, appended)
    BY SMTT(30), <1>1, <1>3, CalmNode, CalmTrans
  <1>5. /\ last \in Nat /\ last <= LastIndex(appended)
        /\ appended.term \in Nat /\ appended.votedFor \in Server \cup {None}
    BY <1>4, IndexTypes
  <1>6. Calm(appended, persisted) /\ (persisted.faulted = FALSE => Ranked(appended, persisted))
    BY ZenonT(30), <1>4, <1>5, PersistHardStateCalm
  <1>7. persisted.faulted = FALSE => Calm(appended, committed) /\ Ranked(appended, committed)
    BY ZenonT(30), <1>0, <1>4, <1>5, CommitCalm
  <1>8. AppendLocal(n, e) = IF stored.faulted THEN stored
                            ELSE IF ~QuorumMask(appended, {n.id}) THEN appended
                            ELSE IF persisted.faulted THEN persisted ELSE committed
    BY SMTT(30) DEF AppendLocal, stored, appended
  <1> HIDE DEF persisted, committed
  <1>9. persisted \in Working /\ persisted.faulted \in BOOLEAN
    BY SMTT(30), <1>6, CalmNode, FaultedType
  <1>10. CASE stored.faulted = TRUE
    BY SMTT(30), <1>1, <1>8, <1>10
  <1>11. CASE stored.faulted = FALSE /\ ~QuorumMask(appended, {n.id})
    BY SMTT(30), <1>1, <1>3, <1>4, <1>8, <1>11 DEF Ranked
  <1>12. CASE stored.faulted = FALSE /\ QuorumMask(appended, {n.id}) /\ persisted.faulted = TRUE
    BY SMTT(30), <1>4, <1>6, <1>8, <1>12, CalmTrans
  <1>13. CASE stored.faulted = FALSE /\ QuorumMask(appended, {n.id}) /\ persisted.faulted = FALSE
    <2>1. AppendLocal(n, e) = committed
      BY SMTT(30), <1>8, <1>13
    <2>2. Calm(n, committed) /\ Ranked(n, committed)
      BY SMTT(30), <1>1, <1>3, <1>4, <1>7, <1>13, CalmTrans DEF Ranked
    <2> QED BY SMTT(30), <2>1, <2>2
  <1> QED BY ZenonT(30), <1>2, <1>9, <1>10, <1>11, <1>12, <1>13
=============================================================================
