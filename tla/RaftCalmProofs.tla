--------------------------- MODULE RaftCalmProofs ---------------------------
(***************************************************************************)
(* The handlers of a cluster whose membership does not change: those that  *)
(* hold no election and the rest of a turn; and the handlers that do, with *)
(* the votes that they count.                                              *)
(***************************************************************************)
EXTENDS RaftStepProofs

----------------------------------------------------------------------------
(* Votes granted and pre-votes                                             *)

(* onPreVote answers. *)
LEMMA OnPreVoteCalm ==
    ASSUME NEW n \in Working, Steady(n), NEW m \in Mail
    PROVE  Calm(n, OnPreVote(n, m))
  <1>1. m.from \in Server /\ m.term \in Nat
    BY MailFields
  <1> DEFINE grant == IsVoter(n, m.from) /\ m.term >= n.term + 1 /\ UpToDate(n, m) /\ n.leader = None
             r == PreVoteReply(n, m, ~grant)
  <1>2. r \in VoteResponse /\ r.type = "PreVoteResponse"
    <2>1. (~grant) \in BOOLEAN
      BY DEF IsVoter, UpToDate
    <2> HIDE DEF grant
    <2> QED BY <1>1, <2>1, IndexTypes DEF PreVoteReply, VoteResponse
  <1>3. OnPreVote(n, m) = Send(n, {r})
    BY DEF OnPreVote
  <1> HIDE DEF r
  <1>4. r \in SteadyMail
    BY <1>2, PlainMail, OtherMail
  <1>5. \A x \in {r} : ~Leads(x)
    BY <1>2 DEF Leads, LeaderTypes
  <1> QED BY SMTT(30), <1>3, <1>4, <1>5, SendCalm

(* The answer of onVote. *)
LEMMA VoteReplySteady ==
    ASSUME NEW n \in Working, NEW m \in Mail, NEW reject \in BOOLEAN
    PROVE  LET r == VoteReply(n, m, reject)
           IN  {r} \subseteq SteadyMail /\ \A x \in {r} : ~Leads(x)
  <1> DEFINE r == VoteReply(n, m, reject)
  <1>1. r \in Mail
    BY VoteReplyType
  <1>2. r.type = "RequestVoteResponse"
    BY DEF VoteReply
  <1> HIDE DEF r
  <1>3. r \in SteadyMail /\ ~Leads(r)
    BY SMTT(30), <1>1, <1>2, OtherMail DEF Leads, LeaderTypes
  <1> QED BY <1>3 DEF r

(* onVote stores and grants the vote, or answers no. *)
LEMMA OnVoteCalm ==
    ASSUME NEW n \in Working, Steady(n), NEW m \in Mail
    PROVE  Calm(n, OnVote(n, m))
  <1> DEFINE grant     == /\ IsVoter(n, m.from) /\ m.term = n.term
                          /\ n.votedFor \in {None, m.from} /\ UpToDate(n, m)
             persisted == PersistHardState(n, n.term, m.from, n.commit)
             voted     == [persisted EXCEPT !.votedFor = m.from]
             no        == VoteReply(n, m, TRUE)
             yes       == VoteReply(n, m, FALSE)
  <1>0. /\ m.from \in Server \cup {None} /\ n.term \in Nat /\ n.commit \in Nat
    BY MailFields, IndexTypes
  <1>1. /\ {no} \subseteq SteadyMail /\ \A x \in {no} : ~Leads(x)
        /\ {yes} \subseteq SteadyMail /\ \A x \in {yes} : ~Leads(x)
    BY ZenonT(30), VoteReplySteady
  <1>2. Calm(n, persisted)
    BY ZenonT(30), <1>0, PersistHardStateCalm
  <1>3. OnVote(n, m) = IF ~grant THEN Send(n, {no})
                       ELSE IF persisted.faulted THEN persisted ELSE Send(voted, {yes})
    BY DEF OnVote
  <1> HIDE DEF persisted, yes, no, grant
  <1>4. persisted \in Working /\ Steady(persisted)
    BY <1>2, CalmNode
  <1>5. voted \in Working
    BY ZenonT(30), <1>0, <1>4 DEF Working
  <1>6. /\ voted.id = persisted.id /\ voted.peers = persisted.peers
        /\ voted.votersOld = persisted.votersOld /\ voted.votersNew = persisted.votersNew
        /\ voted.log = persisted.log /\ voted.snap = persisted.snap
        /\ voted.disk = persisted.disk /\ voted.out = persisted.out
        /\ voted.state = persisted.state /\ voted.term = persisted.term
        /\ voted.voteMask = persisted.voteMask
    BY <1>4 DEF Working
  <1> HIDE DEF voted
  <1>7. Steady(voted) /\ Calm(persisted, voted)
    BY <1>4, <1>5, <1>6, SteadyFrame, CalmFrame DEF Ranked
  <1>8. Calm(voted, Send(voted, {yes})) /\ Calm(n, Send(n, {no}))
    BY SMTT(30), <1>1, <1>5, <1>7, SendCalm
  <1> QED BY SMTT(30), <1>2, <1>3, <1>7, <1>8, CalmTrans

----------------------------------------------------------------------------
(* Replication, the follower's side                                        *)

(* The accepted entry of onAppend. *)
LEMMA AcceptEntryCalm ==
    ASSUME NEW n \in Working, Steady(n), NEW at \in Nat, Present(n, at - 1), NEW e \in PlainEntry
    PROVE  Calm(n, AcceptEntry(n, at, e))
  <1> DEFINE conflict  == Present(n, at) /\ TermAt(n, at) # e.term
             l         == UpTo(n, at - 1)
             cut       == [n EXCEPT !.log = l]
             truncated == IF conflict THEN RebuildPendingConfig(cut) ELSE n
             stored    == PersistEntry(truncated, at, e)
             appended  == [stored EXCEPT !.log = Append(@, e)]
  <1>0. at - 1 \in Int
    OBVIOUS
  <1>1. AcceptEntry(n, at, e) = IF at # LastIndex(truncated) + 1 THEN truncated
                                ELSE IF stored.faulted THEN stored ELSE appended
    <2>1. ~IsConfig(e)
      BY DEF PlainEntry
    <2> QED BY <2>1 DEF AcceptEntry
  <1>2. l \in Seq(PlainEntry) /\ l \in Seq(Entry)
    BY SMTT(30), <1>0, WorkingLog, UpToFacts, SteadyLogs, PlainLogs
  <1> HIDE DEF l
  <1>3. Calm(n, cut)
    BY ZenonT(30), <1>2, LogCalm
  <1> HIDE DEF cut
  <1>4. cut \in Working /\ Steady(cut)
    BY SMTT(30), <1>3, CalmNode
  <1>5. Calm(cut, RebuildPendingConfig(cut))
    BY ZenonT(30), <1>4, RebuildPendingConfigCalm
  <1>6. Calm(n, truncated)
    BY SMTT(30), <1>3, <1>5, CalmTrans, CalmRefl
  <1> HIDE DEF truncated, conflict
  <1>7. truncated \in Working /\ Steady(truncated)
    BY <1>6, CalmNode
  <1>8. Calm(truncated, stored)
    BY ZenonT(30), <1>7, PersistEntryCalm
  <1> HIDE DEF stored
  <1>9. stored \in Working /\ Steady(stored)
    BY <1>8, CalmNode
  <1>10. Calm(stored, appended)
    BY ZenonT(30), <1>9, ExtendCalm
  <1> HIDE DEF appended
  <1> QED BY SMTT(30), <1>1, <1>6, <1>8, <1>10, CalmTrans

(* The commit index of onAppend. *)
LEMMA AcceptCommitCalm ==
    ASSUME NEW n \in Working, Steady(n), NEW m, m.commit \in Nat, NEW matched \in Nat,
           matched <= LastIndex(n)
    PROVE  Calm(n, AcceptCommit(n, m, matched))
  <1> DEFINE commit    == Min2(m.commit, matched)
             persisted == PersistHardState(n, n.term, n.votedFor, commit)
             committed == ApplyCommittedConfigurations([persisted EXCEPT !.commit = commit],
                                                       n.commit + 1, commit)
  <1>1. /\ commit \in Nat /\ commit <= LastIndex(n) /\ n.commit + 1 \in Nat
        /\ n.term \in Nat /\ n.votedFor \in Server \cup {None}
    BY IndexTypes DEF Min2
  <1>2. AcceptCommit(n, m, matched) =
          IF m.commit <= n.commit \/ matched <= n.commit THEN n
          ELSE IF persisted.faulted THEN persisted ELSE committed
    BY DEF AcceptCommit
  <1> HIDE DEF commit
  <1>3. Calm(n, persisted)
    BY ZenonT(30), <1>1, PersistHardStateCalm
  <1>4. persisted.faulted = FALSE => Calm(n, committed)
    BY ZenonT(30), <1>1, CommitCalm
  <1> HIDE DEF persisted, committed
  <1>5. persisted.faulted \in BOOLEAN
    BY SMTT(30), <1>3, CalmNode, FaultedType
  <1> QED BY SMTT(30), <1>2, <1>3, <1>4, <1>5, CalmRefl

(* The answer of onAppend. *)
LEMMA AppendReplySteady ==
    ASSUME NEW n \in Working, NEW m \in Mail, m.type = "Append", NEW reject \in BOOLEAN,
           NEW match \in Nat
    PROVE  LET r == AppendReply(n, m, reject, match)
           IN  {r} \subseteq SteadyMail /\ \A x \in {r} : ~Leads(x)
  <1> DEFINE r == AppendReply(n, m, reject, match)
  <1>1. {r} \subseteq Mail
    BY ZenonT(30), AppendReplyType
  <1>2. r.type = "AppendResponse"
    BY DEF AppendReply
  <1> HIDE DEF r
  <1>3. r \in SteadyMail /\ ~Leads(r)
    BY SMTT(30), <1>1, <1>2, OtherMail DEF Leads, LeaderTypes
  <1> QED BY <1>3 DEF r

(* A node that turns follower. *)
LEMMA FollowCalm ==
    ASSUME NEW n \in Working, Steady(n), NEW leader \in Server \cup {None}
    PROVE  Calm(n, [n EXCEPT !.state = "Follower", !.leader = leader])
  <1> DEFINE p == [n EXCEPT !.state = "Follower", !.leader = leader]
  <1>1. p \in Working
    BY ZenonT(30) DEF Working, Role
  <1>2. /\ p.id = n.id /\ p.peers = n.peers /\ p.votersOld = n.votersOld
        /\ p.votersNew = n.votersNew /\ p.log = n.log /\ p.snap = n.snap /\ p.disk = n.disk
        /\ p.out = n.out /\ p.state = "Follower"
    BY DEF Working
  <1> HIDE DEF p
  <1>3. Steady(p)
    BY <1>2, SteadyFrame
  <1>4. Calm(n, p)
    BY SMTT(30), <1>1, <1>2, <1>3, CalmFrame
  <1> QED BY <1>4 DEF p

(* onAppend, rejected or accepted. *)
LEMMA OnAppendCalm ==
    ASSUME NEW n \in Working, Steady(n), NEW m \in SteadyMail, m.type = "Append"
    PROVE  Calm(n, OnAppend(n, m))
  <1> DEFINE matched   == m.logIndex + Len(m.entries)
             following == [n EXCEPT !.state = "Follower", !.leader = m.from]
             extended  == IF m.entries = << >> THEN following
                          ELSE AcceptEntry(following, m.logIndex + 1, m.entries[1])
             committed == AcceptCommit(extended, m, matched)
             no        == AppendReply(n, m, TRUE, LastIndex(n))
             yes       == AppendReply(n, m, FALSE, matched)
  <1>0. m \in Mail /\ m.entries \in Seq(PlainEntry)
    BY DEF SteadyMail
  <1>1. /\ m.logIndex \in Nat /\ m.entries \in Seq(Entry) /\ Len(m.entries) <= 1
        /\ m.commit \in Nat /\ m.from \in Server
    BY <1>0, MailFields DEF AppendRequest
  <1>2. /\ matched \in Nat
        /\ m.entries = << >> => matched = m.logIndex
        /\ m.entries # << >> => matched = m.logIndex + 1
    BY <1>1
  <1>2a. m.entries # << >> => m.entries[1] \in PlainEntry
    BY <1>0
  <1> HIDE DEF matched
  <1>3. Calm(n, Send(n, {no}))
    <2>1. {no} \subseteq SteadyMail /\ \A x \in {no} : ~Leads(x)
      BY ZenonT(30), <1>0, IndexTypes, AppendReplySteady
    <2> HIDE DEF no
    <2> QED BY <2>1, SendCalm
  <1>4. Calm(n, following)
    BY ZenonT(30), <1>1, FollowCalm
  <1>4a. following.log = n.log /\ following.base = n.base
    BY DEF Working
  <1> HIDE DEF following
  <1>4b. following \in Working /\ Steady(following)
    BY <1>4, CalmNode
  <1>5. ASSUME ~RejectsAppend(n, m)
        PROVE  /\ Calm(n, extended)
               /\ extended.faulted = FALSE => matched <= LastIndex(extended)
    <2>1. Present(following, m.logIndex)
      BY SMTT(30), <1>4a, <1>5 DEF RejectsAppend, Present, LastIndex
    <2>2. CASE m.entries = << >>
      BY SMTT(30), <1>2, <1>4, <2>1, <2>2 DEF Present
    <2>3. CASE m.entries # << >>
      <3>1. (m.logIndex + 1) - 1 = m.logIndex /\ m.logIndex + 1 \in Nat /\ m.entries[1] \in Entry
        BY SMTT(30), <1>1, <1>2a, <2>3 DEF PlainEntry
      <3>2. extended.faulted = FALSE => m.logIndex + 1 <= LastIndex(extended)
        BY ZenonT(30), <1>4b, <2>1, <2>3, <3>1, AcceptEntryEvolves
      <3>3. Calm(following, extended)
        BY ZenonT(30), <1>2a, <1>4b, <2>1, <2>3, <3>1, AcceptEntryCalm
      <3> HIDE DEF extended
      <3> QED BY SMTT(30), <1>2, <1>4, <2>3, <3>2, <3>3, CalmTrans
    <2> QED BY ZenonT(30), <2>2, <2>3
  <1>6. OnAppend(n, m) = IF RejectsAppend(n, m) THEN Send(n, {no})
                         ELSE IF extended.faulted THEN extended
                         ELSE IF committed.faulted THEN committed ELSE Send(committed, {yes})
    BY DEF OnAppend, following, matched
  <1>7. CASE RejectsAppend(n, m)
    BY SMTT(30), <1>3, <1>6, <1>7
  <1>8. CASE ~RejectsAppend(n, m)
    <2> HIDE DEF extended
    <2>0. extended \in Working /\ Steady(extended) /\ extended.faulted \in BOOLEAN
      BY SMTT(30), <1>5, <1>8, CalmNode, FaultedType
    <2>1. CASE extended.faulted = TRUE
      BY SMTT(30), <1>5, <1>6, <1>8, <2>1
    <2>2. CASE extended.faulted = FALSE
      <3>1. Calm(extended, committed)
        BY ZenonT(30), <1>1, <1>2, <1>5, <1>8, <2>0, <2>2, AcceptCommitCalm
      <3> HIDE DEF committed, yes
      <3>2. committed \in Working /\ Steady(committed)
        BY <3>1, CalmNode
      <3>3. {yes} \subseteq SteadyMail /\ \A x \in {yes} : ~Leads(x)
        BY ZenonT(30), <1>0, <1>2, AppendReplySteady DEF yes
      <3>4. Calm(committed, Send(committed, {yes}))
        BY SMTT(30), <3>2, <3>3, SendCalm
      <3> QED BY SMTT(30), <1>5, <1>6, <1>8, <2>2, <3>1, <3>4, CalmTrans
    <2> QED BY ZenonT(30), <2>0, <2>1, <2>2
  <1> QED BY <1>7, <1>8

----------------------------------------------------------------------------
(* Replication, the leader's side                                          *)

(* The read barrier. *)
LEMMA AckReadCalm ==
    ASSUME NEW n \in Working, Steady(n), NEW m \in Mail
    PROVE  Calm(n, AckRead(n, m))
  <1> DEFINE p == AckRead(n, m)
  <1>1. p \in Working
    BY SMTT(30), AckReadEvolves, EvolvesWorking
  <1>2. /\ p.id = n.id /\ p.peers = n.peers /\ p.votersOld = n.votersOld
        /\ p.votersNew = n.votersNew /\ p.log = n.log /\ p.snap = n.snap /\ p.disk = n.disk
        /\ p.out = n.out /\ p.state = n.state /\ p.term = n.term /\ p.voteMask = n.voteMask
    BY DEF AckRead, Working
  <1> HIDE DEF p
  <1>3. Calm(n, p)
    BY SMTT(30), <1>1, <1>2, SteadyFrame, CalmFrame DEF Ranked
  <1> QED BY <1>3 DEF p

(* The commit loop of onAppendResponse. *)
LEMMA AdvanceCommitCalm ==
    ASSUME NEW n \in Working, Steady(n)
    PROVE  Calm(n, AdvanceCommit(n))
  <1> DEFINE acked(k)   == {n.id} \cup {p \in n.peers : n.match[p] >= k}
             commitable == {k \in n.commit + 1 .. LastIndex(n) :
                              TermAt(n, k) = n.term /\ CanCommitIndex(n, k, acked(k))}
             k          == SetMax(commitable)
             persisted  == PersistHardState(n, n.term, n.votedFor, k)
             committed  == ApplyCommittedConfigurations([persisted EXCEPT !.commit = k],
                                                        n.commit + 1, k)
  <1>1. AdvanceCommit(n) = IF commitable = {} THEN n
                           ELSE IF persisted.faulted THEN persisted
                           ELSE IF committed.state = "Leader" THEN BroadcastAppend(committed)
                           ELSE committed
    BY DEF AdvanceCommit
  <1>2. /\ n.commit + 1 \in Nat /\ LastIndex(n) \in Nat /\ n.term \in Nat
        /\ n.votedFor \in Server \cup {None}
    BY IndexTypes
  <1>3. commitable \subseteq Nat /\ \A j \in commitable : j <= LastIndex(n)
    BY <1>2
  <1> HIDE DEF commitable
  <1>4. CASE commitable = {}
    BY SMTT(30), <1>1, <1>4, CalmRefl
  <1>5. CASE commitable # {}
    <2>1. k \in Nat /\ k <= LastIndex(n)
      BY ZenonT(30), <1>2, <1>3, <1>5, SetMaxBounded
    <2> HIDE DEF k
    <2>2. Calm(n, persisted)
      BY ZenonT(30), <1>2, <2>1, PersistHardStateCalm
    <2>3. persisted.faulted = FALSE => Calm(n, committed)
      BY ZenonT(30), <1>2, <2>1, CommitCalm
    <2> HIDE DEF persisted, committed
    <2>4. ASSUME persisted.faulted = FALSE, committed.state = "Leader"
          PROVE  Calm(n, BroadcastAppend(committed))
      BY SMTT(30), <2>3, <2>4, CalmNode, BroadcastAppendCalm, CalmTrans
    <2>5. persisted.faulted \in BOOLEAN
      BY SMTT(30), <2>2, CalmNode, FaultedType
    <2> QED BY ZenonT(30), <1>1, <1>5, <2>2, <2>3, <2>4, <2>5
  <1> QED BY SMTT(30), <1>4, <1>5

(* A leader that notes what it knows of its peers. *)
LEMMA ProgressCalm ==
    ASSUME NEW n \in Working, Steady(n), NEW f \in [Server -> Nat], NEW g \in [Server -> Nat]
    PROVE  LET p == [n EXCEPT !.next = f, !.match = g]
           IN  Calm(n, p) /\ Ranked(n, p)
  <1> DEFINE p == [n EXCEPT !.next = f, !.match = g]
  <1>1. p \in Working
    BY ZenonT(30) DEF Working
  <1>2. /\ p.id = n.id /\ p.peers = n.peers /\ p.votersOld = n.votersOld
        /\ p.votersNew = n.votersNew /\ p.log = n.log /\ p.snap = n.snap /\ p.disk = n.disk
        /\ p.out = n.out /\ p.state = n.state /\ p.term = n.term /\ p.voteMask = n.voteMask
    BY DEF Working
  <1> HIDE DEF p
  <1>3. Calm(n, p) /\ Ranked(n, p)
    BY <1>1, <1>2, SteadyFrame, CalmFrame DEF Ranked
  <1> QED BY <1>3 DEF p

(* The next index after a rejection. *)
LEMMA BackOffCalm ==
    ASSUME NEW n \in Working, Steady(n), NEW p \in Server
    PROVE  LET q == BackOff(n, p)
           IN  Calm(n, q) /\ Ranked(n, q)
  <1> DEFINE q == BackOff(n, p)
  <1>1. q \in Working
    BY SMTT(30), BackOffEvolves, EvolvesWorking
  <1>2. /\ q.id = n.id /\ q.peers = n.peers /\ q.votersOld = n.votersOld
        /\ q.votersNew = n.votersNew /\ q.log = n.log /\ q.snap = n.snap /\ q.disk = n.disk
        /\ q.out = n.out /\ q.state = n.state /\ q.term = n.term /\ q.voteMask = n.voteMask
    BY DEF BackOff, Working
  <1> HIDE DEF q
  <1>3. Calm(n, q) /\ Ranked(n, q)
    BY SMTT(30), <1>1, <1>2, SteadyFrame, CalmFrame DEF Ranked
  <1> QED BY <1>3 DEF q

(* The leader notes what a peer has acknowledged. *)
LEMMA MatchedCalm ==
    ASSUME NEW n \in Working, Steady(n), NEW p \in Server, NEW k \in Nat
    PROVE  LET q == [n EXCEPT !.match[p] = k, !.next[p] = k + 1]
           IN  Calm(n, q) /\ Ranked(n, q)
  <1> DEFINE q == [n EXCEPT !.match[p] = k, !.next[p] = k + 1]
  <1>1. q \in Working
    BY ZenonT(30), MatchedEvolves, EvolvesWorking
  <1>2. /\ q.id = n.id /\ q.peers = n.peers /\ q.votersOld = n.votersOld
        /\ q.votersNew = n.votersNew /\ q.log = n.log /\ q.snap = n.snap /\ q.disk = n.disk
        /\ q.out = n.out /\ q.state = n.state /\ q.term = n.term /\ q.voteMask = n.voteMask
    BY DEF Working
  <1> HIDE DEF q
  <1>3. Calm(n, q) /\ Ranked(n, q)
    BY SMTT(30), <1>1, <1>2, SteadyFrame, CalmFrame DEF Ranked
  <1> QED BY <1>3 DEF q

(* onAppendResponse. *)
LEMMA OnAppendResponseCalm ==
    ASSUME NEW n \in Working, Steady(n), NEW m \in Mail, m.type = "AppendResponse"
    PROVE  Calm(n, OnAppendResponse(n, m))
  <1> DEFINE r        == AckRead(n, m)
             matched  == [r EXCEPT !.match[m.from] = m.match, !.next[m.from] = m.match + 1]
             advanced == AdvanceCommit(matched)
             back     == BackOff(r, m.from)
  <1>1. m.from \in Server /\ m.match \in Nat
    BY MailFields DEF AppendResponse
  <1>2. OnAppendResponse(n, m) =
          IF r.state # "Leader" \/ m.term # r.term \/ m.match > LastIndex(r) THEN r
          ELSE IF m.reject THEN AppendTo(back, m.from)
          ELSE IF advanced.state = "Leader" /\ advanced.next[m.from] <= LastIndex(advanced)
               THEN AppendTo(advanced, m.from) ELSE advanced
    BY DEF OnAppendResponse
  <1>3. Calm(n, r) /\ r \in Working /\ Steady(r)
    BY AckReadCalm, CalmNode
  <1> HIDE DEF r
  <1>4. Calm(r, back) /\ Ranked(r, back)
    BY ZenonT(30), <1>1, <1>3, BackOffCalm
  <1> HIDE DEF back
  <1>5. r.state = "Leader" => Calm(n, AppendTo(back, m.from))
    <2>1. back \in Working /\ Steady(back)
      BY <1>4, CalmNode
    <2>2. r.state = "Leader" => Calm(back, AppendTo(back, m.from))
      BY SMTT(30), <1>1, <1>4, <2>1, AppendToCalm DEF Ranked
    <2> QED BY SMTT(30), <1>3, <1>4, <2>2, CalmTrans
  <1>6. Calm(r, matched)
    BY ZenonT(30), <1>1, <1>3, MatchedCalm
  <1> HIDE DEF matched
  <1>7. Calm(n, matched) /\ matched \in Working /\ Steady(matched)
    BY SMTT(30), <1>3, <1>6, CalmTrans, CalmNode
  <1>8. Calm(n, advanced) /\ advanced \in Working /\ Steady(advanced)
    BY SMTT(30), <1>7, AdvanceCommitCalm, CalmTrans, CalmNode
  <1> HIDE DEF advanced
  <1>9. advanced.state = "Leader" => Calm(n, AppendTo(advanced, m.from))
    BY SMTT(30), <1>1, <1>8, AppendToCalm, CalmTrans
  <1> QED BY SMTT(30), <1>2, <1>3, <1>5, <1>8, <1>9

----------------------------------------------------------------------------
(* Snapshots                                                               *)

(* Compact takes a snapshot of the one configuration. *)
LEMMA CompactCalm ==
    ASSUME NEW n \in Working, Steady(n), NEW k \in Nat
    PROVE  Calm(n, Compact(n, k))
  <1> DEFINE snap  == [index |-> k, term |-> TermAt(n, k), old |-> n.votersOld, new |-> n.votersNew]
             saved == PersistSnapshot(n, snap)
             l     == After(n, k)
             done  == [saved EXCEPT !.log = l, !.base = k, !.baseTerm = snap.term,
                                    !.snap = snap]
  <1>1. Compact(n, k) = IF k <= n.base \/ k > n.applied \/ ~Present(n, k) THEN n
                        ELSE IF saved.faulted THEN saved ELSE done
    BY DEF Compact
  <1>2. CASE ~Present(n, k)
    BY SMTT(30), <1>1, <1>2, CalmRefl
  <1>3. CASE Present(n, k)
    <2>1. TermAt(n, k) \in Nat /\ l \in Seq(Entry) /\ l \in Seq(PlainEntry)
      BY SMTT(30), <1>3, WorkingLog, LogFacts, AfterFacts, SteadyLogs, PlainLogs
    <2>2. snap \in Snapshot /\ snap.term \in Nat
      BY ZenonT(30), <2>1 DEF Snapshot, Working
    <2>3. snap.old = Server /\ snap.new = {}
      BY DEF Steady
    <2> HIDE DEF snap, l
    <2>4. snap \in PlainSnapshot
      BY <2>2, <2>3 DEF PlainSnapshot
    <2>5. Calm(n, saved) /\ saved \in Working /\ Steady(saved)
      BY ZenonT(30), <2>4, PersistSnapshotCalm, CalmNode
    <2> HIDE DEF saved
    <2>6. done \in Working
      BY ZenonT(30), <2>1, <2>2, <2>5 DEF Working
    <2>7. /\ done.id = saved.id /\ done.peers = saved.peers /\ done.votersOld = saved.votersOld
          /\ done.votersNew = saved.votersNew /\ done.log = l /\ done.snap = snap
          /\ done.disk = saved.disk /\ done.out = saved.out /\ done.state = saved.state
          /\ done.term = saved.term /\ done.voteMask = saved.voteMask
      BY <2>5 DEF Working
    <2> HIDE DEF done
    <2>8. Steady(done)
      BY SMTT(30), <2>1, <2>4, <2>5, <2>7 DEF Steady
    <2>9. Calm(saved, done)
      BY SMTT(30), <2>6, <2>7, <2>8, CalmFrame DEF Ranked
    <2> QED BY SMTT(30), <1>1, <2>5, <2>9, CalmTrans, CalmRefl
  <1> QED BY SMTT(30), <1>2, <1>3

(* The answer of onInstallSnapshot. *)
LEMMA SnapshotReplySteady ==
    ASSUME NEW n \in Working, NEW m \in Mail, NEW reject \in BOOLEAN
    PROVE  LET r == SnapshotReply(n, m, reject)
           IN  {r} \subseteq SteadyMail /\ \A x \in {r} : ~Leads(x)
  <1> DEFINE r == SnapshotReply(n, m, reject)
  <1>1. {r} \subseteq Mail
    BY ZenonT(30), SnapshotReplyType
  <1>2. r.type = "InstallSnapshotResponse"
    BY DEF SnapshotReply
  <1> HIDE DEF r
  <1>3. r \in SteadyMail /\ ~Leads(r)
    BY SMTT(30), <1>1, <1>2, OtherMail DEF Leads, LeaderTypes
  <1> QED BY <1>3 DEF r

(* onInstallSnapshot: a snapshot without voters is rejected, any other     *)
(* holds the one configuration.                                            *)
LEMMA OnInstallSnapshotCalm ==
    ASSUME NEW n \in Working, Steady(n), NEW m \in SteadyMail, m.type = "InstallSnapshot"
    PROVE  Calm(n, OnInstallSnapshot(n, m))
  <1> DEFINE s         == m.snap
             l         == InstalledLog(n, s)
             saved     == PersistSnapshot(n, s)
             commit    == Max2(saved.commit, s.index)
             applied   == Max2(saved.applied, s.index)
             taken     == [saved EXCEPT !.log = l, !.base = s.index, !.baseTerm = s.term,
                                        !.snap = s, !.votersOld = s.old, !.votersNew = s.new,
                                        !.commit = commit, !.applied = applied]
             installed == IF s.index = n.base THEN n ELSE IF saved.faulted THEN saved ELSE taken
             following == [installed EXCEPT !.state = "Follower", !.leader = m.from]
             no        == SnapshotReply(n, m, TRUE)
             yes       == SnapshotReply(following, m, FALSE)
  <1>0. m \in Mail /\ s \in PlainSnapshot
    BY DEF SteadyMail
  <1>1. OnInstallSnapshot(n, m) = IF RejectsSnapshot(n, m) THEN Send(n, {no})
                                  ELSE IF installed.faulted THEN installed
                                  ELSE Send(following, {yes})
    BY DEF OnInstallSnapshot
  <1>2. m.from \in Server \cup {None} /\ s \in Snapshot /\ s.index \in Nat /\ s.term \in Nat
    BY SMTT(30), <1>0, MailFields DEF PlainSnapshot, Snapshot
  <1>3. CASE RejectsSnapshot(n, m)
    <2>1. {no} \subseteq SteadyMail /\ \A x \in {no} : ~Leads(x)
      BY ZenonT(30), <1>0, SnapshotReplySteady
    <2> HIDE DEF no
    <2> QED BY SMTT(30), <1>1, <1>3, <2>1, SendCalm
  <1>4. CASE ~RejectsSnapshot(n, m)
    <2>1. s.old = Server /\ s.new = {}
      BY SMTT(30), <1>0, <1>4 DEF RejectsSnapshot, PlainSnapshot
    <2> HIDE DEF s
    <2>2. l \in Seq(Entry) /\ l \in Seq(PlainEntry)
      <3>1. Present(n, s.index) => After(n, s.index) \in Seq(Entry) /\ After(n, s.index) \in Seq(PlainEntry)
        BY SMTT(30), <1>2, WorkingLog, AfterFacts, SteadyLogs, PlainLogs
      <3> QED BY SMTT(30), <3>1 DEF InstalledLog
    <2> HIDE DEF l
    <2>3. Calm(n, saved) /\ saved \in Working /\ Steady(saved)
      BY ZenonT(30), <1>0, PersistSnapshotCalm, CalmNode
    <2> HIDE DEF saved
    <2>4. commit \in Nat /\ applied \in Nat
      BY SMTT(30), <1>2, <2>3, IndexTypes DEF Max2
    <2> HIDE DEF commit, applied
    <2>5. taken \in Working
      <3>1. s.old \in SUBSET Server /\ s.new \in SUBSET Server
        BY <2>1
      <3> QED BY ZenonT(30), <1>2, <2>2, <2>3, <2>4, <3>1 DEF Working
    <2>6. /\ taken.id = saved.id /\ taken.peers = saved.peers /\ taken.votersOld = s.old
          /\ taken.votersNew = s.new /\ taken.log = l /\ taken.snap = s
          /\ taken.disk = saved.disk /\ taken.out = saved.out /\ taken.state = saved.state
          /\ taken.term = saved.term /\ taken.voteMask = saved.voteMask
      BY <2>3 DEF Working
    <2> HIDE DEF taken
    <2>7. Steady(taken)
      BY SMTT(30), <1>0, <2>1, <2>2, <2>3, <2>6 DEF Steady
    <2>8. Calm(saved, taken)
      BY SMTT(30), <2>5, <2>6, <2>7, CalmFrame DEF Ranked
    <2>9. Calm(n, installed)
      BY SMTT(30), <2>3, <2>8, CalmTrans, CalmRefl
    <2> HIDE DEF installed
    <2>10. installed \in Working /\ Steady(installed)
      BY <2>9, CalmNode
    <2>11. Calm(installed, following)
      BY ZenonT(30), <1>2, <2>10, FollowCalm
    <2> HIDE DEF following
    <2>12. following \in Working /\ Steady(following)
      BY SMTT(30), <2>11, CalmNode
    <2>13. {yes} \subseteq SteadyMail /\ \A x \in {yes} : ~Leads(x)
      BY ZenonT(30), <1>0, <2>12, SnapshotReplySteady
    <2> HIDE DEF yes
    <2>14. Calm(following, Send(following, {yes}))
      BY SMTT(30), <2>12, <2>13, SendCalm
    <2> QED BY SMTT(30), <1>1, <1>4, <2>9, <2>11, <2>14, CalmTrans
  <1> QED BY SMTT(30), <1>3, <1>4

(* onInstallSnapshotResponse. *)
LEMMA OnInstallSnapshotResponseCalm ==
    ASSUME NEW n \in Working, Steady(n), NEW m \in Mail, m.type = "InstallSnapshotResponse"
    PROVE  Calm(n, OnInstallSnapshotResponse(n, m))
  <1> DEFINE matched  == [n EXCEPT !.match[m.from] = m.match, !.next[m.from] = m.match + 1]
             advanced == IF m.match <= n.match[m.from] THEN n ELSE matched
  <1>1. m.from \in Server /\ m.match \in Nat
    BY MailFields DEF SnapshotResponse
  <1>2. OnInstallSnapshotResponse(n, m) =
          IF n.state # "Leader" \/ m.term # n.term \/ m.reject \/ ~IsVoter(n, m.from) THEN n
          ELSE IF advanced.next[m.from] <= LastIndex(n) THEN AppendTo(advanced, m.from) ELSE advanced
    BY DEF OnInstallSnapshotResponse
  <1>3. Calm(n, matched) /\ Ranked(n, matched)
    BY ZenonT(30), <1>1, MatchedCalm
  <1> HIDE DEF matched
  <1>4. Calm(n, advanced) /\ Ranked(n, advanced)
    BY SMTT(30), <1>3, CalmRefl DEF Ranked
  <1> HIDE DEF advanced
  <1>5. n.state = "Leader" => Calm(n, AppendTo(advanced, m.from))
    BY SMTT(30), <1>1, <1>4, CalmNode, AppendToCalm, CalmTrans DEF Ranked
  <1> QED BY SMTT(30), <1>2, <1>4, <1>5, CalmRefl

----------------------------------------------------------------------------
(* What callers ask of a node                                              *)

(* Propose. *)
LEMMA ProposeCalm ==
    ASSUME NEW n \in Working, Steady(n), NEW c \in Command
    PROVE  Calm(n, Propose(n, c))
  <1> DEFINE appended == AppendLocal(n, NormalEntry(n.term, c))
  <1>1. NormalEntry(n.term, c) \in PlainEntry
    BY IndexTypes DEF NormalEntry, PlainEntry, IsConfig, Entry, EntryKind
  <1>2. Calm(n, appended) /\ (appended.faulted = FALSE => Ranked(n, appended))
    BY ZenonT(30), <1>1, AppendLocalCalm
  <1>3. Propose(n, c) = IF n.state # "Leader" \/ n.faulted THEN n
                        ELSE IF appended.faulted THEN appended ELSE BroadcastAppend(appended)
    BY DEF Propose
  <1> HIDE DEF appended
  <1>4. appended \in Working /\ Steady(appended) /\ appended.faulted \in BOOLEAN
    BY SMTT(30), <1>2, CalmNode, FaultedType
  <1>5. n.state = "Leader" /\ appended.faulted = FALSE => Calm(n, BroadcastAppend(appended))
    BY SMTT(30), <1>2, <1>4, BroadcastAppendCalm, CalmTrans DEF Ranked
  <1> QED BY SMTT(30), <1>2, <1>3, <1>4, <1>5, CalmRefl

(* StartReadIndex. *)
LEMMA StartReadIndexCalm ==
    ASSUME NEW n \in Working, Steady(n), NEW context \in ReadContext
    PROVE  Calm(n, StartReadIndex(n, context))
  <1> DEFINE ready == QuorumMask(n, {n.id})
             ri    == IF ready THEN n.commit ELSE n.readIndex
             m     == [n EXCEPT !.readContext = context, !.readAckMask = {n.id},
                                !.readReady = ready, !.readIndex = ri]
  <1>1. ready \in BOOLEAN
    BY DEF QuorumMask, QuorumOf
  <1>2. ri \in Nat /\ n.peers \subseteq Server /\ n.id \in Server
    BY DEF Working
  <1>3. StartReadIndex(n, context) = IF ~CanStartRead(n) THEN n ELSE AppendToAll(m, n.peers, context)
    BY DEF StartReadIndex
  <1> HIDE DEF ready, ri
  <1>4. m \in Working
    BY ZenonT(30), <1>1, <1>2 DEF Working
  <1>5. /\ m.id = n.id /\ m.peers = n.peers /\ m.votersOld = n.votersOld
        /\ m.votersNew = n.votersNew /\ m.log = n.log /\ m.snap = n.snap /\ m.disk = n.disk
        /\ m.out = n.out /\ m.state = n.state /\ m.term = n.term /\ m.voteMask = n.voteMask
    BY DEF Working
  <1> HIDE DEF m
  <1>6. Steady(m) /\ Calm(n, m)
    BY SMTT(30), <1>4, <1>5, SteadyFrame, CalmFrame DEF Ranked
  <1>7. n.state = "Leader" => Calm(n, AppendToAll(m, n.peers, context))
    BY SMTT(30), <1>2, <1>4, <1>5, <1>6, AppendToAllCalm, CalmTrans
  <1>8. CanStartRead(n) => n.state = "Leader"
    BY DEF CanStartRead
  <1> QED BY SMTT(30), <1>3, <1>7, <1>8, CalmRefl

(* TransferLeadership. *)
LEMMA TransferLeadershipCalm ==
    ASSUME NEW n \in Working, Steady(n), NEW target \in Server
    PROVE  Calm(n, TransferLeadership(n, target))
  <1> DEFINE t == TimeoutNowMsg(n, target)
  <1>1. t \in TransferRequest /\ t.type = "TimeoutNow" /\ t.from = n.id /\ t.term = n.term
    BY SMTT(30), IndexTypes DEF TimeoutNowMsg, TransferRequest
  <1>2. TransferLeadership(n, target) =
          IF n.state # "Leader" \/ target = n.id \/ ~IsVoter(n, target) THEN n
          ELSE IF n.match[target] < LastIndex(n) THEN AppendTo(n, target) ELSE Send(n, {t})
    BY DEF TransferLeadership
  <1> HIDE DEF t
  <1>3. t \in SteadyMail
    BY SMTT(30), <1>1, PlainMail, OtherMail
  <1>4. n.state = "Leader" => Calm(n, Send(n, {t}))
    BY SMTT(30), <1>1, <1>3, SendCalm
  <1> QED BY SMTT(30), <1>2, <1>4, CalmRefl, AppendToCalm

(* ApplyEntries. *)
LEMMA ApplyEntriesCalm ==
    ASSUME NEW n \in Working, Steady(n)
    PROVE  Calm(n, ApplyEntries(n))
  <1> DEFINE p == ApplyEntries(n)
  <1>1. p \in Working
    BY SMTT(30), ApplyEntriesEvolves, EvolvesWorking
  <1>2. /\ p.id = n.id /\ p.peers = n.peers /\ p.votersOld = n.votersOld
        /\ p.votersNew = n.votersNew /\ p.log = n.log /\ p.snap = n.snap /\ p.disk = n.disk
        /\ p.out = n.out /\ p.state = n.state /\ p.term = n.term /\ p.voteMask = n.voteMask
    BY DEF ApplyEntries, Working
  <1> HIDE DEF p
  <1>3. Calm(n, p)
    BY SMTT(30), <1>1, <1>2, SteadyFrame, CalmFrame DEF Ranked
  <1> QED BY <1>3 DEF p

(* Step adopts a higher term as a follower. *)
LEMMA ObserveTermCalm ==
    ASSUME NEW n \in Working, Steady(n), NEW m \in Mail
    PROVE  Calm(n, ObserveTerm(n, m))
  <1> DEFINE persisted == PersistHardState(n, m.term, None, n.commit)
             p == [persisted EXCEPT !.state = "Follower", !.term = m.term, !.votedFor = None,
                                    !.leader = None, !.readReady = FALSE]
  <1>1. m.term \in Nat /\ None \in Server \cup {None} /\ n.commit \in Nat
    BY MailFields, IndexTypes
  <1>2. Calm(n, persisted) /\ persisted \in Working /\ Steady(persisted)
    BY ZenonT(30), <1>1, PersistHardStateCalm, CalmNode
  <1>3. ObserveTerm(n, m) = IF m.type \in PreVoteTypes \/ m.term <= n.term THEN n
                            ELSE IF persisted.faulted THEN persisted ELSE p
    BY DEF ObserveTerm
  <1> HIDE DEF persisted
  <1>4. p \in Working
    BY ZenonT(30), <1>1, <1>2 DEF Working, Role
  <1>5. /\ p.id = persisted.id /\ p.peers = persisted.peers /\ p.votersOld = persisted.votersOld
        /\ p.votersNew = persisted.votersNew /\ p.log = persisted.log /\ p.snap = persisted.snap
        /\ p.disk = persisted.disk /\ p.out = persisted.out /\ p.state = "Follower"
    BY <1>2 DEF Working
  <1> HIDE DEF p
  <1>6. Calm(persisted, p)
    BY <1>2, <1>4, <1>5, SteadyFrame, CalmFrame
  <1> QED BY SMTT(30), <1>2, <1>3, <1>6, CalmTrans, CalmRefl

----------------------------------------------------------------------------
(* The rest of a turn, and recovery                                        *)

(* The server applies and compacts after the handler. *)
LEMMA SettleCalm ==
    ASSUME NEW n \in Working, Steady(n)
    PROVE  Calm(n, Settle(n))
  <1> DEFINE applied == ApplyEntries(n)
  <1>1. Calm(n, applied) /\ applied \in Working /\ Steady(applied)
    BY SMTT(30), ApplyEntriesCalm, CalmNode
  <1>2. Settle(n) = IF Driver = "caller" \/ n.faulted THEN n
                    ELSE IF SnapshotEntries # 0 /\ applied.applied - applied.base >= SnapshotEntries
                         THEN Compact(applied, applied.applied) ELSE applied
    BY DEF Settle
  <1> HIDE DEF applied
  <1>3. applied.applied \in Nat
    BY SMTT(30), <1>1, IndexTypes
  <1>4. Calm(n, Compact(applied, applied.applied))
    BY SMTT(30), <1>1, <1>3, CompactCalm, CalmTrans
  <1> QED BY SMTT(30), <1>1, <1>2, <1>4, CalmRefl

(* After the turn the node is what it was or a follower. *)
LEMMA AtRestCalm ==
    ASSUME NEW n \in Working, Steady(n)
    PROVE  LET p == AtRest(n)
           IN  p \in Working /\ p.id = n.id /\ Steady(p) /\ (p.state = "Follower" \/ Ranked(n, p))
  <1> DEFINE s == Settle(n)
             p == [[s EXCEPT !.ops = MaxStoreCalls, !.landed = FALSE] EXCEPT !.out = {}]
  <1>1. AtRest(n) = p
    BY SMTT(30) DEF AtRest, Under, NoFault
  <1>2. s \in Working /\ s.id = n.id /\ Steady(s) /\ (s.state = "Follower" \/ Ranked(n, s))
    BY SettleCalm DEF Calm
  <1> HIDE DEF s
  <1>3. MaxStoreCalls \in Nat
    BY DEF MaxStoreCalls
  <1>4. p \in Working
    BY ZenonT(30), <1>2, <1>3 DEF Working
  <1>5. /\ p.id = s.id /\ p.peers = s.peers /\ p.votersOld = s.votersOld
        /\ p.votersNew = s.votersNew /\ p.log = s.log /\ p.snap = s.snap /\ p.disk = s.disk
        /\ p.out = {} /\ p.state = s.state /\ p.term = s.term /\ p.voteMask = s.voteMask
    BY <1>2 DEF Working
  <1> HIDE DEF p
  <1>6. Steady(p)
    BY SMTT(30), <1>2, <1>5 DEF Steady
  <1> QED BY SMTT(30), <1>1, <1>2, <1>4, <1>5, <1>6 DEF Ranked

----------------------------------------------------------------------------
(* Votes and elections                                                     *)

(* j voted for i in term t by a message of ms.  The lone server of a       *)
(* cluster has nobody to tell.                                             *)
HasVoted(ms, j, i, t) ==
    \/ Server = {i}
    \/ \E v \in ms : IsVote(v) /\ v.from = j /\ v.term = t /\ VotedFor(v) = i

(* A majority voted for i in term t. *)
Elected(ms, i, t) ==
    \E Q \in SUBSET Server : Majority(Server, Q) /\ \A j \in Q : HasVoted(ms, j, i, t)

(* What a candidate counts was cast, and a leader was elected. *)
RoleEarned(n, ms) ==
    /\ n.state = "Candidate" => \A j \in n.voteMask : HasVoted(ms, j, n.id, n.term)
    /\ n.state = "Leader" => Elected(ms, n.id, n.term)

(* A node in the middle of a handler, with the messages ms sent before. *)
Sound(n, ms) ==
    /\ Steady(n) /\ RoleEarned(n, ms \cup n.out)
    /\ \A m \in n.out : Leads(m) => Elected(ms \cup n.out, m.from, m.term)

(* A vote once cast and an election once won stay so. *)
LEMMA VotesStay ==
    ASSUME NEW ms, NEW all, ms \subseteq all, NEW i, NEW t
    PROVE  /\ \A j : HasVoted(ms, j, i, t) => HasVoted(all, j, i, t)
           /\ Elected(ms, i, t) => Elected(all, i, t)
  <1>1. \A j : HasVoted(ms, j, i, t) => HasVoted(all, j, i, t)
    BY SMTT(30) DEF HasVoted
  <1> QED BY <1>1 DEF Elected

(* A step without an election keeps the node sound. *)
LEMMA CalmSound ==
    ASSUME NEW n, NEW ms, Sound(n, ms), NEW p, Calm(n, p)
    PROVE  Sound(p, ms)
  <1>1. Steady(p) /\ p.id = n.id
    BY SMTT(30), CalmNode
  <1>2. CASE n.out \subseteq p.out
    <2>1. ms \cup n.out \subseteq ms \cup p.out
      BY SMTT(30), <1>2
    <2>2. /\ \A j, i, t : HasVoted(ms \cup n.out, j, i, t) => HasVoted(ms \cup p.out, j, i, t)
          /\ \A i, t : Elected(ms \cup n.out, i, t) => Elected(ms \cup p.out, i, t)
      BY SMTT(30), <2>1, VotesStay
    <2>3. RoleEarned(p, ms \cup p.out)
      <3>1. CASE p.state = "Follower"
        BY SMTT(30), <3>1 DEF RoleEarned
      <3>2. CASE Ranked(n, p)
        BY SMTT(30), <1>1, <2>2, <3>2 DEF Sound, RoleEarned, Ranked
      <3> QED BY SMTT(30), <3>1, <3>2 DEF Calm
    <2>4. ASSUME NEW m \in p.out, Leads(m)
          PROVE  Elected(ms \cup p.out, m.from, m.term)
      <3>1. CASE m \in n.out
        BY SMTT(30), <2>2, <2>4, <3>1 DEF Sound
      <3>2. CASE m \notin n.out
        <4>1. n.state = "Leader" /\ m.from = n.id /\ m.term = n.term
          BY SMTT(30), <2>4, <3>2 DEF Calm
        <4> QED BY SMTT(30), <2>2, <4>1 DEF Sound, RoleEarned
      <3> QED BY SMTT(30), <3>1, <3>2
    <2> QED BY SMTT(30), <1>1, <2>3, <2>4 DEF Sound
  <1>3. CASE p.state = "Follower" /\ \A m \in p.out : ~Leads(m)
    BY SMTT(30), <1>1, <1>3 DEF Sound, RoleEarned
  <1> QED BY SMTT(30), <1>2, <1>3 DEF Calm

----------------------------------------------------------------------------
(* The handlers that hold elections                                        *)

(* becomeLeader, once a majority has voted for the node. *)
LEMMA BecomeLeaderSound ==
    ASSUME NEW n \in Working, NEW ms, Sound(n, ms), Elected(ms \cup n.out, n.id, n.term)
    PROVE  Sound(BecomeLeader(n), ms)
  <1> DEFINE m == [n EXCEPT !.state = "Leader", !.leader = n.id]
             elected == AppendLocal(m, NoopEntry(n.term))
             last == LastIndex(elected) + 1
             f == [p \in Server |-> IF p \in elected.peers THEN last ELSE elected.next[p]]
             g == [p \in Server |-> IF p \in elected.peers THEN 0 ELSE elected.match[p]]
             ready == [elected EXCEPT !.next = f, !.match = g]
  <1>1. m \in Working
    <2>1. n.id \in Server
      BY SMTT(30), IndexTypes
    <2> QED BY ZenonT(30), <2>1 DEF Working, Role
  <1>2. /\ m.id = n.id /\ m.peers = n.peers /\ m.votersOld = n.votersOld
        /\ m.votersNew = n.votersNew /\ m.log = n.log /\ m.snap = n.snap /\ m.disk = n.disk
        /\ m.out = n.out /\ m.state = "Leader" /\ m.term = n.term
    BY SMTT(30) DEF Working
  <1>3. NoopEntry(n.term) \in PlainEntry
    BY SMTT(30), IndexTypes DEF NoopEntry, PlainEntry, IsConfig, Entry, EntryKind
  <1>4. BecomeLeader(n) = IF elected.faulted THEN elected ELSE BroadcastAppend(ready)
    BY SMTT(30) DEF BecomeLeader
  <1> HIDE DEF m
  <1>5. Steady(m)
    BY SMTT(30), <1>2, SteadyFrame DEF Sound
  <1>6. Sound(m, ms)
    BY SMTT(30), <1>2, <1>5 DEF Sound, RoleEarned
  <1>7. Calm(m, elected) /\ (elected.faulted = FALSE => Ranked(m, elected))
    BY ZenonT(30), <1>1, <1>3, <1>5, AppendLocalCalm
  <1> HIDE DEF elected
  <1>8. elected \in Working /\ Steady(elected) /\ elected.faulted \in BOOLEAN
    BY SMTT(30), <1>7, CalmNode, FaultedType
  <1>9. f \in [Server -> Nat] /\ g \in [Server -> Nat]
    <2>1. elected.next \in [Server -> Nat] /\ elected.match \in [Server -> Nat]
      BY ZenonT(30), <1>8 DEF Working
    <2>2. last \in Nat
      BY SMTT(30), <1>8, IndexTypes
    <2> HIDE DEF last
    <2> QED BY SMTT(30), <2>1, <2>2
  <1> HIDE DEF f, g
  <1>10. Calm(elected, ready) /\ Ranked(elected, ready)
    BY ZenonT(30), <1>8, <1>9, ProgressCalm
  <1> HIDE DEF ready
  <1>11. CASE elected.faulted = TRUE
    BY SMTT(30), <1>4, <1>6, <1>7, <1>11, CalmSound
  <1>12. CASE elected.faulted = FALSE
    <2>1. ready.state = "Leader" /\ ready \in Working /\ Steady(ready)
      BY SMTT(30), <1>2, <1>7, <1>10, <1>12, CalmNode DEF Ranked
    <2>2. Calm(ready, BroadcastAppend(ready))
      BY SMTT(30), <2>1, BroadcastAppendCalm
    <2>3. Calm(m, BroadcastAppend(ready))
      BY SMTT(30), <1>7, <1>10, <2>2, CalmTrans
    <2> QED BY SMTT(30), <1>4, <1>6, <1>12, <2>3, CalmSound
  <1> QED BY ZenonT(30), <1>8, <1>11, <1>12

(* The requests startElection sends are votes for the node itself. *)
LEMMA RequestVoteMsgSteady ==
    ASSUME NEW n \in Working, NEW p \in Server
    PROVE  LET m == RequestVoteMsg(n, p)
           IN  /\ m \in SteadyMail /\ ~Leads(m) /\ IsVote(m)
               /\ m.from = n.id /\ m.term = n.term /\ VotedFor(m) = n.id
  <1> DEFINE m == RequestVoteMsg(n, p)
  <1>1. m \in Mail /\ m.from = n.id /\ m.term = n.term /\ VotedFor(m) = n.id
    BY ZenonT(30), RequestVoteMsgType
  <1>2. m.type = "RequestVote"
    BY DEF RequestVoteMsg
  <1> HIDE DEF m
  <1>3. m \in SteadyMail /\ ~Leads(m) /\ IsVote(m)
    BY SMTT(30), <1>1, <1>2, OtherMail DEF Leads, LeaderTypes, IsVote
  <1> QED BY SMTT(30), <1>1, <1>3 DEF m

(* startElection: the node votes for itself in a term of its own. *)
LEMMA StartElectionSound ==
    ASSUME NEW n \in Working, NEW ms, Sound(n, ms)
    PROVE  Sound(StartElection(n), ms)
  <1> DEFINE persisted == PersistHardState(n, n.term + 1, n.id, n.commit)
             candidate == [persisted EXCEPT !.state = "Candidate", !.term = n.term + 1,
                                            !.votedFor = n.id, !.voteMask = {n.id},
                                            !.preVoteMask = {}]
             rs        == {RequestVoteMsg(candidate, p) : p \in n.peers}
             asked     == Send(candidate, rs)
  <1>0. /\ n.term + 1 \in Nat /\ n.id \in Server /\ n.id \in Server \cup {None} /\ n.commit \in Nat
        /\ Steady(n) /\ n.peers = Server \ {n.id}
    BY SMTT(30), IndexTypes DEF Sound, Steady
  <1>1. Calm(n, persisted)
    BY ZenonT(30), <1>0, PersistHardStateCalm
  <1>2. StartElection(n) = IF persisted.faulted THEN persisted
                           ELSE IF QuorumMask(asked, asked.voteMask) THEN BecomeLeader(asked)
                           ELSE asked
    BY DEF StartElection
  <1> HIDE DEF persisted
  <1>3. /\ persisted \in Working /\ Steady(persisted) /\ persisted.id = n.id
        /\ Sound(persisted, ms)
    BY SMTT(30), <1>1, CalmNode, CalmSound
  <1>4. candidate \in Working
    <2>1. {n.id} \in SUBSET Server
      BY SMTT(30), <1>0
    <2> QED BY ZenonT(30), <1>0, <1>3, <2>1 DEF Working, Role
  <1>5. /\ candidate.id = n.id /\ candidate.peers = persisted.peers
        /\ candidate.votersOld = persisted.votersOld /\ candidate.votersNew = persisted.votersNew
        /\ candidate.log = persisted.log /\ candidate.snap = persisted.snap
        /\ candidate.disk = persisted.disk /\ candidate.out = persisted.out
        /\ candidate.state = "Candidate" /\ candidate.term = n.term + 1
        /\ candidate.voteMask = {n.id}
    BY SMTT(30), <1>3 DEF Working
  <1> HIDE DEF candidate
  <1>6. Steady(candidate)
    BY SMTT(30), <1>3, <1>5, SteadyFrame
  <1>7. /\ rs \subseteq SteadyMail /\ \A m \in rs : ~Leads(m)
        /\ \A p \in n.peers : LET m == RequestVoteMsg(candidate, p)
             IN  /\ m \in rs /\ IsVote(m)
                 /\ m.from = n.id /\ m.term = n.term + 1 /\ VotedFor(m) = n.id
    BY SMTT(30), <1>0, <1>4, <1>5, RequestVoteMsgSteady
  <1> HIDE DEF rs
  <1>8. Calm(candidate, asked)
    BY SMTT(30), <1>4, <1>6, <1>7, SendCalm
  <1>9. asked.out = candidate.out \cup rs
    BY SMTT(30), <1>4 DEF Send, Working
  <1>9a. asked.state = "Candidate" /\ asked.term = n.term + 1 /\ asked.voteMask = {n.id} /\ asked.id = n.id
    BY SMTT(30), <1>4, <1>5 DEF Send, Working
  <1> HIDE DEF asked
  <1>10. asked \in Working /\ Steady(asked)
    BY SMTT(30), <1>8, CalmNode
  <1>11. HasVoted(ms \cup asked.out, n.id, n.id, n.term + 1)
    <2>1. CASE Server = {n.id}
      BY SMTT(30), <2>1 DEF HasVoted
    <2>2. CASE Server # {n.id}
      <3>1. PICK p \in n.peers : TRUE
        BY SMTT(30), <1>0, <2>2
      <3>2. PICK m \in rs : IsVote(m) /\ m.from = n.id /\ m.term = n.term + 1 /\ VotedFor(m) = n.id
        BY SMTT(30), <1>7, <3>1
      <3>3. m \in ms \cup asked.out
        BY SMTT(30), <1>9, <3>2
      <3> QED BY SMTT(30), <3>2, <3>3 DEF HasVoted
    <2> QED BY SMTT(30), <2>1, <2>2
  <1>12. Sound(asked, ms)
    <2>1. RoleEarned(asked, ms \cup asked.out)
      BY SMTT(30), <1>9a, <1>11 DEF RoleEarned
    <2>2. ASSUME NEW m \in asked.out, Leads(m)
          PROVE  Elected(ms \cup asked.out, m.from, m.term)
      <3>1. m \in persisted.out
        BY SMTT(30), <1>5, <1>7, <1>9, <2>2
      <3>2. Elected(ms \cup persisted.out, m.from, m.term)
        BY SMTT(30), <1>3, <2>2, <3>1 DEF Sound
      <3>3. ms \cup persisted.out \subseteq ms \cup asked.out
        BY SMTT(30), <1>5, <1>9
      <3> QED BY SMTT(30), <3>2, <3>3, VotesStay
    <2> QED BY SMTT(30), <1>10, <2>1, <2>2 DEF Sound
  <1>13. ASSUME QuorumMask(asked, asked.voteMask)
         PROVE  Sound(BecomeLeader(asked), ms)
    <2>1. Majority(Server, {n.id})
      BY SMTT(30), <1>9a, <1>10, <1>13, SteadyQuorum
    <2>2. Elected(ms \cup asked.out, asked.id, asked.term)
      BY SMTT(30), <1>0, <1>9a, <1>11, <2>1 DEF Elected
    <2> QED BY SMTT(30), <1>10, <1>12, <2>2, BecomeLeaderSound
  <1> QED BY SMTT(30), <1>2, <1>3, <1>12, <1>13

(* startPreVote. *)
LEMMA StartPreVoteSound ==
    ASSUME NEW n \in Working, NEW ms, Sound(n, ms)
    PROVE  Sound(StartPreVote(n), ms)
  <1> DEFINE opened == [n EXCEPT !.preVoteTerm = n.term + 1, !.leader = None, !.preVoteMask = {n.id}]
             rs     == {PreVoteMsg(opened, p) : p \in n.peers}
             asked  == Send(opened, rs)
  <1>0. n.term + 1 \in Nat /\ n.id \in Server /\ Steady(n) /\ n.peers \subseteq Server
    BY SMTT(30), IndexTypes DEF Sound, Steady
  <1>1. opened \in Working
    BY ZenonT(30), <1>0 DEF Working
  <1>2. /\ opened.id = n.id /\ opened.peers = n.peers /\ opened.votersOld = n.votersOld
        /\ opened.votersNew = n.votersNew /\ opened.log = n.log /\ opened.snap = n.snap
        /\ opened.disk = n.disk /\ opened.out = n.out /\ opened.state = n.state
        /\ opened.term = n.term /\ opened.voteMask = n.voteMask
    BY DEF Working
  <1>3. StartPreVote(n) = IF QuorumMask(asked, asked.preVoteMask) THEN StartElection(asked) ELSE asked
    BY SMTT(30) DEF StartPreVote
  <1> HIDE DEF opened
  <1>4. Steady(opened) /\ Calm(n, opened)
    BY SMTT(30), <1>0, <1>1, <1>2, SteadyFrame, CalmFrame DEF Ranked
  <1>5. rs \subseteq SteadyMail /\ \A m \in rs : ~Leads(m)
    <2> SUFFICES ASSUME NEW p \in n.peers
                 PROVE  PreVoteMsg(opened, p) \in SteadyMail /\ ~Leads(PreVoteMsg(opened, p))
      BY SMTT(30)
    <2> DEFINE m == PreVoteMsg(opened, p)
    <2>1. m \in Mail
      BY SMTT(30), <1>0, <1>1, PreVoteMsgType
    <2>2. m.type = "PreVote"
      BY DEF PreVoteMsg
    <2> HIDE DEF m
    <2>3. m \in SteadyMail /\ ~Leads(m)
      BY SMTT(30), <2>1, <2>2, OtherMail DEF Leads, LeaderTypes
    <2> QED BY SMTT(30), <2>3 DEF m
  <1> HIDE DEF rs
  <1>6. Calm(opened, asked)
    BY SMTT(30), <1>1, <1>4, <1>5, SendCalm
  <1> HIDE DEF asked
  <1>7. asked \in Working /\ Sound(asked, ms)
    BY SMTT(30), <1>4, <1>6, CalmNode, CalmTrans, CalmSound
  <1> QED BY SMTT(30), <1>3, <1>7, StartElectionSound

(* A quorum of pre-votes leads to startElection. *)
LEMMA OnPreVoteResponseSound ==
    ASSUME NEW n \in Working, NEW ms, Sound(n, ms), NEW m \in Mail
    PROVE  Sound(OnPreVoteResponse(n, m), ms)
  <1> DEFINE counted == [n EXCEPT !.preVoteMask = @ \cup {m.from}]
             counts  == /\ n.state # "Leader" /\ IsVoter(n, m.from) /\ ~m.reject
                        /\ m.term = n.term + 1 /\ m.term = n.preVoteTerm
  <1>1. m.from \in Server /\ Steady(n)
    BY SMTT(30), MailFields DEF Sound
  <1>2. counted \in Working
    BY ZenonT(30), <1>1 DEF Working
  <1>3. /\ counted.id = n.id /\ counted.peers = n.peers /\ counted.votersOld = n.votersOld
        /\ counted.votersNew = n.votersNew /\ counted.log = n.log /\ counted.snap = n.snap
        /\ counted.disk = n.disk /\ counted.out = n.out /\ counted.state = n.state
        /\ counted.term = n.term /\ counted.voteMask = n.voteMask
    BY DEF Working
  <1>4. OnPreVoteResponse(n, m) =
          IF ~counts THEN n
          ELSE IF QuorumMask(counted, counted.preVoteMask) THEN StartElection(counted) ELSE counted
    BY SMTT(30) DEF OnPreVoteResponse
  <1> HIDE DEF counted, counts
  <1>5. Calm(n, counted)
    BY SMTT(30), <1>1, <1>2, <1>3, SteadyFrame, CalmFrame DEF Ranked
  <1>6. Sound(counted, ms)
    BY SMTT(30), <1>5, CalmSound
  <1> QED BY SMTT(30), <1>2, <1>4, <1>6, StartElectionSound

(* A quorum of votes leads to becomeLeader: the vote counted is one that   *)
(* was sent to this node, in its term.                                     *)
LEMMA OnVoteResponseSound ==
    ASSUME NEW n \in Working, NEW ms, Sound(n, ms), NEW m \in Mail, m \in ms, m.to = n.id,
           m.type = "RequestVoteResponse"
    PROVE  Sound(OnVoteResponse(n, m), ms)
  <1> DEFINE counted == [n EXCEPT !.voteMask = @ \cup {m.from}]
             counts  == n.state = "Candidate" /\ IsVoter(n, m.from) /\ m.term = n.term /\ ~m.reject
  <1>1. m.from \in Server /\ Steady(n)
    BY SMTT(30), MailFields DEF Sound
  <1>2. counted \in Working
    BY ZenonT(30), <1>1 DEF Working
  <1>3. /\ counted.id = n.id /\ counted.peers = n.peers /\ counted.votersOld = n.votersOld
        /\ counted.votersNew = n.votersNew /\ counted.log = n.log /\ counted.snap = n.snap
        /\ counted.disk = n.disk /\ counted.out = n.out /\ counted.state = n.state
        /\ counted.term = n.term /\ counted.voteMask = n.voteMask \cup {m.from}
    BY DEF Working
  <1>4. OnVoteResponse(n, m) =
          IF ~counts THEN n
          ELSE IF QuorumMask(counted, counted.voteMask) THEN BecomeLeader(counted) ELSE counted
    BY SMTT(30) DEF OnVoteResponse
  <1> HIDE DEF counted
  <1>5. Steady(counted)
    BY SMTT(30), <1>1, <1>3, SteadyFrame
  <1>6. ASSUME counts
        PROVE  Sound(counted, ms) /\ (QuorumMask(counted, counted.voteMask) => Sound(BecomeLeader(counted), ms))
    <2>1. HasVoted(ms \cup n.out, m.from, n.id, n.term)
      <3>1. IsVote(m) /\ VotedFor(m) = n.id /\ m.term = n.term /\ m \in ms \cup n.out
        BY SMTT(30), <1>6 DEF IsVote, VotedFor
      <3> QED BY SMTT(30), <3>1 DEF HasVoted
    <2>2. \A j \in counted.voteMask : HasVoted(ms \cup counted.out, j, counted.id, counted.term)
      BY SMTT(30), <1>3, <1>6, <2>1 DEF Sound, RoleEarned
    <2>3. Sound(counted, ms)
      BY SMTT(30), <1>3, <1>5, <1>6, <2>2 DEF Sound, RoleEarned
    <2>4. ASSUME QuorumMask(counted, counted.voteMask)
          PROVE  Sound(BecomeLeader(counted), ms)
      <3>1. Majority(Server, counted.voteMask)
        BY SMTT(30), <1>2, <1>5, <2>4, SteadyQuorum
      <3>2. counted.voteMask \in SUBSET Server
        BY SMTT(30), <1>2 DEF Working
      <3>3. Elected(ms \cup counted.out, counted.id, counted.term)
        BY SMTT(30), <2>2, <3>1, <3>2 DEF Elected
      <3> QED BY SMTT(30), <1>2, <2>3, <3>3, BecomeLeaderSound
    <2> QED BY SMTT(30), <2>3, <2>4
  <1> HIDE DEF counts
  <1> QED BY SMTT(30), <1>4, <1>6

(* One handler per type of message. *)
LEMMA DispatchSound ==
    ASSUME NEW n \in Working, NEW ms, Sound(n, ms), NEW m \in SteadyMail, m \in ms, m.to = n.id
    PROVE  Sound(Dispatch(n, m), ms)
  <1>0. m \in Mail /\ m.type \in MessageTypes /\ Steady(n)
    BY SMTT(30), MailFields DEF SteadyMail, Sound
  <1>1. CASE m.type = "PreVote"
    BY SMTT(30), <1>0, <1>1, OnPreVoteCalm, CalmSound DEF Dispatch
  <1>2. CASE m.type = "PreVoteResponse"
    BY SMTT(30), <1>0, <1>2, OnPreVoteResponseSound DEF Dispatch
  <1>3. CASE m.type = "RequestVote"
    BY SMTT(30), <1>0, <1>3, OnVoteCalm, CalmSound DEF Dispatch
  <1>4. CASE m.type = "RequestVoteResponse"
    BY SMTT(30), <1>0, <1>4, OnVoteResponseSound DEF Dispatch
  <1>5. CASE m.type = "Append"
    BY SMTT(30), <1>0, <1>5, OnAppendCalm, CalmSound DEF Dispatch
  <1>6. CASE m.type = "AppendResponse"
    BY SMTT(30), <1>0, <1>6, OnAppendResponseCalm, CalmSound DEF Dispatch
  <1>7. CASE m.type = "InstallSnapshot"
    BY SMTT(30), <1>0, <1>7, OnInstallSnapshotCalm, CalmSound DEF Dispatch
  <1>8. CASE m.type = "InstallSnapshotResponse"
    BY SMTT(30), <1>0, <1>8, OnInstallSnapshotResponseCalm, CalmSound DEF Dispatch
  <1>9. CASE m.type = "TimeoutNow"
    <2>1. Dispatch(n, m) = OnTimeoutNow(n, m)
      BY SMTT(30), <1>9 DEF Dispatch
    <2> QED BY SMTT(30), <2>1, StartElectionSound DEF OnTimeoutNow
  <1> QED BY SMTT(30), <1>0, <1>1, <1>2, <1>3, <1>4, <1>5, <1>6, <1>7, <1>8, <1>9
          DEF MessageTypes, VoteTypes, PreVoteTypes

(* Step: whatever message arrives. *)
LEMMA StepSound ==
    ASSUME NEW n \in Working, NEW ms, Sound(n, ms), NEW m \in SteadyMail, m \in ms, m.to = n.id
    PROVE  Sound(Step(n, m), ms)
  <1> DEFINE current == ObserveTerm(n, m)
  <1>1. Calm(n, current)
    BY SMTT(30), ObserveTermCalm DEF SteadyMail, Sound
  <1>2. Step(n, m) = IF current.faulted THEN current ELSE Dispatch(current, m)
    BY SMTT(30) DEF Step
  <1> HIDE DEF current
  <1>3. current \in Working /\ current.id = n.id /\ Sound(current, ms)
    BY SMTT(30), <1>1, CalmNode, CalmSound
  <1> QED BY SMTT(30), <1>2, <1>3, DispatchSound
=============================================================================
