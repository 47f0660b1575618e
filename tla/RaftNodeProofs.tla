--------------------------- MODULE RaftNodeProofs ---------------------------
(***************************************************************************)
(* What every handler of a Raft node preserves, proved for each operator   *)
(* of RaftNode: the node keeps its type, the durable hard state only grows *)
(* and a vote leaves the node only after it is durable.                    *)
(***************************************************************************)
EXTENDS RaftProperties, WellFoundedInduction, TLAPS

(* A message with at most one entry. *)
OneEntry(m) == m.type = "Append" => Len(m.entries) <= 1

Mail == {m \in Message : OneEntry(m)}

(* A node in the middle of a handler: what NodeState says, with messages   *)
(* in the outbound buffer and store calls used up.                         *)
Working ==
    [id : Server, peers : SUBSET Server, state : Role, term : Nat,
     votedFor : Server \cup {None}, leader : Server \cup {None},
     log : Seq(Entry), base : Nat, baseTerm : Nat, commit : Nat, applied : Nat,
     voteMask : SUBSET Server, preVoteMask : SUBSET Server, preVoteTerm : Nat,
     next : [Server -> Nat], match : [Server -> Nat],
     readContext : ReadContext \cup {None}, readAckMask : SUBSET Server,
     readIndex : Nat, readReady : BOOLEAN, snap : Snapshot,
     votersOld : SUBSET Server, votersNew : SUBSET Server, pendingConfig : Nat,
     faulted : BOOLEAN, err : Reason, disk : Disk,
     out : SUBSET Mail, ops : Nat, landed : BOOLEAN]

(* The hard state h is one in which the vote v may still be cast. *)
Fresh(h, v) == h.term < v.term \/ (h.term = v.term /\ h.votedFor \in {None, VotedFor(v)})

(* The node n may become the node p in the course of one handler: the hard *)
(* state grows, and the votes that p sends and n did not are cast by this  *)
(* node, are durable, and do not contradict n's hard state or each other.  *)
Evolves(n, p) ==
    /\ p \in Working /\ p.id = n.id
    /\ Grows(n.disk.hard, p.disk.hard)
    /\ \A v \in p.out \ n.out : IsVote(v) =>
          /\ v.from = n.id /\ Fresh(n.disk.hard, v) /\ Durable(p.disk.hard, v)
          /\ \A w \in p.out \ n.out : IsVote(w) /\ w.term = v.term => VotedFor(w) = VotedFor(v)

----------------------------------------------------------------------------
(* Facts about Evolves                                                     *)

(* A vote message names a server, a candidate and a term. *)
LEMMA VoteType ==
    ASSUME NEW v \in Mail, IsVote(v)
    PROVE  v.from \in Server /\ VotedFor(v) \in Server /\ v.term \in Nat
  BY DEF Mail, Message, IsVote, VotedFor, VoteRequest, VoteResponse, AppendRequest, AppendResponse,
         SnapshotRequest, SnapshotResponse, TransferRequest

(* The fields of a node's durable hard state. *)
LEMMA HardType ==
    ASSUME NEW n \in Working
    PROVE  /\ n.disk \in Disk /\ n.disk.hard \in HardState
           /\ n.disk.hard.term \in Nat /\ n.disk.hard.commit \in Nat
           /\ n.disk.hard.votedFor \in Server \cup {None}
  BY ZenonT(30) DEF Working, Disk, HardState

(* Growing is transitive. *)
LEMMA GrowsTransitive ==
    ASSUME NEW h \in HardState, NEW g \in HardState, NEW f \in HardState, Grows(h, g), Grows(g, f)
    PROVE  Grows(h, f)
  BY DEF Grows, HardState

(* What a node evolves into is a node. *)
LEMMA EvolvesWorking ==
    ASSUME NEW n, NEW p, Evolves(n, p)
    PROVE  p \in Working
  BY DEF Evolves

(* A handler that returns early. *)
LEMMA EvolvesRefl ==
    ASSUME NEW n \in Working
    PROVE  Evolves(n, n)
  BY HardType DEF Evolves, Grows

(* What a handler does to anything but the hard state and the votes sent   *)
(* is of no concern.                                                       *)
LEMMA EvolvesFrame ==
    ASSUME NEW n \in Working, NEW p \in Working, p.id = n.id, p.disk.hard = n.disk.hard,
           \A v \in p.out : IsVote(v) => v \in n.out
    PROVE  Evolves(n, p)
  BY HardType DEF Evolves, Grows

(* A handler that calls two others in turn. *)
LEMMA EvolvesTrans ==
    ASSUME NEW n \in Working, NEW p, NEW q, Evolves(n, p), Evolves(p, q)
    PROVE  Evolves(n, q)
  <1> DEFINE h == n.disk.hard  g == p.disk.hard  f == q.disk.hard
  <1>0. p \in Working /\ q \in Working /\ q.id = n.id /\ p.id = n.id
    BY DEF Evolves
  <1>1. /\ h.term \in Nat /\ h.commit \in Nat /\ g.term \in Nat /\ g.commit \in Nat
        /\ f.term \in Nat /\ f.commit \in Nat
    BY <1>0, HardType
  <1>2. Grows(h, g) /\ Grows(g, f)
    BY DEF Evolves
  <1> HIDE DEF h, g, f
  <1>3. Grows(h, f)
    BY <1>1, <1>2 DEF Grows
  <1>4. ASSUME NEW v \in q.out, IsVote(v)
        PROVE  VotedFor(v) \in Server /\ v.term \in Nat
    <2>1. v \in Mail
      BY <1>0 DEF Working
    <2> QED BY <2>1, <1>4, VoteType
  <1>5. ASSUME NEW v \in q.out \ n.out, IsVote(v)
        PROVE  /\ v.from = n.id /\ Fresh(h, v) /\ Durable(f, v)
               /\ v \in p.out => Durable(g, v)
               /\ v \notin p.out => Fresh(g, v)
    <2>1. VotedFor(v) \in Server /\ v.term \in Nat
      BY <1>4, <1>5
    <2>2. v \notin p.out => v.from = n.id /\ Fresh(g, v) /\ Durable(f, v)
      BY <1>0, <1>5 DEF Evolves, g, f
    <2>3. v \in p.out => v.from = n.id /\ Fresh(h, v) /\ Durable(g, v)
      BY <1>5 DEF Evolves, h, g
    <2>4. Durable(g, v) => Durable(f, v)
      BY <1>1, <1>2, <2>1, NoneAssumption DEF Durable, Grows
    <2>5. Fresh(g, v) => Fresh(h, v)
      BY <1>1, <1>2, <2>1 DEF Fresh, Grows
    <2> QED BY <2>2, <2>3, <2>4, <2>5
  <1>6. ASSUME NEW v \in q.out \ n.out, IsVote(v), NEW w \in q.out \ n.out, IsVote(w), w.term = v.term
        PROVE  VotedFor(w) = VotedFor(v)
    <2>1. CASE v \in p.out /\ w \in p.out
      BY <1>6, <2>1 DEF Evolves
    <2>2. CASE v \notin p.out /\ w \notin p.out
      BY <1>6, <2>2 DEF Evolves
    <2>3. ASSUME NEW x \in q.out \ n.out, IsVote(x), x \in p.out,
                 NEW y \in q.out \ n.out, IsVote(y), y \notin p.out, x.term = y.term
          PROVE  VotedFor(x) = VotedFor(y)
      <3>1. Durable(g, x) /\ Fresh(g, y)
        BY <1>5, <2>3
      <3>2. VotedFor(x) \in Server /\ x.term \in Nat
        BY <1>4, <2>3
      <3> QED BY <1>1, <2>3, <3>1, <3>2, NoneAssumption DEF Durable, Fresh
    <2>4. CASE (v \in p.out /\ w \notin p.out) \/ (v \notin p.out /\ w \in p.out)
      BY <1>6, <2>3, <2>4
    <2> QED BY <2>1, <2>2, <2>4
  <1> QED BY <1>0, <1>3, <1>5, <1>6 DEF Evolves, h, f

----------------------------------------------------------------------------
(* The maximum of a non-empty bounded set of natural numbers. *)
LEMMA SetMaxBounded ==
    ASSUME NEW S, S \subseteq Nat, S # {}, NEW b \in Nat, \A k \in S : k <= b
    PROVE  SetMax(S) \in S /\ \A k \in S : k <= SetMax(S)
  <1> DEFINE T == {j \in Nat : b - j \in S}
  <1>1. T # {}
    <2>1. PICK k \in S : TRUE
      BY ZenonT(30)
    <2>2. b - k \in Nat /\ b - (b - k) = k
      BY <2>1
    <2> QED BY ZenonT(30), <2>1, <2>2
  <1>2. PICK j \in T : \A i \in T : ~(<< i, j >> \in OpToRel(<, Nat))
    <2> HIDE DEF T
    <2>1. T \subseteq Nat
      BY DEF T
    <2> QED BY ZenonT(30), <1>1, <2>1, WFMin, NatLessThanWellFounded
  <1>3. \A i \in T : ~(i < j)
    BY ZenonT(30), <1>2 DEF OpToRel
  <1>4. ASSUME NEW k \in S
        PROVE  k <= b - j
    <2>1. b - k \in Nat /\ b - (b - k) = k
      OBVIOUS
    <2>2. b - k \in T
      BY <2>1
    <2> QED BY <1>3, <2>1, <2>2
  <1> HIDE DEF T
  <1>5. b - j \in S
    BY ZenonT(30), <1>2 DEF T
  <1> QED BY ZenonT(30), <1>4, <1>5 DEF SetMax

----------------------------------------------------------------------------
(* The log                                                                 *)

(* A log holder: a node or a disk. *)
IsLog(x) == x.log \in Seq(Entry) /\ x.base \in Nat /\ x.baseTerm \in Nat

(* A node and its disk are log holders. *)
LEMMA WorkingLog ==
    ASSUME NEW n \in Working
    PROVE  IsLog(n) /\ IsLog(n.disk)
  BY ZenonT(30) DEF Working, IsLog, Disk

(* Terms and entries read at the indexes the log holds have their types. *)
LEMMA LogFacts ==
    ASSUME NEW x, IsLog(x)
    PROVE  /\ LastIndex(x) \in Nat /\ x.base <= LastIndex(x) /\ LastTerm(x) \in Nat
           /\ \A k \in Int : Present(x, k) => TermAt(x, k) \in Nat
           /\ \A k \in Int : x.base < k /\ k <= LastIndex(x) => EntryAt(x, k) \in Entry
  <1>1. LastIndex(x) \in Nat /\ x.base <= LastIndex(x)
    BY DEF IsLog, LastIndex
  <1>2. ASSUME NEW k \in Int, x.base < k, k <= LastIndex(x)
        PROVE  EntryAt(x, k) \in Entry
    <2>1. k - x.base \in 1 .. Len(x.log)
      BY <1>2 DEF IsLog, LastIndex
    <2> QED BY <2>1 DEF EntryAt, IsLog
  <1>3. ASSUME NEW k \in Int, Present(x, k)
        PROVE  TermAt(x, k) \in Nat
    <2>1. CASE k = x.base
      BY <2>1 DEF TermAt, IsLog
    <2>2. CASE k # x.base
      <3>1. EntryAt(x, k) \in Entry
        BY <1>1, <1>2, <1>3, <2>2 DEF Present, IsLog
      <3> QED BY <2>2, <3>1 DEF TermAt, EntryAt, Entry
    <2> QED BY <2>1, <2>2
  <1>4. LastTerm(x) \in Nat
    BY <1>1, <1>3 DEF LastTerm, Present
  <1> QED BY <1>1, <1>2, <1>3, <1>4

(* Truncating the log at an index it holds. *)
LEMMA UpToFacts ==
    ASSUME NEW x, IsLog(x), NEW k \in Int, Present(x, k)
    PROVE  UpTo(x, k) \in Seq(Entry) /\ Len(UpTo(x, k)) = k - x.base
  <1>1. \A i \in 1 .. k - x.base : x.log[i] \in Entry
    BY DEF Present, IsLog, LastIndex
  <1>2. k - x.base \in Nat
    BY DEF Present, IsLog
  <1> QED BY <1>1, <1>2 DEF UpTo

(* Compacting the log at an index it holds. *)
LEMMA AfterFacts ==
    ASSUME NEW x, IsLog(x), NEW k \in Int, Present(x, k)
    PROVE  After(x, k) \in Seq(Entry)
  <1>1. \A i \in k - x.base + 1 .. Len(x.log) : x.log[i] \in Entry
    BY DEF Present, IsLog, LastIndex
  <1>2. k - x.base + 1 \in Int /\ Len(x.log) \in Int
    BY DEF Present, IsLog
  <1> QED BY <1>1, <1>2 DEF After

(* Appending one entry. *)
LEMMA AppendFacts ==
    ASSUME NEW s \in Seq(Entry), NEW e \in Entry
    PROVE  Append(s, e) \in Seq(Entry) /\ Len(Append(s, e)) = Len(s) + 1
  OBVIOUS

----------------------------------------------------------------------------
(* The store boundary                                                      *)

(* failStorage keeps the disk and drops the messages not yet sent. *)
LEMMA FailStorageEvolves ==
    ASSUME NEW n \in Working, NEW why \in Reason
    PROVE  Evolves(n, FailStorage(n, why)) /\ FailStorage(n, why).faulted = TRUE
  <1> DEFINE p == FailStorage(n, why)
  <1>1. p \in Working /\ p.id = n.id /\ p.disk = n.disk /\ p.out = {} /\ p.faulted = TRUE
    BY ZenonT(30) DEF Working, FailStorage, Role
  <1> QED BY <1>1, EvolvesFrame

(* What a store call that succeeded leaves. *)
Stored(n, image) == [n EXCEPT !.disk = image, !.ops = @ - 1]

(* A store call that is refused, fails, lands late or succeeds. *)
LEMMA StoreCallEvolves ==
    ASSUME NEW n \in Working, NEW accepts \in BOOLEAN, NEW image,
           accepts => image \in Disk /\ Grows(n.disk.hard, image.hard)
    PROVE  LET p == StoreCall(n, accepts, image)
           IN  /\ Evolves(n, p)
               /\ p.faulted = FALSE => accepts /\ p = Stored(n, image)
  <1> DEFINE p == StoreCall(n, accepts, image)
  <1>1. CASE ~accepts
    BY ZenonT(30), <1>1, FailStorageEvolves DEF StoreCall, Reason
  <1>2. CASE accepts /\ n.ops = 0
    <2> DEFINE d == IF n.landed THEN image ELSE n.disk
               m == [n EXCEPT !.disk = d]
    <2>1. d \in Disk /\ Grows(n.disk.hard, d.hard)
      BY <1>2, HardType DEF Grows
    <2>2. m \in Working /\ m.id = n.id /\ m.out = n.out /\ m.disk = d
      <3> HIDE DEF d
      <3> QED BY ZenonT(30), <2>1 DEF Working
    <2> HIDE DEF d
    <2>3. Evolves(n, m)
      BY <2>1, <2>2 DEF Evolves
    <2>4. p = FailStorage(m, "io")
      BY <1>2 DEF StoreCall, d
    <2> HIDE DEF m
    <2> QED BY ZenonT(30), <2>2, <2>3, <2>4, FailStorageEvolves, EvolvesTrans DEF Reason
  <1>3. CASE accepts /\ n.ops # 0
    <2>1. p = Stored(n, image)
      BY <1>3 DEF StoreCall, Stored
    <2>2. n.ops - 1 \in Nat
      <3>1. n.ops \in Nat
        BY ZenonT(30) DEF Working
      <3>2. \A k \in Nat : k # 0 => k - 1 \in Nat
        OBVIOUS
      <3> QED BY ONLY ZenonT(30), <1>3, <3>1, <3>2
    <2>3. LET q == Stored(n, image)
          IN  q \in Working /\ q.id = n.id /\ q.out = n.out /\ q.disk = image
      BY ZenonT(30), <1>3, <2>2 DEF Stored, Working
    <2> QED BY ZenonT(30), <1>3, <2>1, <2>3 DEF Evolves
  <1> QED BY ZenonT(30), <1>1, <1>2, <1>3

(* persistHardState: the store accepts only a hard state that grows. *)
LEMMA PersistHardStateEvolves ==
    ASSUME NEW n \in Working, NEW t \in Nat, NEW v \in Server \cup {None}, NEW c \in Nat
    PROVE  LET p == PersistHardState(n, t, v, c)
               h == [term |-> t, votedFor |-> v, commit |-> c]
           IN  /\ Evolves(n, p)
               /\ p.faulted = FALSE => /\ AcceptsHardState(n.disk, h)
                                      /\ p = Stored(n, WithHardState(n.disk, h))
  <1> DEFINE h == [term |-> t, votedFor |-> v, commit |-> c]
             d == WithHardState(n.disk, h)
             a == AcceptsHardState(n.disk, h)
  <1>1. d \in Disk /\ d.hard = h
    BY HardType DEF WithHardState, Disk, HardState
  <1>2. a => Grows(n.disk.hard, d.hard)
    BY <1>1, HardType DEF AcceptsHardState, Grows
  <1>3. a \in BOOLEAN
    BY DEF AcceptsHardState
  <1>4. PersistHardState(n, t, v, c) = StoreCall(n, a, d)
    BY DEF PersistHardState
  <1> HIDE DEF a, d
  <1>5. LET p == StoreCall(n, a, d)
        IN  Evolves(n, p) /\ (p.faulted = FALSE => a /\ p = Stored(n, d))
    BY ZenonT(30), <1>1, <1>2, <1>3, StoreCallEvolves
  <1> QED BY <1>4, <1>5 DEF a, d

(* Storing an entry leaves the hard state alone. *)
LEMMA PersistEntryEvolves ==
    ASSUME NEW n \in Working, NEW k \in Nat, NEW e \in Entry
    PROVE  LET p == PersistEntry(n, k, e)
           IN  Evolves(n, p) /\ (p.faulted = FALSE => p = Stored(n, WithEntry(n.disk, k, e)))
  <1> DEFINE d == WithEntry(n.disk, k, e)
             a == AcceptsAppend(n.disk, k)
  <1>1. a => d \in Disk /\ d.hard = n.disk.hard
    <2> SUFFICES ASSUME a PROVE d \in Disk /\ d.hard = n.disk.hard
      OBVIOUS
    <2>1. Present(n.disk, k - 1)
      BY WorkingLog DEF AcceptsAppend, Present, IsLog, LastIndex
    <2>2. Append(UpTo(n.disk, k - 1), e) \in Seq(Entry)
      BY <2>1, WorkingLog, UpToFacts, AppendFacts
    <2> QED BY ZenonT(30), <2>2, HardType DEF WithEntry, Disk
  <1>2. a \in BOOLEAN
    BY DEF AcceptsAppend
  <1>3. a => Grows(n.disk.hard, d.hard)
    BY <1>1, HardType DEF Grows
  <1>4. PersistEntry(n, k, e) = StoreCall(n, a, d)
    BY DEF PersistEntry
  <1> HIDE DEF a, d
  <1>5. LET p == StoreCall(n, a, d)
        IN  Evolves(n, p) /\ (p.faulted = FALSE => a /\ p = Stored(n, d))
    BY ZenonT(30), <1>1, <1>2, <1>3, StoreCallEvolves
  <1> QED BY <1>4, <1>5 DEF d

(* Fencing the WAL leaves the hard state alone. *)
LEMMA CompactedType ==
    ASSUME NEW d \in Disk
    PROVE  Compacted(d) \in Disk /\ Compacted(d).hard = d.hard
  <1>1. IsLog(d) /\ d.snap.index \in Nat /\ d.snap.term \in Nat
    BY DEF Disk, IsLog, Snapshot
  <1>2. AgreesWithSnapshot(d) => After(d, d.snap.index) \in Seq(Entry)
    BY <1>1, AfterFacts DEF AgreesWithSnapshot
  <1>3. << >> \in Seq(Entry)
    OBVIOUS
  <1> DEFINE l == IF AgreesWithSnapshot(d) THEN After(d, d.snap.index) ELSE << >>
  <1>4. l \in Seq(Entry)
    BY <1>2, <1>3
  <1>5. Compacted(d) = [d EXCEPT !.base = d.snap.index, !.baseTerm = d.snap.term, !.log = l]
    BY DEF Compacted
  <1> HIDE DEF l
  <1> QED BY ZenonT(30), <1>1, <1>4, <1>5 DEF Disk

(* SaveSnapshot and CompactLog leave the hard state alone. *)
LEMMA PersistSnapshotEvolves ==
    ASSUME NEW n \in Working, NEW s \in Snapshot
    PROVE  Evolves(n, PersistSnapshot(n, s))
  <1> DEFINE a == AcceptsSnapshot(n.disk, s)
             d == WithSnapshot(n.disk, s)
             saved == StoreCall(n, a, d)
  <1>1. d \in Disk /\ d.hard = n.disk.hard
    BY HardType DEF WithSnapshot, Disk
  <1>2. a \in BOOLEAN /\ Grows(n.disk.hard, d.hard)
    BY <1>1, HardType DEF AcceptsSnapshot, Grows
  <1>3. Evolves(n, saved)
    <2> HIDE DEF a, d
    <2> QED BY ZenonT(30), <1>1, <1>2, StoreCallEvolves
  <1>4. saved \in Working
    BY <1>3 DEF Evolves
  <1> DEFINE b == AcceptsCompact(saved.disk, s.index)
             c == Compacted(saved.disk)
  <1>5. b \in BOOLEAN
    BY DEF AcceptsCompact
  <1>6. c \in Disk /\ Grows(saved.disk.hard, c.hard)
    <2> HIDE DEF saved
    <2> QED BY <1>4, CompactedType, HardType DEF Grows
  <1>7. Evolves(saved, StoreCall(saved, b, c))
    <2> HIDE DEF saved, b, c
    <2> QED BY ZenonT(30), <1>4, <1>5, <1>6, StoreCallEvolves
  <1>8. PersistSnapshot(n, s) = IF saved.faulted THEN saved ELSE StoreCall(saved, b, c)
    BY DEF PersistSnapshot
  <1> HIDE DEF saved, b, c
  <1> QED BY <1>3, <1>7, <1>8, EvolvesTrans

----------------------------------------------------------------------------
(* Messages                                                                *)

(* Sending messages that are not votes. *)
LEMMA SendEvolves ==
    ASSUME NEW n \in Working, NEW ms, ms \subseteq Mail, \A m \in ms : ~IsVote(m)
    PROVE  Evolves(n, Send(n, ms))
  <1> DEFINE p == Send(n, ms)
  <1>1. p \in Working /\ p.id = n.id /\ p.disk = n.disk /\ p.out = n.out \cup ms
    BY ZenonT(30) DEF Working, Send
  <1> HIDE DEF p
  <1>2. Evolves(n, p)
    BY <1>1, EvolvesFrame
  <1> QED BY <1>2 DEF p

(* None of these messages casts a vote. *)
LEMMA PlainMail ==
    /\ \A m \in SnapshotRequest \cup SnapshotResponse \cup TransferRequest \cup AppendResponse :
          m \in Mail /\ ~IsVote(m)
    /\ \A m \in AppendRequest : Len(m.entries) <= 1 => m \in Mail /\ ~IsVote(m)
    /\ \A m \in VoteRequest : m.type = "PreVote" => m \in Mail /\ ~IsVote(m)
    /\ \A m \in VoteResponse : m.type = "PreVoteResponse" \/ m.reject => m \in Mail /\ ~IsVote(m)
  <1>1. \A m \in SnapshotRequest : m \in Message /\ m.type = "InstallSnapshot"
    BY DEF Message, SnapshotRequest
  <1>2. \A m \in SnapshotResponse : m \in Message /\ m.type = "InstallSnapshotResponse"
    BY DEF Message, SnapshotResponse
  <1>3. \A m \in TransferRequest : m \in Message /\ m.type = "TimeoutNow"
    BY DEF Message, TransferRequest
  <1>4. \A m \in AppendResponse : m \in Message /\ m.type = "AppendResponse"
    BY DEF Message, AppendResponse
  <1>5. \A m \in AppendRequest : m \in Message /\ m.type = "Append"
    BY DEF Message, AppendRequest
  <1>6. \A m \in VoteRequest : m \in Message
    BY DEF Message
  <1>7. \A m \in VoteResponse : m \in Message /\ m.type \in {"PreVoteResponse", "RequestVoteResponse"}
    BY DEF Message, VoteResponse
  <1> QED BY <1>1, <1>2, <1>3, <1>4, <1>5, <1>6, <1>7 DEF Mail, OneEntry, IsVote

(* appendTo sends one entry at most, or a snapshot; neither is a vote. *)
LEMMA AppendMsgType ==
    ASSUME NEW n \in Working, NEW p \in Server, NEW context \in ReadContext \cup {None}
    PROVE  AppendMsg(n, p, context) \in Mail /\ ~IsVote(AppendMsg(n, p, context))
  <1>1. IsLog(n) /\ LastIndex(n) \in Nat
    BY WorkingLog, LogFacts
  <1>2. /\ n.id \in Server /\ n.term \in Nat /\ n.snap \in Snapshot /\ n.commit \in Nat
        /\ n.next[p] \in Nat /\ n.base \in Nat
    BY DEF Working
  <1>3. CASE n.next[p] <= n.base
    <2>1. AppendMsg(n, p, context) \in SnapshotRequest
      BY <1>2, <1>3 DEF AppendMsg, SnapshotRequest
    <2> QED BY SMTT(30), <2>1, PlainMail
  <1>4. CASE ~(n.next[p] <= n.base)
    <2> DEFINE next == Max2(1, Min2(n.next[p], LastIndex(n) + 1))
               es == IF next <= LastIndex(n) THEN << EntryAt(n, next) >> ELSE << >>
    <2>1. next \in Nat /\ n.base < next /\ next <= LastIndex(n) + 1
      BY SMTT(30), <1>1, <1>2, <1>4, LogFacts DEF Max2, Min2
    <2> HIDE DEF next
    <2>2. next - 1 \in Nat /\ TermAt(n, next - 1) \in Nat
      BY <1>1, <1>2, <2>1, LogFacts DEF Present
    <2>3. es \in Seq(Entry) /\ Len(es) <= 1
      <3>1. next <= LastIndex(n) => EntryAt(n, next) \in Entry
        BY SMTT(30), <1>1, <2>1, LogFacts
      <3> QED BY <3>1
    <2>4. AppendMsg(n, p, context) =
            [type |-> "Append", from |-> n.id, to |-> p, term |-> n.term, logIndex |-> next - 1,
             logTerm |-> TermAt(n, next - 1), entries |-> es, commit |-> n.commit,
             context |-> context]
      BY SMTT(30), <1>4 DEF AppendMsg, next
    <2> HIDE DEF es
    <2>5. /\ AppendMsg(n, p, context) \in AppendRequest
          /\ Len(AppendMsg(n, p, context).entries) <= 1
      BY <1>2, <2>2, <2>3, <2>4 DEF AppendRequest
    <2> QED BY SMTT(30), <2>5, PlainMail
  <1> QED BY <1>3, <1>4

(* Appends to any set of peers. *)
LEMMA AppendToAllEvolves ==
    ASSUME NEW n \in Working, NEW peers, peers \subseteq Server,
           NEW context \in ReadContext \cup {None}
    PROVE  Evolves(n, AppendToAll(n, peers, context))
  <1> DEFINE f == [p \in Server |-> IF p \in peers THEN Min2(n.next[p], LastIndex(n) + 1)
                                                   ELSE n.next[p]]
             m == [n EXCEPT !.next = f]
             ms == {AppendMsg(n, p, context) : p \in peers}
  <1>1. LastIndex(n) \in Nat
    BY WorkingLog, LogFacts
  <1>2. f \in [Server -> Nat]
    <2>1. n.next \in [Server -> Nat]
      BY DEF Working
    <2> QED BY <1>1, <2>1 DEF Min2
  <1>3. m \in Working /\ m.id = n.id /\ m.disk = n.disk /\ m.out = n.out
    <2> HIDE DEF f
    <2> QED BY ZenonT(30), <1>2 DEF Working
  <1>4. ms \subseteq Mail /\ \A x \in ms : ~IsVote(x)
    BY AppendMsgType
  <1>5. AppendToAll(n, peers, context) = Send(m, ms)
    BY DEF AppendToAll
  <1> HIDE DEF m, ms
  <1>6. Evolves(n, m) /\ Evolves(m, Send(m, ms))
    BY <1>3, <1>4, EvolvesFrame, SendEvolves
  <1> QED BY <1>5, <1>6, EvolvesTrans

(* appendTo, to one peer. *)
LEMMA AppendToEvolves ==
    ASSUME NEW n \in Working, NEW p \in Server
    PROVE  Evolves(n, AppendTo(n, p))
  <1>1. {p} \subseteq Server /\ None \in ReadContext \cup {None}
    OBVIOUS
  <1> QED BY <1>1, AppendToAllEvolves DEF AppendTo

(* broadcastAppend, to every peer that votes. *)
LEMMA BroadcastAppendEvolves ==
    ASSUME NEW n \in Working
    PROVE  Evolves(n, BroadcastAppend(n))
  <1>1. {p \in n.peers : IsVoter(n, p)} \subseteq Server /\ None \in ReadContext \cup {None}
    BY DEF Working
  <1> QED BY <1>1, AppendToAllEvolves DEF BroadcastAppend

----------------------------------------------------------------------------
(* The handlers, in the order of their calls                               *)

(* The types of the fields that index the log. *)
LEMMA IndexTypes ==
    ASSUME NEW n \in Working
    PROVE  /\ n.commit \in Nat /\ n.base \in Nat /\ n.applied \in Nat /\ n.term \in Nat
           /\ LastIndex(n) \in Nat /\ n.base <= LastIndex(n) /\ LastTerm(n) \in Nat
           /\ n.id \in Server /\ n.votedFor \in Server \cup {None}
  <1>1. /\ n.commit \in Nat /\ n.base \in Nat /\ n.applied \in Nat /\ n.term \in Nat
        /\ n.id \in Server /\ n.votedFor \in Server \cup {None}
    BY DEF Working
  <1> QED BY <1>1, WorkingLog, LogFacts

(* The log and the commit index of n are those of p. *)
SameLog(n, p) == p.log = n.log /\ p.base = n.base /\ p.commit = n.commit

----------------------------------------------------------------------------
(* Configurations                                                          *)

(* ensurePeers only adds peers; the log stays as it is. *)
LEMMA EnsurePeersEvolves ==
    ASSUME NEW n \in Working, NEW voters, voters \subseteq Server
    PROVE  LET p == EnsurePeers(n, voters)
           IN  Evolves(n, p) /\ SameLog(n, p)
  <1> DEFINE fresh == (voters \ {n.id}) \ n.peers
             f == [q \in Server |-> IF q \in fresh THEN LastIndex(n) + 1 ELSE n.next[q]]
             g == [q \in Server |-> IF q \in fresh THEN 0 ELSE n.match[q]]
             p == [n EXCEPT !.peers = @ \cup fresh, !.next = f, !.match = g]
  <1>1. fresh \subseteq Server
    OBVIOUS
  <1>2. n.next \in [Server -> Nat] /\ n.match \in [Server -> Nat] /\ LastIndex(n) \in Nat
    BY ZenonT(30), WorkingLog, LogFacts DEF Working
  <1>3. f \in [Server -> Nat] /\ g \in [Server -> Nat]
    <2> HIDE DEF fresh
    <2> QED BY <1>2
  <1>4. p \in Working /\ p.id = n.id /\ p.disk = n.disk /\ p.out = n.out /\ SameLog(n, p)
    <2> HIDE DEF f, g, fresh
    <2> QED BY ZenonT(30), <1>1, <1>3 DEF Working, SameLog
  <1>5. EnsurePeers(n, voters) = p
    BY DEF EnsurePeers
  <1> HIDE DEF p
  <1> QED BY <1>4, <1>5, EvolvesFrame

(* The indexes of the configuration entries in a part of the log. *)
LEMMA ConfigIndexesFacts ==
    ASSUME NEW n \in Working, NEW first \in Nat, NEW last \in Nat, last <= LastIndex(n)
    PROVE  LET K == ConfigIndexes(n, first, last)
           IN  /\ K \subseteq Nat /\ \A k \in K : k <= last /\ EntryAt(n, k) \in Entry
               /\ VotersNamed(n, K) \subseteq Server
               /\ \A L \in SUBSET K : VotersNamed(n, L) \subseteq Server
               /\ K # {} => SetMax(K) \in K
  <1> DEFINE K == ConfigIndexes(n, first, last)
  <1>1. K \subseteq Nat /\ \A k \in K : k <= last
    BY DEF ConfigIndexes
  <1>2. \A k \in K : EntryAt(n, k) \in Entry
    BY WorkingLog, LogFacts DEF ConfigIndexes, IsLog
  <1>3. \A L \in SUBSET K : VotersNamed(n, L) \subseteq Server
    <2> HIDE DEF K
    <2> QED BY <1>2 DEF VotersNamed, Entry
  <1>4. K # {} => SetMax(K) \in K
    <2> HIDE DEF K
    <2> QED BY ZenonT(30), <1>1, SetMaxBounded
  <1> QED BY <1>1, <1>2, <1>3, <1>4

(* Clearing pendingConfig touches neither the disk nor the outbound buffer. *)
LEMMA SettlePendingEvolves ==
    ASSUME NEW n \in Working, NEW first, NEW last
    PROVE  Evolves(n, SettlePending(n, first, last))
  <1> DEFINE c == IF n.pendingConfig \in first .. last /\ n.pendingConfig > n.base
                  THEN 0 ELSE n.pendingConfig
             p == [n EXCEPT !.pendingConfig = c]
  <1>1. c \in Nat
    BY DEF Working
  <1>2. p \in Working /\ p.id = n.id /\ p.disk = n.disk /\ p.out = n.out
    <2> HIDE DEF c
    <2> QED BY ZenonT(30), <1>1 DEF Working
  <1>3. SettlePending(n, first, last) = p
    BY DEF SettlePending
  <1> HIDE DEF p
  <1> QED BY <1>2, <1>3, EvolvesFrame

(* applyCommittedConfigurations changes voters, peers and role, never a vote. *)
LEMMA ApplyCommittedConfigurationsEvolves ==
    ASSUME NEW n \in Working, NEW first \in Nat, NEW last \in Nat, last <= LastIndex(n)
    PROVE  Evolves(n, ApplyCommittedConfigurations(n, first, last))
  <1> DEFINE K == ConfigIndexes(n, first, last)
             J == {k \in K : EntryAt(n, k).kind = "joint"}
             voters == VotersAfter(EntryAt(n, SetMax(K)))
             after(k) == [n EXCEPT !.votersOld = EntryAt(n, k).old, !.votersNew = EntryAt(n, k).new]
             removed == \E k \in K : EntryAt(n, k).kind = "final" /\ ~IsVoter(after(k), n.id)
             peered == EnsurePeers(n, VotersNamed(n, J))
             changed == [peered EXCEPT !.votersOld = voters.old,
                                       !.votersNew = voters.new,
                                       !.state     = IF removed THEN "Follower" ELSE @,
                                       !.leader    = IF removed THEN None ELSE @,
                                       !.readReady = @ /\ ~removed]
             configured == IF K = {} THEN n ELSE changed
  <1>1. Evolves(n, peered) /\ peered \in Working
    <2>1. VotersNamed(n, J) \subseteq Server
      BY ConfigIndexesFacts
    <2> HIDE DEF J
    <2> QED BY <2>1, EnsurePeersEvolves DEF Evolves
  <1>2. K # {} => voters.old \subseteq Server /\ voters.new \subseteq Server
    <2>1. K # {} => EntryAt(n, SetMax(K)) \in Entry
      BY ConfigIndexesFacts
    <2> QED BY <2>1 DEF VotersAfter, Entry
  <1>3. K # {} => /\ changed \in Working /\ changed.id = peered.id
                  /\ changed.disk = peered.disk /\ changed.out = peered.out
    <2> DEFINE st == IF removed THEN "Follower" ELSE peered.state
               le == IF removed THEN None ELSE peered.leader
               rr == peered.readReady /\ ~removed
    <2>1. st \in Role /\ le \in Server \cup {None} /\ rr \in BOOLEAN
      <3>1. peered.state \in Role /\ peered.leader \in Server \cup {None}
        BY ZenonT(30), <1>1 DEF Working
      <3> HIDE DEF removed, peered
      <3> QED BY <3>1 DEF Role
    <2>2. changed = [peered EXCEPT !.votersOld = voters.old, !.votersNew = voters.new,
                                   !.state = st, !.leader = le, !.readReady = rr]
      OBVIOUS
    <2> HIDE DEF peered, K, voters, st, le, rr, changed
    <2> QED BY ZenonT(30), <1>1, <1>2, <2>1, <2>2 DEF Working
  <1>4. Evolves(n, configured) /\ configured \in Working
    <2>1. CASE K = {}
      BY <2>1, EvolvesRefl
    <2>2. CASE K # {}
      <3> HIDE DEF K, changed, peered
      <3>1. Evolves(peered, changed)
        BY <1>1, <1>3, <2>2, EvolvesFrame
      <3> QED BY <1>1, <1>3, <2>2, <3>1, EvolvesTrans
    <2> QED BY <2>1, <2>2
  <1>5. ApplyCommittedConfigurations(n, first, last) = SettlePending(configured, first, last)
    BY DEF ApplyCommittedConfigurations
  <1> HIDE DEF configured
  <1> QED BY <1>4, <1>5, SettlePendingEvolves, EvolvesTrans

(* rebuildPendingConfig changes pendingConfig and the peers only. *)
LEMMA RebuildPendingConfigEvolves ==
    ASSUME NEW n \in Working
    PROVE  LET p == RebuildPendingConfig(n)
           IN  Evolves(n, p) /\ SameLog(n, p)
  <1> DEFINE K == ConfigIndexes(n, n.commit + 1, LastIndex(n))
             c == IF K = {} THEN 0 ELSE SetMax(K)
             m == EnsurePeers(n, VotersNamed(n, K))
             p == [m EXCEPT !.pendingConfig = c]
  <1>1. n.commit + 1 \in Nat /\ LastIndex(n) \in Nat
    BY IndexTypes
  <1>2. c \in Nat /\ VotersNamed(n, K) \subseteq Server
    <2> HIDE DEF K
    <2>1. /\ VotersNamed(n, K) \subseteq Server /\ K \subseteq Nat
          /\ K # {} => SetMax(K) \in K
      BY SMTT(30), <1>1, ConfigIndexesFacts DEF K
    <2> QED BY ZenonT(30), <2>1
  <1>3. Evolves(n, m) /\ SameLog(n, m) /\ m \in Working
    <2> HIDE DEF K
    <2> QED BY <1>2, EnsurePeersEvolves DEF Evolves
  <1>4. p \in Working /\ p.id = m.id /\ p.disk = m.disk /\ p.out = m.out /\ SameLog(m, p)
    <2> HIDE DEF c, m
    <2> QED BY ZenonT(30), <1>2, <1>3 DEF Working, SameLog
  <1>5. RebuildPendingConfig(n) = p
    BY DEF RebuildPendingConfig
  <1> HIDE DEF m, p
  <1>6. Evolves(m, p)
    BY <1>3, <1>4, EvolvesFrame
  <1> QED BY SMTT(30), <1>3, <1>4, <1>5, <1>6, EvolvesTrans DEF SameLog

----------------------------------------------------------------------------
(* The leader's log                                                        *)

(* The fail-stop flag is a Boolean. *)
LEMMA FaultedType ==
    ASSUME NEW n \in Working
    PROVE  n.faulted \in BOOLEAN
  BY DEF Working

(* A store call that succeeded changes nothing but the disk. *)
LEMMA StoredFrame ==
    ASSUME NEW n \in Working, NEW image
    PROVE  LET p == Stored(n, image)
           IN  /\ SameLog(n, p) /\ p.id = n.id /\ p.out = n.out /\ p.disk = image
               /\ p.term = n.term /\ p.votedFor = n.votedFor /\ p.baseTerm = n.baseTerm
  BY DEF Stored, Working, SameLog

(* The node remembers c as its commit index and takes over the             *)
(* configurations up to it: the tail of appendLocal, onAppend and          *)
(* onAppendResponse.                                                       *)
LEMMA CommitEvolves ==
    ASSUME NEW n \in Working, NEW c \in Nat, c <= LastIndex(n), NEW first \in Nat,
           PersistHardState(n, n.term, n.votedFor, c).faulted = FALSE
    PROVE  LET p == PersistHardState(n, n.term, n.votedFor, c)
           IN  Evolves(n, ApplyCommittedConfigurations([p EXCEPT !.commit = c], first, c))
  <1> DEFINE p == PersistHardState(n, n.term, n.votedFor, c)
             h == [term |-> n.term, votedFor |-> n.votedFor, commit |-> c]
             q == [p EXCEPT !.commit = c]
  <1>1. Evolves(n, p) /\ p = Stored(n, WithHardState(n.disk, h))
    BY ZenonT(30), IndexTypes, PersistHardStateEvolves
  <1> HIDE DEF p
  <1>2. p \in Working /\ SameLog(n, p)
    <2>1. p \in Working
      BY ZenonT(30), <1>1 DEF Evolves
    <2>2. SameLog(n, Stored(n, WithHardState(n.disk, h)))
      BY ZenonT(30), StoredFrame
    <2> QED BY ZenonT(30), <1>1, <2>1, <2>2
  <1>3. q \in Working /\ q.id = p.id /\ q.disk = p.disk /\ q.out = p.out /\ q.log = p.log /\ q.base = p.base
    BY ZenonT(30), <1>2 DEF Working
  <1> HIDE DEF q
  <1>4. c <= LastIndex(q)
    BY <1>2, <1>3 DEF LastIndex, SameLog
  <1>5. Evolves(p, q)
    BY <1>2, <1>3, EvolvesFrame
  <1>6. Evolves(q, ApplyCommittedConfigurations(q, first, c))
    BY SMTT(30), <1>3, <1>4, ApplyCommittedConfigurationsEvolves
  <1>7. Evolves(n, ApplyCommittedConfigurations(q, first, c))
    BY SMTT(30), <1>1, <1>2, <1>5, <1>6, EvolvesTrans
  <1> QED BY <1>7 DEF q, p

(* Appending a stored entry to the log in memory. *)
LEMMA ExtendEvolves ==
    ASSUME NEW n \in Working, NEW e \in Entry
    PROVE  LET p == [n EXCEPT !.log = Append(@, e)]
           IN  /\ Evolves(n, p) /\ LastIndex(p) = LastIndex(n) + 1
               /\ p.commit = n.commit /\ p.base = n.base
  <1> DEFINE l == Append(n.log, e)
             p == [n EXCEPT !.log = l]
  <1>1. l \in Seq(Entry) /\ Len(l) = Len(n.log) + 1
    BY AppendFacts DEF Working
  <1>2. /\ p \in Working /\ p.id = n.id /\ p.disk = n.disk /\ p.out = n.out
        /\ p.log = l /\ p.base = n.base /\ p.commit = n.commit
    <2> HIDE DEF l
    <2> QED BY ZenonT(30), <1>1 DEF Working
  <1> HIDE DEF l, p
  <1>3. n.base \in Nat /\ Len(n.log) \in Nat
    BY DEF Working
  <1>4. Evolves(n, p) /\ LastIndex(p) = LastIndex(n) + 1
    BY SMTT(30), <1>1, <1>2, <1>3, EvolvesFrame DEF LastIndex
  <1> QED BY <1>2, <1>4 DEF l, p

(* appendLocal stores the entry and, for a lone voter, the commit index. *)
LEMMA AppendLocalEvolves ==
    ASSUME NEW n \in Working, NEW e \in Entry
    PROVE  Evolves(n, AppendLocal(n, e))
  <1> DEFINE stored    == PersistEntry(n, LastIndex(n) + 1, e)
             appended  == [stored EXCEPT !.log = Append(@, e)]
             last      == LastIndex(appended)
             persisted == PersistHardState(appended, appended.term, appended.votedFor, last)
             committed == ApplyCommittedConfigurations([persisted EXCEPT !.commit = last],
                                                       n.commit + 1, last)
  <1>0. LastIndex(n) + 1 \in Nat /\ n.commit + 1 \in Nat
    BY IndexTypes
  <1>1. Evolves(n, stored) /\ stored \in Working
    BY ZenonT(30), <1>0, PersistEntryEvolves, EvolvesWorking
  <1> HIDE DEF stored
  <1>2. Evolves(n, appended) /\ appended \in Working
    BY SMTT(30), <1>1, ExtendEvolves, EvolvesTrans, EvolvesWorking
  <1> HIDE DEF appended
  <1>3. /\ last \in Nat /\ last <= LastIndex(appended)
        /\ appended.term \in Nat /\ appended.votedFor \in Server \cup {None}
    BY <1>2, IndexTypes
  <1>4. Evolves(n, persisted) /\ persisted \in Working
    <2>1. Evolves(appended, persisted)
      BY ZenonT(30), <1>2, <1>3, PersistHardStateEvolves
    <2> QED BY <1>2, <2>1, EvolvesTrans, EvolvesWorking
  <1>5. persisted.faulted = FALSE => Evolves(n, committed)
    <2>1. persisted.faulted = FALSE => Evolves(appended, committed)
      BY ZenonT(30), <1>0, <1>2, <1>3, CommitEvolves
    <2> HIDE DEF committed
    <2> QED BY <1>2, <2>1, EvolvesTrans
  <1>6. AppendLocal(n, e) = IF stored.faulted THEN stored
                            ELSE IF ~QuorumMask(appended, {n.id}) THEN appended
                            ELSE IF persisted.faulted THEN persisted ELSE committed
    BY DEF AppendLocal, stored, appended
  <1> HIDE DEF persisted, committed
  <1> QED BY SMTT(30), <1>1, <1>2, <1>4, <1>5, <1>6, FaultedType

(* becomeLeader appends the no-op and broadcasts; it casts no vote. *)
LEMMA BecomeLeaderEvolves ==
    ASSUME NEW n \in Working
    PROVE  Evolves(n, BecomeLeader(n))
  <1> DEFINE m == [n EXCEPT !.state = "Leader", !.leader = n.id]
             elected == AppendLocal(m, NoopEntry(n.term))
             last == LastIndex(elected) + 1
             f == [p \in Server |-> IF p \in elected.peers THEN last ELSE elected.next[p]]
             g == [p \in Server |-> IF p \in elected.peers THEN 0 ELSE elected.match[p]]
             ready == [elected EXCEPT !.next = f, !.match = g]
  <1>1. m \in Working /\ m.id = n.id /\ m.disk = n.disk /\ m.out = n.out
    BY ZenonT(30) DEF Working, Role
  <1>2. NoopEntry(n.term) \in Entry
    BY IndexTypes DEF NoopEntry, Entry, EntryKind
  <1> HIDE DEF m
  <1>3. Evolves(n, elected) /\ elected \in Working
    <2>1. Evolves(n, m)
      BY <1>1, EvolvesFrame
    <2>2. Evolves(m, elected)
      BY <1>1, <1>2, AppendLocalEvolves
    <2>3. Evolves(n, elected)
      BY <2>1, <2>2, EvolvesTrans
    <2> QED BY ZenonT(30), <2>3 DEF Evolves
  <1> HIDE DEF elected
  <1>4. f \in [Server -> Nat] /\ g \in [Server -> Nat]
    <2>1. elected.next \in [Server -> Nat] /\ elected.match \in [Server -> Nat]
      BY ZenonT(30), <1>3 DEF Working
    <2>2. last \in Nat
      BY <1>3, IndexTypes
    <2> HIDE DEF last
    <2> QED BY <2>1, <2>2
  <1> HIDE DEF f, g
  <1>5. ready \in Working /\ ready.id = elected.id /\ ready.disk = elected.disk /\ ready.out = elected.out
    BY ZenonT(30), <1>3, <1>4 DEF Working
  <1>6. BecomeLeader(n) = IF elected.faulted THEN elected ELSE BroadcastAppend(ready)
    BY DEF BecomeLeader, elected, m, f, g
  <1> HIDE DEF ready
  <1>7. Evolves(n, BroadcastAppend(ready))
    <2>1. Evolves(n, ready)
      BY SMTT(30), <1>3, <1>5, EvolvesFrame, EvolvesTrans
    <2> QED BY SMTT(30), <1>5, <2>1, BroadcastAppendEvolves, EvolvesTrans
  <1> QED BY <1>3, <1>6, <1>7

----------------------------------------------------------------------------
(* Elections                                                               *)

(* Once the vote v of term t is stored it may be sent. *)
LEMMA CastFacts ==
    ASSUME NEW n \in Working, NEW t \in Nat, NEW v \in Server,
           PersistHardState(n, t, v, n.commit).faulted = FALSE
    PROVE  LET p == PersistHardState(n, t, v, n.commit)
           IN  /\ p.id = n.id /\ p.out = n.out /\ Grows(n.disk.hard, p.disk.hard)
               /\ \A m : m.term = t /\ VotedFor(m) = v =>
                      Fresh(n.disk.hard, m) /\ Durable(p.disk.hard, m)
  <1> DEFINE p == PersistHardState(n, t, v, n.commit)
             h == [term |-> t, votedFor |-> v, commit |-> n.commit]
  <1>1. AcceptsHardState(n.disk, h) /\ p = Stored(n, WithHardState(n.disk, h))
    <2>1. v \in Server \cup {None} /\ n.commit \in Nat
      BY SMTT(30), IndexTypes
    <2> QED BY ZenonT(30), <2>1, PersistHardStateEvolves
  <1>2. p.disk = WithHardState(n.disk, h) /\ p.id = n.id /\ p.out = n.out
    BY <1>1, StoredFrame
  <1> HIDE DEF p
  <1>3. p.disk.hard = h /\ h.term = t /\ h.votedFor = v
    BY SMTT(30), <1>2, HardType DEF WithHardState, Disk
  <1>4. Grows(n.disk.hard, p.disk.hard)
    BY SMTT(30), <1>1, <1>3, HardType DEF Grows, AcceptsHardState
  <1>5. ASSUME NEW m, m.term = t, VotedFor(m) = v
        PROVE  Fresh(n.disk.hard, m) /\ Durable(p.disk.hard, m)
    BY SMTT(30), <1>1, <1>3, <1>5, HardType DEF Fresh, Durable, AcceptsHardState
  <1> QED BY <1>2, <1>4, <1>5 DEF p

(* The request startElection sends is a vote for the node itself. *)
LEMMA RequestVoteMsgType ==
    ASSUME NEW n \in Working, NEW p \in Server
    PROVE  LET m == RequestVoteMsg(n, p)
           IN  m \in Mail /\ m.from = n.id /\ m.term = n.term /\ VotedFor(m) = n.id
  <1> DEFINE m == RequestVoteMsg(n, p)
  <1>1. m \in VoteRequest /\ m.type = "RequestVote" /\ m.from = n.id /\ m.term = n.term
    BY IndexTypes DEF RequestVoteMsg, VoteRequest
  <1> HIDE DEF m
  <1>2. m \in Mail
    BY <1>1 DEF Mail, Message, OneEntry
  <1>3. VotedFor(m) = n.id
    BY <1>1 DEF VotedFor
  <1> QED BY SMTT(30), <1>1, <1>2, <1>3 DEF m

(* The request startPreVote sends is no vote. *)
LEMMA PreVoteMsgType ==
    ASSUME NEW n \in Working, NEW p \in Server
    PROVE  PreVoteMsg(n, p) \in Mail /\ ~IsVote(PreVoteMsg(n, p))
  <1>1. n.preVoteTerm \in Nat
    BY SMTT(30) DEF Working
  <1>2. PreVoteMsg(n, p) \in VoteRequest /\ PreVoteMsg(n, p).type = "PreVote"
    BY SMTT(30), <1>1, IndexTypes DEF PreVoteMsg, VoteRequest
  <1> QED BY <1>2, PlainMail

(* startElection persists the vote for itself before it asks for votes. *)
LEMMA StartElectionEvolves ==
    ASSUME NEW n \in Working
    PROVE  Evolves(n, StartElection(n))
  <1> DEFINE persisted == PersistHardState(n, n.term + 1, n.id, n.commit)
             candidate == [persisted EXCEPT !.state = "Candidate", !.term = n.term + 1,
                                            !.votedFor = n.id, !.voteMask = {n.id},
                                            !.preVoteMask = {}]
             ms        == {RequestVoteMsg(candidate, p) : p \in n.peers}
             asked     == Send(candidate, ms)
  <1>0. n.term + 1 \in Nat /\ n.id \in Server /\ n.id \in Server \cup {None} /\ n.commit \in Nat
    BY IndexTypes
  <1>1. Evolves(n, persisted) /\ persisted \in Working
    BY ZenonT(30), <1>0, PersistHardStateEvolves, EvolvesWorking
  <1>2. persisted.faulted = FALSE =>
           /\ persisted.id = n.id /\ persisted.out = n.out /\ Grows(n.disk.hard, persisted.disk.hard)
           /\ \A m : m.term = n.term + 1 /\ VotedFor(m) = n.id =>
                  Fresh(n.disk.hard, m) /\ Durable(persisted.disk.hard, m)
    BY ZenonT(30), <1>0, CastFacts
  <1>3. persisted.faulted = FALSE => Evolves(n, asked) /\ asked \in Working
    <2> SUFFICES ASSUME persisted.faulted = FALSE PROVE Evolves(n, asked)
      BY ZenonT(30), EvolvesWorking
    <2>1. /\ candidate \in Working /\ candidate.id = n.id /\ candidate.disk = persisted.disk
          /\ candidate.out = n.out /\ candidate.term = n.term + 1
      <3> HIDE DEF persisted
      <3>1. persisted.id = n.id /\ persisted.out = n.out
        BY <1>2
      <3>2. {n.id} \in SUBSET Server /\ n.id \in Server \cup {None}
        BY <1>0
      <3> QED BY ZenonT(30), <1>0, <1>1, <3>1, <3>2 DEF Working, Role
    <2> HIDE DEF candidate
    <2>2. n.peers \subseteq Server
      BY DEF Working
    <2>3. /\ ms \subseteq Mail
          /\ \A m \in ms : m.from = n.id /\ m.term = n.term + 1 /\ VotedFor(m) = n.id
      BY <2>1, <2>2, RequestVoteMsgType
    <2> HIDE DEF ms
    <2>4. /\ asked \in Working /\ asked.id = n.id /\ asked.disk = persisted.disk
          /\ asked.out = n.out \cup ms
      <3> HIDE DEF persisted
      <3> QED BY ZenonT(30), <2>1, <2>3 DEF Send, Working
    <2> HIDE DEF asked
    <2> HIDE DEF persisted
    <2> QED BY <1>2, <2>3, <2>4 DEF Evolves
  <1>4. StartElection(n) = IF persisted.faulted THEN persisted
                           ELSE IF QuorumMask(asked, asked.voteMask) THEN BecomeLeader(asked)
                           ELSE asked
    BY DEF StartElection
  <1> HIDE DEF persisted, asked
  <1> QED BY SMTT(30), <1>1, <1>3, <1>4, FaultedType, BecomeLeaderEvolves, EvolvesTrans

(* startPreVote casts no vote unless the node is a quorum by itself. *)
LEMMA StartPreVoteEvolves ==
    ASSUME NEW n \in Working
    PROVE  Evolves(n, StartPreVote(n))
  <1> DEFINE opened == [n EXCEPT !.preVoteTerm = n.term + 1, !.leader = None, !.preVoteMask = {n.id}]
             ms     == {PreVoteMsg(opened, p) : p \in n.peers}
             asked  == Send(opened, ms)
  <1>0. n.term + 1 \in Nat /\ n.id \in Server
    BY IndexTypes
  <1>1. opened \in Working /\ opened.id = n.id /\ opened.disk = n.disk /\ opened.out = n.out
    BY ZenonT(30), <1>0 DEF Working
  <1> HIDE DEF opened
  <1>2. n.peers \subseteq Server
    BY DEF Working
  <1>3. ms \subseteq Mail /\ \A m \in ms : ~IsVote(m)
    BY <1>1, <1>2, PreVoteMsgType
  <1> HIDE DEF ms
  <1>4. Evolves(n, asked) /\ asked \in Working
    BY SMTT(30), <1>1, <1>3, EvolvesFrame, SendEvolves, EvolvesTrans, EvolvesWorking
  <1>5. StartPreVote(n) = IF QuorumMask(asked, asked.preVoteMask) THEN StartElection(asked) ELSE asked
    BY SMTT(30) DEF StartPreVote, opened, ms
  <1> HIDE DEF asked
  <1> QED BY <1>4, <1>5, StartElectionEvolves, EvolvesTrans

(* What a message carries, by its type. *)
LEMMA MailFields ==
    ASSUME NEW m \in Mail
    PROVE  /\ m.from \in Server /\ m.to \in Server /\ m.term \in Nat /\ m.type \in MessageTypes
           /\ m.type = "Append" => m \in AppendRequest /\ Len(m.entries) <= 1
           /\ m.type = "AppendResponse" => m \in AppendResponse
           /\ m.type = "InstallSnapshot" => m \in SnapshotRequest
           /\ m.type = "InstallSnapshotResponse" => m \in SnapshotResponse
           /\ m.type \in {"PreVoteResponse", "RequestVoteResponse"} => m.reject \in BOOLEAN
  BY DEF Mail, OneEntry, MessageTypes, VoteTypes, PreVoteTypes, Message, VoteRequest, VoteResponse,
         AppendRequest, AppendResponse, SnapshotRequest, SnapshotResponse, TransferRequest

(* onPreVote answers without voting. *)
LEMMA OnPreVoteEvolves ==
    ASSUME NEW n \in Working, NEW m \in Mail
    PROVE  Evolves(n, OnPreVote(n, m))
  <1>1. m.from \in Server /\ m.term \in Nat
    BY SMTT(30), MailFields
  <1> DEFINE grant == IsVoter(n, m.from) /\ m.term >= n.term + 1 /\ UpToDate(n, m) /\ n.leader = None
             r == PreVoteReply(n, m, ~grant)
  <1>2. r \in VoteResponse /\ r.type = "PreVoteResponse"
    <2>1. (~grant) \in BOOLEAN
      BY DEF IsVoter, UpToDate
    <2> HIDE DEF grant
    <2> QED BY SMTT(30), <1>1, <2>1, IndexTypes DEF PreVoteReply, VoteResponse
  <1>3. OnPreVote(n, m) = Send(n, {r})
    BY DEF OnPreVote
  <1> HIDE DEF r
  <1>4. {r} \subseteq Mail /\ \A x \in {r} : ~IsVote(x)
    BY <1>2, PlainMail
  <1> QED BY SMTT(30), <1>3, <1>4, SendEvolves

(* A quorum of pre-votes leads to startElection and nothing else. *)
LEMMA OnPreVoteResponseEvolves ==
    ASSUME NEW n \in Working, NEW m \in Mail
    PROVE  Evolves(n, OnPreVoteResponse(n, m))
  <1> DEFINE counted == [n EXCEPT !.preVoteMask = @ \cup {m.from}]
             counts  == /\ n.state # "Leader" /\ IsVoter(n, m.from) /\ ~m.reject
                        /\ m.term = n.term + 1 /\ m.term = n.preVoteTerm
  <1>1. m.from \in Server
    BY MailFields
  <1>2. counted \in Working /\ counted.id = n.id /\ counted.disk = n.disk /\ counted.out = n.out
    BY ZenonT(30), <1>1 DEF Working
  <1>3. OnPreVoteResponse(n, m) =
          IF ~counts THEN n
          ELSE IF QuorumMask(counted, counted.preVoteMask) THEN StartElection(counted) ELSE counted
    BY DEF OnPreVoteResponse
  <1> HIDE DEF counted, counts
  <1>4. Evolves(n, counted) /\ Evolves(n, StartElection(counted))
    BY <1>2, EvolvesFrame, StartElectionEvolves, EvolvesTrans
  <1> QED BY SMTT(30), <1>3, <1>4, EvolvesRefl

(* The answer of onVote is a vote exactly when it grants. *)
LEMMA VoteReplyType ==
    ASSUME NEW n \in Working, NEW m \in Mail, NEW reject \in BOOLEAN
    PROVE  LET r == VoteReply(n, m, reject)
           IN  /\ r \in Mail /\ r.from = n.id /\ r.term = n.term /\ VotedFor(r) = m.from
               /\ reject => ~IsVote(r)
  <1> DEFINE r == VoteReply(n, m, reject)
  <1>1. /\ r \in VoteResponse /\ r.type = "RequestVoteResponse" /\ r.from = n.id
        /\ r.term = n.term /\ r.to = m.from /\ r.reject = reject
    BY SMTT(30), MailFields, IndexTypes DEF VoteReply, VoteResponse
  <1> HIDE DEF r
  <1>2. r \in Mail /\ VotedFor(r) = m.from
    BY SMTT(30), <1>1 DEF Mail, Message, OneEntry, VotedFor
  <1>3. reject => ~IsVote(r)
    BY <1>1 DEF IsVote
  <1> QED BY SMTT(30), <1>1, <1>2, <1>3 DEF r

(* onVote persists the vote before it grants it. *)
LEMMA OnVoteEvolves ==
    ASSUME NEW n \in Working, NEW m \in Mail
    PROVE  Evolves(n, OnVote(n, m))
  <1> DEFINE grant     == /\ IsVoter(n, m.from) /\ m.term = n.term
                          /\ n.votedFor \in {None, m.from} /\ UpToDate(n, m)
             persisted == PersistHardState(n, n.term, m.from, n.commit)
             voted     == [persisted EXCEPT !.votedFor = m.from]
             no        == VoteReply(n, m, TRUE)
             yes       == VoteReply(n, m, FALSE)
             granted   == Send(voted, {yes})
  <1>0. /\ m.from \in Server /\ m.from \in Server \cup {None}
        /\ n.term \in Nat /\ n.commit \in Nat
    BY MailFields, IndexTypes
  <1>1. Evolves(n, Send(n, {no}))
    <2>1. {no} \subseteq Mail /\ \A x \in {no} : ~IsVote(x)
      BY ZenonT(30), VoteReplyType
    <2> QED BY ZenonT(30), <2>1, SendEvolves
  <1>2. Evolves(n, persisted) /\ persisted \in Working
    BY ZenonT(30), <1>0, PersistHardStateEvolves, EvolvesWorking
  <1>3. persisted.faulted = FALSE => Evolves(n, granted)
    <2> SUFFICES ASSUME persisted.faulted = FALSE PROVE Evolves(n, granted)
      BY ZenonT(30)
    <2>1. /\ persisted.id = n.id /\ persisted.out = n.out /\ Grows(n.disk.hard, persisted.disk.hard)
          /\ \A x : x.term = n.term /\ VotedFor(x) = m.from =>
                 Fresh(n.disk.hard, x) /\ Durable(persisted.disk.hard, x)
      BY ZenonT(30), <1>0, CastFacts
    <2>2. yes \in Mail /\ yes.from = n.id /\ yes.term = n.term /\ VotedFor(yes) = m.from
      BY ZenonT(30), VoteReplyType
    <2> HIDE DEF persisted, yes
    <2>3. /\ voted \in Working /\ voted.id = persisted.id /\ voted.disk = persisted.disk
          /\ voted.out = persisted.out
      BY ZenonT(30), <1>0, <1>2 DEF Working
    <2> HIDE DEF voted
    <2>4. /\ granted \in Working /\ granted.id = n.id /\ granted.disk = persisted.disk
          /\ granted.out = n.out \cup {yes}
      <3>1. voted.id = n.id /\ voted.out = n.out
        BY <2>1, <2>3
      <3> QED BY ZenonT(30), <2>2, <2>3, <3>1 DEF Send, Working
    <2> HIDE DEF granted
    <2> QED BY <2>1, <2>2, <2>4 DEF Evolves
  <1>4. OnVote(n, m) = IF ~grant THEN Send(n, {no})
                       ELSE IF persisted.faulted THEN persisted ELSE granted
    BY DEF OnVote
  <1> HIDE DEF grant, persisted, granted, no
  <1> QED BY SMTT(30), <1>1, <1>2, <1>3, <1>4, FaultedType

(* A quorum of votes leads to becomeLeader and nothing else. *)
LEMMA OnVoteResponseEvolves ==
    ASSUME NEW n \in Working, NEW m \in Mail
    PROVE  Evolves(n, OnVoteResponse(n, m))
  <1> DEFINE counted == [n EXCEPT !.voteMask = @ \cup {m.from}]
             counts  == n.state = "Candidate" /\ IsVoter(n, m.from) /\ m.term = n.term /\ ~m.reject
  <1>1. m.from \in Server
    BY MailFields
  <1>2. counted \in Working /\ counted.id = n.id /\ counted.disk = n.disk /\ counted.out = n.out
    BY ZenonT(30), <1>1 DEF Working
  <1>3. OnVoteResponse(n, m) =
          IF ~counts THEN n
          ELSE IF QuorumMask(counted, counted.voteMask) THEN BecomeLeader(counted) ELSE counted
    BY DEF OnVoteResponse
  <1> HIDE DEF counted, counts
  <1>4. Evolves(n, counted) /\ Evolves(n, BecomeLeader(counted))
    BY <1>2, EvolvesFrame, BecomeLeaderEvolves, EvolvesTrans
  <1> QED BY <1>3, <1>4, EvolvesRefl

(* TimeoutNow leads to startElection and nothing else. *)
LEMMA OnTimeoutNowEvolves ==
    ASSUME NEW n \in Working, NEW m \in Mail
    PROVE  Evolves(n, OnTimeoutNow(n, m))
  BY StartElectionEvolves, EvolvesRefl DEF OnTimeoutNow
=============================================================================
