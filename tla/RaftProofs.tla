----------------------------- MODULE RaftProofs -----------------------------
(***************************************************************************)
(* The theorems about the cluster, for any set of servers, any voters and  *)
(* any bounds: no crash, failed write, lost, repeated or late message lets *)
(* a node vote twice in a term or forget a vote it cast.                   *)
(*                                                                         *)
(* The inductive invariant is IInv.  VoteDurable is what makes the others  *)
(* inductive: the disk alone decides whether a vote may still be cast.     *)
(***************************************************************************)
EXTENDS RaftStepProofs, FiniteSetTheorems

(* The inductive invariant. *)
IInv == /\ TypeOK
        /\ \A i \in Server : node[i].id = i
        /\ VoteDurable
        /\ OneVotePerTerm

----------------------------------------------------------------------------
(* Nodes between two turns                                                 *)

(* A node at rest is a node with an empty outbound buffer and no store     *)
(* call under way.                                                         *)
LEMMA RestingNode ==
    ASSUME NEW n
    PROVE  n \in NodeState <=> /\ n \in Working
                               /\ n.out = {} /\ n.ops = MaxStoreCalls /\ n.landed = FALSE
  <1>1. MaxStoreCalls \in Nat
    BY DEF MaxStoreCalls
  <1>2. ASSUME n \in NodeState
        PROVE  n \in Working /\ n.out = {} /\ n.ops = MaxStoreCalls /\ n.landed = FALSE
    BY ZenonT(30), <1>1, <1>2 DEF NodeState, Working
  <1>3. ASSUME n \in Working, n.out = {}, n.ops = MaxStoreCalls, n.landed = FALSE
        PROVE  n \in NodeState
    BY ZenonT(30), <1>3 DEF NodeState, Working
  <1> QED BY ZenonT(30), <1>2, <1>3

(* Under a fate of its store calls, a node at rest may run a handler. *)
LEMMA UnderType ==
    ASSUME NEW n \in NodeState, NEW fate \in Fates
    PROVE  LET w == Under(n, fate)
           IN  w \in Working /\ w.id = n.id /\ w.disk = n.disk /\ w.out = {}
  <1>1. fate.ops \in Nat /\ fate.landed \in BOOLEAN
    <2>1. fate = NoFault \/ fate \in [ops : 0 .. MaxStoreCalls - 1, landed : BOOLEAN]
      BY DEF Fates
    <2>2. CASE fate = NoFault
      BY <2>2 DEF NoFault, MaxStoreCalls
    <2>3. CASE fate \in [ops : 0 .. MaxStoreCalls - 1, landed : BOOLEAN]
      BY <2>3
    <2> QED BY <2>1, <2>2, <2>3
  <1>2. n \in Working /\ n.out = {}
    BY ZenonT(30), RestingNode
  <1> QED BY ZenonT(30), <1>1, <1>2 DEF Under, Working

(* The rest of a turn, after the handler, lets the node evolve as well. *)
LEMMA SettleEvolves ==
    ASSUME NEW n \in Working
    PROVE  Evolves(n, Settle(n))
  <1> DEFINE applied == ApplyEntries(n)
  <1>1. Evolves(n, applied) /\ applied \in Working
    BY ApplyEntriesEvolves, EvolvesWorking
  <1>2. Settle(n) = IF Driver = "caller" \/ n.faulted THEN n
                    ELSE IF SnapshotEntries # 0 /\ applied.applied - applied.base >= SnapshotEntries
                         THEN Compact(applied, applied.applied) ELSE applied
    BY DEF Settle
  <1> HIDE DEF applied
  <1>3. applied.applied \in Nat
    BY <1>1, IndexTypes
  <1>4. Evolves(applied, Compact(applied, applied.applied))
    BY SMTT(30), <1>1, <1>3, CompactEvolves
  <1>5. Evolves(n, Compact(applied, applied.applied))
    BY SMTT(30), <1>1, <1>4, EvolvesTrans
  <1> QED BY SMTT(30), <1>1, <1>2, <1>5, EvolvesRefl

(* After the turn the node is at rest and its hard state has grown. *)
LEMMA AtRestType ==
    ASSUME NEW n \in Working
    PROVE  LET p == AtRest(n)
           IN  p \in NodeState /\ p.id = n.id /\ Grows(n.disk.hard, p.disk.hard)
  <1> DEFINE s == Settle(n)
             p == [[s EXCEPT !.ops = MaxStoreCalls, !.landed = FALSE] EXCEPT !.out = {}]
  <1>1. AtRest(n) = p
    BY DEF AtRest, Under, NoFault
  <1>2. s \in Working /\ s.id = n.id /\ Grows(n.disk.hard, s.disk.hard)
    BY SettleEvolves DEF Evolves
  <1> HIDE DEF s
  <1>3. MaxStoreCalls \in Nat
    BY DEF MaxStoreCalls
  <1>4. /\ p \in Working /\ p.id = s.id /\ p.disk = s.disk
        /\ p.out = {} /\ p.ops = MaxStoreCalls /\ p.landed = FALSE
    BY ZenonT(30), <1>2, <1>3 DEF Working
  <1> HIDE DEF p
  <1> QED BY ZenonT(30), <1>1, <1>2, <1>4, RestingNode

(* What a hard state remembers, a later one remembers. *)
LEMMA DurableGrows ==
    ASSUME NEW h \in HardState, NEW g \in HardState, Grows(h, g), NEW v \in Mail, IsVote(v),
           Durable(h, v)
    PROVE  Durable(g, v)
  BY VoteType, NoneAssumption DEF Durable, Grows, HardState

----------------------------------------------------------------------------
(* Recovery                                                                *)

(* A node just built for server i from a disk with hard state h. *)
Rests(n, i, h) == n \in NodeState /\ n.id = i /\ n.disk.hard = h

(* NewNodeWithStore builds a node at rest. *)
LEMMA NewNodeRests ==
    ASSUME NEW i \in Server, NEW d \in Disk
    PROVE  Rests(NewNodeWithStore(i, d), i, d.hard)
  <1>1. NoSnapshot \in Snapshot
    BY DEF NoSnapshot, Snapshot
  <1>2. << >> \in Seq(Entry) /\ InitVoters \cup {i} \subseteq Server
    BY VotersAssumption
  <1> QED BY <1>1, <1>2 DEF Rests, NewNodeWithStore, NodeState, Role, Reason

(* A recovery that fails leaves a fail-stopped node at rest. *)
LEMMA FailStorageRests ==
    ASSUME NEW n, NEW i, NEW h, Rests(n, i, h), NEW why \in Reason
    PROVE  Rests(FailStorage(n, why), i, h)
  BY ZenonT(30) DEF Rests, NodeState, FailStorage, Role

(* ensurePeers during recovery. *)
LEMMA EnsurePeersRests ==
    ASSUME NEW n, NEW i, NEW h, Rests(n, i, h), NEW voters, voters \subseteq Server
    PROVE  LET p == EnsurePeers(n, voters)
           IN  /\ Rests(p, i, h) /\ SameLog(n, p)
               /\ p.votersOld = n.votersOld /\ p.votersNew = n.votersNew
  <1> DEFINE p == EnsurePeers(n, voters)
  <1>1. n \in Working /\ n.out = {} /\ n.ops = MaxStoreCalls /\ n.landed = FALSE
    BY ZenonT(30), RestingNode DEF Rests
  <1>2. p \in Working /\ SameLog(n, p)
    BY SMTT(30), <1>1, EnsurePeersEvolves, EvolvesWorking
  <1>3. /\ p.out = n.out /\ p.ops = n.ops /\ p.landed = n.landed /\ p.id = n.id /\ p.disk = n.disk
        /\ p.votersOld = n.votersOld /\ p.votersNew = n.votersNew
    BY <1>1 DEF EnsurePeers, Working
  <1> HIDE DEF p
  <1>4. p \in NodeState
    BY ZenonT(30), <1>1, <1>2, <1>3, RestingNode
  <1>5. Rests(p, i, h)
    BY <1>3, <1>4 DEF Rests
  <1> QED BY <1>2, <1>3, <1>5 DEF p

(* restoreConfigurationState accepts the log or fail-stops the node. *)
LEMMA RestoreConfigurationStateRests ==
    ASSUME NEW n, NEW i, NEW h, Rests(n, i, h), n.commit <= LastIndex(n)
    PROVE  Rests(RestoreConfigurationState(n), i, h)
  <1> DEFINE K       == ConfigIndexes(n, n.base + 1, LastIndex(n))
             pending == ConfigIndexes(n, n.commit + 1, LastIndex(n))
             before  == ConfigIndexes(n, n.base + 1, n.commit)
             voters  == VotersBefore(n, n.commit + 1)
             peered  == EnsurePeers(n, VotersNamed(n, K))
             c       == IF pending = {} THEN 0 ELSE SetMax(pending)
             p       == [peered EXCEPT !.votersOld = voters.old, !.votersNew = voters.new,
                                       !.pendingConfig = c]
  <1>1. /\ n \in Working /\ n.base + 1 \in Nat /\ n.commit \in Nat /\ n.commit + 1 \in Nat
        /\ LastIndex(n) \in Nat /\ n.commit + 1 - 1 = n.commit
    <2>1. n \in Working
      BY ZenonT(30), RestingNode DEF Rests
    <2> QED BY <2>1, IndexTypes
  <1>2. RestoreConfigurationState(n) =
            IF \E k \in K : ~RestorableConfig(n, k) THEN FailStorage(n, "recover") ELSE p
    BY DEF RestoreConfigurationState
  <1>3. Rests(peered, i, h)
    <2>1. VotersNamed(n, K) \subseteq Server
      BY <1>1, ConfigIndexesFacts
    <2> HIDE DEF K
    <2> QED BY SMTT(30), <2>1, EnsurePeersRests
  <1>4. c \in Nat
    <2>1. pending \subseteq Nat /\ (pending # {} => SetMax(pending) \in pending)
      BY SMTT(30), <1>1, ConfigIndexesFacts
    <2> HIDE DEF pending
    <2> QED BY ZenonT(30), <2>1
  <1>5. voters.old \subseteq Server /\ voters.new \subseteq Server
    <2>1. before # {} => EntryAt(n, SetMax(before)) \in Entry
      BY <1>1, ConfigIndexesFacts
    <2>2. n.votersOld \subseteq Server /\ n.votersNew \subseteq Server
      BY ZenonT(30), <1>1 DEF Working
    <2>3. voters = IF before = {} THEN [old |-> n.votersOld, new |-> n.votersNew]
                   ELSE VotersAfter(EntryAt(n, SetMax(before)))
      BY <1>1 DEF VotersBefore
    <2> HIDE DEF before, voters
    <2> QED BY SMTT(30), <2>1, <2>2, <2>3 DEF VotersAfter, Entry
  <1> HIDE DEF K, c, voters, peered
  <1>6. Rests(p, i, h)
    BY ZenonT(30), <1>3, <1>4, <1>5 DEF Rests, NodeState
  <1>7. Rests(FailStorage(n, "recover"), i, h)
    BY FailStorageRests DEF Reason
  <1> QED BY SMTT(30), <1>2, <1>6, <1>7

(* Whatever the disk holds, the node that recovers from it is a node, and  *)
(* its hard state is still that of the disk.                               *)
LEMMA RecoveredRests ==
    ASSUME NEW i \in Server, NEW d \in Disk
    PROVE  Rests(Recovered(i, d), i, d.hard)
  <1> DEFINE o      == Opened(d)
             fresh  == NewNodeWithStore(i, o)
             vo     == IF o.snap.index = 0 THEN fresh.votersOld ELSE o.snap.old
             vn     == IF o.snap.index = 0 THEN fresh.votersNew ELSE o.snap.new
             based  == [fresh EXCEPT !.term = o.hard.term, !.votedFor = o.hard.votedFor,
                                     !.base = o.base, !.baseTerm = o.baseTerm, !.snap = o.snap,
                                     !.votersOld = vo, !.votersNew = vn]
             peered == EnsurePeers(based, based.votersOld \cup based.votersNew)
             commit == Max2(o.hard.commit, o.snap.index)
             loaded == [peered EXCEPT !.log = o.log, !.applied = o.snap.index, !.commit = commit]
  <1>1. o \in Disk /\ o.hard = d.hard
    BY CompactedType DEF Opened
  <1>2. Recovered(i, d) = IF ~Openable(d) THEN FailStorage(NewNodeWithStore(i, d), "open")
                          ELSE IF loaded.votersOld = {} \/ loaded.commit > LastIndex(loaded)
                               THEN FailStorage(loaded, "recover")
                               ELSE RestoreConfigurationState(loaded)
    BY DEF Recovered
  <1> HIDE DEF o
  <1>3. Rests(fresh, i, d.hard)
    BY SMTT(30), <1>1, NewNodeRests
  <1>4. /\ o.hard.term \in Nat /\ o.hard.votedFor \in Server \cup {None} /\ o.hard.commit \in Nat
        /\ o.base \in Nat /\ o.baseTerm \in Nat /\ o.snap \in Snapshot /\ o.log \in Seq(Entry)
        /\ o.snap.index \in Nat /\ o.snap.old \subseteq Server /\ o.snap.new \subseteq Server
    BY SMTT(30), <1>1 DEF Disk, HardState, Snapshot
  <1> HIDE DEF fresh
  <1>5. vo \subseteq Server /\ vn \subseteq Server
    BY ZenonT(30), <1>3, <1>4 DEF Rests, NodeState
  <1> HIDE DEF vo, vn
  <1>6. Rests(based, i, d.hard) /\ based.votersOld \cup based.votersNew \subseteq Server
    BY ZenonT(30), <1>3, <1>4, <1>5 DEF Rests, NodeState
  <1> HIDE DEF based
  <1>7. Rests(peered, i, d.hard)
    BY <1>6, EnsurePeersRests
  <1> HIDE DEF peered
  <1>8. commit \in Nat
    BY <1>4 DEF Max2
  <1> HIDE DEF commit
  <1>9. Rests(loaded, i, d.hard) /\ loaded.commit \in Nat /\ LastIndex(loaded) \in Nat
    <2>1. Rests(loaded, i, d.hard)
      BY ZenonT(30), <1>4, <1>7, <1>8 DEF Rests, NodeState
    <2>2. loaded \in Working
      BY ZenonT(30), <2>1, RestingNode DEF Rests
    <2> HIDE DEF loaded
    <2> QED BY SMTT(30), <2>1, <2>2, IndexTypes
  <1> HIDE DEF loaded
  <1>10. Rests(FailStorage(NewNodeWithStore(i, d), "open"), i, d.hard)
    BY NewNodeRests, FailStorageRests DEF Reason
  <1>11. Rests(FailStorage(loaded, "recover"), i, d.hard)
    BY SMTT(30), <1>9, FailStorageRests DEF Reason
  <1>12. loaded.commit <= LastIndex(loaded) => Rests(RestoreConfigurationState(loaded), i, d.hard)
    BY <1>9, RestoreConfigurationStateRests
  <1> QED BY <1>2, <1>9, <1>10, <1>11, <1>12

(* server.Open applies what the recovered node knows to be committed. *)
LEMMA ApplyEntriesRests ==
    ASSUME NEW n, NEW i, NEW h, Rests(n, i, h)
    PROVE  Rests(ApplyEntries(n), i, h)
  <1> DEFINE a == Max2(n.applied, n.commit)
  <1>1. a \in Nat /\ ApplyEntries(n) = [n EXCEPT !.applied = a]
    BY DEF Rests, NodeState, Max2, ApplyEntries
  <1> DEFINE p == [n EXCEPT !.applied = a]
  <1> HIDE DEF a
  <1>2. p \in NodeState /\ p.id = n.id /\ p.disk = n.disk
    BY ZenonT(30), <1>1 DEF Rests, NodeState
  <1> HIDE DEF p
  <1> QED BY <1>1, <1>2 DEF Rests, p

----------------------------------------------------------------------------
(* Steps of the cluster                                                    *)

(* The durable hard state of every server has grown. *)
HardStatesGrow == \A i \in Server : Grows(node[i].disk.hard, node'[i].disk.hard)

(* What one server does: its node stays a node, its hard state grows, the  *)
(* votes it sends could still be cast, are durable now, and agree.         *)
OneServerSteps(i, sent) ==
    /\ node' = [node EXCEPT ![i] = node'[i]]
    /\ node'[i] \in NodeState /\ node'[i].id = i
    /\ Grows(node[i].disk.hard, node'[i].disk.hard)
    /\ msgs' = msgs \cup sent /\ sent \subseteq Mail
    /\ \A v \in sent : IsVote(v) =>
          /\ v.from = i /\ Fresh(node[i].disk.hard, v) /\ Durable(node'[i].disk.hard, v)
          /\ \A w \in sent : IsVote(w) /\ w.term = v.term => VotedFor(w) = VotedFor(v)

(* A turn of the driver in which the handler lets the node evolve. *)
LEMMA TurnSteps ==
    ASSUME TypeOK, NEW i \in Server, node[i].id = i, NEW fate, NEW got,
           NEW w \in Working, w.id = i, w.disk = node[i].disk, w.out = {},
           NEW n, Evolves(w, n), TurnOn(i, fate, n, got)
    PROVE  OneServerSteps(i, n.out) /\ inFlight' \subseteq msgs'
  <1>1. n \in Working /\ n.id = i /\ Grows(node[i].disk.hard, n.disk.hard)
    BY DEF Evolves
  <1>2. node[i] \in Working /\ node \in [Server -> NodeState]
    BY ZenonT(30), RestingNode DEF TypeOK
  <1>3. node'[i] = AtRest(n) /\ node' = [node EXCEPT ![i] = node'[i]]
    BY SMTT(30), <1>2 DEF TurnOn
  <1>4. node'[i] \in NodeState /\ node'[i].id = i /\ Grows(n.disk.hard, node'[i].disk.hard)
    BY SMTT(30), <1>1, <1>3, AtRestType
  <1>5. node'[i] \in Working
    BY ZenonT(30), <1>4, RestingNode
  <1>6. Grows(node[i].disk.hard, node'[i].disk.hard)
    <2>1. /\ node[i].disk.hard \in HardState /\ n.disk.hard \in HardState
          /\ node'[i].disk.hard \in HardState
      BY SMTT(30), <1>1, <1>2, <1>5, HardType
    <2> QED BY SMTT(30), <1>1, <1>4, <2>1, GrowsTransitive
  <1>7. msgs' = msgs \cup n.out /\ n.out \subseteq Mail /\ inFlight' \subseteq msgs'
    BY ZenonT(30), <1>1 DEF TurnOn, TypeOK, Working
  <1>8. ASSUME NEW v \in n.out, IsVote(v)
        PROVE  /\ v.from = i /\ Fresh(node[i].disk.hard, v) /\ Durable(node'[i].disk.hard, v)
               /\ \A x \in n.out : IsVote(x) /\ x.term = v.term => VotedFor(x) = VotedFor(v)
    <2>1. /\ v.from = i /\ Fresh(node[i].disk.hard, v) /\ Durable(n.disk.hard, v)
          /\ \A x \in n.out : IsVote(x) /\ x.term = v.term => VotedFor(x) = VotedFor(v)
      BY SMTT(30), <1>8 DEF Evolves
    <2>2. Durable(node'[i].disk.hard, v)
      BY SMTT(30), <1>1, <1>4, <1>5, <1>7, <1>8, <2>1, HardType, DurableGrows
    <2> QED BY SMTT(30), <2>1, <2>2
  <1> QED BY <1>3, <1>4, <1>6, <1>7, <1>8 DEF OneServerSteps

(* Such a step preserves the invariant. *)
LEMMA OneServerPreserves ==
    ASSUME IInv, NEW i \in Server, NEW sent, OneServerSteps(i, sent), inFlight' \subseteq msgs',
           readFloor' \in [ReadContext -> Nat], used' \in [DOMAIN Bound -> Nat]
    PROVE  IInv' /\ HardStatesGrow
  <1>1. /\ node \in [Server -> NodeState] /\ \A m \in msgs : m \in Mail
        /\ \A j \in Server : node[j].id = j
    BY DEF IInv, TypeOK, Mail, OneEntry
  <1>2. /\ \A j \in Server : node'[j] \in NodeState /\ node'[j].id = j
        /\ \A j \in Server : j # i => node'[j] = node[j]
        /\ node' \in [Server -> NodeState]
    BY <1>1 DEF OneServerSteps
  <1>3. \A j \in Server : node[j] \in Working /\ node'[j] \in Working
    BY ZenonT(30), <1>1, <1>2, RestingNode
  <1>4. HardStatesGrow
    <2> SUFFICES ASSUME NEW j \in Server PROVE Grows(node[j].disk.hard, node'[j].disk.hard)
      BY SMTT(30) DEF HardStatesGrow
    <2>1. CASE j = i
      BY SMTT(30), <2>1 DEF OneServerSteps
    <2>2. CASE j # i
      BY SMTT(30), <1>2, <1>3, <2>2, HardType DEF Grows
    <2> QED BY SMTT(30), <2>1, <2>2
  <1>5. \A m \in msgs' : m \in Mail
    BY <1>1 DEF OneServerSteps
  <1>6. TypeOK'
    BY SMTT(30), <1>2, <1>5 DEF TypeOK, Mail, OneEntry
  <1>7. ASSUME NEW v \in msgs', IsVote(v)
        PROVE  Durable(node'[v.from].disk.hard, v)
    <2>1. CASE v \in sent
      BY SMTT(30), <1>7, <2>1 DEF OneServerSteps
    <2>2. CASE v \in msgs
      <3>1. v \in Mail /\ v.from \in Server
        BY SMTT(30), <1>5, <1>7, VoteType
      <3>2. Durable(node[v.from].disk.hard, v)
        BY SMTT(30), <1>7, <2>2 DEF IInv, VoteDurable, Durable
      <3>3. Grows(node[v.from].disk.hard, node'[v.from].disk.hard)
        BY SMTT(30), <1>4, <3>1 DEF HardStatesGrow
      <3> QED BY SMTT(30), <1>3, <1>7, <3>1, <3>2, <3>3, HardType, DurableGrows
    <2> QED BY SMTT(30), <2>1, <2>2 DEF OneServerSteps
  <1>8. VoteDurable'
    BY SMTT(30), <1>7 DEF VoteDurable, Durable, IsVote, VotedFor
  <1>9. ASSUME NEW v \in msgs', NEW w \in msgs', IsVote(v), IsVote(w), v.from = w.from,
               v.term = w.term
        PROVE  VotedFor(v) = VotedFor(w)
    <2>1. CASE v \in msgs /\ w \in msgs
      BY SMTT(30), <1>9, <2>1 DEF IInv, OneVotePerTerm
    <2>2. CASE v \in sent /\ w \in sent
      BY SMTT(30), <1>9, <2>2 DEF OneServerSteps
    <2>3. ASSUME NEW a \in msgs, NEW b \in sent, IsVote(a), IsVote(b), a.from = b.from,
                 a.term = b.term
          PROVE  VotedFor(a) = VotedFor(b)
      <3>1. b.from = i /\ Fresh(node[i].disk.hard, b)
        BY SMTT(30), <2>3 DEF OneServerSteps
      <3>2. Durable(node[i].disk.hard, a)
        BY SMTT(30), <2>3, <3>1 DEF IInv, VoteDurable, Durable
      <3>3. a \in Mail /\ VotedFor(a) \in Server /\ a.term \in Nat
        BY SMTT(30), <1>1, <2>3, VoteType
      <3> QED BY SMTT(30), <1>3, <2>3, <3>1, <3>2, <3>3, HardType, NoneAssumption DEF Fresh, Durable
    <2> QED BY SMTT(30), <1>9, <2>1, <2>2, <2>3 DEF OneServerSteps
  <1>10. OneVotePerTerm'
    BY <1>9 DEF OneVotePerTerm, IsVote, VotedFor
  <1> QED BY SMTT(30), <1>2, <1>4, <1>6, <1>8, <1>10 DEF IInv

(* A finite set of natural numbers is bounded. *)
LEMMA FiniteBounded ==
    ASSUME NEW S, S \subseteq Nat, IsFiniteSet(S)
    PROVE  \E b \in Nat : \A k \in S : k <= b
  <1>0. \A a, c \in Nat : Max2(a, c) \in Nat /\ a <= Max2(a, c) /\ c <= Max2(a, c)
    BY DEF Max2
  <1>1. PICK s \in Seq(S) : \A k \in S : \E j \in 1 .. Len(s) : s[j] = k
    BY DEF IsFiniteSet
  <1> DEFINE Bounds(m, b) == \A j \in 1 .. m : s[j] <= b
             T == {m \in 0 .. Len(s) : ~\E b \in Nat : Bounds(m, b)}
  <1>2. \A j \in 1 .. Len(s) : s[j] \in Nat
    <2>1. ASSUME NEW j \in 1 .. Len(s) PROVE s[j] \in S
      OBVIOUS
    <2> QED BY ZenonT(30), <2>1
  <1>3. T = {}
    <2> SUFFICES ASSUME T # {} PROVE FALSE
      BY ZenonT(30)
    <2>1. T \subseteq Nat
      BY <1>1
    <2>2. PICK m \in T : \A i \in T : ~(<< i, m >> \in OpToRel(<, Nat))
      <3> HIDE DEF T
      <3> QED BY ZenonT(30), <2>1, WFMin, NatLessThanWellFounded
    <2>3. \A i \in T : ~(i < m)
      BY ZenonT(30), <2>1, <2>2 DEF OpToRel
    <2>4. m \in 0 .. Len(s) /\ ~\E b \in Nat : Bounds(m, b)
      OBVIOUS
    <2>5. m # 0
      <3>1. m = 0 => Bounds(m, 0)
        BY SMTT(30)
      <3> QED BY SMTT(30), <2>4, <3>1
    <2>6. m - 1 \in 0 .. Len(s) /\ m - 1 < m
      BY SMTT(30), <1>1, <2>4, <2>5
    <2>7. PICK b \in Nat : Bounds(m - 1, b)
      BY ZenonT(30), <2>3, <2>6
    <2>8. s[m] \in Nat
      BY SMTT(30), <1>2, <2>4, <2>5
    <2>9. Max2(b, s[m]) \in Nat /\ Bounds(m, Max2(b, s[m]))
      <3>1. ASSUME NEW j \in 1 .. m PROVE s[j] <= Max2(b, s[m]) /\ s[j] \in Nat
        <4>1. j = m \/ j \in 1 .. m - 1
          BY SMTT(30), <2>4
        <4>2. s[j] \in Nat
          BY SMTT(30), <1>1, <1>2, <2>4
        <4>3. CASE j = m
          BY ZenonT(30), <1>0, <2>8, <4>3
        <4>4. CASE j \in 1 .. m - 1
          <5>1. s[j] <= b
            BY SMTT(30), <2>7, <4>4
          <5>2. b <= Max2(b, s[m]) /\ Max2(b, s[m]) \in Nat
            BY ZenonT(30), <1>0, <2>8
          <5> HIDE DEF T
          <5> QED BY SMTT(30), <4>2, <5>1, <5>2
        <4> QED BY SMTT(30), <4>1, <4>3, <4>4
      <3> QED BY ZenonT(30), <1>0, <2>8, <3>1
    <2> QED BY ZenonT(30), <2>4, <2>9
  <1>4. Len(s) \in 0 .. Len(s)
    BY <1>1
  <1>5. PICK b \in Nat : Bounds(Len(s), b)
    BY ZenonT(30), <1>3, <1>4
  <1> QED BY SMTT(30), <1>1, <1>5

(* The highest commit index of any server. *)
LEMMA HighestCommitType ==
    ASSUME TypeOK, NEW i \in Server
    PROVE  SetMax({node[j].commit : j \in Server}) \in Nat
  <1> DEFINE S == {node[j].commit : j \in Server}
             f == [j \in Server |-> node[j].commit]
  <1>1. S \subseteq Nat /\ S # {}
    <2>1. \A j \in Server : node[j].commit \in Nat
      BY ZenonT(30) DEF TypeOK, NodeState
    <2> QED BY <2>1
  <1>2. IsFiniteSet(S)
    <2>1. f \in Surjection(Server, S)
      BY ZenonT(30) DEF Surjection
    <2> HIDE DEF f, S
    <2> QED BY SMTT(30), <2>1, VotersAssumption, FS_Surjection
  <1> HIDE DEF S
  <1>3. PICK b \in Nat : \A k \in S : k <= b
    BY ZenonT(30), <1>1, <1>2, FiniteBounded
  <1>4. SetMax(S) \in S
    BY ZenonT(30), <1>1, <1>3, SetMaxBounded
  <1> QED BY ZenonT(30), <1>1, <1>4 DEF S

(* Using up a bound keeps the count a natural number. *)
LEMMA SpendType ==
    ASSUME TypeOK, NEW B, Spend(B)
    PROVE  used' \in [DOMAIN Bound -> Nat]
  BY SMTT(30) DEF TypeOK, Spend

(* A restart is a step of one server that sends nothing. *)
LEMMA RestartSteps ==
    ASSUME TypeOK, NEW i \in Server, Restart(i)
    PROVE  OneServerSteps(i, {}) /\ inFlight' \subseteq msgs'
  <1> DEFINE n == Recovered(i, node[i].disk)
             p == IF Driver = "caller" \/ n.faulted THEN n ELSE ApplyEntries(n)
  <1>1. node[i] \in Working /\ node[i].disk \in Disk /\ node \in [Server -> NodeState]
    BY ZenonT(30), RestingNode, HardType DEF TypeOK
  <1>2. Rests(n, i, node[i].disk.hard)
    BY SMTT(30), <1>1, RecoveredRests
  <1>3. node' = [node EXCEPT ![i] = p] /\ msgs' = msgs /\ inFlight' = inFlight
    BY DEF Restart
  <1> HIDE DEF n
  <1>4. Rests(p, i, node[i].disk.hard)
    BY SMTT(30), <1>2, ApplyEntriesRests
  <1> HIDE DEF p
  <1>5. node'[i] = p /\ node' = [node EXCEPT ![i] = node'[i]]
    BY SMTT(30), <1>1, <1>3
  <1>6. Grows(node[i].disk.hard, p.disk.hard)
    BY SMTT(30), <1>1, <1>4, HardType DEF Rests, Grows
  <1> QED BY SMTT(30), <1>3, <1>4, <1>5, <1>6 DEF OneServerSteps, Rests, TypeOK

(* Each action of the cluster preserves the invariant. *)
LEMMA NextPreserves ==
    ASSUME IInv, Next
    PROVE  IInv' /\ HardStatesGrow
  <1>0. /\ TypeOK /\ readFloor \in [ReadContext -> Nat] /\ used \in [DOMAIN Bound -> Nat]
        /\ \A m \in msgs : m \in Mail
    BY DEF IInv, TypeOK, Mail, OneEntry
  <1>a. ASSUME NEW i \in Server
        PROVE  /\ node[i] \in NodeState /\ node[i] \in Working /\ node[i].id = i /\ node[i].out = {}
               /\ \A fate \in Fates : LET w == Under(node[i], fate)
                    IN  w \in Working /\ w.id = i /\ w.disk = node[i].disk /\ w.out = {}
    <2>1. node[i] \in NodeState /\ node[i].id = i
      BY DEF IInv, TypeOK
    <2> QED BY ZenonT(30), <2>1, UnderType, RestingNode
  <1>b. ASSUME NEW i \in Server, NEW fate, NEW got, NEW n, Evolves(node[i], n),
               TurnOn(i, fate, n, got), readFloor' \in [ReadContext -> Nat],
               used' \in [DOMAIN Bound -> Nat]
        PROVE  IInv' /\ HardStatesGrow
    <2>1. OneServerSteps(i, n.out) /\ inFlight' \subseteq msgs'
      BY ZenonT(30), <1>0, <1>a, <1>b, TurnSteps
    <2> QED BY SMTT(30), <1>b, <2>1, OneServerPreserves
  <1>c. ASSUME NEW i \in Server, NEW fate \in Fates, NEW got, NEW n,
               Evolves(Under(node[i], fate), n), TurnOn(i, fate, n, got), UNCHANGED readFloor,
               NEW B, Spend(B)
        PROVE  IInv' /\ HardStatesGrow
    <2>1. OneServerSteps(i, n.out) /\ inFlight' \subseteq msgs'
      <3> DEFINE w == Under(node[i], fate)
      <3>1. w \in Working /\ w.id = i /\ w.disk = node[i].disk /\ w.out = {} /\ node[i].id = i
        BY SMTT(30), <1>a
      <3>2. Evolves(w, n)
        BY SMTT(30), <1>c
      <3> HIDE DEF w
      <3> QED BY SMTT(30), <1>0, <1>c, <3>1, <3>2, TurnSteps
    <2>2. readFloor' \in [ReadContext -> Nat] /\ used' \in [DOMAIN Bound -> Nat]
      BY SMTT(30), <1>0, <1>c, SpendType
    <2> QED BY SMTT(30), <2>1, <2>2, OneServerPreserves
  <1>1. ASSUME NEW i \in Server, Heartbeat(i)
        PROVE  IInv' /\ HardStatesGrow
    <2>1. Evolves(node[i], BroadcastAppend(node[i]))
      BY SMTT(30), <1>a, BroadcastAppendEvolves
    <2>2. /\ TurnOn(i, NoFault, BroadcastAppend(node[i]), {})
          /\ readFloor' \in [ReadContext -> Nat] /\ used' \in [DOMAIN Bound -> Nat]
      BY SMTT(30), <1>0, <1>1 DEF Heartbeat, Turn
    <2> QED BY SMTT(30), <1>b, <2>1, <2>2
  <1>2. ASSUME NEW i \in Server, ElectionTimeout(i)
        PROVE  IInv' /\ HardStatesGrow
    <2>1. PICK fate \in Fates : /\ TurnOn(i, fate, StartPreVote(Under(node[i], fate)), {})
                                /\ Spend({"timeouts"} \cup Faults(fate)) /\ UNCHANGED readFloor
      BY ZenonT(30), <1>2 DEF ElectionTimeout, Turn
    <2>2. Evolves(Under(node[i], fate), StartPreVote(Under(node[i], fate)))
      BY SMTT(30), <1>a, StartPreVoteEvolves
    <2> QED BY SMTT(30), <1>c, <2>1, <2>2
  <1>3. ASSUME NEW i \in Server, Restart(i)
        PROVE  IInv' /\ HardStatesGrow
    <2>1. OneServerSteps(i, {}) /\ inFlight' \subseteq msgs'
      BY SMTT(30), <1>0, <1>3, RestartSteps
    <2>2. readFloor' \in [ReadContext -> Nat] /\ used' \in [DOMAIN Bound -> Nat]
      BY SMTT(30), <1>0, <1>3, SpendType DEF Restart
    <2> QED BY SMTT(30), <2>1, <2>2, OneServerPreserves
  <1>4. ASSUME NEW i \in Server, ApplyAt(i)
        PROVE  IInv' /\ HardStatesGrow
    <2>1. Evolves(node[i], ApplyEntries(node[i]))
      BY SMTT(30), <1>a, ApplyEntriesEvolves
    <2>2. /\ TurnOn(i, NoFault, ApplyEntries(node[i]), {})
          /\ readFloor' \in [ReadContext -> Nat] /\ used' \in [DOMAIN Bound -> Nat]
      BY SMTT(30), <1>0, <1>4 DEF ApplyAt, Turn
    <2> QED BY <1>b, <2>1, <2>2
  <1>5. ASSUME NEW i \in Server, CompactAt(i)
        PROVE  IInv' /\ HardStatesGrow
    <2>1. PICK fate \in Fates :
              /\ TurnOn(i, fate, Compact(Under(node[i], fate), node[i].applied), {})
              /\ Spend({"compactions"} \cup Faults(fate)) /\ UNCHANGED readFloor
      BY SMTT(30), <1>5 DEF CompactAt, Turn
    <2>2. Evolves(Under(node[i], fate), Compact(Under(node[i], fate), node[i].applied))
      <3>1. node[i].applied \in Nat
        BY SMTT(30), <1>a, IndexTypes
      <3> QED BY SMTT(30), <1>a, <3>1, CompactEvolves
    <2> QED BY SMTT(30), <1>c, <2>1, <2>2
  <1>6. ASSUME NEW i \in Server, BeginFinal(i)
        PROVE  IInv' /\ HardStatesGrow
    <2>1. PICK fate \in Fates : /\ TurnOn(i, fate, ProposeFinal(Under(node[i], fate)), {})
                                /\ Spend({"configs"} \cup Faults(fate)) /\ UNCHANGED readFloor
      BY SMTT(30), <1>6 DEF BeginFinal, Turn
    <2>2. Evolves(Under(node[i], fate), ProposeFinal(Under(node[i], fate)))
      BY <1>a, ProposeFinalEvolves
    <2> QED BY SMTT(30), <1>c, <2>1, <2>2
  <1>7. ASSUME NEW i \in Server, NEW m \in msgs, Receive(i, m)
        PROVE  IInv' /\ HardStatesGrow
    <2>1. PICK fate \in Fates :
              /\ TurnOn(i, fate, Step(Under(node[i], fate), m), {m})
              /\ Spend(Faults(fate) \cup IF m \in inFlight THEN {} ELSE {"duplicates"})
              /\ UNCHANGED readFloor
      BY SMTT(30), <1>7 DEF Receive
    <2>2. Evolves(Under(node[i], fate), Step(Under(node[i], fate), m))
      BY SMTT(30), <1>0, <1>a, StepEvolves
    <2> QED BY SMTT(30), <1>c, <2>1, <2>2
  <1>8. ASSUME NEW i \in Server, NEW c \in Command, ClientPropose(i, c)
        PROVE  IInv' /\ HardStatesGrow
    <2>1. PICK fate \in Fates : /\ TurnOn(i, fate, Propose(Under(node[i], fate), c), {})
                                /\ Spend({"proposals"} \cup Faults(fate)) /\ UNCHANGED readFloor
      BY SMTT(30), <1>8 DEF ClientPropose, Turn
    <2>2. Evolves(Under(node[i], fate), Propose(Under(node[i], fate), c))
      BY SMTT(30), <1>a, ProposeEvolves
    <2> QED BY SMTT(30), <1>c, <2>1, <2>2
  <1>9. ASSUME NEW i \in Server, NEW voters \in NewVoterSets, BeginJoint(i, voters)
        PROVE  IInv' /\ HardStatesGrow
    <2>1. PICK fate \in Fates : /\ TurnOn(i, fate, ProposeJoint(Under(node[i], fate), voters), {})
                                /\ Spend({"configs"} \cup Faults(fate)) /\ UNCHANGED readFloor
      BY <1>9 DEF BeginJoint, Turn
    <2>2. voters \in SUBSET Server
      BY SMTT(30), SetAssumption
    <2>3. Evolves(Under(node[i], fate), ProposeJoint(Under(node[i], fate), voters))
      BY SMTT(30), <1>a, <2>2, ProposeJointEvolves
    <2> QED BY SMTT(30), <1>c, <2>1, <2>3
  <1>10. ASSUME NEW i \in Server, NEW c \in ReadContext, BeginRead(i, c)
         PROVE  IInv' /\ HardStatesGrow
    <2>1. Evolves(node[i], StartReadIndex(node[i], c))
      BY SMTT(30), <1>a, StartReadIndexEvolves
    <2>2. SetMax({node[j].commit : j \in Server}) \in Nat
      BY ZenonT(30), <1>0, HighestCommitType
    <2>3. /\ TurnOn(i, NoFault, StartReadIndex(node[i], c), {})
          /\ readFloor' = [readFloor EXCEPT ![c] = SetMax({node[j].commit : j \in Server})]
          /\ Spend({"reads"})
      BY SMTT(30), <1>10 DEF BeginRead, Turn
    <2>4. readFloor' \in [ReadContext -> Nat] /\ used' \in [DOMAIN Bound -> Nat]
      BY SMTT(30), <1>0, <2>2, <2>3, SpendType
    <2> QED BY SMTT(30), <1>b, <2>1, <2>3, <2>4
  <1>11. ASSUME NEW i \in Server, NEW target \in Server, Transfer(i, target)
         PROVE  IInv' /\ HardStatesGrow
    <2>1. Evolves(node[i], TransferLeadership(node[i], target))
      BY SMTT(30), <1>a, TransferLeadershipEvolves
    <2>2. /\ TurnOn(i, NoFault, TransferLeadership(node[i], target), {})
          /\ Spend({"transfers"}) /\ UNCHANGED readFloor
      BY SMTT(30), <1>11 DEF Transfer, Turn
    <2>3. readFloor' \in [ReadContext -> Nat] /\ used' \in [DOMAIN Bound -> Nat]
      BY SMTT(30), <1>0, <2>2, SpendType
    <2> QED BY SMTT(30), <1>b, <2>1, <2>2, <2>3
  <1> QED BY SMTT(30), <1>1, <1>2, <1>3, <1>4, <1>5, <1>6, <1>7, <1>8, <1>9, <1>10, <1>11 DEF Next

----------------------------------------------------------------------------
(* Theorems                                                                *)

(* NewNodeWithStore on an empty disk satisfies the invariant. *)
LEMMA InitInvariant == Init => IInv
  <1> SUFFICES ASSUME Init PROVE IInv
    BY SMTT(30)
  <1>1. EmptyDisk \in Disk
    BY DEF EmptyDisk, Disk, HardState, Snapshot, NoSnapshot
  <1>2. \A i \in Server : node[i] \in NodeState /\ node[i].id = i
    BY ZenonT(30), <1>1, NewNodeRests DEF Init, Rests
  <1>3. TypeOK
    BY <1>2 DEF Init, TypeOK
  <1> QED BY <1>2, <1>3 DEF Init, IInv, VoteDurable, OneVotePerTerm

(* Every turn of every driver, every crash and every restart preserve the  *)
(* invariant, and no durable hard state goes back.                         *)
LEMMA StepInvariant == IInv /\ [Next]_vars => IInv' /\ HardStatesGrow
  <1> SUFFICES ASSUME IInv, [Next]_vars PROVE IInv' /\ HardStatesGrow
    OBVIOUS
  <1>1. CASE Next
    BY SMTT(30), <1>1, NextPreserves
  <1>2. CASE UNCHANGED vars
    <2>1. IInv'
      BY <1>2 DEF vars, IInv, TypeOK, VoteDurable, OneVotePerTerm, IsVote, VotedFor
    <2>2. \A i \in Server : node[i] \in Working
      BY ZenonT(30), RestingNode DEF IInv, TypeOK
    <2> QED BY SMTT(30), <1>2, <2>1, <2>2, HardType DEF vars, HardStatesGrow, Grows
  <1> QED BY SMTT(30), <1>1, <1>2

(* The invariant holds in every reachable state of every cluster. *)
THEOREM Invariance == Spec => []IInv
  BY InitInvariant, StepInvariant, PTL DEF Spec

(* Every handler of node.go keeps every field of every node, disk and      *)
(* message within its type; an append carries at most one entry.           *)
THEOREM TypeCorrectness == Spec => []TypeOK
  BY Invariance, PTL DEF IInv

(* startElection and onVote send a vote only once it is durable, and no    *)
(* later crash, failed write or recovery loses it.                         *)
THEOREM VotesAreDurable == Spec => []VoteDurable
  BY Invariance, PTL DEF IInv

(* No node votes for two candidates in one term, over any number of        *)
(* crashes and restarts.                                                   *)
THEOREM VotesAreUnique == Spec => []OneVotePerTerm
  BY Invariance, PTL DEF IInv
=============================================================================
