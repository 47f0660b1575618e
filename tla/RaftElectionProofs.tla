------------------------- MODULE RaftElectionProofs -------------------------
(***************************************************************************)
(* Election safety for every cluster whose membership does not change, of  *)
(* any size and under any bounds: whatever is lost, repeated or late and   *)
(* whichever write fails or node crashes, no two nodes ever speak as the   *)
(* leader of one term.                                                     *)
(*                                                                         *)
(* The inductive invariant is EInv: the votes a candidate counts were cast *)
(* for it in its term, and whoever speaks or acts as the leader of a term  *)
(* was elected in it.  With OneVotePerTerm of RaftProofs and two           *)
(* majorities that intersect, ElectionSafety follows.                      *)
(***************************************************************************)
EXTENDS RaftProofs, RaftCalmProofs

(* Every server is in the start configuration and nobody asks for another. *)
FixedMembership == InitVoters = Server /\ MaxConfigs = 0

(* The inductive invariant, on top of that of RaftProofs: everybody still  *)
(* works with the start configuration, and every claim to an election is   *)
(* backed by votes that were cast.                                         *)
EInv ==
    /\ IInv
    /\ \A i \in Server : Steady(node[i]) /\ RoleEarned(node[i], msgs)
    /\ \A m \in msgs : m \in SteadyMail /\ (Leads(m) => Elected(msgs, m.from, m.term))

----------------------------------------------------------------------------
(* Recovery                                                                *)

(* NewNodeWithStore: every server votes, and the node follows. *)
LEMMA NewNodeSteady ==
    ASSUME InitVoters = Server, NEW i \in Server, NEW d \in PlainDisk
    PROVE  LET n == NewNodeWithStore(i, d)
           IN  n \in Working /\ n.id = i /\ Steady(n) /\ n.state = "Follower" /\ n.out = {}
  <1> DEFINE n == NewNodeWithStore(i, d)
  <1>1. n \in NodeState /\ n.id = i
    BY SMTT(30), NewNodeRests DEF Rests, PlainDisk
  <1>2. n \in Working
    BY ZenonT(30), <1>1, RestingNode
  <1>3. /\ n.peers = Server \ {i} /\ n.votersOld = Server /\ n.votersNew = {}
        /\ n.log = << >> /\ n.snap = NoSnapshot /\ n.disk = d /\ n.out = {}
        /\ n.state = "Follower"
    BY SMTT(30) DEF NewNodeWithStore
  <1>4. NoSnapshot \in PlainSnapshot
    BY DEF NoSnapshot, PlainSnapshot, Snapshot
  <1>5. << >> \in Seq(PlainEntry)
    BY SMTT(30)
  <1> HIDE DEF n
  <1>6. Steady(n)
    BY SMTT(30), <1>1, <1>3, <1>4, <1>5 DEF Steady
  <1> QED BY SMTT(30), <1>1, <1>2, <1>3, <1>6 DEF n

(* restoreConfigurationState finds no configuration entry. *)
LEMMA RestoreConfigurationStateCalm ==
    ASSUME NEW n \in Working, Steady(n), n.commit <= LastIndex(n)
    PROVE  Calm(n, RestoreConfigurationState(n))
  <1> DEFINE m == EnsurePeers(n, VotersNamed(n, {}))
             p == [m EXCEPT !.votersOld = n.votersOld, !.votersNew = n.votersNew,
                            !.pendingConfig = 0]
  <1>1. /\ n.base + 1 \in Nat /\ n.commit \in Nat /\ n.commit + 1 \in Nat
        /\ LastIndex(n) \in Nat /\ n.commit + 1 - 1 = n.commit
    BY SMTT(30), IndexTypes
  <1>2. /\ ConfigIndexes(n, n.base + 1, LastIndex(n)) = {}
        /\ ConfigIndexes(n, n.commit + 1, LastIndex(n)) = {}
        /\ ConfigIndexes(n, n.base + 1, n.commit) = {}
    BY SMTT(30), <1>1, NoConfigs
  <1>3. VotersBefore(n, n.commit + 1) = [old |-> n.votersOld, new |-> n.votersNew]
    BY SMTT(30), <1>1, <1>2 DEF VotersBefore
  <1>4. RestoreConfigurationState(n) = p
    <2> DEFINE K       == ConfigIndexes(n, n.base + 1, LastIndex(n))
               pending == ConfigIndexes(n, n.commit + 1, LastIndex(n))
               voters  == VotersBefore(n, n.commit + 1)
               c       == IF pending = {} THEN 0 ELSE SetMax(pending)
    <2>1. RestoreConfigurationState(n) =
            IF \E k \in K : ~RestorableConfig(n, k) THEN FailStorage(n, "recover")
            ELSE [EnsurePeers(n, VotersNamed(n, K)) EXCEPT
                    !.votersOld = voters.old, !.votersNew = voters.new, !.pendingConfig = c]
      BY SMTT(30) DEF RestoreConfigurationState
    <2>2. K = {} /\ c = 0 /\ voters.old = n.votersOld /\ voters.new = n.votersNew
      BY SMTT(30), <1>2, <1>3
    <2> HIDE DEF K, c, voters
    <2> QED BY SMTT(30), <2>1, <2>2
  <1>5. VotersNamed(n, {}) \subseteq Server
    BY DEF VotersNamed
  <1>6. Calm(n, m)
    BY ZenonT(30), <1>5, EnsurePeersCalm
  <1> HIDE DEF m
  <1>7. m \in Working /\ Steady(m)
    BY SMTT(30), <1>6, CalmNode
  <1>8. n.votersOld \in SUBSET Server /\ n.votersNew \in SUBSET Server /\ 0 \in Nat
    BY SMTT(30) DEF Working
  <1>9. p \in Working
    BY ZenonT(30), <1>7, <1>8 DEF Working
  <1>10. /\ p.id = m.id /\ p.peers = m.peers /\ p.votersOld = m.votersOld
         /\ p.votersNew = m.votersNew /\ p.log = m.log /\ p.snap = m.snap /\ p.disk = m.disk
         /\ p.out = m.out /\ p.state = m.state /\ p.term = m.term /\ p.voteMask = m.voteMask
    BY ZenonT(30), <1>7 DEF Working, Steady
  <1> HIDE DEF p
  <1>11. Steady(p) /\ Ranked(m, p)
    BY SMTT(30), <1>7, <1>10, SteadyFrame DEF Ranked
  <1>12. Calm(m, p)
    BY SMTT(30), <1>9, <1>10, <1>11, CalmFrame
  <1> QED BY SMTT(30), <1>4, <1>6, <1>12, CalmTrans

(* A follower stays one where no election is held. *)
LEMMA CalmFollower ==
    ASSUME NEW n, NEW p, Calm(n, p), n.state = "Follower"
    PROVE  p.state = "Follower"
  BY SMTT(30) DEF Calm, Ranked

(* Whatever the disk holds, the node that recovers from it follows, in the *)
(* one configuration there is.                                             *)
LEMMA RecoveredSteady ==
    ASSUME InitVoters = Server, NEW i \in Server, NEW d \in PlainDisk
    PROVE  Steady(Recovered(i, d)) /\ Recovered(i, d).state = "Follower"
  <1> DEFINE o      == Opened(d)
             fresh  == NewNodeWithStore(i, o)
             vo     == IF o.snap.index = 0 THEN fresh.votersOld ELSE o.snap.old
             vn     == IF o.snap.index = 0 THEN fresh.votersNew ELSE o.snap.new
             based  == [fresh EXCEPT !.term = o.hard.term, !.votedFor = o.hard.votedFor,
                                     !.base = o.base, !.baseTerm = o.baseTerm, !.snap = o.snap,
                                     !.votersOld = vo, !.votersNew = vn]
             peered == EnsurePeers(based, based.votersOld \cup based.votersNew)
             commit == Max2(o.hard.commit, o.snap.index)
             loaded == [peered EXCEPT !.log = o.log, !.applied = o.snap.index, !.commit = commit]
             broken == NewNodeWithStore(i, d)
  <1>1. o \in PlainDisk
    BY SMTT(30), CompactedPlain DEF Opened
  <1>2. Recovered(i, d) = IF ~Openable(d) THEN FailStorage(broken, "open")
                          ELSE IF loaded.votersOld = {} \/ loaded.commit > LastIndex(loaded)
                               THEN FailStorage(loaded, "recover")
                               ELSE RestoreConfigurationState(loaded)
    BY SMTT(30) DEF Recovered
  <1> HIDE DEF o
  <1>3. fresh \in Working /\ fresh.id = i /\ Steady(fresh) /\ fresh.state = "Follower"
    BY SMTT(30), <1>1, NewNodeSteady
  <1>4. /\ o.hard.term \in Nat /\ o.hard.votedFor \in Server \cup {None} /\ o.hard.commit \in Nat
        /\ o.base \in Nat /\ o.baseTerm \in Nat /\ o.snap \in Snapshot /\ o.log \in Seq(Entry)
        /\ o.snap.index \in Nat /\ o.snap \in PlainSnapshot /\ o.log \in Seq(PlainEntry)
    BY SMTT(30), <1>1 DEF PlainDisk, Disk, HardState, Snapshot
  <1>a. fresh.disk = o
    BY SMTT(30) DEF NewNodeWithStore
  <1> HIDE DEF fresh
  <1>5. vo = Server /\ vn = {}
    BY SMTT(30), <1>3, <1>4 DEF Steady, PlainSnapshot
  <1> HIDE DEF vo, vn
  <1>6. based \in Working
    <2>1. vo \in SUBSET Server /\ vn \in SUBSET Server
      BY SMTT(30), <1>5
    <2> QED BY ZenonT(30), <1>3, <1>4, <2>1 DEF Working
  <1>7. /\ based.id = fresh.id /\ based.peers = fresh.peers /\ based.votersOld = Server
        /\ based.votersNew = {} /\ based.log = fresh.log /\ based.snap = o.snap
        /\ based.disk = fresh.disk /\ based.out = fresh.out /\ based.state = "Follower"
    BY SMTT(30), <1>3, <1>5 DEF Working
  <1> HIDE DEF based
  <1>8. Steady(based)
    BY SMTT(30), <1>3, <1>4, <1>7 DEF Steady
  <1>9. Calm(based, peered)
    <2>1. based.votersOld \cup based.votersNew \subseteq Server
      BY SMTT(30), <1>7
    <2> QED BY ZenonT(30), <1>6, <1>8, <2>1, EnsurePeersCalm
  <1> HIDE DEF peered
  <1>10. peered \in Working /\ Steady(peered) /\ peered.state = "Follower"
    BY SMTT(30), <1>7, <1>9, CalmNode, CalmFollower
  <1>11. commit \in Nat
    BY SMTT(30), <1>4 DEF Max2
  <1> HIDE DEF commit
  <1>12. loaded \in Working
    BY ZenonT(30), <1>4, <1>10, <1>11 DEF Working
  <1>13. /\ loaded.id = peered.id /\ loaded.peers = peered.peers
         /\ loaded.votersOld = peered.votersOld /\ loaded.votersNew = peered.votersNew
         /\ loaded.log = o.log /\ loaded.snap = peered.snap /\ loaded.disk = peered.disk
         /\ loaded.out = peered.out /\ loaded.state = "Follower"
    BY SMTT(30), <1>10 DEF Working
  <1> HIDE DEF loaded
  <1>14. Steady(loaded) /\ loaded.commit \in Nat /\ LastIndex(loaded) \in Nat
    BY SMTT(30), <1>4, <1>10, <1>12, <1>13, IndexTypes DEF Steady
  <1>15. broken \in Working /\ Steady(broken) /\ broken.state = "Follower"
    BY SMTT(30), NewNodeSteady
  <1> HIDE DEF broken
  <1>16. Calm(broken, FailStorage(broken, "open")) /\ Calm(loaded, FailStorage(loaded, "recover"))
    BY SMTT(30), <1>12, <1>14, <1>15, FailStorageCalm DEF Reason
  <1>17. loaded.commit <= LastIndex(loaded) => Calm(loaded, RestoreConfigurationState(loaded))
    BY SMTT(30), <1>12, <1>14, RestoreConfigurationStateCalm
  <1> QED BY SMTT(30), <1>2, <1>13, <1>14, <1>15, <1>16, <1>17, CalmNode, CalmFollower

----------------------------------------------------------------------------
(* Steps of the cluster                                                    *)

(* A node about to run a handler, under a fate of its store calls. *)
LEMMA UnderSound ==
    ASSUME EInv, NEW i \in Server, NEW fate \in Fates
    PROVE  LET w == Under(node[i], fate)
           IN  w \in Working /\ w.id = i /\ Sound(w, msgs)
  <1> DEFINE w == Under(node[i], fate)
  <1>1. node[i] \in NodeState /\ node[i].id = i /\ node[i] \in Working /\ node[i].out = {}
    <2>1. node[i] \in NodeState /\ node[i].id = i
      BY DEF EInv, IInv, TypeOK
    <2> QED BY ZenonT(30), <2>1, RestingNode
  <1>2. w \in Working /\ w.out = {}
    BY ZenonT(30), <1>1, UnderType
  <1>3. /\ w.id = node[i].id /\ w.peers = node[i].peers /\ w.votersOld = node[i].votersOld
        /\ w.votersNew = node[i].votersNew /\ w.log = node[i].log /\ w.snap = node[i].snap
        /\ w.disk = node[i].disk /\ w.out = node[i].out /\ w.state = node[i].state
        /\ w.term = node[i].term /\ w.voteMask = node[i].voteMask
    BY SMTT(30), <1>1 DEF Under, Working
  <1>4. Steady(node[i]) /\ RoleEarned(node[i], msgs)
    BY SMTT(30) DEF EInv
  <1> HIDE DEF w
  <1>5. Steady(w)
    BY SMTT(30), <1>3, <1>4, SteadyFrame
  <1>6. msgs \cup w.out = msgs
    BY SMTT(30), <1>2
  <1>7. Sound(w, msgs)
    BY SMTT(30), <1>2, <1>3, <1>4, <1>5, <1>6 DEF Sound, RoleEarned
  <1> QED BY SMTT(30), <1>1, <1>2, <1>3, <1>7 DEF w

(* The part of the invariant that is not in IInv, after one server's turn: *)
(* node i has become p, and sent has been sent.                            *)
LEMMA OneServerEarns ==
    ASSUME EInv, IInv', NEW i \in Server, NEW p, NEW sent,
           node' = [node EXCEPT ![i] = p], msgs' = msgs \cup sent,
           Steady(p), RoleEarned(p, msgs \cup sent), sent \subseteq SteadyMail,
           \A m \in sent : Leads(m) => Elected(msgs \cup sent, m.from, m.term)
    PROVE  EInv'
  <1>1. node \in [Server -> NodeState]
    BY SMTT(30) DEF EInv, IInv, TypeOK
  <1>2. /\ \A j, c, t : HasVoted(msgs, j, c, t) => HasVoted(msgs', j, c, t)
        /\ \A c, t : Elected(msgs, c, t) => Elected(msgs', c, t)
    <2>1. msgs \subseteq msgs'
      BY SMTT(30)
    <2> QED BY SMTT(30), <2>1, VotesStay
  <1>3. ASSUME NEW j \in Server PROVE Steady(node'[j]) /\ RoleEarned(node'[j], msgs')
    <2>1. CASE j = i
      BY SMTT(30), <1>1, <2>1
    <2>2. CASE j # i
      <3>1. node'[j] = node[j] /\ Steady(node[j]) /\ RoleEarned(node[j], msgs)
        BY SMTT(30), <1>1, <2>2 DEF EInv
      <3>2. RoleEarned(node[j], msgs')
        BY SMTT(30), <1>2, <3>1 DEF RoleEarned
      <3> QED BY SMTT(30), <3>1, <3>2
    <2> QED BY SMTT(30), <2>1, <2>2
  <1>4. ASSUME NEW m \in msgs'
        PROVE  m \in SteadyMail /\ (Leads(m) => Elected(msgs', m.from, m.term))
    <2>1. CASE m \in msgs
      BY SMTT(30), <1>2, <2>1 DEF EInv
    <2>2. CASE m \in sent
      BY SMTT(30), <2>2
    <2> QED BY SMTT(30), <2>1, <2>2
  <1> QED BY SMTT(30), <1>3, <1>4 DEF EInv

(* A turn of the driver after a sound handler. *)
LEMMA TurnEarns ==
    ASSUME EInv, IInv', NEW i \in Server, NEW fate, NEW got, NEW n \in Working, Sound(n, msgs),
           TurnOn(i, fate, n, got)
    PROVE  EInv'
  <1> DEFINE p == AtRest(n)
  <1>1. node' = [node EXCEPT ![i] = p] /\ msgs' = msgs \cup n.out
    BY SMTT(30) DEF TurnOn
  <1>2. p.id = n.id /\ Steady(p) /\ (p.state = "Follower" \/ Ranked(n, p))
    BY SMTT(30), AtRestCalm DEF Sound
  <1> HIDE DEF p
  <1>3. RoleEarned(p, msgs \cup n.out)
    BY SMTT(30), <1>2 DEF Sound, RoleEarned, Ranked
  <1>4. n.out \subseteq SteadyMail
    BY SMTT(30) DEF Sound, Steady
  <1> QED BY ZenonT(30), <1>1, <1>2, <1>3, <1>4, OneServerEarns DEF Sound

(* Each action of the cluster preserves the invariant. *)
LEMMA NextEarns ==
    ASSUME FixedMembership, EInv, Next, IInv'
    PROVE  EInv'
  <1>0. \A m \in msgs : m \in SteadyMail
    BY SMTT(30) DEF EInv
  <1>a. ASSUME NEW i \in Server
        PROVE  node[i] \in Working /\ Sound(node[i], msgs) /\ Steady(node[i])
    <2>1. node[i] \in NodeState
      BY DEF EInv, IInv, TypeOK
    <2>2. node[i] \in Working /\ node[i].out = {}
      BY ZenonT(30), <2>1, RestingNode
    <2>3. Steady(node[i]) /\ RoleEarned(node[i], msgs)
      BY DEF EInv
    <2>4. msgs \cup node[i].out = msgs
      BY SMTT(30), <2>2
    <2> QED BY SMTT(30), <2>2, <2>3, <2>4 DEF Sound
  <1>b. ASSUME NEW i \in Server, NEW fate \in Fates
        PROVE  /\ Under(node[i], fate) \in Working /\ Under(node[i], fate).id = i
               /\ Sound(Under(node[i], fate), msgs) /\ Steady(Under(node[i], fate))
    BY SMTT(30), UnderSound DEF Sound
  <1>c. ASSUME NEW i \in Server, NEW n \in Working, Sound(n, msgs), NEW fate, NEW got, NEW p,
               Calm(n, p), TurnOn(i, fate, p, got)
        PROVE  EInv'
    <2>1. p \in Working /\ Sound(p, msgs)
      BY SMTT(30), <1>c, CalmNode, CalmSound
    <2> QED BY SMTT(30), <1>c, <2>1, TurnEarns
  <1>d. ASSUME NEW B, "configs" \in B, Spend(B)
        PROVE  FALSE
    <2>1. used["configs"] < Bound["configs"] /\ Bound["configs"] = 0
      BY SMTT(30), <1>d DEF Spend, Bound, FixedMembership
    <2>2. used["configs"] \in Nat
      BY SMTT(30) DEF EInv, IInv, TypeOK, Bound
    <2> QED BY SMTT(30), <2>1, <2>2
  <1>1. ASSUME NEW i \in Server, Heartbeat(i)
        PROVE  EInv'
    <2>1. Calm(node[i], BroadcastAppend(node[i]))
      BY SMTT(30), <1>1, <1>a, BroadcastAppendCalm DEF Heartbeat
    <2>2. TurnOn(i, NoFault, BroadcastAppend(node[i]), {})
      BY SMTT(30), <1>1 DEF Heartbeat, Turn
    <2> QED BY SMTT(30), <1>a, <1>c, <2>1, <2>2
  <1>2. ASSUME NEW i \in Server, ElectionTimeout(i)
        PROVE  EInv'
    <2>1. PICK fate \in Fates : TurnOn(i, fate, StartPreVote(Under(node[i], fate)), {})
      BY ZenonT(30), <1>2 DEF ElectionTimeout, Turn
    <2> DEFINE w == Under(node[i], fate)
    <2>2. w \in Working /\ Sound(w, msgs)
      BY SMTT(30), <1>b
    <2>3. TurnOn(i, fate, StartPreVote(w), {})
      BY SMTT(30), <2>1
    <2> HIDE DEF w
    <2>4. StartPreVote(w) \in Working /\ Sound(StartPreVote(w), msgs)
      BY SMTT(30), <2>2, StartPreVoteEvolves, EvolvesWorking, StartPreVoteSound
    <2> QED BY SMTT(30), <2>3, <2>4, TurnEarns
  <1>3. ASSUME NEW i \in Server, Restart(i)
        PROVE  EInv'
    <2> DEFINE n == Recovered(i, node[i].disk)
               p == IF Driver = "caller" \/ n.faulted THEN n ELSE ApplyEntries(n)
               sent == {}
    <2>1. node[i].disk \in PlainDisk /\ node[i].disk \in Disk
      BY SMTT(30), <1>a DEF Steady, PlainDisk
    <2>2. n \in NodeState /\ Steady(n) /\ n.state = "Follower"
      BY SMTT(30), <2>1, RecoveredRests, RecoveredSteady DEF Rests, FixedMembership
    <2>3. n \in Working
      BY ZenonT(30), <2>2, RestingNode
    <2>4. node' = [node EXCEPT ![i] = p] /\ msgs' = msgs \cup sent
      BY SMTT(30), <1>3 DEF Restart
    <2> HIDE DEF n
    <2>5. Calm(n, p)
      BY SMTT(30), <2>2, <2>3, CalmRefl, ApplyEntriesCalm
    <2> HIDE DEF p
    <2>6. Steady(p) /\ p.state = "Follower"
      BY SMTT(30), <2>2, <2>5, CalmNode, CalmFollower
    <2>7. RoleEarned(p, msgs \cup sent)
      BY SMTT(30), <2>6 DEF RoleEarned
    <2>8. sent \subseteq SteadyMail /\ \A m \in sent : Leads(m) => Elected(msgs \cup sent, m.from, m.term)
      BY SMTT(30)
    <2> HIDE DEF sent
    <2> QED BY ZenonT(30), <2>4, <2>6, <2>7, <2>8, OneServerEarns
  <1>4. ASSUME NEW i \in Server, ApplyAt(i)
        PROVE  EInv'
    <2>1. Calm(node[i], ApplyEntries(node[i]))
      BY SMTT(30), <1>a, ApplyEntriesCalm
    <2>2. TurnOn(i, NoFault, ApplyEntries(node[i]), {})
      BY SMTT(30), <1>4 DEF ApplyAt, Turn
    <2> QED BY <1>a, <1>c, <2>1, <2>2
  <1>5. ASSUME NEW i \in Server, CompactAt(i)
        PROVE  EInv'
    <2>1. PICK fate \in Fates : TurnOn(i, fate, Compact(Under(node[i], fate), node[i].applied), {})
      BY SMTT(30), <1>5 DEF CompactAt, Turn
    <2>2. node[i].applied \in Nat
      BY SMTT(30), <1>a, IndexTypes
    <2>3. Calm(Under(node[i], fate), Compact(Under(node[i], fate), node[i].applied))
      BY SMTT(30), <1>b, <2>2, CompactCalm
    <2> QED BY SMTT(30), <1>b, <1>c, <2>1, <2>3
  <1>6. ASSUME NEW i \in Server, BeginFinal(i)
        PROVE  EInv'
    <2>1. PICK fate \in Fates : Spend({"configs"} \cup Faults(fate))
      BY SMTT(30), <1>6 DEF BeginFinal
    <2> QED BY SMTT(30), <1>d, <2>1
  <1>7. ASSUME NEW i \in Server, NEW m \in msgs, Receive(i, m)
        PROVE  EInv'
    <2>1. PICK fate \in Fates : TurnOn(i, fate, Step(Under(node[i], fate), m), {m})
      BY SMTT(30), <1>7 DEF Receive
    <2> DEFINE w == Under(node[i], fate)
    <2>2. w \in Working /\ w.id = i /\ Sound(w, msgs) /\ m.to = w.id /\ m \in SteadyMail /\ m \in Mail
      BY SMTT(30), <1>0, <1>7, <1>b DEF Receive, SteadyMail
    <2>3. TurnOn(i, fate, Step(w, m), {m})
      BY SMTT(30), <2>1
    <2> HIDE DEF w
    <2>4. Step(w, m) \in Working /\ Sound(Step(w, m), msgs)
      BY SMTT(30), <2>2, StepEvolves, EvolvesWorking, StepSound
    <2> QED BY SMTT(30), <2>3, <2>4, TurnEarns
  <1>8. ASSUME NEW i \in Server, NEW c \in Command, ClientPropose(i, c)
        PROVE  EInv'
    <2>1. PICK fate \in Fates : TurnOn(i, fate, Propose(Under(node[i], fate), c), {})
      BY SMTT(30), <1>8 DEF ClientPropose, Turn
    <2>2. Calm(Under(node[i], fate), Propose(Under(node[i], fate), c))
      BY SMTT(30), <1>b, ProposeCalm
    <2> QED BY SMTT(30), <1>b, <1>c, <2>1, <2>2
  <1>9. ASSUME NEW i \in Server, NEW voters \in NewVoterSets, BeginJoint(i, voters)
        PROVE  EInv'
    <2>1. PICK fate \in Fates : Spend({"configs"} \cup Faults(fate))
      BY SMTT(30), <1>9 DEF BeginJoint
    <2> QED BY SMTT(30), <1>d, <2>1
  <1>10. ASSUME NEW i \in Server, NEW c \in ReadContext, BeginRead(i, c)
         PROVE  EInv'
    <2>1. Calm(node[i], StartReadIndex(node[i], c))
      BY SMTT(30), <1>a, StartReadIndexCalm
    <2>2. TurnOn(i, NoFault, StartReadIndex(node[i], c), {})
      BY SMTT(30), <1>10 DEF BeginRead, Turn
    <2> QED BY SMTT(30), <1>a, <1>c, <2>1, <2>2
  <1>11. ASSUME NEW i \in Server, NEW target \in Server, Transfer(i, target)
         PROVE  EInv'
    <2>1. Calm(node[i], TransferLeadership(node[i], target))
      BY SMTT(30), <1>a, TransferLeadershipCalm
    <2>2. TurnOn(i, NoFault, TransferLeadership(node[i], target), {})
      BY SMTT(30), <1>11 DEF Transfer, Turn
    <2> QED BY SMTT(30), <1>a, <1>c, <2>1, <2>2
  <1> QED BY SMTT(30), <1>1, <1>2, <1>3, <1>4, <1>5, <1>6, <1>7, <1>8, <1>9, <1>10, <1>11 DEF Next

----------------------------------------------------------------------------
(* Election safety                                                         *)

(* NewNodeWithStore on an empty disk satisfies the invariant. *)
LEMMA InitEarns ==
    ASSUME FixedMembership, Init
    PROVE  EInv
  <1>1. EmptyDisk \in PlainDisk
    <2>1. EmptyDisk.hard \in HardState
      BY SMTT(30) DEF EmptyDisk, HardState
    <2>2. NoSnapshot \in Snapshot
      BY SMTT(30) DEF Snapshot, NoSnapshot
    <2>3. NoSnapshot \in PlainSnapshot
      BY SMTT(30), <2>2 DEF NoSnapshot, PlainSnapshot
    <2>4. EmptyDisk \in Disk
      BY SMTT(30), <2>1, <2>2 DEF EmptyDisk, Disk
    <2>5. EmptyDisk.log = << >> /\ EmptyDisk.snap = NoSnapshot
      BY SMTT(30) DEF EmptyDisk
    <2>6. << >> \in Seq(PlainEntry)
      OBVIOUS
    <2>7. EmptyDisk.log \in Seq(PlainEntry) /\ EmptyDisk.snap \in PlainSnapshot
      BY ZenonT(30), <2>3, <2>5, <2>6
    <2> QED BY ZenonT(30), <2>4, <2>7 DEF PlainDisk
  <1>2. ASSUME NEW i \in Server PROVE Steady(node[i]) /\ RoleEarned(node[i], msgs)
    <2> DEFINE n == NewNodeWithStore(i, EmptyDisk)
    <2>1. node[i] = n
      BY SMTT(30) DEF Init
    <2>2. Steady(n) /\ n.state = "Follower"
      BY SMTT(30), <1>1, NewNodeSteady DEF FixedMembership
    <2> HIDE DEF n
    <2> QED BY SMTT(30), <2>1, <2>2 DEF RoleEarned
  <1>3. IInv
    BY SMTT(30), InitInvariant
  <1> QED BY SMTT(30), <1>2, <1>3 DEF EInv, Init

(* Every step preserves it. *)
LEMMA StepEarns ==
    ASSUME FixedMembership, EInv, [Next]_vars
    PROVE  EInv'
  <1>1. IInv'
    BY SMTT(30), StepInvariant DEF EInv
  <1>2. CASE Next
    BY SMTT(30), <1>1, <1>2, NextEarns
  <1>3. CASE UNCHANGED vars
    <2>1. node' = node /\ msgs' = msgs
      BY SMTT(30), <1>3 DEF vars
    <2> QED BY SMTT(30), <1>1, <2>1 DEF EInv
  <1> QED BY SMTT(30), <1>2, <1>3

(* Two majorities have a server in common. *)
LEMMA MajoritiesMeet ==
    ASSUME NEW Q \in SUBSET Server, NEW R \in SUBSET Server, Majority(Server, Q), Majority(Server, R)
    PROVE  \E j \in Server : j \in Q /\ j \in R
  <1>1. /\ IsFiniteSet(Server) /\ IsFiniteSet(Q) /\ IsFiniteSet(R)
        /\ Server \cap Q = Q /\ Server \cap R = R
    BY SMTT(30), VotersAssumption, FS_Subset
  <1>2. Cardinality(Server) \in Nat /\ Cardinality(Q) \in Nat /\ Cardinality(R) \in Nat
    BY SMTT(30), <1>1, FS_CardinalityType
  <1>3. \A c \in Nat : c \div 2 \in Nat /\ 2 * (c \div 2) + 2 > c
    BY SMTT(30)
  <1>4. /\ Cardinality(Q) >= Cardinality(Server) \div 2 + 1
        /\ Cardinality(R) >= Cardinality(Server) \div 2 + 1
    BY ZenonT(30), <1>1 DEF Majority
  <1>5. ASSUME NEW q \in Nat, NEW r \in Nat, NEW c \in Nat,
               q >= c \div 2 + 1, r >= c \div 2 + 1
        PROVE  q + r > c
    BY SMTT(30), <1>3, <1>5
  <1>6. Cardinality(Q) + Cardinality(R) > Cardinality(Server)
    BY ZenonT(30), <1>2, <1>4, <1>5
  <1> QED BY SMTT(30), <1>1, <1>6, FS_MajoritiesIntersect

(* Two nodes elected in one term are one node. *)
LEMMA OneElected ==
    ASSUME OneVotePerTerm, NEW a \in Server, NEW b \in Server, NEW t,
           Elected(msgs, a, t), Elected(msgs, b, t)
    PROVE  a = b
  <1>1. PICK Q \in SUBSET Server : Majority(Server, Q) /\ \A j \in Q : HasVoted(msgs, j, a, t)
    BY SMTT(30) DEF Elected
  <1>2. PICK R \in SUBSET Server : Majority(Server, R) /\ \A j \in R : HasVoted(msgs, j, b, t)
    BY SMTT(30) DEF Elected
  <1>3. PICK j \in Server : j \in Q /\ j \in R
    BY SMTT(30), <1>1, <1>2, MajoritiesMeet
  <1>4. HasVoted(msgs, j, a, t) /\ HasVoted(msgs, j, b, t)
    BY SMTT(30), <1>1, <1>2, <1>3
  <1>5. CASE Server = {a} \/ Server = {b}
    BY SMTT(30), <1>5
  <1>6. CASE ~(Server = {a} \/ Server = {b})
    <2>1. PICK v \in msgs : IsVote(v) /\ v.from = j /\ v.term = t /\ VotedFor(v) = a
      BY SMTT(30), <1>4, <1>6 DEF HasVoted
    <2>2. PICK w \in msgs : IsVote(w) /\ w.from = j /\ w.term = t /\ VotedFor(w) = b
      BY SMTT(30), <1>4, <1>6 DEF HasVoted
    <2> QED BY SMTT(30), <2>1, <2>2 DEF OneVotePerTerm
  <1> QED BY SMTT(30), <1>5, <1>6

(* The invariant says who may speak as a leader. *)
LEMMA EarnedIsSafe ==
    ASSUME EInv
    PROVE  ElectionSafety
  <1> SUFFICES ASSUME NEW m1 \in msgs, NEW m2 \in msgs, Leads(m1), Leads(m2), m1.term = m2.term
               PROVE  m1.from = m2.from
    BY SMTT(30) DEF ElectionSafety, Leads
  <1>1. Elected(msgs, m1.from, m1.term) /\ Elected(msgs, m2.from, m1.term)
    BY SMTT(30) DEF EInv
  <1>2. m1.from \in Server /\ m2.from \in Server
    BY SMTT(30), MailFields DEF EInv, SteadyMail
  <1> QED BY SMTT(30), <1>1, <1>2, OneElected DEF EInv, IInv

(* In a cluster of any size whose membership is fixed, no two nodes ever   *)
(* send an append, a snapshot or a transfer as the leader of one term:     *)
(* startElection and onVote persist a vote before they send it, and        *)
(* becomeLeader needs a quorum of them.                                    *)
THEOREM LeadersAreUnique == FixedMembership => (Spec => []ElectionSafety)
  <1> SUFFICES ASSUME FixedMembership PROVE Spec => []ElectionSafety
    OBVIOUS
  <1>1. Init => EInv
    BY SMTT(30), InitEarns
  <1>2. EInv /\ [Next]_vars => EInv'
    BY SMTT(30), StepEarns
  <1>3. EInv => ElectionSafety
    BY EarnedIsSafe
  <1> QED BY <1>1, <1>2, <1>3, PTL DEF Spec
=============================================================================
