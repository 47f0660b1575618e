-------------------------- MODULE PaxosNodeProofs --------------------------
(***************************************************************************)
(* The inductive invariant of the Paxos example, what a step of one node   *)
(* leaves intact for the others, and the handlers of messages that begin   *)
(* no phase.                                                               *)
(*                                                                         *)
(* The inductive invariant IInv is stated over any nodes ns and any sent   *)
(* messages ms, so that a handler that does several things, such as        *)
(* Propose of a node that is alone, is a chain of steps that preserve it.  *)
(* Its core is that what anybody may have accepted is safe: for every      *)
(* lower number a quorum exists whose members can accept nothing else      *)
(* there any more.                                                         *)
(***************************************************************************)
EXTENDS PaxosNet, TLAPS

Val == Value \cup {NoValue}

Message ==
    [kind : {"Prepare"}, from : Server, to : Server, num : Nat]
    \cup [kind : {"Promise"}, from : Server, to : Server, num : Nat, accNum : Nat, accVal : Val]
    \cup [kind : {"Accept"}, from : Server, to : Server, num : Nat, val : Val]
    \cup [kind : {"Accepted"}, from : Server, to : Server, num : Nat]
    \cup [kind : {"Refusal"}, from : Server, to : Server, num : Nat]

Node ==
    [promised : Nat, accNum : Nat, accVal : Val, accepts : Seq(Nat \X Val),
     phase : Phase, round : Nat, myNum : Nat, myVal : Val,
     promises : SUBSET Server, acceptors : SUBSET Server, bestNum : Nat, bestVal : Val,
     elapsed : Nat, out : SUBSET Message]

(* Node n has accepted value v at number b. *)
Voted(n, b, v) == \E k \in DOMAIN n.accepts : n.accepts[k] = << b, v >>

(* The numbers of node i. *)
Owns(i, b) == \E r \in Nat : b = r * N + i

(* Somebody has accepted (b, v) or was asked to. *)
Claimed(ns, ms, b, v) ==
    \/ \E j \in Server : Voted(ns[j], b, v)
    \/ \E m \in ms : m.kind = "Accept" /\ m.num = b /\ m.val = v

(* Phase two of number b is or was run by its owner, for v if it still is. *)
Backed(ns, b, v) ==
    \E i \in Server :
        /\ Owns(i, b) /\ b <= ns[i].myNum
        /\ b = ns[i].myNum => ns[i].phase \in {"accepting", "decided"} /\ ns[i].myVal = v

(* At no number below b a value other than v is chosen, now or later. *)
Safe(ns, b, v) ==
    \A c \in Nat : c < b =>
        \E Q \in SUBSET Server :
            /\ IsQuorum(Q)
            /\ \A j \in Q : ns[j].promised > c /\ \A w \in Val : Voted(ns[j], c, w) => w = v

(* What holds of each node by itself. *)
NodeInv(i, n) ==
    /\ n \in Node
    /\ n.myNum <= n.round * N + i
    /\ n.phase # "idle" => Owns(i, n.myNum)
    /\ n.accNum <= n.promised
    /\ n.accNum > 0 => Voted(n, n.accNum, n.accVal)
    /\ \A b \in Nat, v \in Val : Voted(n, b, v) => 0 < b /\ b <= n.accNum

(* What the owner of a number knows of the nodes that promised it. *)
Prepared(ns, i) ==
    LET n == ns[i] IN
    n.phase = "preparing" =>
        /\ \A j \in n.promises :
              /\ ns[j].promised >= n.myNum
              /\ \A c \in Nat, w \in Val : Voted(ns[j], c, w) /\ c < n.myNum => c <= n.bestNum
        /\ n.bestNum > 0 => n.bestNum < n.myNum /\ \E j \in Server : Voted(ns[j], n.bestNum, n.bestVal)

(* What the owner of a number knows of the nodes that accepted it. *)
Counted(ns, i) ==
    LET n == ns[i] IN
    /\ n.phase \in {"accepting", "decided"} => \A j \in n.acceptors : Voted(ns[j], n.myNum, n.myVal)
    /\ n.phase = "decided" => IsQuorum(n.acceptors)

(* What a message says of its sender. *)
MessageInv(ns, m) ==
    /\ m \in Message
    /\ m.kind = "Promise" =>
          /\ ns[m.from].promised >= m.num /\ m.accNum < m.num
          /\ m.accNum > 0 => Voted(ns[m.from], m.accNum, m.accVal)
          /\ \A c \in Nat, w \in Val : Voted(ns[m.from], c, w) /\ c < m.num => c <= m.accNum
    /\ m.kind = "Accepted" => \E v \in Val : Voted(ns[m.from], m.num, v)

(* The inductive invariant, of the nodes ns and the messages ms. *)
IInv(ns, ms) ==
    /\ ns \in [Server -> Node]
    /\ \A i \in Server : NodeInv(i, ns[i]) /\ ns[i].out \subseteq ms
    /\ \A i \in Server : Prepared(ns, i) /\ Counted(ns, i)
    /\ \A m \in ms : MessageInv(ns, m)
    /\ \A b \in Nat, v \in Val : Claimed(ns, ms, b, v) => Backed(ns, b, v) /\ Safe(ns, b, v)
    /\ \A b \in Nat, v, w \in Val : Claimed(ns, ms, b, v) /\ Claimed(ns, ms, b, w) => v = w
-----------------------------------------------------------------------------
(* Numbers of different rounds of one node are N apart or more. *)
LEMMA Scaled ==
    ASSUME NEW r \in Nat, NEW s \in Nat, r < s
    PROVE  r * N + N <= s * N
  <1>1. PICK d \in Nat : s = r + 1 + d
    BY s - r - 1 \in Nat
  <1>2. d * N \in Nat
    BY SizeAssumption
  <1>3. s * N = r * N + N + d * N
    BY <1>1, SizeAssumption
  <1> QED BY <1>2, <1>3, SizeAssumption

(* A number belongs to one node: proposalNumber is injective. *)
LEMMA OneOwner ==
    ASSUME NEW i \in Server, NEW j \in Server, NEW b \in Nat, Owns(i, b), Owns(j, b)
    PROVE  i = j
  <1>1. PICK r \in Nat : b = r * N + i
    BY DEF Owns
  <1>2. PICK s \in Nat : b = s * N + j
    BY DEF Owns
  <1>a. r * N \in Nat /\ s * N \in Nat /\ i \in 1 .. N /\ j \in 1 .. N /\ N \in Nat
    BY SizeAssumption DEF Server
  <1>3. CASE r < s
    <2>1. r * N + N <= s * N
      BY <1>3, Scaled
    <2> QED BY <1>1, <1>2, <1>a, <2>1
  <1>4. CASE s < r
    <2>1. s * N + N <= r * N
      BY <1>4, Scaled
    <2> QED BY <1>1, <1>2, <1>a, <2>1
  <1>5. CASE r = s
    BY <1>1, <1>2, <1>a, <1>5
  <1> QED BY <1>3, <1>4, <1>5

(* Node i becomes p. *)
Put(ns, i, p) == [ns EXCEPT ![i] = p]

(* What every step does to an acceptor: promises only grow, votes stay,    *)
(* and new votes respect the promise.                                      *)
Advances(n, p) ==
    /\ p.promised >= n.promised
    /\ \A b \in Nat, v \in Val : Voted(n, b, v) => Voted(p, b, v)
    /\ \A b \in Nat, v \in Val : Voted(p, b, v) => Voted(n, b, v) \/ b >= n.promised

(* What every step does to a proposer: it goes to higher numbers, and      *)
(* keeps the value of phase two of its number.                             *)
Continues(n, p) ==
    /\ p.myNum >= n.myNum
    /\ p.myNum = n.myNum /\ n.phase \in {"accepting", "decided"}
          => p.phase \in {"accepting", "decided"} /\ p.myVal = n.myVal

SameProposer(n, p) ==
    /\ p.phase = n.phase /\ p.myNum = n.myNum /\ p.myVal = n.myVal
    /\ p.promises = n.promises /\ p.acceptors = n.acceptors
    /\ p.bestNum = n.bestNum /\ p.bestVal = n.bestVal

(* Put changes node i and no other. *)
LEMMA PutAt ==
    ASSUME NEW ns \in [Server -> Node], NEW i \in Server, NEW p \in Node
    PROVE  /\ Put(ns, i, p) \in [Server -> Node]
           /\ Put(ns, i, p)[i] = p
           /\ \A k \in Server : k # i => Put(ns, i, p)[k] = ns[k]
  BY DEF Put

(* The fields the proofs compare, with their types. *)
LEMMA NodeFields ==
    ASSUME NEW n \in Node
    PROVE  /\ n.promised \in Nat /\ n.accNum \in Nat /\ n.myNum \in Nat /\ n.bestNum \in Nat
           /\ n.round \in Nat /\ n.elapsed \in Nat
           /\ n.accVal \in Val /\ n.myVal \in Val /\ n.bestVal \in Val
           /\ n.accepts \in Seq(Nat \X Val) /\ n.phase \in Phase
           /\ n.promises \in SUBSET Server /\ n.acceptors \in SUBSET Server
           /\ n.out \in SUBSET Message
  BY Zenon DEF Node

(* A step of node i keeps what is safe. *)
LEMMA SafeKept ==
    ASSUME NEW ns \in [Server -> Node], NEW i \in Server, NEW p \in Node, Advances(ns[i], p),
           NEW b \in Nat, NEW v \in Val, Safe(ns, b, v)
    PROVE  Safe(Put(ns, i, p), b, v)
  <1> DEFINE ns2 == Put(ns, i, p)
  <1>p. ns2[i] = p /\ \A j \in Server : j # i => ns2[j] = ns[j]
    BY PutAt
  <1>q. SUFFICES Safe(ns2, b, v)
    OBVIOUS
  <1> HIDE DEF ns2
  <1>1. SUFFICES ASSUME NEW c \in Nat, c < b
                 PROVE  \E Q \in SUBSET Server :
                            /\ IsQuorum(Q)
                            /\ \A j \in Q : ns2[j].promised > c /\ \A w \in Val : Voted(ns2[j], c, w) => w = v
    BY DEF Safe
  <1>2. PICK Q \in SUBSET Server :
            /\ IsQuorum(Q)
            /\ \A j \in Q : ns[j].promised > c /\ \A w \in Val : Voted(ns[j], c, w) => w = v
    BY <1>1 DEF Safe
  <1>3. ASSUME NEW j \in Q
        PROVE  ns2[j].promised > c /\ \A w \in Val : Voted(ns2[j], c, w) => w = v
    <2>1. CASE j # i
      BY <1>2, <2>1, <1>p
    <2>2. CASE j = i
      <3>1. ns2[j] = p /\ ns[i].promised > c /\ \A w \in Val : Voted(ns[i], c, w) => w = v
        BY <1>2, <2>2, <1>p
      <3>2. ns[i].promised \in Nat /\ p.promised \in Nat
        BY NodeFields
      <3> QED BY <3>1, <3>2 DEF Advances
    <2> QED BY <2>1, <2>2
  <1> QED BY <1>2, <1>3

(* A step of node i keeps what is backed. *)
LEMMA BackedKept ==
    ASSUME NEW ns \in [Server -> Node], NEW i \in Server, NEW p \in Node, Continues(ns[i], p),
           NEW b \in Nat, NEW v \in Val, Backed(ns, b, v)
    PROVE  Backed(Put(ns, i, p), b, v)
  <1> DEFINE ns2 == Put(ns, i, p)
  <1>p. ns2[i] = p /\ \A j \in Server : j # i => ns2[j] = ns[j]
    BY PutAt
  <1>q. SUFFICES Backed(ns2, b, v)
    OBVIOUS
  <1> HIDE DEF ns2
  <1>1. PICK k \in Server :
            /\ Owns(k, b) /\ b <= ns[k].myNum
            /\ b = ns[k].myNum => ns[k].phase \in {"accepting", "decided"} /\ ns[k].myVal = v
    BY DEF Backed
  <1>2. CASE k # i
    BY <1>1, <1>2, <1>p DEF Backed
  <1>3. CASE k = i
    <2>1. ns2[k] = p /\ ns[k].myNum \in Nat /\ p.myNum \in Nat
      BY <1>3, <1>p, NodeFields
    <2>2. b <= p.myNum
      BY <1>1, <1>3, <2>1 DEF Continues
    <2>3. b = p.myNum => p.phase \in {"accepting", "decided"} /\ p.myVal = v
      BY <1>1, <1>3, <2>1 DEF Continues
    <2> QED BY <1>1, <2>1, <2>2, <2>3 DEF Backed
  <1> QED BY <1>2, <1>3

(* A step of node i keeps what messages say. *)
LEMMA MessageKept ==
    ASSUME NEW ns \in [Server -> Node], NEW i \in Server, NEW p \in Node, Advances(ns[i], p),
           NEW m \in Message, MessageInv(ns, m)
    PROVE  MessageInv(Put(ns, i, p), m)
  <1> DEFINE ns2 == Put(ns, i, p)
  <1>p. ns2[i] = p /\ \A j \in Server : j # i => ns2[j] = ns[j]
    BY PutAt
  <1>q. SUFFICES MessageInv(ns2, m)
    OBVIOUS
  <1> HIDE DEF ns2
  <1>0. m.from \in Server /\ m.num \in Nat
    BY DEF Message
  <1>1. CASE m.from # i
    BY <1>0, <1>1, <1>p DEF MessageInv
  <1>2. CASE m.from = i
    <2>1. ns2[m.from] = p /\ ns[m.from] = ns[i] /\ ns[i].promised \in Nat /\ p.promised \in Nat
      BY <1>2, <1>p, NodeFields
    <2>2. CASE m.kind = "Promise"
      <3>0. m.accNum \in Nat /\ m.accVal \in Val
        BY <2>2 DEF Message
      <3>1. p.promised >= m.num
        BY <1>0, <2>1, <2>2 DEF MessageInv, Advances
      <3>2. m.accNum > 0 => Voted(p, m.accNum, m.accVal)
        BY <2>1, <2>2, <3>0 DEF MessageInv, Advances
      <3>3. ASSUME NEW c \in Nat, NEW w \in Val, Voted(p, c, w), c < m.num
            PROVE  c <= m.accNum
        BY <1>0, <2>1, <2>2, <3>3 DEF MessageInv, Advances
      <3> QED BY <2>1, <2>2, <3>1, <3>2, <3>3 DEF MessageInv
    <2>3. CASE m.kind = "Accepted"
      BY <1>0, <2>1, <2>3 DEF MessageInv, Advances
    <2> QED BY <2>2, <2>3 DEF MessageInv
  <1> QED BY <1>1, <1>2

(* A step of node i keeps what a proposer knows, i itself included if its  *)
(* proposer does nothing.                                                  *)
LEMMA ProposerKept ==
    ASSUME NEW ns \in [Server -> Node], NEW i \in Server, NEW p \in Node, Advances(ns[i], p),
           NEW k \in Server, k = i => SameProposer(ns[i], p), Prepared(ns, k), Counted(ns, k)
    PROVE  Prepared(Put(ns, i, p), k) /\ Counted(Put(ns, i, p), k)
  <1> DEFINE ns2 == Put(ns, i, p)
             n   == ns[k]
  <1>p. ns2[i] = p /\ \A j \in Server : j # i => ns2[j] = ns[j]
    BY PutAt
  <1>q. SUFFICES Prepared(ns2, k) /\ Counted(ns2, k)
    OBVIOUS
  <1> HIDE DEF ns2
  <1>1. SameProposer(n, ns2[k]) /\ n \in Node
    BY <1>p DEF SameProposer
  <1>2. n.myNum \in Nat /\ n.bestNum \in Nat /\ n.bestVal \in Val /\ n.myVal \in Val
        /\ n.promises \in SUBSET Server /\ n.acceptors \in SUBSET Server
    BY <1>1, NodeFields
  <1>3. ASSUME NEW j \in Server, NEW b \in Nat, NEW v \in Val, Voted(ns[j], b, v)
        PROVE  Voted(ns2[j], b, v)
    BY <1>3, <1>p DEF Advances
  <1>4. ASSUME n.phase = "preparing", NEW j \in n.promises
        PROVE  /\ ns2[j].promised >= n.myNum
               /\ \A c \in Nat, w \in Val : Voted(ns2[j], c, w) /\ c < n.myNum => c <= n.bestNum
    <2>1. /\ ns[j].promised >= n.myNum
          /\ \A c \in Nat, w \in Val : Voted(ns[j], c, w) /\ c < n.myNum => c <= n.bestNum
      BY <1>4 DEF Prepared
    <2>2. CASE j # i
      BY <1>2, <2>1, <2>2, <1>p
    <2>3. CASE j = i
      <3>1. ns2[j] = p /\ ns[j].promised \in Nat /\ p.promised \in Nat
        BY <2>3, <1>p, NodeFields
      <3> QED BY <1>2, <2>1, <2>3, <3>1 DEF Advances
    <2> QED BY <2>2, <2>3
  <1>5. n.phase = "preparing" /\ n.bestNum > 0 =>
            n.bestNum < n.myNum /\ \E j \in Server : Voted(ns2[j], n.bestNum, n.bestVal)
    BY <1>2, <1>3 DEF Prepared
  <1>6. Prepared(ns2, k)
    BY <1>1, <1>4, <1>5 DEF Prepared, SameProposer
  <1>7. Counted(ns2, k)
    BY <1>1, <1>2, <1>3 DEF Counted, SameProposer
  <1> QED BY <1>6, <1>7

(* (b, v) is claimed for the first time, and rightly. *)
Opens(ns, ms, ns2, b, v) ==
    Backed(ns2, b, v) /\ Safe(ns2, b, v) /\ \A w \in Val : ~Claimed(ns, ms, b, w)

(* A step of node i that sends messages preserves the invariant if it is   *)
(* right about what it changes itself.                                     *)
LEMMA Keeps ==
    ASSUME NEW ns, NEW ms, IInv(ns, ms), NEW i \in Server, NEW p, NodeInv(i, p),
           Advances(ns[i], p), Continues(ns[i], p),
           NEW ms2, ms \subseteq ms2, p.out \subseteq ms2,
           Prepared(Put(ns, i, p), i), Counted(Put(ns, i, p), i),
           \A m \in ms2 \ ms : MessageInv(Put(ns, i, p), m),
           \A b \in Nat, v \in Val :
               Claimed(Put(ns, i, p), ms2, b, v) =>
                   Claimed(ns, ms, b, v) \/ Opens(ns, ms, Put(ns, i, p), b, v),
           \A b \in Nat, v, w \in Val :
               /\ Claimed(Put(ns, i, p), ms2, b, v) /\ Opens(ns, ms, Put(ns, i, p), b, v)
               /\ Claimed(Put(ns, i, p), ms2, b, w) /\ Opens(ns, ms, Put(ns, i, p), b, w)
               => v = w
    PROVE  IInv(Put(ns, i, p), ms2)
  <1> DEFINE ns2 == Put(ns, i, p)
  <1>0. ns \in [Server -> Node] /\ p \in Node
    BY DEF IInv, NodeInv
  <1>1. ns2 \in [Server -> Node] /\ ns2[i] = p /\ \A k \in Server : k # i => ns2[k] = ns[k]
    BY SMTT(30), <1>0, PutAt
  <1>2. ASSUME NEW k \in Server
        PROVE  NodeInv(k, ns2[k]) /\ ns2[k].out \subseteq ms2
    <2>1. CASE k = i
      BY <1>1, <2>1
    <2>2. CASE k # i
      BY <1>1, <2>2 DEF IInv
    <2> QED BY <2>1, <2>2
  <1>3. ASSUME NEW k \in Server
        PROVE  Prepared(ns2, k) /\ Counted(ns2, k)
    <2>1. CASE k = i
      BY <2>1
    <2>2. CASE k # i
      <3>1. Prepared(ns, k) /\ Counted(ns, k)
        BY DEF IInv
      <3> QED BY SMTT(30), <1>0, <2>2, <3>1, ProposerKept
    <2> QED BY <2>1, <2>2
  <1>4. ASSUME NEW m \in ms2
        PROVE  MessageInv(ns2, m)
    <2>1. CASE m \in ms
      <3>1. MessageInv(ns, m) /\ m \in Message
        BY SMTT(30), <2>1 DEF IInv, MessageInv
      <3> QED BY SMTT(30), <1>0, <3>1, MessageKept
    <2> QED BY <2>1
  <1>5. ASSUME NEW b \in Nat, NEW v \in Val, Claimed(ns, ms, b, v)
        PROVE  Backed(ns2, b, v) /\ Safe(ns2, b, v)
    <2>1. Backed(ns, b, v) /\ Safe(ns, b, v)
      BY SMTT(30), <1>5 DEF IInv
    <2> QED BY SMTT(30), <1>0, <2>1, SafeKept, BackedKept
  <1>6. ASSUME NEW b \in Nat, NEW v \in Val, Claimed(ns2, ms2, b, v)
        PROVE  Backed(ns2, b, v) /\ Safe(ns2, b, v)
    BY SMTT(30), <1>5, <1>6 DEF Opens
  <1>7. ASSUME NEW b \in Nat, NEW v \in Val, NEW w \in Val,
               Claimed(ns2, ms2, b, v), Claimed(ns2, ms2, b, w)
        PROVE  v = w
    <2>1. CASE Claimed(ns, ms, b, v) /\ Claimed(ns, ms, b, w)
      BY SMTT(30), <2>1 DEF IInv
    <2>2. CASE Opens(ns, ms, ns2, b, v) /\ Opens(ns, ms, ns2, b, w)
      BY SMTT(30), <1>7, <2>2
    <2>3. (Claimed(ns, ms, b, v) \/ Opens(ns, ms, ns2, b, v)) /\ (Claimed(ns, ms, b, w) \/ Opens(ns, ms, ns2, b, w))
      BY SMTT(30), <1>7
    <2> QED BY SMTT(30), <2>1, <2>2, <2>3 DEF Opens
  <1> HIDE DEF ns2
  <1>8. IInv(ns2, ms2)
    BY SMTT(30), <1>1, <1>2, <1>3, <1>4, <1>6, <1>7 DEF IInv
  <1> QED BY <1>8 DEF ns2

(* The same for a step that leaves the proposer alone and claims nothing.  *)
LEMMA KeepsProposer ==
    ASSUME NEW ns, NEW ms, IInv(ns, ms), NEW i \in Server, NEW p, NodeInv(i, p),
           Advances(ns[i], p), SameProposer(ns[i], p),
           NEW ms2, ms \subseteq ms2, p.out \subseteq ms2,
           \A m \in ms2 \ ms : MessageInv(Put(ns, i, p), m) /\ m.kind # "Accept",
           \A b \in Nat, v \in Val : Voted(p, b, v) => Claimed(ns, ms, b, v)
    PROVE  IInv(Put(ns, i, p), ms2)
  <1> DEFINE ns2 == Put(ns, i, p)
  <1>0. ns \in [Server -> Node] /\ p \in Node
    BY DEF IInv, NodeInv
  <1>1. ns2[i] = p /\ \A k \in Server : k # i => ns2[k] = ns[k]
    BY <1>0, PutAt
  <1>2. Prepared(ns, i) /\ Counted(ns, i)
    BY DEF IInv
  <1>3. Prepared(ns2, i) /\ Counted(ns2, i)
    BY <1>0, <1>2, ProposerKept
  <1>4. Continues(ns[i], p)
    <2>1. ns[i].myNum \in Nat
      BY <1>0, NodeFields
    <2> QED BY <2>1 DEF Continues, SameProposer
  <1>5. ASSUME NEW b \in Nat, NEW v \in Val, Claimed(ns2, ms2, b, v)
        PROVE  Claimed(ns, ms, b, v)
    <2>1. CASE \E j \in Server : Voted(ns2[j], b, v)
      <3>1. PICK j \in Server : Voted(ns2[j], b, v)
        BY <2>1
      <3>2. CASE j = i
        BY <1>1, <3>1, <3>2
      <3>3. CASE j # i
        BY <1>1, <3>1, <3>3 DEF Claimed
      <3> QED BY <3>2, <3>3
    <2>2. CASE \E m \in ms2 : m.kind = "Accept" /\ m.num = b /\ m.val = v
      BY SMTT(30), <2>2 DEF Claimed
    <2> QED BY <1>5, <2>1, <2>2 DEF Claimed
  <1>6. \A b \in Nat, v \in Val : Claimed(ns2, ms2, b, v) =>
            Claimed(ns, ms, b, v) \/ Opens(ns, ms, ns2, b, v)
    BY SMTT(30), <1>5
  <1>7. \A b \in Nat, v, w \in Val :
            /\ Claimed(ns2, ms2, b, v) /\ Opens(ns, ms, ns2, b, v)
            /\ Claimed(ns2, ms2, b, w) /\ Opens(ns, ms, ns2, b, w)
            => v = w
    BY <1>5 DEF Opens
  <1> HIDE DEF ns2
  <1> QED BY SMTT(30), <1>3, <1>4, <1>6, <1>7, Keeps DEF ns2

-----------------------------------------------------------------------------
(* The handlers. *)

SameAcceptor(n, p) == p.promised = n.promised /\ p.accNum = n.accNum /\ p.accVal = n.accVal /\ p.accepts = n.accepts

(* Numbers that belong to a node are positive. *)
LEMMA OwnedPositive ==
    ASSUME NEW i \in Server, NEW b \in Nat, Owns(i, b)
    PROVE  0 < b
  <1>1. PICK r \in Nat : b = r * N + i
    BY DEF Owns
  <1>2. r * N \in Nat /\ i \in Nat /\ i > 0
    BY SizeAssumption DEF Server
  <1> QED BY <1>1, <1>2

(* What Accepting adds to the votes. *)
LEMMA VotedAppend ==
    ASSUME NEW n \in Node, NEW p \in Node, NEW b \in Nat, NEW v \in Val,
           p.accepts = Append(n.accepts, << b, v >>)
    PROVE  \A c \in Nat, w \in Val : Voted(p, c, w) <=> Voted(n, c, w) \/ (c = b /\ w = v)
  <1>1. n.accepts \in Seq(Nat \X Val)
    BY NodeFields
  <1> SUFFICES ASSUME NEW c \in Nat, NEW w \in Val
               PROVE  Voted(p, c, w) <=> Voted(n, c, w) \/ (c = b /\ w = v)
    OBVIOUS
  <1> DEFINE k0 == Len(n.accepts)
  <1>a. k0 \in Nat /\ DOMAIN n.accepts = 1 .. k0 /\ DOMAIN p.accepts = 1 .. (k0 + 1)
        /\ p.accepts[k0 + 1] = << b, v >> /\ \A k \in 1 .. k0 : p.accepts[k] = n.accepts[k]
    BY SMTT(30), <1>1
  <1> HIDE DEF k0
  <1>2. ASSUME Voted(p, c, w)
        PROVE  Voted(n, c, w) \/ (c = b /\ w = v)
    <2>1. PICK k \in 1 .. (k0 + 1) : p.accepts[k] = << c, w >>
      BY SMTT(30), <1>a, <1>2 DEF Voted
    <2>2. CASE k = k0 + 1
      BY <1>a, <2>1, <2>2
    <2>3. CASE k \in 1 .. k0
      BY ZenonT(30), <1>a, <2>1, <2>3 DEF Voted
    <2> QED BY SMTT(30), <1>a, <2>2, <2>3
  <1>3. ASSUME Voted(n, c, w)
        PROVE  Voted(p, c, w)
    <2>1. PICK k \in 1 .. k0 : n.accepts[k] = << c, w >>
      BY SMTT(30), <1>a, <1>3 DEF Voted
    <2>2. k \in DOMAIN p.accepts /\ p.accepts[k] = << c, w >>
      BY SMTT(30), <1>a, <2>1
    <2> QED BY SMTT(30), <2>2 DEF Voted
  <1>4. Voted(p, b, v)
    <2>1. k0 + 1 \in DOMAIN p.accepts
      BY <1>a
    <2> QED BY <1>a, <2>1 DEF Voted
  <1> QED BY <1>2, <1>3, <1>4

(* Time passes, or messages are sent that say nothing of their sender. *)
LEMMA SpeaksKeeps ==
    ASSUME NEW ns, NEW ms, IInv(ns, ms), NEW i \in Server, NEW p \in Node,
           SameAcceptor(ns[i], p), SameProposer(ns[i], p), p.round = ns[i].round,
           \A m \in p.out : m \in ms \/ m.kind \in {"Prepare", "Refusal"}
    PROVE  IInv(Put(ns, i, p), ms \cup p.out)
  <1>0. ns[i] \in Node /\ NodeInv(i, ns[i])
    BY DEF IInv
  <1>1. \A b \in Nat, v \in Val : Voted(p, b, v) <=> Voted(ns[i], b, v)
    BY DEF Voted, SameAcceptor
  <1>2. NodeInv(i, p)
    <2>1. ns[i].accNum \in Nat /\ ns[i].accVal \in Val
      BY <1>0, NodeFields
    <2> QED BY SMTT(30), <1>0, <1>1, <2>1 DEF NodeInv, SameAcceptor, SameProposer
  <1>3. Advances(ns[i], p)
    <2>1. ns[i].promised \in Nat
      BY <1>0, NodeFields
    <2> QED BY <1>1, <2>1 DEF Advances, SameAcceptor
  <1>4. \A b \in Nat, v \in Val : Voted(p, b, v) => Claimed(ns, ms, b, v)
    BY <1>1 DEF Claimed
  <1>5. \A m \in p.out : m \in Message
    BY NodeFields
  <1>6. \A m \in (ms \cup p.out) \ ms : MessageInv(Put(ns, i, p), m) /\ m.kind # "Accept"
    BY <1>5 DEF MessageInv
  <1> QED BY SMTT(30), <1>2, <1>3, <1>4, <1>6, KeepsProposer

(* onPrepare keeps the invariant: a promise tells the truth about the votes. *)
LEMMA PrepareKeeps ==
    ASSUME NEW ns, NEW ms, IInv(ns, ms), NEW i \in Server, NEW m \in ms, m.kind = "Prepare"
    PROVE  IInv(Put(ns, i, OnPrepare(ns[i], i, m)), ms \cup OnPrepare(ns[i], i, m).out)
  <1> DEFINE n == ns[i]
             p == OnPrepare(ns[i], i, m)
  <1>0. n \in Node /\ NodeInv(i, n) /\ ns \in [Server -> Node]
    BY DEF IInv
  <1>1. m.from \in Server /\ m.num \in Nat
    BY DEF IInv, MessageInv, Message
  <1>t. n.promised \in Nat /\ n.accNum \in Nat /\ n.accVal \in Val /\ n.myNum \in Nat
    BY <1>0, NodeFields
  <1>2. CASE CanPromise(n, m.num)
    <2> DEFINE a == PromiseMsg(i, m.from, m.num, n.accNum, n.accVal)
    <2>0. a \in Message
      BY <1>1, <1>t DEF PromiseMsg, Message
    <2>p. p = [Promised(n, m.num) EXCEPT !.out = {a}]
      BY <1>2 DEF OnPrepare
    <2>1. p \in Node
      <3>1. {a} \in SUBSET Message
        BY <2>0
      <3> HIDE DEF a, n, p
      <3> QED BY ZenonT(30), <1>0, <1>1, <2>p, <3>1 DEF Node, Promised
    <2>2. /\ p.promised = m.num /\ p.accNum = n.accNum /\ p.accVal = n.accVal /\ p.accepts = n.accepts
          /\ p.round = n.round /\ SameProposer(n, p) /\ p.out = {a}
      BY <1>0, <2>p, ZenonT(30) DEF Node, Promised, SameProposer
    <2>3. m.num > n.promised
      BY <1>2 DEF CanPromise
    <2>a. a.kind = "Promise" /\ a.from = i /\ a.num = m.num /\ a.accNum = n.accNum /\ a.accVal = n.accVal
      BY DEF PromiseMsg
    <2> HIDE DEF p, n, a
    <2>4. \A b \in Nat, v \in Val : Voted(p, b, v) <=> Voted(n, b, v)
      BY SMTT(30), <2>2 DEF Voted
    <2>5. NodeInv(i, p)
      BY SMTT(30), <1>0, <1>1, <1>t, <2>1, <2>2, <2>3, <2>4 DEF NodeInv, SameProposer
    <2>6. Advances(n, p)
      BY <1>1, <1>t, <2>2, <2>3, <2>4 DEF Advances
    <2>7. Put(ns, i, p)[i] = p
      BY SMTT(30), <1>0, <2>1, PutAt
    <2>8. MessageInv(Put(ns, i, p), a)
      <3>1. p.promised >= a.num /\ a.accNum < a.num
        BY SMTT(30), <1>0, <1>1, <1>t, <2>2, <2>3, <2>a DEF NodeInv
      <3>2. a.accNum > 0 => Voted(p, a.accNum, a.accVal)
        BY SMTT(30), <1>0, <1>t, <2>4, <2>a DEF NodeInv
      <3>3. \A c \in Nat, w \in Val : Voted(p, c, w) /\ c < a.num => c <= a.accNum
        BY <1>0, <1>t, <2>4, <2>a DEF NodeInv
      <3> QED BY SMTT(30), <2>0, <2>7, <2>a, <3>1, <3>2, <3>3 DEF MessageInv
    <2>9. \A b \in Nat, v \in Val : Voted(p, b, v) => Claimed(ns, ms, b, v)
      BY SMTT(30), <2>4 DEF Claimed, n
    <2>10. \A x \in (ms \cup p.out) \ ms : MessageInv(Put(ns, i, p), x) /\ x.kind # "Accept"
      BY SMTT(30), <2>2, <2>8, <2>a
    <2>11. IInv(Put(ns, i, p), ms \cup p.out)
      BY SMTT(30), <2>2, <2>5, <2>6, <2>9, <2>10, KeepsProposer DEF n
    <2> QED BY <2>11 DEF p
  <1>3. CASE ~CanPromise(n, m.num)
    <2> DEFINE a == RefusalMsg(i, m.from, m.num)
    <2>0. a \in Message /\ a.kind = "Refusal"
      BY <1>1 DEF RefusalMsg, Message
    <2>p. p = [n EXCEPT !.out = {a}]
      BY <1>3 DEF OnPrepare
    <2>1. p \in Node
      <3>1. {a} \in SUBSET Message
        BY <2>0
      <3> HIDE DEF a, n, p
      <3> QED BY ZenonT(30), <1>0, <2>p, <3>1 DEF Node
    <2>2. SameAcceptor(n, p) /\ p.round = n.round /\ SameProposer(n, p) /\ p.out = {a}
      BY <1>0, <2>p, ZenonT(30) DEF Node, SameAcceptor, SameProposer
    <2> HIDE DEF p, a
    <2>3. IInv(Put(ns, i, p), ms \cup p.out)
      BY <2>0, <2>1, <2>2, SpeaksKeeps
    <2> QED BY <2>3 DEF p
  <1> QED BY SMTT(30), <1>2, <1>3

(* onAccept keeps the invariant: a node votes only for what was claimed. *)
LEMMA AcceptKeeps ==
    ASSUME NEW ns, NEW ms, IInv(ns, ms), NEW i \in Server, NEW m \in ms, m.kind = "Accept"
    PROVE  IInv(Put(ns, i, OnAccept(ns[i], i, m)), ms \cup OnAccept(ns[i], i, m).out)
  <1> DEFINE n == ns[i]
             p == OnAccept(ns[i], i, m)
  <1>0. n \in Node /\ NodeInv(i, n) /\ ns \in [Server -> Node]
    BY SMTT(30) DEF IInv
  <1>1. m.from \in Server /\ m.num \in Nat /\ m.val \in Val
    BY DEF IInv, MessageInv, Message
  <1>t. n.promised \in Nat /\ n.accNum \in Nat /\ n.accVal \in Val /\ n.myNum \in Nat
    BY <1>0, NodeFields
  <1>2. CASE CanAccept(n, m.num)
    <2> DEFINE a == AcceptedMsg(i, m.from, m.num)
    <2>0. a \in Message
      BY <1>1 DEF AcceptedMsg, Message
    <2>p. p = [Accepting(n, m.num, m.val) EXCEPT !.out = {a}]
      BY <1>2 DEF OnAccept
    <2>1. p \in Node
      <3>1. {a} \in SUBSET Message
        BY <2>0
      <3>2. Append(n.accepts, << m.num, m.val >>) \in Seq(Nat \X Val)
        BY <1>0, <1>1, NodeFields
      <3> HIDE DEF a, n, p
      <3> QED BY ZenonT(30), <1>0, <1>1, <2>p, <3>1, <3>2 DEF Node, Accepting
    <2>2. /\ p.promised = m.num /\ p.accNum = m.num /\ p.accVal = m.val
          /\ p.accepts = Append(n.accepts, << m.num, m.val >>)
          /\ p.round = n.round /\ SameProposer(n, p) /\ p.out = {a}
      BY <1>0, <2>p, ZenonT(30) DEF Node, Accepting, SameProposer
    <2>3. m.num >= n.promised
      BY <1>2 DEF CanAccept
    <2>a. a.kind = "Accepted" /\ a.from = i /\ a.num = m.num
      BY DEF AcceptedMsg
    <2>c. Claimed(ns, ms, m.num, m.val)
      BY DEF Claimed
    <2>d. 0 < m.num
      BY <1>1, <2>c, OwnedPositive DEF IInv, Backed
    <2> HIDE DEF p, n, a
    <2>4. \A b \in Nat, v \in Val : Voted(p, b, v) <=> Voted(n, b, v) \/ (b = m.num /\ v = m.val)
      <3>1. p.accepts = Append(n.accepts, << m.num, m.val >>)
        BY <2>2
      <3> QED BY SMTT(30), <1>0, <1>1, <2>1, <3>1, VotedAppend
    <2>5. NodeInv(i, p)
      <3>1. \A b \in Nat, v \in Val : Voted(p, b, v) => 0 < b /\ b <= p.accNum
        BY SMTT(30), <1>0, <1>1, <1>t, <2>2, <2>3, <2>4, <2>d DEF NodeInv
      <3>2. p.accNum <= p.promised /\ Voted(p, p.accNum, p.accVal)
        BY SMTT(30), <1>1, <2>2, <2>4
      <3> QED BY SMTT(30), <1>0, <2>1, <2>2, <3>1, <3>2 DEF NodeInv, SameProposer
    <2>6. Advances(n, p)
      BY <1>1, <1>t, <2>2, <2>3, <2>4 DEF Advances
    <2>7. Put(ns, i, p)[i] = p
      BY SMTT(30), <1>0, <2>1, PutAt
    <2>8. MessageInv(Put(ns, i, p), a)
      BY <1>1, <2>0, <2>4, <2>7, <2>a DEF MessageInv
    <2>9. \A b \in Nat, v \in Val : Voted(p, b, v) => Claimed(ns, ms, b, v)
      BY <2>4, <2>c DEF Claimed, n
    <2>10. \A x \in (ms \cup p.out) \ ms : MessageInv(Put(ns, i, p), x) /\ x.kind # "Accept"
      BY SMTT(30), <2>2, <2>8, <2>a
    <2>11. IInv(Put(ns, i, p), ms \cup p.out)
      BY SMTT(30), <2>2, <2>5, <2>6, <2>9, <2>10, KeepsProposer DEF n
    <2> QED BY SMTT(30), <2>11 DEF p
  <1>3. CASE ~CanAccept(n, m.num)
    <2> DEFINE a == RefusalMsg(i, m.from, m.num)
    <2>0. a \in Message /\ a.kind = "Refusal"
      BY <1>1 DEF RefusalMsg, Message
    <2>p. p = [n EXCEPT !.out = {a}]
      BY <1>3 DEF OnAccept
    <2>1. p \in Node
      <3>1. {a} \in SUBSET Message
        BY <2>0
      <3> HIDE DEF a, n, p
      <3> QED BY ZenonT(30), <1>0, <2>p, <3>1 DEF Node
    <2>2. SameAcceptor(n, p) /\ p.round = n.round /\ SameProposer(n, p) /\ p.out = {a}
      BY <1>0, <2>p, ZenonT(30) DEF Node, SameAcceptor, SameProposer
    <2> HIDE DEF p, a
    <2>3. IInv(Put(ns, i, p), ms \cup p.out)
      BY SMTT(30), <2>0, <2>1, <2>2, SpeaksKeeps
    <2> QED BY <2>3 DEF p
  <1> QED BY <1>2, <1>3

(* A step that changes the proposer and casts no vote. *)
LEMMA KeepsVotes ==
    ASSUME NEW ns, NEW ms, IInv(ns, ms), NEW i \in Server, NEW p, NodeInv(i, p),
           p.accepts = ns[i].accepts, p.promised >= ns[i].promised, Continues(ns[i], p),
           Prepared(Put(ns, i, p), i), Counted(Put(ns, i, p), i),
           \A m \in p.out : m \in ms \/ m.kind = "Prepare"
    PROVE  IInv(Put(ns, i, p), ms \cup p.out)
  <1> DEFINE ns2 == Put(ns, i, p)
             ms2 == ms \cup p.out
  <1>0. ns \in [Server -> Node] /\ p \in Node
    BY SMTT(30) DEF IInv, NodeInv
  <1>1. ns2[i] = p /\ \A k \in Server : k # i => ns2[k] = ns[k]
    BY SMTT(30), <1>0, PutAt
  <1>2. \A b \in Nat, v \in Val : Voted(p, b, v) <=> Voted(ns[i], b, v)
    BY SMTT(30) DEF Voted
  <1>3. Advances(ns[i], p)
    BY SMTT(30), <1>2 DEF Advances
  <1>4. \A m \in ms2 \ ms : MessageInv(ns2, m) /\ m.kind # "Accept"
    <2>1. \A m \in p.out : m \in Message
      BY SMTT(30), <1>0, NodeFields
    <2> QED BY SMTT(30), <2>1 DEF MessageInv
  <1>5. ASSUME NEW b \in Nat, NEW v \in Val, Claimed(ns2, ms2, b, v)
        PROVE  Claimed(ns, ms, b, v)
    <2>1. CASE \E j \in Server : Voted(ns2[j], b, v)
      <3>1. PICK j \in Server : Voted(ns2[j], b, v)
        BY SMTT(30), <2>1
      <3>2. Voted(ns[j], b, v)
        BY SMTT(30), <1>1, <1>2, <3>1
      <3> QED BY SMTT(30), <3>2 DEF Claimed
    <2>2. CASE \E m \in ms2 : m.kind = "Accept" /\ m.num = b /\ m.val = v
      BY SMTT(30), <1>4, <2>2 DEF Claimed
    <2> QED BY SMTT(30), <1>5, <2>1, <2>2 DEF Claimed
  <1>6. \A b \in Nat, v \in Val : Claimed(ns2, ms2, b, v) =>
            Claimed(ns, ms, b, v) \/ Opens(ns, ms, ns2, b, v)
    BY SMTT(30), <1>5
  <1>7. \A b \in Nat, v, w \in Val :
            /\ Claimed(ns2, ms2, b, v) /\ Opens(ns, ms, ns2, b, v)
            /\ Claimed(ns2, ms2, b, w) /\ Opens(ns, ms, ns2, b, w)
            => v = w
    BY SMTT(30), <1>5 DEF Opens
  <1>8. ms \subseteq ms2 /\ p.out \subseteq ms2
    BY SMTT(30)
  <1> HIDE DEF ns2, ms2
  <1>9. IInv(ns2, ms2)
    BY SMTT(30), <1>3, <1>4, <1>6, <1>7, <1>8, Keeps DEF ns2
  <1> QED BY SMTT(30), <1>9 DEF ns2, ms2

(* onAccepted keeps the invariant: only votes for its own value are counted. *)
LEMMA AcceptedKeeps ==
    ASSUME NEW ns, NEW ms, IInv(ns, ms), NEW i \in Server, NEW m \in ms, m.kind = "Accepted"
    PROVE  IInv(Put(ns, i, OnAccepted(ns[i], m)), ms \cup OnAccepted(ns[i], m).out)
  <1> DEFINE n == ns[i]
             p == OnAccepted(ns[i], m)
  <1>0. n \in Node /\ NodeInv(i, n) /\ ns \in [Server -> Node] /\ n.out \subseteq ms
    BY SMTT(30) DEF IInv
  <1>1. m.from \in Server /\ m.num \in Nat
    BY DEF IInv, MessageInv, Message
  <1>t. n.promised \in Nat /\ n.accNum \in Nat /\ n.accVal \in Val /\ n.myNum \in Nat /\ n.myVal \in Val
        /\ n.acceptors \in SUBSET Server
    BY <1>0, NodeFields
  <1>2. CASE m.num = n.myNum /\ n.phase = "accepting"
    <2> DEFINE ph == IF IsQuorum(n.acceptors \cup {m.from}) THEN "decided" ELSE n.phase
    <2>p. p = [n EXCEPT !.acceptors = n.acceptors \cup {m.from}, !.phase = ph]
      BY <1>2 DEF OnAccepted
    <2>h. ph \in {"accepting", "decided"} /\ (ph = "decided" => IsQuorum(n.acceptors \cup {m.from}))
      BY <1>2
    <2>s. n.acceptors \cup {m.from} \in SUBSET Server /\ ph \in Phase
      BY <1>1, <1>t, <2>h DEF Phase
    <2> HIDE DEF n, p, ph
    <2>1. p \in Node
      BY ZenonT(30), <1>0, <2>p, <2>s DEF Node
    <2>2. /\ SameAcceptor(n, p) /\ p.round = n.round /\ p.myNum = n.myNum /\ p.myVal = n.myVal
          /\ p.acceptors = n.acceptors \cup {m.from} /\ p.phase = ph /\ p.out = n.out
      BY <1>0, <2>p, ZenonT(30) DEF Node, SameAcceptor
    <2>3. NodeInv(i, p)
      <3>1. \A b \in Nat, v \in Val : Voted(p, b, v) <=> Voted(n, b, v)
        BY SMTT(30), <2>2 DEF Voted, SameAcceptor
      <3> QED BY SMTT(30), <1>0, <1>2, <1>t, <2>1, <2>2, <3>1 DEF NodeInv, SameAcceptor
    <2>4. Continues(n, p)
      BY SMTT(30), <1>t, <2>2, <2>h DEF Continues
    <2>5. Voted(ns[m.from], n.myNum, n.myVal)
      <3>1. PICK v \in Val : Voted(ns[m.from], m.num, v)
        BY SMTT(30) DEF IInv, MessageInv
      <3>2. Backed(ns, m.num, v)
        BY SMTT(30), <1>1, <3>1 DEF IInv, Claimed
      <3>3. PICK k \in Server :
               /\ Owns(k, m.num) /\ m.num <= ns[k].myNum
               /\ m.num = ns[k].myNum => ns[k].phase \in {"accepting", "decided"} /\ ns[k].myVal = v
        BY SMTT(30), <3>2 DEF Backed
      <3>4. k = i
        BY SMTT(30), <1>0, <1>1, <1>2, <3>3, OneOwner DEF NodeInv
      <3> QED BY SMTT(30), <1>2, <3>1, <3>3, <3>4 DEF n
    <2>6. \A j \in p.acceptors : Voted(Put(ns, i, p)[j], p.myNum, p.myVal)
      <3>1. \A j \in n.acceptors : Voted(ns[j], n.myNum, n.myVal)
        BY SMTT(30), <1>2 DEF IInv, Counted, n
      <3>2. \A j \in p.acceptors : j \in Server /\ Voted(ns[j], n.myNum, n.myVal)
        BY SMTT(30), <1>1, <1>t, <2>2, <2>5, <3>1
      <3>3. Voted(ns[i], n.myNum, n.myVal) => Voted(p, n.myNum, n.myVal)
        BY <2>2 DEF Voted, SameAcceptor, n
      <3>4. Put(ns, i, p)[i] = p /\ \A k \in Server : k # i => Put(ns, i, p)[k] = ns[k]
        BY <1>0, <2>1, PutAt
      <3> QED BY SMTT(30), <2>2, <3>2, <3>3, <3>4
    <2>7. Put(ns, i, p)[i] = p
      BY SMTT(30), <1>0, <2>1, PutAt
    <2>8. Prepared(Put(ns, i, p), i) /\ Counted(Put(ns, i, p), i)
      BY SMTT(30), <2>2, <2>6, <2>7, <2>h DEF Prepared, Counted
    <2>9. IInv(Put(ns, i, p), ms \cup p.out)
      BY SMTT(30), <1>0, <1>t, <2>2, <2>3, <2>4, <2>8, KeepsVotes DEF n, SameAcceptor
    <2> QED BY <2>9 DEF p
  <1>3. CASE ~(m.num = n.myNum /\ n.phase = "accepting")
    <2>1. p = n /\ Put(ns, i, n) = ns /\ ms \cup n.out = ms
      BY <1>0, <1>3 DEF OnAccepted, Put
    <2> QED BY SMTT(30), <2>1
  <1> QED BY SMTT(30), <1>2, <1>3
=============================================================================
