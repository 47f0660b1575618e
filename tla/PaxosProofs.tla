---------------------------- MODULE PaxosProofs ----------------------------
(***************************************************************************)
(* Agreement of examples/paxos for any number of nodes, any values and any *)
(* network: no two values are chosen, and a proposer that reports Decided  *)
(* has its value chosen.                                                   *)
(*                                                                         *)
(* The invariant IInv of PaxosNodeProofs is kept also by the handlers that *)
(* begin a phase, and by the network.                                      *)
(***************************************************************************)
EXTENDS PaxosNodeProofs, FiniteSetTheorems

(* What node i, preparing, may be told of node j by its promise: that      *)
(* (an, av) is its last vote below the number.                             *)
Truthful(ns, i, j, an, av) ==
    /\ ns[j].promised >= ns[i].myNum /\ an < ns[i].myNum
    /\ an > 0 => Voted(ns[j], an, av)
    /\ \A c \in Nat, w \in Val : Voted(ns[j], c, w) /\ c < ns[i].myNum => c <= an

(* A promise is recorded. *)
LEMMA CollectedKeeps ==
    ASSUME NEW ns, NEW ms, IInv(ns, ms), NEW i \in Server, ns[i].phase = "preparing",
           NEW j \in Server, NEW an \in Nat, NEW av \in Val, Truthful(ns, i, j, an, av)
    PROVE  /\ IInv(Put(ns, i, Collected(ns[i], j, an, av)), ms)
           /\ Collected(ns[i], j, an, av) \in Node
           /\ Collected(ns[i], j, an, av).phase = "preparing"
           /\ Collected(ns[i], j, an, av).promises = ns[i].promises \cup {j}
           /\ Collected(ns[i], j, an, av).out = ns[i].out
  <1> DEFINE n  == ns[i]
             bn == IF an > n.bestNum THEN an ELSE n.bestNum
             bv == IF an > n.bestNum THEN av ELSE n.bestVal
             p  == Collected(ns[i], j, an, av)
  <1>0. n \in Node /\ NodeInv(i, n) /\ ns \in [Server -> Node] /\ n.out \subseteq ms /\ Prepared(ns, i)
    BY ZenonT(30) DEF IInv
  <1>t. n.promised \in Nat /\ n.accNum \in Nat /\ n.accVal \in Val /\ n.myNum \in Nat /\ n.myVal \in Val
        /\ n.promises \in SUBSET Server /\ n.bestNum \in Nat /\ n.bestVal \in Val
    BY SMTT(30), <1>0, NodeFields
  <1>1. bn \in Nat /\ bv \in Val /\ n.promises \cup {j} \in SUBSET Server
    BY SMTT(30), <1>t
  <1>2. bn >= an /\ bn >= n.bestNum /\ ((bn = an /\ bv = av) \/ (bn = n.bestNum /\ bv = n.bestVal))
    BY <1>t
  <1>p. p = [n EXCEPT !.promises = n.promises \cup {j}, !.bestNum = bn, !.bestVal = bv]
    BY DEF Collected
  <1> HIDE DEF n, p, bn, bv
  <1>3. p \in Node
    BY ZenonT(30), <1>0, <1>1, <1>p DEF Node
  <1>4. /\ SameAcceptor(n, p) /\ p.round = n.round /\ p.myNum = n.myNum /\ p.myVal = n.myVal
        /\ p.promises = n.promises \cup {j} /\ p.phase = n.phase /\ p.out = n.out
        /\ p.bestNum = bn /\ p.bestVal = bv
    BY <1>0, <1>p, ZenonT(30) DEF Node, SameAcceptor
  <1>5. n.phase = "preparing" /\ Truthful(ns, i, j, an, av)
    BY DEF n
  <1>6. \A b \in Nat, v \in Val : Voted(p, b, v) <=> Voted(n, b, v)
    BY SMTT(30), <1>4 DEF Voted, SameAcceptor
  <1>7. NodeInv(i, p)
    BY SMTT(30), <1>0, <1>t, <1>3, <1>4, <1>6 DEF NodeInv, SameAcceptor
  <1> DEFINE ns2 == Put(ns, i, p)
  <1>8. ns2[i] = p /\ \A k \in Server : k # i => ns2[k] = ns[k]
    BY SMTT(30), <1>0, <1>3, PutAt
  <1> HIDE DEF ns2
  <1>9. \A k \in Server : /\ ns2[k].promised = ns[k].promised
                          /\ \A b \in Nat, v \in Val : Voted(ns2[k], b, v) <=> Voted(ns[k], b, v)
    BY SMTT(30), <1>4, <1>6, <1>8 DEF SameAcceptor, n
  <1>10. ASSUME NEW k \in p.promises
         PROVE  /\ ns2[k].promised >= n.myNum
                /\ \A c \in Nat, w \in Val : Voted(ns2[k], c, w) /\ c < n.myNum => c <= bn
    <2>1. CASE k = j
      BY SMTT(30), <1>1, <1>2, <1>5, <1>9, <2>1 DEF Truthful, n
    <2>2. CASE k \in n.promises
      <3>1. /\ ns[k].promised >= n.myNum
            /\ \A c \in Nat, w \in Val : Voted(ns[k], c, w) /\ c < n.myNum => c <= n.bestNum
        BY SMTT(30), <1>0, <1>5, <2>2 DEF Prepared, n
      <3>2. k \in Server
        BY SMTT(30), <1>t, <2>2
      <3> QED BY SMTT(30), <1>1, <1>2, <1>t, <1>9, <3>1, <3>2
    <2> QED BY SMTT(30), <1>4, <2>1, <2>2
  <1>11. bn > 0 => bn < n.myNum /\ \E k \in Server : Voted(ns2[k], bn, bv)
    <2>1. CASE bn = an /\ bv = av
      BY SMTT(30), <1>1, <1>5, <1>9, <2>1 DEF Truthful, n
    <2>2. CASE bn = n.bestNum /\ bv = n.bestVal
      BY SMTT(30), <1>0, <1>1, <1>5, <1>9, <2>2 DEF Prepared, n
    <2> QED BY SMTT(30), <1>2, <2>1, <2>2
  <1>12. Prepared(ns2, i) /\ Counted(ns2, i)
    BY SMTT(30), <1>4, <1>5, <1>8, <1>10, <1>11 DEF Prepared, Counted
  <1>13. Continues(n, p)
    BY SMTT(30), <1>t, <1>4, <1>5 DEF Continues
  <1>14. IInv(Put(ns, i, p), ms \cup p.out)
    BY SMTT(30), <1>0, <1>t, <1>4, <1>7, <1>12, <1>13, KeepsVotes DEF n, ns2, SameAcceptor
  <1>15. ms \cup p.out = ms
    BY SMTT(30), <1>0, <1>4
  <1> QED BY ZenonT(30), <1>3, <1>4, <1>5, <1>14, <1>15 DEF p, n

(* Phase two begins with a safe value: that of the highest vote below the  *)
(* number among a quorum, or any value if there is none.                   *)
LEMMA ChosenIsSafe ==
    ASSUME NEW ns, NEW ms, IInv(ns, ms), NEW i \in Server, ns[i].phase = "preparing",
           IsQuorum(ns[i].promises)
    PROVE  Safe(ns, ns[i].myNum, ChosenValue(ns[i]))
  <1> DEFINE n == ns[i]
             v == ChosenValue(n)
  <1>0. n \in Node /\ Prepared(ns, i) /\ \A j \in Server : NodeInv(j, ns[j]) /\ ns[j] \in Node
    BY DEF IInv
  <1>t. n.myNum \in Nat /\ n.promises \in SUBSET Server /\ n.bestNum \in Nat /\ n.bestVal \in Val
    BY SMTT(30), <1>0, NodeFields
  <1>1. SUFFICES ASSUME NEW c \in Nat, c < n.myNum
                 PROVE  \E Q \in SUBSET Server :
                            /\ IsQuorum(Q)
                            /\ \A j \in Q : ns[j].promised > c /\ \A w \in Val : Voted(ns[j], c, w) => w = v
    BY SMTT(30) DEF Safe
  <1>2. \A j \in n.promises :
            /\ j \in Server /\ ns[j].promised >= n.myNum /\ ns[j].promised \in Nat
            /\ \A w \in Val : Voted(ns[j], c, w) => c <= n.bestNum /\ 0 < c
    BY ZenonT(30), <1>0, <1>1, <1>t, NodeFields DEF Prepared, NodeInv
  <1>3. CASE c > n.bestNum \/ n.bestNum = 0
    <2>1. \A j \in n.promises : ns[j].promised > c /\ \A w \in Val : Voted(ns[j], c, w) => w = v
      BY SMTT(30), <1>1, <1>2, <1>3, <1>t
    <2> QED BY SMTT(30), <1>t, <2>1
  <1>4. CASE c <= n.bestNum /\ n.bestNum > 0
    <2>1. v = n.bestVal /\ Claimed(ns, ms, n.bestNum, n.bestVal)
      BY SMTT(30), <1>0, <1>4 DEF ChosenValue, Prepared, Claimed
    <2>2. CASE c = n.bestNum
      <3>1. \A j \in n.promises : ns[j].promised > c /\ \A w \in Val : Voted(ns[j], c, w) => w = v
        <4>1. \A j \in n.promises, w \in Val : Voted(ns[j], c, w) => Claimed(ns, ms, c, w)
          BY SMTT(30), <1>2 DEF Claimed
        <4>2. \A w \in Val : Claimed(ns, ms, c, w) => w = v
          BY SMTT(30), <1>t, <2>1, <2>2 DEF IInv
        <4> QED BY SMTT(30), <1>1, <1>2, <1>t, <4>1, <4>2
      <3> QED BY <1>t, <3>1
    <2>3. CASE c < n.bestNum
      <3>1. Safe(ns, n.bestNum, n.bestVal)
        BY <1>t, <2>1 DEF IInv
      <3> QED BY SMTT(30), <2>1, <2>3, <3>1 DEF Safe
    <2> QED BY SMTT(30), <1>4, <1>t, <2>2, <2>3
  <1> QED BY SMTT(30), <1>3, <1>4, <1>t

(* How startAccepting leaves the node: with or without its own vote. *)
Started(n, i, p) ==
    LET b == n.myNum
        v == ChosenValue(n)
    IN  /\ p \in Node
        /\ p.myNum = b /\ p.myVal = v /\ p.round = n.round /\ p.phase \in {"accepting", "decided"}
        /\ p.phase = "decided" => IsQuorum(p.acceptors)
        /\ p.out \subseteq n.out \cup {AcceptMsg(i, j, b, v) : j \in Server \ {i}}
        /\ n.out \subseteq p.out
        /\ \/ SameAcceptor(n, p) /\ p.acceptors = {}
           \/ /\ b >= n.promised /\ p.promised = b /\ p.accNum = b /\ p.accVal = v
              /\ p.accepts = Append(n.accepts, << b, v >>) /\ p.acceptors = {i}

(* startAccepting, its three ways out taken together. *)
LEMMA StartForm ==
    ASSUME NEW i \in Server, NEW n \in Node
    PROVE  Started(n, i, StartAccepting(n, i))
  <1> DEFINE b == n.myNum
             v == ChosenValue(n)
             A == {AcceptMsg(i, j, b, v) : j \in Server \ {i}}
             p == [n EXCEPT !.myVal = v, !.phase = "accepting"]
             q == StartAccepting(n, i)
             x == Append(n.accepts, << b, v >>)
  <1>t. b \in Nat /\ n.bestVal \in Val /\ n.myVal \in Val /\ n.accepts \in Seq(Nat \X Val)
        /\ n.out \in SUBSET Message
    BY NodeFields
  <1>1. v \in Val
    BY SMTT(30), <1>t DEF ChosenValue
  <1>2. A \in SUBSET Message
    BY <1>t, <1>1 DEF AcceptMsg, Message
  <1>3. x \in Seq(Nat \X Val)
    BY SMTT(30), <1>t, <1>1
  <1>4. n.out \cup A \in SUBSET Message /\ {i} \in SUBSET Server /\ {} \in SUBSET Server
        /\ "accepting" \in Phase /\ "decided" \in Phase
    BY <1>2, <1>t DEF Phase
  <1>5. p.promised = n.promised /\ p.myNum = b /\ p.accepts = n.accepts /\ p.out = n.out
    BY DEF Node
  <1>6. CASE ~CanAccept(p, p.myNum)
    <2>1. q = [n EXCEPT !.myVal = v, !.phase = "accepting", !.acceptors = {}, !.out = n.out \cup A]
      BY <1>5, <1>6 DEF StartAccepting, Node
    <2> HIDE DEF q, v, A, x
    <2>2. q \in Node
      BY ZenonT(30), <1>1, <1>4, <2>1 DEF Node
    <2>3. /\ q.myNum = n.myNum /\ q.myVal = v /\ q.round = n.round /\ q.phase = "accepting"
          /\ q.out = n.out \cup A /\ SameAcceptor(n, q) /\ q.acceptors = {}
      BY SMTT(30), <2>1 DEF Node, SameAcceptor
    <2>4. Started(n, i, q)
      BY <2>2, <2>3 DEF Started, A, v
    <2> QED BY <2>4 DEF q
  <1>7. CASE CanAccept(p, p.myNum)
    <2>0. b >= n.promised
      BY <1>5, <1>7 DEF CanAccept
    <2>1. CASE IsQuorum({i})
      <3>1. q = [n EXCEPT !.myVal = v, !.phase = "decided", !.promised = b, !.accNum = b, !.accVal = v,
                          !.accepts = x, !.acceptors = {i}]
        BY ZenonT(30), <1>5, <1>7, <2>1 DEF StartAccepting, Accepting, Node
      <3> HIDE DEF q, v, A, x
      <3>2. q \in Node
        BY ZenonT(30), <1>1, <1>3, <1>4, <1>t, <3>1 DEF Node
      <3>3. /\ q.myNum = n.myNum /\ q.myVal = v /\ q.round = n.round /\ q.phase = "decided"
            /\ q.out = n.out /\ q.acceptors = {i} /\ q.promised = b /\ q.accNum = b /\ q.accVal = v
            /\ q.accepts = x
        BY SMTT(30), <3>1 DEF Node
      <3>4. Started(n, i, q)
        BY <2>0, <2>1, <3>2, <3>3 DEF Started, x, v
      <3> QED BY <3>4 DEF q
    <2>2. CASE ~IsQuorum({i})
      <3>1. q = [n EXCEPT !.myVal = v, !.phase = "accepting", !.promised = b, !.accNum = b, !.accVal = v,
                          !.accepts = x, !.acceptors = {i}, !.out = n.out \cup A]
        BY <1>5, <1>7, <2>2 DEF StartAccepting, Accepting, Node
      <3> HIDE DEF q, v, A, x
      <3>2. q \in Node
        BY ZenonT(30), <1>1, <1>3, <1>4, <1>t, <3>1 DEF Node
      <3>3. /\ q.myNum = n.myNum /\ q.myVal = v /\ q.round = n.round /\ q.phase = "accepting"
            /\ q.out = n.out \cup A /\ q.acceptors = {i} /\ q.promised = b /\ q.accNum = b /\ q.accVal = v
            /\ q.accepts = x
        BY SMTT(30), <3>1 DEF Node
      <3>4. Started(n, i, q)
        BY <2>0, <3>2, <3>3 DEF Started, x, v, A
      <3> QED BY <3>4 DEF q
    <2> QED BY <2>1, <2>2
  <1> QED BY <1>6, <1>7

(* startAccepting keeps the invariant: it claims a safe value, and first. *)
LEMMA StartKeeps ==
    ASSUME NEW ns, NEW ms, IInv(ns, ms), NEW i \in Server, ns[i].phase = "preparing",
           IsQuorum(ns[i].promises), NEW p, Started(ns[i], i, p)
    PROVE  IInv(Put(ns, i, p), ms \cup p.out)
  <1> DEFINE n == ns[i]
             b == n.myNum
             v == ChosenValue(n)
             ns2 == Put(ns, i, p)
             ms2 == ms \cup p.out
  <1>0. n \in Node /\ NodeInv(i, n) /\ ns \in [Server -> Node] /\ n.out \subseteq ms /\ p \in Node
    BY ZenonT(30) DEF IInv, Started
  <1>t. n.promised \in Nat /\ n.accNum \in Nat /\ n.accVal \in Val /\ b \in Nat /\ n.myVal \in Val
        /\ n.bestVal \in Val
    BY SMTT(30), <1>0, NodeFields
  <1>v. v \in Val
    BY SMTT(30), <1>t DEF ChosenValue
  <1>s. Safe(ns, b, v)
    BY SMTT(30), ChosenIsSafe
  <1>o. Owns(i, b) /\ 0 < b
    BY SMTT(30), <1>0, <1>t, OwnedPositive DEF NodeInv
  <1>n. \A w \in Val : ~Claimed(ns, ms, b, w)
    <2> SUFFICES ASSUME NEW w \in Val, Claimed(ns, ms, b, w)
                 PROVE  FALSE
      BY SMTT(30)
    <2>1. Backed(ns, b, w)
      BY SMTT(30), <1>t DEF IInv
    <2>2. PICK k \in Server :
             /\ Owns(k, b) /\ b <= ns[k].myNum
             /\ b = ns[k].myNum => ns[k].phase \in {"accepting", "decided"} /\ ns[k].myVal = w
      BY SMTT(30), <2>1 DEF Backed
    <2>3. k = i
      BY SMTT(30), <1>o, <1>t, <2>2, OneOwner
    <2> QED BY SMTT(30), <2>2, <2>3
  <1>f. /\ p.myNum = b /\ p.myVal = v /\ p.round = n.round /\ p.phase \in {"accepting", "decided"}
        /\ p.phase = "decided" => IsQuorum(p.acceptors)
        /\ p.out \subseteq n.out \cup {AcceptMsg(i, j, b, v) : j \in Server \ {i}}
    BY SMTT(30) DEF Started
  <1>g. \/ SameAcceptor(n, p) /\ p.acceptors = {}
        \/ /\ b >= n.promised /\ p.promised = b /\ p.accNum = b /\ p.accVal = v
           /\ p.accepts = Append(n.accepts, << b, v >>) /\ p.acceptors = {i}
    BY SMTT(30) DEF Started
  <1>m. \A m \in p.out : m \in ms \/ (m \in Message /\ m.kind = "Accept" /\ m.num = b /\ m.val = v)
    <2>1. \A m \in p.out : m \in Message
      BY <1>0, NodeFields
    <2> QED BY SMTT(30), <1>0, <1>f, <2>1 DEF AcceptMsg
  <1>c. n.phase = "preparing"
    BY SMTT(30)
  <1>8. ns2[i] = p /\ \A k \in Server : k # i => ns2[k] = ns[k]
    BY SMTT(30), <1>0, PutAt
  <1> HIDE DEF n, b, v, ns2, ms2
  <1>1. /\ \A c \in Nat, w \in Val : Voted(n, c, w) => Voted(p, c, w)
        /\ \A c \in Nat, w \in Val : Voted(p, c, w) => Voted(n, c, w) \/ (c = b /\ w = v /\ b >= n.promised)
        /\ \A j \in p.acceptors : j = i /\ Voted(p, b, v)
    <2>1. CASE SameAcceptor(n, p) /\ p.acceptors = {}
      BY SMTT(30), <2>1 DEF SameAcceptor, Voted
    <2>2. CASE /\ b >= n.promised /\ p.promised = b /\ p.accNum = b /\ p.accVal = v
               /\ p.accepts = Append(n.accepts, << b, v >>) /\ p.acceptors = {i}
      <3>1. \A c \in Nat, w \in Val : Voted(p, c, w) <=> Voted(n, c, w) \/ (c = b /\ w = v)
        BY SMTT(30), <1>0, <1>t, <1>v, <2>2, VotedAppend
      <3> QED BY SMTT(30), <1>t, <1>v, <2>2, <3>1
    <2> QED BY SMTT(30), <1>g, <2>1, <2>2
  <1>2. NodeInv(i, p)
    <2>1. CASE SameAcceptor(n, p)
      BY SMTT(30), <1>0, <1>1, <1>c, <1>f, <1>o, <1>t, <2>1 DEF NodeInv, SameAcceptor, b, Voted
    <2>2. CASE /\ b >= n.promised /\ p.promised = b /\ p.accNum = b /\ p.accVal = v
               /\ p.accepts = Append(n.accepts, << b, v >>) /\ p.acceptors = {i}
      <3>1. Voted(p, b, v)
        BY SMTT(30), <1>1, <2>2
      <3>2. \A c \in Nat, w \in Val : Voted(p, c, w) => 0 < c /\ c <= b
        BY SMTT(30), <1>0, <1>1, <1>o, <1>t, <2>2 DEF NodeInv
      <3>3. p.myNum <= p.round * N + i
        BY SMTT(30), <1>0, <1>f DEF NodeInv, b
      <3> QED BY SMTT(30), <1>0, <1>f, <1>o, <1>t, <2>2, <3>1, <3>2, <3>3 DEF NodeInv
    <2> QED BY SMTT(30), <1>g, <2>1, <2>2
  <1>3. Advances(n, p)
    <2>1. p.promised >= n.promised
      BY SMTT(30), <1>g, <1>t DEF SameAcceptor
    <2> QED BY SMTT(30), <1>1, <2>1 DEF Advances
  <1>4. Continues(n, p)
    BY SMTT(30), <1>c, <1>f, <1>t DEF Continues, b
  <1>5. Prepared(ns2, i) /\ Counted(ns2, i)
    BY SMTT(30), <1>1, <1>8, <1>f DEF Prepared, Counted
  <1>6. \A m \in ms2 \ ms : MessageInv(ns2, m)
    BY SMTT(30), <1>m DEF MessageInv, ms2
  <1>7. \A c \in Nat, w \in Val : Claimed(ns2, ms2, c, w) => Claimed(ns, ms, c, w) \/ (c = b /\ w = v)
    <2> SUFFICES ASSUME NEW c \in Nat, NEW w \in Val, Claimed(ns2, ms2, c, w)
                 PROVE  Claimed(ns, ms, c, w) \/ (c = b /\ w = v)
      BY SMTT(30)
    <2>1. CASE \E j \in Server : Voted(ns2[j], c, w)
      <3>1. PICK j \in Server : Voted(ns2[j], c, w)
        BY SMTT(30), <2>1
      <3>2. Voted(ns[j], c, w) \/ (c = b /\ w = v)
        BY SMTT(30), <1>1, <1>8, <3>1 DEF n
      <3> QED BY SMTT(30), <3>2 DEF Claimed
    <2>2. CASE \E m \in ms2 : m.kind = "Accept" /\ m.num = c /\ m.val = w
      BY SMTT(30), <1>m, <2>2 DEF Claimed, ms2
    <2> QED BY SMTT(30), <2>1, <2>2 DEF Claimed
  <1>9. Opens(ns, ms, ns2, b, v)
    <2>1. Safe(ns2, b, v)
      BY SMTT(30), <1>0, <1>3, <1>s, <1>t, <1>v, SafeKept DEF n, ns2
    <2>2. Backed(ns2, b, v)
      BY SMTT(30), <1>8, <1>f, <1>o, <1>t DEF Backed
    <2> QED BY SMTT(30), <1>n, <2>1, <2>2 DEF Opens
  <1>10. \A c \in Nat, w \in Val : Claimed(ns2, ms2, c, w) => Claimed(ns, ms, c, w) \/ Opens(ns, ms, ns2, c, w)
    BY SMTT(30), <1>7, <1>9
  <1>11. \A c \in Nat, u, w \in Val :
            /\ Claimed(ns2, ms2, c, u) /\ Opens(ns, ms, ns2, c, u)
            /\ Claimed(ns2, ms2, c, w) /\ Opens(ns, ms, ns2, c, w)
            => u = w
    BY <1>7 DEF Opens
  <1>12. ms \subseteq ms2 /\ p.out \subseteq ms2
    BY SMTT(30) DEF ms2
  <1>13. IInv(ns2, ms2)
    BY ZenonT(30), <1>2, <1>3, <1>4, <1>5, <1>6, <1>10, <1>11, <1>12, Keeps DEF n, ns2
  <1> QED BY <1>13 DEF ns2, ms2

(* recordPromise, which begins phase two at a quorum. *)
LEMMA RecordKeeps ==
    ASSUME NEW ns, NEW ms, IInv(ns, ms), NEW i \in Server, ns[i].phase = "preparing",
           NEW j \in Server, NEW an \in Nat, NEW av \in Val, Truthful(ns, i, j, an, av)
    PROVE  LET p == RecordPromise(ns[i], i, j, an, av)
           IN  IInv(Put(ns, i, p), ms \cup p.out)
  <1> DEFINE q   == Collected(ns[i], j, an, av)
             ns1 == Put(ns, i, q)
             p   == RecordPromise(ns[i], i, j, an, av)
  <1>0. ns \in [Server -> Node] /\ ns[i].out \subseteq ms
    BY SMTT(30) DEF IInv
  <1>1. IInv(ns1, ms) /\ q \in Node /\ q.phase = "preparing" /\ q.promises = ns[i].promises \cup {j}
        /\ q.out = ns[i].out
    BY SMTT(30), CollectedKeeps
  <1>2. ns1[i] = q
    BY SMTT(30), <1>0, <1>1, PutAt
  <1>3. CASE IsQuorum(ns[i].promises \cup {j})
    <2>1. p = StartAccepting(q, i)
      BY SMTT(30), <1>3 DEF RecordPromise
    <2> HIDE DEF q
    <2>2. Started(ns1[i], i, p)
      BY SMTT(30), <1>1, <1>2, <2>1, StartForm
    <2>3. Put(ns1, i, p) = Put(ns, i, p)
      BY ZenonT(30), <1>0 DEF Put
    <2> HIDE DEF ns1, p
    <2>4. IInv(Put(ns1, i, p), ms \cup p.out)
      BY ZenonT(30), <1>1, <1>2, <1>3, <2>2, StartKeeps
    <2>5. IInv(Put(ns, i, p), ms \cup p.out)
      BY SMTT(30), <2>3, <2>4
    <2> QED BY SMTT(30), <2>5 DEF p
  <1>4. CASE ~IsQuorum(ns[i].promises \cup {j})
    <2>1. p = q
      BY <1>4 DEF RecordPromise
    <2>2. ms \cup q.out = ms
      BY SMTT(30), <1>0, <1>1
    <2> QED BY SMTT(30), <1>1, <2>1, <2>2
  <1> QED BY ZenonT(30), <1>3, <1>4

(* onPromise keeps the invariant, also for late and repeated promises. *)
LEMMA PromiseKeeps ==
    ASSUME NEW ns, NEW ms, IInv(ns, ms), NEW i \in Server, NEW m \in ms, m.kind = "Promise"
    PROVE  IInv(Put(ns, i, OnPromise(ns[i], i, m)), ms \cup OnPromise(ns[i], i, m).out)
  <1>0. ns \in [Server -> Node] /\ ns[i].out \subseteq ms
    BY SMTT(30) DEF IInv
  <1>1. m.from \in Server /\ m.num \in Nat /\ m.accNum \in Nat /\ m.accVal \in Val
    BY SMTT(30) DEF IInv, MessageInv, Message
  <1>2. CASE m.num = ns[i].myNum /\ ns[i].phase = "preparing"
    <2>1. Truthful(ns, i, m.from, m.accNum, m.accVal)
      BY SMTT(30), <1>2 DEF IInv, MessageInv, Truthful
    <2>2. OnPromise(ns[i], i, m) = RecordPromise(ns[i], i, m.from, m.accNum, m.accVal)
      BY SMTT(30), <1>2 DEF OnPromise
    <2> QED BY ZenonT(30), <1>1, <1>2, <2>1, <2>2, RecordKeeps
  <1>3. CASE ~(m.num = ns[i].myNum /\ ns[i].phase = "preparing")
    <2>1. OnPromise(ns[i], i, m) = ns[i] /\ Put(ns, i, ns[i]) = ns /\ ms \cup ns[i].out = ms
      BY SMTT(30), <1>0, <1>3 DEF OnPromise, Put
    <2> QED BY SMTT(30), <2>1
  <1> QED BY SMTT(30), <1>2, <1>3

(* A new round, with or without the node's own promise. *)
LEMMA RoundKeeps ==
    ASSUME NEW ns, NEW ms, IInv(ns, ms), NEW i \in Server, NEW p \in Node,
           p.round > ns[i].round, p.myNum = p.round * N + i, p.phase = "preparing",
           p.promises = {}, p.bestNum = 0,
           p.accepts = ns[i].accepts, p.accNum = ns[i].accNum, p.accVal = ns[i].accVal,
           p.promised >= ns[i].promised,
           p.out = {PrepareMsg(i, j, p.myNum) : j \in Server \ {i}}
    PROVE  IInv(Put(ns, i, p), ms \cup p.out)
  <1> DEFINE n == ns[i]
  <1>0. n \in Node /\ NodeInv(i, n) /\ ns \in [Server -> Node]
    BY SMTT(30) DEF IInv
  <1>t. n.promised \in Nat /\ n.accNum \in Nat /\ n.accVal \in Val /\ n.myNum \in Nat /\ n.round \in Nat
        /\ p.promised \in Nat /\ p.round \in Nat /\ p.myNum \in Nat
    BY SMTT(30), <1>0, NodeFields
  <1>1. p.myNum > n.myNum
    <2>1. n.round * N + N <= p.round * N
      BY SMTT(30), <1>t, Scaled
    <2>2. n.myNum <= n.round * N + i
      BY SMTT(30), <1>0 DEF NodeInv
    <2>3. N \in Nat /\ N > 0 /\ i \in Nat /\ n.round * N \in Nat /\ p.round * N \in Nat
      BY SMTT(30), <1>t, SizeAssumption DEF Server
    <2> HIDE DEF n
    <2> QED BY SMTT(30), <1>t, <2>1, <2>2, <2>3
  <1>2. NodeInv(i, p)
    <2>1. \A b \in Nat, v \in Val : Voted(p, b, v) <=> Voted(n, b, v)
      BY SMTT(30) DEF Voted
    <2>2. Owns(i, p.myNum)
      BY SMTT(30), <1>t DEF Owns
    <2>3. p.myNum <= p.round * N + i
      BY SMTT(30), <1>t
    <2>4. p.accNum <= p.promised
      BY SMTT(30), <1>0, <1>t DEF NodeInv
    <2>5. /\ p.accNum > 0 => Voted(p, p.accNum, p.accVal)
          /\ \A b \in Nat, v \in Val : Voted(p, b, v) => 0 < b /\ b <= p.accNum
      BY SMTT(30), <1>0, <1>t, <2>1 DEF NodeInv
    <2> QED BY SMTT(30), <2>2, <2>3, <2>4, <2>5 DEF NodeInv
  <1>3. Continues(n, p)
    BY SMTT(30), <1>1, <1>t DEF Continues
  <1>4. Put(ns, i, p)[i] = p
    BY SMTT(30), <1>0, PutAt
  <1>5. Prepared(Put(ns, i, p), i) /\ Counted(Put(ns, i, p), i)
    BY SMTT(30), <1>4 DEF Prepared, Counted
  <1>6. \A m \in p.out : m.kind = "Prepare"
    BY SMTT(30) DEF PrepareMsg
  <1> QED BY SMTT(30), <1>2, <1>3, <1>5, <1>6, KeepsVotes

(* Propose keeps the invariant, for a client and after a timeout. *)
LEMMA ProposeKeeps ==
    ASSUME NEW ns, NEW ms, IInv(ns, ms), NEW i \in Server, NEW v \in Val
    PROVE  IInv(Put(ns, i, Propose(ns[i], i, v)), ms \cup Propose(ns[i], i, v).out)
  <1> DEFINE n == ns[i]
             r == NextRound(n)
             b == r * N + i
             A == {PrepareMsg(i, j, b) : j \in Server \ {i}}
             p == [n EXCEPT !.round = r, !.myNum = b, !.myVal = v, !.phase = "preparing",
                            !.elapsed = 0, !.promises = {}, !.acceptors = {},
                            !.bestNum = 0, !.bestVal = NoValue, !.out = A]
             q == Promised(p, b)
             ns1 == Put(ns, i, q)
  <1>0. n \in Node /\ NodeInv(i, n) /\ ns \in [Server -> Node]
    BY SMTT(30) DEF IInv
  <1>t. n.promised \in Nat /\ n.accNum \in Nat /\ n.accVal \in Val /\ n.round \in Nat
    BY SMTT(30), <1>0, NodeFields
  <1>1. r \in Nat /\ r > n.round
    BY <1>t, SizeAssumption DEF NextRound
  <1>2. b \in Nat
    BY SMTT(30), <1>1, SizeAssumption DEF Server
  <1>3. A \in SUBSET Message
    BY <1>2 DEF PrepareMsg, Message
  <1>4. {} \in SUBSET Server /\ "preparing" \in Phase /\ NoValue \in Val /\ 0 \in Nat
    BY DEF Phase, Val
  <1>p. Propose(ns[i], i, v) = IF CanPromise(p, b) THEN RecordPromise(q, i, i, n.accNum, n.accVal) ELSE p
    BY DEF Propose
  <1> HIDE DEF n, r, b, A
  <1>5. p \in Node
    BY ZenonT(30), <1>0, <1>1, <1>2, <1>3, <1>4 DEF Node
  <1>6. /\ p.round = r /\ p.myNum = b /\ p.phase = "preparing" /\ p.promises = {} /\ p.bestNum = 0
        /\ SameAcceptor(n, p) /\ p.out = A
    BY SMTT(30), <1>0 DEF Node, SameAcceptor
  <1> HIDE DEF p
  <1>7. CASE ~CanPromise(p, b)
    <2>1. IInv(Put(ns, i, p), ms \cup p.out)
      BY SMTT(30), <1>1, <1>5, <1>6, <1>t, RoundKeeps DEF SameAcceptor, A, b, n
    <2> QED BY SMTT(30), <1>7, <1>p, <2>1
  <1>8. CASE CanPromise(p, b)
    <2>0. b > n.promised
      BY <1>6, <1>8 DEF CanPromise, SameAcceptor
    <2>1. q \in Node
      BY ZenonT(30), <1>2, <1>5 DEF Promised, Node
    <2>2. /\ q.round = r /\ q.myNum = b /\ q.phase = "preparing" /\ q.promises = {} /\ q.bestNum = 0
          /\ q.accNum = n.accNum /\ q.accVal = n.accVal /\ q.accepts = n.accepts
          /\ q.promised = b /\ q.out = A
      BY SMTT(30), <1>5, <1>6 DEF Promised, Node, SameAcceptor
    <2> HIDE DEF q
    <2>3. IInv(ns1, ms \cup q.out)
      BY SMTT(30), <1>1, <1>2, <1>t, <2>0, <2>1, <2>2, RoundKeeps DEF A, b, n
    <2>4. ns1[i] = q
      BY SMTT(30), <1>0, <2>1, PutAt
    <2>5. Truthful(ns1, i, i, n.accNum, n.accVal)
      <3>1. \A c \in Nat, w \in Val : Voted(q, c, w) <=> Voted(n, c, w)
        BY <2>2 DEF Voted
      <3>2. n.accNum < b
        BY <1>0, <1>2, <1>t, <2>0 DEF NodeInv
      <3>3. n.accNum > 0 => Voted(q, n.accNum, n.accVal)
        BY <1>0, <1>t, <3>1 DEF NodeInv
      <3>4. \A c \in Nat, w \in Val : Voted(q, c, w) => c <= n.accNum
        BY SMTT(30), <1>0, <3>1 DEF NodeInv
      <3> HIDE DEF ns1
      <3> QED BY SMTT(30), <1>2, <2>2, <2>4, <3>2, <3>3, <3>4 DEF Truthful
    <2> DEFINE x == RecordPromise(q, i, i, n.accNum, n.accVal)
    <2>6. IInv(Put(ns1, i, x), (ms \cup q.out) \cup x.out)
      <3> HIDE DEF ns1
      <3> QED BY ZenonT(30), <1>t, <2>2, <2>3, <2>4, <2>5, RecordKeeps
    <2>7. Put(ns1, i, x) = Put(ns, i, x)
      BY ZenonT(30), <1>0 DEF Put
    <2>8. q.out \subseteq x.out
      <3> DEFINE y == Collected(q, i, n.accNum, n.accVal)
      <3>1. y \in Node /\ y.out = q.out
        <4>1. ns1[i].phase = "preparing"
          BY SMTT(30), <2>2, <2>4
        <4> HIDE DEF ns1
        <4> QED BY SMTT(30), <1>t, <2>3, <2>4, <2>5, <4>1, CollectedKeeps
      <3>2. CASE IsQuorum(q.promises \cup {i})
        <4>1. x = StartAccepting(y, i)
          BY <3>2 DEF RecordPromise
        <4> HIDE DEF x, y
        <4>2. Started(y, i, x)
          BY SMTT(30), <3>1, <4>1, StartForm
        <4> QED BY SMTT(30), <3>1, <4>2 DEF Started
      <3>3. CASE ~IsQuorum(q.promises \cup {i})
        BY SMTT(30), <3>1, <3>3 DEF RecordPromise
      <3> QED BY SMTT(30), <3>2, <3>3
    <2>9. (ms \cup q.out) \cup x.out = ms \cup x.out
      BY SMTT(30), <2>8
    <2> QED BY ZenonT(30), <1>8, <1>p, <2>6, <2>7, <2>9
  <1> QED BY SMTT(30), <1>7, <1>8

(* Any message that was sent, handed to any node, whenever and however     *)
(* often.                                                                  *)
LEMMA StepKeeps ==
    ASSUME NEW ns, NEW ms, IInv(ns, ms), NEW i \in Server, NEW m \in ms
    PROVE  IInv(Put(ns, i, Step(ns[i], i, m)), ms \cup Step(ns[i], i, m).out)
  <1>1. m.kind \in {"Prepare", "Promise", "Accept", "Accepted", "Refusal"}
    BY SMTT(30) DEF IInv, MessageInv, Message
  <1>2. CASE m.kind = "Prepare"
    <2>1. Step(ns[i], i, m) = OnPrepare(ns[i], i, m)
      BY SMTT(30), <1>2 DEF Step
    <2> QED BY <1>2, <2>1, PrepareKeeps
  <1>3. CASE m.kind = "Promise"
    <2>1. Step(ns[i], i, m) = OnPromise(ns[i], i, m)
      BY SMTT(30), <1>3 DEF Step
    <2> QED BY <1>3, <2>1, PromiseKeeps
  <1>4. CASE m.kind = "Accept"
    <2>1. Step(ns[i], i, m) = OnAccept(ns[i], i, m)
      BY <1>4 DEF Step
    <2> QED BY <1>4, <2>1, AcceptKeeps
  <1>5. CASE m.kind = "Accepted"
    <2>1. Step(ns[i], i, m) = OnAccepted(ns[i], m)
      BY <1>5 DEF Step
    <2> QED BY <1>5, <2>1, AcceptedKeeps
  <1>6. CASE m.kind = "Refusal"
    <2>1. Step(ns[i], i, m) = ns[i]
      BY SMTT(30), <1>6 DEF Step
    <2>2. Put(ns, i, ns[i]) = ns /\ ms \cup ns[i].out = ms
      BY SMTT(30) DEF IInv, Put
    <2> QED BY <2>1, <2>2
  <1> QED BY SMTT(30), <1>1, <1>2, <1>3, <1>4, <1>5, <1>6

-----------------------------------------------------------------------------
(* The network. *)

(* A call that keeps the invariant still does when its buffer is drained. *)
LEMMA RunsKeeps ==
    ASSUME NEW i \in Server, NEW p, nodes \in [Server -> Node],
           IInv(Put(nodes, i, p), sent \cup p.out), Runs(i, p)
    PROVE  IInv(nodes', sent')
  <1> DEFINE ns == Put(nodes, i, p)
             q  == [p EXCEPT !.out = {}]
  <1>1. ns[i] = p
    BY SMTT(30) DEF Put
  <1>2. p \in Node
    BY ZenonT(30), <1>1 DEF IInv
  <1>3. q \in Node
    BY ZenonT(30), <1>2 DEF Node
  <1>4. SameAcceptor(p, q) /\ SameProposer(p, q) /\ q.round = p.round /\ q.out = {}
    BY <1>2 DEF SameAcceptor, SameProposer, Node
  <1>5. nodes' = Put(ns, i, q) /\ sent' = (sent \cup p.out) \cup {}
    BY ZenonT(30) DEF Runs, Put
  <1> HIDE DEF ns, q
  <1>6. IInv(Put(ns, i, q), (sent \cup p.out) \cup q.out)
    <2>1. IInv(ns, sent \cup p.out)
      BY SMTT(30) DEF ns
    <2> QED BY SMTT(30), <1>1, <1>3, <1>4, <2>1, SpeaksKeeps
  <1> QED BY SMTT(30), <1>4, <1>5, <1>6

(* A new cluster satisfies the invariant. *)
LEMMA InitEstablishes == NetInit => IInv(nodes, sent)
  <1> SUFFICES ASSUME NetInit PROVE IInv(nodes, sent)
    BY SMTT(30)
  <1>1. NewNode \in Node
    <2>1. << >> \in Seq(Nat \X Val) /\ NoValue \in Val /\ {} \in SUBSET Server /\ {} \in SUBSET Message
          /\ "idle" \in Phase /\ 0 \in Nat
      BY SMTT(30) DEF Val, Phase
    <2> QED BY <2>1 DEF NewNode, Node
  <1>2. /\ NewNode.promised = 0 /\ NewNode.accNum = 0 /\ NewNode.accepts = << >> /\ NewNode.phase = "idle"
        /\ NewNode.round = 0 /\ NewNode.myNum = 0 /\ NewNode.out = {}
    BY DEF NewNode
  <1>3. nodes = [i \in Server |-> NewNode] /\ sent = {}
    BY DEF NetInit
  <1> HIDE DEF NewNode
  <1>4. \A b, v : ~Voted(NewNode, b, v)
    BY <1>2 DEF Voted
  <1>5. \A i \in Server : NodeInv(i, nodes[i]) /\ nodes[i].out \subseteq sent
    BY SMTT(30), <1>1, <1>2, <1>3, <1>4, SizeAssumption DEF NodeInv, Server
  <1>6. \A i \in Server : Prepared(nodes, i) /\ Counted(nodes, i)
    BY <1>2, <1>3 DEF Prepared, Counted
  <1>7. \A b, v : ~Claimed(nodes, sent, b, v)
    BY <1>3, <1>4 DEF Claimed
  <1> QED BY <1>1, <1>3, <1>5, <1>6, <1>7 DEF IInv

(* Every step of the network preserves the invariant. *)
LEMMA NextPreserves == IInv(nodes, sent) /\ [NetNext]_netVars => IInv(nodes, sent)'
  <1> SUFFICES ASSUME IInv(nodes, sent), [NetNext]_netVars PROVE IInv(nodes', sent')
    BY SMTT(30)
  <1>0. nodes \in [Server -> Node]
    BY SMTT(30) DEF IInv
  <1>1. ASSUME NEW i \in Server, NetPropose(i)
        PROVE  IInv(nodes', sent')
    <2>1. PICK v \in Value : Runs(i, Propose(nodes[i], i, v))
      BY <1>1 DEF NetPropose
    <2>2. v \in Val
      BY DEF Val
    <2>3. IInv(Put(nodes, i, Propose(nodes[i], i, v)), sent \cup Propose(nodes[i], i, v).out)
      BY SMTT(30), <2>2, ProposeKeeps
    <2> QED BY <1>0, <2>1, <2>3, RunsKeeps
  <1>2. ASSUME NEW i \in Server, NetDeliver(i)
        PROVE  IInv(nodes', sent')
    <2>1. PICK m \in sent : Runs(i, Step(nodes[i], i, m))
      BY SMTT(30), <1>2 DEF NetDeliver
    <2>2. IInv(Put(nodes, i, Step(nodes[i], i, m)), sent \cup Step(nodes[i], i, m).out)
      BY ZenonT(30), StepKeeps
    <2> QED BY <1>0, <2>1, <2>2, RunsKeeps
  <1>3. ASSUME NEW i \in Server, NetWait(i)
        PROVE  IInv(nodes', sent')
    <2> DEFINE n == nodes[i]
               p == [nodes[i] EXCEPT !.elapsed = @ + 1]
    <2>t. n \in Node /\ n.elapsed \in Nat /\ n.myVal \in Val /\ n.out \subseteq sent
      BY <1>0, NodeFields DEF IInv
    <2>1. CASE Runs(i, p)
      <3>1. p \in Node /\ SameAcceptor(n, p) /\ SameProposer(n, p) /\ p.round = n.round /\ p.out = n.out
        <4> DEFINE e == n.elapsed + 1
        <4>1. p = [n EXCEPT !.elapsed = e] /\ e \in Nat
          BY <2>t
        <4> HIDE DEF n, p, e
        <4>2. p \in Node
          BY ZenonT(30), <2>t, <4>1 DEF Node
        <4>3. SameAcceptor(n, p) /\ SameProposer(n, p) /\ p.round = n.round /\ p.out = n.out
          BY SMTT(30), <2>t, <4>1 DEF Node, SameAcceptor, SameProposer
        <4> QED BY <4>2, <4>3
      <3> HIDE DEF p
      <3>2. IInv(Put(nodes, i, p), sent \cup p.out)
        BY SMTT(30), <2>t, <3>1, SpeaksKeeps
      <3> QED BY SMTT(30), <1>0, <2>1, <3>2, RunsKeeps
    <2>2. CASE Runs(i, Propose(n, i, n.myVal))
      <3>1. IInv(Put(nodes, i, Propose(n, i, n.myVal)), sent \cup Propose(n, i, n.myVal).out)
        BY <2>t, ProposeKeeps
      <3> QED BY SMTT(30), <1>0, <2>2, <3>1, RunsKeeps
    <2> QED BY SMTT(30), <1>3, <2>1, <2>2 DEF NetWait
  <1>4. CASE UNCHANGED netVars
    BY <1>4 DEF netVars
  <1> QED BY <1>1, <1>2, <1>3, <1>4 DEF NetNext

(* Any two quorums have a node in common. *)
LEMMA Quorums ==
    ASSUME NEW Q \in SUBSET Server, NEW R \in SUBSET Server, IsQuorum(Q), IsQuorum(R)
    PROVE  \E j \in Server : j \in Q /\ j \in R
  <1>1. IsFiniteSet(Server) /\ Cardinality(Server) = N
    BY SMTT(30), FS_Interval, SizeAssumption DEF Server
  <1> QED BY SMTT(30), <1>1, FS_MajoritiesIntersect, FS_CardinalityType, FS_Subset DEF IsQuorum

-----------------------------------------------------------------------------
(* What a quorum has accepted is the value of every later claim. *)
LEMMA ChosenIsUnique == IInv(nodes, sent) => SingleChoice
  <1> SUFFICES ASSUME IInv(nodes, sent), NEW p \in Proposals, NEW q \in Proposals,
                      Chosen(p[1], p[2]), Chosen(q[1], q[2])
               PROVE  p[2] = q[2]
    BY DEF SingleChoice
  <1>1. \A x \in Proposals : /\ x[1] \in Nat /\ x[2] \in Val /\ Claimed(nodes, sent, x[1], x[2])
    <2> SUFFICES ASSUME NEW x \in Proposals
                 PROVE  x[1] \in Nat /\ x[2] \in Val /\ Claimed(nodes, sent, x[1], x[2])
      OBVIOUS
    <2>1. PICK i \in Server : \E k \in DOMAIN nodes[i].accepts : x = nodes[i].accepts[k]
      BY DEF Proposals
    <2>2. PICK k \in DOMAIN nodes[i].accepts : x = nodes[i].accepts[k]
      BY SMTT(30), <2>1
    <2>3. nodes[i].accepts \in Seq(Nat \X Val)
      BY NodeFields DEF IInv
    <2>4. x \in Nat \X Val
      BY <2>2, <2>3
    <2>5. x = << x[1], x[2] >> /\ x[1] \in Nat /\ x[2] \in Val
      BY SMTT(30), <2>4
    <2>6. Voted(nodes[i], x[1], x[2])
      BY SMTT(30), <2>2, <2>5 DEF Voted
    <2> QED BY <2>5, <2>6 DEF Claimed
  <1>2. ASSUME NEW b \in Nat, NEW v \in Val, NEW c \in Nat, NEW w \in Val,
               Chosen(b, v), Claimed(nodes, sent, c, w), b < c
        PROVE  v = w
    <2>1. Safe(nodes, c, w)
      BY SMTT(30), <1>2 DEF IInv
    <2>2. PICK Q \in SUBSET Server :
             /\ IsQuorum(Q)
             /\ \A j \in Q : nodes[j].promised > b /\ \A u \in Val : Voted(nodes[j], b, u) => u = w
      BY SMTT(30), <1>2, <2>1 DEF Safe
    <2> DEFINE R == { i \in Server : HasAccepted(i, b, v) }
    <2>3. R \in SUBSET Server /\ IsQuorum(R) /\ \A j \in R : Voted(nodes[j], b, v)
      BY ZenonT(30), <1>2 DEF Chosen, HasAccepted, Voted
    <2> HIDE DEF R
    <2>4. PICK j \in Server : j \in Q /\ j \in R
      BY <2>2, <2>3, Quorums
    <2> QED BY SMTT(30), <2>2, <2>3, <2>4
  <1>3. CASE p[1] < q[1]
    BY <1>1, <1>2, <1>3
  <1>4. CASE q[1] < p[1]
    BY SMTT(30), <1>1, <1>2, <1>4
  <1>5. CASE p[1] = q[1]
    BY SMTT(30), <1>1, <1>5 DEF IInv
  <1> QED BY <1>1, <1>3, <1>4, <1>5

(* A decided node has counted a quorum of votes, and votes stay. *)
LEMMA DecisionIsBacked == IInv(nodes, sent) => DecidedIsChosen
  <1> SUFFICES ASSUME IInv(nodes, sent), NEW i \in Server, nodes[i].phase = "decided"
               PROVE  Chosen(nodes[i].myNum, nodes[i].myVal)
    BY SMTT(30) DEF DecidedIsChosen
  <1> DEFINE R == { j \in Server : HasAccepted(j, nodes[i].myNum, nodes[i].myVal) }
             A == nodes[i].acceptors
  <1>1. A \in SUBSET Server
    BY SMTT(30), NodeFields DEF IInv
  <1>2. IsQuorum(A) /\ \A j \in A : Voted(nodes[j], nodes[i].myNum, nodes[i].myVal)
    BY ZenonT(30) DEF IInv, Counted
  <1>3. A \subseteq R /\ R \subseteq Server
    BY <1>1, <1>2 DEF HasAccepted, Voted
  <1>4. IsFiniteSet(Server)
    BY SMTT(30), FS_Interval, SizeAssumption DEF Server
  <1> HIDE DEF R, A
  <1>5. IsFiniteSet(R)
    BY SMTT(30), <1>3, <1>4, FS_Subset
  <1>6. IsFiniteSet(A) /\ Cardinality(A) <= Cardinality(R)
    BY SMTT(30), <1>3, <1>5, FS_Subset
  <1>7. Cardinality(A) \in Nat /\ Cardinality(R) \in Nat
    BY SMTT(30), <1>5, <1>6, FS_CardinalityType
  <1>8. IsQuorum(R)
    BY <1>2, <1>6, <1>7, SizeAssumption DEF IsQuorum
  <1> QED BY <1>8 DEF Chosen, R

(* checkSingleChoice (invariants.go) holds on every network: whatever is   *)
(* lost, delayed, repeated or reordered, whoever proposes and times out    *)
(* when, no two values are ever accepted by quorums.                       *)
THEOREM Agreement == NetSpec => []SingleChoice
  <1>1. NetSpec => []IInv(nodes, sent)
    BY InitEstablishes, NextPreserves, PTL DEF NetSpec
  <1> QED BY <1>1, ChosenIsUnique, PTL

(* A proposer reports Decided only for a value that a quorum has accepted, *)
(* so that with Agreement all that is ever decided is one value.           *)
THEOREM DecisionsAreChosen == NetSpec => []DecidedIsChosen
  <1>1. NetSpec => []IInv(nodes, sent)
    BY InitEstablishes, NextPreserves, PTL DEF NetSpec
  <1> QED BY <1>1, DecisionIsBacked, PTL
=============================================================================
