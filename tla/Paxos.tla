------------------------------- MODULE Paxos -------------------------------
(***************************************************************************)
(* examples/paxos: one node, which is both proposer and acceptor.          *)
(*                                                                         *)
(* A handler is an operator from a node to the node it leaves, with the    *)
(* messages of the call in the field out.  Bit masks are sets of node IDs. *)
(* Proposal numbers start above zero, so accNum = 0 stands for             *)
(* hasAccepted = false and bestNum = 0 for hasBest = false.                *)
(* Operators named Bad... are deliberately wrong variants.                 *)
(***************************************************************************)
EXTENDS Integers, Sequences, FiniteSets

CONSTANTS N,        \* the number of nodes
          Value,    \* what clients may propose
          NoValue   \* the value of nothing

ASSUME SizeAssumption == N \in Nat \ {0}
ASSUME ValueAssumption == NoValue \notin Value

Server == 1..N

Phase == {"idle", "preparing", "accepting", "decided"}

PrepareMsg(i, j, b)       == [kind |-> "Prepare", from |-> i, to |-> j, num |-> b]
PromiseMsg(i, j, b, an, av) ==
    [kind |-> "Promise", from |-> i, to |-> j, num |-> b, accNum |-> an, accVal |-> av]
AcceptMsg(i, j, b, v)     == [kind |-> "Accept", from |-> i, to |-> j, num |-> b, val |-> v]
AcceptedMsg(i, j, b)      == [kind |-> "Accepted", from |-> i, to |-> j, num |-> b]
(* A Promise or Accepted with OK = false: its receiver ignores it. *)
RefusalMsg(i, j, b)       == [kind |-> "Refusal", from |-> i, to |-> j, num |-> b]

NewNode ==
    [promised |-> 0, accNum |-> 0, accVal |-> NoValue, accepts |-> << >>,
     phase |-> "idle", round |-> 0, myNum |-> 0, myVal |-> NoValue,
     promises |-> {}, acceptors |-> {}, bestNum |-> 0, bestVal |-> NoValue,
     elapsed |-> 0, out |-> {}]

IsQuorum(S) == 2 * Cardinality(S) > N

-----------------------------------------------------------------------------
(* The acceptor. *)

CanPromise(n, b) == b > n.promised

Promised(n, b) == [n EXCEPT !.promised = b]

CanAccept(n, b) == b >= n.promised

Accepting(n, b, v) ==
    [n EXCEPT !.promised = b, !.accNum = b, !.accVal = v,
              !.accepts = Append(@, << b, v >>)]

OnPrepare(n, i, m) ==
    IF CanPromise(n, m.num)
    THEN [Promised(n, m.num) EXCEPT
            !.out = {PromiseMsg(i, m.from, m.num, n.accNum, n.accVal)}]
    ELSE [n EXCEPT !.out = {RefusalMsg(i, m.from, m.num)}]

OnAccept(n, i, m) ==
    IF CanAccept(n, m.num)
    THEN [Accepting(n, m.num, m.val) EXCEPT !.out = {AcceptedMsg(i, m.from, m.num)}]
    ELSE [n EXCEPT !.out = {RefusalMsg(i, m.from, m.num)}]

-----------------------------------------------------------------------------
(* The proposer. *)

Collected(n, j, an, av) ==
    [n EXCEPT !.promises = @ \cup {j},
              !.bestNum = IF an > @ THEN an ELSE @,
              !.bestVal = IF an > n.bestNum THEN av ELSE @]

(* Wrong: the proposer insists on its own value. *)
BadChosenValue(n) == n.myVal

ChosenValue(n) == IF n.bestNum > 0 THEN n.bestVal ELSE n.myVal

(* The proposer is its own first acceptor; alone it is a quorum. *)
StartAccepting(n, i) ==
    LET v == ChosenValue(n)
        p == [n EXCEPT !.myVal = v, !.phase = "accepting"]
    IN  IF ~CanAccept(p, p.myNum)
        THEN [p EXCEPT !.acceptors = {},
                       !.out = @ \cup {AcceptMsg(i, j, n.myNum, v) : j \in Server \ {i}}]
        ELSE IF IsQuorum({i})
        THEN [Accepting(p, p.myNum, v) EXCEPT !.acceptors = {i}, !.phase = "decided"]
        ELSE [Accepting(p, p.myNum, v) EXCEPT
                !.acceptors = {i},
                !.out = @ \cup {AcceptMsg(i, j, n.myNum, v) : j \in Server \ {i}}]

RecordPromise(n, i, j, an, av) ==
    IF IsQuorum(n.promises \cup {j}) THEN StartAccepting(Collected(n, j, an, av), i)
    ELSE Collected(n, j, an, av)

(* Wrong: a promise that comes after the quorum starts phase two again. *)
BadOnPromise(n, i, m) ==
    IF m.num = n.myNum /\ n.phase \in {"preparing", "accepting"}
    THEN RecordPromise(n, i, m.from, m.accNum, m.accVal) ELSE n

OnPromise(n, i, m) ==
    IF m.num = n.myNum /\ n.phase = "preparing"
    THEN RecordPromise(n, i, m.from, m.accNum, m.accVal) ELSE n

(* Wrong: an answer to an earlier round counts for this one. *)
BadOnAccepted(n, m) ==
    IF n.phase = "accepting"
    THEN [n EXCEPT !.acceptors = @ \cup {m.from},
                   !.phase = IF IsQuorum(n.acceptors \cup {m.from}) THEN "decided" ELSE @]
    ELSE n

OnAccepted(n, m) ==
    IF m.num = n.myNum /\ n.phase = "accepting"
    THEN [n EXCEPT !.acceptors = @ \cup {m.from},
                   !.phase = IF IsQuorum(n.acceptors \cup {m.from}) THEN "decided" ELSE @]
    ELSE n

NextRound(n) ==
    IF n.round > n.promised \div N THEN n.round + 1 ELSE n.promised \div N + 1

(* The new round answers its own Prepare at once: its number is above      *)
(* every number this node has promised.                                    *)
Propose(n, i, v) ==
    LET b == NextRound(n) * N + i
        p == [n EXCEPT !.round = NextRound(n), !.myNum = b, !.myVal = v, !.phase = "preparing",
                       !.elapsed = 0, !.promises = {}, !.acceptors = {},
                       !.bestNum = 0, !.bestVal = NoValue,
                       !.out = {PrepareMsg(i, j, b) : j \in Server \ {i}}]
    IN  IF CanPromise(p, b) THEN RecordPromise(Promised(p, b), i, i, n.accNum, n.accVal) ELSE p

Step(n, i, m) ==
    CASE m.kind = "Prepare"  -> OnPrepare(n, i, m)
      [] m.kind = "Promise"  -> OnPromise(n, i, m)
      [] m.kind = "Accept"   -> OnAccept(n, i, m)
      [] m.kind = "Accepted" -> OnAccepted(n, m)
      [] OTHER               -> n

(* Tick with the node's timeout: an unfinished proposer starts over. *)
Waiting(n) == n.phase \in {"preparing", "accepting"}

Tick(n, i, timeout) ==
    IF ~Waiting(n) THEN n
    ELSE IF n.elapsed + 1 >= timeout THEN Propose(n, i, n.myVal)
    ELSE [n EXCEPT !.elapsed = @ + 1]
=============================================================================
