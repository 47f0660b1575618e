----------------------------- MODULE MCService -----------------------------
(***************************************************************************)
(* Small instances of the service for TLC.  A start is one of the          *)
(* scenarios of MCScenarios: the mutation that the scenario submits came   *)
(* from a client that has given up on the call, and nothing was compacted  *)
(* or restarted before.                                                    *)
(***************************************************************************)
EXTENDS Service, MCScenarios

put(c, r, k, v) == [op |-> "put", client |-> c, request |-> r, key |-> k, value |-> v]
delete(c, r, k) == [op |-> "delete", client |-> c, request |-> r, key |-> k, value |-> 0]
get(c, r, k)    == [op |-> "get", client |-> c, request |-> r, key |-> k, value |-> 0]

Put1    == put(1, 1, 1, 7)
Delete2 == delete(1, 2, 1)
Get1    == get(2, 1, 1)
Get2    == get(2, 2, 1)

Mutations == {Put1, Delete2}
Contexts  == {ContextID(q) : q \in {Put1, Delete2, Get1, Get2}}

Retried == << Put1, Put1, Delete2 >>
Watched == << Put1, Put1, Get1 >>
Polled  == << Put1, Get1 >>
Scripts == {Retried, Watched, Polled}

(* The calls that wait at i for mutations it has proposed and not applied. *)
Waiting(n, i) == IF i = n1 /\ Put1 \in {n.log[k].cmd : k \in n.applied + 1 .. Len(n.log)}
                 THEN ContextID(Put1) :> {1} ELSE << >>

Longest(nodes) == CHOOSE i \in Server : \A j \in Server : nodes[j].commit <= nodes[i].commit

(* Put1 was called at n1, which has replied if it has applied it. *)
FirstCall(n) ==
    [req |-> Put1, at |-> n1, floor |-> 0, stage |-> "taken",
     got |-> IF Put1 \in {n.log[k].cmd : k \in 1 .. n.applied}
             THEN << Response(n, "OK", Put1.value) >> ELSE << >>]

StartFrom(s, allowed, script) ==
    /\ In([s EXCEPT !.msgs = {}], allowed)
    /\ machine = [i \in Server |->
          FoldLeft(LAMBDA m, e : Apply(m, e.cmd).machine, New, UpTo(s.node[i], s.node[i].applied))]
    /\ pending = [i \in Server |-> Waiting(s.node[i], i)]
    /\ reads = [i \in Server |-> {}] /\ image = [i \in Server |-> << >>]
    /\ agenda = script /\ calls = << FirstCall(s.node[n1]) >>
    /\ ledger = LET n == s.node[Longest(s.node)]
                IN  [k \in 1 .. n.commit |-> n.log[k].cmd]

(* A start is a triple << events, allowed, script >>. *)
ServiceFrom(starts) == \E start \in starts : StartFrom(Play(Boot, start[1]), start[2], start[3])

SpecService ==
    /\ ServiceFrom({<< Deposed(Put1), << >>, Watched >>,
                    << Overtaken(Put1), << >>, Polled >>,
                    << Halved(Put1), [restarts |-> 1, timeouts |-> 1], Retried >>})
    /\ [][ServiceNext]_serviceVars
=============================================================================
