---------------------------- MODULE PaxosEngine ----------------------------
(***************************************************************************)
(* Paxos driven by dst.Engine, as examples/paxos wires them: one virtual   *)
(* time step ticks every node, collects what they send, and delivers every *)
(* message that has come due, one at a time, collecting after each.  The   *)
(* seeded draws of loss and delay are nondeterministic choices.            *)
(***************************************************************************)
EXTENDS PaxosNet, Engine, FiniteSetsExt, SequencesExt

CONSTANTS TimeoutBase,  \* the timeout of node i is
          TimeoutStep,  \*   TimeoutBase + i * TimeoutStep
          MaxDelay,     \* Config.MaxDelay
          Clients,      \* the calls Cluster.Propose(i, v) clients make, as << i, v >>
          Plans,        \* the fault plans, see Plan
          MaxNow,       \* bound on virtual time
          MaxProposals  \* bound on Cluster.Propose calls

VARIABLES now, seq, queue,  \* of the engine
          plan,             \* the faults of this run
          turn,             \* 0 between steps, i once node i has ticked, N delivering
          outbox,           \* sent in this step's ticks, not yet collected
          used              \* proposals, lost messages and isolations so far

(* One injector; how many messages the random draw may lose and how often  *)
(* the caller may isolate a node; until when clients propose.              *)
Plan(inj, lost, isolations, last) ==
    [injector |-> inj, lost |-> lost, isolations |-> isolations, lastProposal |-> last]

engineVars == << now, seq, queue, plan, turn, outbox, used >>

vars == << netVars, engineVars >>

Init ==
    /\ NetInit
    /\ now = 0 /\ seq = 0 /\ queue = << >>
    /\ plan \in Plans
    /\ turn = 0 /\ outbox = << >>
    /\ used = [proposals |-> 0, lost |-> 0, isolations |-> 0]

(* A node sends to its peers in ascending order. *)
InOrder(msgs) == SetToSortSeq(msgs, LAMBDA a, b : a.to < b.to)

(* The draw of a message: lost, or its delay. *)
Lost == 0 - 1

CountLost(draws) == Cardinality({ k \in DOMAIN draws : draws[k] = Lost })

Draws(msgs) ==
    { d \in [DOMAIN msgs -> {Lost} \cup 0..MaxDelay] : used.lost + CountLost(d) <= plan.lost }

(* The injector is asked after the draws, with the time of sending. *)
Passes(m, d, t) == d # Lost /\ ~Blocks(plan.injector, t, m.from, m.to)

RECURSIVE Scheduled(_, _, _, _)
Scheduled(s, msgs, draws, t) ==
    IF msgs = << >> THEN s
    ELSE Scheduled(IF Passes(Head(msgs), Head(draws), t)
                   THEN [seq |-> s.seq + 1,
                         queue |-> Push(s.queue, Event(t + Head(draws), s.seq + 1, Head(msgs)))]
                   ELSE s, Tail(msgs), Tail(draws), t)

(* Engine.Collect of these messages over the heap q, at the time of the    *)
(* call; u is what the caller has used.                                    *)
Collect(q, msgs, u) ==
    \E d \in Draws(msgs) :
       \E s \in {Scheduled([seq |-> seq, queue |-> q], msgs, d, now')} :
          /\ queue' = s.queue /\ seq' = s.seq
          /\ used' = [u EXCEPT !.lost = @ + CountLost(d)]

-----------------------------------------------------------------------------
(* Between steps, the caller proposes, collecting at once, or isolates. *)

ProposeAt(i, v) ==
    /\ turn = 0 /\ now <= plan.lastProposal /\ used.proposals < MaxProposals
    /\ UNCHANGED << now, plan, turn, outbox >>
    /\ \E p \in {Propose(nodes[i], i, v)} :
         /\ Runs(i, p)
         /\ Collect(queue, InOrder(p.out), [used EXCEPT !.proposals = @ + 1])

IsolateNode(i) ==
    /\ turn = 0 /\ used.isolations < plan.isolations
    /\ queue' = Isolate(queue, i) /\ queue' # queue
    /\ used' = [used EXCEPT !.isolations = @ + 1]
    /\ UNCHANGED << netVars, now, seq, plan, turn, outbox >>

(* Engine.Step: time moves, every node ticks in order, what they sent is   *)
(* collected, and what is due is delivered.                                *)
TickNode(i) ==
    /\ turn = i - 1
    /\ IF i = 1 THEN now < MaxNow /\ now' = now + 1 ELSE UNCHANGED now
    /\ \E p \in {Tick(nodes[i], i, TimeoutBase + i * TimeoutStep)} :
         /\ Runs(i, p)
         /\ IF i < N
            THEN /\ outbox' = outbox \o InOrder(p.out)
                 /\ UNCHANGED << seq, queue, used >>
            ELSE /\ Collect(queue, outbox \o InOrder(p.out), used)
                 /\ outbox' = << >>
    /\ turn' = i
    /\ UNCHANGED plan

(* Wrong: what is due in this step waits for the next. *)
BadIsDue == queue # << >> /\ queue[1].at < now

IsDue == queue # << >> /\ queue[1].at <= now

DeliverNext ==
    /\ turn = N /\ IsDue
    /\ UNCHANGED << now, plan, turn, outbox >>
    /\ \E p \in {Step(nodes[queue[1].to], queue[1].to, queue[1].msg)} :
         /\ Runs(queue[1].to, p)
         /\ Collect(Pop(queue), InOrder(p.out), used)

EndStep ==
    /\ turn = N /\ ~IsDue
    /\ turn' = 0
    /\ UNCHANGED << netVars, now, seq, queue, plan, outbox, used >>

EngineStep == (\E i \in Server : TickNode(i)) \/ DeliverNext \/ EndStep

Next == \/ \E c \in Clients : ProposeAt(c[1], c[2])
        \/ \E i \in Server : IsolateNode(i)
        \/ EngineStep

Spec == Init /\ [][Next]_vars

-----------------------------------------------------------------------------
(* "a heap ordered by it delivers messages in exactly the order a linear   *)
(* scan for the smallest due message would" (dst/engine.go:260): at every  *)
(* time the root is what sim's scan would deliver, also after Isolate took *)
(* events out of the middle.                                               *)
RootIsEarliest ==
    \A t \in now..MaxNow + MaxDelay :
        NextReady(queue, t) = IF queue # << >> /\ queue[1].at <= t THEN {1} ELSE {}

(* "An acceptor may accept the same (num, val) only once, so counting      *)
(* acceptances counts distinct acceptors" (cluster.go:94): with an engine  *)
(* that never duplicates, an acceptance is recorded once.                  *)
AcceptedOnce ==
    \A i \in Server : \A j, k \in DOMAIN nodes[i].accepts :
        nodes[i].accepts[j][1] = nodes[i].accepts[k][1] => j = k

(* TestQuietClusterChooses: a lone proposal whose messages all arrive is   *)
(* decided once its four message delays are over.                          *)
Quiet == used = [proposals |-> 1, lost |-> 0, isolations |-> 0] /\ plan.injector.links = {}

QuietClusterChooses ==
    Quiet /\ turn = 0 /\ now >= plan.lastProposal + 4 * MaxDelay
        => \E i \in Server : nodes[i].phase = "decided"

(* Whatever the engine schedules, delays, drops or isolates, each of its   *)
(* steps is one of a network that may lose, delay and repeat at will, or   *)
(* none: what holds of that network holds in every simulation.             *)
EngineIsNetwork == NetSpec
=============================================================================
