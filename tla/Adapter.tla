------------------------------ MODULE Adapter ------------------------------
(***************************************************************************)
(* internal/adapterhost over internal/adapterproto: a process that wraps   *)
(* somebody's cluster (the adapter) is driven by dst.Engine, one request   *)
(* and one response at a time, over a pair of pipes.                       *)
(*                                                                         *)
(* The adapter is not part of the repository.  It may fail to do what it   *)
(* is asked, answer anything, answer twice or exit, but no node of it      *)
(* hands over a message twice.  A message carries a number of its own and  *)
(* a response the number of the request that it answers, for properties to *)
(* tell them apart; the host never reads those.                            *)
(* Operators named Bad... are deliberately wrong variants.                 *)
(***************************************************************************)
EXTENDS Engine, FiniteSets

CONSTANTS Nodes,       \* what an honest adapter declares, 1 .. some number
          Stranger,    \* a node that it does not declare
          Wrap,        \* where request IDs wrap, 2^64 in the code
          MaxDelay,    \* Config.MaxDelay of the engine
          MaxSteps,    \* bound on calls of StepChecked
          MaxMessages, \* bound on messages that the adapter's nodes send
          MaxFaults    \* bound on misbehaviour of the adapter

ASSUME NodesAssumption ==
    Nodes = 1 .. Cardinality(Nodes) /\ Nodes # {} /\ Stranger \notin Nodes

VARIABLES session,  \* Session: nextID, closed, nodes
          runner,   \* Runner: the operation in progress
          engine,   \* dst.Engine: now, seq, queue
          process,  \* Process: how far StartProcess and Close are
          adapter,  \* the adapter: alive, its nodes' outboxes, messages sent so far
          requests, \* the adapter's stdin
          answers,  \* the adapter's stdout
          accepted, \* history: the last exchange, as << request, answered request >>
          delivered,\* history: the messages that the adapter has been handed
          used      \* steps and faults so far

vars == << session, runner, engine, process, adapter, requests, answers, accepted, delivered, used >>

NoMessage == [from |-> 0, to |-> 0, number |-> 0]
Operation(op, node, msg) == [op |-> op, node |-> node, msg |-> msg]
Idle == Operation("idle", 0, NoMessage)

Init ==
    /\ session = [nextID |-> 1, closed |-> FALSE, nodes |-> {}]
    /\ runner = [doing |-> Operation("hello", 0, NoMessage), sent |-> FALSE]
    /\ engine = [now |-> 0, seq |-> 0, queue |-> << >>]
    /\ process = "open"
    /\ adapter = [alive |-> TRUE, outbox |-> [n \in Nodes |-> << >>], minted |-> 0]
    /\ requests = << >> /\ answers = << >>
    /\ accepted = << 0, 0 >> /\ delivered = << >>
    /\ used = [steps |-> 0, faults |-> 0]

-----------------------------------------------------------------------------
(* The engine's program, operation by operation: every node ticks, every   *)
(* node is drained, and as long as a message is due it is delivered and    *)
(* every node is drained again; then the invariants are checked.           *)

Do(op) == [runner EXCEPT !.doing = op, !.sent = FALSE]

Last == Cardinality(Nodes)

IsDue(e) == e.queue # << >> /\ e.queue[1].at <= e.now

(* Wrong: the message stays in the heap. *)
BadPopped(e) == e

Popped(e) == [e EXCEPT !.queue = Pop(@)]

(* The loop of Engine.Step after a Collect, e being the engine by then. *)
Deliveries(e) ==
    IF IsDue(e)
    THEN /\ runner' = Do(Operation("deliver", e.queue[1].to, e.queue[1].msg))
         /\ engine' = Popped(e)
    ELSE runner' = Do(Operation("check", 0, NoMessage)) /\ engine' = e

(* Engine.Collect of what one node has sent.  Draws and injectors that     *)
(* drop messages are left out: PaxosEngine has them.                       *)
RECURSIVE Scheduled(_, _, _)
Scheduled(e, msgs, delays) ==
    IF msgs = << >> THEN e
    ELSE Scheduled([e EXCEPT !.seq = @ + 1,
                             !.queue = Push(@, Event(e.now + Head(delays), e.seq + 1, Head(msgs)))],
                   Tail(msgs), Tail(delays))

(* adapterhost.Open takes the nodes from the answer to its hello. *)
Opened(s, r) == [s EXCEPT !.nodes = r.nodes]

(* Session.Close: only a close that the adapter has answered counts. *)
Closed(s) == [s EXCEPT !.closed = TRUE]

(* What follows an operation that has succeeded with response r. *)
Continue(r) ==
    LET op == runner.doing.op
        k  == runner.doing.node
    IN  CASE op = "hello" ->
                 /\ session' = Opened(session, r)
                 /\ runner' = Do(Idle) /\ UNCHANGED engine
          [] op = "tick" ->
                 /\ runner' = Do(IF k < Last THEN Operation("tick", k + 1, NoMessage)
                                 ELSE Operation("drain", 1, NoMessage))
                 /\ UNCHANGED << session, engine >>
          [] op = "drain" ->
                 \E delays \in [DOMAIN r.messages -> 0 .. MaxDelay] :
                    \E e \in {Scheduled(engine, r.messages, delays)} :
                       /\ IF k < Last
                          THEN runner' = Do(Operation("drain", k + 1, NoMessage)) /\ engine' = e
                          ELSE Deliveries(e)
                       /\ UNCHANGED session
          [] op = "deliver" ->
                 runner' = Do(Operation("drain", 1, NoMessage)) /\ UNCHANGED << session, engine >>
          [] op = "check" ->
                 runner' = Do(Idle) /\ UNCHANGED << session, engine >>
          [] op = "close" ->
                 /\ session' = Closed(session)
                 /\ runner' = Do(Idle) /\ UNCHANGED engine

(* Wrong: an error of the session ends Process.Close at once. *)
BadAfterClose(ok) == IF ok THEN "stdin" ELSE "done"

(* Whatever Session.Close returns, Process.Close goes on to close stdin. *)
AfterClose(ok) == "stdin"

(* What the process does when an operation ends: a failed handshake makes  *)
(* StartProcess kill it.                                                   *)
Ends(ok) ==
    process' = CASE runner.doing.op = "hello" /\ ~ok -> "kill"
                 [] runner.doing.op = "close"        -> AfterClose(ok)
                 [] OTHER                            -> process

(* An operation failed: a callback panics, StepChecked recovers and        *)
(* returns a RunError.  What the engine had taken out of its heap is gone. *)
Abort == runner' = Do(Idle) /\ Ends(FALSE)

StepChecked ==
    /\ process = "open" /\ runner.doing = Idle
    /\ used.steps < MaxSteps
    /\ used' = [used EXCEPT !.steps = @ + 1]
    /\ engine' = [engine EXCEPT !.now = @ + 1]
    /\ runner' = Do(Operation("tick", 1, NoMessage))
    /\ UNCHANGED << session, process, adapter, requests, answers, accepted, delivered >>

-----------------------------------------------------------------------------
(* Session.exchange, in two steps around the time that the adapter takes.  *)

Busy == runner.doing # Idle /\ ~runner.sent

(* Open writes its hello before it knows the nodes. *)
RequireNode(op) == op.op \in {"tick", "drain", "deliver"} => op.node \in session.nodes

(* Session.Deliver looks at both ends of the message. *)
Deliverable(op) ==
    op.op = "deliver" => op.msg.from \in session.nodes /\ op.msg.to = op.node

Refused ==
    \/ session.closed \/ session.nextID = 0
    \/ ~RequireNode(runner.doing) \/ ~Deliverable(runner.doing)

(* The request is written.  ID zero says that the IDs are used up.  A      *)
(* write to an adapter that has exited fails after the ID is spent.        *)
Send ==
    /\ Busy /\ process \in {"open", "closing"} /\ ~Refused
    /\ session' = [session EXCEPT !.nextID = (@ + 1) % Wrap]
    /\ IF adapter.alive
       THEN /\ requests' = Append(requests, [id |-> session.nextID, serial |-> accepted[1] + 1,
                                             doing |-> runner.doing])
            /\ runner' = [runner EXCEPT !.sent = TRUE]
            /\ UNCHANGED process
       ELSE Abort /\ UNCHANGED requests
    /\ accepted' = << accepted[1] + 1, accepted[1] + 1 >>
    /\ UNCHANGED << engine, adapter, answers, delivered, used >>

Refuse ==
    /\ Busy /\ process \in {"open", "closing"} /\ Refused
    /\ Abort
    /\ UNCHANGED << session, engine, adapter, requests, answers, accepted, delivered, used >>

(* A hello without nodes stands for every hello that is refused: also one  *)
(* that repeats a node or an invariant, or has an invariant without name.  *)
ValidHello(r) == r.nodes # {}

(* The envelope: a non-zero ID and a known operation. *)
ValidEnvelope(r) ==
    r.id # 0 /\ r.op \in {"hello", "tick", "drain", "deliver", "check", "close"}

(* ValidateResponse: the response is a frame that decodes, and only a      *)
(* success of the right operation has nodes, messages or a violation.      *)
(* ValidateResponseFor: it answers this request, and a node's messages     *)
(* come from that node.                                                    *)
Sound(r) ==
    LET success(op) == r.kind = "ok" /\ r.op = op
    IN  /\ r.kind # "garbage" /\ ValidEnvelope(r)
        /\ success("hello") => ValidHello(r)
        /\ r.nodes # {} => success("hello")
        /\ r.messages # << >> => success("drain")
        /\ r.violation # "none" => success("check")

(* Wrong: a response of the right operation is taken for the answer. *)
BadMatches(r) ==
    /\ Sound(r) /\ r.op = runner.doing.op
    /\ r.op = "drain" => \A k \in DOMAIN r.messages : r.messages[k].from = runner.doing.node

Matches(r) ==
    /\ Sound(r) /\ r.id = (session.nextID - 1) % Wrap /\ r.op = runner.doing.op
    /\ r.op = "drain" => \A k \in DOMAIN r.messages : r.messages[k].from = runner.doing.node

(* Check: the invariant that is reported as violated was declared. *)
ReportsDeclared(r) == r.op = "check" => r.violation # "undeclared"

(* Drain: messages go to declared nodes. *)
Declared(r) ==
    r.op = "drain" => \A k \in DOMAIN r.messages : r.messages[k].to \in session.nodes

Receive ==
    /\ runner.sent /\ answers # << >>
    /\ answers' = Tail(answers)
    /\ LET r == Head(answers)
       IN  IF Matches(r) /\ r.kind = "ok" /\ Declared(r) /\ ReportsDeclared(r)
           THEN /\ accepted' = << accepted[1], r.serial >>
                /\ Continue(r) /\ Ends(TRUE)
           ELSE Abort /\ UNCHANGED << session, engine, accepted >>
    /\ UNCHANGED << adapter, requests, delivered, used >>

(* The adapter has exited and nothing more comes. *)
ReadEnd ==
    /\ runner.sent /\ answers = << >> /\ ~adapter.alive
    /\ Abort
    /\ UNCHANGED << session, engine, adapter, requests, answers, accepted, delivered, used >>

-----------------------------------------------------------------------------
(* The adapter executes a request.  A tick or a delivery may make the node *)
(* send one message; a drain hands over what the node has sent.            *)

Answer(q, kind) ==
    [id |-> q.id, serial |-> q.serial, op |-> q.doing.op, kind |-> kind,
     nodes |-> IF q.doing.op = "hello" /\ kind = "ok" THEN Nodes ELSE {},
     messages |-> IF q.doing.op = "drain" /\ kind = "ok" THEN adapter.outbox[q.doing.node] ELSE << >>,
     violation |-> "none"]

Sends(q, to) ==
    [adapter EXCEPT !.minted = @ + 1,
                    !.outbox[q.doing.node] =
                        Append(@, [from |-> q.doing.node, to |-> to, number |-> adapter.minted + 1])]

Executed(q) ==
    CASE q.doing.op = "drain" -> {[adapter EXCEPT !.outbox[q.doing.node] = << >>]}
      [] q.doing.op = "close" -> {[adapter EXCEPT !.alive = FALSE]}
      [] q.doing.op \in {"tick", "deliver"} /\ adapter.minted < MaxMessages ->
             {adapter} \cup {Sends(q, n) : n \in Nodes \ {q.doing.node}}
      [] OTHER -> {adapter}

(* The answers an adapter that misbehaves may give to q: an error, bytes   *)
(* that do not decode, a hello without nodes or nodes without a hello, no  *)
(* ID, the answer to another operation or to none, somebody else's         *)
(* messages, messages to nobody, a violation of an invariant never         *)
(* declared or without a check; or the answer twice.                       *)
Wrong(q) ==
    LET a == Answer(q, "ok")
        m == [from |-> q.doing.node, to |-> Stranger, number |-> 0]
    IN  {<< Answer(q, "error") >>, << [a EXCEPT !.kind = "garbage"] >>, << a, a >>,
         << [a EXCEPT !.nodes = Nodes \ @] >>, << [a EXCEPT !.op = "tick"] >>,
         << [a EXCEPT !.violation = "undeclared"] >>, << [a EXCEPT !.id = 0] >>,
         << [a EXCEPT !.op = "unknown"] >>}
        \cup (IF q.doing.op = "drain"
              THEN {<< [a EXCEPT !.messages = << m >>] >>,
                    << [a EXCEPT !.messages = << [m EXCEPT !.from = Stranger, !.to = q.doing.node] >>] >>}
              ELSE {})

Handed(q) == IF q.doing.op = "deliver" THEN Append(delivered, q.doing.msg.number) ELSE delivered

Serve ==
    /\ adapter.alive /\ requests # << >>
    /\ LET q == Head(requests)
       IN  /\ requests' = Tail(requests)
           /\ delivered' = Handed(q)
           /\ \/ /\ adapter' \in Executed(q)
                 /\ \E v \in {"none", "declared"} :
                       answers' = Append(answers, [Answer(q, "ok") EXCEPT
                                     !.violation = IF q.doing.op = "check" THEN v ELSE "none"])
                 /\ UNCHANGED used
              \/ /\ used.faults < MaxFaults /\ used' = [used EXCEPT !.faults = @ + 1]
                 /\ adapter' \in Executed(q) \cup (IF q.doing.op = "drain" THEN {} ELSE {adapter})
                 /\ \E w \in Wrong(q) : answers' = answers \o w
    /\ UNCHANGED << session, runner, engine, process, accepted >>

(* The adapter exits on its own, or its context is cancelled. *)
Exit ==
    /\ adapter.alive /\ used.faults < MaxFaults
    /\ used' = [used EXCEPT !.faults = @ + 1]
    /\ adapter' = [adapter EXCEPT !.alive = FALSE]
    /\ UNCHANGED << session, runner, engine, process, requests, answers, accepted, delivered >>

-----------------------------------------------------------------------------
(* Process.Close, which sync.Once runs once: it asks the adapter to close, *)
(* closes its stdin whatever the answer, and waits for it to exit.         *)
(* StartProcess kills an adapter whose handshake failed.                   *)

Close ==
    /\ process = "open" /\ runner.doing = Idle
    /\ process' = "closing"
    /\ runner' = Do(Operation("close", 0, NoMessage))
    /\ UNCHANGED << session, engine, adapter, requests, answers, accepted, delivered, used >>

(* An adapter exits at the end of its stdin, or is killed. *)
Hangup ==
    /\ process \in {"stdin", "kill"} /\ adapter.alive
    /\ adapter' = [adapter EXCEPT !.alive = FALSE]
    /\ UNCHANGED << session, runner, engine, process, requests, answers, accepted, delivered, used >>

Wait ==
    /\ process \in {"stdin", "kill"} /\ ~adapter.alive
    /\ process' = "done"
    /\ UNCHANGED << session, runner, engine, adapter, requests, answers, accepted, delivered, used >>

-----------------------------------------------------------------------------
Host == Send \/ Refuse \/ Receive \/ ReadEnd \/ Wait

Next == StepChecked \/ Close \/ Host \/ Serve \/ Exit \/ Hangup

(* The host runs.  An adapter that lives reads its requests, and leaves at *)
(* the end of its stdin: one that hangs is ended by the caller's context.  *)
Fairness == WF_vars(Host) /\ WF_vars(Serve) /\ WF_vars(Hangup)

Spec == Init /\ [][Next]_vars /\ Fairness

-----------------------------------------------------------------------------
(* ValidateResponseFor: whatever an adapter has sent before, twice or out  *)
(* of turn, and however many operations have failed, a response that an    *)
(* exchange returns is the answer to the request of that exchange.         *)
AnswersMatch == accepted[1] = accepted[2]

(* A failed step neither repeats nor invents traffic: however often steps  *)
(* are retried after an error, the adapter's nodes are handed each message *)
(* at most once, and only messages that one of them has sent.              *)
DeliveredOnce ==
    /\ \A j, k \in DOMAIN delivered : delivered[j] = delivered[k] => j = k
    /\ \A k \in DOMAIN delivered : delivered[k] \in 1 .. adapter.minted

(* Process.Close, and StartProcess after a failed handshake, leave no      *)
(* adapter behind, whatever the adapter answers and also when the request  *)
(* IDs are used up.                                                        *)
CloseReaps == process # "open" ~> process = "done" /\ ~adapter.alive
=============================================================================
