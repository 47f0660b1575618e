------------------------------ MODULE Service ------------------------------
(***************************************************************************)
(* The key-value service: package server over packages raft and            *)
(* statemachine.  Each server runs one event loop that owns its Raft node, *)
(* its machine, its waiting mutations and its read; connections hand it    *)
(* requests over a bounded channel and wait for one reply.                 *)
(*                                                                         *)
(* A call is one connection: what it asked, where, how far it got, what    *)
(* the loop has sent to its reply channel, and how many mutations had been *)
(* applied anywhere when it was made.  handleClient gives up after         *)
(* RequestTimeout, which the loop does not notice; so a client may call    *)
(* again at any time, with a request it has already sent.                  *)
(*                                                                         *)
(* The cluster below is that of module Raft, whose event loop is "server". *)
(***************************************************************************)
EXTENDS Raft, Machine

CONSTANTS Agendas,       \* what clients may send: sequences of requests
          Endpoint,      \* the servers that they send them to
          Restarting,    \* the servers that may be restarted
          QueueCapacity, \* Config.QueueCapacity
          MaxCalls       \* bound: the length of the agendas

(* A client repeats its last request or goes on to one with a higher ID. *)
ASSUME AgendaAssumption ==
    \A agenda \in Agendas : \A j, k \in DOMAIN agenda :
        j < k /\ agenda[j].client = agenda[k].client =>
            agenda[j].request < agenda[k].request \/ agenda[j] = agenda[k]
ASSUME CallsAssumption == \A agenda \in Agendas : Len(agenda) <= MaxCalls
ASSUME ServiceAssumption ==
    Driver = "server" /\ Endpoint \cup Restarting \subseteq Server /\ QueueCapacity \in Nat \ {0}

VARIABLES machine,  \* machine[i]: the state machine of server i
          pending,  \* pending[i]: the calls that wait for each mutation
          reads,    \* reads[i]: the read that waits for its barrier, if any
          image,    \* image[i]: the state in the snapshots of server i, by index
          agenda,   \* what the clients send, call by call
          calls,    \* every call made so far
          ledger    \* the committed mutations, as first applied anywhere

raftVars == << node, msgs, inFlight, readFloor, used >>
serviceVars == << raftVars, machine, pending, reads, image, agenda, calls, ledger >>

(* The read context (ClientID << 32) ^ RequestID, one per pair of IDs that *)
(* fit in 32 bits; a waiting mutation is known by the same pair.           *)
ContextID(q) == << q.client, q.request >>

Mutation(q) == [op |-> q.op, client |-> q.client, request |-> q.request,
                key |-> q.key, value |-> q.value]

Response(n, status, value) == [status |-> status, value |-> value, commit |-> n.commit]

(* Send r to the reply channels of the calls in K. *)
Reply(cs, K, r) == [k \in DOMAIN cs |-> IF k \in K THEN [cs[k] EXCEPT !.got = Append(@, r)] ELSE cs[k]]

----------------------------------------------------------------------------
(* What a turn of the loop works on: the node n, the machine, the waiting  *)
(* mutations and reads, and the calls.                                     *)

Desk(i, n) == [n |-> n, machine |-> machine[i], pending |-> pending[i],
               reads |-> reads[i], calls |-> calls]

Answered(d, k, status, value) == [d EXCEPT !.calls = Reply(@, {k}, Response(d.n, status, value))]

(* What the machine answers to a Get. *)
ReadResponse(d, key) ==
    Response(d.n, IF key \in DOMAIN d.machine.values THEN "OK" ELSE "NotFound", Lookup(d.machine, key))

(* Wrong: a leader answers a Get at once. *)
BadHandleGet(d, k, q) == [d EXCEPT !.calls = Reply(@, {k}, ReadResponse(d, q.key))]

HandleGet(d, k, q) ==
    IF d.reads # {} \/ ContextID(q) = << 0, 0 >> \/ ~CanStartRead(d.n) THEN Answered(d, k, "Busy", 0)
    ELSE [d EXCEPT !.n = StartReadIndex(@, ContextID(q)),
                   !.reads = @ \cup {[context |-> ContextID(q), call |-> k]}]

(* Wrong: any request of a client that the session table knows is answered *)
(* with what the table holds.                                              *)
BadHandleMutation(d, k, q) ==
    LET proposed == [d EXCEPT !.n = Propose(@, Mutation(q))]
        waiting  == ContextID(q) \in DOMAIN d.pending
    IN  CASE q.client \in DOMAIN d.machine.clients ->
                 Answered(d, k, "OK", d.machine.clients[q.client].value)
          [] q.client \notin DOMAIN d.machine.clients /\ waiting ->
                 [d EXCEPT !.pending[ContextID(q)] = @ \cup {k}]
          [] OTHER -> IF proposed.n.faulted THEN Answered(proposed, k, "Busy", 0)
                      ELSE [proposed EXCEPT !.pending = (ContextID(q) :> {k}) @@ @]

HandleMutation(d, k, q) ==
    LET proposed == [d EXCEPT !.n = Propose(@, Mutation(q))]
        waiting  == ContextID(q) \in DOMAIN d.pending
    IN  CASE q.client = 0 \/ q.request = 0     -> Answered(d, k, "Invalid", 0)
          [] Session(d.machine, q) = "stale"   -> Answered(d, k, "Invalid", 0)
          [] Session(d.machine, q) = "done"    -> Answered(d, k, "OK", d.machine.clients[q.client].value)
          [] Session(d.machine, q) = "new" /\ waiting ->
                 [d EXCEPT !.pending[ContextID(q)] = @ \cup {k}]
          [] Session(d.machine, q) = "new" /\ ~waiting /\ q.op \notin {"put", "delete"} ->
                 Answered(d, k, "Invalid", 0)
          [] OTHER -> IF proposed.n.faulted THEN Answered(proposed, k, "Busy", 0)
                      ELSE [proposed EXCEPT !.pending = (ContextID(q) :> {k}) @@ @]

HandleRequest(d, k) ==
    LET q == d.calls[k].req
    IN  CASE q.op = "status"         -> Answered(d, k, "OK", 0)
          [] d.n.state # "Leader"    -> Answered(d, k, "NotLeader", 0)
          [] q.op = "get"            -> HandleGet(d, k, q)
          [] OTHER                   -> HandleMutation(d, k, q)

(* Wrong: the calls go on waiting after they have been answered. *)
BadApplyEntry(d, e) ==
    LET r   == Apply(d.machine, e.cmd)
        key == IF e.cmd = None THEN << 0, 0 >> ELSE ContextID(e.cmd)
    IN  IF key \notin DOMAIN d.pending THEN [d EXCEPT !.machine = r.machine]
        ELSE [d EXCEPT !.machine = r.machine,
                       !.calls   = Reply(@, d.pending[key], Response(d.n, r.status, r.value))]

(* apply: one committed entry goes to the machine, and its result to all   *)
(* the calls that wait for it.                                             *)
ApplyEntry(d, e) ==
    LET r   == Apply(d.machine, e.cmd)
        key == IF e.cmd = None THEN << 0, 0 >> ELSE ContextID(e.cmd)
    IN  IF key \notin DOMAIN d.pending THEN [d EXCEPT !.machine = r.machine]
        ELSE [d EXCEPT !.machine = r.machine,
                       !.calls   = Reply(@, d.pending[key], Response(d.n, r.status, r.value)),
                       !.pending = Restrict(@, DOMAIN @ \ {key})]

(* The entries that node.ApplyEntries hands out. *)
Unapplied(n) == SubSeq(n.log, n.applied - n.base + 1, n.commit - n.base)

ApplyAll(d) == FoldLeft(ApplyEntry, d, Unapplied(d.n))

(* completeReads, at the end of the turn. *)
ReadDone(n, r) == ReadReady(n, r.context) /\ n.applied >= n.readIndex

CompleteReads(d) ==
    LET done == {r \in d.reads : ReadDone(d.n, r)}
    IN  [d EXCEPT !.reads = @ \ done,
                  !.calls = [k \in DOMAIN @ |->
                      IF \E r \in done : r.call = k
                      THEN [@[k] EXCEPT !.got = Append(@, ReadResponse(d, d.calls[k].req.key))]
                      ELSE @[k]]]

----------------------------------------------------------------------------
(* The snapshots of server i after a turn: one that the handler installed  *)
(* has the state its sender had saved, one that apply takes has the state  *)
(* of the machine.                                                         *)
Images(i, handled, rested, state, got) ==
    LET installed == IF handled.disk.snap = node[i].disk.snap THEN image[i]
                     ELSE [m \in {handled.disk.snap.index} |->
                             image[(CHOOSE g \in got : TRUE).from][m]] @@ image[i]
    IN  IF rested.disk.snap = handled.disk.snap THEN installed
        ELSE (rested.disk.snap.index :> SnapshotImage(state)) @@ installed

(* Node n knows entries to be committed that nobody has applied yet. *)
Recorded(n) ==
    ledger \o [k \in 1 .. Max2(0, n.commit - Len(ledger)) |-> EntryAt(n, Len(ledger) + k).cmd]

(* One turn of loop once the handler has left the desk d: a storage error  *)
(* ends it; otherwise entries are applied and reads completed.             *)
Loop(i, fate, d, got) ==
    \E applied \in {IF d.n.faulted THEN d ELSE ApplyAll(d)} :
    \E done \in {IF d.n.faulted THEN d ELSE CompleteReads([applied EXCEPT !.n = AtRest(d.n)])} :
        /\ fate # NoFault => done.n.err = "io"
        /\ node'     = [node EXCEPT ![i] = AtRest(d.n)]
        /\ inFlight' = (inFlight \ got) \cup d.n.out
        /\ machine' = [machine EXCEPT ![i] = done.machine]
        /\ pending' = [pending EXCEPT ![i] = done.pending]
        /\ reads'   = [reads EXCEPT ![i] = done.reads]
        /\ calls'   = done.calls
        /\ image'   = [image EXCEPT ![i] = Images(i, d.n, AtRest(d.n), applied.machine, got)]
        /\ ledger'  = IF d.n.faulted THEN ledger ELSE Recorded(d.n)
        /\ UNCHANGED << msgs, readFloor, agenda >>

----------------------------------------------------------------------------
(* A client connects and sends what is next on the agenda; handleClient    *)
(* queues it or, if the channel is full, answers Busy.                     *)
Queued(i) == {k \in DOMAIN calls : calls[k].at = i /\ calls[k].stage = "queued"}

Call(i) ==
    LET full == Cardinality(Queued(i)) >= QueueCapacity
    IN  /\ Len(calls) < Len(agenda) /\ ~node[i].faulted
        /\ calls' = Append(calls,
              [req |-> agenda[Len(calls) + 1], at |-> i, floor |-> Len(ledger),
               stage |-> IF full THEN "taken" ELSE "queued",
               got |-> IF full THEN << [status |-> "Busy", value |-> 0, commit |-> 0] >> ELSE << >>])
        /\ UNCHANGED << raftVars, machine, pending, reads, image, agenda, ledger >>

(* The three cases of the loop's select: a request, a message, a tick. *)
TakeRequest(i) ==
    /\ ~node[i].faulted /\ Queued(i) # {}
    /\ \E k \in {CHOOSE k \in Queued(i) : \A j \in Queued(i) : k <= j}, fate \in Fates :
          /\ Loop(i, fate, [HandleRequest(Desk(i, Under(node[i], fate)), k)
                              EXCEPT !.calls[k].stage = "taken"], {})
          /\ Spend(Faults(fate))

TakeMessage(i, m) ==
    /\ ~node[i].faulted /\ m.to = i /\ m.type \notin Lost
    /\ \E fate \in Fates :
          /\ Loop(i, fate, Desk(i, Step(Under(node[i], fate), m)), {m})
          /\ Spend(Faults(fate))
    /\ node' # node \/ ~(inFlight' \subseteq inFlight)

(* A tick does nothing, or it is a heartbeat or an election timeout; both  *)
(* are counted by the bound on timeouts.                                   *)
TickLeader(i) ==
    /\ node[i].state = "Leader"
    /\ Loop(i, NoFault, Desk(i, BroadcastAppend(node[i])), {})
    /\ inFlight' # inFlight
    /\ Spend({"timeouts"})

TickTimeout(i) ==
    /\ i \in Electable /\ ~node[i].faulted
    /\ node[i].state # "Leader" /\ node[i].term < MaxTerm
    /\ Loop(i, NoFault, Desk(i, StartPreVote(node[i])), {})
    /\ Spend({"timeouts"})

(* The process ends, with its connections, and starts again: server.Open   *)
(* restores the machine and applies what is known to be committed.         *)
Restored(i, n) == IF n.snap.index = 0 THEN New ELSE Restore(image[i][n.snap.index])

Abandoned(i) == [k \in DOMAIN calls |->
    IF calls[k].at = i /\ calls[k].got = << >> THEN [calls[k] EXCEPT !.stage = "lost"] ELSE calls[k]]

Reopen(i) ==
    /\ Restart(i)
    /\ \E n \in {Recovered(i, node[i].disk)} :
          /\ machine' = [machine EXCEPT ![i] =
                 FoldLeft(LAMBDA m, e : Apply(m, e.cmd).machine, Restored(i, n), Unapplied(n))]
          /\ ledger' = Recorded(n)
    /\ pending' = [pending EXCEPT ![i] = << >>]
    /\ reads' = [reads EXCEPT ![i] = {}]
    /\ calls' = Abandoned(i)
    /\ UNCHANGED << image, agenda >>

ServiceInit ==
    /\ Init
    /\ machine = [i \in Server |-> New] /\ pending = [i \in Server |-> << >>]
    /\ reads = [i \in Server |-> {}] /\ image = [i \in Server |-> << >>]
    /\ agenda \in Agendas /\ calls = << >> /\ ledger = << >>

ServiceNext ==
    \/ \E i \in Endpoint : Call(i)
    \/ \E i \in Server, m \in inFlight : TakeMessage(i, m)
    \/ \E i \in Server : TakeRequest(i) \/ TickLeader(i) \/ TickTimeout(i)
    \/ \E i \in Restarting : Reopen(i)

ServiceSpec == ServiceInit /\ [][ServiceNext]_serviceVars

----------------------------------------------------------------------------
(* What the committed mutations amount to, told from the ledger alone.  A  *)
(* mutation counts the first time it is committed, unless its client has   *)
(* gone on to a later request before that.                                 *)

Effective(k) ==
    /\ ledger[k] # None
    /\ \A j \in 1 .. k - 1 :
          ledger[j] # None /\ ledger[j].client = ledger[k].client => ledger[j].request < ledger[k].request

Writes(p, key) == {k \in 1 .. p : Effective(k) /\ ledger[k].key = key}

Defined(p, key) == Writes(p, key) # {} /\ ledger[SetMax(Writes(p, key))].op = "put"

ValueAt(p, key) == IF Defined(p, key) THEN ledger[SetMax(Writes(p, key))].value ELSE 0

ResultOf(k) == IF ledger[k].op = "put" THEN ledger[k].value ELSE ValueAt(k - 1, ledger[k].key)

Keys    == {q.key : q \in Range(agenda)}
Clients == {q.client : q \in Range(agenda)}

Running == {i \in Server : ~node[i].faulted}

(* SPEC.md "State = Fold(Snapshot(s), WAL[s+1 ..])": whatever restarts,    *)
(* retries and snapshots came before, a server's machine is what the       *)
(* committed mutations up to its applied index amount to, each request     *)
(* taken once; its session table knows the last request of each client.    *)
MachineIsFold ==
    \A i \in Running :
        LET p    == node[i].applied
            m    == machine[i]
            Of(c) == {k \in 1 .. p : Effective(k) /\ ledger[k].client = c}
        IN  /\ \A key \in Keys : (key \in DOMAIN m.values <=> Defined(p, key))
                                  /\ Lookup(m, key) = ValueAt(p, key)
            /\ \A c \in Clients : c \in DOMAIN m.clients <=> Of(c) # {}
            /\ \A c \in DOMAIN m.clients : LET k == SetMax(Of(c)) IN
                   m.clients[c].request = ledger[k].request /\ m.clients[c].value = ResultOf(k)

(* Replicated deduplication: an OK to a mutation means that the mutation   *)
(* is committed, and every call that sent it, at whatever server and       *)
(* however often, is told the result of its one execution.                 *)
AcknowledgedOnce ==
    \A c \in DOMAIN calls : \A g \in DOMAIN calls[c].got :
        calls[c].req.op \in {"put", "delete"} /\ calls[c].got[g].status = "OK" =>
            \E k \in 1 .. Len(ledger) :
                /\ Effective(k) /\ ledger[k] = Mutation(calls[c].req)
                /\ calls[c].got[g].value = ResultOf(k) /\ k <= calls[c].got[g].commit

(* A reply channel has room for one reply, and the loop would block on a   *)
(* second: whatever it does with a call, it answers it at most once.       *)
OneReply == \A c \in DOMAIN calls : Len(calls[c].got) <= 1

(* SPEC.md "quorum-confirmed ReadIndex barriers for linearizable reads": a *)
(* Get returns what the key had at one point of the ledger, not before any *)
(* mutation that a server had applied when the call was made.              *)
ReadsSeeWrites ==
    \A c \in DOMAIN calls : \A g \in DOMAIN calls[c].got :
        LET r == calls[c].got[g] IN
        calls[c].req.op = "get" /\ r.status \in {"OK", "NotFound"} =>
            /\ r.commit >= calls[c].floor
            /\ r.value = ValueAt(r.commit, calls[c].req.key)
            /\ r.status = "OK" <=> Defined(r.commit, calls[c].req.key)
=============================================================================
