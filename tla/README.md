# A TLA+ model of Promtact

Promtact is a replicated key-value service in Go: a Raft core, durable storage
for it, a server, and tools to test such systems (a simulator, a deterministic
simulation testing engine, an adapter host for foreign programs) with example
protocols. This directory holds a specification of its behaviour, model-checked
with TLC on small instances and, for its cores, proved with TLAPS for every
instance. Definitions are translated from the Go source; `PROJECT.json` maps
each of them to the lines it stands for.

## 1. The system and its modules

| Part | State | Modelled in |
|---|---|---|
| `raft` | role, term, vote, log over a compacted base, commit and applied index, vote masks, next/match, read barrier, voters, pending configuration | RaftLog, RaftNode, Raft |
| `server`, `statemachine` | machine with sessions, waiters, pending reads, the request queue | Machine, Service |
| `storage/raftstore`, `raftwal`, `snapshot` | hard state, log, base, snapshot | StableStore, AtomicStore, Storage |
| `storage/wal`, `faultdisk`, `uringwal` | records on a device, torn tails, disk faults | Wal, Storage |
| `storage/uring` | submission and completion ring, registered buffers | UringRing |
| `backup` | copies, checksums, manifest | Backup |
| `dst`, `sim` | event heap, virtual clock, fault windows | Engine, PaxosEngine; Raft as driver |
| `examples/paxos` | acceptor and proposer of each node | Paxos, PaxosNet, PaxosEngine |
| `internal/adapterhost`, `adapterproto` | session, request IDs, child process | Adapter |

How the parts interact. The server (or a test driver) runs one Raft node in a
single thread. Each turn of its loop hands the node one message, tick or
request; the node calls its store synchronously and leaves messages in an
outbound buffer; the loop then stops if the store failed, sends the messages,
applies what was committed to the state machine, answers who waits for it, and
compacts. The store turns a call into a WAL record or a snapshot file. Nodes
meet only through messages, which SPEC.md allows to be delayed, duplicated,
reordered or dropped. The DST engine replaces network and clock by a heap of
events; the adapter host lets it drive a cluster in another process.

### The Raft cluster

* **RaftLog**: a log of entries after a base, with absolute indexes; used for
  the node's log and for the log on disk.
* **StableStore**: the durable image of a node (hard state, log, snapshot), what
  each store operation accepts and the image it leaves, and what `Open` refuses
  or completes.
* **RaftNode**: package raft. The code is single-threaded, so a handler is an
  operator from the node record before it to the node record after it; helpers
  have the code's names. The record holds the fields of the Go struct, the
  node's `disk`, the messages `out` of the running handler, and the fate of its
  store calls: the first `ops` calls succeed, the next one fails, and `landed`
  says whether it reached the disk all the same. `FailStorage` is fail-stop:
  the node stays `faulted` until a restart, and what it had to send is gone.
* **Raft**: the cluster. `node` holds the servers, `inFlight` the messages under
  way, `msgs` every message ever sent (for properties about the past),
  `readFloor` the highest commit index when each read began, `used` how much of
  each bound is spent. One action per event: `Heartbeat` and `ElectionTimeout`
  (Tick), `Receive`, `ClientPropose`, `BeginJoint`, `BeginFinal`, `BeginRead`,
  `Transfer`, `ApplyAt`, `CompactAt`, `Restart`. An action is the whole turn of
  the driver: with `Driver = "server"` application and periodic compaction are
  part of it; with `Driver = "caller"` they happen when a caller of package raft
  asks, as in `sim` and `dst/raftcluster`.
* **RaftProperties**: the type invariant and the properties.
* **MCScenarios**, **MCRaft**: instances for TLC. Besides the empty cluster, runs
  start from states that the handlers themselves reach: a scenario is a sequence
  of events (timeouts, proposals, exchanges of messages among some nodes) that
  `Play` runs through the operators of RaftNode.

### The service

* **Machine**: `statemachine.Machine`: values, and for each client its last
  request and result; `Apply`, `Cached`, `Snapshot`, `Restore`.
* **Service** composes Raft with one machine per server. Its actions are those
  of the loop: `Call` (a client connects and is queued or answered Busy),
  `TakeRequest`, `TakeMessage`, `TickLeader`, `TickTimeout`, and `Reopen`
  (restart and `server.Open`). Each is a whole turn: handler, storage check,
  sends, `apply` with its answers and compaction, `completeReads`. `ledger`
  records the committed mutations and is what the properties speak of.

### Storage

* **Wal**: records with sequence number and checksum, `Recover`, and the replay
  of `raftwal.Open`. A record is two units, so that a write can be torn inside
  it; a checksum is modelled by telling damaged units from sound ones.
* **Storage**: `raftstore.Store` step by step on one of four devices (memory,
  file, io_uring blocks, faultdisk): stage, write, sync, change memory; write,
  sync, rename, sync the directory; `Open` with truncation and completion of a
  compaction. Any step may fail and a crash may fall between any two.
* **AtomicStore**: what the store promises: a call replaces the durable image in
  one step or, if it fails or a crash cuts it off, at the crash or never.
  `StoreIsAtomic` is the refinement: Storage implements AtomicStore under the
  mapping `Atomic`, where the abstract disk is what `Open` would read back.
* **Backup** adds `backup.Create` and `backup.Restore` to Storage, file by file,
  while the node is down.
* **UringRing**: `submitAndWait`, `AppendDurable` and the device's `Sync` against
  a kernel that takes entries within `io_uring_enter`, runs them at its own
  time, and may interrupt, refuse and fail.

### Paxos, the DST engine and the adapter host

* **Paxos**: one node of the example. **PaxosNet**: nodes over a network that may
  deliver any message sent at any time, any number of times, or never.
* **Engine**: the heap of `dst.Engine`, the injectors, and the linear scan of
  `sim`. **PaxosEngine**: Paxos on the engine, `Engine.Step` tick by tick and
  delivery by delivery; the seeded draws are nondeterministic.
  `EngineIsNetwork` is the refinement: every behaviour of PaxosEngine is one of
  PaxosNet.
* **Adapter**: `Session`, `Runner` and `Process` with the engine's program, one
  request and one response at a time, against an adapter that misbehaves.

**RaftNodeProofs**, **RaftStepProofs**, **RaftProofs**, **RaftCalmProofs**,
**RaftElectionProofs**, **PaxosNodeProofs**, **PaxosProofs** and **UringProofs**
hold the proofs. Operators named `Bad...` are wrong variants of
the definition they precede. No other definition uses them: they document which
mistake each property can see.

### Abstractions

A voter mask is a set; the outbound buffer is a set of messages; a command is
opaque in Raft and a mutation in Service. Raft's `elapsed` is left out and a
timeout may fire at any time (outside `Tick` a follower has `elapsed < timeout`,
so the `leaderActive` test is "a leader is known"). A receipt that changes
nothing, and a heartbeat that repeats messages under way, are not steps. The
checksums of WAL records and of backup files are assumed to detect damage.

## 2. Runs

Behaviours end when their bounds are used up, so the runs have CHECK_DEADLOCK
FALSE. Bounds are constants `Max...` that appear in the guards.

| Run | Starts from | Bounds | Checks |
|---|---|---|---|
| election | empty, 3 nodes, symmetric | 2 timeouts, 2 terms, 1 failed write, 1 restart; Append lost | ElectionSafety, OneVotePerTerm, NoTermWithoutQuorum, LeaderCompleteness |
| | n1, leader of terms 1 and 3, spreads its entry of term 1; n3, leader of term 2, has timed out | | |
| cluster | n1 leads | 1 command, 1 duplicate, 1 failed write, 1 restart | TypeOK, AckDurable, VoteDurable, StateMachineSafety, LeaderCompleteness, ReadFreshness, CommittedIsForever |
| | n1 has an entry of its own, the others forgot it | 1 timeout, 1 restart | |
| | n1 and n2 committed an entry n3 never saw, n2 forgot its leader | 2 timeouts | |
| | n2 overtook n1, which had just committed | 1 read | |
| | n2, leader of term 2, replaces an entry of n1 | 1 failed write, 1 restart | |
| reconfigure | n1 leads, caller driver | 1 command, 1 compaction, 1 failed write, 1 restart | DiskMirrorsNode, StoreContractKept, CommittedConfigAgreement, JointCommittedOpensFinal, RecoverySucceeds |
| | n1 and n2 committed an entry n3 never saw | 1 command, 2 compactions | |
| | the same, n1 has compacted | 1 failed write, 1 restart | |
| | n1 leads, change to {n2, n3} | 2 configuration entries, 1 failed write, 1 restart | |
| | n1 leads, change to {n2, n3} | 1 configuration entry, 1 compaction, 1 restart | |
| | a joint entry that n3 has and does not know committed | 1 configuration entry, 1 compaction, 1 restart | |
| | n2, leader of term 2, replaces an entry of n1 | 1 failed write, 1 restart | |
| | n1, leader of term 3, has a final entry of term 1 that conflicts with an entry of n3 | 1 failed write, 1 restart | |
| handover | n1 has an entry of its own, n3 stopped; fair | 1 transfer | LogMatching, FollowersCatchUp, TransferHandsOver |
| | n1 deposed with a log as long as n2's, or shorter (n3 stopped); fair | | |
| | n1 deposed with a longer log than n2's, n3 stopped; fair | 1 command | |
| | n2 leads and has compacted what n3 lacks, n1 stopped; fair | | |
| | n2 leads, n3 has compacted what n2 has not, n1 stopped; fair | | |
| service | a deposed or an overtaken leader, or an entry acknowledged and not known to be | 3 calls, queue of 1, snapshot every 3 entries, 1 tick, 1 restart; InstallSnapshot lost | MachineIsFold, AcknowledgedOnce, OneReply, ReadsSeeWrites |
| storage | a new node, and one with four records; four devices | 2 calls, 1 error, 2 crashes, 1 damage to a backup | MemoryMirrorsMedium, RestoredIsOriginal, StoreIsAtomic, AcceptedImageIsGenuine, RecoveryCompletes |
| paxos | 3 nodes, 2 clients, 6 fault plans | 2 proposals, 5 time steps, delay up to 1 | SingleChoice, RootIsEarliest, AcceptedOnce, DecidedIsChosen, QuietClusterChooses, EngineIsNetwork |
| ring | counters about to wrap | 2 records, 4 calls, 3 errors, 1 interrupt | CountedIsDurable, NoEntryOverwritten, SyncReturns |
| adapter | 2 nodes, IDs wrap at 12 | 3 steps, 2 messages, 2 faults | AnswersMatch, DeliveredOnce, CloseReaps |

A run with several rows has several initial states. Each comes with its own
budget: a start is a pair of events and of what is allowed of each bound, so that
one run asks one question of several situations without multiplying their events.
The bounds, `MaxTerm` included, limit what happens after the start.

The bounds are small, and are chosen so that each hazard is reached: every
property has a mutant, a plausible mistake in one mapped definition, that makes
TLC report that very property under the same configuration. The election run
loses Append messages because replication is the subject of the other runs. Two
calls suffice for Storage because a call leaves nothing behind but the durable
image, of which there are two to start from; two crashes let the second fall into
the recovery from the first. In the paxos run the second proposer may start
before, between and after every message of the first, and a timeout fires once.

What the properties say is in the comment above each. In short: votes and
acknowledgements are on disk before they are sent; committed entries agree, last
and are held by every leader; reads are fresh; a retried mutation takes effect
once and every caller is told its one result; every call of the store is atomic
and durable; damaged images are refused and recovery comes to an end; one value
is chosen; the heap is a linear scan; a Sync returns only when the record is
durable; a session never takes an old response for a new one.

### Fairness

* Raft (`Fairness`): a leader's ticks keep coming, and a node with mail under way
  eventually receives some of it. The server justifies the first by its ticker
  and the second by its loop, once nodes stay up and links are healed; no
  fairness is assumed of timeouts, proposals or faults. In `handover` no election
  timeout fires: the leader is stable.
* Storage: a node that is down and whose image can be opened is started again,
  and a record that is staged is written and synced; these are straight-line code.
  None is assumed of calls, errors and crashes, whose bounds end them. Backup adds
  that the operator starts the node again.
* UringRing: the process runs and the kernel finishes what it has taken.
* Adapter: the host runs, and an adapter answers, or exits at the end of its
  stdin. One that did neither would block the host; only its context ends that.

PaxosEngine states no fairness: `QuietClusterChooses` is an invariant at a given
virtual time.

### Where code and documentation disagree

Three runs state what a document or comment says and find a counterexample:

* `split_brain`: an InstallSnapshot below the follower's commit index takes its
  voters back (raft/node.go:263), and two nodes commit different entries at one
  index.
* `stale_machine`: a follower that installs a snapshot while it runs moves its
  applied index without its state machine, which is restored only in `Open`
  (server/server.go:118). SPEC.md calls the state the fold of snapshot and log.
* `open_read_error`: `FileDevice.DurableBytes` returns nothing when its sync or
  read fails, and `wal.Open` calls it twice; if only the first fails, synced
  records are truncated.

Modelling the Raft core showed further cases in which the code does not do what
one would expect of it. The runs reach them, and the property that each would
violate excepts it by name, so that a pass says that nothing else goes wrong:

* `RecoverySucceeds`: three images that a restart refuses. `InstallCutShort`: a
  crash between the two store calls of `onInstallSnapshot` on a lagging follower
  leaves a snapshot beyond the log, which `raftstore.Open` refuses (store.go:43),
  although the comment above says that such a crash "is completed here".
  `VotersAhead`: `Compact` at Applied < Commit stores the voters of Commit
  (node.go:222). `ConfigOverConflict`: a configuration entry that replaces a
  conflicting one is not validated (node.go:370) and recovery finds two that are
  not committed.
* `JointCommittedOpensFinal`: `pendingConfig` survives a snapshot over its entry
  (node.go:262), and the immediate commit by a single voter (node.go:495; no run
  has a single voter).
* `FollowersCatchUp`: a node whose log is longer than its leader's is not caught up
  while the leader's log does not grow (node.go:425). An old response takes `next`
  back below a compacted base, and InstallSnapshot repeats for ever, or the leader
  probes below the follower's base (node.go:435, 278).

A retried Get reuses its read context (server.go:227); the clients of `service` do
not repeat a Get. `service` also loses InstallSnapshot, which is the subject of
`stale_machine`, and `storage` has no read errors, the subject of
`open_read_error`. `reconfigure` has no election after its start.

## 3. Proofs

### Votes (RaftProofs)

The theorems hold for every finite set of servers, every driver, all bounds and
any number of messages, failed writes and restarts. They use only the named
assumptions of the modules: `None` is not a server, command or read context; the
initial voters are servers and servers are finite; the bounds are natural
numbers; the driver is one of the two.

* `TypeCorrectness`: `Spec => []TypeOK`.
* `VotesAreDurable`: `Spec => []VoteDurable`, SPEC.md's
  "Persist(term, vote) happens-before Send(VoteGranted)".
* `VotesAreUnique`: `Spec => []OneVotePerTerm`.

The argument. `OneVotePerTerm` is not inductive: nothing in it says that a node
about to vote remembers its earlier votes. `VoteDurable` does: every vote ever
sent is recorded on the voter's disk, or the disk has a later term. The store
refuses to replace a vote within a term (`AcceptsHardState`), so the disk alone
decides whether a vote may still be cast, whatever the node's memory says. The
inductive invariant `IInv` is `TypeOK`, node i has id i, `VoteDurable` and
`OneVotePerTerm`.

A turn is a composition of some thirty operators. The relation `Evolves(n, p)`
says what each of them keeps: types, identity, a hard state that only `Grows`,
and every vote in `out` recorded on the disk. RaftNodeProofs has one lemma for
each helper and for the handlers of elections, RaftStepProofs for replication,
snapshots, `Step`, the callers' operations and recovery; RaftProofs takes one step
per action of `Next`. Induction over data is replaced by a least counterexample in
the natural numbers (for the maximum of a finite bounded set).

### Elections (RaftElectionProofs)

* `LeadersAreUnique`: `FixedMembership => (Spec => []ElectionSafety)`. No two nodes
  ever send an append, a snapshot or a transfer as leaders of one term.

`FixedMembership` says that every server is in the start configuration and that
nobody asks for another; the `election` run satisfies it. Everything else is
as above: any number of servers, any driver, messages lost, repeated and
late, writes that fail, restarts, compaction and installed snapshots.

The argument. `ElectionSafety` speaks of messages, and is not inductive: nothing
in it says why a node may act as a leader. `EInv` adds this to `IInv`. What a
candidate counts (`voteMask`) are votes that were really sent, for it and in its
term; a leader, and the sender of any message of a leader, is `Elected`: the
nodes of some majority have voted for it in that term. Two majorities share a
node, and by `OneVotePerTerm` that node voted for one candidate only. Whether a
vote was sent is read from `msgs`, the history, so it stays true when candidate or
voter crash. (A cluster of one node elects itself without a message.) A majority is
one of the configuration the node works with, so `EInv` also keeps that
configuration the start configuration: no entry, snapshot or message carries
another (`Steady`).

Most handlers hold no election. `Calm(n, p)` says so once: n's role, term and
counted votes stay or it becomes a follower, what it sends as a leader it sends
as the leader it was. RaftStepProofs and RaftCalmProofs show it operator by
operator; only `startElection`, `becomeLeader` and `onVoteResponse` are
treated by themselves, and `StepSound` puts the two together.

With membership changes the argument fails at its last step: a node votes and
counts by the configuration it works with, and one that an installed snapshot has
taken back (`split_brain`) may have majorities that do not meet the others'.
`ElectionSafety` is not claimed there.

### Agreement (PaxosProofs)

For any number of nodes, any values, and the network of PaxosNet, on which any
message ever sent may arrive at any time, any number of times, or never:

* `Agreement`: `NetSpec => []SingleChoice`, the example's `checkSingleChoice`.
* `DecisionsAreChosen`: `NetSpec => []DecidedIsChosen`.

The assumptions are that there is at least one node and that the absent value is
not a value. With the refinement `EngineIsNetwork`, which TLC checks on the paxos
instance, the theorems carry over to runs on the engine.

The argument. A pair of number and value is *claimed* if some node has accepted it
or was asked to. `SingleChoice` follows from two facts about claims: at one number
there is one value, and a claimed pair is `Safe`, that is, for every lower number
there is a quorum whose members have promised more and have voted there, if at
all, for that same value. To be inductive these need what the proposer knows
(`Prepared`: its promises come from nodes that cannot vote below its number any
more, and its best pair is their highest vote; `Counted`: those it counts have
voted for its value), what a Promise or Accepted says of its sender
(`MessageInv`), and that the owner of a number is the only one to claim at it
(`Backed`, with `OneOwner`: `round * N + i` is injective). `IInv` is their
conjunction. It takes nodes and messages as parameters, because `Propose` of a
node that completes a quorum by itself does several things at once: the proof is
a chain of elementary steps. `Keeps` says once for all of them what a step of one
node leaves intact for the others; each handler then has to answer only for what
it changes itself. PaxosNodeProofs has the invariant, `Keeps` and the handlers
that begin no phase, PaxosProofs the rest. New claims arise in `startAccepting`
alone (`ChosenIsSafe`).

### The ring (UringProofs)

For rings, registered buffers and files of every size, wherever the ring counters
stand, and any number of calls, failed requests and interrupted system calls:

* `CountedRecordsAreDurable`: `Spec => []CountedIsDurable`.
* `EntriesSurvive`: `Spec => []NoEntryOverwritten`.

The assumption is that both ring sizes divide the width of the counters and are
smaller than it (2^32 and powers of two in the code).

The argument. A call publishes one entry and the kernel takes at most one per
`io_uring_enter`. So once a call has failed and left an entry behind, later calls
are handed older entries than their own, and it seems that a writer could take
the completion of an old write for its new one. It cannot, since user data grow
from call to call (`Fresh`): the completion of an older entry does not match,
the call fails, and no further record is counted. `Queued` says when the
entry that the kernel is about to take is the caller's own: exactly if it is alone
in the ring. In that case (`Taken`, `Answered`) the kernel has no other request,
the buffer still holds the record when the kernel reads it, and the FSYNC that
follows finds it written. Writes left behind only ever aim at the block after the
durable ones (`Pending`). Both theorems rest on arithmetic of counters that wrap:
the lemmas `SlotsApart` (two live entries never share a slot), `TailSlot` and
`DistanceSteps`.

`CountedIsDurable`, and with it `Orderly` in the invariant, is conditional on no
wait for the kernel having been given up: after that a request may run at any time.

### Only model-checked

All other properties. Liveness and fairness are out of reach of the provers, and
so is everything that rests on recursive operators: the heap and what is built on
it (PaxosEngine, Adapter), the scenarios. Machine and Storage fold over logs and
records, and what a fold computes for every log needs induction over data; so
`MachineIsFold` and the properties of calls that rest on it, `MemoryMirrorsMedium`,
`RestoredIsOriginal` and the refinement `StoreIsAtomic` are checked, and so is
`EngineIsNetwork`. Under membership changes state machine safety cannot be
proved, since it does not hold (`split_brain`); in a cluster of fixed membership it,
`LogMatching`, `LeaderCompleteness`, `CommittedIsForever` and `ReadFreshness` would
build on `LeadersAreUnique` and are not proved. Neither are `DiskMirrorsNode`,
`StoreContractKept` and `AckDurable`, which need an invariant over every operator of
the node, as `Evolves` is one, and `RecoverySucceeds`, which would build on them.

## 4. Not modelled

* In Raft: elections while a joint configuration is under way, other than in one
  start of `reconfigure` and in `split_brain`; more than one outstanding read of
  one node; overflow of terms and indexes (64 bits); the capacity of the outbound
  buffer, which no driver can reach since it drains after each handler.
* In the server: TCP, TLS, metrics, shutdown; read contexts of IDs beyond 32 bits;
  what a server still answers in the turn after a failed compaction.
* In storage: whether the directory entry of a new WAL file survives a crash
  (`OpenFileDevice` does not sync the directory); set-up and tear-down of an
  io_uring; a Sync repeated after a failed wait, whose buffer the kernel may
  still read (the node stops at the first error and does not repeat it); what an
  interrupted `Restore` leaves behind, and a backup of a running node.
* `sim` and `dst/raftcluster` have stores of their own, without `ResetBase` or
  devices; the models use the production store. Trace hashes are left out.
* Calls of the adapter host that overlap; length limits of its frames.
* `protocol` (framing), `server/spec.go`, `dst/scenario`, `internal/cli`,
  `internal/apisurface` read and write formats and have no protocol state.
  `raft/membership.go` is used only by its own test.
* `examples/tokenring-consumer` and `chaos`: a small consumer of the engine, and a
  script of host commands with its undoing; both stand outside the replicated
  system.
