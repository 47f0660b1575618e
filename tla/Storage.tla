------------------------------ MODULE Storage ------------------------------
(***************************************************************************)
(* raftstore.Store step by step: a WAL record staged on a device, written  *)
(* and synced; a snapshot written to a temporary file, synced, renamed and *)
(* its directory synced; an Open that scans, truncates a torn tail and     *)
(* completes an interrupted compaction.  Device errors, and a crash        *)
(* between any two steps.                                                  *)
(*                                                                         *)
(* The device is one of the four the repository implements: wal's          *)
(* MemoryDevice and FileDevice, uringwal.Device and faultdisk.Device.      *)
(* Operators named Bad... are deliberately wrong variants.                 *)
(***************************************************************************)
EXTENDS Wal

CONSTANTS Kinds,       \* the devices this instance uses
          Histories,   \* sequences of bodies: what the WAL may hold at the start
          MaxTerm,     \* bound on terms
          MaxIndex,    \* bound on log indexes
          MaxCalls,    \* bound on calls of the node
          MaxErrors,   \* bound on failing device and file operations
          MaxReadErrors, \* bound on failing syncs in FileDevice.DurableBytes
          MaxCrashes   \* bound on crashes

VARIABLES kind,      \* the device
          durable,   \* what has reached the medium
          cache,     \* written, not known to be on the medium
          pending,   \* still in process memory
          previous,  \* faultdisk: the image before the last Sync
          genuine,   \* history: the images the medium really held at the last crash
          snap,      \* the snapshot files: tmp, path, and kept across a crash
          replayed,  \* auxiliary: what Open would give back now
          proc,      \* the process: its stage, call in progress and memory
          used       \* calls, errors and crashes so far

vars == << kind, durable, cache, pending, previous, genuine, snap, replayed, proc, used >>

device == << durable, cache, pending, previous, genuine >>

NoCall == [type |-> "none"]
HardCall(h)      == [type |-> "hard", hard |-> h]
AppendCall(k, e) == [type |-> "append", index |-> k, entry |-> e]
SnapshotCall(s)  == [type |-> "snapshot", snap |-> s]
CompactCall(k)   == [type |-> "compact", index |-> k]

(* A snapshot file: its image, and whether its bytes were synced. *)
File(s, synced) == [img |-> s, synced |-> synced]
NoFile == File(NoSnapshot, TRUE)

Off == [stage |-> "down", opening |-> FALSE, call |-> NoCall, mem |-> Blank,
        nextSeq |-> 1, last |-> 0, offered |-> NoSnapshot]

Unused == [calls |-> 0, errors |-> 0, reads |-> 0, crashes |-> 0]

(* What is read back of a WAL image and a snapshot. *)
Reread(w, s) ==
    IF Recoverable(w) /\ Replay(w).ok
    THEN [ok |-> TRUE, disk |-> DiskOf(Replay(w), s)]
    ELSE [ok |-> FALSE, disk |-> EmptyDisk]

Spend(what) == used' = [used EXCEPT ![what] = @ + 1]

Init ==
    /\ kind \in Kinds
    /\ \E h \in Histories :
         durable = FlattenSeq([i \in DOMAIN h |-> Encode(Record(i, h[i]))])
    /\ cache = << >> /\ pending = << >>
    /\ previous = << >> /\ genuine = {durable}
    /\ snap = [tmp |-> NoFile, path |-> NoFile, kept |-> NoFile]
    /\ replayed = Reread(durable, NoSnapshot)
    /\ proc = Off
    /\ used = Unused

-----------------------------------------------------------------------------
(* Calls.  A refused call changes nothing, so only accepted ones are       *)
(* steps.  raft.Node follows SaveSnapshot by CompactLog at once.           *)

HardStates ==
    { h \in [term : proc.mem.hard.term..MaxTerm, votedFor : Server \cup {None},
             commit : proc.mem.hard.commit..LastIndex(proc.mem)] :
        h # proc.mem.hard /\ AcceptsHardState(proc.mem, h) }

Entries == { NormalEntry(t, c) : t \in 1..proc.mem.hard.term, c \in Command }

(* raft.Node.Compact takes a committed index and its term; InstallSnapshot *)
(* brings any later index.                                                 *)
Snapshots ==
    { s \in [index : proc.mem.base + 1..MaxIndex, term : 1..MaxTerm, old : {Server}, new : {{}}] :
        /\ s.index >= proc.last
        /\ s.index <= proc.mem.hard.commit => s.term = TermAt(proc.mem, s.index) }

Calls ==
    IF proc.offered # NoSnapshot THEN { CompactCall(proc.offered.index) }
    ELSE { HardCall(h) : h \in HardStates }
         \cup { AppendCall(k, e) :
                  k \in { i \in proc.mem.hard.commit + 1..MaxIndex : AcceptsAppend(proc.mem, i) },
                  e \in Entries }
         \cup { SnapshotCall(s) : s \in Snapshots }

Call ==
    /\ proc.stage = "ready"
    /\ used.calls < MaxCalls
    /\ \E c \in Calls :
         proc' = [proc EXCEPT !.call = c,
                              !.stage = IF c.type = "snapshot" THEN "temp" ELSE "append"]
    /\ Spend("calls")
    /\ UNCHANGED << kind, device, snap >>

-----------------------------------------------------------------------------
(* raftwal.Store.append: stage one record, sync, then change memory.       *)

(* CompactLog of raftstore: keep the suffix of a log that agrees with the  *)
(* snapshot, drop the log otherwise.                                       *)
FenceBody(m, s) ==
    IF Present(m, s.index) /\ TermAt(m, s.index) = s.term
    THEN CompactBody(s.index) ELSE ResetBody(s.index, s.term)

Body ==
    CASE proc.call.type = "hard"    -> HardBody(proc.call.hard)
      [] proc.call.type = "append"  -> EntryBody(proc.call.index, proc.call.entry)
      [] proc.call.type = "compact" -> FenceBody(proc.mem, proc.offered)

Staged == Encode(Record(proc.nextSeq, Body))

(* The devices that keep appended bytes in memory until Sync. *)
Buffers == kind \in {"uring", "fault"}

AppendRecord ==
    /\ proc.stage = "append"
    /\ IF Buffers THEN pending' = pending \o Staged /\ UNCHANGED cache
       ELSE cache' = cache \o Staged /\ UNCHANGED pending
    /\ proc' = [proc EXCEPT !.stage = "sync", !.nextSeq = @ + 1]
    /\ UNCHANGED << kind, durable, previous, genuine, snap, used >>

(* uringwal.Device.Sync writes the block before it syncs it. *)
WriteBlock ==
    /\ proc.stage = "sync" /\ kind = "uring" /\ pending # << >>
    /\ cache' = pending /\ pending' = << >>
    /\ UNCHANGED << kind, durable, previous, genuine, snap, proc, used >>

Done(p) == [p EXCEPT !.stage = "ready", !.opening = FALSE, !.call = NoCall]

(* Wrong: memory changes although the record is only staged. *)
BadSyncRecord ==
    /\ proc.stage = "sync"
    /\ proc' = Done([proc EXCEPT !.mem = Applied(@, Body),
                                 !.offered = IF proc.call.type = "compact" THEN NoSnapshot ELSE @])
    /\ UNCHANGED << kind, device, snap, used >>

(* What a Sync leaves on the medium; faultdisk also keeps what was there. *)
Synced == durable \o cache \o pending

Kept == IF kind = "fault" THEN durable ELSE previous

SyncRecord ==
    /\ proc.stage = "sync"
    /\ kind = "uring" => pending = << >>
    /\ durable' = Synced
    /\ cache' = << >> /\ pending' = << >>
    /\ previous' = Kept
    /\ proc' = Done([proc EXCEPT !.mem = Applied(@, Body),
                                 !.offered = IF proc.call.type = "compact" THEN NoSnapshot ELSE @])
    /\ UNCHANGED << kind, genuine, snap, used >>

-----------------------------------------------------------------------------
(* snapshot.Store.Save: write, sync, rename, sync the directory.           *)

WriteTemp ==
    /\ proc.stage = "temp"
    /\ snap' = [snap EXCEPT !.tmp = File(proc.call.snap, FALSE)]
    /\ proc' = [proc EXCEPT !.stage = "flush"]
    /\ UNCHANGED << kind, device, used >>

(* Wrong: the temporary file is renamed without being synced. *)
BadFlushTemp ==
    /\ proc.stage = "flush"
    /\ proc' = [proc EXCEPT !.stage = "rename"]
    /\ UNCHANGED << kind, device, snap, used >>

FlushTemp ==
    /\ proc.stage = "flush"
    /\ snap' = [snap EXCEPT !.tmp.synced = TRUE]
    /\ proc' = [proc EXCEPT !.stage = "rename"]
    /\ UNCHANGED << kind, device, used >>

Rename ==
    /\ proc.stage = "rename"
    /\ snap' = [snap EXCEPT !.path = snap.tmp, !.tmp = NoFile]
    /\ proc' = [proc EXCEPT !.stage = "syncdir"]
    /\ UNCHANGED << kind, device, used >>

SyncDirectory ==
    /\ proc.stage = "syncdir"
    /\ snap' = [snap EXCEPT !.kept = snap.path]
    /\ proc' = Done([proc EXCEPT !.last = proc.call.snap.index, !.offered = proc.call.snap])
    /\ UNCHANGED << kind, device, used >>

-----------------------------------------------------------------------------
(* Errors.  The node fail-stops on every error of its store.               *)

(* What FileDevice.Append, or the block write of uringwal, was writing. *)
Writing ==
    CASE proc.stage = "append" /\ kind = "file" -> Staged
      [] proc.stage = "sync" /\ kind = "uring"  -> pending
      [] OTHER                                  -> << >>

ShortWrite ==
    /\ Writing # << >>
    /\ \E n \in 0..RecordUnits - 1 : cache' = cache \o SubSeq(Writing, 1, n)
    /\ UNCHANGED << durable, pending, previous, genuine, snap >>

SyncFails ==
    /\ proc.stage = "sync" /\ kind \in {"file", "uring"} /\ cache # << >>
    /\ UNCHANGED << device, snap >>

SaveFails ==
    /\ proc.stage \in {"temp", "flush", "rename", "syncdir"}
    /\ snap' = [snap EXCEPT !.tmp = NoFile]
    /\ UNCHANGED device

Fail ==
    /\ used.errors < MaxErrors
    /\ ShortWrite \/ SyncFails \/ SaveFails
    /\ proc' = [proc EXCEPT !.stage = "failed"]
    /\ Spend("errors")
    /\ UNCHANGED kind

-----------------------------------------------------------------------------
(* Crashes.  Memory is lost; of what was written but not synced some       *)
(* prefix is on the medium; of a rename whose directory was not synced     *)
(* either file is there, and bytes never synced are no image.              *)

Rot(image) == { [image EXCEPT ![i] = Rotten] : i \in DOMAIN image }

(* The units of record j overwritten by those of record i. *)
Misdirected(image) ==
    { [u \in DOMAIN image |->
         IF (u - 1) \div RecordUnits = j - 1
         THEN image[(i - 1) * RecordUnits + ((u - 1) % RecordUnits) + 1]
         ELSE image[u]] :
      << i, j >> \in { p \in (1..RecordCount(image)) \X (1..RecordCount(image)) : p[1] # p[2] } }

(* faultdisk.Device.Crash: each fault may or may not hit, in this order. *)
Faulty(image, before) ==
    LET flipped == {image} \cup Rot(image)
        moved   == flipped \cup UNION { Misdirected(f) : f \in flipped }
    IN  moved \cup (IF before # << >> THEN {before} ELSE {})

Survivors(written) == { SubSeq(written, 1, n) : n \in 0..Len(written) }

Garbage == File(NoSnapshot, FALSE)

Found(f) == IF f.synced THEN f ELSE Garbage

Crash ==
    /\ proc.stage # "down"
    /\ used.crashes < MaxCrashes
    /\ \E s \in Survivors(cache) :
         /\ genuine' = {durable \o s, previous}
         /\ IF kind = "fault" THEN durable' \in Faulty(durable, previous)
            ELSE durable' = durable \o s
    /\ cache' = << >> /\ pending' = << >> /\ previous' = << >>
    /\ \E f \in {snap.path, snap.kept} :
         snap' = [tmp |-> NoFile, path |-> Found(f), kept |-> Found(f)]
    /\ proc' = Off
    /\ Spend("crashes")
    /\ UNCHANGED kind

-----------------------------------------------------------------------------
(* raftstore.Open over snapshot.OpenStore, raftwal.Open and wal.Open.      *)

(* FileDevice.DurableBytes syncs and reads, and returns nil on an error. *)
Reads == {durable} \cup (IF kind = "file" /\ used.reads < MaxReadErrors THEN {<< >>} ELSE {})

(* Wrong: every device refuses a torn tail. *)
BadWholeBlocks == Len(durable) = ValidUnits(durable)

(* uringwal.readRecords refuses a file that ends inside a block. *)
WholeBlocks == kind = "uring" => Len(durable) = ValidUnits(durable)

TruncateDurable(size) == SubSeq(durable, 1, size)

(* wal.Open drops the tail behind the records it read. *)
Truncated(first, second) ==
    IF ValidUnits(first) # Len(second) THEN TruncateDurable(ValidUnits(first)) ELSE durable

(* The process once the files are read: a snapshot ahead of the WAL's base *)
(* is an interrupted compaction, and Open appends its fence first.         *)
Reopened(m, s, q) ==
    IF s.index > m.base
    THEN [Off EXCEPT !.stage = "append", !.opening = TRUE, !.call = CompactCall(s.index),
                     !.mem = m, !.nextSeq = q, !.last = s.index, !.offered = s]
    ELSE [Off EXCEPT !.stage = "ready", !.mem = m, !.nextSeq = q, !.last = s.index]

Open ==
    /\ proc.stage = "down"
    /\ snap.path.synced /\ WholeBlocks
    /\ \E first \in Reads, second \in Reads :
         /\ Recoverable(first)
         /\ durable' = Truncated(first, second)
         /\ proc' = IF Replay(first).ok /\ Openable(DiskOf(Replay(first), snap.path.img))
                    THEN Reopened(Replay(first), snap.path.img, RecordCount(first) + 1)
                    ELSE proc
         /\ used' = [used EXCEPT !.reads = @ + Cardinality({first, second} \ {durable})]
    /\ UNCHANGED << kind, cache, pending, previous, genuine, snap >>

(* FileDevice.TruncateDurable fails before or after it has cut the tail    *)
(* off, and Open with it.                                                  *)
TruncateFails ==
    /\ proc.stage = "down" /\ kind = "file" /\ snap.path.synced
    /\ used.errors < MaxErrors
    /\ Recoverable(durable) /\ ValidUnits(durable) # Len(durable)
    /\ durable' \in {durable, TruncateDurable(ValidUnits(durable))}
    /\ Spend("errors")
    /\ UNCHANGED << kind, cache, pending, previous, genuine, snap, proc >>

-----------------------------------------------------------------------------
Step == Call \/ AppendRecord \/ WriteBlock \/ SyncRecord
        \/ WriteTemp \/ FlushTemp \/ Rename \/ SyncDirectory \/ Open

Next == /\ Step \/ Fail \/ TruncateFails \/ Crash
        /\ replayed' = Reread(durable', snap'.kept.img)

(* A process that runs keeps running, and a node that is down is started:  *)
(* weak fairness of Open, written out with the condition for its success.  *)
CanOpen == /\ proc.stage = "down" /\ snap.path.synced /\ WholeBlocks
           /\ replayed.ok /\ Openable(replayed.disk)

Fairness ==
    /\ []<>~CanOpen \/ []<><<proc.stage = "down" /\ proc'.stage # "down">>_proc
    /\ WF_proc(AppendRecord) /\ WF_pending(WriteBlock) /\ WF_proc(SyncRecord)

Spec == Init /\ [][Next]_vars /\ Fairness

-----------------------------------------------------------------------------
(* The devices of the refinement lose nothing they have synced; faultdisk, *)
(* which does, is left out of it.                                          *)
Atomic == INSTANCE AtomicStore WITH
    disk  <- IF kind = "fault" THEN EmptyDisk ELSE replayed.disk,
    stage <- CASE kind = "fault" \/ proc.opening            -> "down"
               [] proc.stage \in {"down", "ready", "failed"} -> proc.stage
               [] OTHER                                      -> "busy",
    op    <- IF kind = "fault" \/ proc.opening THEN NoCall ELSE proc.call

(* Every call of the store is atomic and durable once it returns, whatever *)
(* the device and wherever a crash falls (raftstore/store.go).             *)
StoreIsAtomic == Atomic!Spec

(* raftwal changes its memory only after Sync: between calls, what a node  *)
(* works with is what a restart would read back.                           *)
MemoryMirrorsMedium ==
    proc.stage = "ready" =>
        /\ replayed.ok /\ replayed.disk = DiskOf(proc.mem, snap.path.img)
        /\ proc.nextSeq = RecordCount(durable) + 1
        /\ snap.path = snap.kept
        /\ proc.offered \in {NoSnapshot, snap.kept.img}

(* wal.Recover against faultdisk: an image that Open accepts is one the    *)
(* medium really held, before the last sync at the oldest.  Bit rot and    *)
(* misdirected writes never get past checksum and sequence number.         *)
AcceptedImageIsGenuine ==
    [][proc.stage = "down" /\ proc'.stage # "down"
         => Records(durable) \in { Records(g) : g \in genuine }]_vars

(* An Open that meets no device error comes to an end, also one that has   *)
(* to truncate a torn tail or to complete a compaction, unless the         *)
(* snapshot is ahead of the whole log.                                     *)
Reopenable == /\ proc.stage = "down" /\ kind \in {"memory", "file"}
              /\ replayed.disk.snap.index <= LastIndex(replayed.disk)

RecoveryCompletes == Reopenable ~> proc.stage \in {"ready", "failed"}

(* wal.Device: "after it returns nil, everything appended so far must      *)
(* survive a crash".  An Open never shortens the log below the records     *)
(* that were synced.                                                       *)
SyncedSurvives == [][RecordCount(durable') >= RecordCount(durable) \/ kind = "fault"]_vars
=============================================================================
