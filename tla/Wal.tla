-------------------------------- MODULE Wal --------------------------------
(***************************************************************************)
(* The write-ahead log as pure operators: records on a medium              *)
(* (storage/wal) and their replay into Raft state (storage/raftwal).       *)
(*                                                                         *)
(* A medium image is a sequence of units.  A record is RecordUnits units,  *)
(* so that a write can stop inside a record; the checksum is modelled by   *)
(* what it does: units decode only when they are all the units of one      *)
(* record, in order.  The body of a record is the call it stores.          *)
(***************************************************************************)
EXTENDS StableStore, SequencesExt

RecordUnits == 2

Record(q, body) == [seq |-> q, body |-> body]

HardBody(h)     == [kind |-> "hard", hard |-> h]
EntryBody(k, e) == [kind |-> "entry", index |-> k, entry |-> e]
CompactBody(k)  == [kind |-> "compact", index |-> k]
ResetBody(k, t) == [kind |-> "reset", index |-> k, term |-> t]

(* What Decode reports for units that are not one intact record.  No       *)
(* record has sequence number zero.                                        *)
Corrupt == Record(0, [kind |-> "corrupt"])

Encode(r) == [k \in 1..RecordUnits |-> [rec |-> r, part |-> k]]

Rotten == [rec |-> Corrupt, part |-> 0]

Decode(units) == IF units = Encode(units[1].rec) THEN units[1].rec ELSE Corrupt

RecordCount(image) == Len(image) \div RecordUnits

ValidUnits(image) == RecordCount(image) * RecordUnits

Records(image) ==
    [i \in 1..RecordCount(image) |->
        Decode(SubSeq(image, (i - 1) * RecordUnits + 1, i * RecordUnits))]

(* Wrong: an intact record is taken wherever it lies. *)
BadRecoverable(image) == \A i \in 1..RecordCount(image) : Records(image)[i].seq # 0

(* wal.Recover: an incomplete tail is ignored, a complete record that does *)
(* not decode or is out of sequence is fatal.                              *)
Recoverable(image) == \A i \in 1..RecordCount(image) : Records(image)[i].seq = i

(* raftwal.Open starts from nothing and applies record after record; "ok"  *)
(* turns FALSE where the code gives up.                                    *)
Blank == [hard |-> EmptyDisk.hard, base |-> 0, baseTerm |-> 0, log |-> << >>, ok |-> TRUE]

GiveUp(s) == [s EXCEPT !.ok = FALSE]

ReplayHard(s, h) == IF AcceptsHardState(s, h) THEN WithHardState(s, h) ELSE GiveUp(s)

ReplayEntry(s, k, e) ==
    CASE k <= s.base         -> s
      [] k > LastIndex(s) + 1 -> GiveUp(s)
      [] OTHER                -> WithEntry(s, k, e)

ReplayCompact(s, k) ==
    IF Present(s, k)
    THEN [s EXCEPT !.base = k, !.baseTerm = TermAt(s, k), !.log = After(s, k)]
    ELSE GiveUp(s)

ReplayReset(s, k, t) ==
    IF k < s.base THEN GiveUp(s)
    ELSE [s EXCEPT !.base = k, !.baseTerm = t, !.log = << >>]

Applied(s, b) ==
    CASE b.kind = "hard"    -> ReplayHard(s, b.hard)
      [] b.kind = "entry"   -> ReplayEntry(s, b.index, b.entry)
      [] b.kind = "compact" -> ReplayCompact(s, b.index)
      [] b.kind = "reset"   -> ReplayReset(s, b.index, b.term)

ApplyRecord(s, r) == IF s.ok THEN Applied(s, r.body) ELSE s

Replay(image) == FoldLeft(ApplyRecord, Blank, Records(image))

(* The durable image, in the terms of StableStore, of a WAL image and the  *)
(* snapshot beside it.                                                     *)
DiskOf(s, snap) ==
    [hard |-> s.hard, base |-> s.base, baseTerm |-> s.baseTerm, log |-> s.log, snap |-> snap]
=============================================================================
