------------------------------ MODULE Machine ------------------------------
(***************************************************************************)
(* The replicated register map of package statemachine, with the session   *)
(* table that makes retried requests harmless.                             *)
(*                                                                         *)
(* A mutation is a record with the fields op ("put" or "delete"), client,  *)
(* request, key and value, all numbers; 0 is Go's zero value.  None stands *)
(* for the mutation of an entry that has none (raft.CommandLegacy).        *)
(***************************************************************************)
EXTENDS RaftLog, SequencesExt

New == [values |-> << >>, clients |-> << >>]

Lookup(m, key) == IF key \in DOMAIN m.values THEN m.values[key] ELSE 0

(* Cached: what the session table says of a request. *)
Session(m, c) ==
    IF c.client \notin DOMAIN m.clients \/ c.request > m.clients[c.client].request THEN "new"
    ELSE IF c.request < m.clients[c.client].request THEN "stale" ELSE "done"

Outcome(m, status, value) == [machine |-> m, status |-> status, value |-> value]

(* A mutation that the session table does not know yet takes effect. *)
Execute(m, c) ==
    LET found  == c.op = "put" \/ c.key \in DOMAIN m.values
        value  == IF c.op = "put" THEN c.value ELSE Lookup(m, c.key)
        values == IF c.op = "put" THEN (c.key :> c.value) @@ m.values
                  ELSE Restrict(m.values, DOMAIN m.values \ {c.key})
        record == [request |-> c.request, value |-> value, found |-> found]
    IN  Outcome([values |-> values, clients |-> (c.client :> record) @@ m.clients], "OK", value)

Apply(m, c) ==
    IF c = None THEN Outcome(m, "OK", 0)
    ELSE CASE Session(m, c) = "done"  -> Outcome(m, "OK", m.clients[c.client].value)
           [] Session(m, c) = "stale" -> Outcome(m, "Invalid", 0)
           [] OTHER                   -> Execute(m, c)

----------------------------------------------------------------------------
(* Snapshot writes two tables in ascending order of their keys; Restore    *)
(* reads them back.  The header, the sizes and the checksum that Restore   *)
(* compares are those Snapshot has written.                                *)

Table(f) == LET keys == SetToSortSeq(DOMAIN f, <)
            IN  [k \in DOMAIN keys |-> << keys[k], f[keys[k]] >>]

Untable(t) == [x \in {t[k][1] : k \in DOMAIN t} |->
                 (CHOOSE pair \in {t[k] : k \in DOMAIN t} : pair[1] = x)[2]]

(* Wrong: the sessions are not part of the image. *)
BadSnapshotImage(m) == [keys |-> Table(m.values), clients |-> << >>]

SnapshotImage(m) == [keys |-> Table(m.values), clients |-> Table(m.clients)]

Restore(image) == [values |-> Untable(image.keys), clients |-> Untable(image.clients)]
=============================================================================
