----------------------------- MODULE UringRing -----------------------------
(***************************************************************************)
(* storage/uring and the writing half of storage/uringwal: a device that   *)
(* writes each record to a block of its own through an io_uring, and waits *)
(* for an FSYNC before it counts the record as durable.                    *)
(*                                                                         *)
(* The process and the kernel share the two rings, the registered buffers  *)
(* and the file.  The kernel takes entries only within io_uring_enter, but *)
(* runs them at its own time and reads a buffer when it runs the write.    *)
(* Any io_uring_enter may be interrupted or fail, any request may fail,    *)
(* and after an error the caller may call Sync again.                      *)
(*                                                                         *)
(* Record b of the log belongs into block b; the number of a record stands *)
(* for its bytes.  Operators named Bad... are deliberately wrong variants. *)
(***************************************************************************)
EXTENDS Integers

CONSTANTS Depth,      \* registered buffers (OpenDurableWriter's depth)
          SQEntries,  \* slots of the submission ring
          CQEntries,  \* slots of the completion ring
          Wrap,       \* where the ring counters wrap, 2^32 in the code
          Start,      \* where they stand: 0 at first, or after long use
          MaxRecords, \* bound on records appended
          MaxCalls,   \* bound on calls of AppendDurable
          MaxErrors,  \* bound on failing calls of the kernel and requests
          MaxInterrupts \* bound on interrupted calls of the kernel

ASSUME RingAssumption ==
    /\ Depth \in Nat \ {0} /\ SQEntries \in Nat \ {0} /\ CQEntries \in Nat \ {0}
    /\ Wrap \in Nat /\ Wrap % SQEntries = 0 /\ Wrap % CQEntries = 0
    /\ Wrap > CQEntries /\ Wrap > SQEntries
    /\ Start \in 0 .. Wrap - 1 /\ MaxRecords \in Nat

VARIABLES sq, cq,   \* the rings: head, tail and slots
          kernel,   \* requests that the kernel has taken and not finished
          buffer,   \* the registered buffers
          file,     \* file.written[b] and file.durable[b]: block b
          writer,   \* DurableWriter, and submitAndWait while it runs
          device,   \* uringwal.Device: records appended, records counted as durable
          abandoned,\* history: a request was left with the kernel
          used      \* errors and interrupts so far

vars == << sq, cq, kernel, buffer, file, writer, device, abandoned, used >>

Block   == 1 .. MaxRecords
Cleared == 0
Torn    == 0 - 1

Request(op, block, slot, data) == [op |-> op, block |-> block, slot |-> slot, data |-> data]
NoRequest == Request("none", 0, 0, 0)

(* The user data of call q of AppendDurable: q << 1, and that | 1. *)
WriteFixed(b, slot, q) == Request("write", b, slot, 2 * q)
Fsync(q)               == Request("fsync", 0, 0, 2 * q + 1)

Init ==
    /\ sq = [head |-> Start, tail |-> Start, slots |-> [k \in 0 .. SQEntries - 1 |-> NoRequest]]
    /\ cq = [head |-> Start, tail |-> Start, slots |-> [k \in 0 .. CQEntries - 1 |-> << 0, "ok" >>]]
    /\ kernel = {}
    /\ buffer = [s \in 0 .. Depth - 1 |-> Cleared]
    /\ file = [written |-> [b \in Block |-> Cleared], durable |-> [b \in Block |-> Cleared]]
    /\ writer = [stage |-> "idle", sequence |-> 0, request |-> NoRequest, head |-> 0]
    /\ device = [appended |-> 0, durable |-> 0]
    /\ abandoned = FALSE
    /\ used = [errors |-> 0, interrupts |-> 0]

Distance(head, tail) == (tail - head) % Wrap

Spend(what, limit) == used[what] < limit /\ used' = [used EXCEPT ![what] = @ + 1]

(* The call ends with an error; Sync passes it on and keeps the record. *)
Failed(w) == [w EXCEPT !.stage = "idle", !.request = NoRequest]

-----------------------------------------------------------------------------
(* submitAndWait: the entry is published if the ring has room. *)

(* Wrong: the difference of the counters is not taken modulo their width. *)
BadFull(ring) == ring.tail - ring.head >= SQEntries

Full(ring) == Distance(ring.head, ring.tail) >= SQEntries

Publish(w, request) ==
    IF Full(sq) THEN writer' = Failed(w) /\ UNCHANGED sq
    ELSE /\ sq' = [sq EXCEPT !.slots[sq.tail % SQEntries] = request, !.tail = (@ + 1) % Wrap]
         /\ writer' = [w EXCEPT !.stage = "submit", !.request = request, !.head = sq.head]

(* What the process does when io_uring_enter comes back; moved says that   *)
(* the head of the ring is not where it was when the entry was published.  *)

(* Wrong: an interrupted call counts as a submission. *)
BadSubmitted(result, moved) ==
    CASE result \in {"one", "interrupted"} -> "wait"
      [] result = "error"                  -> "failed"
      [] OTHER                             -> IF moved THEN "wait" ELSE "failed"

Submitted(result, moved) ==
    CASE result = "interrupted" -> IF moved THEN "wait" ELSE "submit"
      [] result = "error"       -> "failed"
      [] OTHER                  -> IF result = "one" \/ moved THEN "wait" ELSE "failed"

Take(ring) == [ring EXCEPT !.head = (@ + 1) % Wrap]

(* A call of io_uring_enter that asks for one submission: the kernel takes *)
(* the oldest entry, or is interrupted before or after it, or refuses.     *)
Enter ==
    /\ writer.stage = "submit"
    /\ \E result \in {"one", "interrupted", "none", "error"}, takes \in BOOLEAN :
          /\ result = "one" => takes /\ UNCHANGED used
          /\ result = "interrupted" => Spend("interrupts", MaxInterrupts)
          /\ result \in {"none", "error"} => ~takes /\ Spend("errors", MaxErrors)
          /\ sq' = IF takes THEN Take(sq) ELSE sq
          /\ kernel' = IF takes THEN kernel \cup {sq.slots[sq.head % SQEntries]} ELSE kernel
          /\ LET next == Submitted(result, sq'.head # writer.head)
             IN  writer' = IF next = "failed" THEN Failed(writer) ELSE [writer EXCEPT !.stage = next]
    /\ UNCHANGED << cq, buffer, file, device, abandoned >>

(* Wrong: whatever completion is next is taken for this request's. *)
BadVerdict(request, completion) == completion[2]

Verdict(request, completion) == IF completion[1] # request.data THEN "error" ELSE completion[2]

(* A completion is there.  AppendDurable follows its write by an Fsync,    *)
(* and Sync counts the record once that is through.                        *)
Complete ==
    /\ writer.stage = "wait" /\ cq.head # cq.tail
    /\ cq' = Take(cq)
    /\ LET verdict == Verdict(writer.request, cq.slots[cq.head % CQEntries])
       IN  \/ /\ verdict = "error"
              /\ writer' = Failed(writer)
              /\ UNCHANGED << sq, device >>
           \/ /\ verdict = "ok" /\ writer.request.op = "write"
              /\ Publish(writer, Fsync(writer.sequence))
              /\ UNCHANGED device
           \/ /\ verdict = "ok" /\ writer.request.op = "fsync"
              /\ writer' = [writer EXCEPT !.stage = "idle", !.request = NoRequest]
              /\ device' = [device EXCEPT !.durable = @ + 1]
              /\ UNCHANGED sq
    /\ UNCHANGED << kernel, buffer, file, abandoned, used >>

(* The call that waits for a completion fails; an interrupt is retried.    *)
WaitFails ==
    /\ writer.stage = "wait" /\ cq.head = cq.tail
    /\ writer' = Failed(writer)
    /\ abandoned' = TRUE
    /\ Spend("errors", MaxErrors)
    /\ UNCHANGED << sq, cq, kernel, buffer, file, device >>

-----------------------------------------------------------------------------
(* The caller appends records and, whether or not the last call failed,    *)
(* calls Sync, which writes the records that are not durable one by one.   *)
Append ==
    /\ writer.stage = "idle" /\ device.appended < MaxRecords
    /\ device' = [device EXCEPT !.appended = @ + 1]
    /\ UNCHANGED << sq, cq, kernel, buffer, file, writer, abandoned, used >>

Slot(sequence) == sequence % Depth

(* AppendDurable clears the next buffer ... *)
Begin ==
    /\ writer.stage = "idle" /\ device.durable < device.appended /\ writer.sequence < MaxCalls
    /\ buffer' = [buffer EXCEPT ![Slot(writer.sequence)] = Cleared]
    /\ writer' = [writer EXCEPT !.stage = "fill"]
    /\ UNCHANGED << sq, cq, kernel, file, device, abandoned, used >>

(* ... copies the record into it and publishes the write. *)
Fill ==
    /\ writer.stage = "fill"
    /\ buffer' = [buffer EXCEPT ![Slot(writer.sequence)] = device.durable + 1]
    /\ Publish([writer EXCEPT !.sequence = @ + 1],
               WriteFixed(device.durable + 1, Slot(writer.sequence), writer.sequence + 1))
    /\ UNCHANGED << cq, kernel, file, device, abandoned, used >>

-----------------------------------------------------------------------------
(* The kernel runs a request and posts its completion.  A write that fails *)
(* or falls short may have spoiled its block.                              *)
Post(r, result) ==
    /\ kernel' = kernel \ {r}
    /\ Distance(cq.head, cq.tail) < CQEntries
    /\ cq' = [cq EXCEPT !.slots[cq.tail % CQEntries] = << r.data, result >>, !.tail = (@ + 1) % Wrap]
    /\ UNCHANGED << sq, buffer, writer, device, abandoned >>

Execute(r) ==
    /\ file' = IF r.op = "write" THEN [file EXCEPT !.written[r.block] = buffer[r.slot]]
               ELSE [file EXCEPT !.durable = file.written]
    /\ Post(r, "ok")
    /\ UNCHANGED used

Refuse(r) ==
    /\ \/ UNCHANGED file
       \/ r.op = "write" /\ file' = [file EXCEPT !.written[r.block] = Torn]
    /\ Post(r, "error")
    /\ Spend("errors", MaxErrors)

Run == \E r \in kernel : Execute(r) \/ Refuse(r)

-----------------------------------------------------------------------------
Process == Enter \/ Complete \/ Begin \/ Fill

Next == Append \/ Process \/ WaitFails \/ Run

(* The kernel gets requests done, and the process runs; that interrupts    *)
(* come to an end is the bound on them.                                    *)
Fairness == WF_vars(Process) /\ WF_vars(Run)

Spec == Init /\ [][Next]_vars /\ Fairness

-----------------------------------------------------------------------------
(* "writes one aligned block through WRITE_FIXED and waits for a separate  *)
(* FSYNC completion before returning" (writer_linux_amd64.go:51): a record *)
(* that Sync has counted is on the medium, and stays there, whatever       *)
(* entries, completions and half-done writes earlier errors left behind.   *)
(* A Sync after a failed wait is excepted: the write it repeats may still  *)
(* be with the kernel, which reads the buffer when it likes.               *)
CountedIsDurable == ~abandoned => \A b \in 1 .. device.durable : file.durable[b] = b

(* However often calls failed after they had published an entry, and also  *)
(* where the counters wrap, no entry is overwritten before the kernel has  *)
(* taken it.                                                               *)
NoEntryOverwritten == Distance(sq.head, sq.tail) <= SQEntries

(* "Never submit the published tail twice" (engine_linux_amd64.go:225),    *)
(* and never wait for what was not submitted: every Sync returns, at the   *)
(* latest when the interrupts have come to an end.                         *)
SyncReturns == writer.stage # "idle" ~> writer.stage = "idle"
=============================================================================
