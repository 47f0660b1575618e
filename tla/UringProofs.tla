---------------------------- MODULE UringProofs ----------------------------
(***************************************************************************)
(* Proofs about UringRing, for rings, buffers and files of every size.     *)
(*                                                                         *)
(* The argument.  Every call publishes one entry and takes at most one, so *)
(* an entry that a failed call leaves stays in the ring for good, and from *)
(* then on a call is handed an older entry than its own.  User data grow   *)
(* from call to call, so the completion of an older entry never matches    *)
(* and no further record is counted: what the older writes do to the block *)
(* after the durable ones harms nothing.  Without left-over entries the    *)
(* kernel has only the writer's request, the buffer holds the record until *)
(* the request is done, and the FSYNC that follows finds it written.       *)
(***************************************************************************)
EXTENDS UringRing, TLAPS

Counter == 0 .. Wrap - 1

Requests == [op : {"none", "write", "fsync"}, block : Nat, slot : 0 .. Depth - 1, data : Nat]

SQRings == [head : Counter, tail : Counter, slots : [0 .. SQEntries - 1 -> Requests]]
CQRings == [head : Counter, tail : Counter, slots : [0 .. CQEntries - 1 -> Nat \X {"ok", "error"}]]
Files   == [written : [Block -> Int], durable : [Block -> Int]]
Writers == [stage : {"idle", "fill", "submit", "wait"}, sequence : Nat, request : Requests,
            head : Nat]

(* The shape of the rings, the buffers, the file and the two structs. *)
Shape ==
    /\ sq \in SQRings /\ cq \in CQRings /\ kernel \subseteq Requests
    /\ buffer \in [0 .. Depth - 1 -> Int] /\ file \in Files /\ writer \in Writers
    /\ device \in [appended : 0 .. MaxRecords, durable : Nat]
    /\ device.durable <= device.appended
    /\ writer.stage # "idle" => device.durable < device.appended
    /\ abandoned \in BOOLEAN

Calling == writer.stage \in {"submit", "wait"}

(* The user data of a call is new: no slot holds as much before the call   *)
(* publishes its entry, and only that entry does afterwards.               *)
Fresh ==
    /\ Calling => /\ writer.request.op = "write" => writer.request.data = 2 * writer.sequence
                  /\ writer.request.op = "fsync" => writer.request.data = 2 * writer.sequence + 1
                  /\ writer.request.op # "none"
    /\ \A k \in 0 .. SQEntries - 1 :
          /\ ~Calling => sq.slots[k].data <= 2 * writer.sequence + 1
          /\ Calling  => /\ sq.slots[k].data <= writer.request.data
                         /\ sq.slots[k].data = writer.request.data => sq.slots[k] = writer.request

(* The published entry is the oldest of the ring exactly if it is alone.   *)
Queued ==
    writer.stage = "submit" =>
        /\ writer.head = sq.head /\ sq.head # sq.tail
        /\ sq.slots[sq.head % SQEntries].data = writer.request.data <=> (sq.head + 1) % Wrap = sq.tail

(* A write is one of the record that Sync is at, after n durable ones. *)
Pending(r, n) == r.op = "write" => r.block = n + 1

(* What a request that was completed without an error has done. *)
Done(r) ==
    /\ r.op = "write" => file.written[device.durable + 1] = device.durable + 1
    /\ r.op = "fsync" => file.durable = file.written

(* The kernel has the one entry that was submitted, or has answered it;    *)
(* with the writer's user data it is the writer's entry, and the last one. *)
Taken ==
    /\ cq.head = cq.tail
    /\ \E r \in Requests : /\ kernel = {r} /\ Pending(r, device.durable)
                           /\ r.data = writer.request.data => r = writer.request /\ sq.head = sq.tail

Answered ==
    /\ kernel = {} /\ cq.tail = (cq.head + 1) % Wrap
    /\ LET c == cq.slots[cq.head % CQEntries]
       IN  c[1] = writer.request.data =>
               sq.head = sq.tail /\ (c[2] = "ok" => Done(writer.request))

(* As long as no request was left behind. *)
Orderly ==
    /\ \A b \in 1 .. device.durable : file.written[b] = b /\ file.durable[b] = b
    /\ \A j \in 0 .. Distance(sq.head, sq.tail) - 1 :
          Pending(sq.slots[(sq.head + j) % SQEntries], device.durable)
    /\ writer.stage # "wait" => kernel = {} /\ cq.head = cq.tail
    /\ writer.stage = "wait" => Taken \/ Answered
    /\ Calling /\ writer.request.op = "write" =>
          /\ writer.request.block = device.durable + 1
          /\ buffer[writer.request.slot] = device.durable + 1
    /\ Calling /\ writer.request.op = "fsync" =>
          /\ file.written[device.durable + 1] = device.durable + 1
          /\ writer.stage = "submit" => (sq.head + 1) % Wrap = sq.tail
          /\ writer.stage = "wait" => sq.head = sq.tail /\ kernel \subseteq {writer.request}

(* The inductive invariant. *)
IInv == Shape /\ NoEntryOverwritten /\ Fresh /\ Queued /\ (~abandoned => Orderly)

----------------------------------------------------------------------------
(* Ring arithmetic                                                         *)

(* A remainder is determined by the division it comes from. *)
LEMMA Division ==
    ASSUME NEW n \in Nat \ {0}, NEW q \in Int, NEW r \in 0 .. n - 1
    PROVE  (q * n + r) % n = r
  OBVIOUS

(* Every number has such a division. *)
LEMMA Remainder ==
    ASSUME NEW n \in Nat \ {0}, NEW x \in Int
    PROVE  \E q \in Int, r \in 0 .. n - 1 : x % n = r /\ x = q * n + r
  <1> DEFINE d == x \div n
             m == x % n
  <1>1. d \in Int /\ m \in 0 .. n - 1 /\ m = x - n * d
    OBVIOUS
  <1> HIDE DEF d, m
  <1>2. x = d * n + m
    BY <1>1
  <1>3. x % n = m
    BY DEF m
  <1> QED BY ZenonT(30), <1>1, <1>2, <1>3

(* The width of the counters is a whole number of rings: a counter that    *)
(* wraps stays at its slot.                                                *)
LEMMA SlotWraps ==
    ASSUME NEW n \in Nat \ {0}, Wrap % n = 0, Wrap \in Nat, NEW x \in Nat
    PROVE  (x + Wrap) % n = x % n
  <1>0. Wrap \in Int /\ x \in Int
    OBVIOUS
  <1>1. PICK p \in Int, z \in 0 .. n - 1 : Wrap % n = z /\ Wrap = p * n + z
    BY ZenonT(30), <1>0, Remainder
  <1>2. PICK q \in Int, r \in 0 .. n - 1 : x % n = r /\ x = q * n + r
    BY ZenonT(30), <1>0, Remainder
  <1>3. x + Wrap = (q + p) * n + r
    BY <1>1, <1>2
  <1>4. ((q + p) * n + r) % n = r
    BY Division
  <1> QED BY ZenonT(30), <1>2, <1>3, <1>4

(* Counters less than a ring apart share their slot only if they are equal. *)
LEMMA SlotsApart ==
    ASSUME NEW n \in Nat \ {0}, NEW x \in Nat, NEW d \in 0 .. n - 1, (x + d) % n = x % n
    PROVE  d = 0
  <1>0. x \in Int /\ x + d \in Int
    OBVIOUS
  <1>1. PICK q \in Int, r \in 0 .. n - 1 : x % n = r /\ x = q * n + r
    BY ZenonT(30), <1>0, Remainder
  <1>2. PICK p \in Int, s \in 0 .. n - 1 : (x + d) % n = s /\ x + d = p * n + s
    BY ZenonT(30), <1>0, Remainder
  <1>3. d = (p - q) * n
    BY <1>1, <1>2
  <1> QED BY <1>3, Division

(* A counter after one step. *)
LEMMA Advance ==
    ASSUME NEW x \in Counter
    PROVE  /\ (x + 1) % Wrap = IF x + 1 = Wrap THEN 0 ELSE x + 1
           /\ (x + 1) % Wrap \in Counter /\ (x + 1) % Wrap # x
  <1>1. Wrap \in Nat /\ Wrap > 1
    BY RingAssumption
  <1>2. CASE x + 1 = Wrap
    BY <1>1, <1>2 DEF Counter
  <1>3. CASE x + 1 # Wrap
    <2>1. x + 1 = 0 * Wrap + (x + 1) /\ x + 1 \in 0 .. Wrap - 1
      BY <1>1, <1>3 DEF Counter
    <2> QED BY <1>1, <1>3, <2>1, Division DEF Counter
  <1> QED BY <1>2, <1>3

(* The distance of two counters. *)
LEMMA Distances ==
    ASSUME NEW h \in Counter, NEW t \in Counter
    PROVE  /\ Distance(h, t) = IF h <= t THEN t - h ELSE t - h + Wrap
           /\ Distance(h, t) \in Counter
           /\ Distance(h, t) = 0 <=> h = t
  <1>1. Wrap \in Nat /\ Wrap > 1
    BY RingAssumption
  <1>2. CASE h <= t
    <2>1. t - h = 0 * Wrap + (t - h) /\ t - h \in 0 .. Wrap - 1
      BY <1>1, <1>2 DEF Counter
    <2> QED BY <1>1, <1>2, <2>1, Division DEF Distance, Counter
  <1>3. CASE ~(h <= t)
    <2>1. t - h = (0 - 1) * Wrap + (t - h + Wrap) /\ t - h + Wrap \in 0 .. Wrap - 1
      BY <1>1, <1>3 DEF Counter
    <2> QED BY <1>1, <1>3, <2>1, Division DEF Distance, Counter
  <1> QED BY <1>2, <1>3

(* What one step of either counter does to their distance. *)
LEMMA DistanceSteps ==
    ASSUME NEW h \in Counter, NEW t \in Counter
    PROVE  /\ Distance(h, t) + 1 < Wrap => Distance(h, (t + 1) % Wrap) = Distance(h, t) + 1
           /\ h # t => Distance((h + 1) % Wrap, t) = Distance(h, t) - 1
           /\ (h + 1) % Wrap = (t + 1) % Wrap => h = t
  <1> DEFINE hn == (h + 1) % Wrap
             tn == (t + 1) % Wrap
  <1>1. Wrap \in Nat /\ Wrap > 1
    BY RingAssumption
  <1>2. /\ hn \in Counter /\ hn = IF h + 1 = Wrap THEN 0 ELSE h + 1
        /\ tn \in Counter /\ tn = IF t + 1 = Wrap THEN 0 ELSE t + 1
    BY ZenonT(30), Advance
  <1> HIDE DEF hn, tn
  <1>3. /\ Distance(h, t)  = IF h <= t THEN t - h ELSE t - h + Wrap
        /\ Distance(h, tn) = IF h <= tn THEN tn - h ELSE tn - h + Wrap
        /\ Distance(hn, t) = IF hn <= t THEN t - hn ELSE t - hn + Wrap
    BY ZenonT(30), <1>2, Distances
  <1>4. /\ Distance(h, t) + 1 < Wrap => Distance(h, tn) = Distance(h, t) + 1
        /\ h # t => Distance(hn, t) = Distance(h, t) - 1
        /\ hn = tn => h = t
    BY SMTT(30), <1>1, <1>2, <1>3 DEF Counter
  <1> QED BY ZenonT(30), <1>4 DEF hn, tn

----------------------------------------------------------------------------
(* Publishing an entry                                                     *)

(* A position, taken modulo the size of a ring, is a slot of that ring. *)
LEMMA SlotTypes ==
    ASSUME NEW x \in Nat
    PROVE  x % SQEntries \in 0 .. SQEntries - 1 /\ x % CQEntries \in 0 .. CQEntries - 1
  BY RingAssumption

(* The tail of the ring is the slot after the live entries, and is none of *)
(* theirs as long as the ring is not full.                                 *)
LEMMA TailSlot ==
    ASSUME NEW h \in Counter, NEW t \in Counter
    PROVE  /\ (h + Distance(h, t)) % SQEntries = t % SQEntries
           /\ Distance(h, t) < SQEntries /\ h % SQEntries = t % SQEntries => h = t
  <1>1. SQEntries \in Nat \ {0} /\ Wrap \in Nat /\ Wrap % SQEntries = 0 /\ h \in Nat /\ t \in Nat
    BY RingAssumption DEF Counter
  <1>2. /\ h + Distance(h, t) \in {t, t + Wrap} /\ Distance(h, t) \in Nat
        /\ Distance(h, t) = 0 <=> h = t
    <2> DEFINE D == Distance(h, t)
    <2>1. /\ D = IF h <= t THEN t - h ELSE t - h + Wrap
          /\ D \in Counter /\ (D = 0 <=> h = t)
      BY ZenonT(30), Distances
    <2> HIDE DEF D
    <2>2. h + D \in {t, t + Wrap} /\ D \in Nat
      BY <1>1, <2>1 DEF Counter
    <2> QED BY ZenonT(30), <2>1, <2>2 DEF D
  <1>3. (t + Wrap) % SQEntries = t % SQEntries
    BY ZenonT(30), <1>1, SlotWraps
  <1>4. (h + Distance(h, t)) % SQEntries = t % SQEntries
    BY ZenonT(30), <1>2, <1>3
  <1>5. ASSUME Distance(h, t) < SQEntries, h % SQEntries = t % SQEntries
        PROVE  h = t
    <2>1. Distance(h, t) \in 0 .. SQEntries - 1
      BY <1>1, <1>2, <1>5
    <2>2. (h + Distance(h, t)) % SQEntries = h % SQEntries
      BY <1>4, <1>5
    <2>3. Distance(h, t) = 0
      BY ZenonT(30), <1>1, <2>1, <2>2, SlotsApart
    <2> QED BY <1>2, <2>3
  <1> QED BY <1>4, <1>5

(* submitAndWait on a ring with room: the new entry is the last of the     *)
(* live ones and the others stay as they are.                              *)
LEMMA Published ==
    ASSUME Shape, NoEntryOverwritten, ~Full(sq), NEW w \in Writers, NEW r \in Requests,
           Publish(w, r), \A k \in 0 .. SQEntries - 1 : sq.slots[k].data < r.data
    PROVE  /\ sq' \in SQRings /\ sq'.head = sq.head /\ sq'.tail = (sq.tail + 1) % Wrap
           /\ writer' = [w EXCEPT !.stage = "submit", !.request = r, !.head = sq.head]
           /\ writer' \in Writers
           /\ NoEntryOverwritten' /\ Queued'
           /\ \A k \in 0 .. SQEntries - 1 : sq'.slots[k] \in {r, sq.slots[k]}
           /\ \A j \in 0 .. Distance(sq'.head, sq'.tail) - 1 :
                 sq'.slots[(sq'.head + j) % SQEntries]
                     \in {r} \cup {sq.slots[(sq.head + i) % SQEntries] :
                                      i \in 0 .. Distance(sq.head, sq.tail) - 1}
  <1> DEFINE h == sq.head
             t == sq.tail
             D == Distance(h, t)
             k0 == t % SQEntries
  <1>1. h \in Counter /\ t \in Counter /\ h \in Nat /\ t \in Nat /\ sq.slots \in [0 .. SQEntries - 1 -> Requests]
    BY DEF Shape, SQRings, Counter
  <1>2. k0 \in 0 .. SQEntries - 1 /\ h % SQEntries \in 0 .. SQEntries - 1
    BY ZenonT(30), <1>1, SlotTypes
  <1>3. /\ SQEntries \in Nat \ {0} /\ Wrap \in Nat /\ SQEntries < Wrap
        /\ D \in Counter /\ D \in Nat /\ D < SQEntries /\ (D = 0 <=> h = t)
        /\ (t + 1) % Wrap \in Counter /\ Distance(h, (t + 1) % Wrap) = D + 1
        /\ ((h + 1) % Wrap = (t + 1) % Wrap => h = t) /\ (t + 1) % Wrap # t
    <2> DEFINE tn == (t + 1) % Wrap
               Dn == Distance(h, tn)
    <2>1. SQEntries \in Nat \ {0} /\ Wrap \in Nat /\ SQEntries < Wrap
      BY RingAssumption
    <2>2. D \in Counter /\ (D = 0 <=> h = t)
      BY ZenonT(30), <1>1, Distances
    <2>6. D + 1 < Wrap => Dn = D + 1
      BY ZenonT(30), <1>1, DistanceSteps
    <2>5. tn \in Counter /\ tn # t /\ ((h + 1) % Wrap = tn => h = t)
      BY ZenonT(30), <1>1, Advance, DistanceSteps
    <2>3. ~(D >= SQEntries)
      BY DEF Full
    <2> HIDE DEF D, Dn, tn
    <2>4. D \in Nat /\ D < SQEntries /\ Dn = D + 1
      BY <2>1, <2>2, <2>3, <2>6 DEF Counter
    <2> QED BY ZenonT(30), <2>1, <2>2, <2>4, <2>5 DEF Dn, tn
  <1>4. /\ sq' = [sq EXCEPT !.slots[k0] = r, !.tail = (t + 1) % Wrap]
        /\ writer' = [w EXCEPT !.stage = "submit", !.request = r, !.head = h]
    BY DEF Publish
  <1>5. /\ sq'.head = h /\ sq'.tail = (t + 1) % Wrap
        /\ sq'.slots = [sq.slots EXCEPT ![k0] = r]
        /\ sq' \in SQRings
    BY ZenonT(30), <1>1, <1>2, <1>3, <1>4 DEF SQRings, Shape
  <1>6. /\ writer' \in Writers /\ writer'.head = h /\ writer'.request = r
        /\ writer'.stage = "submit"
    BY ZenonT(30), <1>1, <1>4 DEF Writers
  <1>7. \A k \in 0 .. SQEntries - 1 : sq'.slots[k] = IF k = k0 THEN r ELSE sq.slots[k]
    BY ZenonT(30), <1>1, <1>2, <1>5
  <1>8. h # (t + 1) % Wrap
    <2>1. Distance(h, (t + 1) % Wrap) # 0
      BY <1>3
    <2> QED BY <1>1, <1>3, <2>1, Distances
  <1>9. Queued'
    <2>1. CASE h = t
      BY <1>2, <1>5, <1>6, <1>7, <1>8, <2>1 DEF Queued
    <2>2. CASE h # t
      <3>1. h % SQEntries # k0
        BY SMTT(30), <1>1, <1>3, <2>2, TailSlot
      <3>2. sq'.slots[h % SQEntries].data # r.data
        BY SMTT(30), <1>1, <1>2, <1>7, <3>1 DEF Requests
      <3>3. (h + 1) % Wrap # (t + 1) % Wrap
        BY <1>3, <2>2
      <3> QED BY <1>5, <1>6, <1>8, <3>2, <3>3 DEF Queued
    <2> QED BY <2>1, <2>2
  <1>10. NoEntryOverwritten'
    BY <1>3, <1>5 DEF NoEntryOverwritten
  <1>11. ASSUME NEW j \in 0 .. Distance(sq'.head, sq'.tail) - 1
         PROVE  sq'.slots[(sq'.head + j) % SQEntries]
                  \in {r} \cup {sq.slots[(sq.head + i) % SQEntries] : i \in 0 .. D - 1}
    <2>1. j \in 0 .. D /\ h + j \in Nat
      <3>1. Distance(sq'.head, sq'.tail) = D + 1
        BY ZenonT(30), <1>3, <1>5
      <3> DEFINE E == Distance(sq'.head, sq'.tail)
      <3>2. j \in 0 .. E - 1 /\ E = D + 1
        BY <3>1
      <3> HIDE DEF D, E
      <3> QED BY SMTT(30), <1>1, <1>3, <3>2
    <2>2. (h + j) % SQEntries \in 0 .. SQEntries - 1
      BY <2>1, SlotTypes
    <2>3. CASE j = D
      <3>1. (h + j) % SQEntries = k0
        BY ZenonT(30), <1>1, <2>3, TailSlot
      <3> QED BY <1>5, <1>7, <2>2, <3>1
    <2>4. CASE j # D
      <3>1. j \in 0 .. D - 1
        BY <1>3, <2>1, <2>4
      <3> QED BY <1>5, <1>7, <2>2, <3>1
    <2> QED BY <2>3, <2>4
  <1> QED BY <1>4, <1>5, <1>6, <1>7, <1>9, <1>10, <1>11

----------------------------------------------------------------------------
(* The steps of the process                                                *)

(* The fields of the writer after a call has failed. *)
LEMMA FailedWriter ==
    ASSUME NEW w \in Writers
    PROVE  /\ Failed(w) \in Writers /\ Failed(w).stage = "idle"
           /\ Failed(w).sequence = w.sequence
  <1>1. NoRequest \in Requests
    BY RingAssumption DEF NoRequest, Request, Requests
  <1> QED BY ZenonT(30), <1>1 DEF Failed, Writers

(* io_uring_enter takes the oldest entry and the process waits for it, or  *)
(* takes nothing and the process tries again or gives up.                  *)
LEMMA EnterOutcomes ==
    ASSUME Shape, Queued, Enter
    PROVE  /\ writer.stage = "submit"
           /\ \/ /\ sq' = Take(sq) /\ writer' = [writer EXCEPT !.stage = "wait"]
                 /\ kernel' = kernel \cup {sq.slots[sq.head % SQEntries]}
              \/ sq' = sq /\ kernel' = kernel /\ writer' = [writer EXCEPT !.stage = "submit"]
              \/ sq' = sq /\ kernel' = kernel /\ writer' = Failed(writer)
  <1>1. writer.stage = "submit" /\ writer.head = sq.head
    BY DEF Enter, Queued
  <1>2. PICK result \in {"one", "interrupted", "none", "error"}, takes \in BOOLEAN :
          /\ result = "one" => takes
          /\ result \in {"none", "error"} => ~takes
          /\ sq' = IF takes THEN Take(sq) ELSE sq
          /\ kernel' = IF takes THEN kernel \cup {sq.slots[sq.head % SQEntries]} ELSE kernel
          /\ writer' = IF Submitted(result, sq'.head # writer.head) = "failed" THEN Failed(writer)
                       ELSE [writer EXCEPT !.stage = Submitted(result, sq'.head # writer.head)]
    BY ZenonT(30) DEF Enter
  <1>3. CASE takes
    <2>1. sq'.head = (sq.head + 1) % Wrap
      BY <1>2, <1>3 DEF Take, Shape, SQRings
    <2>2. sq'.head # writer.head
      BY <1>1, <2>1, Advance DEF Shape, SQRings
    <2>3. result \in {"one", "interrupted"}
      BY <1>2, <1>3
    <2>4. Submitted(result, sq'.head # writer.head) = "wait"
      BY <2>2, <2>3 DEF Submitted
    <2> QED BY <1>1, <1>2, <1>3, <2>4
  <1>4. CASE ~takes
    <2>1. sq' = sq /\ kernel' = kernel /\ sq'.head = writer.head
      BY <1>1, <1>2, <1>4
    <2>2. result # "one"
      BY <1>2, <1>4
    <2>3. Submitted(result, sq'.head # writer.head) = IF result = "interrupted" THEN "submit" ELSE "failed"
      BY <2>1, <2>2 DEF Submitted
    <2>4. CASE result = "interrupted"
      BY <1>1, <1>2, <2>1, <2>3, <2>4
    <2>5. CASE result # "interrupted"
      BY <1>1, <1>2, <2>1, <2>3, <2>5
    <2> QED BY <2>4, <2>5
  <1> QED BY <1>3, <1>4

(* What Take does to a ring. *)
LEMMA TakeFields ==
    /\ \A q \in SQRings : /\ Take(q) \in SQRings /\ Take(q).head = (q.head + 1) % Wrap
                          /\ Take(q).tail = q.tail /\ Take(q).slots = q.slots
    /\ \A q \in CQRings : /\ Take(q) \in CQRings /\ Take(q).head = (q.head + 1) % Wrap
                          /\ Take(q).tail = q.tail /\ Take(q).slots = q.slots
  <1>1. \A x \in Counter : (x + 1) % Wrap \in Counter
    BY Advance
  <1>2. ASSUME NEW q \in SQRings
        PROVE  /\ Take(q) \in SQRings /\ Take(q).head = (q.head + 1) % Wrap
               /\ Take(q).tail = q.tail /\ Take(q).slots = q.slots
    BY <1>1 DEF SQRings, Take
  <1>3. ASSUME NEW q \in CQRings
        PROVE  /\ Take(q) \in CQRings /\ Take(q).head = (q.head + 1) % Wrap
               /\ Take(q).tail = q.tail /\ Take(q).slots = q.slots
    BY <1>1 DEF CQRings, Take
  <1> QED BY <1>2, <1>3

(* A live entry is still live, or is the one that was taken. *)
LEMMA TakeLive ==
    ASSUME NEW h \in Counter, NEW t \in Counter, h # t,
           NEW j \in 0 .. Distance((h + 1) % Wrap, t) - 1
    PROVE  /\ j + 1 \in 0 .. Distance(h, t) - 1
           /\ (((h + 1) % Wrap) + j) % SQEntries = (h + (j + 1)) % SQEntries
  <1> DEFINE hn == (h + 1) % Wrap
  <1>1. /\ SQEntries \in Nat \ {0} /\ Wrap \in Nat /\ Wrap % SQEntries = 0
        /\ h \in Nat /\ h < Wrap /\ Distance(h, t) \in Nat
    <2>1. Distance(h, t) \in Counter
      BY ZenonT(30), Distances
    <2> QED BY <2>1, RingAssumption DEF Counter
  <1>2. Distance(hn, t) = Distance(h, t) - 1
    BY ZenonT(30), DistanceSteps
  <1>3. hn = IF h + 1 = Wrap THEN 0 ELSE h + 1
    BY ZenonT(30), Advance
  <1> HIDE DEF hn
  <1>4. j \in Nat /\ j + 1 \in 0 .. Distance(h, t) - 1
    <2>1. j \in 0 .. Distance(hn, t) - 1
      BY DEF hn
    <2> QED BY <1>1, <1>2, <2>1
  <1>5. (hn + j) % SQEntries = (h + (j + 1)) % SQEntries
    <2>1. CASE h + 1 = Wrap
      <3>1. hn + j = j /\ h + (j + 1) = j + Wrap
        BY <1>1, <1>3, <1>4, <2>1
      <3>2. (j + Wrap) % SQEntries = j % SQEntries
        BY ZenonT(30), <1>1, <1>4, SlotWraps
      <3> QED BY ZenonT(30), <3>1, <3>2
    <2>2. CASE h + 1 # Wrap
      <3>1. hn + j = h + (j + 1)
        BY <1>1, <1>3, <1>4, <2>2
      <3> QED BY ZenonT(30), <3>1
    <2> QED BY <2>1, <2>2
  <1> QED BY ZenonT(30), <1>4, <1>5 DEF hn

(* No slot holds user data beyond that of the last call. *)
LEMMA DataBound ==
    ASSUME Shape, Fresh
    PROVE  \A k \in 0 .. SQEntries - 1 :
              sq.slots[k].data \in Nat /\ sq.slots[k].data <= 2 * writer.sequence + 1
  <1>1. /\ \A k \in 0 .. SQEntries - 1 : sq.slots[k].data \in Nat
        /\ writer.request.data \in Nat /\ writer.sequence \in Nat
        /\ writer.request.op \in {"none", "write", "fsync"}
    BY ZenonT(30) DEF Shape, SQRings, Writers, Requests
  <1>2. CASE Calling
    <2>1. writer.request.data <= 2 * writer.sequence + 1
      BY <1>1, <1>2 DEF Fresh
    <2>2. \A k \in 0 .. SQEntries - 1 : sq.slots[k].data <= writer.request.data
      BY <1>2 DEF Fresh
    <2> QED BY <1>1, <2>1, <2>2
  <1>3. CASE ~Calling
    BY <1>1, <1>3 DEF Fresh
  <1> QED BY <1>2, <1>3

(* io_uring_enter hands over the oldest entry, and the process waits for  *)
(* it although it may be one that an earlier call left.                    *)
LEMMA EnterKeeps ==
    ASSUME IInv, Enter
    PROVE  IInv'
  <1> DEFINE h == sq.head
             t == sq.tail
             r == sq.slots[h % SQEntries]
             n == device.durable
  <1>u. UNCHANGED << cq, buffer, file, device, abandoned >> /\ writer.stage = "submit" /\ Calling
    BY EnterOutcomes DEF Enter, IInv, Calling
  <1>a. /\ Shape /\ NoEntryOverwritten /\ Fresh /\ Queued /\ (~abandoned => Orderly)
        /\ sq \in SQRings /\ h \in Counter /\ t \in Counter /\ h \in Nat /\ t \in Nat
        /\ writer \in Writers
    BY DEF IInv, Shape, SQRings, Counter
  <1>s. h % SQEntries \in 0 .. SQEntries - 1 /\ r \in Requests
    BY ZenonT(30), <1>a, SlotTypes DEF SQRings
  <1>q. /\ writer.head = h /\ h # t /\ Distance(h, t) \in Nat
        /\ r.data = writer.request.data <=> (h + 1) % Wrap = t
        /\ r.data = writer.request.data => r = writer.request
    <2>1. Distance(h, t) \in Counter
      BY ZenonT(30), <1>a, Distances
    <2> QED BY <1>a, <1>u, <1>s, <2>1 DEF Queued, Fresh, Counter
  <1>1. CASE /\ sq' = Take(sq) /\ writer' = [writer EXCEPT !.stage = "wait"]
             /\ kernel' = kernel \cup {sq.slots[sq.head % SQEntries]}
    <2>1. /\ sq' \in SQRings /\ sq'.head = (h + 1) % Wrap /\ sq'.tail = t /\ sq'.slots = sq.slots
          /\ kernel' = kernel \cup {r}
      BY <1>1, <1>a, TakeFields
    <2>2. /\ writer' \in Writers /\ writer'.stage = "wait" /\ writer'.request = writer.request
          /\ writer'.sequence = writer.sequence
      BY <1>1, <1>a DEF Writers
    <2>3. Shape'
      BY <1>a, <1>s, <1>u, <2>1, <2>2 DEF Shape
    <2>4. Distance(sq'.head, sq'.tail) = Distance(h, t) - 1
      <3>1. Distance((h + 1) % Wrap, t) = Distance(h, t) - 1
        BY ZenonT(30), <1>a, <1>q, DistanceSteps
      <3> QED BY ZenonT(30), <2>1, <3>1
    <2>5. NoEntryOverwritten'
      BY <1>a, <1>q, <2>4, RingAssumption DEF NoEntryOverwritten
    <2>6. Fresh' /\ Queued'
      BY <1>a, <1>u, <2>1, <2>2 DEF Fresh, Queued, Calling
    <2>7. ASSUME ~abandoned PROVE Orderly'
      <3>1. Orderly /\ kernel = {} /\ cq.head = cq.tail
        BY <1>a, <1>u, <2>7 DEF Orderly
      <3>2. Pending(r, n)
        <4>1. 0 \in 0 .. Distance(h, t) - 1
          <5>1. Distance(h, t) # 0
            BY ZenonT(30), <1>a, <1>q, Distances
          <5> QED BY <1>q, <5>1
        <4>2. h + 0 = h
          BY <1>a
        <4> QED BY ZenonT(30), <3>1, <4>1, <4>2 DEF Orderly
      <3>3. \A j \in 0 .. Distance(sq'.head, sq'.tail) - 1 :
               Pending(sq'.slots[(sq'.head + j) % SQEntries], device'.durable)
        <4> SUFFICES ASSUME NEW j \in 0 .. Distance((h + 1) % Wrap, t) - 1
                     PROVE  Pending(sq.slots[(((h + 1) % Wrap) + j) % SQEntries], n)
          BY ZenonT(30), <1>u, <2>1
        <4>1. j + 1 \in 0 .. Distance(h, t) - 1
          BY ZenonT(30), <1>a, <1>q, TakeLive
        <4>2. (((h + 1) % Wrap) + j) % SQEntries = (h + (j + 1)) % SQEntries
          BY ZenonT(30), <1>a, <1>q, TakeLive
        <4>3. Pending(sq.slots[(h + (j + 1)) % SQEntries], n)
          BY ZenonT(30), <3>1, <4>1 DEF Orderly
        <4> QED BY ZenonT(30), <4>2, <4>3
      <3>4. Taken'
        <4>1. kernel' = {r}
          BY <2>1, <3>1
        <4>2. Pending(r, device'.durable)
          BY <1>u, <3>2
        <4>3. r.data = writer'.request.data => r = writer'.request /\ sq'.head = sq'.tail
          BY <1>q, <2>1, <2>2
        <4> QED BY <1>s, <1>u, <3>1, <4>1, <4>2, <4>3 DEF Taken
      <3>5. ASSUME writer.request.op = "fsync"
            PROVE  sq'.head = sq'.tail /\ kernel' \subseteq {writer'.request}
        BY <1>q, <1>u, <2>1, <2>2, <3>1, <3>5 DEF Orderly
      <3>6. /\ \A b \in 1 .. n : file.written[b] = b /\ file.durable[b] = b
            /\ writer.request.op = "write" => writer.request.block = n + 1 /\ buffer[writer.request.slot] = n + 1
            /\ writer.request.op = "fsync" => file.written[n + 1] = n + 1
        BY SMTT(30), <1>u, <3>1 DEF Orderly
      <3> QED BY <1>u, <2>2, <3>3, <3>4, <3>5, <3>6 DEF Orderly, Calling
    <2> QED BY <1>u, <2>3, <2>5, <2>6, <2>7 DEF IInv
  <1>2. CASE sq' = sq /\ kernel' = kernel /\ writer' = [writer EXCEPT !.stage = "submit"]
    <2>1. writer' = writer
      BY <1>2, <1>a, <1>u DEF Writers
    <2> QED BY <1>2, <1>a, <1>u, <2>1 DEF IInv, Shape, NoEntryOverwritten, Fresh, Queued, Orderly, Calling,
                                         Pending, Taken, Answered, Done
  <1>3. CASE sq' = sq /\ kernel' = kernel /\ writer' = Failed(writer)
    <2>1. writer' \in Writers /\ writer'.stage = "idle" /\ writer'.sequence = writer.sequence
      BY <1>3, <1>a, FailedWriter
    <2>2. Shape' /\ NoEntryOverwritten' /\ Queued'
      BY <1>3, <1>a, <1>u, <2>1 DEF Shape, NoEntryOverwritten, Queued
    <2>3. Fresh'
      BY SMTT(30), <1>3, <1>a, <2>1, DataBound DEF Fresh, Calling
    <2>4. ASSUME ~abandoned PROVE Orderly'
      <3>1. Orderly
        BY <1>a, <2>4
      <3> QED BY <1>3, <1>u, <2>1, <3>1 DEF Orderly, Calling, Pending
    <2> QED BY <1>u, <2>2, <2>3, <2>4 DEF IInv
  <1> QED BY SMTT(30), <1>1, <1>2, <1>3, EnterOutcomes DEF IInv

(* Fill publishes the write: its user data is new, and the buffer holds    *)
(* the record.                                                             *)
LEMMA FillKeeps ==
    ASSUME IInv, Fill
    PROVE  IInv'
  <1> DEFINE n == device.durable
             q == writer.sequence
             w == [writer EXCEPT !.sequence = @ + 1]
             r == WriteFixed(n + 1, Slot(q), q + 1)
  <1>a. /\ Shape /\ NoEntryOverwritten /\ Fresh /\ Queued /\ (~abandoned => Orderly)
        /\ sq \in SQRings /\ writer \in Writers /\ q \in Nat /\ n \in Nat
        /\ buffer \in [0 .. Depth - 1 -> Int] /\ writer.stage = "fill"
    BY DEF IInv, Shape, Writers, Fill
  <1>u. /\ UNCHANGED << cq, kernel, file, device, abandoned >>
        /\ buffer' = [buffer EXCEPT ![Slot(q)] = n + 1] /\ Publish(w, r)
    BY DEF Fill
  <1>s. Slot(q) \in 0 .. Depth - 1
    BY <1>a, RingAssumption DEF Slot
  <1>w. w \in Writers /\ w.sequence = q + 1
    BY <1>a DEF Writers
  <1>r. /\ r \in Requests /\ r.op = "write" /\ r.data = 2 * (q + 1) /\ r.block = n + 1
        /\ r.slot = Slot(q)
    BY <1>a, <1>s DEF WriteFixed, Request, Requests
  <1>b. buffer' \in [0 .. Depth - 1 -> Int] /\ buffer'[Slot(q)] = n + 1
    BY <1>a, <1>s, <1>u
  <1>d. \A k \in 0 .. SQEntries - 1 : sq.slots[k].data < r.data /\ sq.slots[k].data \in Nat
    BY SMTT(30), <1>a, <1>r, DataBound
  <1> HIDE DEF w, r
  <1>1. CASE Full(sq)
    <2>1. sq' = sq /\ writer' = Failed(w)
      BY <1>1, <1>u DEF Publish
    <2>2. writer' \in Writers /\ writer'.stage = "idle" /\ writer'.sequence = q + 1
      BY <1>w, <2>1, FailedWriter
    <2>3. Shape' /\ NoEntryOverwritten' /\ Queued'
      BY <1>a, <1>b, <1>u, <2>1, <2>2 DEF Shape, NoEntryOverwritten, Queued
    <2>4. Fresh'
      BY SMTT(30), <1>a, <1>d, <1>r, <2>1, <2>2 DEF Fresh, Calling
    <2>5. ASSUME ~abandoned PROVE Orderly'
      <3>1. Orderly
        BY SMTT(30), <1>a, <2>5
      <3> QED BY <1>a, <1>u, <2>1, <2>2, <3>1 DEF Orderly, Calling
    <2> QED BY <1>u, <2>3, <2>4, <2>5 DEF IInv
  <1>2. CASE ~Full(sq)
    <2>1. /\ sq' \in SQRings /\ writer' \in Writers /\ NoEntryOverwritten' /\ Queued'
          /\ writer' = [w EXCEPT !.stage = "submit", !.request = r, !.head = sq.head]
          /\ \A k \in 0 .. SQEntries - 1 : sq'.slots[k] \in {r, sq.slots[k]}
          /\ \A j \in 0 .. Distance(sq'.head, sq'.tail) - 1 :
                sq'.slots[(sq'.head + j) % SQEntries]
                    \in {r} \cup {sq.slots[(sq.head + i) % SQEntries] :
                                     i \in 0 .. Distance(sq.head, sq.tail) - 1}
      BY ZenonT(30), <1>2, <1>a, <1>d, <1>r, <1>u, <1>w, Published
    <2>2. writer'.stage = "submit" /\ writer'.request = r /\ writer'.sequence = q + 1
      BY SMTT(30), <1>w, <2>1 DEF Writers
    <2>3. Shape'
      BY SMTT(30), <1>a, <1>b, <1>u, <2>1 DEF Shape
    <2>4. Fresh'
      BY SMTT(30), <1>a, <1>d, <1>r, <2>1, <2>2 DEF Fresh, Calling
    <2>5. ASSUME ~abandoned PROVE Orderly'
      <3>1. Orderly
        BY <1>a, <2>5
      <3>2. \A j \in 0 .. Distance(sq'.head, sq'.tail) - 1 :
               Pending(sq'.slots[(sq'.head + j) % SQEntries], n)
        <4>1. Pending(r, n)
          BY <1>r DEF Pending
        <4>2. \A i \in 0 .. Distance(sq.head, sq.tail) - 1 : Pending(sq.slots[(sq.head + i) % SQEntries], n)
          BY <3>1 DEF Orderly
        <4> QED BY ZenonT(30), <2>1, <4>1, <4>2
      <3>3. /\ \A b \in 1 .. n : file.written[b] = b /\ file.durable[b] = b
            /\ kernel = {} /\ cq.head = cq.tail
        BY <1>a, <3>1 DEF Orderly
      <3> QED BY <1>b, <1>r, <1>u, <2>2, <3>2, <3>3 DEF Orderly, Calling
    <2> QED BY <1>u, <2>1, <2>3, <2>4, <2>5 DEF IInv
  <1> QED BY <1>1, <1>2

(* Append and Begin touch nothing that a running call depends on, and a    *)
(* wait that fails ends the promise.                                       *)
LEMMA CallerKeeps ==
    ASSUME IInv, Append \/ Begin \/ WaitFails
    PROVE  IInv'
  <1>a. /\ Shape /\ NoEntryOverwritten /\ Fresh /\ Queued /\ (~abandoned => Orderly)
        /\ writer \in Writers /\ buffer \in [0 .. Depth - 1 -> Int]
        /\ device \in [appended : 0 .. MaxRecords, durable : Nat] /\ writer.sequence \in Nat
        /\ device.durable <= device.appended /\ MaxRecords \in Nat
    BY RingAssumption DEF IInv, Shape, Writers
  <1>1. CASE Append
    <2>1. /\ UNCHANGED << sq, cq, kernel, buffer, file, writer, abandoned >>
          /\ writer.stage = "idle" /\ device' = [device EXCEPT !.appended = @ + 1]
          /\ device.appended < MaxRecords
      BY <1>1 DEF Append
    <2>2. /\ device'.durable = device.durable /\ device'.durable <= device'.appended
          /\ device' \in [appended : 0 .. MaxRecords, durable : Nat]
      BY <1>a, <2>1
    <2>3. Shape'
      BY <1>a, <2>1, <2>2 DEF Shape
    <2>4. NoEntryOverwritten' /\ Fresh' /\ Queued'
      BY <1>a, <2>1 DEF NoEntryOverwritten, Fresh, Queued, Calling
    <2>5. ASSUME ~abandoned PROVE Orderly'
      BY <1>a, <2>1, <2>2, <2>5 DEF Orderly, Calling
    <2> QED BY <2>1, <2>3, <2>4, <2>5 DEF IInv
  <1>2. CASE Begin
    <2>1. /\ UNCHANGED << sq, cq, kernel, file, device, abandoned >>
          /\ writer.stage = "idle" /\ writer' = [writer EXCEPT !.stage = "fill"]
          /\ buffer' = [buffer EXCEPT ![Slot(writer.sequence)] = Cleared]
          /\ device.durable < device.appended
      BY <1>2 DEF Begin
    <2>2. writer' \in Writers /\ writer'.stage = "fill" /\ writer'.sequence = writer.sequence
      <3>1. writer \in Writers
        BY <1>a
      <3> QED BY <2>1, <3>1 DEF Writers
    <2>6. buffer' \in [0 .. Depth - 1 -> Int]
      <3>1. buffer \in [0 .. Depth - 1 -> Int] /\ Cleared \in Int
        BY <1>a DEF Cleared
      <3> QED BY ZenonT(30), <2>1, <3>1
    <2>3. Shape'
      BY <1>a, <2>1, <2>2, <2>6 DEF Shape
    <2>4. NoEntryOverwritten' /\ Fresh' /\ Queued'
      BY <1>a, <2>1, <2>2 DEF NoEntryOverwritten, Fresh, Queued, Calling
    <2>5. ASSUME ~abandoned PROVE Orderly'
      BY <1>a, <2>1, <2>2, <2>5 DEF Orderly, Calling
    <2> QED BY <2>1, <2>3, <2>4, <2>5 DEF IInv
  <1>3. CASE WaitFails
    <2>1. /\ UNCHANGED << sq, cq, kernel, buffer, file, device >>
          /\ writer' = Failed(writer) /\ abandoned' = TRUE
      BY <1>3 DEF WaitFails
    <2>2. writer' \in Writers /\ writer'.stage = "idle" /\ writer'.sequence = writer.sequence
      BY <1>a, <2>1, FailedWriter
    <2>3. Shape'
      BY <1>a, <2>1, <2>2 DEF Shape
    <2>4. NoEntryOverwritten' /\ Queued'
      BY SMTT(30), <1>a, <2>1, <2>2 DEF NoEntryOverwritten, Queued
    <2>5. Fresh'
      BY <1>a, <2>1, <2>2, DataBound DEF Fresh, Calling
    <2> QED BY <2>1, <2>3, <2>4, <2>5 DEF IInv
  <1> QED BY <1>1, <1>2, <1>3

(* The completion that is taken is that of the writer's entry if it has    *)
(* its user data; only then does the call go on, and only then is the      *)
(* record counted.                                                         *)
LEMMA CompleteKeeps ==
    ASSUME IInv, Complete
    PROVE  IInv'
  <1> DEFINE n == device.durable
             q == writer.sequence
             c == cq.slots[cq.head % CQEntries]
             r == Fsync(q)
  <1>a. /\ Shape /\ NoEntryOverwritten /\ Fresh /\ Queued /\ (~abandoned => Orderly)
        /\ sq \in SQRings /\ cq \in CQRings /\ writer \in Writers /\ q \in Nat /\ n \in Nat
        /\ writer.request \in Requests /\ cq.head \in Nat
        /\ writer.stage = "wait" /\ cq.head # cq.tail /\ Calling /\ n < device.appended
    BY DEF IInv, Shape, Writers, CQRings, Complete, Calling, Counter
  <1>u. /\ UNCHANGED << kernel, buffer, file, abandoned >> /\ cq' = Take(cq)
        /\ \/ /\ writer' = Failed(writer) /\ UNCHANGED << sq, device >>
           \/ /\ c[1] = writer.request.data /\ c[2] = "ok" /\ writer.request.op = "write"
              /\ Publish(writer, r) /\ UNCHANGED device
           \/ /\ c[1] = writer.request.data /\ c[2] = "ok" /\ writer.request.op = "fsync"
              /\ writer' = Failed(writer) /\ UNCHANGED sq
              /\ device' = [device EXCEPT !.durable = @ + 1]
    BY ZenonT(60) DEF Complete, Verdict, Failed
  <1>c. /\ cq' \in CQRings /\ cq'.head = (cq.head + 1) % Wrap /\ cq'.tail = cq.tail
    BY SMTT(30), <1>a, <1>u, TakeFields
  <1>o. ASSUME ~abandoned
        PROVE  /\ kernel = {} /\ cq'.head = cq'.tail
               /\ \A b \in 1 .. n : file.written[b] = b /\ file.durable[b] = b
               /\ c[1] = writer.request.data /\ c[2] = "ok" =>
                     /\ sq.head = sq.tail
                     /\ writer.request.op = "write" => file.written[n + 1] = n + 1
                     /\ writer.request.op = "fsync" =>
                           file.durable = file.written /\ file.written[n + 1] = n + 1
    <2>1. Orderly
      BY SMTT(30), <1>a, <1>o
    <2>2. Answered
      BY SMTT(30), <1>a, <2>1 DEF Orderly, Taken
    <2>3. writer.request.op = "fsync" => file.written[n + 1] = n + 1
      BY <1>a, <2>1 DEF Orderly
    <2> QED BY <1>a, <1>c, <2>1, <2>2, <2>3 DEF Orderly, Answered, Done
  <1>1. CASE writer' = Failed(writer) /\ UNCHANGED << sq, device >>
    <2>1. writer' \in Writers /\ writer'.stage = "idle" /\ writer'.sequence = q
      BY <1>1, <1>a, FailedWriter
    <2>2. Shape'
      BY <1>1, <1>a, <1>c, <1>u, <2>1 DEF Shape
    <2>3. NoEntryOverwritten' /\ Queued'
      BY <1>1, <1>a, <2>1 DEF NoEntryOverwritten, Queued
    <2>4. Fresh'
      BY <1>1, <1>a, <2>1, DataBound DEF Fresh, Calling
    <2>5. ASSUME ~abandoned PROVE Orderly'
      <3>1. \A j \in 0 .. Distance(sq.head, sq.tail) - 1 : Pending(sq.slots[(sq.head + j) % SQEntries], n)
        BY <1>a, <2>5 DEF Orderly
      <3> QED BY SMTT(30), <1>1, <1>o, <1>u, <2>1, <2>5, <3>1 DEF Orderly, Calling
    <2> QED BY <1>u, <2>2, <2>3, <2>4, <2>5 DEF IInv
  <1>2. CASE /\ c[1] = writer.request.data /\ c[2] = "ok" /\ writer.request.op = "write"
             /\ Publish(writer, r) /\ UNCHANGED device
    <2>r. r \in Requests /\ r.op = "fsync" /\ r.data = 2 * q + 1
      BY <1>a, RingAssumption DEF Fsync, Request, Requests
    <2>d. \A k \in 0 .. SQEntries - 1 : sq.slots[k].data < r.data
      <3>1. \A k \in 0 .. SQEntries - 1 : sq.slots[k].data <= 2 * q /\ sq.slots[k].data \in Nat
        BY <1>2, <1>a, DataBound DEF Fresh
      <3> QED BY <1>a, <2>r, <3>1
    <2> HIDE DEF r
    <2>1. CASE Full(sq)
      <3>1. sq' = sq /\ writer' = Failed(writer)
        BY <1>2, <2>1 DEF Publish
      <3> QED BY <1>1, <1>2, <3>1
    <2>2. CASE ~Full(sq)
      <3>1. /\ sq' \in SQRings /\ writer' \in Writers /\ NoEntryOverwritten' /\ Queued'
            /\ sq'.head = sq.head /\ sq'.tail = (sq.tail + 1) % Wrap
            /\ writer' = [writer EXCEPT !.stage = "submit", !.request = r, !.head = sq.head]
        BY ZenonT(30), <1>2, <1>a, <2>2, <2>d, <2>r, Published
      <3>2. writer'.stage = "submit" /\ writer'.request = r /\ writer'.sequence = q
        BY <1>a, <3>1 DEF Writers
      <3>3. \A k \in 0 .. SQEntries - 1 : sq'.slots[k] \in {r, sq.slots[k]}
        BY ZenonT(30), <1>2, <1>a, <2>2, <2>d, <2>r, Published
      <3>4. Shape'
        BY <1>2, <1>a, <1>c, <1>u, <3>1 DEF Shape
      <3>5. Fresh'
        <4>1. \A k \in 0 .. SQEntries - 1 : sq.slots[k].data \in Nat
          BY <1>a, DataBound
        <4> QED BY <1>a, <2>d, <2>r, <3>2, <3>3, <4>1 DEF Fresh, Calling
      <3>6. ASSUME ~abandoned PROVE Orderly'
        <4>1. sq.head = sq.tail /\ file.written[n + 1] = n + 1 /\ kernel = {} /\ cq'.head = cq'.tail
          BY <1>2, <1>o, <3>6
        <4>2. \A j \in 0 .. Distance(sq'.head, sq'.tail) - 1 :
                 Pending(sq'.slots[(sq'.head + j) % SQEntries], n)
          <5>1. \A j \in 0 .. Distance(sq'.head, sq'.tail) - 1 :
                sq'.slots[(sq'.head + j) % SQEntries]
                    \in {r} \cup {sq.slots[(sq.head + i) % SQEntries] :
                                     i \in 0 .. Distance(sq.head, sq.tail) - 1}
            BY ZenonT(30), <1>2, <1>a, <2>2, <2>d, <2>r, Published
          <5>2. \A i \in 0 .. Distance(sq.head, sq.tail) - 1 : Pending(sq.slots[(sq.head + i) % SQEntries], n)
            BY <1>a, <3>6 DEF Orderly
          <5>3. Pending(r, n)
            BY <2>r DEF Pending
          <5> QED BY ZenonT(30), <5>1, <5>2, <5>3
        <4> QED BY <1>2, <1>o, <1>u, <2>r, <3>1, <3>2, <3>6, <4>1, <4>2 DEF Orderly, Calling
      <3> QED BY <1>u, <3>1, <3>4, <3>5, <3>6 DEF IInv
    <2> QED BY <2>1, <2>2
  <1>3. CASE /\ c[1] = writer.request.data /\ c[2] = "ok" /\ writer.request.op = "fsync"
             /\ writer' = Failed(writer) /\ UNCHANGED sq
             /\ device' = [device EXCEPT !.durable = @ + 1]
    <2>1. writer' \in Writers /\ writer'.stage = "idle" /\ writer'.sequence = q
      BY <1>3, <1>a, FailedWriter
    <2>2. /\ device'.durable = n + 1 /\ device'.appended = device.appended /\ n + 1 <= device.appended
          /\ device' \in [appended : 0 .. MaxRecords, durable : Nat]
      BY <1>3, <1>a DEF Shape
    <2>3. NoEntryOverwritten' /\ Queued'
      BY <1>3, <1>a, <2>1 DEF NoEntryOverwritten, Queued
    <2>4. Fresh'
      BY <1>3, <1>a, <2>1, DataBound DEF Fresh, Calling
    <2>5. Shape'
      BY <1>3, <1>a, <1>c, <1>u, <2>1, <2>2 DEF Shape
    <2>6. ASSUME ~abandoned PROVE Orderly'
      <3>1. sq.head = sq.tail /\ file.durable = file.written /\ file.written[n + 1] = n + 1
        BY <1>3, <1>o, <2>6
      <3>2. \A b \in 1 .. n + 1 : file.written[b] = b /\ file.durable[b] = b
        BY <1>a, <1>o, <2>6, <3>1
      <3>3. Distance(sq.head, sq.tail) = 0
        <4>1. sq.head \in Counter /\ sq.tail \in Counter
          BY <1>a DEF SQRings
        <4>2. Distance(sq.head, sq.tail) = 0 <=> sq.head = sq.tail
          BY ZenonT(30), <4>1, Distances
        <4> QED BY <3>1, <4>2
      <3>4. 0 .. Distance(sq.head, sq.tail) - 1 = {}
        BY <3>3
      <3> QED BY <1>3, <1>o, <1>u, <2>1, <2>2, <2>6, <3>2, <3>4 DEF Orderly, Calling
    <2> QED BY <1>u, <2>3, <2>4, <2>5, <2>6 DEF IInv
  <1> QED BY <1>1, <1>2, <1>3, <1>u

----------------------------------------------------------------------------
(* The steps of the kernel                                                 *)

(* The completion that the kernel posts: in an empty ring it is the one    *)
(* that the process sees next.                                             *)
LEMMA Posted ==
    ASSUME Shape, NEW r \in kernel, NEW result \in {"ok", "error"}, Post(r, result)
    PROVE  /\ cq' \in CQRings /\ cq'.head = cq.head /\ cq'.tail = (cq.tail + 1) % Wrap
           /\ cq.head = cq.tail =>
                 /\ cq'.slots[cq'.head % CQEntries][1] = r.data
                 /\ cq'.slots[cq'.head % CQEntries][2] = result
  <1> DEFINE k0 == cq.tail % CQEntries
             tn == (cq.tail + 1) % Wrap
             c  == << r.data, result >>
  <1>1. cq \in CQRings /\ cq.head \in Counter /\ cq.tail \in Counter /\ cq.tail \in Nat
    BY DEF Shape, CQRings, Counter
  <1>2. k0 \in 0 .. CQEntries - 1
    BY <1>1, SlotTypes
  <1>3. tn \in Counter
    BY ZenonT(30), <1>1, Advance
  <1>4. r.data \in Nat /\ c \in Nat \X {"ok", "error"} /\ c[1] = r.data /\ c[2] = result
    BY DEF Shape, Requests
  <1>5. cq' = [cq EXCEPT !.slots[k0] = c, !.tail = tn]
    BY DEF Post
  <1> HIDE DEF k0, tn, c
  <1>6. /\ cq' \in CQRings /\ cq'.head = cq.head /\ cq'.tail = tn /\ cq'.slots[k0] = c
    BY ZenonT(30), <1>1, <1>2, <1>3, <1>4, <1>5 DEF CQRings
  <1> QED BY <1>4, <1>6 DEF k0, tn

(* Whatever the kernel makes of a request it has, the records that were    *)
(* counted stay, and an answer without an error means what it says.        *)
LEMMA RunKeeps ==
    ASSUME IInv, Run
    PROVE  IInv'
  <1> DEFINE n == device.durable
  <1>a. /\ Shape /\ NoEntryOverwritten /\ Fresh /\ Queued /\ (~abandoned => Orderly)
        /\ writer \in Writers /\ n \in Nat /\ file \in Files /\ buffer \in [0 .. Depth - 1 -> Int]
        /\ file.written \in [Block -> Int] /\ file.durable \in [Block -> Int]
    BY DEF IInv, Shape, Files
  <1>1. PICK r \in kernel : Execute(r) \/ Refuse(r)
    BY DEF Run
  <1>r. r \in Requests /\ buffer[r.slot] \in Int
    BY <1>a DEF Shape, Requests
  <1>2. PICK result \in {"ok", "error"} :
          /\ Post(r, result)
          /\ \/ result = "error" /\ file' = file
             \/ result = "error" /\ r.op = "write" /\ file' = [file EXCEPT !.written[r.block] = Torn]
             \/ result = "ok" /\ r.op = "write" /\ file' = [file EXCEPT !.written[r.block] = buffer[r.slot]]
             \/ result = "ok" /\ r.op # "write" /\ file' = [file EXCEPT !.durable = file.written]
    BY ZenonT(30), <1>1 DEF Execute, Refuse
  <1>u. kernel' = kernel \ {r} /\ UNCHANGED << sq, buffer, writer, device, abandoned >>
    BY <1>2 DEF Post
  <1>c. /\ cq' \in CQRings /\ cq'.head = cq.head /\ cq'.tail = (cq.tail + 1) % Wrap
        /\ cq.head = cq.tail =>
              /\ cq'.slots[cq'.head % CQEntries][1] = r.data
              /\ cq'.slots[cq'.head % CQEntries][2] = result
    BY ZenonT(30), <1>2, <1>a, Posted
  <1>f. /\ file' \in Files
        /\ file'.written \in [Block -> Int] /\ file'.durable \in {file.durable, file.written}
        /\ file'.written # file.written => r.op = "write"
        /\ \A b \in Block : b # r.block => file'.written[b] = file.written[b]
        /\ result = "ok" /\ r.op = "write" /\ r.block \in Block =>
              file'.written[r.block] = buffer[r.slot]
        /\ result = "ok" /\ r.op # "write" => file'.durable = file.written /\ file'.written = file.written
    <2>1. Torn \in Int
      BY DEF Torn
    <2>2. CASE file' = file /\ result = "error"
      BY <1>a, <2>2
    <2>3. ASSUME NEW v \in Int, file' = [file EXCEPT !.written[r.block] = v]
          PROVE  /\ file' \in Files /\ file'.durable = file.durable
                 /\ file'.written = [file.written EXCEPT ![r.block] = v]
                 /\ file'.written \in [Block -> Int]
                 /\ \A b \in Block : b # r.block => file'.written[b] = file.written[b]
                 /\ r.block \in Block => file'.written[r.block] = v
      BY ZenonT(30), <1>a, <2>3 DEF Files
    <2>4. CASE result = "error" /\ r.op = "write" /\ file' = [file EXCEPT !.written[r.block] = Torn]
      BY ZenonT(30), <2>1, <2>3, <2>4
    <2>5. CASE result = "ok" /\ r.op = "write" /\ file' = [file EXCEPT !.written[r.block] = buffer[r.slot]]
      BY ZenonT(30), <1>r, <2>3, <2>5
    <2>6. CASE result = "ok" /\ r.op # "write" /\ file' = [file EXCEPT !.durable = file.written]
      BY ZenonT(30), <1>a, <2>6 DEF Files
    <2> QED BY <1>2, <2>2, <2>4, <2>5, <2>6
  <1>3. Shape'
    BY SMTT(30), <1>a, <1>c, <1>f, <1>u DEF Shape
  <1>4. NoEntryOverwritten' /\ Fresh' /\ Queued'
    BY SMTT(30), <1>a, <1>u DEF NoEntryOverwritten, Fresh, Queued, Calling
  <1>5. ASSUME ~abandoned PROVE Orderly'
    <2>1. Orderly /\ writer.stage = "wait" /\ Calling
      BY SMTT(30), <1>a, <1>5 DEF Orderly, Calling
    <2>2. Taken
      BY SMTT(30), <2>1 DEF Orderly, Answered
    <2>3. /\ kernel = {r} /\ cq.head = cq.tail /\ Pending(r, n)
          /\ r.data = writer.request.data => r = writer.request /\ sq.head = sq.tail
      BY <2>2 DEF Taken
    <2>4. n + 1 \in Block /\ \A b \in 1 .. n : b \in Block /\ b # n + 1
      BY SMTT(30), <1>a, <2>1, RingAssumption DEF Shape, Block
    <2>5. \A b \in 1 .. n : file'.written[b] = b /\ file'.durable[b] = b
      <3>1. \A b \in 1 .. n : file'.written[b] = file.written[b]
        BY <1>f, <2>3, <2>4 DEF Pending
      <3> QED BY <1>f, <2>1, <3>1 DEF Orderly
    <2>6. ASSUME writer.request.op = "fsync"
          PROVE  file'.written[n + 1] = n + 1 /\ sq.head = sq.tail
      <3>1. r = writer.request /\ file.written[n + 1] = n + 1 /\ sq.head = sq.tail
        BY <2>1, <2>3, <2>6 DEF Orderly
      <3> QED BY <1>f, <2>6, <3>1
    <2>7. ASSUME r = writer.request, result = "ok"
          PROVE  /\ writer.request.op = "write" => file'.written[n + 1] = n + 1
                 /\ writer.request.op = "fsync" => file'.durable = file'.written
      <3>1. CASE r.op = "write"
        <4>1. r.block = n + 1 /\ buffer[r.slot] = n + 1
          BY <2>1, <2>7, <3>1 DEF Orderly
        <4> QED BY <1>f, <2>4, <2>7, <3>1, <4>1
      <3>2. CASE r.op # "write"
        BY <1>f, <2>7, <3>2
      <3> QED BY <3>1, <3>2
    <2>8. Answered'
      <3>1. kernel' = {} /\ cq'.tail = (cq'.head + 1) % Wrap
        BY <1>c, <1>u, <2>3
      <3>2. ASSUME cq'.slots[cq'.head % CQEntries][1] = writer.request.data
            PROVE  /\ sq.head = sq.tail
                   /\ cq'.slots[cq'.head % CQEntries][2] = "ok" =>
                        /\ writer.request.op = "write" => file'.written[n + 1] = n + 1
                        /\ writer.request.op = "fsync" => file'.durable = file'.written
        BY <1>c, <2>3, <2>7, <3>2
      <3> QED BY <1>u, <3>1, <3>2 DEF Answered, Done
    <2>9. /\ \A j \in 0 .. Distance(sq.head, sq.tail) - 1 : Pending(sq.slots[(sq.head + j) % SQEntries], n)
          /\ writer.request.op = "write" =>
                writer.request.block = n + 1 /\ buffer[writer.request.slot] = n + 1
      BY <2>1 DEF Orderly
    <2> QED BY SMTT(30), <1>u, <2>1, <2>3, <2>5, <2>6, <2>8, <2>9 DEF Orderly, Calling
  <1> QED BY <1>3, <1>4, <1>5, <1>u DEF IInv

----------------------------------------------------------------------------
(* The theorems                                                            *)

(* Rings that are just mapped are empty and satisfy the invariant. *)
LEMMA InitHolds == Init => IInv
  <1> SUFFICES ASSUME Init PROVE IInv
    OBVIOUS
  <1>1. NoRequest \in Requests /\ NoRequest.data = 0 /\ NoRequest.op = "none"
    BY RingAssumption DEF NoRequest, Request, Requests
  <1>2. /\ Start \in Counter /\ SQEntries \in Nat \ {0} /\ MaxRecords \in Nat
    BY RingAssumption DEF Counter
  <1>3. Distance(Start, Start) = 0
    BY ZenonT(30), <1>2, Distances
  <1>4. << 0, "ok" >> \in Nat \X {"ok", "error"} /\ Cleared \in Int
    BY DEF Cleared
  <1>5. /\ sq \in SQRings /\ cq \in CQRings /\ file \in Files
        /\ writer \in Writers
    <2>1. sq \in SQRings
      BY SMTT(30), <1>1, <1>2 DEF Init, SQRings
    <2>2. cq \in CQRings
      BY SMTT(30), <1>2, <1>4 DEF Init, CQRings
    <2>3. file \in Files
      BY <1>4 DEF Init, Files
    <2>4. writer \in Writers
      BY <1>1 DEF Init, Writers
    <2> QED BY <2>1, <2>2, <2>3, <2>4
  <1>6. Shape
    <2>1. buffer \in [0 .. Depth - 1 -> Int]
      BY <1>4 DEF Init
    <2>2. /\ device \in [appended : 0 .. MaxRecords, durable : Nat] /\ device.durable = device.appended
          /\ device.durable <= device.appended
      BY <1>2 DEF Init
    <2>3. kernel = {} /\ abandoned = FALSE /\ writer.stage = "idle"
      BY DEF Init
    <2> QED BY ZenonT(30), <1>5, <2>1, <2>2, <2>3 DEF Shape
  <1>7. sq.head = Start /\ sq.tail = Start /\ cq.head = cq.tail /\ writer.stage = "idle" /\ kernel = {}
        /\ device.durable = 0 /\ writer.sequence = 0
        /\ \A k \in 0 .. SQEntries - 1 : sq.slots[k] = NoRequest
    BY DEF Init
  <1>8. NoEntryOverwritten
    BY <1>2, <1>3, <1>7 DEF NoEntryOverwritten
  <1>9. Fresh /\ Queued
    BY SMTT(30), <1>1, <1>7 DEF Fresh, Queued, Calling
  <1>10. Orderly
    <2>1. 0 .. Distance(sq.head, sq.tail) - 1 = {} /\ 1 .. device.durable = {}
      BY SMTT(30), <1>3, <1>7
    <2> QED BY SMTT(30), <1>7, <2>1 DEF Orderly, Calling
  <1> QED BY <1>6, <1>8, <1>9, <1>10 DEF IInv

(* What IInv says depends on the variables alone. *)
LEMMA StutterKeeps ==
    ASSUME IInv, UNCHANGED vars
    PROVE  IInv'
  <1>1. UNCHANGED << sq, cq, kernel, buffer, file, writer, device, abandoned >>
    BY DEF vars
  <1> QED BY <1>1 DEF IInv, Shape, NoEntryOverwritten, Fresh, Queued, Orderly, Calling, Taken, Answered, Done

(* The invariant holds in every state, for every ring size, buffer count,  *)
(* position of the counters and number of records, calls and errors.       *)
THEOREM RingInvariance == Spec => []IInv
  <1>1. ASSUME IInv, [Next]_vars PROVE IInv'
    <2>1. CASE Append \/ WaitFails
      BY <1>1, <2>1, CallerKeeps
    <2>2. CASE Process
      BY <1>1, <2>2, EnterKeeps, CompleteKeeps, CallerKeeps, FillKeeps DEF Process
    <2>3. CASE Run
      BY <1>1, <2>3, RunKeeps
    <2>4. CASE UNCHANGED vars
      BY <1>1, <2>4, StutterKeeps
    <2> QED BY <1>1, <2>1, <2>2, <2>3, <2>4 DEF Next
  <1> QED BY <1>1, InitHolds, PTL DEF Spec

(* DurableWriter: a record that Sync has counted is on the medium and      *)
(* stays there, after any number of failed calls that left entries in the  *)
(* ring and half-done writes, as long as no wait was given up.             *)
THEOREM CountedRecordsAreDurable == Spec => []CountedIsDurable
  <1>1. IInv => CountedIsDurable
    BY DEF IInv, Orderly, CountedIsDurable
  <1> QED BY <1>1, RingInvariance, PTL

(* submitAndWait: no published entry is overwritten before the kernel has  *)
(* taken it, wherever the counters stand and wrap, after any failures.     *)
THEOREM EntriesSurvive == Spec => []NoEntryOverwritten
  <1>1. IInv => NoEntryOverwritten
    BY DEF IInv
  <1> QED BY <1>1, RingInvariance, PTL
=============================================================================
