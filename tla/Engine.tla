------------------------------- MODULE Engine -------------------------------
(***************************************************************************)
(* The schedule of package dst: the binary heap of messages in flight and  *)
(* the fault injectors, as pure operators.  An event is a record           *)
(* [at, seq, from, to, msg]; the heap is the slice of the code, shifted to *)
(* start at 1.  Operators named Bad... are deliberately wrong variants.    *)
(***************************************************************************)
EXTENDS Integers, Sequences

(* Wrong: sender and receiver are swapped. *)
BadEvent(at, seq, m) == [at |-> at, seq |-> seq, from |-> m.to, to |-> m.from, msg |-> m]

Event(at, seq, m) == [at |-> at, seq |-> seq, from |-> m.from, to |-> m.to, msg |-> m]

Earlier(a, b) == a.at < b.at \/ (a.at = b.at /\ a.seq < b.seq)

Swap(q, i, j) == [q EXCEPT ![i] = q[j], ![j] = q[i]]

RECURSIVE SiftUp(_, _)
SiftUp(q, i) ==
    IF i > 1 /\ Earlier(q[i], q[i \div 2]) THEN SiftUp(Swap(q, i, i \div 2), i \div 2) ELSE q

Push(q, ev) == SiftUp(Append(q, ev), Len(q) + 1)

(* The children of i that lie in the heap, and the earliest of i and them. *)
Family(q, i) == {i} \cup ({2 * i, 2 * i + 1} \cap DOMAIN q)

Smallest(q, i) ==
    CHOOSE j \in Family(q, i) : \A k \in Family(q, i) \ {j} : Earlier(q[j], q[k])

RECURSIVE SiftDown(_, _)
SiftDown(q, i) ==
    IF i \notin DOMAIN q \/ Smallest(q, i) = i THEN q
    ELSE SiftDown(Swap(q, i, Smallest(q, i)), Smallest(q, i))

Pop(q) == SiftDown([k \in 1..Len(q) - 1 |-> IF k = 1 THEN q[Len(q)] ELSE q[k]], 1)

RECURSIVE Heapify(_, _)
Heapify(q, i) == IF i = 0 THEN q ELSE Heapify(SiftDown(q, i), i - 1)

(* Wrong: the heap is not rebuilt. *)
BadIsolate(q, n) == SelectSeq(q, LAMBDA ev : ev.from # n /\ ev.to # n)

(* Engine.Isolate drops what is in flight from or to a node. *)
Isolate(q, n) ==
    LET kept == SelectSeq(q, LAMBDA ev : ev.from # n /\ ev.to # n)
    IN  Heapify(kept, Len(kept) \div 2)

(* The schedule of package sim, which has no heap: nextReady scans all     *)
(* that is in flight for the earliest event that is due.                   *)
NextReady(q, now) ==
    { k \in DOMAIN q : /\ q[k].at <= now
                       /\ \A j \in DOMAIN q \ {k} : q[j].at <= now => Earlier(q[k], q[j]) }

-----------------------------------------------------------------------------
(* Injectors: Split, Isolate and Link, as the links that they cut, within  *)
(* [start, end).                                                           *)

Split(a, b) == (a \X b) \cup (b \X a)
Severed(a, all) == (a \X all) \cup (all \X a)
Link(i, j)  == { << i, j >> }

During(start, end, links) == [start |-> start, end |-> end, links |-> links]

(* Is a message sent now over this link discarded by the injector? *)
Blocks(injector, now, i, j) ==
    /\ injector.start <= now /\ now < injector.end
    /\ << i, j >> \in injector.links
=============================================================================
