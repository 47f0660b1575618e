----------------------------- MODULE MCStorage -----------------------------
(* TLC instance of Storage and Backup. *)
EXTENDS Backup

CONSTANTS n1, x

Hard(t, v, c) == HardBody([term |-> t, votedFor |-> v, commit |-> c])

(* A new node, and one that holds two entries, the first committed, and    *)
(* has voted in a later term.                                              *)
TwoHistories ==
    { << >>,
      << Hard(1, None, 0), EntryBody(1, NormalEntry(1, x)), EntryBody(2, NormalEntry(1, x)),
         Hard(2, n1, 1) >> }
=============================================================================
