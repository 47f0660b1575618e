---------------------------- MODULE MCScenarios ----------------------------
(***************************************************************************)
(* Start states for TLC that the handlers themselves reach: a scenario     *)
(* plays operators of RaftNode, with messages delivered (Quiet, Among) or  *)
(* lost (Silent), so that a search spends its steps on what follows.       *)
(***************************************************************************)
EXTENDS Raft, TLC

CONSTANTS n1, n2, n3

Nodes2 == {n1, n2}
Nodes3 == {n1, n2, n3}

----------------------------------------------------------------------------
(* A scenario is a sequence of events, played from the empty cluster: its  *)
(* state has the nodes, every message sent, and those under way.           *)
Boot == [node |-> [i \in Server |-> NewNodeWithStore(i, EmptyDisk)], msgs |-> {}, net |-> {}]

At(i, do)       == [at |-> i, do |-> do]
Timeout(i)      == At(i, "timeout")
Beat(i)         == At(i, "beat")
Submit(i, c)    == [at |-> i, do |-> "submit", cmd |-> c]
Compaction(i)   == At(i, "compact")
Final(i)        == At(i, "final")
Stop(i)         == At(i, "stop")
Joint(i, v)     == [at |-> i, do |-> "joint", voters |-> v]

(* Deliver the messages of the types T among the nodes of S until none is  *)
(* left, and lose the others; or deliver one message of type t to i.       *)
Exchange(S, T)  == [do |-> "exchange", nodes |-> S, types |-> T]
Among(S)        == Exchange(S, MessageTypes)
Elect(S)        == Exchange(S, VoteTypes)
Quiet           == Among(Server)
Silent          == Exchange({}, {})
Hand(i, t)      == [do |-> "hand", to |-> i, type |-> t]

(* What the event e delivers next, if anything. *)
Deliverable(s, e) ==
    CASE e.do = "exchange" -> {m \in s.net : {m.from, m.to} \subseteq e.nodes /\ m.type \in e.types}
      [] e.do = "hand"     -> {m \in s.net : m.to = e.to /\ m.type = e.type}
      [] OTHER             -> {}

(* The node n after the operation of the event e. *)
Operated(n, e) ==
    CASE e.do = "timeout" -> StartPreVote(n)
      [] e.do = "beat"    -> BroadcastAppend(n)
      [] e.do = "submit"  -> Propose(n, e.cmd)
      [] e.do = "joint"   -> ProposeJoint(n, e.voters)
      [] e.do = "final"   -> ProposeFinal(n)
      [] e.do = "stop"    -> FailStorage(n, "io")
      [] e.do = "compact" -> LET applied == ApplyEntries(n) IN Compact(applied, applied.applied)

Do(s, i, n, got) == [node |-> [s.node EXCEPT ![i] = AtRest(n)],
                     msgs |-> s.msgs \cup n.out, net |-> (s.net \ got) \cup n.out]

Delivered(s, m) == Do(s, m.to, Step(s.node[m.to], m), {m})

(* One step of the event e, which for an exchange may be one of several. *)
Event(s, e) ==
    IF Deliverable(s, e) # {} THEN Delivered(s, CHOOSE m \in Deliverable(s, e) : TRUE)
    ELSE IF e.do = "exchange" THEN [s EXCEPT !.net = {}]
    ELSE Do(s, e.at, Operated(s.node[e.at], e), {})

RECURSIVE Play(_, _)
Play(s, events) ==
    IF events = << >> THEN s
    ELSE Play(Event(s, Head(events)),
              IF Head(events).do = "exchange" /\ Deliverable(s, Head(events)) # {}
              THEN events ELSE Tail(events))

(* Start in state s with what is allowed of each bound; the rest of the    *)
(* bounds is used up.                                                      *)
In(s, allowed) ==
    /\ node = s.node /\ msgs = s.msgs /\ inFlight = s.net
    /\ readFloor = [c \in ReadContext |-> 0]
    /\ used = [b \in DOMAIN Bound |-> IF b \in DOMAIN allowed THEN Bound[b] - allowed[b] ELSE Bound[b]]

(* A start is a pair << events, allowed >>. *)
From(starts) == \E start \in starts : In(Play(Boot, start[1]), start[2])

----------------------------------------------------------------------------
(* n1 leads term 1 and its no-op is committed everywhere. *)
Led == << Timeout(n1), Quiet >>

(* n3 has stopped; n1 leads term 1 and has an entry that n2 lacks. *)
Lagging(c) == Led \o << Stop(n3), Submit(n1, c), Silent >>

(* As Lagging; the others have waited in vain and forgotten their leader.  *)
Cut(c) == Led \o << Submit(n1, c), Timeout(n2), Timeout(n3), Silent >>

(* n1, leader of term 1, had appended a command when it was cut off; n2,   *)
(* elected by n3, leads term 2.                                            *)
Deposed(c) == Led \o << Submit(n1, c), Timeout(n3), Silent, Timeout(n2), Among({n2, n3}) >>

(* n1, leader of term 1, has appended its no-op and a command, which       *)
(* nobody else has; n2, elected by n3, leads term 2.  n1 knows of the      *)
(* term, n3 has stopped.                                                   *)
Overgrown(c) == << Timeout(n1), Elect(Server), Submit(n1, c), Silent,
                   Timeout(n2), Elect(Server), Stop(n3) >>

(* As Deposed; n2 has committed a command with n3, which has stopped. *)
Outrun(c) == Deposed(c) \o << Submit(n2, c), Among({n2, n3}), Stop(n3) >>

(* n1, leader of term 1, has committed an entry with n2, which does not    *)
(* know it; n2, elected by n3, leads term 2 and has committed nothing.     *)
Overtaken(c) == Led \o << Submit(n1, c), Hand(n2, "Append"), Hand(n1, "AppendResponse"),
                          Timeout(n3), Silent, Timeout(n2), Elect({n2, n3}), Beat(n2) >>

(* n1 was cut off as leader of term 1 when only it had its no-op, and so   *)
(* was n3 as leader of term 2.  n1, elected again by n2, leads term 3 and  *)
(* has brought its first no-op to n2; n3 has timed out, can still be       *)
(* elected by n2 and would then overwrite it.                              *)
Revived ==
    << Timeout(n1), Elect(Server), Timeout(n3), Elect(Server), Timeout(n1), Elect(Server), Beat(n1),
       Hand(n2, "Append"), Hand(n1, "AppendResponse"), Hand(n2, "Append"),
       Hand(n1, "AppendResponse"), Hand(n2, "Append"), Timeout(n2), Timeout(n3) >>

(* n1 and n2 have committed an entry that n3 never saw. *)
Behind(c) == Led \o << Submit(n1, c), Among({n1, n2}) >>

(* As Behind; n2 has compacted what it has committed and, elected by n3,   *)
(* leads term 2; n1 has stopped.                                           *)
Snapshotted(c) == Behind(c) \o << Compaction(n2), Timeout(n3), Silent, Stop(n1),
                                  Timeout(n2), Elect({n2, n3}) >>

(* A committed entry is everywhere, and n3 has compacted it; n2, elected   *)
(* by n3, leads term 2; n1 has stopped.                                    *)
CompactedFollower(c) == Led \o << Submit(n1, c), Quiet, Compaction(n3), Timeout(n3), Silent, Stop(n1),
                                  Timeout(n2), Elect({n2, n3}) >>

(* As Behind, and n2 has forgotten its leader. *)
Forgotten(c) == Behind(c) \o << Timeout(n2), Silent >>

(* n3 has stopped; n1 has appended an entry that n2 has acknowledged.      *)
Halved(c) == Led \o << Stop(n3), Submit(n1, c), Hand(n2, "Append") >>

(* n1 and n2 have committed a joint configuration that removes n3, which   *)
(* has the entry but does not know it committed, nor they that it has it.  *)
Unaware == Led \o << Joint(n1, {n1, n2}), Hand(n3, "Append"), Among({n1, n2}) >>

(* n1, leader of term 1, committed a joint configuration with n2, appended *)
(* the final one and was cut off.  n3, elected by n2, appended its no-op   *)
(* instead; n1, elected by n2, leads term 3.                               *)
Resumed == Led \o << Joint(n1, Nodes3), Hand(n2, "Append"), Hand(n3, "Append"),
                     Hand(n1, "AppendResponse"), Final(n1), Timeout(n2), Silent,
                     Timeout(n3), Elect(Server), Timeout(n1), Elect({n1, n2}), Beat(n1) >>

(* n1 has compacted its log up to an entry.  Then a joint configuration    *)
(* that leaves n1 alone was committed everywhere, the final entry on n1    *)
(* and n2 only, and n3 has forgotten its leader.                           *)
CompactedThenShrunk(c) ==
    Led \o << Submit(n1, c), Quiet, Compaction(n1), Joint(n1, {n1}), Quiet,
              Final(n1), Among({n1, n2}), Timeout(n3), Silent >>
=============================================================================
