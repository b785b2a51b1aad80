---------------------------- MODULE TopologyWalk ----------------------------
(***************************************************************************)
(* Poller.Walk (internal/dashboard/poller.go): workers walk the network    *)
(* breadth first through one bounded queue that they also feed.  A counter *)
(* of unfinished addresses decides who closes the queue; the deadline of   *)
(* the cycle ends a walk that cannot go on.                                *)
(*                                                                         *)
(* The module describes one walk, from any seeds, over a network any part  *)
(* of which may not answer.  The collector that drains the result channel  *)
(* is part of the step that sends a result.                                *)
(***************************************************************************)
EXTENDS Integers, Sequences, FiniteSets

CONSTANTS
  Addrs,           \* addresses, "host:port"
  Id,              \* Id[a]: the identity the node at a reports
  Peers,           \* Peers[a]: the entries [id, addr] of a's topology
  PollWorkers,     \* the workers
  QueueSize,       \* capacity of the queue
  MaxVisitedNodes  \* addresses one walk pursues

ASSUME WalkAssumption ==
  /\ QueueSize \in Nat \ {0} /\ MaxVisitedNodes \in Nat \ {0}
  /\ PollWorkers # {} /\ IsFiniteSet(PollWorkers)
  /\ \A a \in Addrs : \A p \in Peers[a] : p.addr \in Addrs /\ p = [id |-> p.id, addr |-> p.addr]

VARIABLES
  answering,  \* addresses that answer
  seeding,    \* seeds still to enqueue
  queue, visited, pending, closed,
  worker,     \* worker[w]: pc, the entry it works on, the peers left to offer
  found,      \* results, one for each identity: [id, addr, up]
  deadline    \* the context of the walk is done

vars == <<answering, seeding, queue, visited, pending, closed, worker, found, deadline>>

Gone == [pc |-> "gone"]
Ready == [pc |-> "ready"]

\* A seed has no identity yet; its address stands for it.
Init ==
  /\ answering \in SUBSET Addrs
  /\ \E seeds \in (SUBSET Addrs) \ {{}} : seeding = {[id |-> a, addr |-> a] : a \in seeds}
  /\ queue = <<>> /\ visited = {} /\ pending = 0 /\ closed = FALSE
  /\ worker = [w \in PollWorkers |-> Ready] /\ found = {} /\ deadline = FALSE

Walked == \A w \in PollWorkers : worker[w] = Gone

\* enqueue, first half: an address is pursued once, and only so many are.
DropsWhenFull(p) ==   \* mutant: an address that finds the queue full is dropped
  p.addr \notin visited /\ Cardinality(visited) < MaxVisitedNodes /\ Len(queue) < QueueSize
Pursued(p) == p.addr \notin visited /\ Cardinality(visited) < MaxVisitedNodes

\* enqueue, second half: wait for room or for the deadline.
NeverGivesUp == FALSE   \* mutant: the send does not watch the context
GivesUp == deadline

Sent(p) == (IF Len(queue) < QueueSize THEN {Append(queue, p)} ELSE {}) \cup (IF GivesUp THEN {queue} ELSE {})

\* The seeds go in before any worker runs.
Seed ==
  /\ \E p \in seeding :
       /\ seeding' = seeding \ {p}
       /\ IF ~Pursued(p) THEN UNCHANGED <<queue, visited, pending>>
          ELSE visited' = visited \cup {p.addr} /\ pending' = pending + 1 /\ queue' \in Sent(p)
  /\ UNCHANGED <<closed, worker, found, deadline, answering>>

Take(w) ==
  /\ seeding = {} /\ worker[w] = Ready /\ queue # <<>>
  /\ worker' = [worker EXCEPT ![w] = [pc |-> "poll", entry |-> Head(queue)]]
  /\ queue' = Tail(queue)
  /\ UNCHANGED <<seeding, visited, pending, closed, found, deadline, answering>>

\* The queue is closed, or the deadline has passed; also a worker with a result
\* may notice the deadline first.
Leave(w) ==
  /\ seeding = {}
  /\ \/ worker[w] = Ready /\ closed /\ queue = <<>>
     \/ worker[w].pc \in {"ready", "poll"} /\ deadline
  /\ worker' = [worker EXCEPT ![w] = Gone]
  /\ UNCHANGED <<seeding, queue, visited, pending, closed, found, deadline, answering>>

\* The last result for an identity is kept.
Collected(r) == {q \in found : q.id # r.id} \cup {r}

Polled(w, r, peers) ==
  /\ worker[w].pc = "poll"
  /\ found' = Collected(r)
  /\ worker' = [worker EXCEPT ![w] = [pc |-> "offer", left |-> peers]]
  /\ UNCHANGED <<seeding, queue, visited, pending, closed, deadline, answering>>

\* pollOne: the node reports its identity and its peers.
Answered(w) ==
  LET a == worker[w].entry.addr
  IN /\ worker[w].pc = "poll" /\ a \in answering
     /\ Polled(w, [id |-> Id[a], addr |-> a, up |-> TRUE], Peers[a])

Unanswered(w) ==
  LET e == worker[w].entry
  IN /\ worker[w].pc = "poll" /\ (e.addr \notin answering \/ deadline)
     /\ Polled(w, [id |-> e.id, addr |-> e.addr, up |-> FALSE], {})

\* An address is counted before it is sent, so that its own end is not the last.
Mark(w) ==
  /\ worker[w].pc = "offer"
  /\ \E p \in worker[w].left :
       IF Pursued(p)
       THEN /\ visited' = visited \cup {p.addr} /\ pending' = pending + 1
            /\ worker' = [worker EXCEPT ![w] = [pc |-> "send", entry |-> p, left |-> @.left \ {p}]]
       ELSE /\ worker' = [worker EXCEPT ![w].left = @ \ {p}]
            /\ UNCHANGED <<visited, pending>>
  /\ UNCHANGED <<seeding, queue, closed, found, deadline, answering>>

Send(w) ==
  /\ worker[w].pc = "send"
  /\ queue' \in Sent(worker[w].entry)
  /\ worker' = [worker EXCEPT ![w] = [pc |-> "offer", left |-> @.left]]
  /\ UNCHANGED <<seeding, visited, pending, closed, found, deadline, answering>>

LastByQueue == queue = <<>>   \* mutant: an empty queue ends the walk
LastPending == pending = 1

\* The worker that finishes the last address closes the queue.
Finish(w) ==
  /\ worker[w].pc = "offer" /\ worker[w].left = {}
  /\ pending' = pending - 1
  /\ closed' = (closed \/ LastPending)
  /\ worker' = [worker EXCEPT ![w] = IF LastPending THEN Gone ELSE Ready]
  /\ UNCHANGED <<seeding, queue, visited, found, deadline, answering>>

Deadline ==
  /\ ~Walked /\ ~deadline
  /\ deadline' = TRUE
  /\ UNCHANGED <<seeding, queue, visited, pending, closed, worker, found, answering>>

Work(w) == Take(w) \/ Leave(w) \/ Answered(w) \/ Unanswered(w) \/ Mark(w) \/ Send(w) \/ Finish(w)
Next == Seed \/ Deadline \/ \E w \in PollWorkers : Work(w)

\* The workers run, and the walk budget ends.
Spec ==
  /\ Init /\ [][Next]_vars
  /\ WF_vars(Seed) /\ WF_vars(Deadline) /\ \A w \in PollWorkers : WF_vars(Work(w))

-----------------------------------------------------------------------------
(* Properties.                                                              *)

At(pcs) == {w \in PollWorkers : worker[w].pc \in pcs}

\* The counter is exact while no send was given up, and a closed queue has no
\* sender left: nobody sends on a closed channel and nobody closes it twice,
\* which in Go ends the process (Walk's pending and close(queue)).
QueueSafe ==
  /\ ~deadline => pending = Len(queue) + Cardinality(At({"poll", "offer", "send"})) + Cardinality(At({"send"}))
  /\ closed => queue = <<>> /\ At({"poll", "offer", "send"}) = {}

GoesBy(a, id) == id \in {a, Id[a]} \/ \E b \in visited : [id |-> id, addr |-> a] \in Peers[b]

\* A walk that was not cut short has polled all it heard of: every peer an
\* answering node listed was pursued, unless the limit of addresses was reached,
\* and for every address pursued there is a result under an identity it goes by:
\* its own, the one a peer gave it, or, for a seed, the address.
WalkComplete ==
  Walked /\ ~deadline =>
    /\ \A r \in found : r.up =>
         \A p \in Peers[r.addr] : p.addr \in visited \/ Cardinality(visited) = MaxVisitedNodes
    /\ \A a \in visited : \E r \in found : GoesBy(a, r.id)

\* Every walk ends, also when all workers wait for room in the queue that only
\* they could make, or the seeds do not fit in it (the walk budget).
WalkEnds == <>Walked
=============================================================================
