------------------------- MODULE TopologyWalkProofs -------------------------
(***************************************************************************)
(* Proofs about TopologyWalk: for any network, any number of workers, any  *)
(* capacity of the queue and any limit of addresses, the queue is closed   *)
(* once, with nobody left to send, and a walk that was not cut short is    *)
(* complete.                                                               *)
(***************************************************************************)
EXTENDS TopologyWalk, FiniteSetTheorems, SequenceTheorems, TLAPS

Entries == {[id |-> a, addr |-> a] : a \in Addrs} \cup UNION {Peers[a] : a \in Addrs}

WorkerStates ==
  {Ready, Gone} \cup [pc : {"poll"}, entry : Entries] \cup [pc : {"offer"}, left : SUBSET Entries]
    \cup [pc : {"send"}, entry : Entries, left : SUBSET Entries]

WalkTypes ==
  /\ seeding \in SUBSET Entries /\ queue \in Seq(Entries)
  /\ pending \in Int /\ closed \in BOOLEAN /\ deadline \in BOOLEAN
  /\ worker \in [PollWorkers -> WorkerStates]

Busy == At({"poll", "offer", "send"})
Sending == At({"send"})

\* The seeds come first.
SeedsFirst == seeding # {} => ~closed /\ \A w \in PollWorkers : worker[w] = Ready

\* The counter covers what is queued, in work, and about to be queued; it is
\* exact until the deadline lets workers leave and sends be given up.
Load == Len(queue) + Cardinality(Busy) + Cardinality(Sending)
Counted == pending >= Load /\ (~deadline => pending = Load)

\* Who closes the queue leaves nothing behind.
ClosedEmpty == closed => queue = <<>> /\ Busy = {}

CountInv == WalkTypes /\ SeedsFirst /\ Counted /\ ClosedEmpty

-----------------------------------------------------------------------------
(* Facts about entries, workers and the queue.                              *)

LEMMA EntryAddr == \A e \in Entries : e.addr \in Addrs /\ e = [id |-> e.id, addr |-> e.addr]
  BY WalkAssumption DEF Entries

LEMMA WorkerSetsFinite == \A S : IsFiniteSet(At(S)) /\ Cardinality(At(S)) \in Nat
  <1> TAKE S
  <1>1. At(S) \in SUBSET PollWorkers
    BY DEF At
  <1> QED BY <1>1, WalkAssumption, FS_Subset, FS_CardinalityType

\* One worker moves: each set of workers changes by at most that one.
LEMMA OneMoves ==
  ASSUME worker \in [PollWorkers -> WorkerStates], NEW w \in PollWorkers, NEW v,
         worker' = [worker EXCEPT ![w] = v], NEW CONSTANT S
  PROVE  /\ worker[w].pc \in S /\ v.pc \in S => At(S)' = At(S)
         /\ worker[w].pc \notin S /\ v.pc \notin S => At(S)' = At(S)
         /\ worker[w].pc \in S /\ v.pc \notin S =>
              At(S)' = At(S) \ {w} /\ Cardinality(At(S)') = Cardinality(At(S)) - 1
         /\ worker[w].pc \notin S /\ v.pc \in S =>
              At(S)' = At(S) \cup {w} /\ Cardinality(At(S)') = Cardinality(At(S)) + 1
  <1>1. worker'[w] = v /\ \A u \in PollWorkers \ {w} : worker'[u] = worker[u]
    OBVIOUS
  <1>2. IsFiniteSet(At(S))
    BY WorkerSetsFinite
  <1>3. ASSUME worker[w].pc \in S, v.pc \notin S
        PROVE  At(S)' = At(S) \ {w} /\ Cardinality(At(S)') = Cardinality(At(S)) - 1
    <2>1. At(S)' = At(S) \ {w} /\ w \in At(S)
      BY <1>1, <1>3 DEF At
    <2> QED BY <1>2, <2>1, FS_RemoveElement
  <1>4. ASSUME worker[w].pc \notin S, v.pc \in S
        PROVE  At(S)' = At(S) \cup {w} /\ Cardinality(At(S)') = Cardinality(At(S)) + 1
    <2>1. At(S)' = At(S) \cup {w} /\ w \notin At(S)
      BY <1>1, <1>4 DEF At
    <2> QED BY <1>2, <2>1, FS_AddElement
  <1>5. ASSUME worker[w].pc \in S <=> v.pc \in S PROVE At(S)' = At(S)
    BY <1>1, <1>5 DEF At
  <1> QED BY <1>3, <1>4, <1>5

LEMMA BusyMoves ==
  ASSUME CountInv, NEW w \in PollWorkers, NEW v, worker' = [worker EXCEPT ![w] = v]
  PROVE  /\ worker[w].pc \in {"poll", "offer", "send"} /\ v.pc \in {"poll", "offer", "send"} => Busy' = Busy
         /\ worker[w].pc \notin {"poll", "offer", "send"} /\ v.pc \notin {"poll", "offer", "send"} => Busy' = Busy
         /\ worker[w].pc \in {"poll", "offer", "send"} /\ v.pc \notin {"poll", "offer", "send"} =>
              Busy' = Busy \ {w} /\ Cardinality(Busy') = Cardinality(Busy) - 1
         /\ worker[w].pc \notin {"poll", "offer", "send"} /\ v.pc \in {"poll", "offer", "send"} =>
              Busy' = Busy \cup {w} /\ Cardinality(Busy') = Cardinality(Busy) + 1
  <1> DEFINE S == {"poll", "offer", "send"}
  <1>1. worker \in [PollWorkers -> WorkerStates]
    BY DEF CountInv, WalkTypes
  <1>2. Busy = At(S)
    BY DEF Busy
  <1>3. Busy' = At(S)'
    BY DEF Busy
  <1> HIDE DEF S
  <1>4. /\ worker[w].pc \in S /\ v.pc \in S => At(S)' = At(S)
        /\ worker[w].pc \notin S /\ v.pc \notin S => At(S)' = At(S)
        /\ worker[w].pc \in S /\ v.pc \notin S =>
             At(S)' = At(S) \ {w} /\ Cardinality(At(S)') = Cardinality(At(S)) - 1
        /\ worker[w].pc \notin S /\ v.pc \in S =>
             At(S)' = At(S) \cup {w} /\ Cardinality(At(S)') = Cardinality(At(S)) + 1
    BY <1>1, OneMoves
  <1> QED BY <1>2, <1>3, <1>4 DEF S

LEMMA SendingMoves ==
  ASSUME CountInv, NEW w \in PollWorkers, NEW v, worker' = [worker EXCEPT ![w] = v]
  PROVE  /\ worker[w].pc # "send" /\ v.pc # "send" => Sending' = Sending
         /\ worker[w].pc = "send" /\ v.pc # "send" => Cardinality(Sending') = Cardinality(Sending) - 1
         /\ worker[w].pc # "send" /\ v.pc = "send" => Cardinality(Sending') = Cardinality(Sending) + 1
  <1> DEFINE S == {"send"}
  <1>1. worker \in [PollWorkers -> WorkerStates]
    BY DEF CountInv, WalkTypes
  <1>2. Sending = At(S)
    BY DEF Sending
  <1>3. Sending' = At(S)'
    BY DEF Sending
  <1> HIDE DEF S
  <1>4. /\ worker[w].pc \notin S /\ v.pc \notin S => At(S)' = At(S)
        /\ worker[w].pc \in S /\ v.pc \notin S => Cardinality(At(S)') = Cardinality(At(S)) - 1
        /\ worker[w].pc \notin S /\ v.pc \in S => Cardinality(At(S)') = Cardinality(At(S)) + 1
    BY <1>1, OneMoves
  <1> QED BY <1>2, <1>3, <1>4 DEF S

LEMMA LoadParts ==
  ASSUME CountInv
  PROVE  /\ Cardinality(Busy) \in Nat /\ Cardinality(Sending) \in Nat /\ Len(queue) \in Nat
         /\ Load \in Int /\ pending \in Int /\ Counted
  <1>1. Cardinality(Busy) \in Nat /\ Cardinality(Sending) \in Nat
    BY WorkerSetsFinite DEF Busy, Sending
  <1>2. Len(queue) \in Nat /\ pending \in Int /\ Counted
    BY DEF CountInv, WalkTypes
  <1> QED BY <1>1, <1>2 DEF Load

\* The counter follows the load, or stays ahead of it once the deadline has
\* passed.
LEMMA Balance ==
  ASSUME CountInv, NEW d \in Int, pending' = pending + d, Load' = Load + d, deadline' = deadline
  PROVE  Counted'
  <1>1. Load \in Int /\ pending \in Int /\ pending >= Load
    BY LoadParts DEF Counted
  <1>2. pending' >= Load'
    BY <1>1
  <1>3. ASSUME ~deadline PROVE pending' = Load'
    BY <1>3, LoadParts DEF Counted
  <1> QED BY <1>2, <1>3 DEF Counted

LEMMA Slack ==
  ASSUME CountInv, NEW d \in Int, NEW e \in Int, pending' = pending + d, Load' = Load + e, e <= d,
         deadline, deadline' = deadline
  PROVE  Counted'
  <1>1. Load \in Int /\ pending \in Int /\ pending >= Load
    BY LoadParts DEF Counted
  <1>2. pending' >= Load'
    BY <1>1
  <1> QED BY <1>2 DEF Counted

\* What a send does to the queue.
LEMMA SendsOne ==
  ASSUME queue \in Seq(Entries), NEW p \in Entries, queue' \in Sent(p)
  PROVE  /\ queue' \in Seq(Entries)
         /\ \/ queue' = Append(queue, p) /\ Len(queue') = Len(queue) + 1
            \/ queue' = queue /\ deadline
  BY DEF Sent, GivesUp

LEMMA SeedingPcs == Ready.pc = "ready" /\ Gone.pc = "gone"
  BY DEF Ready, Gone

-----------------------------------------------------------------------------
(* The counter and the end of the queue.                                    *)

LEMMA CountInit == Init => CountInv
  <1> SUFFICES ASSUME Init PROVE CountInv
    OBVIOUS
  <1>1. \A w \in PollWorkers : worker[w] = Ready
    BY DEF Init
  <1>2. Busy = {} /\ Sending = {}
    BY <1>1, SeedingPcs DEF Busy, Sending, At
  <1>3. Cardinality(Busy) = 0 /\ Cardinality(Sending) = 0
    BY <1>2, FS_EmptySet
  <1>4. WalkTypes
    <2>1. seeding \in SUBSET Entries
      BY DEF Init, Entries
    <2>2. worker \in [PollWorkers -> WorkerStates]
      BY DEF Init, WorkerStates
    <2>3. queue = <<>> /\ pending = 0 /\ closed = FALSE /\ deadline = FALSE
      BY DEF Init
    <2>4. queue \in Seq(Entries) /\ pending \in Int
      BY <2>3
    <2>5. closed \in BOOLEAN /\ deadline \in BOOLEAN
      BY <2>3
    <2> QED BY <2>1, <2>2, <2>4, <2>5 DEF WalkTypes
  <1>5. Len(queue) = 0 /\ pending = 0 /\ queue = <<>> /\ closed = FALSE
    BY DEF Init
  <1> QED BY <1>1, <1>2, <1>3, <1>4, <1>5 DEF CountInv, SeedsFirst, Counted, Load, ClosedEmpty

LEMMA SeedCounts ==
  ASSUME CountInv, Seed
  PROVE  CountInv'
  <1>1. PICK p \in seeding :
          /\ seeding' = seeding \ {p}
          /\ IF ~Pursued(p) THEN UNCHANGED <<queue, visited, pending>>
             ELSE visited' = visited \cup {p.addr} /\ pending' = pending + 1 /\ queue' \in Sent(p)
    BY DEF Seed
  <1>2. UNCHANGED <<closed, worker, deadline>> /\ p \in Entries /\ ~closed
    BY <1>1 DEF Seed, CountInv, WalkTypes, SeedsFirst
  <1>3. Busy' = Busy /\ Sending' = Sending
    BY <1>2 DEF Busy, Sending, At
  <1>4. Cardinality(Busy) \in Nat /\ Cardinality(Sending) \in Nat
    BY WorkerSetsFinite DEF Busy, Sending
  <1>5. CASE ~Pursued(p)
    BY <1>1, <1>2, <1>3, <1>5 DEF CountInv, WalkTypes, SeedsFirst, Counted, Load, ClosedEmpty
  <1>6. CASE Pursued(p)
    <2>1. pending' = pending + 1 /\ queue' \in Sent(p)
      BY <1>1, <1>6
    <2>2. /\ queue' \in Seq(Entries)
          /\ \/ Len(queue') = Len(queue) + 1
             \/ queue' = queue /\ deadline
      BY <1>2, <2>1, SendsOne DEF CountInv, WalkTypes
    <2>3. WalkTypes' /\ SeedsFirst' /\ ClosedEmpty'
      BY <1>1, <1>2, <2>1, <2>2 DEF CountInv, WalkTypes, SeedsFirst, ClosedEmpty
    <2>4. Len(queue) \in Nat /\ Len(queue') \in Nat
      BY <2>2 DEF CountInv, WalkTypes
    <2>5. CASE Len(queue') = Len(queue) + 1
      <3>1. Load' = Load + 1
        BY <1>3, <1>4, <2>4, <2>5 DEF Load
      <3> QED BY <1>2, <2>1, <2>3, <3>1, Balance DEF CountInv
    <2>6. CASE queue' = queue /\ deadline
      <3>1. Load' = Load + 0
        BY <1>3, <1>4, <2>4, <2>6 DEF Load
      <3> QED BY <1>2, <2>1, <2>3, <2>6, <3>1, Slack DEF CountInv
    <2> QED BY <2>2, <2>5, <2>6
  <1> QED BY <1>5, <1>6

LEMMA TakeCounts ==
  ASSUME CountInv, NEW w \in PollWorkers, Take(w)
  PROVE  CountInv'
  <1> DEFINE v == [pc |-> "poll", entry |-> Head(queue)]
  <1>1. /\ seeding = {} /\ worker[w] = Ready /\ queue # <<>> /\ worker' = [worker EXCEPT ![w] = v]
        /\ queue' = Tail(queue) /\ UNCHANGED <<seeding, pending, closed, deadline>>
    BY DEF Take
  <1>2. Head(queue) \in Entries /\ queue' \in Seq(Entries) /\ Len(queue') = Len(queue) - 1
    BY <1>1 DEF CountInv, WalkTypes
  <1>3. v \in WorkerStates /\ v.pc = "poll" /\ worker[w].pc = "ready"
    BY <1>1, <1>2, SeedingPcs DEF WorkerStates
  <1> HIDE DEF v
  <1>4. WalkTypes'
    BY <1>1, <1>2, <1>3 DEF CountInv, WalkTypes
  <1>5. ~closed
    BY <1>1 DEF CountInv, ClosedEmpty
  <1>6. Cardinality(Busy') = Cardinality(Busy) + 1
    BY <1>1, <1>3, BusyMoves
  <1>7. Sending' = Sending
    BY <1>1, <1>3, SendingMoves
  <1>8. Load' = Load + 0
    BY <1>2, <1>6, <1>7, LoadParts DEF Load
  <1>9. Counted'
    BY <1>1, <1>8, LoadParts, Balance
  <1> QED BY <1>1, <1>4, <1>5, <1>9 DEF CountInv, SeedsFirst, ClosedEmpty

LEMMA LeaveCounts ==
  ASSUME CountInv, NEW w \in PollWorkers, Leave(w)
  PROVE  CountInv'
  <1>1. /\ seeding = {} /\ worker' = [worker EXCEPT ![w] = Gone]
        /\ worker[w].pc = "ready" \/ (worker[w].pc = "poll" /\ deadline)
        /\ UNCHANGED <<seeding, queue, pending, closed, deadline>>
    BY SeedingPcs DEF Leave
  <1>2. WalkTypes'
    BY <1>1 DEF CountInv, WalkTypes, WorkerStates
  <1>3. Sending' = Sending
    BY <1>1, SendingMoves, SeedingPcs
  <1>5. CASE worker[w].pc = "ready"
    <2>1. Busy' = Busy
      BY <1>1, <1>5, BusyMoves, SeedingPcs
    <2> QED BY <1>1, <1>2, <1>3, <2>1 DEF CountInv, SeedsFirst, Counted, Load, ClosedEmpty
  <1>6. CASE worker[w].pc = "poll" /\ deadline
    <2>1. Busy' = Busy \ {w} /\ Cardinality(Busy') = Cardinality(Busy) - 1
      BY <1>1, <1>6, BusyMoves, SeedingPcs
    <2>2. Load' = Load + (-1) /\ pending' = pending + 0
      BY <1>1, <1>3, <2>1, LoadParts DEF Load
    <2>3. Counted'
      BY <1>1, <1>6, <2>2, Slack
    <2> QED BY <1>1, <1>2, <2>1, <2>3 DEF CountInv, SeedsFirst, ClosedEmpty
  <1> QED BY <1>1, <1>5, <1>6

\* A step of a busy worker that stays busy and queues nothing.
LEMMA PolledCounts ==
  ASSUME CountInv, NEW w \in PollWorkers, NEW r, NEW peers \in SUBSET Entries, Polled(w, r, peers)
  PROVE  CountInv'
  <1> DEFINE v == [pc |-> "offer", left |-> peers]
  <1>1. /\ worker[w].pc = "poll" /\ worker' = [worker EXCEPT ![w] = v]
        /\ UNCHANGED <<seeding, queue, pending, closed, deadline>>
    BY DEF Polled
  <1>2. v \in WorkerStates /\ v.pc = "offer"
    BY DEF WorkerStates
  <1> HIDE DEF v
  <1>3. WalkTypes'
    BY <1>1, <1>2 DEF CountInv, WalkTypes
  <1>4. Busy' = Busy /\ Sending' = Sending
    BY <1>1, <1>2, BusyMoves, SendingMoves
  <1>5. seeding = {}
    BY <1>1, SeedingPcs DEF CountInv, SeedsFirst
  <1> QED BY <1>1, <1>3, <1>4, <1>5 DEF CountInv, SeedsFirst, Counted, Load, ClosedEmpty

LEMMA MarkCounts ==
  ASSUME CountInv, NEW w \in PollWorkers, Mark(w)
  PROVE  CountInv'
  <1>1. PICK p \in worker[w].left :
          IF Pursued(p)
          THEN /\ visited' = visited \cup {p.addr} /\ pending' = pending + 1
               /\ worker' = [worker EXCEPT ![w] = [pc |-> "send", entry |-> p, left |-> @.left \ {p}]]
          ELSE /\ worker' = [worker EXCEPT ![w].left = @ \ {p}]
               /\ UNCHANGED <<visited, pending>>
    BY DEF Mark
  <1>2. worker[w].pc = "offer" /\ UNCHANGED <<seeding, queue, closed, deadline>>
    BY DEF Mark
  <1>3. worker[w] \in [pc : {"offer"}, left : SUBSET Entries]
    BY <1>2, SeedingPcs DEF CountInv, WalkTypes, WorkerStates
  <1>4. seeding = {} /\ w \in Busy
    BY <1>2, SeedingPcs DEF CountInv, SeedsFirst, Busy, At
  <1>6. CASE Pursued(p)
    <2> DEFINE v == [pc |-> "send", entry |-> p, left |-> worker[w].left \ {p}]
    <2>1. worker' = [worker EXCEPT ![w] = v] /\ pending' = pending + 1
      BY <1>1, <1>6
    <2>2. v \in WorkerStates /\ v.pc = "send"
      BY <1>1, <1>3 DEF WorkerStates
    <2> HIDE DEF v
    <2>3. WalkTypes'
      BY <1>2, <2>1, <2>2 DEF CountInv, WalkTypes
    <2>4. Busy' = Busy /\ Cardinality(Sending') = Cardinality(Sending) + 1
      BY <1>2, <2>1, <2>2, BusyMoves, SendingMoves
    <2>5. Counted'
      <3>1. Load' = Load + 1
        BY <1>2, <2>4, LoadParts DEF Load
      <3> QED BY <1>2, <2>1, <3>1, Balance
    <2> QED BY <1>2, <1>4, <2>3, <2>4, <2>5 DEF CountInv, SeedsFirst, ClosedEmpty
  <1>7. CASE ~Pursued(p)
    <2> DEFINE v == [worker[w] EXCEPT !.left = @ \ {p}]
    <2>1. worker' = [worker EXCEPT ![w] = v] /\ pending' = pending
      BY <1>1, <1>7
    <2>2. v \in WorkerStates /\ v.pc = "offer"
      BY <1>3 DEF WorkerStates
    <2> HIDE DEF v
    <2>3. WalkTypes'
      BY <1>2, <2>1, <2>2 DEF CountInv, WalkTypes
    <2>4. Busy' = Busy /\ Sending' = Sending
      BY <1>2, <2>1, <2>2, BusyMoves, SendingMoves
    <2> QED BY <1>2, <1>4, <2>1, <2>3, <2>4 DEF CountInv, SeedsFirst, Counted, Load, ClosedEmpty
  <1> QED BY <1>6, <1>7

LEMMA SendCounts ==
  ASSUME CountInv, NEW w \in PollWorkers, Send(w)
  PROVE  CountInv'
  <1> DEFINE v == [pc |-> "offer", left |-> worker[w].left]
  <1>1. /\ worker[w].pc = "send" /\ queue' \in Sent(worker[w].entry)
        /\ worker' = [worker EXCEPT ![w] = v]
        /\ UNCHANGED <<seeding, pending, closed, deadline>>
    BY DEF Send
  <1>2. worker[w] \in [pc : {"send"}, entry : Entries, left : SUBSET Entries]
    BY <1>1, SeedingPcs DEF CountInv, WalkTypes, WorkerStates
  <1>3. v \in WorkerStates /\ v.pc = "offer"
    BY <1>2 DEF WorkerStates
  <1> HIDE DEF v
  <1>4. /\ queue' \in Seq(Entries)
        /\ \/ Len(queue') = Len(queue) + 1
           \/ queue' = queue /\ deadline
    BY <1>1, <1>2, SendsOne DEF CountInv, WalkTypes
  <1>5. WalkTypes'
    BY <1>1, <1>3, <1>4 DEF CountInv, WalkTypes
  <1>6. Busy' = Busy /\ Cardinality(Sending') = Cardinality(Sending) - 1
    BY <1>1, <1>3, BusyMoves, SendingMoves
  <1>7. Len(queue') \in Nat /\ pending' = pending + 0
    BY <1>1, <1>4, LoadParts
  <1>8. Counted'
    <2>1. CASE Len(queue') = Len(queue) + 1
      <3>1. Load' = Load + 0
        BY <1>6, <1>7, <2>1, LoadParts DEF Load
      <3> QED BY <1>1, <1>7, <3>1, Balance
    <2>2. CASE queue' = queue /\ deadline
      <3>1. Load' = Load + (-1)
        BY <1>6, <1>7, <2>2, LoadParts DEF Load
      <3> QED BY <1>1, <1>7, <2>2, <3>1, Slack
    <2> QED BY <1>4, <2>1, <2>2
  <1>9. seeding = {} /\ ~closed
    <2>1. w \in Busy /\ seeding = {}
      BY <1>1, SeedingPcs DEF Busy, At, CountInv, SeedsFirst
    <2> QED BY <2>1 DEF CountInv, ClosedEmpty
  <1> QED BY <1>1, <1>5, <1>8, <1>9 DEF CountInv, SeedsFirst, ClosedEmpty

\* The worker that brings the counter to zero is the only one at work, and
\* nothing is queued.
LEMMA LastIsAlone ==
  ASSUME CountInv, NEW w \in Busy, pending = 1
  PROVE  queue = <<>> /\ Busy = {w}
  <1>1. IsFiniteSet(Busy) /\ Cardinality(Busy) \in Nat /\ Cardinality(Sending) \in Nat /\ Len(queue) \in Nat
    BY WorkerSetsFinite DEF Busy, Sending, CountInv, WalkTypes
  <1>2. IsFiniteSet(Busy \ {w}) /\ Cardinality(Busy \ {w}) = Cardinality(Busy) - 1
    BY <1>1, FS_RemoveElement
  <1>3. Cardinality(Busy \ {w}) \in Nat
    BY <1>2, FS_CardinalityType
  <1>4. Cardinality(Busy \ {w}) = 0 /\ Len(queue) = 0
    BY <1>1, <1>2, <1>3 DEF CountInv, WalkTypes, Counted, Load
  <1>5. Busy \ {w} = {}
    BY <1>2, <1>4, FS_EmptySet
  <1> QED BY <1>4, <1>5 DEF CountInv, WalkTypes

LEMMA FinishCounts ==
  ASSUME CountInv, NEW w \in PollWorkers, Finish(w)
  PROVE  CountInv'
  <1> DEFINE v == IF pending = 1 THEN Gone ELSE Ready
  <1>1. /\ worker[w].pc = "offer" /\ pending' = pending - 1 /\ closed' = (closed \/ pending = 1)
        /\ worker' = [worker EXCEPT ![w] = v] /\ UNCHANGED <<seeding, queue, deadline>>
    BY DEF Finish, LastPending
  <1>2. v \in WorkerStates /\ v.pc \in {"gone", "ready"}
    BY SeedingPcs DEF WorkerStates
  <1> HIDE DEF v
  <1>3. WalkTypes'
    BY <1>1, <1>2 DEF CountInv, WalkTypes
  <1>4. /\ Busy' = Busy \ {w} /\ Cardinality(Busy') = Cardinality(Busy) - 1
        /\ Sending' = Sending
    BY <1>1, <1>2, BusyMoves, SendingMoves
  <1>5. Load' = Load + (-1) /\ pending' = pending + (-1)
    BY <1>1, <1>4, LoadParts DEF Load
  <1>6. Counted'
    BY <1>1, <1>5, Balance
  <1>7. w \in Busy /\ seeding = {}
    BY <1>1, SeedingPcs DEF Busy, At, CountInv, SeedsFirst
  <1>8. ClosedEmpty'
    <2>1. ~closed
      BY <1>7 DEF CountInv, ClosedEmpty
    <2>2. CASE pending = 1
      BY <1>1, <1>4, <1>7, <2>2, LastIsAlone DEF ClosedEmpty
    <2>3. CASE pending # 1
      BY <1>1, <2>1, <2>3 DEF ClosedEmpty
    <2> QED BY <2>2, <2>3
  <1> QED BY <1>1, <1>3, <1>6, <1>7, <1>8 DEF CountInv, SeedsFirst

LEMMA PeersAreEntries == \A a \in Addrs : Peers[a] \in SUBSET Entries
  BY DEF Entries

\* Of a worker that polls, the entry has an address.
LEMMA PollsEntry ==
  ASSUME CountInv, NEW w \in PollWorkers, worker[w].pc = "poll"
  PROVE  worker[w].entry \in Entries /\ worker[w].entry.addr \in Addrs
  <1>1. worker[w] \in [pc : {"poll"}, entry : Entries]
    BY SeedingPcs DEF CountInv, WalkTypes, WorkerStates
  <1> QED BY <1>1, EntryAddr

LEMMA CountStep ==
  ASSUME CountInv, [Next]_vars
  PROVE  CountInv'
  <1>1. CASE Seed
    BY <1>1, SeedCounts
  <1>2. CASE Deadline
    <2>1. UNCHANGED <<seeding, queue, pending, closed, worker>> /\ deadline' = TRUE
      BY <1>2 DEF Deadline
    <2>2. Busy' = Busy /\ Sending' = Sending
      BY <2>1 DEF Busy, Sending, At
    <2> QED BY <2>1, <2>2 DEF CountInv, WalkTypes, SeedsFirst, Counted, Load, ClosedEmpty
  <1>3. ASSUME NEW w \in PollWorkers, Answered(w) PROVE CountInv'
    <2>1. worker[w].pc = "poll"
      BY <1>3 DEF Answered
    <2>2. Peers[worker[w].entry.addr] \in SUBSET Entries
      BY <2>1, PollsEntry, PeersAreEntries
    <2> QED BY <1>3, <2>2, PolledCounts DEF Answered
  <1>4. ASSUME NEW w \in PollWorkers, Unanswered(w) PROVE CountInv'
    BY <1>4, PolledCounts DEF Unanswered
  <1>5. CASE UNCHANGED vars
    <2>1. Busy' = Busy /\ Sending' = Sending
      BY <1>5 DEF vars, Busy, Sending, At
    <2> QED BY <1>5, <2>1 DEF vars, CountInv, WalkTypes, SeedsFirst, Counted, Load, ClosedEmpty
  <1> QED BY <1>1, <1>2, <1>3, <1>4, <1>5, TakeCounts, LeaveCounts, MarkCounts, SendCounts, FinishCounts
          DEF Next, Work

LEMMA CountAlways == Spec => []CountInv
  <1>1. CountInv /\ [Next]_vars => CountInv'
    BY CountStep
  <1> QED BY <1>1, CountInit, PTL DEF Spec

\* The counter of unfinished addresses is exact while no send was given up, and
\* the queue is closed only when it is empty and no worker can send: nobody
\* sends on a closed channel or closes it twice (Poller.Walk).
THEOREM QueueAlwaysSafe == Spec => []QueueSafe
  <1>1. CountInv => QueueSafe
    BY DEF CountInv, Counted, Load, ClosedEmpty, QueueSafe, Busy, Sending
  <1> QED BY <1>1, CountAlways, PTL

-----------------------------------------------------------------------------
(* What the walk has pursued and found.                                     *)

Queued == {queue[i] : i \in 1 .. Len(queue)}

Polling(w) == worker[w].pc = "poll"
Posting(w) == worker[w].pc = "send"
Offering(w) == worker[w].pc \in {"offer", "send"}

\* An entry somebody works on or waits to: its address is being pursued.
Underway(e) == e \in Queued \/ \E w \in PollWorkers : (Polling(w) \/ Posting(w)) /\ worker[w].entry = e

VisitedBounded ==
  visited \in SUBSET Addrs /\ IsFiniteSet(visited) /\ Cardinality(visited) <= MaxVisitedNodes

SeedsNamed == \A p \in seeding : p.id = p.addr

\* What is under way was pursued under an identity it goes by.
UnderwayKnown == \A e \in Entries : Underway(e) => e.addr \in visited /\ GoesBy(e.addr, e.id)

LeftListed == \A w \in PollWorkers : Offering(w) => \A p \in worker[w].left : \E b \in visited : p \in Peers[b]

FoundKnown == \A r \in found : r.addr \in visited /\ GoesBy(r.addr, r.id)

\* A peer of an answering node was pursued, or is left to be offered.
PeersOffered ==
  \A r \in found : r.up => \A p \in Peers[r.addr] :
    \/ p.addr \in visited \/ Cardinality(visited) = MaxVisitedNodes
    \/ \E w \in PollWorkers : Offering(w) /\ p \in worker[w].left

\* An address that was pursued is under way or has its result.
PursuedToEnd ==
  ~deadline => \A a \in visited :
    (\E r \in found : GoesBy(a, r.id)) \/ \E e \in Entries : Underway(e) /\ e.addr = a

\* Before the deadline a worker leaves only a closed queue.
GoneMeansClosed == ~deadline => \A w \in PollWorkers : worker[w] = Gone => closed

CompleteInv ==
  /\ VisitedBounded /\ SeedsNamed /\ UnderwayKnown /\ LeftListed /\ FoundKnown
  /\ PeersOffered /\ PursuedToEnd /\ GoneMeansClosed

\* Identities are not forgotten.
LEMMA GoesByGrows ==
  ASSUME visited \subseteq visited', NEW a, NEW id, GoesBy(a, id)
  PROVE  GoesBy(a, id)'
  BY DEF GoesBy

\* Pursuing one more address.
LEMMA PursuesOne ==
  ASSUME VisitedBounded, NEW p, p.addr \in Addrs, Pursued(p), visited' = visited \cup {p.addr}
  PROVE  VisitedBounded' /\ Cardinality(visited) # MaxVisitedNodes
  <1>1. Cardinality(visited) \in Nat /\ Cardinality(visited) < MaxVisitedNodes
    BY FS_CardinalityType DEF VisitedBounded, Pursued
  <1>2. IsFiniteSet(visited') /\ Cardinality(visited') = Cardinality(visited) + 1
    BY FS_AddElement DEF VisitedBounded, Pursued
  <1> QED BY <1>1, <1>2, WalkAssumption DEF VisitedBounded

LEMMA NotPursued ==
  ASSUME VisitedBounded, NEW p, ~Pursued(p)
  PROVE  p.addr \in visited \/ Cardinality(visited) = MaxVisitedNodes
  <1>1. Cardinality(visited) \in Nat /\ Cardinality(visited) <= MaxVisitedNodes
    BY FS_CardinalityType DEF VisitedBounded
  <1> QED BY <1>1, WalkAssumption DEF Pursued

\* The queue as a set.
LEMMA QueuedAppend ==
  ASSUME queue \in Seq(Entries), NEW p, queue' = Append(queue, p)
  PROVE  Queued' = Queued \cup {p}
  <1>1. Len(queue') = Len(queue) + 1 /\ Len(queue) \in Nat
    OBVIOUS
  <1>2. \A i \in 1 .. Len(queue) : queue'[i] = queue[i]
    OBVIOUS
  <1>3. queue'[Len(queue) + 1] = p
    OBVIOUS
  <1>4. Queued' = {queue'[i] : i \in 1 .. Len(queue) + 1}
    BY <1>1 DEF Queued
  <1> QED BY <1>1, <1>2, <1>3, <1>4 DEF Queued

LEMMA QueuedTail ==
  ASSUME queue \in Seq(Entries), queue # <<>>, queue' = Tail(queue)
  PROVE  Queued = Queued' \cup {Head(queue)}
  <1>1. Len(queue') = Len(queue) - 1 /\ Len(queue) \in Nat \ {0}
    OBVIOUS
  <1>2. \A i \in 1 .. Len(queue) - 1 : queue'[i] = queue[i + 1]
    OBVIOUS
  <1>3. Head(queue) = queue[1]
    OBVIOUS
  <1>4. Queued' = {queue'[i] : i \in 1 .. Len(queue) - 1}
    BY <1>1 DEF Queued
  <1>5. ASSUME NEW i \in 1 .. Len(queue) PROVE queue[i] \in Queued' \cup {Head(queue)}
    <2>1. CASE i = 1
      BY <1>3, <2>1
    <2>2. CASE i # 1
      <3>1. i - 1 \in 1 .. Len(queue) - 1 /\ queue'[i - 1] = queue[i]
        BY <1>1, <1>2, <2>2
      <3> QED BY <1>4, <3>1
    <2> QED BY <2>1, <2>2
  <1>6. ASSUME NEW i \in 1 .. Len(queue) - 1 PROVE queue'[i] \in Queued
    <2>1. i + 1 \in 1 .. Len(queue) /\ queue'[i] = queue[i + 1]
      BY <1>1, <1>2
    <2> QED BY <2>1 DEF Queued
  <1>7. Head(queue) \in Queued
    BY <1>1, <1>3 DEF Queued
  <1> QED BY <1>4, <1>5, <1>6, <1>7 DEF Queued

LEMMA SendsQueued ==
  ASSUME queue \in Seq(Entries), NEW p \in Entries, queue' \in Sent(p)
  PROVE  Queued' = Queued \cup {p} \/ (Queued' = Queued /\ deadline)
  <1>1. CASE queue' = Append(queue, p)
    BY <1>1, QueuedAppend
  <1>2. CASE queue' = queue /\ deadline
    BY <1>2 DEF Queued
  <1> QED BY <1>1, <1>2, SendsOne

\* What a step that pursues one more address leaves of the rest.
LEMMA KeptWhileGrowing ==
  ASSUME CompleteInv, visited \subseteq visited', found' = found
  PROVE  FoundKnown' /\ \A a \in visited : (\E r \in found : GoesBy(a, r.id)) => \E r \in found' : GoesBy(a, r.id)'
  BY GoesByGrows DEF CompleteInv, FoundKnown

LEMMA CompleteInit == Init => CompleteInv
  <1> SUFFICES ASSUME Init PROVE CompleteInv
    OBVIOUS
  <1>1. visited = {} /\ found = {} /\ queue = <<>> /\ \A w \in PollWorkers : worker[w] = Ready
    BY DEF Init
  <1>2. Queued = {}
    BY <1>1 DEF Queued
  <1>3. \A w \in PollWorkers : ~Polling(w) /\ ~Posting(w) /\ ~Offering(w) /\ worker[w] # Gone
    BY <1>1 DEF Polling, Posting, Offering, Ready, Gone
  <1>4. VisitedBounded
    BY <1>1, FS_EmptySet, WalkAssumption DEF VisitedBounded
  <1>5. SeedsNamed
    BY DEF Init, SeedsNamed
  <1> QED BY <1>1, <1>2, <1>3, <1>4, <1>5
          DEF CompleteInv, UnderwayKnown, Underway, LeftListed, FoundKnown, PeersOffered, PursuedToEnd, GoneMeansClosed

LEMMA SeedCompletes ==
  ASSUME CountInv, CompleteInv, Seed
  PROVE  CompleteInv'
  <1>1. PICK p \in seeding :
          /\ seeding' = seeding \ {p}
          /\ IF ~Pursued(p) THEN UNCHANGED <<queue, visited, pending>>
             ELSE visited' = visited \cup {p.addr} /\ pending' = pending + 1 /\ queue' \in Sent(p)
    BY DEF Seed
  <1>2. UNCHANGED <<closed, worker, deadline, found>> /\ p \in Entries /\ p.addr \in Addrs /\ p.id = p.addr
    BY <1>1, EntryAddr DEF Seed, CountInv, WalkTypes, CompleteInv, SeedsNamed
  <1>3. \A w \in PollWorkers : /\ Polling(w)' = Polling(w) /\ Posting(w)' = Posting(w)
                               /\ Offering(w)' = Offering(w) /\ worker'[w] = worker[w]
    BY <1>2 DEF Polling, Posting, Offering
  <1>4. SeedsNamed' /\ GoneMeansClosed'
    BY <1>1, <1>2 DEF CompleteInv, SeedsNamed, GoneMeansClosed
  <1>5. CASE ~Pursued(p)
    <2>1. UNCHANGED <<queue, visited>>
      BY <1>1, <1>5
    <2> QED BY <1>2, <1>3, <1>4, <2>1
            DEF CompleteInv, VisitedBounded, UnderwayKnown, Underway, Queued, LeftListed, FoundKnown,
                PeersOffered, PursuedToEnd, GoesBy
  <1>6. CASE Pursued(p)
    <2>1. visited' = visited \cup {p.addr} /\ queue' \in Sent(p)
      BY <1>1, <1>6
    <2>2. Queued' = Queued \cup {p} \/ (Queued' = Queued /\ deadline)
      BY <1>2, <2>1, SendsQueued DEF CountInv, WalkTypes
    <2>3. VisitedBounded' /\ Cardinality(visited) # MaxVisitedNodes
      BY <1>2, <1>6, <2>1, PursuesOne DEF CompleteInv
    <2>4. FoundKnown' /\ \A a \in visited : (\E r \in found : GoesBy(a, r.id)) => \E r \in found' : GoesBy(a, r.id)'
      BY <1>2, <2>1, KeptWhileGrowing
    <2>5. \A e : Underway(e)' => Underway(e) \/ e = p
      BY <1>3, <2>2 DEF Underway
    <2>6. UnderwayKnown'
      <3> SUFFICES ASSUME NEW e \in Entries, Underway(e)' PROVE e.addr \in visited' /\ GoesBy(e.addr, e.id)'
        BY DEF UnderwayKnown
      <3>1. CASE e = p
        BY <1>2, <2>1, <3>1 DEF GoesBy
      <3>2. CASE Underway(e)
        BY <2>1, <3>2, GoesByGrows DEF CompleteInv, UnderwayKnown
      <3> QED BY <2>5, <3>1, <3>2
    <2>7. LeftListed'
      BY <1>3, <2>1 DEF CompleteInv, LeftListed
    <2>8. PeersOffered'
      BY <1>2, <1>3, <2>1, <2>3 DEF CompleteInv, PeersOffered
    <2>9. PursuedToEnd'
      <3> SUFFICES ASSUME ~deadline, NEW a \in visited'
                   PROVE  (\E r \in found' : GoesBy(a, r.id)') \/ \E e \in Entries : Underway(e)' /\ e.addr = a
        BY <1>2 DEF PursuedToEnd
      <3>1. Queued' = Queued \cup {p}
        BY <2>2
      <3>2. \A e : Underway(e) \/ e = p => Underway(e)'
        BY <1>3, <3>1 DEF Underway
      <3> QED BY <1>2, <2>1, <2>4, <3>2 DEF CompleteInv, PursuedToEnd
    <2> QED BY <1>4, <2>3, <2>4, <2>6, <2>7, <2>8, <2>9 DEF CompleteInv
  <1> QED BY <1>5, <1>6

\* How one worker's move shows.
LEMMA MovesOnly ==
  ASSUME CountInv, NEW w \in PollWorkers, NEW v, worker' = [worker EXCEPT ![w] = v]
  PROVE  /\ worker'[w] = v
         /\ \A u \in PollWorkers \ {w} :
              /\ worker'[u] = worker[u] /\ Polling(u)' = Polling(u)
              /\ Posting(u)' = Posting(u) /\ Offering(u)' = Offering(u)
  BY DEF CountInv, WalkTypes, Polling, Posting, Offering

LEMMA TakeCompletes ==
  ASSUME CountInv, CompleteInv, NEW w \in PollWorkers, Take(w)
  PROVE  CompleteInv'
  <1> DEFINE v == [pc |-> "poll", entry |-> Head(queue)]
  <1>1. /\ worker[w] = Ready /\ queue # <<>> /\ worker' = [worker EXCEPT ![w] = v]
        /\ queue' = Tail(queue) /\ UNCHANGED <<seeding, visited, closed, found, deadline>>
    BY DEF Take
  <1>2. Queued = Queued' \cup {Head(queue)}
    BY <1>1, QueuedTail DEF CountInv, WalkTypes
  <1>3. v.pc = "poll" /\ v.entry = Head(queue) /\ v # Gone
    BY DEF Gone
  <1> HIDE DEF v
  <1>4. /\ worker'[w] = v
        /\ \A u \in PollWorkers \ {w} :
             /\ worker'[u] = worker[u] /\ Polling(u)' = Polling(u)
             /\ Posting(u)' = Posting(u) /\ Offering(u)' = Offering(u)
    BY <1>1, MovesOnly
  <1>5. ~Polling(w) /\ ~Posting(w) /\ ~Offering(w) /\ Polling(w)' /\ ~Posting(w)' /\ ~Offering(w)'
    BY <1>1, <1>3, <1>4 DEF Polling, Posting, Offering, Ready
  <1>6. \A e : Underway(e)' <=> Underway(e)
    BY <1>2, <1>3, <1>4, <1>5 DEF Underway
  <1>7. VisitedBounded' /\ SeedsNamed' /\ FoundKnown'
    BY <1>1 DEF CompleteInv, VisitedBounded, SeedsNamed, FoundKnown, GoesBy
  <1>8. UnderwayKnown' /\ PursuedToEnd'
    BY <1>1, <1>6 DEF CompleteInv, UnderwayKnown, PursuedToEnd, GoesBy
  <1>9. LeftListed' /\ PeersOffered'
    BY <1>1, <1>4, <1>5 DEF CompleteInv, LeftListed, PeersOffered
  <1>10. GoneMeansClosed'
    BY <1>1, <1>3, <1>4 DEF CompleteInv, GoneMeansClosed
  <1> QED BY <1>7, <1>8, <1>9, <1>10 DEF CompleteInv

LEMMA LeaveCompletes ==
  ASSUME CountInv, CompleteInv, NEW w \in PollWorkers, Leave(w)
  PROVE  CompleteInv'
  <1>1. /\ worker' = [worker EXCEPT ![w] = Gone]
        /\ (worker[w].pc = "ready" /\ closed) \/ (worker[w].pc \in {"ready", "poll"} /\ deadline)
        /\ UNCHANGED <<seeding, queue, visited, closed, found, deadline>>
    BY SeedingPcs DEF Leave
  <1>2. /\ worker'[w] = Gone
        /\ \A u \in PollWorkers \ {w} :
             /\ worker'[u] = worker[u] /\ Polling(u)' = Polling(u)
             /\ Posting(u)' = Posting(u) /\ Offering(u)' = Offering(u)
    BY <1>1, MovesOnly
  <1>3. ~Posting(w) /\ ~Offering(w) /\ ~Polling(w)' /\ ~Posting(w)' /\ ~Offering(w)'
    BY <1>1, <1>2, SeedingPcs DEF Polling, Posting, Offering
  <1>4. \A e : Underway(e)' => Underway(e)
    BY <1>1, <1>2, <1>3 DEF Underway, Queued
  <1>5. ASSUME ~deadline PROVE \A e : Underway(e) => Underway(e)'
    <2>1. ~Polling(w)
      BY <1>1, <1>5 DEF Polling
    <2> QED BY <1>1, <1>2, <1>3, <2>1 DEF Underway, Queued
  <1>6. VisitedBounded' /\ SeedsNamed' /\ FoundKnown'
    BY <1>1 DEF CompleteInv, VisitedBounded, SeedsNamed, FoundKnown, GoesBy
  <1>7. UnderwayKnown' /\ PursuedToEnd'
    BY <1>1, <1>4, <1>5 DEF CompleteInv, UnderwayKnown, PursuedToEnd, GoesBy
  <1>8. LeftListed' /\ PeersOffered'
    BY <1>1, <1>2, <1>3 DEF CompleteInv, LeftListed, PeersOffered
  <1>9. GoneMeansClosed'
    BY <1>1, <1>2 DEF CompleteInv, GoneMeansClosed
  <1> QED BY <1>6, <1>7, <1>8, <1>9 DEF CompleteInv

\* A result takes the place of the entry it was polled for.
LEMMA PolledCompletes ==
  ASSUME CountInv, CompleteInv, NEW w \in PollWorkers, NEW r, NEW peers, Polled(w, r, peers),
         r.addr = worker[w].entry.addr, GoesBy(r.addr, r.id),
         r.up => peers = Peers[r.addr], \A p \in peers : \E b \in visited : p \in Peers[b]
  PROVE  CompleteInv'
  <1> DEFINE v == [pc |-> "offer", left |-> peers]
  <1>1. /\ worker[w].pc = "poll" /\ found' = Collected(r) /\ worker' = [worker EXCEPT ![w] = v]
        /\ UNCHANGED <<seeding, queue, visited, closed, deadline>>
    BY DEF Polled
  <1>2. v.pc = "offer" /\ v.left = peers /\ v # Gone
    BY DEF Gone
  <1> HIDE DEF v
  <1>3. /\ worker'[w] = v
        /\ \A u \in PollWorkers \ {w} :
             /\ worker'[u] = worker[u] /\ Polling(u)' = Polling(u)
             /\ Posting(u)' = Posting(u) /\ Offering(u)' = Offering(u)
    BY <1>1, MovesOnly
  <1>4. Polling(w) /\ ~Posting(w) /\ ~Offering(w) /\ ~Polling(w)' /\ ~Posting(w)' /\ Offering(w)'
    BY <1>1, <1>2, <1>3 DEF Polling, Posting, Offering
  <1>5. Underway(worker[w].entry) /\ worker[w].entry \in Entries
    BY <1>1, <1>4, PollsEntry DEF Underway
  <1>6. r.addr \in visited
    BY <1>5 DEF CompleteInv, UnderwayKnown
  <1>7. /\ r \in found' /\ \A q \in found' : q = r \/ q \in found
        /\ \A q \in found : q \in found' \/ q.id = r.id
    BY <1>1 DEF Collected
  <1>8. \A a, id : GoesBy(a, id)' <=> GoesBy(a, id)
    BY <1>1 DEF GoesBy
  <1>9. /\ \A e : Underway(e)' => Underway(e)
        /\ \A e : Underway(e) => Underway(e)' \/ e = worker[w].entry
    BY <1>1, <1>3, <1>4 DEF Underway, Queued
  <1>10. VisitedBounded' /\ SeedsNamed' /\ FoundKnown'
    BY <1>1, <1>6, <1>7, <1>8 DEF CompleteInv, VisitedBounded, SeedsNamed, FoundKnown
  <1>11. UnderwayKnown'
    BY <1>1, <1>8, <1>9 DEF CompleteInv, UnderwayKnown
  <1>12. LeftListed'
    BY <1>1, <1>2, <1>3, <1>4 DEF CompleteInv, LeftListed
  <1>13. PeersOffered'
    <2> SUFFICES ASSUME NEW q \in found', q.up, NEW p \in Peers[q.addr]
                 PROVE  \/ p.addr \in visited \/ Cardinality(visited) = MaxVisitedNodes
                        \/ \E u \in PollWorkers : Offering(u)' /\ p \in worker'[u].left
      BY <1>1 DEF PeersOffered
    <2>1. CASE q = r
      BY <1>2, <1>3, <1>4, <2>1
    <2>2. CASE q \in found
      BY <1>3, <1>4, <2>2 DEF CompleteInv, PeersOffered
    <2> QED BY <1>7, <2>1, <2>2
  <1>14. PursuedToEnd'
    <2> SUFFICES ASSUME ~deadline, NEW a \in visited
                 PROVE  (\E q \in found' : GoesBy(a, q.id)') \/ \E e \in Entries : Underway(e)' /\ e.addr = a
      BY <1>1 DEF PursuedToEnd
    <2>1. CASE \E q \in found : GoesBy(a, q.id)
      BY <1>7, <1>8, <2>1
    <2>2. CASE \E e \in Entries : Underway(e) /\ e.addr = a
      BY <1>7, <1>8, <1>9, <2>2
    <2> QED BY <2>1, <2>2 DEF CompleteInv, PursuedToEnd
  <1>15. GoneMeansClosed'
    BY <1>1, <1>2, <1>3 DEF CompleteInv, GoneMeansClosed
  <1> QED BY <1>10, <1>11, <1>12, <1>13, <1>14, <1>15 DEF CompleteInv

LEMMA AnsweredCompletes ==
  ASSUME CountInv, CompleteInv, NEW w \in PollWorkers, Answered(w)
  PROVE  CompleteInv'
  <1> DEFINE a == worker[w].entry.addr
             r == [id |-> Id[a], addr |-> a, up |-> TRUE]
  <1>1. worker[w].pc = "poll" /\ Polled(w, r, Peers[a])
    BY DEF Answered
  <1>2. Underway(worker[w].entry) /\ worker[w].entry \in Entries
    BY <1>1, PollsEntry DEF Underway, Polling
  <1>3. a \in visited
    BY <1>2 DEF CompleteInv, UnderwayKnown
  <1>4. r.addr = a /\ GoesBy(r.addr, r.id) /\ (r.up => Peers[a] = Peers[r.addr])
    BY DEF GoesBy
  <1>5. \A p \in Peers[a] : \E b \in visited : p \in Peers[b]
    BY <1>3
  <1> HIDE DEF r
  <1> QED BY <1>1, <1>4, <1>5, PolledCompletes

LEMMA UnansweredCompletes ==
  ASSUME CountInv, CompleteInv, NEW w \in PollWorkers, Unanswered(w)
  PROVE  CompleteInv'
  <1> DEFINE e == worker[w].entry
             r == [id |-> e.id, addr |-> e.addr, up |-> FALSE]
  <1>1. worker[w].pc = "poll" /\ Polled(w, r, {})
    BY DEF Unanswered
  <1>2. Underway(e) /\ e \in Entries
    BY <1>1, PollsEntry DEF Underway, Polling
  <1>3. GoesBy(e.addr, e.id)
    BY <1>2 DEF CompleteInv, UnderwayKnown
  <1>4. r.addr = e.addr /\ r.id = e.id /\ r.up = FALSE
    OBVIOUS
  <1> HIDE DEF r
  <1>5. GoesBy(r.addr, r.id) /\ (r.up => {} = Peers[r.addr])
    BY <1>3, <1>4
  <1> QED BY <1>1, <1>4, <1>5, PolledCompletes

LEMMA MarkCompletes ==
  ASSUME CountInv, CompleteInv, NEW w \in PollWorkers, Mark(w)
  PROVE  CompleteInv'
  <1>1. PICK p \in worker[w].left :
          IF Pursued(p)
          THEN /\ visited' = visited \cup {p.addr} /\ pending' = pending + 1
               /\ worker' = [worker EXCEPT ![w] = [pc |-> "send", entry |-> p, left |-> @.left \ {p}]]
          ELSE /\ worker' = [worker EXCEPT ![w].left = @ \ {p}]
               /\ UNCHANGED <<visited, pending>>
    BY DEF Mark
  <1>2. worker[w].pc = "offer" /\ UNCHANGED <<seeding, queue, closed, found, deadline>>
    BY DEF Mark
  <1>3. worker[w] \in [pc : {"offer"}, left : SUBSET Entries]
    BY <1>2, SeedingPcs DEF CountInv, WalkTypes, WorkerStates
  <1>4. p \in Entries /\ p.addr \in Addrs /\ p = [id |-> p.id, addr |-> p.addr]
    BY <1>1, <1>3, EntryAddr
  <1>5. ~Polling(w) /\ ~Posting(w) /\ Offering(w)
    BY <1>2 DEF Polling, Posting, Offering
  <1>6. PICK b \in visited : p \in Peers[b]
    BY <1>1, <1>5 DEF CompleteInv, LeftListed
  <1>7. CASE Pursued(p)
    <2> DEFINE v == [pc |-> "send", entry |-> p, left |-> worker[w].left \ {p}]
    <2>1. worker' = [worker EXCEPT ![w] = v] /\ visited' = visited \cup {p.addr}
      BY <1>1, <1>7
    <2>2. v.pc = "send" /\ v.entry = p /\ v.left = worker[w].left \ {p} /\ v # Gone
      BY DEF Gone
    <2> HIDE DEF v
    <2>3. /\ worker'[w] = v
          /\ \A u \in PollWorkers \ {w} :
               /\ worker'[u] = worker[u] /\ Polling(u)' = Polling(u)
               /\ Posting(u)' = Posting(u) /\ Offering(u)' = Offering(u)
      BY <2>1, MovesOnly
    <2>4. ~Polling(w)' /\ Posting(w)' /\ Offering(w)'
      BY <2>2, <2>3 DEF Polling, Posting, Offering
    <2>5. VisitedBounded' /\ Cardinality(visited) # MaxVisitedNodes
      BY <1>4, <1>7, <2>1, PursuesOne DEF CompleteInv
    <2>6. FoundKnown' /\ \A a \in visited : (\E r \in found : GoesBy(a, r.id)) => \E r \in found' : GoesBy(a, r.id)'
      BY <1>2, <2>1, KeptWhileGrowing
    <2>7. \A e : Underway(e)' <=> Underway(e) \/ e = p
      BY <1>2, <1>5, <2>2, <2>3, <2>4 DEF Underway, Queued
    <2>8. UnderwayKnown'
      <3> SUFFICES ASSUME NEW e \in Entries, Underway(e)' PROVE e.addr \in visited' /\ GoesBy(e.addr, e.id)'
        BY DEF UnderwayKnown
      <3>1. CASE e = p
        BY <1>4, <1>6, <2>1, <3>1 DEF GoesBy
      <3>2. CASE Underway(e)
        BY <2>1, <3>2, GoesByGrows DEF CompleteInv, UnderwayKnown
      <3> QED BY <2>7, <3>1, <3>2
    <2>9. LeftListed'
      BY <1>5, <2>1, <2>2, <2>3 DEF CompleteInv, LeftListed
    <2>10. PeersOffered'
      <3> SUFFICES ASSUME NEW q \in found, q.up, NEW o \in Peers[q.addr]
                   PROVE  o.addr \in visited' \/ \E u \in PollWorkers : Offering(u)' /\ o \in worker'[u].left
        BY <1>2 DEF PeersOffered
      <3>1. CASE o.addr \in visited
        BY <2>1, <3>1
      <3>2. ASSUME NEW u \in PollWorkers, Offering(u), o \in worker[u].left
            PROVE  o.addr \in visited' \/ \E x \in PollWorkers : Offering(x)' /\ o \in worker'[x].left
        <4>1. CASE u # w
          BY <2>3, <3>2, <4>1
        <4>2. CASE u = w
          BY <2>1, <2>2, <2>3, <2>4, <3>2, <4>2
        <4> QED BY <4>1, <4>2
      <3> QED BY <2>5, <3>1, <3>2 DEF CompleteInv, PeersOffered
    <2>11. PursuedToEnd'
      BY <1>2, <1>4, <2>1, <2>6, <2>7 DEF CompleteInv, PursuedToEnd
    <2>12. GoneMeansClosed' /\ SeedsNamed'
      BY <1>2, <2>2, <2>3 DEF CompleteInv, GoneMeansClosed, SeedsNamed
    <2> QED BY <2>5, <2>6, <2>8, <2>9, <2>10, <2>11, <2>12 DEF CompleteInv
  <1>8. CASE ~Pursued(p)
    <2> DEFINE v == [worker[w] EXCEPT !.left = @ \ {p}]
    <2>1. worker' = [worker EXCEPT ![w] = v] /\ visited' = visited
      BY <1>1, <1>8
    <2>2. v.pc = "offer" /\ v.left = worker[w].left \ {p} /\ v # Gone
      BY <1>3 DEF Gone
    <2> HIDE DEF v
    <2>3. /\ worker'[w] = v
          /\ \A u \in PollWorkers \ {w} :
               /\ worker'[u] = worker[u] /\ Polling(u)' = Polling(u)
               /\ Posting(u)' = Posting(u) /\ Offering(u)' = Offering(u)
      BY <2>1, MovesOnly
    <2>4. ~Polling(w)' /\ ~Posting(w)' /\ Offering(w)'
      BY <2>2, <2>3 DEF Polling, Posting, Offering
    <2>5. \A e : Underway(e)' <=> Underway(e)
      BY <1>2, <1>5, <2>3, <2>4 DEF Underway, Queued
    <2>6. p.addr \in visited \/ Cardinality(visited) = MaxVisitedNodes
      BY <1>8, NotPursued DEF CompleteInv
    <2>7. VisitedBounded' /\ SeedsNamed' /\ FoundKnown'
      BY <1>2, <2>1 DEF CompleteInv, VisitedBounded, SeedsNamed, FoundKnown, GoesBy
    <2>8. UnderwayKnown' /\ PursuedToEnd'
      BY <1>2, <2>1, <2>5 DEF CompleteInv, UnderwayKnown, PursuedToEnd, GoesBy
    <2>9. LeftListed'
      BY <1>5, <2>1, <2>2, <2>3 DEF CompleteInv, LeftListed
    <2>10. PeersOffered'
      <3> SUFFICES ASSUME NEW q \in found, q.up, NEW o \in Peers[q.addr]
                   PROVE  \/ o.addr \in visited \/ Cardinality(visited) = MaxVisitedNodes
                          \/ \E u \in PollWorkers : Offering(u)' /\ o \in worker'[u].left
        BY <1>2, <2>1 DEF PeersOffered
      <3>1. ASSUME NEW u \in PollWorkers, Offering(u), o \in worker[u].left
            PROVE  \/ o.addr \in visited \/ Cardinality(visited) = MaxVisitedNodes
                   \/ \E x \in PollWorkers : Offering(x)' /\ o \in worker'[x].left
        <4>1. CASE u # w
          BY <2>3, <3>1, <4>1
        <4>2. CASE u = w
          BY <2>2, <2>3, <2>4, <2>6, <3>1, <4>2
        <4> QED BY <4>1, <4>2
      <3> QED BY <3>1 DEF CompleteInv, PeersOffered
    <2>11. GoneMeansClosed'
      BY <1>2, <2>2, <2>3 DEF CompleteInv, GoneMeansClosed
    <2> QED BY <2>7, <2>8, <2>9, <2>10, <2>11 DEF CompleteInv
  <1> QED BY <1>7, <1>8

LEMMA SendCompletes ==
  ASSUME CountInv, CompleteInv, NEW w \in PollWorkers, Send(w)
  PROVE  CompleteInv'
  <1> DEFINE v == [pc |-> "offer", left |-> worker[w].left]
             p == worker[w].entry
  <1>1. /\ worker[w].pc = "send" /\ queue' \in Sent(p) /\ worker' = [worker EXCEPT ![w] = v]
        /\ UNCHANGED <<seeding, visited, closed, found, deadline>>
    BY DEF Send
  <1>2. worker[w] \in [pc : {"send"}, entry : Entries, left : SUBSET Entries]
    BY <1>1, SeedingPcs DEF CountInv, WalkTypes, WorkerStates
  <1>3. Queued' = Queued \cup {p} \/ (Queued' = Queued /\ deadline)
    BY <1>1, <1>2, SendsQueued DEF CountInv, WalkTypes
  <1>4. v.pc = "offer" /\ v.left = worker[w].left /\ v # Gone
    BY DEF Gone
  <1> HIDE DEF v
  <1>5. /\ worker'[w] = v
        /\ \A u \in PollWorkers \ {w} :
             /\ worker'[u] = worker[u] /\ Polling(u)' = Polling(u)
             /\ Posting(u)' = Posting(u) /\ Offering(u)' = Offering(u)
    BY <1>1, MovesOnly
  <1>6. Posting(w) /\ ~Polling(w) /\ Offering(w) /\ ~Polling(w)' /\ ~Posting(w)' /\ Offering(w)'
    BY <1>1, <1>4, <1>5 DEF Polling, Posting, Offering
  <1>7. \A e : Underway(e)' => Underway(e)
    BY <1>3, <1>5, <1>6 DEF Underway
  <1>8. ASSUME ~deadline PROVE \A e : Underway(e) => Underway(e)'
    <2>1. Queued' = Queued \cup {p}
      BY <1>3, <1>8
    <2> QED BY <1>5, <1>6, <2>1 DEF Underway
  <1>9. VisitedBounded' /\ SeedsNamed' /\ FoundKnown'
    BY <1>1 DEF CompleteInv, VisitedBounded, SeedsNamed, FoundKnown, GoesBy
  <1>10. UnderwayKnown' /\ PursuedToEnd'
    BY <1>1, <1>7, <1>8 DEF CompleteInv, UnderwayKnown, PursuedToEnd, GoesBy
  <1>11. LeftListed' /\ PeersOffered'
    BY <1>1, <1>4, <1>5, <1>6 DEF CompleteInv, LeftListed, PeersOffered
  <1>12. GoneMeansClosed'
    BY <1>1, <1>4, <1>5 DEF CompleteInv, GoneMeansClosed
  <1> QED BY <1>9, <1>10, <1>11, <1>12 DEF CompleteInv

LEMMA FinishCompletes ==
  ASSUME CountInv, CompleteInv, NEW w \in PollWorkers, Finish(w)
  PROVE  CompleteInv'
  <1> DEFINE v == IF pending = 1 THEN Gone ELSE Ready
  <1>1. /\ worker[w].pc = "offer" /\ worker[w].left = {} /\ closed' = (closed \/ pending = 1)
        /\ worker' = [worker EXCEPT ![w] = v] /\ UNCHANGED <<seeding, queue, visited, found, deadline>>
    BY DEF Finish, LastPending
  <1>2. v.pc \in {"gone", "ready"} /\ (v = Gone => pending = 1)
    BY SeedingPcs
  <1> HIDE DEF v
  <1>3. /\ worker'[w] = v
        /\ \A u \in PollWorkers \ {w} :
             /\ worker'[u] = worker[u] /\ Polling(u)' = Polling(u)
             /\ Posting(u)' = Posting(u) /\ Offering(u)' = Offering(u)
    BY <1>1, MovesOnly
  <1>4. ~Polling(w) /\ ~Posting(w) /\ ~Polling(w)' /\ ~Posting(w)' /\ ~Offering(w)'
    BY <1>1, <1>2, <1>3 DEF Polling, Posting, Offering
  <1>5. \A e : Underway(e)' <=> Underway(e)
    BY <1>1, <1>3, <1>4 DEF Underway, Queued
  <1>6. VisitedBounded' /\ SeedsNamed' /\ FoundKnown'
    BY <1>1 DEF CompleteInv, VisitedBounded, SeedsNamed, FoundKnown, GoesBy
  <1>7. UnderwayKnown' /\ PursuedToEnd'
    BY <1>1, <1>5 DEF CompleteInv, UnderwayKnown, PursuedToEnd, GoesBy
  <1>8. LeftListed' /\ PeersOffered'
    BY <1>1, <1>3, <1>4 DEF CompleteInv, LeftListed, PeersOffered
  <1>9. GoneMeansClosed'
    BY <1>1, <1>2, <1>3 DEF CompleteInv, GoneMeansClosed
  <1> QED BY <1>6, <1>7, <1>8, <1>9 DEF CompleteInv

\* Steps that only let time pass.
LEMMA TimeCompletes ==
  ASSUME CompleteInv, UNCHANGED <<seeding, queue, visited, closed, worker, found>>, deadline => deadline'
  PROVE  CompleteInv'
  BY DEF CompleteInv, VisitedBounded, SeedsNamed, UnderwayKnown, Underway, Queued, LeftListed, FoundKnown,
         PeersOffered, PursuedToEnd, GoneMeansClosed, GoesBy, Polling, Posting, Offering

LEMMA CompleteStep ==
  ASSUME CountInv, CompleteInv, [Next]_vars
  PROVE  CompleteInv'
  <1>1. CASE Deadline
    BY <1>1, TimeCompletes DEF Deadline
  <1>2. CASE UNCHANGED vars
    BY <1>2, TimeCompletes DEF vars
  <1> QED BY <1>1, <1>2, SeedCompletes, TakeCompletes, LeaveCompletes, AnsweredCompletes, UnansweredCompletes,
             MarkCompletes, SendCompletes, FinishCompletes
          DEF Next, Work

\* A walk that ended before its deadline has polled all it heard of, up to the
\* limit of addresses (Poller.Walk, enqueue, pollOne).
THEOREM WalksComplete == Spec => []WalkComplete
  <1>1. CountInv /\ CompleteInv => WalkComplete
    <2> SUFFICES ASSUME CountInv, CompleteInv, Walked, ~deadline
                 PROVE  /\ \A r \in found : r.up => \A p \in Peers[r.addr] :
                             p.addr \in visited \/ Cardinality(visited) = MaxVisitedNodes
                        /\ \A a \in visited : \E r \in found : GoesBy(a, r.id)
      BY DEF WalkComplete
    <2>1. \A w \in PollWorkers : ~Polling(w) /\ ~Posting(w) /\ ~Offering(w)
      BY SeedingPcs DEF Walked, Polling, Posting, Offering
    <2>2. closed
      BY WalkAssumption DEF Walked, CompleteInv, GoneMeansClosed
    <2>3. queue = <<>>
      BY <2>2 DEF CountInv, ClosedEmpty
    <2>4. Queued = {}
      BY <2>3 DEF Queued
    <2>5. \A e : ~Underway(e)
      BY <2>1, <2>4 DEF Underway
    <2> QED BY <2>1, <2>5 DEF CompleteInv, PeersOffered, PursuedToEnd
  <1>2. CountInv /\ CompleteInv /\ [Next]_vars => CompleteInv'
    BY CompleteStep
  <1> QED BY <1>1, <1>2, CompleteInit, CountAlways, PTL DEF Spec
=============================================================================
