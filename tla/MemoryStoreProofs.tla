------------------------- MODULE MemoryStoreProofs -------------------------
(***************************************************************************)
(* Proofs about MemoryStore, for any keys, handlers and limits.            *)
(***************************************************************************)
EXTENDS MemoryStore, FiniteSetTheorems, WellFoundedInduction, TLAPS

(***************************************************************************)
(* The strengthening that makes StreamMirror inductive.  It says of the    *)
(* events about k in a registered stream's channel q, over what the viewer *)
(* shows: the last one is how the store stands (LastTells); an expire      *)
(* follows the put of the same revision or, as the first, meets that       *)
(* revision or nothing on the screen (ExpireFollows, ExpireFirst).         *)
(***************************************************************************)
Between(q, k, i, j) == \A m \in (i + 1)..(j - 1) : q[m].key # k

LastTells(q, k, cur) ==
  \A j \in 1..Len(q) :
    (q[j].key = k /\ Between(q, k, j, Len(q) + 1)) =>
      \/ q[j].kind = "put" /\ cur = q[j].entry
      \/ q[j].kind = "expire" /\ cur = NoEntry

ExpireFollows(q, k) ==
  \A i, j \in 1..Len(q) :
    (/\ i < j /\ q[i].key = k /\ q[j].key = k
     /\ q[j].kind = "expire" /\ Between(q, k, i, j)) =>
      q[i].kind = "put" /\ q[i].entry.rev = q[j].entry.rev

ExpireFirst(q, k, shown) ==
  \A j \in 1..Len(q) :
    (q[j].key = k /\ q[j].kind = "expire" /\ Between(q, k, 0, j)) =>
      shown.rev = 0 \/ shown.rev = q[j].entry.rev

ViewTells(q, k, shown, cur, t) ==
  Between(q, k, 0, Len(q) + 1) =>
    shown = cur \/ (shown = NoEntry /\ t >= cur.expires)

Mirror(q, k, shown, cur, t) ==
  /\ LastTells(q, k, cur) /\ ExpireFollows(q, k)
  /\ ExpireFirst(q, k, shown) /\ ViewTells(q, k, shown, cur, t)

RevisionsBounded ==
  /\ \A k \in Keys : data[k].rev <= sequence
  /\ \A h \in Handlers, k \in Keys : view[h][k].rev <= sequence

MirrorInv ==
  \A h \in subscribers, k \in Keys : Streaming(h) =>
    Mirror(queue[h], k, view[h][k], data[k], now)

\* What a critical section hands to a channel is a prefix of its events.
LEMMA AcceptedRange ==
  ASSUME NEW h \in Handlers, NEW evs \in Seq(Event)
  PROVE  Accepted(h, evs) \in 0..Len(evs)
<1> DEFINE S == {n \in 1..Len(evs) : Fits(queue[h], evs, n)}
<1>1. Len(evs) \in Nat
  OBVIOUS
<1>2. IsFiniteSet(1..Len(evs)) /\ Cardinality(1..Len(evs)) = Len(evs)
  BY <1>1, FS_Interval
<1>3. S \subseteq 1..Len(evs)
  OBVIOUS
<1>4. Cardinality(S) <= Cardinality(1..Len(evs)) /\ IsFiniteSet(S)
  BY <1>2, <1>3, FS_Subset
<1>5. Cardinality(S) \in Nat
  BY <1>4, FS_CardinalityType
<1> QED
  BY <1>1, <1>2, <1>4, <1>5 DEF Accepted

\* publishLocked keeps the channels sequences of events and only drops
\* subscribers.
LEMMA PublishType ==
  ASSUME TypeOK, NEW evs \in Seq(Event), publishLocked(evs)
  PROVE  /\ subscribers' \in SUBSET Handlers
         /\ queue' \in [Handlers -> Seq(Event)]
<1>1. \A h \in Handlers : SubSeq(evs, 1, Accepted(h, evs)) \in Seq(Event)
  BY AcceptedRange
<1>2. \A h \in Handlers : queue[h] \in Seq(Event)
  BY DEF TypeOK
<1> QED
  BY <1>1, <1>2 DEF publishLocked, TypeOK

\* An order of the swept keys, as a sequence of expire events.
LEMMA SweepOrder ==
  ASSUME TypeOK, NEW order \in SetToSeqs(ExpiredKeys)
  PROVE  /\ order \in Seq(Keys)
         /\ \A i \in 1..Len(order) : order[i] \in ExpiredKeys
         /\ \A i, j \in 1..Len(order) : i # j => order[i] # order[j]
         /\ \A k \in ExpiredKeys : \E i \in 1..Len(order) : order[i] = k
         /\ ExpireEvents(order) \in Seq(Event)
         /\ Len(ExpireEvents(order)) = Len(order)
<1> DEFINE n == Cardinality(ExpiredKeys)
<1>1. ExpiredKeys \subseteq Keys
  BY DEF ExpiredKeys
<1>2. IsFiniteSet(ExpiredKeys)
  BY <1>1, FS_Subset, StoreAssumption
<1>3. n \in Nat
  BY <1>2, FS_CardinalityType
<1>4. /\ order \in [1..n -> ExpiredKeys]
      /\ \A i, j \in 1..n : i # j => order[i] # order[j]
  BY DEF SetToSeqs
<1>5. Len(order) = n /\ order \in Seq(Keys)
  BY <1>1, <1>3, <1>4
<1>6. \A k \in ExpiredKeys : data[k] \in Entry
  BY DEF ExpiredKeys, Present, TypeOK
<1>7. ExpireEvents(order) \in Seq(Event) /\ Len(ExpireEvents(order)) = n
  <2>1. \A i \in 1..n : [kind |-> "expire", key |-> order[i], entry |-> data[order[i]]] \in Event
    BY <1>1, <1>4, <1>6 DEF Event
  <2> QED
    BY <1>3, <1>5, <2>1 DEF ExpireEvents
<1>8. \A k \in ExpiredKeys : \E i \in 1..n : order[i] = k
  <2>1. IsFiniteSet(1..n) /\ Cardinality(1..n) = n
    BY <1>3, FS_Interval
  <2>2. order \in Injection(1..n, ExpiredKeys)
    BY <1>4 DEF Injection, IsInjective
  <2>3. order \in Surjection(1..n, ExpiredKeys)
    BY <1>2, <2>1, <2>2, FS_Injection
  <2> QED
    BY <2>3 DEF Surjection
<1> QED
  BY <1>3, <1>4, <1>5, <1>7, <1>8

\* What the viewer shows for a key after one more event about it.
LEMMA FoldCases ==
  ASSUME NEW shown \in Entry \cup {NoEntry}, NEW e,
         e.kind \in {"put", "expire"}, e.entry \in Entry,
         NEW v \in Fold(shown, e)
  PROVE  /\ v \in {shown, e.entry, NoEntry}
         /\ (e.kind = "put" /\ shown.rev < e.entry.rev) =>
              v = e.entry \/ (v = NoEntry /\ Expired(e.entry))
         /\ (e.kind = "expire" /\ shown.rev \in {0, e.entry.rev}) => v = NoEntry
<1>1. shown.rev \in Nat /\ e.entry.rev \in Nat \ {0}
  BY DEF Entry, NoEntry
<1>2. shown.rev = 0 => shown = NoEntry
  BY DEF Entry
<1> QED
  BY <1>1, <1>2 DEF Fold

-----------------------------------------------------------------------------
\* Type correctness, step by step.
LEMMA TypeStep ==
  ASSUME TypeOK, [Next]_vars
  PROVE  TypeOK'
<1> USE StoreAssumption, StreamAssumption
<1>1. ASSUME NEW k \in Keys, NEW size \in Sizes, NEW ttl \in TTLs, Put(k, size, ttl)
      PROVE  TypeOK'
  <2> DEFINE e == [size |-> size, expires |-> now + ttl, rev |-> NextRevision(k)]
             ev == [kind |-> "put", key |-> k, entry |-> e]
  <2>1. e \in Entry
    BY DEF Entry, TypeOK, NextRevision
  <2>2. <<ev>> \in Seq(Event)
    BY <2>1 DEF Event
  <2>3. publishLocked(<<ev>>)
    BY <1>1 DEF Put
  <2>4. subscribers' \in SUBSET Handlers /\ queue' \in [Handlers -> Seq(Event)]
    BY <2>2, <2>3, PublishType
  <2>5. data' \in [Keys -> Entry \cup {NoEntry}]
    BY <1>1, <2>1 DEF Put, TypeOK
  <2> QED
    BY <1>1, <2>4, <2>5 DEF Put, TypeOK
<1>2. ASSUME cleanupExpired
      PROVE  TypeOK'
  <2>1. PICK order \in SetToSeqs(ExpiredKeys) : publishLocked(ExpireEvents(order))
    BY <1>2 DEF cleanupExpired
  <2>2. subscribers' \in SUBSET Handlers /\ queue' \in [Handlers -> Seq(Event)]
    BY <2>1, SweepOrder, PublishType
  <2>3. data' \in [Keys -> Entry \cup {NoEntry}]
    BY <1>2 DEF cleanupExpired, TypeOK
  <2> QED
    BY <1>2, <2>2, <2>3 DEF cleanupExpired, TypeOK
<1>3. CASE WorkerExit
  BY <1>3, Zenon DEF WorkerExit, TypeOK
<1>5. CASE Close
  BY <1>5, Zenon DEF Close, TypeOK
<1>6. CASE Tick
  BY <1>6 DEF Tick, TypeOK
<1>7. CASE CloseStreams
  BY <1>7, Zenon DEF CloseStreams, TypeOK
<1>8. CASE UNCHANGED vars
  BY <1>8, Zenon DEF vars, TypeOK
<1>4. ASSUME NEW h \in Handlers, HandlerNext(h)
      PROVE  TypeOK'
  <2>1. CASE StreamRequest(h)
    BY <2>1 DEF StreamRequest, Goto, PCs, TypeOK
  <2>8. CASE CheckDone(h)
    BY <2>8 DEF CheckDone, Goto, PCs, TypeOK
  <2>6. CASE SubscribeFails(h) \/ WriteSnapshot(h)
    BY <2>6 DEF SubscribeFails, WriteSnapshot, Goto, PCs, TypeOK
  <2>7. CASE ExitSelect(h) \/ KeepAlive(h) \/ SubClose(h)
    BY <2>7 DEF ExitSelect, KeepAlive, SubClose, Goto, PCs, TypeOK
  <2>2. CASE Subscribe(h)
    <3>1. [k \in Keys |-> Get(k)] \in [Keys -> Entry \cup {NoEntry}]
      BY DEF Get, TypeOK
    <3> QED
      BY <2>2, <3>1 DEF Subscribe, Goto, PCs, TypeOK
  <2>3. CASE SendEvent(h)
    <3> DEFINE e == Head(queue[h])
    <3>1. e \in Event /\ Tail(queue[h]) \in Seq(Event)
      BY <2>3 DEF SendEvent, TypeOK
    <3>2. /\ e.key \in Keys /\ e.entry \in Entry /\ e.kind \in {"put", "expire"}
          /\ view[h][e.key] \in Entry \cup {NoEntry}
      BY <3>1 DEF TypeOK, Event
    <3>3. ASSUME NEW v \in Fold(view[h][e.key], e)
          PROVE  v \in Entry \cup {NoEntry}
      BY <3>2, <3>3, Zenon DEF Fold
    <3>4. UNCHANGED view => view' \in [Handlers -> [Keys -> Entry \cup {NoEntry}]]
      BY DEF TypeOK
    <3>5. ASSUME NEW v \in Fold(view[h][e.key], e),
                 view' = [view EXCEPT ![h][e.key] = v]
          PROVE  view' \in [Handlers -> [Keys -> Entry \cup {NoEntry}]]
      BY <3>2, <3>3, <3>5 DEF TypeOK
    <3>6. view' \in [Handlers -> [Keys -> Entry \cup {NoEntry}]]
      BY <2>3, <3>4, <3>5 DEF SendEvent, TypeOK
    <3> QED
      BY <2>3, <3>1, <3>6 DEF SendEvent, Goto, PCs, TypeOK
  <2>4. CASE Release(h)
    BY <2>4 DEF Release, Goto, PCs, TypeOK
  <2>5. CASE \E k \in Keys : ViewerTick(h, k)
    BY <2>5 DEF ViewerTick, TypeOK
  <2> QED
    BY <1>4, <2>1, <2>2, <2>3, <2>4, <2>5, <2>6, <2>7, <2>8 DEF HandlerNext
<1> QED
  BY <1>1, <1>2, <1>3, <1>4, <1>5, <1>6, <1>7, <1>8 DEF Next, StoreNext

\* Every variable of the store, of its stream and of its handlers keeps its
\* type, whatever the interleaving of writes, sweeps and stream requests.
THEOREM TypeCorrect == Spec => []TypeOK
<1>1. Init => TypeOK
  <2>1. Init => closed \in BOOLEAN /\ worker \in BOOLEAN /\ streamDone \in BOOLEAN
    BY Zenon DEF Init
  <2>2. Init => /\ data \in [Keys -> Entry \cup {NoEntry}]
                /\ now \in Nat /\ sequence \in Nat /\ streamActive \in Int
                /\ subscribers \in SUBSET Handlers
                /\ queue \in [Handlers -> Seq(Event)]
                /\ view \in [Handlers -> [Keys -> Entry \cup {NoEntry}]]
                /\ pc \in [Handlers -> PCs]
    BY DEF Init, PCs
  <2> QED
    BY <2>1, <2>2 DEF TypeOK
<1> QED
  BY <1>1, TypeStep, PTL DEF Spec

-----------------------------------------------------------------------------
(***************************************************************************)
(* The stream's slots.  The counter is exact; the requests it let through  *)
(* are at most StreamSubscribers, because each was counted together with   *)
(* all the others when it passed; and a subscription belongs to a request  *)
(* that was let through and has left "admitted" behind.                    *)
(***************************************************************************)
Admitted == {h \in Handlers : pc[h] \notin {"idle", "rejected"}}
Holding  == {h \in Handlers : pc[h] \in {"snapshot", "loop", "select", "closing"}}

SlotInv ==
  /\ streamActive = Cardinality(Running)
  /\ Cardinality(Admitted) <= StreamSubscribers
  /\ subscribers \subseteq Holding

LEMMA HandlerSets ==
  /\ IsFiniteSet(Running) /\ IsFiniteSet(Admitted)
  /\ Cardinality(Running) \in Nat /\ Cardinality(Admitted) \in Nat
  /\ Cardinality(Admitted) <= Cardinality(Running)
<1>1. Admitted \in SUBSET Running /\ Running \in SUBSET Handlers
  BY DEF Admitted, Running
<1>2. IsFiniteSet(Running)
  BY <1>1, FS_Subset, StreamAssumption
<1> QED
  BY <1>1, <1>2, FS_Subset, FS_CardinalityType

LEMMA SlotStep ==
  ASSUME TypeOK, SlotInv, [Next]_vars
  PROVE  SlotInv'
<1> USE StreamAssumption DEF TypeOK
<1>1. ASSUME UNCHANGED <<pc, streamActive>>, subscribers' \subseteq subscribers
      PROVE  SlotInv'
  BY <1>1 DEF SlotInv, Running, Admitted, Holding
<1>2. CASE StoreNext \/ CloseStreams \/ UNCHANGED vars
  <2>1. UNCHANGED <<pc, streamActive>>
    BY <1>2 DEF StoreNext, Put, cleanupExpired, WorkerExit, Close, Tick,
                CloseStreams, vars
  <2>2. subscribers' \subseteq subscribers
    BY <1>2 DEF StoreNext, Put, cleanupExpired, WorkerExit, Close, Tick,
                CloseStreams, vars, publishLocked
  <2> QED
    BY <1>1, <2>1, <2>2
<1>3. ASSUME NEW h \in Handlers, HandlerNext(h)
      PROVE  SlotInv'
  <2>1. CASE StreamRequest(h)
    <3>1. Running' = Running \cup {h} /\ h \notin Running
      BY <2>1 DEF StreamRequest, Goto, Running
    <3>2. Cardinality(Running') = Cardinality(Running) + 1
      BY <3>1, HandlerSets, FS_AddElement
    <3>3. Admitted' = IF streamActive + 1 > StreamSubscribers
                        THEN Admitted ELSE Admitted \cup {h}
      BY <2>1 DEF StreamRequest, Goto, Admitted
    <3>4. h \notin Admitted
      BY <2>1 DEF StreamRequest, Admitted
    <3>5. Cardinality(Admitted \cup {h}) = Cardinality(Admitted) + 1
      BY <3>4, HandlerSets, FS_AddElement
    <3>6. Cardinality(Admitted') <= StreamSubscribers
      BY <3>3, <3>5, HandlerSets DEF SlotInv
    <3>7. subscribers' \subseteq Holding'
      BY <2>1 DEF StreamRequest, Goto, SlotInv, Holding
    <3>8. streamActive' = Cardinality(Running')
      BY <2>1, <3>2 DEF StreamRequest, SlotInv
    <3> QED
      BY <3>6, <3>7, <3>8 DEF SlotInv
  <2>2. CASE Release(h)
    <3>1. Running' = Running \ {h} /\ h \in Running
      BY <2>2 DEF Release, Goto, Running
    <3>2. Cardinality(Running') = Cardinality(Running) - 1
      BY <3>1, HandlerSets, FS_RemoveElement
    <3>3. Admitted' \in SUBSET Admitted
      BY <2>2 DEF Release, Goto, Admitted
    <3>4. Cardinality(Admitted') <= Cardinality(Admitted) /\ Cardinality(Admitted') \in Nat
      BY <3>3, HandlerSets, FS_Subset, FS_CardinalityType
    <3>5. subscribers' \subseteq Holding'
      BY <2>2 DEF Release, Goto, SlotInv, Holding
    <3> QED
      BY <2>2, <3>2, <3>4, <3>5, HandlerSets DEF SlotInv, Release
  <2>3. CASE \E k \in Keys : ViewerTick(h, k)
    BY <1>1, <2>3 DEF ViewerTick
  <2>4. ASSUME /\ UNCHANGED streamActive
               /\ pc[h] \notin {"idle", "rejected"}
               /\ \E label \in PCs \ {"idle", "rejected"} : Goto(h, label)
               /\ subscribers' \subseteq Holding'
        PROVE  SlotInv'
    <3>1. Running' = Running /\ Admitted' = Admitted
      BY <2>4 DEF Goto, Running, Admitted
    <3> QED
      BY <2>4, <3>1 DEF SlotInv
  <2>5. CASE Subscribe(h)
    BY <2>4, <2>5 DEF Subscribe, Goto, PCs, SlotInv, Holding
  <2>6. CASE SubscribeFails(h) \/ WriteSnapshot(h)
    BY <2>4, <2>6 DEF SubscribeFails, WriteSnapshot, Goto, PCs, SlotInv, Holding
  <2>7. CASE SendEvent(h)
    BY <2>4, <2>7 DEF SendEvent, Goto, PCs, SlotInv, Holding
  <2>8. CASE CheckDone(h) \/ ExitSelect(h) \/ KeepAlive(h) \/ SubClose(h)
    BY <2>4, <2>8 DEF CheckDone, ExitSelect, KeepAlive, SubClose, Goto, PCs,
       SlotInv, Holding
  <2> QED
    BY <1>3, <2>1, <2>2, <2>3, <2>5, <2>6, <2>7, <2>8 DEF HandlerNext
<1> QED
  BY <1>2, <1>3 DEF Next

\* A subscriber holds a slot of its own, and so does an admitted request that
\* has not subscribed yet: together they fit under the limit.
LEMMA SlotsFollow == TypeOK /\ SlotInv => StreamSlots
<1> SUFFICES ASSUME TypeOK, SlotInv, NEW h \in Handlers, pc[h] = "admitted"
             PROVE  Cardinality(subscribers) < StreamSubscribers
  BY DEF StreamSlots, SlotInv
<1>1. subscribers \in SUBSET (Admitted \ {h}) /\ h \in Admitted
  BY DEF SlotInv, Holding, Admitted
<1>2. /\ IsFiniteSet(Admitted \ {h})
      /\ Cardinality(Admitted \ {h}) = Cardinality(Admitted) - 1
  BY <1>1, HandlerSets, FS_RemoveElement
<1>3. Cardinality(subscribers) <= Cardinality(Admitted \ {h}) /\ IsFiniteSet(subscribers)
  BY <1>1, <1>2, FS_Subset
<1>4. Cardinality(subscribers) \in Nat
  BY <1>3, FS_CardinalityType
<1> QED
  BY <1>2, <1>3, <1>4, HandlerSets, StreamAssumption DEF SlotInv

\* The count of running stream requests is exact in every interleaving, and
\* the store's own subscriber limit never refuses a request the counter let
\* through: for any number of requests and any limit.
THEOREM SlotsExact == Spec => []StreamSlots
<1>1. Init => SlotInv
  <2> SUFFICES ASSUME Init PROVE SlotInv
    OBVIOUS
  <2>1. Running = {} /\ Admitted = {} /\ subscribers = {}
    BY DEF Init, Running, Admitted
  <2> QED
    BY <2>1, FS_EmptySet, StreamAssumption DEF SlotInv, Init
<1> QED
  BY <1>1, SlotStep, SlotsFollow, TypeCorrect, PTL DEF Spec

-----------------------------------------------------------------------------
(***************************************************************************)
(* The order of queued revisions.                                          *)
(***************************************************************************)
\* How one critical section extends a channel: by a prefix of its events,
\* by all of them for a subscriber that stays registered.
LEMMA PublishQueue ==
  ASSUME TypeOK, NEW evs \in Seq(Event), publishLocked(evs), NEW h \in Handlers
  PROVE  /\ Len(queue'[h]) \in Len(queue[h])..(Len(queue[h]) + Len(evs))
         /\ \A i \in 1..Len(queue[h]) : queue'[h][i] = queue[h][i]
         /\ \A i \in (Len(queue[h]) + 1)..Len(queue'[h]) :
              queue'[h][i] = evs[i - Len(queue[h])]
         /\ h \in subscribers' => /\ h \in subscribers
                                  /\ Len(queue'[h]) = Len(queue[h]) + Len(evs)
<1>1. queue[h] \in Seq(Event)
  BY DEF TypeOK
<1>2. CASE h \notin subscribers
  BY <1>1, <1>2 DEF publishLocked
<1>3. CASE h \in subscribers /\ Kept(h, evs)
  <2>1. queue'[h] = queue[h] \o evs
    BY <1>3 DEF publishLocked
  <2> QED
    BY <1>1, <1>3, <2>1
<1>4. CASE h \in subscribers /\ ~Kept(h, evs)
  <2> DEFINE pre == SubSeq(evs, 1, Accepted(h, evs))
  <2>1. queue'[h] = queue[h] \o pre /\ h \notin subscribers'
    BY <1>4 DEF publishLocked
  <2>2. Accepted(h, evs) \in 0..Len(evs)
    BY AcceptedRange
  <2>3. /\ pre \in Seq(Event) /\ Len(pre) = Accepted(h, evs)
        /\ \A i \in 1..Len(pre) : pre[i] = evs[i]
    BY <2>2
  <2> HIDE DEF pre
  <2> QED
    BY <1>1, <2>1, <2>2, <2>3
<1> QED
  BY <1>2, <1>3, <1>4

LEMMA RevisionTypes ==
  ASSUME TypeOK
  PROVE  /\ sequence \in Nat
         /\ \A k \in Keys : data[k].rev \in Nat
         /\ \A h \in Handlers, k \in Keys : view[h][k].rev \in Nat
         /\ \A h \in Handlers : /\ Len(queue[h]) \in Nat
                                /\ DOMAIN queue[h] = 1..Len(queue[h])
                                /\ \A i \in 1..Len(queue[h]) :
                                     /\ queue[h][i] \in Event
                                     /\ queue[h][i].key \in Keys
                                     /\ queue[h][i].entry \in Entry
                                     /\ queue[h][i].entry.rev \in Nat \ {0}
<1>1. \A x \in Entry \cup {NoEntry} : x.rev \in Nat
  BY DEF Entry, NoEntry
<1>2. \A e \in Event : e.key \in Keys /\ e.entry \in Entry /\ e.entry.rev \in Nat \ {0}
  BY DEF Event, Entry
<1>3. \A h \in Handlers, k \in Keys : view[h][k] \in Entry \cup {NoEntry}
  BY DEF TypeOK
<1>4. ASSUME NEW h \in Handlers
      PROVE  /\ Len(queue[h]) \in Nat /\ DOMAIN queue[h] = 1..Len(queue[h])
             /\ \A i \in 1..Len(queue[h]) : queue[h][i] \in Event
  <2>1. queue[h] \in Seq(Event)
    BY DEF TypeOK
  <2> QED
    BY <2>1
<1>5. sequence \in Nat /\ \A k \in Keys : data[k] \in Entry \cup {NoEntry}
  BY DEF TypeOK
<1> QED
  BY <1>1, <1>2, <1>3, <1>4, <1>5

\* QueueNewer over one critical section: its events must be as new as the
\* sequence allows, and a write among them newer than all before it.
LEMMA NewerPublish ==
  ASSUME TypeOK, TypeOK', QueueNewer, RevisionsBounded,
         NEW evs \in Seq(Event), publishLocked(evs), UNCHANGED view,
         sequence' >= sequence,
         \A i \in 1..Len(evs) :
           /\ evs[i].entry.rev <= sequence'
           /\ evs[i].kind = "put" => i = 1 /\ evs[i].entry.rev > sequence
  PROVE  QueueNewer'
<1> SUFFICES ASSUME NEW h \in Handlers, NEW i \in 1..Len(queue'[h])
             PROVE  LET e == queue'[h][i]
                    IN /\ e.entry.rev <= sequence'
                       /\ e.kind = "put" =>
                            /\ view'[h][e.key].rev < e.entry.rev
                            /\ \A j \in 1..(i - 1) : queue'[h][j].key = e.key =>
                                 queue'[h][j].entry.rev < e.entry.rev
  BY DEF QueueNewer, Newer
<1> DEFINE n == Len(queue[h])
<1>1. n \in Nat /\ Len(queue'[h]) \in Nat
  BY DEF TypeOK
<1>2. /\ \A j \in 1..n : queue'[h][j] = queue[h][j]
      /\ \A j \in (n + 1)..Len(queue'[h]) : queue'[h][j] = evs[j - n]
      /\ Len(queue'[h]) <= n + Len(evs)
  BY PublishQueue
<1>3. sequence \in Nat /\ sequence' \in Nat
  BY DEF TypeOK
<1>4. \A j \in 1..n : queue[h][j].entry.rev <= sequence /\ queue[h][j].entry.rev \in Nat
  BY RevisionTypes DEF QueueNewer, Newer
<1>5. CASE i <= n
  <2>1. queue'[h][i] = queue[h][i] /\ \A j \in 1..(i - 1) : queue'[h][j] = queue[h][j]
    <3>1. i \in 1..n /\ \A j \in 1..(i - 1) : j \in 1..n
      <4> HIDE DEF n
      <4> QED BY <1>1, <1>5
    <3> HIDE DEF n
    <3> QED BY <1>2, <3>1
  <2>2. i \in 1..Len(queue[h]) /\ i \in DOMAIN queue[h]
    BY <1>1, <1>5, RevisionTypes
  <2>3. queue[h][i].entry.rev <= sequence'
    BY <1>3, <1>4, <2>2
  <2>4. queue[h][i].kind = "put" =>
          /\ view[h][queue[h][i].key].rev < queue[h][i].entry.rev
          /\ \A j \in 1..(i - 1) : queue[h][j].key = queue[h][i].key =>
               queue[h][j].entry.rev < queue[h][i].entry.rev
    BY <2>2 DEF QueueNewer, Newer
  <2> QED
    BY <2>1, <2>3, <2>4
<1>6. CASE i > n
  <2> DEFINE e == evs[i - n]
  <2>1. queue'[h][i] = e /\ i - n \in 1..Len(evs)
    <3>1. Len(evs) \in Nat
      OBVIOUS
    <3>2. i \in (n + 1)..Len(queue'[h]) /\ i - n \in 1..Len(evs)
      <4> DEFINE l == Len(queue'[h])
                 m == Len(evs)
      <4>1. i \in 1..l /\ l \in Nat /\ m \in Nat /\ l <= n + m
        BY <1>1, <1>2, <3>1
      <4> HIDE DEF n, l, m
      <4>2. i \in (n + 1)..l /\ i - n \in 1..m
        BY <1>1, <1>6, <4>1
      <4> QED BY <4>2 DEF l, m
    <3> HIDE DEF n
    <3> QED BY <1>2, <3>2
  <2>2. e \in Event
    BY <2>1
  <2>3. e.key \in Keys /\ e.entry.rev \in Nat
    BY <2>2 DEF Event, Entry
  <2>4. view[h][e.key].rev <= sequence /\ view[h][e.key].rev \in Nat
    BY <2>3, RevisionTypes DEF RevisionsBounded
  <2>5. /\ e.entry.rev <= sequence'
        /\ e.kind = "put" => i - n = 1 /\ e.entry.rev > sequence
    BY <2>1
  <2> HIDE DEF e
  <2>6. ASSUME e.kind = "put", NEW j \in 1..(i - 1)
        PROVE  queue'[h][j].entry.rev < e.entry.rev
    <3>1. j \in 1..n
      BY <1>1, <2>5, <2>6
    <3> QED
      <4>1. queue'[h][j] = queue[h][j]
        BY <1>2, <3>1
      <4>2. queue[h][j].entry.rev <= sequence /\ queue[h][j].entry.rev \in Nat
        BY <1>4, <3>1
      <4>3. e.entry.rev > sequence
        BY <2>5, <2>6
      <4> QED
        BY <1>3, <2>3, <4>1, <4>2, <4>3
  <2>7. e.kind = "put" => view'[h][e.key].rev < e.entry.rev
    BY <1>3, <2>3, <2>4, <2>5
  <2> QED
    BY <2>1, <2>5, <2>6, <2>7
<1> QED
  BY <1>1, <1>5, <1>6

LEMMA TailFacts ==
  ASSUME NEW S, NEW q \in Seq(S), q # <<>>
  PROVE  /\ Head(q) = q[1] /\ Len(q) >= 1 /\ Len(q) \in Nat
         /\ Tail(q) \in Seq(S) /\ Len(Tail(q)) = Len(q) - 1
         /\ \A i \in 1..(Len(q) - 1) : Tail(q)[i] = q[i + 1]
  OBVIOUS

\* A channel stays ordered when its head is taken, over a picture that the
\* remaining writes are still newer than.
LEMMA NewerTail ==
  ASSUME NEW q \in Seq(Event), q # <<>>, NEW shown, Newer(q, shown), NEW after,
         \A i \in 2..Len(q) : q[i].kind = "put" =>
           after[q[i].key].rev < q[i].entry.rev
  PROVE  Newer(Tail(q), after)
<1>1. /\ Len(q) \in Nat /\ Len(Tail(q)) = Len(q) - 1
      /\ \A i \in 1..(Len(q) - 1) : Tail(q)[i] = q[i + 1]
  BY TailFacts
<1> SUFFICES ASSUME NEW i \in 1..(Len(q) - 1)
             PROVE  /\ q[i + 1].entry.rev <= sequence
                    /\ q[i + 1].kind = "put" =>
                         /\ after[q[i + 1].key].rev < q[i + 1].entry.rev
                         /\ \A j \in 1..(i - 1) : Tail(q)[j].key = q[i + 1].key =>
                              Tail(q)[j].entry.rev < q[i + 1].entry.rev
  BY <1>1 DEF Newer
<1>2. i + 1 \in 2..Len(q) /\ i + 1 \in 1..Len(q)
  BY <1>1
<1>3. \A j \in 1..(i - 1) : Tail(q)[j] = q[j + 1] /\ j + 1 \in 1..((i + 1) - 1)
  BY <1>1
<1> QED
  BY <1>2, <1>3 DEF Newer

LEMMA NewerStep ==
  ASSUME TypeOK, TypeOK', QueueNewer, RevisionsBounded, [Next]_vars
  PROVE  QueueNewer' /\ RevisionsBounded'
<1>1. ASSUME NEW k \in Keys, NEW size \in Sizes, NEW ttl \in TTLs, Put(k, size, ttl)
      PROVE  QueueNewer' /\ RevisionsBounded'
  <2> DEFINE e == [size |-> size, expires |-> now + ttl, rev |-> sequence + 1]
             ev == [kind |-> "put", key |-> k, entry |-> e]
  <2>1. /\ e \in Entry /\ ev.kind = "put" /\ ev.entry.rev = sequence + 1
        /\ data' = [data EXCEPT ![k] = e] /\ sequence' = sequence + 1
    BY <1>1, StoreAssumption DEF Put, NextRevision, Entry, TypeOK
  <2>2. publishLocked(<<ev>>) /\ UNCHANGED view
    BY <1>1 DEF Put, NextRevision
  <2>3. <<ev>> \in Seq(Event)
    BY <2>1 DEF Event
  <2>4. Len(<<ev>>) = 1 /\ <<ev>>[1] = ev
    OBVIOUS
  <2> HIDE DEF ev
  <2>5. sequence \in Nat
    BY DEF TypeOK
  <2>6. \A i \in 1..Len(<<ev>>) : <<ev>>[i] = ev /\ i = 1
    BY <2>4
  <2>7. QueueNewer'
    <3> DEFINE evs == <<ev>>
    <3> HIDE DEF evs
    <3>1. evs \in Seq(Event) /\ publishLocked(evs)
      BY <2>2, <2>3 DEF evs
    <3>2. \A i \in 1..Len(evs) :
            /\ evs[i].entry.rev <= sequence'
            /\ evs[i].kind = "put" => i = 1 /\ evs[i].entry.rev > sequence
      BY <2>1, <2>5, <2>6 DEF evs
    <3>3. sequence' >= sequence
      BY <2>1, <2>5
    <3> QED
      BY <2>2, <3>1, <3>2, <3>3, NewerPublish
  <2>8. RevisionsBounded'
    BY <2>1, <2>2, <2>5, RevisionTypes DEF RevisionsBounded, TypeOK
  <2> QED
    BY <2>7, <2>8
<1>2. CASE cleanupExpired
  <2>1. PICK order \in SetToSeqs(ExpiredKeys) : publishLocked(ExpireEvents(order))
    BY <1>2 DEF cleanupExpired
  <2>2. /\ ExpireEvents(order) \in Seq(Event)
        /\ \A i \in 1..Len(ExpireEvents(order)) :
             /\ ExpireEvents(order)[i].kind = "expire"
             /\ ExpireEvents(order)[i].entry.rev <= sequence
    BY SweepOrder DEF ExpireEvents, RevisionsBounded, ExpiredKeys
  <2>3. /\ UNCHANGED <<view, sequence>>
        /\ data' = [k \in Keys |-> IF k \in ExpiredKeys THEN NoEntry ELSE data[k]]
    BY <1>2 DEF cleanupExpired
  <2>4. QueueNewer'
    BY <2>1, <2>2, <2>3, NewerPublish, RevisionTypes
  <2>5. RevisionsBounded'
    BY <2>3, RevisionTypes DEF RevisionsBounded, NoEntry
  <2> QED
    BY <2>4, <2>5
<1>3. ASSUME UNCHANGED <<data, sequence, queue, view>>
      PROVE  QueueNewer' /\ RevisionsBounded'
  BY <1>3 DEF QueueNewer, Newer, RevisionsBounded
<1>4. CASE WorkerExit \/ Close \/ Tick \/ CloseStreams \/ UNCHANGED vars
  BY <1>3, <1>4 DEF WorkerExit, Close, Tick, CloseStreams, vars
<1>5. ASSUME NEW h \in Handlers, HandlerNext(h)
      PROVE  QueueNewer' /\ RevisionsBounded'
  <2>1. CASE \/ StreamRequest(h) \/ SubscribeFails(h) \/ WriteSnapshot(h)
             \/ CheckDone(h) \/ ExitSelect(h) \/ KeepAlive(h) \/ SubClose(h)
    BY <1>3, <2>1 DEF StreamRequest, SubscribeFails, WriteSnapshot, CheckDone,
       ExitSelect, KeepAlive, SubClose
  <2>2. ASSUME UNCHANGED sequence, Newer(queue'[h], view'[h]),
               \A g \in Handlers \ {h} : queue'[g] = queue[g] /\ view'[g] = view[g]
        PROVE  QueueNewer'
    BY <2>2 DEF QueueNewer, Newer
  <2>3. ASSUME UNCHANGED <<data, sequence>>,
               \A k \in Keys : view'[h][k].rev <= sequence,
               \A g \in Handlers \ {h} : view'[g] = view[g]
        PROVE  RevisionsBounded'
    BY <2>3 DEF RevisionsBounded
  <2>4. CASE Subscribe(h)
    <3>1. \A k \in Keys : view'[h][k].rev <= sequence
      BY <2>4, RevisionTypes DEF Subscribe, RevisionsBounded, Get, NoEntry, TypeOK
    <3>2. Newer(queue'[h], view'[h])
      BY <2>4 DEF Subscribe, TypeOK, Newer
    <3> QED
      BY <2>2, <2>3, <2>4, <3>1, <3>2 DEF Subscribe, TypeOK
  <2>5. CASE Release(h)
    <3>1. \A k \in Keys : view'[h][k].rev <= sequence
      BY <2>5, RevisionTypes DEF Release, NoEntry, TypeOK
    <3>2. Newer(queue'[h], view'[h])
      BY <2>5 DEF Release, TypeOK, Newer
    <3> QED
      BY <2>2, <2>3, <2>5, <3>1, <3>2 DEF Release, TypeOK
  <2>6. CASE SendEvent(h)
    <3> DEFINE e == queue[h][1]
    <3>1. /\ queue[h] \in Seq(Event) /\ queue[h] # <<>>
          /\ queue' = [queue EXCEPT ![h] = Tail(queue[h])]
          /\ UNCHANGED <<data, sequence>>
      BY <2>6 DEF SendEvent, TypeOK
    <3>2. /\ Head(queue[h]) = e /\ queue'[h] = Tail(queue[h])
          /\ 1 \in 1..Len(queue[h]) /\ e.key \in Keys
          /\ \A g \in Handlers \ {h} : queue'[g] = queue[g]
      BY <3>1, TailFacts, RevisionTypes DEF TypeOK
    <3>3. ASSUME NEW v \in Fold(view[h][e.key], e),
                 view' = [view EXCEPT ![h][e.key] = v]
          PROVE  QueueNewer' /\ RevisionsBounded'
      <4>1. v \in {view[h][e.key], e.entry, NoEntry}
        BY <3>3 DEF Fold
      <4>2. v.rev \in Nat /\ v.rev <= sequence
        BY <3>2, <4>1, RevisionTypes DEF NoEntry, RevisionsBounded, QueueNewer, Newer
      <4>3. /\ view'[h][e.key] = v
            /\ \A k \in Keys \ {e.key} : view'[h][k] = view[h][k]
            /\ \A g \in Handlers \ {h} : view'[g] = view[g]
        BY <3>2, <3>3 DEF TypeOK
      <4>4. \A k \in Keys : view'[h][k].rev <= sequence
        BY <4>2, <4>3 DEF RevisionsBounded
      <4>5. Newer(queue[h], view[h])
        BY DEF QueueNewer
      <4>6. ASSUME NEW i \in 2..Len(queue[h]), queue[h][i].kind = "put",
                   queue[h][i].key = e.key
            PROVE  v.rev < queue[h][i].entry.rev
        <5>1. view[h][e.key].rev < queue[h][i].entry.rev
          BY <4>5, <4>6, RevisionTypes DEF Newer
        <5>2. e.entry.rev < queue[h][i].entry.rev
          BY <3>2, <4>5, <4>6, RevisionTypes DEF Newer
        <5>3. 0 < queue[h][i].entry.rev
          BY RevisionTypes
        <5> QED
          BY <4>1, <5>1, <5>2, <5>3 DEF NoEntry
      <4>7. ASSUME NEW i \in 2..Len(queue[h]), queue[h][i].kind = "put"
            PROVE  view'[h][queue[h][i].key].rev < queue[h][i].entry.rev
        <5>1. i \in 1..Len(queue[h]) /\ queue[h][i].key \in Keys
          BY RevisionTypes
        <5>2. CASE queue[h][i].key = e.key
          BY <4>3, <4>6, <4>7, <5>2
        <5>3. CASE queue[h][i].key # e.key
          BY <4>3, <4>5, <4>7, <5>1, <5>3 DEF Newer
        <5> QED
          BY <5>2, <5>3
      <4>8. Newer(Tail(queue[h]), view'[h])
        BY <3>1, <4>5, <4>7, NewerTail
      <4>9. Newer(queue'[h], view'[h])
        BY <3>2, <4>8
      <4> QED
        BY <2>2, <2>3, <3>1, <3>2, <4>3, <4>4, <4>9
    <3>4. ASSUME UNCHANGED view
          PROVE  QueueNewer' /\ RevisionsBounded'
      <4>1. Newer(queue[h], view[h])
        BY DEF QueueNewer
      <4>2. Newer(queue'[h], view'[h])
        BY <3>1, <3>2, <3>4, <4>1, NewerTail, RevisionTypes DEF Newer
      <4> QED
        BY <2>2, <2>3, <3>1, <3>2, <3>4, <4>2, RevisionTypes DEF RevisionsBounded
    <3> QED
      BY <2>6, <3>2, <3>3, <3>4 DEF SendEvent
  <2>7. ASSUME NEW k \in Keys, ViewerTick(h, k)
        PROVE  QueueNewer' /\ RevisionsBounded'
    <3>1. /\ view' = [view EXCEPT ![h][k] = NoEntry] /\ NoEntry.rev = 0
          /\ UNCHANGED <<data, sequence, queue>>
      BY <2>7 DEF ViewerTick, NoEntry
    <3>2. \A l \in Keys : view'[h][l].rev <= view[h][l].rev /\ view'[h][l].rev \in Nat
      BY <3>1, RevisionTypes DEF TypeOK
    <3>3. \A l \in Keys : view'[h][l].rev <= sequence
      BY <3>2, RevisionTypes DEF RevisionsBounded
    <3>4. Newer(queue[h], view[h])
      BY DEF QueueNewer
    <3>5. Newer(queue'[h], view'[h])
      BY <3>1, <3>2, <3>4, RevisionTypes DEF Newer
    <3> QED
      BY <2>2, <2>3, <3>1, <3>3, <3>5 DEF TypeOK
  <2> QED
    BY <1>5, <2>1, <2>4, <2>5, <2>6, <2>7 DEF HandlerNext
<1> QED
  BY <1>1, <1>2, <1>4, <1>5 DEF Next, StoreNext

\* No stream shows an old revision over a newer one, for any queue size.
THEOREM RevisionsOrdered == Spec => []QueueNewer
<1>1. Init => QueueNewer /\ RevisionsBounded
  BY DEF Init, QueueNewer, Newer, RevisionsBounded, NoEntry
<1> QED
  BY <1>1, NewerStep, TypeCorrect, PTL DEF Spec

-----------------------------------------------------------------------------
(***************************************************************************)
(* The viewer's picture.  Four facts about the events on one key: adding   *)
(* events about other keys, adding one about this key, taking an event     *)
(* about another key, and taking one about this key.                       *)
(***************************************************************************)
\* r is the channel q with the events evs put behind it.
Extends(r, q, evs) ==
  /\ Len(r) = Len(q) + Len(evs)
  /\ \A i \in 1..Len(q) : r[i] = q[i]
  /\ \A i \in (Len(q) + 1)..Len(r) : r[i] = evs[i - Len(q)]

LEMMA MirrorOtherAdded ==
  ASSUME NEW q \in Seq(Event), NEW r \in Seq(Event), NEW evs \in Seq(Event),
         Extends(r, q, evs), NEW k \in Keys, NEW shown, NEW cur, NEW t,
         \A i \in 1..Len(evs) : evs[i].key # k,
         Mirror(q, k, shown, cur, t)
  PROVE  Mirror(r, k, shown, cur, t)
<1>1. Len(q) \in Nat /\ Len(r) \in Nat /\ Len(evs) \in Nat
  OBVIOUS
<1>2. \A i \in 1..Len(r) : r[i].key = k => i \in 1..Len(q)
  BY <1>1 DEF Extends
<1>3. \A i \in 1..Len(q) : i \in 1..Len(r) /\ r[i] = q[i]
  BY <1>1 DEF Extends
<1>4. LastTells(r, k, cur)
  BY <1>1, <1>2, <1>3 DEF Mirror, LastTells, Between
<1>5. ExpireFollows(r, k)
  <2> SUFFICES ASSUME NEW i \in 1..Len(r), NEW j \in 1..Len(r), i < j,
                      r[i].key = k, r[j].key = k, r[j].kind = "expire",
                      Between(r, k, i, j)
               PROVE  r[i].kind = "put" /\ r[i].entry.rev = r[j].entry.rev
    BY DEF ExpireFollows
  <2>1. i \in 1..Len(q) /\ j \in 1..Len(q)
    BY <1>2
  <2>2. Between(q, k, i, j)
    BY <1>1, <1>3, <2>1 DEF Between
  <2> QED
    BY <1>3, <2>1, <2>2 DEF Mirror, ExpireFollows
<1>6. ExpireFirst(r, k, shown)
  <2> SUFFICES ASSUME NEW j \in 1..Len(r), r[j].key = k, r[j].kind = "expire",
                      Between(r, k, 0, j)
               PROVE  shown.rev = 0 \/ shown.rev = r[j].entry.rev
    BY DEF ExpireFirst
  <2>1. j \in 1..Len(q) /\ r[j] = q[j]
    BY <1>2, <1>3
  <2>2. Between(q, k, 0, j)
    BY <1>1, <1>3, <2>1 DEF Between
  <2> QED
    BY <2>1, <2>2 DEF Mirror, ExpireFirst
<1>7. ViewTells(r, k, shown, cur, t)
  BY <1>1, <1>2, <1>3 DEF Mirror, ViewTells, Between
<1> QED
  BY <1>4, <1>5, <1>6, <1>7 DEF Mirror

LEMMA MirrorAdded ==
  ASSUME NEW q \in Seq(Event), NEW r \in Seq(Event), NEW evs \in Seq(Event),
         Extends(r, q, evs), NEW k \in Keys, NEW cur, NEW new, NEW t,
         NEW shown \in Entry \cup {NoEntry},
         NEW m \in 1..Len(evs), evs[m].key = k,
         \A i \in 1..Len(evs) : evs[i].key = k => i = m,
         \/ evs[m].kind = "put" /\ new = evs[m].entry
         \/ evs[m].kind = "expire" /\ new = NoEntry /\ cur = evs[m].entry,
         Mirror(q, k, shown, cur, t)
  PROVE  Mirror(r, k, shown, new, t)
<1> DEFINE p == Len(q) + m
<1>1. /\ Len(q) \in Nat /\ Len(r) \in Nat /\ Len(evs) \in Nat /\ m \in Nat
      /\ p \in 1..Len(r) /\ p > Len(q)
  BY DEF Extends
<1>2. r[p] = evs[m] /\ r[p].key = k
  <2>1. p \in (Len(q) + 1)..Len(r) /\ p - Len(q) = m
    BY <1>1
  <2> QED
    BY <2>1 DEF Extends
<1>3. ASSUME NEW i \in 1..Len(r), r[i].key = k
      PROVE  i \in 1..Len(q) \/ i = p
  <2>1. CASE i > Len(q)
    <3>1. i - Len(q) \in 1..Len(evs) /\ r[i] = evs[i - Len(q)]
      BY <1>1, <2>1 DEF Extends
    <3>2. i - Len(q) = m
      BY <1>3, <3>1
    <3> QED
      BY <1>1, <3>2
  <2> QED
    BY <1>1, <2>1
<1>4. \A i \in 1..Len(q) : i \in 1..Len(r) /\ r[i] = q[i] /\ i < p
  BY <1>1 DEF Extends
<1>9. evs[m].entry \in Entry /\ NoEntry \notin Entry
  <2>1. evs[m] \in Event
    OBVIOUS
  <2> QED
    BY <2>1 DEF Event, Entry, NoEntry
<1> HIDE DEF p
<1>5. LastTells(r, k, new)
  <2> SUFFICES ASSUME NEW j \in 1..Len(r), r[j].key = k, Between(r, k, j, Len(r) + 1)
               PROVE  j = p
    BY <1>2 DEF LastTells
  <2> QED
    BY <1>1, <1>2, <1>3, <1>4 DEF Between
<1>6. ExpireFollows(r, k)
  <2> SUFFICES ASSUME NEW i \in 1..Len(r), NEW j \in 1..Len(r), i < j,
                      r[i].key = k, r[j].key = k, r[j].kind = "expire",
                      Between(r, k, i, j)
               PROVE  r[i].kind = "put" /\ r[i].entry.rev = r[j].entry.rev
    BY DEF ExpireFollows
  <2>1. i \in 1..Len(q)
    BY <1>1, <1>3, <1>4
  <2>2. CASE j \in 1..Len(q)
    <3>1. Between(q, k, i, j)
      BY <1>1, <1>4, <2>1, <2>2 DEF Between
    <3> QED
      BY <1>4, <2>1, <2>2, <3>1 DEF Mirror, ExpireFollows
  <2>3. CASE j = p
    <3>1. Between(q, k, i, Len(q) + 1)
      BY <1>1, <1>4, <2>1, <2>3 DEF Between
    <3>2. cur = evs[m].entry /\ r[j] = evs[m]
      BY <1>2, <2>3
    <3>3. q[i].kind = "put" /\ cur = q[i].entry
      BY <1>4, <1>9, <2>1, <3>1, <3>2 DEF Mirror, LastTells
    <3> QED
      BY <1>4, <2>1, <3>2, <3>3
  <2> QED
    BY <1>3, <2>2, <2>3
<1>7. ExpireFirst(r, k, shown)
  <2> SUFFICES ASSUME NEW j \in 1..Len(r), r[j].key = k, r[j].kind = "expire",
                      Between(r, k, 0, j)
               PROVE  shown.rev = 0 \/ shown.rev = r[j].entry.rev
    BY DEF ExpireFirst
  <2>1. CASE j \in 1..Len(q)
    <3>1. Between(q, k, 0, j)
      BY <1>1, <1>4, <2>1 DEF Between
    <3> QED
      BY <1>4, <2>1, <3>1 DEF Mirror, ExpireFirst
  <2>2. CASE j = p
    <3>1. Between(q, k, 0, Len(q) + 1)
      <4> SUFFICES ASSUME NEW i \in 1..Len(q) PROVE q[i].key # k
        BY <1>1 DEF Between
      <4>1. i \in 1..(p - 1) /\ r[i] = q[i]
        BY <1>1, <1>4
      <4> QED
        BY <2>2, <4>1 DEF Between
    <3>2. cur = evs[m].entry /\ r[j] = evs[m]
      BY <1>2, <2>2
    <3>3. shown = cur \/ shown = NoEntry
      BY <3>1 DEF Mirror, ViewTells
    <3> QED
      BY <3>2, <3>3 DEF NoEntry
  <2> QED
    BY <1>3, <2>1, <2>2
<1>8. ViewTells(r, k, shown, new, t)
  BY <1>1, <1>2 DEF ViewTells, Between
<1> QED
  BY <1>5, <1>6, <1>7, <1>8 DEF Mirror

LEMMA MirrorTaken ==
  ASSUME NEW q \in Seq(Event), q # <<>>, NEW k \in Keys, NEW t, NEW cur,
         NEW shown \in Entry \cup {NoEntry}, NEW after \in Entry \cup {NoEntry},
         Mirror(q, k, shown, cur, t),
         q[1].key # k => after = shown,
         (q[1].key = k /\ q[1].kind = "put") =>
           after = q[1].entry \/ (after = NoEntry /\ t >= q[1].entry.expires),
         (q[1].key = k /\ q[1].kind = "expire") =>
           ((shown.rev = 0 \/ shown.rev = q[1].entry.rev) => after = NoEntry)
  PROVE  Mirror(Tail(q), k, after, cur, t)
<1> DEFINE r == Tail(q)
<1>1. /\ r \in Seq(Event) /\ Len(q) \in Nat /\ Len(r) = Len(q) - 1 /\ Len(r) \in Nat
      /\ \A i \in 1..Len(r) : r[i] = q[i + 1]
      /\ 1 \in 1..Len(q)
  BY TailFacts
<1> HIDE DEF r
<1>2. \A i \in 1..Len(r) : i + 1 \in 1..Len(q) /\ r[i] = q[i + 1]
  BY <1>1
<1>3. ASSUME NEW i \in 0..Len(r), NEW j \in 1..(Len(r) + 1), Between(r, k, i, j)
      PROVE  Between(q, k, i + 1, j + 1)
  <2> SUFFICES ASSUME NEW m \in ((i + 1) + 1)..((j + 1) - 1) PROVE q[m].key # k
    BY DEF Between
  <2>1. m - 1 \in 1..Len(r) /\ r[m - 1] = q[(m - 1) + 1] /\ (m - 1) + 1 = m
    BY <1>1
  <2>2. m - 1 \in (i + 1)..(j - 1)
    BY <1>1
  <2> QED
    BY <1>3, <2>1, <2>2 DEF Between
<1>4. q[1] \in Event /\ q[1].kind \in {"put", "expire"} /\ q[1].entry \in Entry
  <2>1. q[1] \in Event
    BY <1>1
  <2> QED
    BY <2>1 DEF Event
<1>5. LastTells(r, k, cur)
  <2> SUFFICES ASSUME NEW j \in 1..Len(r), r[j].key = k, Between(r, k, j, Len(r) + 1)
               PROVE  \/ r[j].kind = "put" /\ cur = r[j].entry
                      \/ r[j].kind = "expire" /\ cur = NoEntry
    BY DEF LastTells
  <2>1. Between(q, k, j + 1, Len(q) + 1)
    BY <1>1, <1>3
  <2> QED
    BY <1>2, <2>1 DEF Mirror, LastTells
<1>6. ExpireFollows(r, k)
  <2> SUFFICES ASSUME NEW i \in 1..Len(r), NEW j \in 1..Len(r), i < j,
                      r[i].key = k, r[j].key = k, r[j].kind = "expire",
                      Between(r, k, i, j)
               PROVE  r[i].kind = "put" /\ r[i].entry.rev = r[j].entry.rev
    BY DEF ExpireFollows
  <2>1. i \in 0..Len(r) /\ j \in 1..(Len(r) + 1) /\ i + 1 < j + 1
    BY <1>1
  <2>2. Between(q, k, i + 1, j + 1)
    BY <1>3, <2>1
  <2> QED
    BY <1>2, <2>1, <2>2 DEF Mirror, ExpireFollows
<1>7. ExpireFirst(r, k, after)
  <2> SUFFICES ASSUME NEW j \in 1..Len(r), r[j].key = k, r[j].kind = "expire",
                      Between(r, k, 0, j)
               PROVE  after.rev = 0 \/ after.rev = r[j].entry.rev
    BY DEF ExpireFirst
  <2>1. Between(q, k, 1, j + 1)
    <3>1. 0 \in 0..Len(r) /\ j \in 1..(Len(r) + 1)
      BY <1>1
    <3>2. Between(q, k, 0 + 1, j + 1)
      BY <1>3, <3>1
    <3> QED
      BY <3>2
  <2>2. j + 1 \in 1..Len(q) /\ r[j] = q[j + 1] /\ 1 < j + 1
    BY <1>1, <1>2
  <2>3. CASE q[1].key = k
    <3>1. q[1].kind = "put" /\ q[1].entry.rev = q[j + 1].entry.rev
      BY <1>1, <2>1, <2>2, <2>3 DEF Mirror, ExpireFollows
    <3> QED
      BY <2>2, <2>3, <3>1 DEF NoEntry
  <2>4. CASE q[1].key # k
    <3>1. Between(q, k, 0, j + 1)
      <4> SUFFICES ASSUME NEW m \in 1..j PROVE q[m].key # k
        BY <1>1 DEF Between
      <4>1. m = 1 \/ m \in (1 + 1)..((j + 1) - 1)
        BY <1>1
      <4> QED
        BY <2>1, <2>4, <4>1 DEF Between
    <3> QED
      BY <2>2, <2>4, <3>1 DEF Mirror, ExpireFirst
  <2> QED
    BY <2>3, <2>4
<1>8. ViewTells(r, k, after, cur, t)
  <2> SUFFICES ASSUME Between(r, k, 0, Len(r) + 1)
               PROVE  after = cur \/ (after = NoEntry /\ t >= cur.expires)
    BY DEF ViewTells
  <2>1. Between(q, k, 1, Len(q) + 1)
    <3>1. 0 \in 0..Len(r) /\ Len(r) + 1 \in 1..(Len(r) + 1)
      BY <1>1
    <3>2. Between(q, k, 0 + 1, (Len(r) + 1) + 1)
      BY <1>3, <3>1
    <3>3. 0 + 1 = 1 /\ (Len(r) + 1) + 1 = Len(q) + 1
      BY <1>1
    <3> QED
      BY <3>2, <3>3
  <2>2. CASE q[1].key = k
    <3>1. \/ q[1].kind = "put" /\ cur = q[1].entry
          \/ q[1].kind = "expire" /\ cur = NoEntry
      BY <1>1, <2>1, <2>2 DEF Mirror, LastTells
    <3>2. q[1].kind = "expire" => shown.rev = 0 \/ shown.rev = q[1].entry.rev
      <4>1. Between(q, k, 0, 1)
        BY DEF Between
      <4> QED
        BY <1>1, <2>2, <4>1 DEF Mirror, ExpireFirst
    <3> QED
      BY <2>2, <3>1, <3>2
  <2>3. CASE q[1].key # k
    <3>1. Between(q, k, 0, Len(q) + 1)
      <4> SUFFICES ASSUME NEW m \in 1..Len(q) PROVE q[m].key # k
        BY <1>1 DEF Between
      <4>1. m = 1 \/ m \in (1 + 1)..((Len(q) + 1) - 1)
        BY <1>1
      <4> QED
        BY <2>1, <2>3, <4>1 DEF Between
    <3> QED
      BY <2>3, <3>1 DEF Mirror, ViewTells
  <2> QED
    BY <2>2, <2>3
<1> QED
  BY <1>5, <1>6, <1>7, <1>8 DEF Mirror, r

-----------------------------------------------------------------------------
\* A stream that a step leaves alone keeps its picture; time only helps.
LEMMA MirrorSame ==
  ASSUME NEW q \in Seq(Event), NEW k \in Keys, NEW t \in Nat, NEW u \in Nat, u >= t,
         NEW shown, NEW cur \in Entry \cup {NoEntry}, Mirror(q, k, shown, cur, t)
  PROVE  Mirror(q, k, shown, cur, u)
<1>1. cur.expires \in Nat
  BY DEF Entry, NoEntry
<1> QED
  BY <1>1 DEF Mirror, ViewTells

\* A critical section of the store that publishes evs: for each key either
\* none of them is about it and its entry stays, or exactly one is.
LEMMA MirrorPublish ==
  ASSUME TypeOK, TypeOK', MirrorInv, NEW evs \in Seq(Event), publishLocked(evs),
         UNCHANGED <<view, pc, now>>,
         \A k \in Keys :
           \/ /\ \A i \in 1..Len(evs) : evs[i].key # k
              /\ data'[k] = data[k]
           \/ \E m \in 1..Len(evs) :
                /\ evs[m].key = k
                /\ \A i \in 1..Len(evs) : evs[i].key = k => i = m
                /\ \/ evs[m].kind = "put" /\ data'[k] = evs[m].entry
                   \/ /\ evs[m].kind = "expire" /\ data'[k] = NoEntry
                      /\ data[k] = evs[m].entry
  PROVE  MirrorInv'
<1> SUFFICES ASSUME NEW h \in subscribers', NEW k \in Keys, Streaming(h)'
             PROVE  Mirror(queue'[h], k, view'[h][k], data'[k], now')
  BY DEF MirrorInv
<1>1. h \in Handlers /\ queue[h] \in Seq(Event) /\ queue'[h] \in Seq(Event)
  BY DEF TypeOK
<1>2. h \in subscribers /\ Extends(queue'[h], queue[h], evs)
  BY <1>1, PublishQueue DEF Extends
<1>3. Mirror(queue[h], k, view[h][k], data[k], now)
  BY <1>2 DEF MirrorInv, Streaming
<1>4. view[h][k] \in Entry \cup {NoEntry} /\ view'[h][k] = view[h][k] /\ now' = now
  BY <1>1 DEF TypeOK
<1>5. CASE (\A i \in 1..Len(evs) : evs[i].key # k) /\ data'[k] = data[k]
  BY <1>1, <1>2, <1>3, <1>4, <1>5, MirrorOtherAdded
<1>6. ASSUME NEW m \in 1..Len(evs), evs[m].key = k,
             \A i \in 1..Len(evs) : evs[i].key = k => i = m,
             \/ evs[m].kind = "put" /\ data'[k] = evs[m].entry
             \/ evs[m].kind = "expire" /\ data'[k] = NoEntry /\ data[k] = evs[m].entry
      PROVE  Mirror(queue'[h], k, view'[h][k], data'[k], now')
  BY <1>1, <1>2, <1>3, <1>4, <1>6, MirrorAdded
<1> QED
  BY <1>5, <1>6

LEMMA MirrorStep ==
  ASSUME TypeOK, TypeOK', SlotInv, QueueNewer, MirrorInv, [Next]_vars
  PROVE  MirrorInv'
<1>1. ASSUME NEW k \in Keys, NEW size \in Sizes, NEW ttl \in TTLs, Put(k, size, ttl)
      PROVE  MirrorInv'
  <2> DEFINE e == [size |-> size, expires |-> now + ttl, rev |-> sequence + 1]
             ev == [kind |-> "put", key |-> k, entry |-> e]
             evs == <<ev>>
  <2>1. /\ e \in Entry /\ ev.kind = "put" /\ ev.entry = e /\ ev.key = k
        /\ data' = [data EXCEPT ![k] = e]
    BY <1>1, StoreAssumption DEF Put, NextRevision, Entry, TypeOK
  <2>2. publishLocked(evs) /\ UNCHANGED <<view, pc, now>>
    BY <1>1 DEF Put, NextRevision
  <2>3. evs \in Seq(Event)
    BY <2>1 DEF Event
  <2>4. Len(evs) = 1 /\ evs[1] = ev
    OBVIOUS
  <2> HIDE DEF evs, ev, e
  <2>5. data'[k] = e /\ \A l \in Keys \ {k} : data'[l] = data[l]
    BY <2>1 DEF TypeOK
  <2>6. \A i \in 1..Len(evs) : i = 1 /\ evs[i] = ev
    BY <2>4
  <2>7. 1 \in 1..Len(evs)
    BY <2>4
  <2>8. ASSUME NEW l \in Keys
        PROVE  \/ (\A i \in 1..Len(evs) : evs[i].key # l) /\ data'[l] = data[l]
               \/ \E m \in 1..Len(evs) :
                    /\ evs[m].key = l
                    /\ \A i \in 1..Len(evs) : evs[i].key = l => i = m
                    /\ \/ evs[m].kind = "put" /\ data'[l] = evs[m].entry
                       \/ /\ evs[m].kind = "expire" /\ data'[l] = NoEntry
                          /\ data[l] = evs[m].entry
    BY <2>1, <2>5, <2>6, <2>7
  <2> QED
    BY <2>2, <2>3, <2>8, MirrorPublish
<1>2. CASE cleanupExpired
  <2>1. PICK order \in SetToSeqs(ExpiredKeys) : publishLocked(ExpireEvents(order))
    BY <1>2 DEF cleanupExpired
  <2> DEFINE evs == ExpireEvents(order)
  <2>2. /\ UNCHANGED <<view, pc, now>>
        /\ data' = [k \in Keys |-> IF k \in ExpiredKeys THEN NoEntry ELSE data[k]]
    BY <1>2 DEF cleanupExpired
  <2>3. evs \in Seq(Event) /\ publishLocked(evs) /\ Len(evs) = Len(order)
    BY <2>1, SweepOrder
  <2>4. \A i \in 1..Len(evs) :
          /\ evs[i].kind = "expire" /\ evs[i].key = order[i]
          /\ evs[i].entry = data[order[i]] /\ order[i] \in ExpiredKeys
    BY <2>3, SweepOrder DEF ExpireEvents
  <2>5. /\ \A i, j \in 1..Len(evs) : order[i] = order[j] => i = j
        /\ \A k \in ExpiredKeys : \E i \in 1..Len(evs) : order[i] = k
    BY <2>3, SweepOrder
  <2> HIDE DEF evs
  <2>6. ASSUME NEW k \in Keys
        PROVE  \/ (\A i \in 1..Len(evs) : evs[i].key # k) /\ data'[k] = data[k]
               \/ \E m \in 1..Len(evs) :
                    /\ evs[m].key = k
                    /\ \A i \in 1..Len(evs) : evs[i].key = k => i = m
                    /\ \/ evs[m].kind = "put" /\ data'[k] = evs[m].entry
                       \/ /\ evs[m].kind = "expire" /\ data'[k] = NoEntry
                          /\ data[k] = evs[m].entry
    <3>1. CASE k \in ExpiredKeys
      <4>1. PICK m \in 1..Len(evs) : order[m] = k
        BY <2>5, <3>1
      <4> QED
        BY <2>2, <2>4, <2>5, <3>1, <4>1
    <3>2. CASE k \notin ExpiredKeys
      BY <2>2, <2>4, <3>2
    <3> QED
      BY <3>1, <3>2
  <2> QED
    BY <2>2, <2>3, <2>6, MirrorPublish
<1>3. ASSUME UNCHANGED <<queue, view, data>>, now' >= now,
             \A h \in subscribers' : Streaming(h)' => h \in subscribers /\ Streaming(h)
      PROVE  MirrorInv'
  <2> SUFFICES ASSUME NEW h \in subscribers', NEW k \in Keys, Streaming(h)'
               PROVE  Mirror(queue'[h], k, view'[h][k], data'[k], now')
    BY DEF MirrorInv
  <2>1. h \in Handlers /\ queue[h] \in Seq(Event) /\ now \in Nat /\ now' \in Nat
    BY DEF TypeOK
  <2>2. Mirror(queue[h], k, view[h][k], data[k], now) /\ data[k] \in Entry \cup {NoEntry}
    BY <1>3 DEF MirrorInv, TypeOK
  <2> QED
    BY <1>3, <2>1, <2>2, MirrorSame
<1>4. CASE WorkerExit \/ Close \/ CloseStreams \/ UNCHANGED vars
  BY <1>3, <1>4 DEF WorkerExit, Close, CloseStreams, vars, TypeOK, Streaming
<1>5. CASE Tick
  BY <1>3, <1>5 DEF Tick, TypeOK, Streaming
<1>6. ASSUME NEW h \in Handlers, HandlerNext(h)
      PROVE  MirrorInv'
  <2>1. CASE \/ StreamRequest(h) \/ SubscribeFails(h) \/ ExitSelect(h) \/ SubClose(h)
    BY <1>3, <2>1 DEF StreamRequest, SubscribeFails, ExitSelect, SubClose, Goto,
       TypeOK, Streaming
  <2>2. CASE WriteSnapshot(h) \/ CheckDone(h) \/ KeepAlive(h)
    BY <1>3, <2>2 DEF WriteSnapshot, CheckDone, KeepAlive, Goto, TypeOK, Streaming
  <2>3. ASSUME UNCHANGED <<data, now>>,
               \A g \in subscribers' \ {h} : Streaming(g)' => g \in subscribers /\ Streaming(g),
               \A g \in Handlers \ {h} : queue'[g] = queue[g] /\ view'[g] = view[g],
               \A k \in Keys : (h \in subscribers' /\ Streaming(h)') =>
                 Mirror(queue'[h], k, view'[h][k], data[k], now)
        PROVE  MirrorInv'
    BY <2>3 DEF MirrorInv, TypeOK
  <2>4. CASE Subscribe(h)
    <3>1. ASSUME NEW k \in Keys
          PROVE  Mirror(queue'[h], k, view'[h][k], data[k], now)
      <4>1. queue'[h] = <<>> /\ view'[h][k] = Get(k)
        BY <2>4 DEF Subscribe, TypeOK
      <4>2. data[k] = NoEntry \/ now >= data[k].expires => now >= data[k].expires
        BY DEF NoEntry, TypeOK
      <4> QED
        BY <4>1, <4>2 DEF Mirror, LastTells, ExpireFollows, ExpireFirst, ViewTells,
           Get, Present, Expired
    <3> QED
      BY <2>3, <2>4, <3>1 DEF Subscribe, Goto, TypeOK, Streaming
  <2>5. CASE Release(h)
    <3>1. h \notin subscribers'
      BY <2>5 DEF Release, SlotInv, Holding
    <3> QED
      BY <2>3, <2>5, <3>1 DEF Release, Goto, TypeOK, Streaming
  <2>6. CASE SendEvent(h)
    <3> DEFINE e == queue[h][1]
    <3>1. /\ queue[h] \in Seq(Event) /\ queue[h] # <<>>
          /\ queue' = [queue EXCEPT ![h] = Tail(queue[h])]
          /\ UNCHANGED <<data, now, subscribers>> /\ pc[h] = "select"
      BY <2>6 DEF SendEvent, TypeOK
    <3>2. /\ Head(queue[h]) = e /\ queue'[h] = Tail(queue[h])
          /\ 1 \in 1..Len(queue[h])
          /\ \A g \in Handlers \ {h} : queue'[g] = queue[g]
      BY <3>1, TailFacts DEF TypeOK
    <3>3. e \in Event /\ e.key \in Keys /\ e.entry \in Entry /\ e.kind \in {"put", "expire"}
      <4>1. e \in Event
        BY <3>1, <3>2
      <4> QED
        BY <4>1 DEF Event
    <3>4. CASE Goto(h, "closing") /\ UNCHANGED view
      BY <2>3, <3>1, <3>2, <3>4 DEF Goto, TypeOK, Streaming
    <3>5. ASSUME NEW v \in Fold(view[h][e.key], e),
                 view' = [view EXCEPT ![h][e.key] = v], Goto(h, "loop")
          PROVE  MirrorInv'
      <4>1. /\ view'[h][e.key] = v
            /\ \A k \in Keys \ {e.key} : view'[h][k] = view[h][k]
            /\ \A g \in Handlers \ {h} : view'[g] = view[g]
        BY <3>3, <3>5 DEF TypeOK
      <4>2. view[h][e.key] \in Entry \cup {NoEntry}
        BY <3>3 DEF TypeOK
      <4>3. /\ (e.kind = "put" /\ view[h][e.key].rev < e.entry.rev) =>
                 v = e.entry \/ (v = NoEntry /\ Expired(e.entry))
            /\ (e.kind = "expire" /\ view[h][e.key].rev \in {0, e.entry.rev}) => v = NoEntry
        BY <3>3, <3>5, <4>2, FoldCases
      <4>4. e.kind = "put" => view[h][e.key].rev < e.entry.rev
        BY <3>2 DEF QueueNewer, Newer
      <4>5. ASSUME NEW k \in Keys, h \in subscribers'
            PROVE  Mirror(queue'[h], k, view'[h][k], data[k], now)
        <5>1. Mirror(queue[h], k, view[h][k], data[k], now)
          BY <3>1, <4>5 DEF MirrorInv, Streaming
        <5>2. view[h][k] \in Entry \cup {NoEntry} /\ view'[h][k] \in Entry \cup {NoEntry}
          BY DEF TypeOK
        <5>3. e.key # k => view'[h][k] = view[h][k]
          BY <4>1
        <5>4. (e.key = k /\ e.kind = "put") =>
                \/ view'[h][k] = e.entry
                \/ view'[h][k] = NoEntry /\ now >= e.entry.expires
          BY <4>1, <4>3, <4>4 DEF Expired
        <5>5. (e.key = k /\ e.kind = "expire") =>
                ((view[h][k].rev = 0 \/ view[h][k].rev = e.entry.rev) => view'[h][k] = NoEntry)
          BY <4>1, <4>3
        <5>6. Mirror(Tail(queue[h]), k, view'[h][k], data[k], now)
          BY <3>1, <5>1, <5>2, <5>3, <5>4, <5>5, MirrorTaken
        <5> QED
          BY <3>2, <5>6
      <4> QED
        BY <2>3, <3>1, <3>2, <3>5, <4>1, <4>5 DEF Goto, TypeOK, Streaming
    <3> QED
      BY <2>6, <3>2, <3>4, <3>5 DEF SendEvent
  <2>7. ASSUME NEW k \in Keys, ViewerTick(h, k)
        PROVE  MirrorInv'
    <3>1. /\ UNCHANGED <<data, now, subscribers, queue, pc>>
          /\ view' = [view EXCEPT ![h][k] = NoEntry]
          /\ now >= view[h][k].expires
      BY <2>7 DEF ViewerTick, Expired
    <3>2. /\ view'[h][k] = NoEntry
          /\ \A l \in Keys \ {k} : view'[h][l] = view[h][l]
          /\ \A g \in Handlers \ {h} : view'[g] = view[g]
      BY <3>1 DEF TypeOK
    <3>3. ASSUME NEW l \in Keys, h \in subscribers', Streaming(h)'
          PROVE  Mirror(queue'[h], l, view'[h][l], data[l], now)
      <4>1. Mirror(queue[h], l, view[h][l], data[l], now)
        BY <3>1, <3>3 DEF MirrorInv, Streaming
      <4>2. CASE l = k
        <5>1. NoEntry.rev = 0
          BY DEF NoEntry
        <5> QED
          BY <3>1, <3>2, <4>1, <4>2, <5>1 DEF Mirror, ExpireFirst, ViewTells
      <4>3. CASE l # k
        BY <3>1, <3>2, <4>1, <4>3
      <4> QED
        BY <4>2, <4>3
    <3> QED
      BY <2>3, <3>1, <3>2, <3>3 DEF Streaming
  <2> QED
    BY <1>6, <2>1, <2>2, <2>4, <2>5, <2>6, <2>7 DEF HandlerNext
<1> QED
  BY <1>1, <1>2, <1>4, <1>5, <1>6 DEF Next, StoreNext

LEMMA MirrorFollows == TypeOK /\ MirrorInv => StreamMirror
<1> SUFFICES ASSUME TypeOK, MirrorInv, NEW h \in subscribers, NEW k \in Keys,
                    Streaming(h), Drained(h, k)
             PROVE  \/ view[h][k] = data[k]
                    \/ view[h][k] = NoEntry /\ Expired(data[k])
  BY DEF StreamMirror
<1>1. Len(queue[h]) \in Nat /\ DOMAIN queue[h] = 1..Len(queue[h])
  BY RevisionTypes DEF TypeOK
<1>2. Between(queue[h], k, 0, Len(queue[h]) + 1)
  <2> SUFFICES ASSUME NEW m \in 1..Len(queue[h]) PROVE queue[h][m].key # k
    BY <1>1 DEF Between
  <2> QED
    BY <1>1 DEF Drained
<1> QED
  BY <1>2 DEF MirrorInv, Mirror, ViewTells, Expired

\* Whatever is written, swept, dropped and reconnected around it, an open
\* stream with nothing queued about a key shows that key as the store has
\* it: the hand-over from snapshot to events loses and repeats nothing.
THEOREM MirrorExact == Spec => []StreamMirror
<1>1. Init => QueueNewer /\ RevisionsBounded /\ MirrorInv /\ SlotInv
  <2> SUFFICES ASSUME Init PROVE QueueNewer /\ RevisionsBounded /\ MirrorInv /\ SlotInv
    OBVIOUS
  <2>1. Running = {} /\ Admitted = {} /\ subscribers = {}
    BY DEF Init, Running, Admitted
  <2>2. SlotInv
    BY <2>1, FS_EmptySet, StreamAssumption DEF SlotInv, Init
  <2> QED
    BY <2>1, <2>2 DEF Init, QueueNewer, Newer, RevisionsBounded, NoEntry, MirrorInv
<1> QED
  BY <1>1, SlotStep, NewerStep, MirrorStep, MirrorFollows, TypeCorrect, PTL DEF Spec
-----------------------------------------------------------------------------
(* What may take an entry from a reader.                                   *)

\* An entry is written over by a Put, swept once it has expired, or stays.
LEMMA EntryChanges ==
  ASSUME TypeOK, [Next]_vars, NEW k \in Keys
  PROVE  /\ \/ data'[k] = data[k]
            \/ data'[k].rev = sequence + 1
            \/ Present(k) /\ Expired(data[k])
         /\ now' \in Nat /\ now' >= now
<1>1. ASSUME NEW j \in Keys, NEW size \in Sizes, NEW ttl \in TTLs, Put(j, size, ttl)
      PROVE  now' = now /\ (data'[k] = data[k] \/ data'[k].rev = sequence + 1)
  <2> DEFINE e == [size |-> size, expires |-> now + ttl, rev |-> sequence + 1]
  <2>1. data' = [data EXCEPT ![j] = e] /\ now' = now
    BY <1>1 DEF Put, NextRevision
  <2>2. e.rev = sequence + 1
    OBVIOUS
  <2>3. DOMAIN data = Keys
    BY DEF TypeOK
  <2> HIDE DEF e
  <2> QED
    BY <2>1, <2>2, <2>3
<1>2. CASE cleanupExpired
  <2>1. now' = now /\ data' = [l \in Keys |-> IF l \in ExpiredKeys THEN NoEntry ELSE data[l]]
    BY <1>2 DEF cleanupExpired
  <2>2. now' \in Nat /\ now' >= now
    BY <2>1 DEF TypeOK
  <2>3. data'[k] = data[k] \/ (Present(k) /\ Expired(data[k]))
    BY <2>1 DEF ExpiredKeys
  <2> QED
    BY <2>2, <2>3
<1>3. CASE Tick
  BY <1>3 DEF Tick, TypeOK
<1>4. CASE WorkerExit \/ Close \/ CloseStreams \/ UNCHANGED vars
  BY <1>4 DEF WorkerExit, Close, CloseStreams, vars, TypeOK
<1>5. ASSUME NEW h \in Handlers, HandlerNext(h)
      PROVE  UNCHANGED <<data, now>>
  BY <1>5 DEF HandlerNext, StreamRequest, Subscribe, SubscribeFails, WriteSnapshot, CheckDone, SendEvent,
              ExitSelect, KeepAlive, SubClose, Release, ViewerTick
<1> QED
  BY <1>1, <1>2, <1>3, <1>4, <1>5 DEF Next, StoreNext, TypeOK

\* ReadableUntilExpiry: what Get returns it returns unchanged until the expiry,
\* unless a later Put replaces it: the sweep (cleanupExpired) and Close take
\* nothing that a reader could still have.
THEOREM ReadableToTheEnd == Spec => ReadableUntilExpiry
<1>1. Init => QueueNewer /\ RevisionsBounded
  BY DEF Init, QueueNewer, Newer, RevisionsBounded, NoEntry
<1>2. ASSUME TypeOK, TypeOK', RevisionsBounded, [Next]_vars, NEW k \in Keys, Get(k) # NoEntry
      PROVE  Get(k)' = Get(k) \/ data[k]'.rev > data[k].rev \/ now' >= data[k].expires
  <2>1. Present(k) /\ ~Expired(data[k]) /\ Get(k) = data[k]
    BY <1>2 DEF Get
  <2>2. data[k].expires \in Int /\ data[k].rev \in Nat /\ sequence \in Nat /\ data[k].rev <= sequence
    <3>1. data[k] \in Entry /\ now \in Nat
      BY <1>2, <2>1 DEF Present, TypeOK
    <3>2. data[k].expires \in Nat
      BY <3>1 DEF Entry
    <3> QED
      BY <1>2, <3>2, RevisionTypes DEF RevisionsBounded
  <2>3. CASE data'[k] = data[k]
    <3>1. now' \in Nat
      BY <1>2, EntryChanges
    <3> QED
      BY <2>1, <2>2, <2>3, <3>1 DEF Get, Present, Expired
  <2>4. CASE data'[k].rev = sequence + 1
    BY <2>2, <2>4
  <2> QED
    BY <1>2, <2>1, <2>3, <2>4, EntryChanges
<1>3. TypeOK /\ TypeOK' /\ RevisionsBounded /\ [Next]_vars
        => [\A k \in Keys : Get(k) # NoEntry => \/ Get(k)' = Get(k)
                                                \/ data[k]'.rev > data[k].rev
                                                \/ now' >= data[k].expires]_vars
  BY <1>2
<1> QED
  BY <1>1, <1>3, NewerStep, TypeCorrect, PTL DEF Spec, ReadableUntilExpiry
-----------------------------------------------------------------------------
(***************************************************************************)
(* The byte counter.  The sum it is compared with is a fold over a finite  *)
(* set, so its laws need an induction; the one used takes no predicate as  *)
(* a parameter: proper inclusion is well founded on the subsets of a       *)
(* finite set, so a nonempty set of counterexamples has a minimal one.     *)
(***************************************************************************)
\* The bytes of the entries that the map d holds for the keys of S.
SizeSum(d, S) == MapThenSumSet(LAMBDA k : d[k].size, S)

\* The element that the fold takes next, and the function it computes.
Picked(s) == CHOOSE x \in s : TRUE

IsSum(f, d, S) ==
  f = [s \in SUBSET S |->
         IF s = {} THEN 0 ELSE d[Picked(s)].size + f[s \ {Picked(s)}]]

\* What the fold of the community modules unfolds to.
LEMMA SumIs ==
  ASSUME NEW d, NEW S
  PROVE  SizeSum(d, S) = (CHOOSE f : IsSum(f, d, S))[S]
BY DEF SizeSum, MapThenSumSet, MapThenFoldSet, IsSum, Picked

\* Among sets of subsets of a finite set one is minimal for inclusion.
LEMMA Minimal ==
  ASSUME NEW S, IsFiniteSet(S), NEW B \in SUBSET (SUBSET S), B # {}
  PROVE  \E T \in B : \A U \in B : U \subseteq T => U = T
<1>1. IsWellFoundedOn(StrictSubsetOrdering(S), SUBSET S)
  <2>1. FiniteSubsetsOf(S) = SUBSET S
    BY FS_Subset DEF FiniteSubsetsOf
  <2> QED
    BY <2>1, FS_StrictSubsetOrderingWellFounded
<1>2. PICK T \in B : \A U \in B : ~ (<<U, T>> \in StrictSubsetOrdering(S))
  BY <1>1, WFMin
<1>3. ASSUME NEW U \in B, U \subseteq T, U # T
      PROVE  FALSE
  BY <1>2, <1>3 DEF StrictSubsetOrdering
<1> QED
  BY <1>3

LEMMA PickedIn == ASSUME NEW s, s # {} PROVE Picked(s) \in s
BY DEF Picked

LEMMA SumStep ==
  ASSUME NEW d, NEW S, NEW f, IsSum(f, d, S), NEW s \in SUBSET S
  PROVE  f[s] = IF s = {} THEN 0 ELSE d[Picked(s)].size + f[s \ {Picked(s)}]
BY DEF IsSum

\* Two such functions agree where both are defined.
LEMMA SumUnique ==
  ASSUME NEW d, NEW S, IsFiniteSet(S), NEW T \in SUBSET S,
         NEW f, IsSum(f, d, S), NEW g, IsSum(g, d, T)
  PROVE  \A s \in SUBSET T : f[s] = g[s]
<1> DEFINE B == {s \in SUBSET T : f[s] # g[s]}
<1> SUFFICES ASSUME B # {} PROVE FALSE
  OBVIOUS
<1>1. IsFiniteSet(T)
  BY FS_Subset
<1>2. PICK s \in B : \A u \in B : u \subseteq s => u = s
  <2>1. B \in SUBSET (SUBSET T)
    OBVIOUS
  <2> HIDE DEF B
  <2> QED
    BY <1>1, <2>1, Minimal
<1>3. s \in SUBSET T /\ s \in SUBSET S /\ f[s] # g[s]
  OBVIOUS
<1>4. CASE s = {}
  BY <1>3, <1>4, SumStep
<1>5. CASE s # {}
  <2> DEFINE u == s \ {Picked(s)}
  <2>1. u \in SUBSET T /\ u # s /\ u \subseteq s
    BY <1>3, <1>5, PickedIn
  <2>2. f[u] = g[u]
    BY <1>2, <2>1
  <2>3. f[s] = d[Picked(s)].size + f[u] /\ g[s] = d[Picked(s)].size + g[u]
    BY <1>3, <1>5, SumStep
  <2> QED
    BY <1>3, <2>2, <2>3
<1> QED
  BY <1>4, <1>5

LEMMA SumOfPart ==
  ASSUME NEW d, NEW S, IsFiniteSet(S), NEW f, IsSum(f, d, S),
         NEW T \in SUBSET S, \E g : IsSum(g, d, T)
  PROVE  f[T] = SizeSum(d, T)
<1>1. IsSum(CHOOSE h : IsSum(h, d, T), d, T)
  OBVIOUS
<1> DEFINE g == CHOOSE h : IsSum(h, d, T)
<1>2. IsSum(g, d, T) /\ SizeSum(d, T) = g[T]
  BY <1>1, SumIs
<1> HIDE DEF g
<1>3. \A s \in SUBSET T : f[s] = g[s]
  BY <1>2, SumUnique
<1> QED
  BY <1>2, <1>3

\* The recursion has a solution on every finite set.
LEMMA SumExists ==
  ASSUME NEW d, NEW S, IsFiniteSet(S)
  PROVE  \E f : IsSum(f, d, S)
<1> DEFINE B == {T \in SUBSET S : ~ \E f : IsSum(f, d, T)}
<1> SUFFICES ASSUME B # {} PROVE FALSE
  OBVIOUS
<1>2. PICK T \in B : \A u \in B : u \subseteq T => u = T
  <2>1. B \in SUBSET (SUBSET S)
    OBVIOUS
  <2> HIDE DEF B
  <2> QED
    BY <2>1, Minimal
<1>3. T \in SUBSET S /\ ~ \E f : IsSum(f, d, T)
  OBVIOUS
<1>4. \A u \in SUBSET T : u # T => \E f : IsSum(f, d, u)
  BY <1>2, <1>3
<1> HIDE DEF B
<1>5. ASSUME NEW s \in SUBSET T, s # T
      PROVE  SizeSum(d, s) = IF s = {} THEN 0 ELSE d[Picked(s)].size + SizeSum(d, s \ {Picked(s)})
  <2>1. PICK f : IsSum(f, d, s)
    BY <1>4, <1>5
  <2>2. IsFiniteSet(s)
    BY <1>3, FS_Subset
  <2>3. f[s] = SizeSum(d, s)
    BY <2>1, <2>2, SumOfPart
  <2>4. f[s] = IF s = {} THEN 0 ELSE d[Picked(s)].size + f[s \ {Picked(s)}]
    BY <2>1, SumStep
  <2>5. CASE s # {}
    <3>1. s \ {Picked(s)} \in SUBSET T /\ s \ {Picked(s)} # T
      BY <2>5, PickedIn, <1>5
    <3>2. f[s \ {Picked(s)}] = SizeSum(d, s \ {Picked(s)})
      <4>1. s \ {Picked(s)} \in SUBSET s
        OBVIOUS
      <4>2. \E g : IsSum(g, d, s \ {Picked(s)})
        BY <1>4, <3>1
      <4> QED
        BY <2>1, <2>2, <4>1, <4>2, SumOfPart
    <3> QED
      BY <2>3, <2>4, <3>2
  <2> QED
    BY <2>3, <2>4, <2>5
<1> DEFINE f == [s \in SUBSET T |->
                   IF s = {} THEN 0 ELSE d[Picked(s)].size + SizeSum(d, s \ {Picked(s)})]
<1>6. ASSUME NEW s \in SUBSET T, s # {}
      PROVE  f[s \ {Picked(s)}] = SizeSum(d, s \ {Picked(s)})
  <2>1. s \ {Picked(s)} \in SUBSET T /\ s \ {Picked(s)} # T
    BY <1>6, PickedIn
  <2> QED
    BY <1>5, <2>1
<1>7. f = [s \in SUBSET T |-> IF s = {} THEN 0 ELSE d[Picked(s)].size + f[s \ {Picked(s)}]]
  BY <1>6
<1>8. IsSum(f, d, T)
  BY <1>7 DEF IsSum
<1> QED
  BY <1>3, <1>8

\* So the fold does take one element after another.
LEMMA SumOf ==
  ASSUME NEW d, NEW S, IsFiniteSet(S)
  PROVE  SizeSum(d, S) = IF S = {} THEN 0 ELSE d[Picked(S)].size + SizeSum(d, S \ {Picked(S)})
<1>1. PICK f : IsSum(f, d, S)
  BY SumExists
<1>2. \A T \in SUBSET S : f[T] = SizeSum(d, T)
  <2> SUFFICES ASSUME NEW T \in SUBSET S PROVE f[T] = SizeSum(d, T)
    OBVIOUS
  <2>1. \E g : IsSum(g, d, T)
    BY SumExists, FS_Subset
  <2> QED
    BY <1>1, <2>1, SumOfPart
<1>3. f[S] = IF S = {} THEN 0 ELSE d[Picked(S)].size + f[S \ {Picked(S)}]
  BY <1>1, SumStep
<1>4. S \in SUBSET S /\ S \ {Picked(S)} \in SUBSET S
  OBVIOUS
<1> QED
  BY <1>2, <1>3, <1>4

LEMMA SumType ==
  ASSUME NEW d, NEW S, IsFiniteSet(S), \A k \in S : d[k].size \in Nat
  PROVE  SizeSum(d, S) \in Nat
<1> DEFINE B == {T \in SUBSET S : SizeSum(d, T) \notin Nat}
<1> SUFFICES ASSUME B # {} PROVE FALSE
  OBVIOUS
<1>2. PICK T \in B : \A u \in B : u \subseteq T => u = T
  <2>1. B \in SUBSET (SUBSET S)
    OBVIOUS
  <2> HIDE DEF B
  <2> QED
    BY <2>1, Minimal
<1>3. T \in SUBSET S /\ SizeSum(d, T) \notin Nat /\ IsFiniteSet(T)
  BY FS_Subset
<1>4. CASE T = {}
  <2>1. SizeSum(d, T) = 0
    BY <1>3, <1>4, SumOf
  <2> QED
    BY <1>3, <2>1
<1>5. CASE T # {}
  <2>1. Picked(T) \in T
    BY <1>5, PickedIn
  <2>2. SizeSum(d, T \ {Picked(T)}) \in Nat
    BY <1>2, <1>3, <2>1
  <2>3. SizeSum(d, T) = d[Picked(T)].size + SizeSum(d, T \ {Picked(T)})
    BY <1>3, <1>5, SumOf
  <2>4. d[Picked(T)].size \in Nat
    BY <1>3, <2>1
  <2> QED
    BY <1>3, <2>2, <2>3, <2>4
<1> QED
  BY <1>4, <1>5

\* The order in which it takes them does not matter.
LEMMA SumTaking ==
  ASSUME NEW d, NEW S, IsFiniteSet(S), \A k \in S : d[k].size \in Nat
  PROVE  \A x \in S : SizeSum(d, S) = d[x].size + SizeSum(d, S \ {x})
<1> DEFINE Fails(T) == \E x \in T : SizeSum(d, T) # d[x].size + SizeSum(d, T \ {x})
           B == {T \in SUBSET S : Fails(T)}
<1> SUFFICES ASSUME B # {} PROVE FALSE
  OBVIOUS
<1>1. PICK T \in B : \A u \in B : u \subseteq T => u = T
  <2>1. B \in SUBSET (SUBSET S)
    OBVIOUS
  <2> HIDE DEF B
  <2> QED
    BY <2>1, Minimal
<1>2. T \in SUBSET S /\ Fails(T)
  OBVIOUS
<1>3. \A u \in SUBSET T : u # T => ~Fails(u)
  BY <1>1, <1>2
<1> HIDE DEF B
<1>4. PICK x \in T : SizeSum(d, T) # d[x].size + SizeSum(d, T \ {x})
  BY <1>2
<1> DEFINE y == Picked(T)
           u == (T \ {x}) \ {y}
<1>5. y \in T
  BY <1>4, PickedIn
<1>6. IsFiniteSet(T) /\ IsFiniteSet(u)
  BY <1>2, FS_Subset
<1>7. SizeSum(d, T) = d[y].size + SizeSum(d, T \ {y})
  BY <1>4, <1>6, SumOf
<1>8. CASE y # x
  <2>1. SizeSum(d, T \ {y}) = d[x].size + SizeSum(d, (T \ {y}) \ {x})
    <3>1. x \in T \ {y} /\ T \ {y} \in SUBSET T /\ T \ {y} # T
      BY <1>4, <1>5, <1>8
    <3> QED
      BY <1>3, <3>1
  <2>2. SizeSum(d, T \ {x}) = d[y].size + SizeSum(d, u)
    <3>1. y \in T \ {x} /\ T \ {x} \in SUBSET T /\ T \ {x} # T
      BY <1>4, <1>5, <1>8
    <3> QED
      BY <1>3, <3>1
  <2>3. SizeSum(d, (T \ {y}) \ {x}) = SizeSum(d, u)
    <3>1. (T \ {y}) \ {x} = u
      OBVIOUS
    <3> QED
      BY <3>1
  <2>4. SizeSum(d, u) \in Nat /\ d[x].size \in Nat /\ d[y].size \in Nat
    BY <1>2, <1>4, <1>5, <1>6, SumType
  <2> HIDE DEF y, u
  <2>5. SizeSum(d, T) = d[y].size + (d[x].size + SizeSum(d, u))
    BY <1>7, <2>1, <2>3
  <2>6. d[x].size + SizeSum(d, T \ {x}) = d[x].size + (d[y].size + SizeSum(d, u))
    BY <2>2
  <2>7. \A a, b, c \in Nat : a + (b + c) = b + (a + c)
    OBVIOUS
  <2> QED
    BY <1>4, <2>4, <2>5, <2>6, <2>7
<1> QED
  BY <1>4, <1>7, <1>8

\* Only the sizes of the entries of S count.
LEMMA SumSame ==
  ASSUME NEW d, NEW e, NEW S, IsFiniteSet(S), \A k \in S : d[k].size = e[k].size
  PROVE  SizeSum(d, S) = SizeSum(e, S)
<1> DEFINE B == {T \in SUBSET S : SizeSum(d, T) # SizeSum(e, T)}
<1> SUFFICES ASSUME B # {} PROVE FALSE
  OBVIOUS
<1>1. PICK T \in B : \A u \in B : u \subseteq T => u = T
  <2>1. B \in SUBSET (SUBSET S)
    OBVIOUS
  <2> HIDE DEF B
  <2> QED
    BY <2>1, Minimal
<1>2. T \in SUBSET S /\ SizeSum(d, T) # SizeSum(e, T) /\ IsFiniteSet(T)
  BY FS_Subset
<1>3. CASE T = {}
  BY <1>2, <1>3, SumOf
<1>4. CASE T # {}
  <2>1. Picked(T) \in T
    BY <1>4, PickedIn
  <2>2. SizeSum(d, T \ {Picked(T)}) = SizeSum(e, T \ {Picked(T)})
    BY <1>1, <1>2, <2>1
  <2>3. /\ SizeSum(d, T) = d[Picked(T)].size + SizeSum(d, T \ {Picked(T)})
        /\ SizeSum(e, T) = e[Picked(T)].size + SizeSum(e, T \ {Picked(T)})
    BY <1>2, <1>4, SumOf
  <2> QED
    BY <1>2, <2>1, <2>2, <2>3
<1> QED
  BY <1>3, <1>4

\* Taking away many entries takes away their sum.
LEMMA SumWithout ==
  ASSUME NEW d, NEW S, IsFiniteSet(S), \A k \in S : d[k].size \in Nat, NEW R \in SUBSET S
  PROVE  SizeSum(d, S \ R) = SizeSum(d, S) - SizeSum(d, R)
<1> DEFINE B == {T \in SUBSET S : SizeSum(d, S \ T) # SizeSum(d, S) - SizeSum(d, T)}
<1> SUFFICES ASSUME B # {} PROVE FALSE
  OBVIOUS
<1>1. PICK T \in B : \A u \in B : u \subseteq T => u = T
  <2>1. B \in SUBSET (SUBSET S)
    OBVIOUS
  <2> HIDE DEF B
  <2> QED
    BY <2>1, Minimal
<1>2. /\ T \in SUBSET S /\ IsFiniteSet(T) /\ IsFiniteSet(S \ T)
      /\ SizeSum(d, S \ T) # SizeSum(d, S) - SizeSum(d, T)
  BY FS_Subset
<1>3. \A U \in SUBSET S : SizeSum(d, U) \in Nat
  BY SumType, FS_Subset
<1>4. CASE T = {}
  <2>1. SizeSum(d, T) = 0 /\ S \ T = S
    BY <1>2, <1>4, SumOf
  <2>2. SizeSum(d, S) \in Nat /\ SizeSum(d, S \ T) = SizeSum(d, S)
    BY <2>1, SumType
  <2> HIDE DEF B
  <2> QED
    BY <1>2, <2>1, <2>2
<1>5. CASE T # {}
  <2> DEFINE x == Picked(T)
             U == T \ {x}
  <2>1. x \in T /\ U \in SUBSET S
    BY <1>2, <1>5, PickedIn
  <2>2. SizeSum(d, S \ U) = SizeSum(d, S) - SizeSum(d, U)
    BY <1>1, <1>2, <2>1
  <2>3. SizeSum(d, T) = d[x].size + SizeSum(d, U)
    BY <1>2, <1>5, SumOf
  <2>4. SizeSum(d, S \ U) = d[x].size + SizeSum(d, S \ T)
    <3>1. x \in S \ U /\ (S \ U) \ {x} = S \ T /\ S \ U \in SUBSET S
      BY <1>2, <2>1
    <3>2. IsFiniteSet(S \ U)
      BY <3>1, FS_Subset
    <3> HIDE DEF x, U
    <3> QED
      BY <3>1, <3>2, SumTaking
  <2>5. d[x].size \in Nat /\ SizeSum(d, U) \in Nat /\ SizeSum(d, S) \in Nat /\ SizeSum(d, S \ T) \in Nat
    <3>1. S \in SUBSET S /\ S \ T \in SUBSET S
      OBVIOUS
    <3> QED
      BY <1>2, <1>3, <2>1, <3>1
  <2> HIDE DEF B, x, U
  <2> QED
    BY <1>2, <2>2, <2>3, <2>4, <2>5
<1> QED
  BY <1>4, <1>5

\* The keys of a map d that hold an entry.
Filled(d) == {k \in Keys : d[k] # NoEntry}

\* Accounting over the map alone.
Counted ==
  /\ currentBytes = SizeSum(data, Filled(data))
  /\ MaxBytes > 0 => currentBytes <= MaxBytes

LEMMA CountedIs == Accounting <=> Counted
BY DEF Accounting, Counted, GetStats, SizeSum, Filled, Present

LEMMA StoredSizes ==
  ASSUME TypeOK
  PROVE  /\ IsFiniteSet(Keys) /\ \A S \in SUBSET Keys : IsFiniteSet(S)
         /\ \A k \in Keys : data[k].size \in Nat
<1>1. IsFiniteSet(Keys)
  BY StoreAssumption
<1>2. \A k \in Keys : data[k] \in Entry \cup {NoEntry}
  BY DEF TypeOK
<1>3. \A k \in Keys : data[k].size \in Nat
  BY <1>2 DEF Entry, NoEntry
<1> QED
  BY <1>1, <1>3, FS_Subset

\* Put replaces one entry and the sweep removes many: both keep the count.
LEMMA CountedStep ==
  ASSUME TypeOK, TypeOK', Counted, [Next]_vars
  PROVE  Counted'
<1>1. ASSUME NEW k \in Keys, NEW size \in Sizes, NEW ttl \in TTLs, Put(k, size, ttl)
      PROVE  Counted'
  <2> DEFINE e == [size |-> size, expires |-> now + ttl, rev |-> sequence + 1]
             rest == Filled(data) \ {k}
  <2>1. /\ data' = [data EXCEPT ![k] = e] /\ currentBytes' = currentBytes - data[k].size + size
        /\ MaxBytes = 0 \/ currentBytes - data[k].size + size <= MaxBytes
    BY <1>1 DEF Put, NextRevision, Admits
  <2>2. e # NoEntry /\ e.size = size /\ size \in Nat
    BY StoreAssumption DEF NoEntry, TypeOK
  <2> HIDE DEF e
  <2>3. DOMAIN data = Keys
    BY DEF TypeOK
  <2>4. data'[k] = e /\ \A j \in Keys \ {k} : data'[j] = data[j]
    BY <2>1, <2>3
  <2>5. Filled(data') = rest \cup {k}
    BY <2>2, <2>4 DEF Filled
  <2>6. /\ IsFiniteSet(rest) /\ IsFiniteSet(rest \cup {k}) /\ IsFiniteSet(Filled(data))
        /\ rest \in SUBSET Keys
    <3>1. Filled(data) \in SUBSET Keys /\ rest \in SUBSET Keys /\ rest \cup {k} \in SUBSET Keys
      BY DEF Filled
    <3> QED
      BY <3>1, StoredSizes
  <2>7. \A j \in Keys : data[j].size \in Nat /\ data'[j].size \in Nat
    BY <2>2, <2>4, StoredSizes
  <2>8. SizeSum(data', rest) = SizeSum(data, rest)
    <3>1. PICK d : d = data'
      OBVIOUS
    <3>2. \A j \in rest : d[j].size = data[j].size
      BY <2>4, <2>6, <3>1
    <3>3. SizeSum(d, rest) = SizeSum(data, rest)
      BY <2>6, <3>2, SumSame
    <3> QED
      BY <3>1, <3>3
  <2>9. SizeSum(data', rest \cup {k}) = size + SizeSum(data, rest)
    <3>1. PICK d : d = data'
      OBVIOUS
    <3>2. \A j \in rest \cup {k} : d[j].size \in Nat
      BY <2>6, <2>7, <3>1
    <3>3. SizeSum(d, rest \cup {k}) = d[k].size + SizeSum(d, (rest \cup {k}) \ {k})
      BY <2>6, <3>2, SumTaking
    <3>4. (rest \cup {k}) \ {k} = rest
      OBVIOUS
    <3>5. d[k].size = size
      BY <2>2, <2>4, <3>1
    <3> QED
      BY <2>8, <3>1, <3>3, <3>4, <3>5
  <2>10. SizeSum(data, Filled(data)) = data[k].size + SizeSum(data, rest)
    <3>1. CASE k \in Filled(data)
      BY <2>6, <2>7, <3>1, SumTaking DEF Filled
    <3>2. CASE k \notin Filled(data)
      <4>1. rest = Filled(data) /\ data[k].size = 0
        BY <3>2 DEF Filled, NoEntry
      <4>2. SizeSum(data, rest) \in Nat
        BY <2>6, <2>7, SumType
      <4> QED
        BY <4>1, <4>2
    <3> QED
      BY <3>1, <3>2
  <2>11. SizeSum(data, rest) \in Nat
    BY <2>6, <2>7, SumType
  <2> HIDE DEF rest
  <2>12. currentBytes = data[k].size + SizeSum(data, rest)
    BY <2>10 DEF Counted
  <2>13. currentBytes' = size + SizeSum(data, rest)
    BY <2>1, <2>2, <2>7, <2>11, <2>12
  <2>14. currentBytes' = SizeSum(data, Filled(data))'
    BY <2>5, <2>9, <2>13
  <2>15. MaxBytes > 0 => currentBytes' <= MaxBytes
    BY <2>1
  <2> QED
    BY <2>14, <2>15 DEF Counted
<1>2. CASE cleanupExpired
  <2>1. /\ data' = [k \in Keys |-> IF k \in ExpiredKeys THEN NoEntry ELSE data[k]]
        /\ currentBytes' = currentBytes - SizeSum(data, ExpiredKeys)
    BY <1>2 DEF cleanupExpired, SizeSum
  <2> DEFINE rest == Filled(data) \ ExpiredKeys
  <2>2. ExpiredKeys \in SUBSET Filled(data) /\ Filled(data) \in SUBSET Keys
    BY DEF ExpiredKeys, Filled, Present
  <2>3. Filled(data') = rest /\ \A k \in rest : data'[k] = data[k]
    BY <2>1, <2>2 DEF Filled
  <2>4. IsFiniteSet(Filled(data)) /\ IsFiniteSet(rest) /\ IsFiniteSet(ExpiredKeys)
    BY <2>2, StoredSizes
  <2>5. SizeSum(data', rest) = SizeSum(data, rest)
    <3>1. PICK d : d = data'
      OBVIOUS
    <3>2. \A j \in rest : d[j].size = data[j].size
      BY <2>3, <3>1
    <3>3. SizeSum(d, rest) = SizeSum(data, rest)
      BY <2>4, <3>2, SumSame
    <3> QED
      BY <3>1, <3>3
  <2>6. SizeSum(data, rest) = SizeSum(data, Filled(data)) - SizeSum(data, ExpiredKeys)
    BY <2>2, <2>4, StoredSizes, SumWithout
  <2>7. /\ SizeSum(data, Filled(data)) \in Nat /\ SizeSum(data, ExpiredKeys) \in Nat
    BY <2>2, <2>4, StoredSizes, SumType
  <2> HIDE DEF rest
  <2>8. currentBytes' = SizeSum(data, Filled(data))'
    BY <2>1, <2>3, <2>5, <2>6 DEF Counted
  <2>9. MaxBytes > 0 => currentBytes' <= MaxBytes
    BY <2>1, <2>7, StoreAssumption DEF Counted
  <2> QED
    BY <2>8, <2>9 DEF Counted
<1>3. ASSUME UNCHANGED <<data, currentBytes>>
      PROVE  Counted'
  BY <1>3 DEF Counted, Filled
<1>4. CASE WorkerExit \/ Close \/ Tick \/ CloseStreams \/ UNCHANGED vars
  BY <1>3, <1>4 DEF WorkerExit, Close, Tick, CloseStreams, vars
<1>5. ASSUME NEW h \in Handlers, HandlerNext(h)
      PROVE  UNCHANGED <<data, currentBytes>>
  BY <1>5 DEF HandlerNext, StreamRequest, Subscribe, SubscribeFails, WriteSnapshot, CheckDone, SendEvent,
              ExitSelect, KeepAlive, SubClose, Release, ViewerTick
<1> QED
  BY <1>1, <1>2, <1>3, <1>4, <1>5 DEF Next, StoreNext

\* Accounting: the running counter that Put and cleanupExpired adjust is the
\* sum of what the map holds, and a store with a capacity never exceeds it,
\* whatever is overwritten, expires and is swept.
THEOREM BytesAccounted == Spec => []Accounting
<1>1. Init => Counted
  <2> SUFFICES ASSUME Init PROVE Counted
    OBVIOUS
  <2>1. Filled(data) = {} /\ currentBytes = 0
    BY DEF Init, Filled
  <2>2. SizeSum(data, {}) = 0
    BY FS_EmptySet, SumOf
  <2>3. MaxBytes > 0 => 0 <= MaxBytes
    BY StoreAssumption
  <2> QED
    BY <2>1, <2>2, <2>3 DEF Counted
<1>2. TypeOK /\ TypeOK' /\ Counted /\ [Next]_vars => Counted'
  BY CountedStep
<1>3. Counted => Accounting
  BY CountedIs
<1> QED
  BY <1>1, <1>2, <1>3, TypeCorrect, PTL DEF Spec
=============================================================================
