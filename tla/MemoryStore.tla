----------------------------- MODULE MemoryStore -----------------------------
(***************************************************************************)
(* The in-memory key/value store of one node (internal/storage/memory.go), *)
(* its bounded live stream (internal/storage/stream.go), the HTTP handlers *)
(* that serve it (cmd/server/stream.go) and the viewer that folds a stream *)
(* into a picture of the store (sites/soph.stream/viewer.js).              *)
(*                                                                         *)
(* Every method of the store runs under one mutex, so each is one action.  *)
(* A stream handler is a goroutine: its steps interleave with everything   *)
(* else, and so does the viewer's own clock.  A payload is abstracted to   *)
(* its length; the revision the store gave it tells two payloads apart.    *)
(***************************************************************************)
EXTENDS Integers, Sequences, FiniteSets, SequencesExt

CONSTANTS
  Keys,               \* keys clients write
  KeyBytes,           \* the length of each key
  Sizes,              \* payload lengths clients write
  TTLs,               \* lifetimes after clampTTL, in clock ticks
  MaxBytes,           \* the store's capacity; 0 means unlimited
  Handlers,           \* /v1/stream requests that may run at the same time
  StreamSubscribers, StreamQueueSize, StreamSnapshotEntries,
  StreamSnapshotBytes, StreamPreviewBytes, StreamEventBytes,
  MaxSequence,        \* bound: writes in one behaviour
  MaxNow              \* bound: clock ticks in one behaviour

ASSUME StoreAssumption ==
  /\ KeyBytes \in [Keys -> Nat]
  /\ Sizes \subseteq Nat
  /\ TTLs \subseteq Nat
  /\ MaxBytes \in Nat
  /\ MaxSequence \in Nat /\ MaxNow \in Nat
  /\ IsFiniteSet(Keys)

ASSUME StreamAssumption ==
  /\ IsFiniteSet(Handlers)
  /\ StreamSubscribers \in Nat /\ StreamQueueSize \in Nat
  /\ StreamSnapshotEntries \in Nat /\ StreamSnapshotBytes \in Nat
  /\ StreamPreviewBytes \in Nat /\ StreamEventBytes \in Nat

VARIABLES
  data,          \* data[k]: the entry of k, NoEntry if the map has none
  now,           \* the store's clock
  currentBytes, sequence, closed,
  worker,        \* the cleanup goroutine is running
  subscribers,   \* handlers whose subscription is registered
  queue,         \* queue[h]: the events channel of h's subscription
  view,          \* view[h]: what h's viewer shows for each key
  pc,            \* where the goroutine of handler h is
  streamActive, streamDone

vars == <<data, now, currentBytes, sequence, closed, worker, subscribers,
          queue, view, pc, streamActive, streamDone>>

Entry   == [size : Nat, expires : Nat, rev : Nat \ {0}]
NoEntry == [size |-> 0, expires |-> 0, rev |-> 0]
Event   == [kind : {"put", "expire"}, key : Keys, entry : Entry]

PCs == {"idle", "rejected", "admitted", "snapshot", "loop", "select",
        "closing", "releasing"}

(***************************************************************************)
(* Reads.                                                                  *)
(***************************************************************************)
Present(k) == data[k] # NoEntry
Expired(e) == now >= e.expires

\* Get, GetWithMetadata: a hit only strictly before the entry's expiry.
Get(k) == IF Present(k) /\ ~Expired(data[k]) THEN data[k] ELSE NoEntry

\* Scan and Range: the keys a listing returns.
Scan == {k \in Keys : Present(k) /\ now < data[k].expires}

\* GetStats: keys in the map (the unswept ones too) and their bytes.
GetStats ==
  LET stored == {k \in Keys : Present(k)}
  IN <<Cardinality(stored), MapThenSumSet(LAMBDA k : data[k].size, stored)>>

(***************************************************************************)
(* The stream's admission and its events.                                  *)
(***************************************************************************)
\* Conservative JSON size of a preview: a key can expand sixfold, the
\* payload is cut to StreamPreviewBytes and base64 encoded.
previewCost(k, size) ==
  LET shown == IF size > StreamPreviewBytes THEN StreamPreviewBytes ELSE size
  IN KeyBytes[k] * 6 + ((shown + 2) \div 3) * 4 + 512

\* An expire event carries the key and the revision, and no payload.
PayloadOf(e) == IF e.kind = "put" THEN e.entry.size ELSE 0
Oversized(e) == previewCost(e.key, PayloadOf(e)) > StreamEventBytes

\* The first n events of evs reach the channel q.
Fits(q, evs, n) ==
  /\ Len(q) + n <= StreamQueueSize
  /\ \A i \in 1..n : ~Oversized(evs[i])

\* How many reach it: fitting prefixes are nested, so their number is the
\* length of the longest.
Accepted(h, evs) ==
  Cardinality({n \in 1..Len(evs) : Fits(queue[h], evs, n)})

Kept(h, evs) == Fits(queue[h], evs, Len(evs))

PublishSkipping(evs) ==   \* mutant: a full channel loses the event silently
  /\ UNCHANGED subscribers
  /\ queue' = [h \in Handlers |-> IF h \in subscribers /\ Kept(h, evs)
                                    THEN queue[h] \o evs ELSE queue[h]]

\* publishLocked, for the events of one critical section in their order: a
\* subscriber keeps the events up to the first that is oversized or finds its
\* channel full; there it is dropped, and later events pass it by.
publishLocked(evs) ==
  /\ subscribers' = {h \in subscribers : Kept(h, evs)}
  /\ queue' = [h \in Handlers |->
       IF h \notin subscribers THEN queue[h]
       ELSE IF Kept(h, evs) THEN queue[h] \o evs
       ELSE queue[h] \o SubSeq(evs, 1, Accepted(h, evs))]

(***************************************************************************)
(* Mutations of the store.                                                 *)
(***************************************************************************)
AdmitsBeforeAdding(k, size) ==   \* mutant: the new bytes are not counted
  MaxBytes = 0 \/ currentBytes - data[k].size <= MaxBytes

\* Put's answer ErrStoreFull changes nothing.
Admits(k, size) ==
  MaxBytes = 0 \/ currentBytes - data[k].size + size <= MaxBytes

StaleRevision(k) == sequence          \* mutant: numbered before m.sequence++

\* One sequence numbers the writes of all keys, and outlives the entries.
NextRevision(k) == sequence + 1

Put(k, size, ttl) ==
  /\ Admits(k, size)
  /\ sequence < MaxSequence
  /\ LET e == [size |-> size, expires |-> now + ttl, rev |-> NextRevision(k)]
     IN /\ data' = [data EXCEPT ![k] = e]
        /\ publishLocked(<<[kind |-> "put", key |-> k, entry |-> e]>>)
  /\ sequence' = sequence + 1
  /\ currentBytes' = currentBytes - data[k].size + size
  /\ UNCHANGED <<now, closed, worker, view, pc, streamActive, streamDone>>

SweepsEarly ==   \* mutant: an entry goes one tick before its expiry
  {k \in Keys : Present(k) /\ now + 1 >= data[k].expires}

\* The sweep deletes every expired entry under one lock, in map order: any
\* order of the keys.  The worker may sweep once more after Close, as select
\* picks at random between a tick and the closed channel.
ExpiredKeys == {k \in Keys : Present(k) /\ Expired(data[k])}
ExpireEvents(order) ==
  [i \in 1..Len(order) |->
     [kind |-> "expire", key |-> order[i], entry |-> data[order[i]]]]

cleanupExpired ==
  /\ worker
  /\ ExpiredKeys # {}
  /\ \E order \in SetToSeqs(ExpiredKeys) : publishLocked(ExpireEvents(order))
  /\ data' = [k \in Keys |-> IF k \in ExpiredKeys THEN NoEntry ELSE data[k]]
  /\ currentBytes' =
       currentBytes - MapThenSumSet(LAMBDA k : data[k].size, ExpiredKeys)
  /\ UNCHANGED <<now, sequence, closed, worker, view, pc, streamActive,
                 streamDone>>

WorkerQuits ==   \* mutant: the worker leaves its loop before Close
  /\ worker
  /\ worker' = FALSE
  /\ UNCHANGED <<data, now, currentBytes, sequence, closed, subscribers,
                 queue, view, pc, streamActive, streamDone>>

WorkerExit ==
  /\ worker /\ closed
  /\ worker' = FALSE
  /\ UNCHANGED <<data, now, currentBytes, sequence, closed, subscribers,
                 queue, view, pc, streamActive, streamDone>>

\* Close drops every subscriber; the map stays and Put still works.
Close ==
  /\ ~closed
  /\ closed' = TRUE
  /\ subscribers' = {}
  /\ UNCHANGED <<data, now, currentBytes, sequence, worker, queue, view, pc,
                 streamActive, streamDone>>

Tick ==
  /\ now < MaxNow
  /\ now' = now + 1
  /\ UNCHANGED <<data, currentBytes, sequence, closed, worker, subscribers,
                 queue, view, pc, streamActive, streamDone>>

(***************************************************************************)
(* The goroutine of one /v1/stream request.                                *)
(***************************************************************************)
Goto(h, label) == pc' = [pc EXCEPT ![h] = label]

\* streamActive.Add(1) and the test of its result are one step.
StreamRequest(h) ==
  /\ pc[h] = "idle"
  /\ streamActive' = streamActive + 1
  /\ Goto(h, IF streamActive + 1 > StreamSubscribers THEN "rejected"
                                                     ELSE "admitted")
  /\ UNCHANGED <<data, now, currentBytes, sequence, closed, worker,
                 subscribers, queue, view, streamDone>>

\* The snapshot fails as a whole when any live entry or their sum is too big.
SnapshotFits ==
  /\ Cardinality(Scan) <= StreamSnapshotEntries
  /\ \A k \in Scan : previewCost(k, data[k].size) <= StreamEventBytes
  /\ MapThenSumSet(LAMBDA k : previewCost(k, data[k].size), Scan)
       <= StreamSnapshotBytes

CanSubscribe ==
  /\ ~closed
  /\ Cardinality(subscribers) < StreamSubscribers
  /\ SnapshotFits

\* Subscribe: the snapshot and the registration share one critical section.
Subscribe(h) ==
  /\ pc[h] = "admitted"
  /\ CanSubscribe
  /\ subscribers' = subscribers \cup {h}
  /\ queue' = [queue EXCEPT ![h] = <<>>]
  /\ view' = [view EXCEPT ![h] = [k \in Keys |-> Get(k)]]
  /\ Goto(h, "snapshot")
  /\ UNCHANGED <<data, now, currentBytes, sequence, closed, worker,
                 streamActive, streamDone>>

SubscribeFails(h) ==
  /\ pc[h] = "admitted"
  /\ ~CanSubscribe
  /\ Goto(h, "releasing")
  /\ UNCHANGED <<data, now, currentBytes, sequence, closed, worker,
                 subscribers, queue, view, streamActive, streamDone>>

\* A write to the client that succeeds, and one that fails.
WriteSnapshot(h) ==
  /\ pc[h] = "snapshot"
  /\ \E next \in {"loop", "closing"} : Goto(h, next)
  /\ UNCHANGED <<data, now, currentBytes, sequence, closed, worker,
                 subscribers, queue, view, streamActive, streamDone>>

NeverDone(h) == FALSE   \* mutant: dropLocked leaves done open

\* sub.Done() is closed exactly when the subscription left the store's set.
Done(h) == h \notin subscribers

\* The first select of the loop: a dropped subscription ends the stream
\* before the queue is looked at.
CheckDone(h) ==
  /\ pc[h] = "loop"
  /\ Goto(h, IF Done(h) THEN "closing" ELSE "select")
  /\ UNCHANGED <<data, now, currentBytes, sequence, closed, worker,
                 subscribers, queue, view, streamActive, streamDone>>

\* How the viewer folds a put or an expire event into its entries.
Fold(shown, e) ==
  {v \in {shown, e.entry, NoEntry} :
     \/ e.kind = "put" /\ shown.rev >= e.entry.rev /\ v = shown
     \/ e.kind = "put" /\ shown.rev < e.entry.rev /\ v = e.entry
     \/ /\ e.kind = "put" /\ shown.rev < e.entry.rev
        /\ Expired(e.entry) /\ v = NoEntry
     \/ e.kind = "expire" /\ shown.rev = e.entry.rev /\ v = NoEntry
     \/ e.kind = "expire" /\ shown.rev # e.entry.rev /\ v = shown}

\* The second select takes an event and writes it; the write may fail.
SendEvent(h) ==
  /\ pc[h] = "select"
  /\ queue[h] # <<>>
  /\ queue' = [queue EXCEPT ![h] = Tail(@)]
  /\ LET e == Head(queue[h])
     IN \/ /\ \E v \in Fold(view[h][e.key], e) :
                view' = [view EXCEPT ![h][e.key] = v]
           /\ Goto(h, "loop")
        \/ /\ Goto(h, "closing")
           /\ UNCHANGED view
  /\ UNCHANGED <<data, now, currentBytes, sequence, closed, worker,
                 subscribers, streamActive, streamDone>>

\* The second select finds the client gone, the server stopping, the
\* subscription dropped, or fails to write a keepalive.
ExitSelect(h) ==
  /\ pc[h] = "select"
  /\ Goto(h, "closing")
  /\ UNCHANGED <<data, now, currentBytes, sequence, closed, worker,
                 subscribers, queue, view, streamActive, streamDone>>

\* A keepalive was written: the loop starts over.
KeepAlive(h) ==
  /\ pc[h] = "select"
  /\ Goto(h, "loop")
  /\ UNCHANGED <<data, now, currentBytes, sequence, closed, worker,
                 subscribers, queue, view, streamActive, streamDone>>

\* The deferred sub.Close: a no-op if the store already dropped it.
SubClose(h) ==
  /\ pc[h] = "closing"
  /\ subscribers' = subscribers \ {h}
  /\ Goto(h, "releasing")
  /\ UNCHANGED <<data, now, currentBytes, sequence, closed, worker, queue,
                 view, streamActive, streamDone>>

ReleaseLeaks(h) ==   \* mutant: the rejected path keeps its count
  /\ pc[h] \in {"rejected", "releasing"}
  /\ streamActive' = streamActive - (IF pc[h] = "rejected" THEN 0 ELSE 1)
  /\ Goto(h, "idle")
  /\ queue' = [queue EXCEPT ![h] = <<>>]
  /\ view' = [view EXCEPT ![h] = [k \in Keys |-> NoEntry]]
  /\ UNCHANGED <<data, now, currentBytes, sequence, closed, worker,
                 subscribers, streamDone>>

\* The deferred (or, for a rejected request, immediate) Add(-1).
Release(h) ==
  /\ pc[h] \in {"rejected", "releasing"}
  /\ streamActive' = streamActive - 1
  /\ Goto(h, "idle")
  /\ queue' = [queue EXCEPT ![h] = <<>>]
  /\ view' = [view EXCEPT ![h] = [k \in Keys |-> NoEntry]]
  /\ UNCHANGED <<data, now, currentBytes, sequence, closed, worker,
                 subscribers, streamDone>>

\* Shutdown of the server closes streamDone before it drains requests.
CloseStreams ==
  /\ ~streamDone
  /\ streamDone' = TRUE
  /\ UNCHANGED <<data, now, currentBytes, sequence, closed, worker,
                 subscribers, queue, view, pc, streamActive>>

\* The viewer's own timer: it drops an entry whose expiry has passed.  Its
\* clock is set from the node's messages, so it lags and never leads.
ViewerTick(h, k) ==
  /\ pc[h] \in {"loop", "select"}
  /\ view[h][k] # NoEntry
  /\ Expired(view[h][k])
  /\ view' = [view EXCEPT ![h][k] = NoEntry]
  /\ UNCHANGED <<data, now, currentBytes, sequence, closed, worker,
                 subscribers, queue, pc, streamActive, streamDone>>

Init ==
  /\ data = [k \in Keys |-> NoEntry]
  /\ now = 0 /\ currentBytes = 0 /\ sequence = 0
  /\ closed = FALSE /\ worker = TRUE
  /\ subscribers = {}
  /\ queue = [h \in Handlers |-> <<>>]
  /\ view = [h \in Handlers |-> [k \in Keys |-> NoEntry]]
  /\ pc = [h \in Handlers |-> "idle"]
  /\ streamActive = 0 /\ streamDone = FALSE

StoreNext ==
  \/ \E k \in Keys, size \in Sizes, ttl \in TTLs : Put(k, size, ttl)
  \/ cleanupExpired \/ WorkerExit \/ Close \/ Tick

HandlerNext(h) ==
  \/ StreamRequest(h) \/ Subscribe(h) \/ SubscribeFails(h)
  \/ WriteSnapshot(h) \/ CheckDone(h) \/ SendEvent(h) \/ ExitSelect(h)
  \/ KeepAlive(h) \/ SubClose(h) \/ Release(h)
  \/ \E k \in Keys : ViewerTick(h, k)

Next == StoreNext \/ CloseStreams \/ \E h \in Handlers : HandlerNext(h)

Spec == Init /\ [][Next]_vars

(***************************************************************************)
(* Properties.                                                             *)
(***************************************************************************)
\* Every variable has its type; Accounting says what the byte counter is.
TypeOK ==
  /\ data \in [Keys -> Entry \cup {NoEntry}]
  /\ now \in Nat /\ sequence \in Nat
  /\ closed \in BOOLEAN /\ worker \in BOOLEAN /\ streamDone \in BOOLEAN
  /\ subscribers \in SUBSET Handlers
  /\ queue \in [Handlers -> Seq(Event)]
  /\ view \in [Handlers -> [Keys -> Entry \cup {NoEntry}]]
  /\ pc \in [Handlers -> PCs]
  /\ streamActive \in Int

\* The running byte counter that Put and the sweep adjust is the sum of the
\* stored payloads, unswept ones included, and never passes the capacity:
\* an overwrite of an expired entry and a sweep subtract its bytes once.
Accounting ==
  /\ currentBytes = GetStats[2]
  /\ MaxBytes > 0 => currentBytes <= MaxBytes

\* No event about k is waiting for handler h.
Drained(h, k) == \A i \in DOMAIN queue[h] : queue[h][i].key # k

\* A viewer whose stream is open and still registered misses nothing: once no
\* event about a key is waiting, it shows the key's current revision, or
\* nothing where the entry is gone or has expired.  It rests on Subscribe
\* taking the snapshot and registering in one critical section, and on a
\* subscription being dropped as soon as one event cannot be queued.
Streaming(h) == pc[h] \in {"snapshot", "loop", "select"}
StreamMirror ==
  \A h \in subscribers, k \in Keys :
     (Streaming(h) /\ Drained(h, k)) =>
          \/ view[h][k] = data[k]
          \/ view[h][k] = NoEntry /\ Expired(data[k])

\* No stream ever shows an old revision over a newer one, not even the one
\* event that a handler may still send after its subscription was dropped:
\* queued writes of a key are newer than what is shown and than each other.
Newer(q, shown) ==
  \A i \in 1..Len(q) :
    /\ q[i].entry.rev <= sequence
    /\ q[i].kind = "put" =>
         /\ shown[q[i].key].rev < q[i].entry.rev
         /\ \A j \in 1..(i - 1) :
              q[j].key = q[i].key => q[j].entry.rev < q[i].entry.rev
QueueNewer == \A h \in Handlers : Newer(queue[h], view[h])

\* The counter of running stream requests is exact, so a slot can neither
\* leak nor be freed twice; and a request that passed the counter is never
\* turned away by the store's own limit on subscribers.
Running == {h \in Handlers : pc[h] # "idle"}
StreamSlots ==
  /\ streamActive = Cardinality(Running)
  /\ \A h \in Handlers :
       pc[h] = "admitted" => Cardinality(subscribers) < StreamSubscribers

\* An accepted write stays readable, unchanged, until its expiry or until a
\* newer write of the key: neither the sweep nor Close takes it early.
ReadableUntilExpiry ==
  [][\A k \in Keys :
       Get(k) # NoEntry => \/ Get(k)' = Get(k)
                           \/ data[k]'.rev > data[k].rev
                           \/ now' >= data[k].expires]_vars

(***************************************************************************)
(* Liveness.  A handler's goroutine is always scheduled and each of its    *)
(* writes ends by its 5 second deadline; Go's select chooses uniformly     *)
(* among the ready cases, so a closed streamDone cannot be passed over for *)
(* ever; the cleanup ticker fires every 30 seconds.  Nothing obliges a     *)
(* client to leave or an operator to stop the node.                        *)
(***************************************************************************)
HandlerStep(h) ==
  \/ Subscribe(h) \/ SubscribeFails(h) \/ WriteSnapshot(h) \/ CheckDone(h)
  \/ SendEvent(h) \/ ExitSelect(h) \/ KeepAlive(h) \/ SubClose(h)
  \/ Release(h)

Fairness ==
  /\ \A h \in Handlers : /\ WF_vars(HandlerStep(h))
                         /\ SF_vars(streamDone /\ ExitSelect(h))
  /\ WF_vars(cleanupExpired)

LiveSpec == Spec /\ Fairness

\* A stream that the store dropped (a full queue, an oversized event, Close)
\* or that the shutdown asked to stop ends and gives its slot back.
StreamsEnd ==
  \A h \in Handlers :
     /\ (Streaming(h) /\ h \notin subscribers) ~> (pc[h] = "idle")
     /\ (streamDone /\ pc[h] # "idle") ~> (pc[h] = "idle")

\* The bytes of an expired entry are reclaimed while the worker runs.
ExpiredReclaimed ==
  \A k \in Keys, r \in 1..MaxSequence :
     (data[k].rev = r /\ Expired(data[k])) ~> (data[k].rev # r \/ closed)
=============================================================================
