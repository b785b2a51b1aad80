# Sopholeth: a TLA+ verification project

Sopholeth is a network of nodes that hold short-lived key/value payloads in
memory, replicate writes by gossip inside an enclave, stream the local store to
viewers, and find each other through seeds or through metadata an offline
authority signs. This directory holds TLA+ modules translated from the Go (and,
for the stream viewer, JavaScript) source, TLC configurations that check them
on small instances, and TLAPS proofs for every value of the constants.
`PROJECT.json` lists the components, the runs, the mutants that show each
property can fail, the source lines behind each definition, the hazards and the
theorems.

## 1. Inventory

| Component | State | Operations | Hard behaviour | What makes it correct |
|---|---|---|---|---|
| Payload store (`internal/storage/memory.go`) | map of entries, byte counter, sequence, closed flag, subscribers | Put, Get, GetWithMetadata, Scan, Range, GetStats, the 30 s sweep, Close | overwrite of expired but unswept entries, sweep against reads | the counter equals the stored bytes and respects the capacity; an accepted write stays readable until it expires |
| Live stream (`internal/storage/stream.go`, `cmd/server/stream.go`, `sites/soph.stream/viewer.js`) | subscriptions with bounded queues, slot counter, the viewer's entries | Subscribe, publishLocked, dropLocked, the handler's two selects, the viewer's fold and timer | overflow while an event is being written, late events of dropped streams, shutdown | a registered stream misses nothing; slots never leak; dropped streams end |
| Replication (`internal/cluster/node.go`, `internal/gossip/protocol.go`) | pendingWrites, dedup cache, store, messages | Put, handlePutMessage, handleAckMessage, BroadcastToEnclave, ForwardToEnclave, MarkSeen, cleanup | concurrent writes, duplicate, late and lost messages, full replicas, peer tables that change under a write | a confirmed write is held by its quorum; every Put returns once and forgets its entry; a write is applied once per node |
| Peer table (`internal/gossip/protocol.go`, `bindings.go`) | peers, failure counts, root pins | addPeer, SetRootBindings, removePeer, handlePong, pingPeers | a ping round interleaves with referrals, PONGs and manifests | pins hold, referrals never move a peer, counts stay in step with the table, dead peers leave |
| Membership (`internal/gossip/bootstrap.go`, `protocol.go`, `internal/cluster/node.go`) | tables of all nodes, SYNC messages, running bootstraps | Bootstrap, HandleBootstrap, notifyPeersAboutNewNode, handleSync, performTopologySync, CheckIsolationAndRecover | crashes and restarts, lost announcements, evictions carried out late | the mesh forms again; sync traffic dies down |
| Attachment tree and WebSocket connections (`internal/tree/manager.go`, `internal/transport/ws`) | parent, cached alternatives, children, reattach flag; per connection its handlers, closed flag and two read loops | HandleHello, attach, reattachLoop, tryAlternatives, Stop, SendGoodbyeToChildren, Close; ACK routes | handlers swapped while the connection breaks, lost wake-ups, a child that returns before its old connection is noticed as dead, hellos read late, Stop racing attach | no slot is held by a dead connection, no close removes another connection's entry, the loop finds a parent, nothing attaches after Stop |
| Discovery and trust client (`internal/discovery`, `internal/trust/bootstrap`, `cmd/server/discovery.go`) | the session's view, the pinned roots, the trusted state on disk, a file lock | Open, New, Current, Refresh, checkpoints, save, load | kill or power loss between rename and sync, several processes, a root uploaded before its timestamp, withdrawn manifests | no rollback; nothing another process saved is lost; a save that replaces the authority withdraws the view of the process that saves; the last release is reached |
| Omega authority (`internal/omega`) | a journal of records, the public repository, key files, verification receipts | publish, publish --renew, rotate, rotate --apply | a crash at any step of a command, then any command | one public name, one content; the journal is ahead of the repository; a reservation is kept and carried out |
| Dashboard (`internal/dashboard`, `cmd/dashboard`) over the signed list (`internal/trust`) | roots in use, miss counter, snapshot in memory and on disk, cached list; per walk a bounded queue, a counter and the visited set | Boot, cycle, Walk, SIGHUP, Refresher.Run, Trigger, SaveCache, SaveSnapshot | workers that feed the queue they drain, a walk without results, a file that cannot be read, refreshes that fail or change the roots under a cycle | nobody sends on a closed queue, walks end and are complete, a graph that was served or loaded is not replaced by an empty one, dead roots are left |
| HTTP API (`cmd/server/main.go`, `internal/node/middleware.go`) | token buckets, server life cycle | put, get, keys, stream, gossip, bootstrap, ws; shutdown | order of shutdown (in `MemoryStore` and `TreeAttach`) | — |
| Omega initialisation, key custody, hosting; MCP adapter; client; `soph`; sites; logging | files written once, or none that outlives a call | — | — | — |

How they interact: the HTTP API calls `ClusterNode.Put`, which writes the store
and hands messages to the gossip protocol; gossip requests of other nodes reach
`HandleGossipMessage`, which goes to the protocol (PING, PONG, SYNC) or to the
cluster handlers (PUT, ACK). The store publishes to subscriptions under its own
mutex; stream handlers drain them. The omega authority publishes releases that
the trust client verifies; the discovery session hands each new view to
`SetRootBindings`. Transients attach to substrates, and writes travel along the
tree through `AckRouter` and `ChildBroadcaster`. The dashboard walks the
topology endpoints from the roots of a signed list.

## 2. Modules

| Module | Models | Used by |
|---|---|---|
| `MemoryStore` | store, stream, stream handler, viewer | `MCMemoryStore`, `MemoryStoreProofs` |
| `Replication` | writes, acknowledgements, dissemination in one enclave | `MCReplication`, `ReplicationProofs` |
| `PeerTable` | one node's peers, pins, failure counts and ping rounds | `MCPeerTable`, `PeerTableProofs` |
| `Membership` | how the tables of all nodes come to agree | `MCMembership` |
| `TreeAttach` | attachment tree, the connections under it, start-up and shutdown | `MCTreeAttach`, `TreeAttachProofs` |
| `TrustLease` | abstract: what the trust state on disk promises | `Discovery`, `DiscoveryProofs` |
| `Discovery` | trust client, its state directory, the session and its pins | `MCDiscovery`, `DiscoveryProofs` |
| `OmegaPublish` | the authority's journal, repository and commands | `MCOmegaPublish`, `OmegaPublishProofs` |
| `TopologyWalk` | one walk of the dashboard's poller | `MCTopologyWalk`, `TopologyWalkProofs` |
| `Dashboard` | orchestrator, signed list, cache, refresher, snapshot | `MCDashboard`, `DashboardProofs` |

### MemoryStore

`data`, `currentBytes`, `sequence`, `closed` and `subscribers` are the fields of
the Go struct; `queue[h]` is the channel of handler h's subscription; `pc[h]`
follows the goroutine of a request through `streamHandler`; `view[h]` is what the
browser shows. A payload is its length, and the revision the store gave it tells
two payloads apart. Methods that hold the store's mutex are one action each; the
sweep deletes all expired entries and publishes their events in any order, as Go
iterates a map. The handler's goroutine takes separate steps for the slot
counter, Subscribe, each write, each of the two selects, the deferred
`sub.Close` and the deferred `Add(-1)`. A write to the client either succeeds or
fails. The viewer's clock is set from the node's messages, so it lags behind the
node's clock and never leads it.

### Replication

One write is one goroutine in `Put`: `op[w].phase` is where it stands. Computing
the quorum and registering, storing, deciding whether the local write suffices,
picking the targets, each send and the final select are separate steps. A
handler of a PUT is one step: its parts take different locks, but once the
message is marked a second copy is dropped, and nothing else looks at the
message before it is stored. A handler of an ACK is two steps, as in the code,
and recomputes the threshold. A message is a member of `net`; with `Lossy` a
send may be lost. `MessageID` is the pair of the key and a reading of the clock;
with `CoarseClock` two readings may be equal. `PeerChange` stands for whatever
`PeerTable` does to the list of replication peers. Time is not modelled:
`cleanupSeenMessages` forgets a message once no copy of it is left to be sent or
received, which is what the comment on `seenMessageTTL` asks of the 60 seconds.
`Starts` is the set of peer tables, and of what is left of the bounds, that a
behaviour may begin with.

### PeerTable

The table is guarded by one mutex, so `addPeer`, `SetRootBindings`, `handlePong`
and `removePeer` are atomic. `pingPeers` is not: it copies the table, pings one
peer after another and evicts at the end, and the variables `toPing` and
`evictions` are its local state. Origins are compared after normalisation, so an
origin is a name, `"bad"` one that does not normalise. An answered ping and a
PONG are two things: the answer leaves the count alone, and a peer that does not
have this node in its table sends no PONG. `missed` is a history variable: failed
pings in a row.

### Membership

A peer is an ID. `Crash` loses a node's table and goroutines; `Start` is the
call of `ClusterNode.Start` by whatever supervises the process. A bootstrap asks
one seed after another (in any order), each answered atomically by
`HandleBootstrap`. `PingFails` is the last failed ping of three and `Evict` the
eviction at the end of the round; between them the peer may return and bootstrap,
and is evicted all the same.

### TreeAttach

Per transient there are the goroutine that attaches at start-up, the reattach
loop and Stop; `run[t]` is where the first two stand. The loop looks at
`stopping` before an alternative (`TryNext`), and Stop may begin and run on
before the dial is through (`Dial`, `DialFails`). Per connection each side has a
read loop that runs the handlers: `hooks[c]` says which handlers the client has
installed, and it changes in the steps in which `attach` removes the temporary
and adds the long-lived ones. `closed` and the end of the read loop are
separate, because a local `Close` sets the flag and the read loop fires the
close handlers later. A handler that finds the connection to be the parent
forgets the parent in a second critical section, as in the code, and starts the
loop in a third; the loop's flag is cleared by a deferred step of its own. A
hello that was sent is read by the substrate or lost with the connection, also
after the client has closed its side, and `HandleHello` then enters that
connection for the child, whatever entry it has. Faults are cut connections,
failed dials, timeouts and missing hellos; substrates may shut down (listener,
goodbye to the children, exit). Every substrate knows every other, so the
alternatives a welcome and a goodbye offer are the substrates.

### Discovery and TrustLease

A file has two values: `visible`, which a rename changes, and `durable`, which
the sync of the directory changes and a power loss restores. A process opens the
state (`Mkdir`, `LockNew`, `OpenLoads`), reads it into its session, refreshes
under the lock, role by role, and saves a checkpoint before each download
(`Behind`, `Rename`, `Commit`). What a save withdraws, `OnInvalidate` withdraws
from the session of the process that saves; other processes learn of it when
they read the state. A refresh releases the lock before the session takes the
view it returned (`Finish`, `Show`), so another process may have gone on by
then. go-tuf and the repository are external: a timestamp is accepted when it is
signed under the root at hand, not older and not expired; a cache may answer
with an older one; the repository uploads a root before the timestamp made under
it. `TrustLease` has the same state as one variable that changes in one step:
versions never go back, and an accepted manifest is complete and has the
authority of the metadata. `Discovery` instantiates it with
`trusted <- durable`, so every rename, failed save, kill and power loss must be
a stutter or such a step.

### OmegaPublish

A record of the journal is `none`, `torn`, `pending`, `linked` or `final`, the
stages of `store.install`. A command is a sequence of installs, signings and
repository writes (`cmd.pc`); it may be killed at each, and a power loss takes
back, file by file, any subset of what no sync has covered. `publish`,
`publish --renew` and `rotate` (prepare, apply) start whenever the home is free
and find out from the journal what to resume, repeat or refuse. Signing is
deterministic: a release is a record of what it signs, the time included, so
signing twice at two times gives two contents. The clock decides expiry and when
renewal is due. There is one rotation, to root version 2, of any role; for the
root role its plan and its three key files are one file. The clock does not run
backward.

### TopologyWalk and Dashboard

`TopologyWalk` is one call of `Poller.Walk`: workers take addresses from the
queue, poll, mark and count what they hear of, send it to the same queue, and
the one that finishes the last address closes it. Two steps of `enqueue` are two
actions, since others run between the mark and the send. `Dashboard` has that
walk as one step with the possible results, and around it the boot order (cache,
DNS, seeds), the cycle in five steps, the snapshot on disk, which a boot may
fail to load and then goes on without (`unread`, a history variable), the
refresher with its timer, backoff and trigger, and the world: lists that are
published and expire, nodes that go down, kills.

## 3. What is checked

| Run | Instance | Shows |
|---|---|---|
| `store` | 2 keys, 2 sizes, 2 stream requests for 1 slot, queue of 1, 2 writes, 2 ticks | `Accounting`, `StreamMirror`, `StreamSlots`, `ReadableUntilExpiry`, `StreamsEnd`, `ExpiredReclaimed` |
| `replication` | 3 nodes above the fanout threshold, replication factor 3, lossy sends, one store that may be full; either 2 writes of one key on a chain, or 1 write on a full mesh with 2 changes of peer tables | `PendingExact`, `AppliedOnce`, `QuorumHeld`, `PutAlwaysReturns` |
| `peer_table` | 2 peers, 2 origins, 2 enclaves, limit 2, 2 manifests | `PinsHold`, `FailuresBounded`, `RouteStable`, `DeadEvicted` |
| `peer_evicted` | the same | `ConsecutiveFailures` fails |
| `membership` | 3 nodes, 1 crash; either all seeds and running, or one seed and a cold start in any order | `MeshForms`, `SyncSettles` |
| `membership_rejoin` | the same | `EvictedRejoin` fails |
| `tree` | 1 transient, 2 substrates with 1 and 2 slots, 2 connections at a time, 1 fault, 1 shutdown | `ChildrenWatched`, `NoAttachAfterStop`, `OnlyHelloReplaces`, `StopReturnsAtLast`, `LoopFindsParent` |
| `tree_lost` | the same | `AttachedOrTrying` fails |
| `discovery` | 2 processes, 3 releases (new manifest and root, then a new online key), 1 fault | `PinsCoverView`, `NothingLost`, `OwnSaveRevokes`, `Implements`, `ServesLatest` |
| `omega` | 1 manifest, 2 releases, rotation of any role, 2 keys, 1 crash | `NeverTwice`, `JournalLeads`, `RepositoryComplete`, `ReservationKept`, `RootKeyHeld`, `WorkFinished` |
| `walk` | 5 addresses of which 4 may be pursued, 2 workers, a queue of 1, any seeds, any nodes silent | `QueueSafe`, `WalkComplete`, `WalkEnds` |
| `dashboard` | 2 signed lists, 1 seed, 3 faults | `GraphKept`, `LeavesDeadRoots` |

`TypeOK` is an invariant of the store, replication and peer table runs, whose
modules have proofs that start from it.

Why the bounds are enough for the cases that matter. The store run reaches a
full store, an oversized event (key `k2` with a payload), a full queue, a
snapshot over its limit, an overwrite before the sweep and a request without a
slot. Two concurrent writes of one key on three nodes are the smallest case in
which ACKs, copies and values of different writes can be mixed up, and a chain
(n1 knows both others, n2 knows n3) is enough for a copy that was forwarded to
meet one that was sent directly, and a late one a newer value; one write on a
full mesh leaves room for tables that shrink and grow under it. With a fanout
threshold of 0 three nodes sample, forward and receive duplicates as eleven do.
The dedup cache of the runs holds every message: eviction at its capacity is in
the model (`evictSeenLocked`) but not exercised, and the proofs say for which
loads it never happens (`SmallLoadSafe`). Two peers and two manifests let a
referral, a pin and a rebinding meet in every order with a ping round. One crash
among three nodes is followed by every order of announcements, syncs and
evictions; `MeshForms` and `SyncSettles` speak of those in which no eviction
meets a node that is back, and `membership_rejoin` shows what the others can
come to. One transient with two connections has an old and a new connection to
the same or to another substrate, whose hellos are read and whose ends are
noticed in any order; a single slot makes its own old connection turn it away.
Two processes and one fault let a kill, a power loss or a failed save fall into
any step of one process while the other refreshes; the three releases contain a
change of every role. One manifest is enough for the authority, as the time of
signing tells two contents of a name apart; one crash falls into any step of any
command, and the invariants are proved for any number of them. A queue of one
with two workers is full as soon as a node lists two peers.

Fairness. Stream handlers are goroutines, always scheduled, and their writes end
by a deadline of 5 seconds; select chooses at random among its ready cases, so
the closed `streamDone` is taken eventually (strong fairness); the cleanup ticker
fires. The goroutine of a Put and delivered requests are scheduled, and its timer
fires. The health check ticks and every ping ends by its timeout. A supervisor
restarts a stopped node, periodic loops tick, requests end. The tree's goroutines
and read loops are scheduled, a frame that was sent arrives or its connection
breaks. A discovery process retries for a lock that every holder gives up
(strong fairness), its refreshes end by their deadline and `Run` starts the next;
the repository completes a publication it began. A command of the authority runs
to its end or dies; the timer repeats the renewal and the operator an
interrupted apply, and neither finds the home locked for ever (strong fairness).
A walk's deadline comes. The dashboard's cycles go on; its refresher's timer has
no fairness, as a list may be good for months, but its backoff has. Nothing makes
a client leave, an operator stop a node, a host die, or a send succeed.

Deadlock is checked where the system always has a step (store, peer table,
discovery, dashboard). The other behaviours end: writes are through, the mesh
stands, the walk is over, the transient has stopped, the clock of the instance
has run out.

### Where the code and its documentation differ

Three runs expect a violation.

- `tree_lost`. `manager.go` promises a reattach loop whenever the parent
  connection drops. `attach` removes its temporary close handler, registers the
  parent and only then adds the long-lived handler; a connection that drops in
  between finds no handler. A reattach notices (`tryAlternatives` checks again),
  the attach at start-up does not. The same property also fails where a handler
  that passed the check for the current parent forgets a newer one. This is why
  `LoopFindsParent` starts from a loop that is running, and why it excepts a
  connection that was abandoned open.
- `peer_evicted`. The comments on `MaxPingFailures` and `peerFailures` and the
  log line of an eviction call the failures consecutive. An answered ping resets
  nothing, only a PONG does, and a peer that does not have this node in its table
  answers every ping and sends no PONG: its failures add up whatever lies between
  them.
- `membership_rejoin`. The comment on `MaxPingFailures` says that evicted peers
  rejoin automatically if they come back online and bootstrap again. A round that
  has given a peer up evicts it at its end, also if it has bootstrapped by then.
  When both others of a cluster of three do that, the node knows both and asks
  nobody, they ask only each other, and it stays unknown to them.

Remarks without a run, each of which the model shows when the constant or the
property named is changed:

- Two writes of a key at the same nanosecond share a MessageID, and the second
  takes the first's place in `pendingWrites` (`CoarseClock` TRUE, `PendingExact`).
- An only seed that restarts before it is evicted has nobody to ask, its peers
  see no gap to sync, and it stays isolated until they evict it or one restarts
  (a deployment that is up with one seed, `MeshForms`).
- With a replication factor of 1 the local write is a quorum, so a write is never
  broadcast, peers or not (`LocalQuorum`).
- A process killed after the rename and before the sync leaves a state that the
  next process reads and serves before any sync covers it; a power loss then
  brings the older one back. `Implements` speaks of the durable state, and
  `NothingLost` of the visible one.
- A crash before the first save leaves a state directory without a state, which
  every later start refuses (`OpenLoads`): `ServesLatest` excepts it.
- A session whose authority another process has replaced keeps its view while it
  downloads, as a refresh that loads a state without an accepted manifest calls
  no `OnInvalidate` (`client.go:193-197`), and a view returned before another
  process saved is still shown after that (`Show`). The comment on `Session`
  says that a durable root or targets transition immediately invalidates the
  view; `OwnSaveRevokes` says it of the process that made the transition. The
  other's next refresh that goes through, or its next read of the state,
  replaces the view.
- A hello of an old connection that is read after the new connection's takes its
  place in the table of children (`manager.go:272`), and the old connection's
  close then removes the entry: the child is attached and the substrate does not
  list it (`OnlyHelloReplaces` without its exception).
- A dashboard that could not load its snapshot and finds nothing on its first walk
  saves an empty graph over the one in the file (`GraphKept` without `~unread`).
- Two crashes can leave the authority's journal with a gap: the first kills a
  command between the link and the sync of a release's record, the second is a
  power loss that keeps a later record and loses that one. Every command then
  refuses (`NoGap`). `WorkFinished` is checked with one crash.

## 4. What is proved

The proofs hold for every value of the constants that satisfies the named
assumptions (`StoreAssumption`, `StreamAssumption`, `ReplicationAssumption`,
`PeerAssumption`, `NameAssumption`, `TreeAssumption`, `DiscoveryAssumption`,
`OmegaAssumption`, `WalkAssumption`, `DashboardAssumption`), which say that sets
are finite, bounds are natural numbers and special values are distinct. A theorem
with a further hypothesis states it, and it is explained below. Every safety
invariant and every action property a passing run checks has a theorem.

Each proof has the same shape: an inductive invariant, a lemma per action (or
per group of actions that change the same variables) that it is preserved, and a
last lemma that it implies what is promised. What follows is what the invariant
has to say beyond the property, and why.

- `MemoryStoreProofs`: `TypeCorrect`; `SlotsExact` (the counter equals the
  number of running requests, and every subscriber is a running, admitted
  request, so the store's limit is never the one that turns a request away);
  `RevisionsOrdered` (no queued write is older than what the viewer shows or
  than an earlier queued write of its key); `MirrorExact`; `ReadableToTheEnd`
  (`ReadableUntilExpiry`, as revisions are below the sequence); `BytesAccounted`
  (`Accounting`, which is inductive with the types). The counter is compared
  with a fold over the stored keys, and what a fold computes needs an induction.
  It is done with no predicate as a parameter: a nonempty set of
  counterexamples, themselves subsets of a finite set, has a minimal one
  (`Minimal`), from which follow that the recursion has a solution
  (`SumExists`), that the order in which keys are taken does not matter
  (`SumTaking`), and what a sweep removes (`SumWithout`). `MirrorExact` needs
  what the property does not say: which pcs a subscriber can be at, and that,
  for each key, the last queued event agrees with the store, while what is shown
  agrees if none is queued.
- `PeerTableProofs`: `TypeCorrect`, `PinsRespected`, `RoutesStable`,
  `FailureCounts` (`FailuresBounded`). The count invariant links a count to the
  running round: a peer still to be pinged is below the limit and not on the list
  of evictions, and evictions are peers.
- `ReplicationProofs`: `TypeCorrect`, with the facts that only writes that
  started are registered or counted and that no write is sent to its own node;
  `PendingWritesExact` (`PendingExact`, if no two readings of the clock are
  equal). Every step starts a Put, ends one, or leaves all registrations alone
  (`StepKinds`); the invariant is strengthened with `StampsPast`: MessageIDs in
  use carry past readings of the clock, so a new write's is new.
  `StoredAtMostOnce` (`AppliedOnce`) and `QuorumsHeld` (`QuorumHeld`) speak of
  behaviours in which no dedup cache is full (`Roomy`). Without that they are
  false: a full cache forgets the older half of its span, and a copy that is
  still under way is then stored again and acknowledged again by the same node
  (`protocol.go:524`). `AppliedInv` says that a node that has stored a write
  remembers it for as long as a copy can arrive. `QuorumInv` accounts for every
  acknowledgement: it is in flight, in a handler between its two steps, or
  counted; a node is behind at most one of them; and whoever is behind one holds
  the write. So the count of a confirmed write is a lower bound of its holders.
  `QuorumsHeld` needs distinct readings of the clock, since two writes with one
  MessageID share a count, and a replication factor of 2 or more, since with 1
  the local write is a quorum and nobody is told. `SmallLoadSafe` removes `Roomy`:
  a cache holds a MessageID once (`CacheInv`), so with fewer writes than
  `MaxSeen` it is never full.
- `TreeAttachProofs`: `ChildrenAlwaysWatched`, `EntriesReplacedByHello`
  (`OnlyHelloReplaces`), `NeverAttachesAfterStop` (`NoAttachAfterStop`).
  `TableInv` adds that a connection that is served has two ends, so that the
  close handler the table relies on belongs to the child and the substrate it
  removes. Every action either leaves the tables and the ends alone, or is one
  of five kinds (`StepKinds`). `NoAttachAfterStop` is inductive with the types
  of `run` and `stop` (`StopInv`): a loop moves on from `try` only where it does
  not halt, and Stop returns only where no loop is in flight.
- `TopologyWalkProofs`: `QueueAlwaysSafe`, `WalksComplete`. `CountInv` says what
  the atomic counter counts: the entries in the queue, those a worker is at, and
  those that are marked and not yet sent; that is why the worker that brings it
  to zero finds nobody left to send. `CompleteInv` follows a peer from the moment
  a node listed it: on a worker's list, or pursued, in the queue, at a worker, or
  with a result.
- `DiscoveryProofs`: `NothingEverLost`, `OwnSaveAlwaysRevokes`
  (`OwnSaveRevokes`), `PinsAlwaysCoverView`, and `DirectoryImplements`, the
  refinement of `TrustLease`. `TrustInv` has one part about the files (each is
  whole, and the durable one is not ahead of the visible one), one about who may
  be making the directory, and one per process (`Mine`): what the lock's holder
  has loaded is what is visible, unless it has just replaced that by what it
  means to save, what it works on goes forward from it role by role, and what it
  shows, or has read and is about to show, is backed by the state (`Backed`). A
  view of the authority a process loaded goes with the accepted manifest, which
  is what `OnInvalidate` looks at (`Revocable`). With it, every step maps to a
  stutter or a step of `TrustLease`: a sync of the directory is its step, and a
  power loss, which takes the visible value back to the durable one, is a
  stutter.
- `OmegaPublishProofs`: `JournalAlwaysLeads`, `RepositoryAlwaysComplete`,
  `NumbersUsedOnce`, `ReservationsKept`, `RootKeysHeld`, `DurableRecordsKept`.
  The invariant has four parts. `FilesInv`: what each record says about the
  others, for example that the root of a release, of a reservation and of the
  signed rotation is one whose private key is durable (`Rooted`), that a release
  that was not approved has its durable reservation (`Reserved`), and that the
  targets of a release have its version or are those of the release before it
  (`Formed`). `CmdInv`: a running command is about to install only what keeps
  `FilesInv` (`Fits`), because of what it found when it started and of what it
  has made durable since. `TodoInv`: while objects are written, those of the
  latest release are durable or still to do. `PublicInv`: what was ever public
  belongs to a durable release, and what either timestamp needs is durable. A
  crash needs no more than that a durable record stays (`DurableRecordsKept`) and
  that what it takes back was not relied on. That one name has one content
  follows from three facts about numbers: a snapshot's is its release's version,
  a targets number is new or inherited (`TargetsUnique`), and two roots with
  durable keys are equal (`RootedOnce`).
- `DashboardProofs`: `GraphNeverLost` (`GraphKept`), for any lists, seeds and
  limits. The action property needs an invariant: a process that is down serves
  nothing and is in no cycle, and while one runs that could load the file, a
  graph on disk is also served, so that what a cycle saves is never less than
  what the file holds.

The inductive invariants were checked by TLC on the constants of the runs before
they were proved.

Only model-checked: all liveness (`StreamsEnd`, `ExpiredReclaimed`,
`PutAlwaysReturns`, `DeadEvicted`, `MeshForms`, `SyncSettles`,
`StopReturnsAtLast`, `LoopFindsParent`, `ServesLatest`, `WorkFinished`,
`WalkEnds`, `LeavesDeadRoots`), as fairness is out of the prover's reach, and the
`Membership` module, whose runs ask liveness questions only.

## 5. Plan

Done: `MemoryStore`, `Replication`, `PeerTable`, `Membership`, `TreeAttach`,
`Discovery` with `TrustLease`, `OmegaPublish`, `TopologyWalk`, `Dashboard`.

Left, in this order:

1. Proofs: for `Replication`, which of its promises survive a full dedup cache.
2. The relay of writes along the tree (ACK routes, `BroadcastToChildren`),
   composed with `Replication`.
3. The plan and key files of a root rotation one by one, and a second rotation.

## 6. Not modelled

Cryptography (HMAC, TUF signatures, key encryption), JSON and HTTP framing,
logging, metrics, flag parsing and the static sites. Write admission
(`write_limits.go`) is pure checks that change no state; the rate limiter is
arithmetic on one bucket per client under one mutex. The MCP adapter, the client
library and `soph` keep nothing between two calls. Of the omega authority,
initialisation stages its files with the same `install` as the journal and runs
once; the encrypted custody variants, the provisioning of a renewal home and the
upload to a hosting service are key handling and I/O around the commands that
are modelled. go-tuf is external. Of the dashboard, the reload of the region
database at SIGHUP and the HTTP surface are left out. ACK routes and
`BroadcastToChildren` are left to the plan.
