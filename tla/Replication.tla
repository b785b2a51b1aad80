----------------------------- MODULE Replication -----------------------------
(***************************************************************************)
(* Enclave replication: ClusterNode.Put and the handling of PUT and ACK    *)
(* gossip (internal/cluster/node.go) over the dissemination half of the    *)
(* gossip protocol (internal/gossip/protocol.go).                          *)
(*                                                                         *)
(* One client write is one goroutine in Put; it registers itself under a   *)
(* MessageID, stores locally, sends to its peers one at a time and waits   *)
(* for acknowledgements, a timer or its client.  Handlers of other nodes'  *)
(* messages run between any two of those steps.  A gossip message is an    *)
(* HTTP request: it is delivered at most once, late, in any order, or not  *)
(* at all.  All nodes here are one enclave; a value is the write that      *)
(* carried it.  The admission checks on key and value length and the TTL   *)
(* clamp change no state and are left out.                                 *)
(***************************************************************************)
EXTENDS Integers, FiniteSets, FiniteSetsExt, Sequences

CONSTANTS
  Nodes,              \* the members of the enclave
  Keys, Writes,       \* the keys, and the client writes of one behaviour
  ReplicationFactor,  \* NODE_REPLICATION
  FanoutThreshold,    \* the size up to which gossip is a full broadcast
  MaxSeen,            \* maxSeenMessages: capacity of the dedup cache
  Fillable,           \* nodes whose store may answer ErrStoreFull
  Lossy,              \* sends may fail
  CoarseClock,        \* two readings of UnixNano may be equal
  MaxStamp,           \* bound: clock readings
  MaxChurn,           \* bound: changes of peer tables
  Starts              \* to start from: peer tables, and what the bounds have left

None == "none"

ASSUME ReplicationAssumption ==
  /\ IsFiniteSet(Nodes) /\ IsFiniteSet(Writes)
  /\ ReplicationFactor \in Nat /\ FanoutThreshold \in Nat
  /\ MaxSeen \in Nat \ {0} /\ MaxStamp \in Nat /\ MaxChurn \in Nat
  /\ Starts \subseteq [peers : [Nodes -> SUBSET Nodes], clock : Nat, churn : Nat]
  /\ \A s \in Starts : \A n \in Nodes : n \notin s.peers[n]
  /\ Fillable \subseteq Nodes
  /\ Lossy \in BOOLEAN /\ CoarseClock \in BOOLEAN
  /\ None \notin Writes /\ None \notin Nodes

VARIABLES
  op,       \* op[w]: the WriteOperation of w and where its Put stands
  pending,  \* pending[n]: pendingWrites of n, from MessageIDs to writes
  store,    \* store[n][k]: the write whose value n holds under k
  seen,     \* seen[n]: the dedup cache of n, oldest entry first
  peers,    \* peers[n]: n's replication peers
  net,      \* gossip messages in flight
  acking,   \* ACK handlers between their two critical sections
  applied,  \* history: applied[n] are the writes n stored
  clock, churn

vars == <<op, pending, store, seen, peers, net, acking, applied, clock, churn>>

\* MessageID = key-UnixNano.
MessageIDs == Keys \X (1..MaxStamp)

Message ==
  [type : {"PUT"}, from : Nodes, to : Nodes, id : MessageIDs, write : Writes]
    \cup [type : {"ACK"}, from : Nodes, to : Nodes, id : MessageIDs]

\* Where a Put stands; how it ended: nil (201), ErrQuorumTimeout (202),
\* ErrStoreFull (507), ctx.Err (500).
Active == {"registered", "stored", "sending", "waiting"}
Ended  == {"created", "accepted", "full", "cancelled"}

Operation ==
  [phase : Active \cup Ended \cup {"new"}, node : Nodes \cup {None},
   id : MessageIDs \cup {<<>>}, quorum : Nat, confirmations : Nat,
   complete : BOOLEAN, needed : Nat, targets : SUBSET Nodes,
   knew : SUBSET Nodes, sent : BOOLEAN]

NotStarted ==
  [phase |-> "new", node |-> None, id |-> <<>>, quorum |-> 0,
   confirmations |-> 0, complete |-> FALSE, needed |-> 0,
   targets |-> {}, knew |-> {}, sent |-> FALSE]

-----------------------------------------------------------------------------
\* quorumSize: a majority of the known enclave, of the factor if smaller.
quorumSize(n) ==
  LET known == Cardinality(peers[n]) + 1
      effective == IF ReplicationFactor < known THEN ReplicationFactor ELSE known
  IN effective \div 2 + 1

\* fanoutSize: the square root, rounded up.
fanoutSize(c) == CHOOSE f \in 0..c : f * f >= c /\ \A g \in 0..c : g * g >= c => f <= g

\* selectRandomPeers: any n of the candidates, all if there are no more.
selectRandomPeers(candidates, n) ==
  IF Cardinality(candidates) <= n THEN {candidates} ELSE kSubset(n, candidates)

BroadcastWithSelf(n) == {peers[n] \cup {n}}   \* mutant: the table lists the node itself

\* The sets of peers BroadcastToEnclave may pick.
BroadcastTargets(n) ==
  IF Cardinality(peers[n]) <= FanoutThreshold THEN {peers[n]}
  ELSE selectRandomPeers(peers[n], fanoutSize(Cardinality(peers[n])))

\* The sets ForwardToEnclave may pick; a small enclave was told everything.
ForwardTargets(n, from) ==
  IF Cardinality(peers[n]) <= FanoutThreshold THEN {{}}
  ELSE selectRandomPeers(peers[n] \ {from}, fanoutSize(Cardinality(peers[n])))

NeverSeen(n, id) == FALSE   \* mutant: the cache is never consulted

Seen(n, id) == \E i \in DOMAIN seen[n] : seen[n][i] = id

\* What evictSeenLocked may leave: it drops what has expired, then what is
\* older than the middle of the remaining time span, a run of the oldest
\* entries; an empty run only if all are as new as the clock can tell.
evictSeenLocked(n) ==
  {SubSeq(seen[n], d + 1, Len(seen[n])) :
     d \in (IF CoarseClock THEN 0 ELSE 1)..Len(seen[n])}

\* What MarkSeen may leave of the cache after recording a new message.
MarkSeen(n, id) ==
  {Append(c, id) : c \in IF Len(seen[n]) < MaxSeen THEN {seen[n]} ELSE evictSeenLocked(n)}

\* Of the messages handed to the transport, those that get through.
Delivered(msgs) == IF Lossy THEN SUBSET msgs ELSE {msgs}

-----------------------------------------------------------------------------
(* ClusterNode.Put.                                                        *)
ForgetNothing(n, id) == UNCHANGED pending   \* mutant: a path that leaks

Forget(n, id) == pending' = [pending EXCEPT ![n][id] = None]

\* The quorum is computed first; then the write registers itself.
StartPut(w, n, k, t) ==
  /\ op[w].phase = "new"
  /\ t \in (IF CoarseClock THEN {clock, clock + 1} ELSE {clock + 1}) \cap (1..MaxStamp)
  /\ clock' = t
  /\ op' = [op EXCEPT ![w] =
       [NotStarted EXCEPT !.phase = "registered", !.node = n, !.id = <<k, t>>,
          !.quorum = quorumSize(n), !.confirmations = 1, !.knew = peers[n]]]
  /\ pending' = [pending EXCEPT ![n][<<k, t>>] = w]
  /\ UNCHANGED <<store, seen, peers, net, acking, applied, churn>>

LocalPutFails(w) ==
  /\ op[w].phase = "registered"
  /\ op[w].node \in Fillable
  /\ op' = [op EXCEPT ![w].phase = "full"]
  /\ Forget(op[w].node, op[w].id)
  /\ UNCHANGED <<store, seen, peers, net, acking, applied, clock, churn>>

LocalPut(w) ==
  LET n == op[w].node
  IN /\ op[w].phase = "registered"
     /\ op' = [op EXCEPT ![w].phase = "stored"]
     /\ store' = [store EXCEPT ![n][op[w].id[1]] = w]
     /\ applied' = [applied EXCEPT ![n] = @ \cup {w}]
     /\ UNCHANGED <<pending, seen, peers, net, acking, clock, churn>>

\* The local write alone is a quorum: done, and nothing is broadcast.
LocalQuorum(w) ==
  /\ op[w].phase = "stored"
  /\ op[w].confirmations >= op[w].quorum
  /\ op' = [op EXCEPT ![w].phase = "created", ![w].complete = TRUE,
                      ![w].needed = op[w].quorum]
  /\ Forget(op[w].node, op[w].id)
  /\ UNCHANGED <<store, seen, peers, net, acking, applied, clock, churn>>

\* BroadcastToEnclave marks the message as its own and picks its targets.
BroadcastToEnclave(w) ==
  LET n == op[w].node
  IN /\ op[w].phase = "stored"
     /\ op[w].confirmations < op[w].quorum
     /\ IF Seen(n, op[w].id) THEN UNCHANGED seen
        ELSE \E c \in MarkSeen(n, op[w].id) : seen' = [seen EXCEPT ![n] = c]
     /\ \E targets \in BroadcastTargets(n) :
          op' = [op EXCEPT ![w].phase = "sending", ![w].targets = targets,
                           ![w].sent = TRUE]
     /\ UNCHANGED <<pending, store, peers, net, acking, applied, clock, churn>>

SendPut(w, m) ==
  LET n == op[w].node
      msg == [type |-> "PUT", from |-> n, to |-> m, id |-> op[w].id, write |-> w]
  IN /\ op[w].phase = "sending"
     /\ m \in op[w].targets
     /\ op' = [op EXCEPT ![w].targets = @ \ {m}]
     /\ \E d \in Delivered({msg}) : net' = net \cup d
     /\ UNCHANGED <<pending, store, seen, peers, acking, applied, clock, churn>>

AllSent(w) ==
  /\ op[w].phase = "sending"
  /\ op[w].targets = {}
  /\ op' = [op EXCEPT ![w].phase = "waiting"]
  /\ UNCHANGED <<pending, store, seen, peers, net, acking, applied, clock, churn>>

\* The three ways out of the final select.
PutReturns(w, outcome) ==
  /\ op[w].phase = "waiting"
  /\ op' = [op EXCEPT ![w].phase = outcome]
  /\ Forget(op[w].node, op[w].id)
  /\ UNCHANGED <<store, seen, peers, net, acking, applied, clock, churn>>

PutConfirmed(w) == op[w].complete /\ PutReturns(w, "created")
NoTimer(w)      == op[w].complete /\ PutReturns(w, "accepted")   \* mutant: no time.After
PutTimesOut(w)  == PutReturns(w, "accepted")
PutCancelled(w) == PutReturns(w, "cancelled")

-----------------------------------------------------------------------------
(* handlePutMessage, on node msg.to.                                       *)
HandleDuplicate(msg) ==
  /\ msg \in net /\ msg.type = "PUT"
  /\ Seen(msg.to, msg.id)
  /\ net' = net \ {msg}
  /\ UNCHANGED <<op, pending, store, seen, peers, acking, applied, clock, churn>>

AcksAnyway(msg) ==   \* mutant: the error of store.Put does not end the handler
  /\ msg \in net /\ msg.type = "PUT"
  /\ ~Seen(msg.to, msg.id)
  /\ msg.to \in Fillable
  /\ \E c \in MarkSeen(msg.to, msg.id) : seen' = [seen EXCEPT ![msg.to] = c]
  /\ net' = (net \ {msg}) \cup
        {[type |-> "ACK", from |-> msg.to, to |-> msg.from, id |-> msg.id]}
  /\ UNCHANGED <<op, pending, store, peers, acking, applied, clock, churn>>

\* The message is marked before the store is asked: a full store leaves it
\* marked, unacknowledged and unforwarded.
HandlePutFull(msg) ==
  /\ msg \in net /\ msg.type = "PUT"
  /\ ~Seen(msg.to, msg.id)
  /\ msg.to \in Fillable
  /\ \E c \in MarkSeen(msg.to, msg.id) : seen' = [seen EXCEPT ![msg.to] = c]
  /\ net' = net \ {msg}
  /\ UNCHANGED <<op, pending, store, peers, acking, applied, clock, churn>>

\* Store, acknowledge to the originator if it is a peer, forward.  The steps
\* take different locks, but once the message is marked a second copy is
\* dropped, and nothing else looks at it between the mark and the store.
HandlePut(msg) ==
  LET n == msg.to
      ack == [type |-> "ACK", from |-> n, to |-> msg.from, id |-> msg.id]
      acks == IF msg.from \in peers[n] THEN {ack} ELSE {}
  IN /\ msg \in net /\ msg.type = "PUT"
     /\ ~Seen(n, msg.id)
     /\ \E c \in MarkSeen(n, msg.id) : seen' = [seen EXCEPT ![n] = c]
     /\ store' = [store EXCEPT ![n][msg.id[1]] = msg.write]
     /\ applied' = [applied EXCEPT ![n] = @ \cup {msg.write}]
     /\ \E targets \in ForwardTargets(n, msg.from) :
          \E d \in Delivered(acks \cup {[msg EXCEPT !.to = m] : m \in targets}) :
             net' = (net \ {msg}) \cup d
     /\ UNCHANGED <<op, pending, peers, acking, clock, churn>>

(* handleAckMessage: the lookup and the count are two critical sections.   *)
AckLookup(msg) ==
  /\ msg \in net /\ msg.type = "ACK"
  /\ net' = net \ {msg}
  /\ LET w == pending[msg.to][msg.id]
     IN acking' = IF w = None THEN acking
                  ELSE acking \cup {[write |-> w, from |-> msg.from]}
  /\ UNCHANGED <<op, pending, store, seen, peers, applied, clock, churn>>

\* The threshold is computed anew, from the peers known at this moment.
AckCount(a) ==
  LET w == a.write
      count == op[w].confirmations + 1
      reached == count >= quorumSize(op[w].node)
  IN /\ a \in acking
     /\ acking' = acking \ {a}
     /\ op' = [op EXCEPT ![w].confirmations = count,
                         ![w].complete = @ \/ reached,
                         ![w].needed = IF reached /\ ~op[w].complete
                                         THEN quorumSize(op[w].node) ELSE @]
     /\ UNCHANGED <<pending, store, seen, peers, net, applied, clock, churn>>

\* cleanupSeenMessages forgets a message after seenMessageTTL, which is meant
\* to outlast its propagation: no copy of it is still to be sent or received.
cleanupSeenMessages(n) ==
  /\ seen[n] # <<>>
  /\ \A msg \in net : msg.id # Head(seen[n])
  /\ \A w \in Writes : op[w].id = Head(seen[n]) => op[w].phase \notin Active
  /\ seen' = [seen EXCEPT ![n] = Tail(@)]
  /\ UNCHANGED <<op, pending, store, peers, net, acking, applied, clock, churn>>

\* Peer tables change under a write: PeerTable models how.
PeerChange(n, m) ==
  /\ churn < MaxChurn
  /\ churn' = churn + 1
  /\ n # m
  /\ peers' = [peers EXCEPT ![n] = IF m \in @ THEN @ \ {m} ELSE @ \cup {m}]
  /\ UNCHANGED <<op, pending, store, seen, net, acking, applied, clock>>

-----------------------------------------------------------------------------
Init ==
  /\ op = [w \in Writes |-> NotStarted]
  /\ pending = [n \in Nodes |-> [id \in MessageIDs |-> None]]
  /\ store = [n \in Nodes |-> [k \in Keys |-> None]]
  /\ seen = [n \in Nodes |-> <<>>]
  /\ \E s \in Starts : peers = s.peers /\ clock = s.clock /\ churn = s.churn
  /\ net = {} /\ acking = {}
  /\ applied = [n \in Nodes |-> {}]

PutStep(w) ==
  \/ LocalPutFails(w) \/ LocalPut(w) \/ LocalQuorum(w) \/ BroadcastToEnclave(w)
  \/ \E m \in Nodes : SendPut(w, m)
  \/ AllSent(w) \/ PutConfirmed(w) \/ PutTimesOut(w) \/ PutCancelled(w)

Handle(msg) ==
  HandleDuplicate(msg) \/ HandlePutFull(msg) \/ HandlePut(msg) \/ AckLookup(msg)

Next ==
  \/ \E w \in Writes, n \in Nodes, k \in Keys, t \in 0..MaxStamp : StartPut(w, n, k, t)
  \/ \E w \in Writes : PutStep(w)
  \/ \E msg \in net : Handle(msg)
  \/ \E a \in acking : AckCount(a)
  \/ \E n \in Nodes : cleanupSeenMessages(n)
  \/ \E n, m \in Nodes : PeerChange(n, m)

Spec == Init /\ [][Next]_vars

-----------------------------------------------------------------------------
(* Properties.                                                             *)
Started(w) == op[w].phase # "new"

\* Every variable has its type; only writes that started are registered, and
\* no write is sent to the node it came from.
TypeOK ==
  /\ op \in [Writes -> Operation]
  /\ \A w \in Writes :
       /\ Started(w) => op[w].node \in Nodes /\ op[w].id \in MessageIDs
       /\ op[w].node \notin op[w].targets
  /\ pending \in [Nodes -> [MessageIDs -> Writes \cup {None}]]
  /\ \A n \in Nodes, id \in MessageIDs :
       pending[n][id] # None => Started(pending[n][id])
  /\ store \in [Nodes -> [Keys -> Writes \cup {None}]]
  /\ seen \in [Nodes -> Seq(MessageIDs)]
  /\ peers \in [Nodes -> SUBSET Nodes]
  /\ \A n \in Nodes : n \notin peers[n]
  /\ net \in SUBSET Message
  /\ acking \in SUBSET [write : Writes, from : Nodes]
  /\ \A a \in acking : Started(a.write)
  /\ applied \in [Nodes -> SUBSET Writes]
  /\ clock \in Nat /\ churn \in Nat

Holders(w) == {n \in Nodes : w \in applied[n]}

\* A write is reported confirmed (201) only when as many distinct nodes hold
\* it as the threshold that was applied: the ACK handler counts messages, not
\* senders, so this rests on every replica acknowledging at most once.  And a
\* Put that knew replication peers reports success (201 or 202) only after it
\* has sent the write through enclave gossip.
QuorumHeld ==
  \A w \in Writes :
    /\ op[w].complete => Cardinality(Holders(w)) >= op[w].needed
    /\ op[w].phase \in {"created", "accepted"} /\ op[w].knew # {} => op[w].sent

\* pendingWrites holds exactly the writes whose Put has not returned, each
\* under its own MessageID: no path out of Put leaks an entry, and no write
\* loses its entry to another while it still waits for acknowledgements.
PendingExact ==
  /\ \A w \in Writes :
       op[w].phase \in Active => pending[op[w].node][op[w].id] = w
  /\ \A n \in Nodes, id \in MessageIDs :
       pending[n][id] # None =>
         LET w == pending[n][id]
         IN op[w].phase \in Active /\ op[w].node = n /\ op[w].id = id

\* A node stores a given write at most once, so a late copy of an old write
\* never replaces a newer value, at its originator either.
AppliedOnce ==
  [][\A n \in Nodes, k \in Keys :
       (store'[n][k] # store[n][k]) => store'[n][k] \notin applied[n]]_vars

(***************************************************************************)
(* Liveness.  The goroutine of a Put and every delivered request are       *)
(* scheduled; the write timer fires.                                       *)
(***************************************************************************)
Progress(w) ==
  \/ LocalPutFails(w) \/ LocalPut(w) \/ LocalQuorum(w) \/ BroadcastToEnclave(w)
  \/ (\E m \in Nodes : SendPut(w, m)) \/ AllSent(w)
  \/ PutConfirmed(w) \/ PutTimesOut(w)

Fairness ==
  /\ \A w \in Writes : WF_vars(Progress(w))
  /\ WF_vars(\E msg \in net : Handle(msg))
  /\ WF_vars(\E a \in acking : AckCount(a))

LiveSpec == Spec /\ Fairness

\* Every Put returns to its client, whatever is lost.
PutAlwaysReturns ==
  \A w \in Writes : (op[w].phase \in Active) ~> (op[w].phase \in Ended)
=============================================================================
