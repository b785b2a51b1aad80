-------------------------- MODULE ReplicationProofs --------------------------
(***************************************************************************)
(* Proofs about Replication, for every enclave, set of writes, replication *)
(* factor, fanout threshold and cache size.                                *)
(***************************************************************************)
EXTENDS Replication, FiniteSetTheorems, FunctionTheorems, SequenceTheorems, TLAPS

\* A quorum is a positive number, and at least two where a peer is known and
\* the replication factor asks for more than one copy.
LEMMA QuorumPositive ==
  ASSUME NEW n \in Nodes, peers[n] \in SUBSET Nodes
  PROVE  /\ quorumSize(n) \in Nat
         /\ (peers[n] # {} /\ ReplicationFactor >= 2) => quorumSize(n) >= 2
<1>1. IsFiniteSet(peers[n])
  BY ReplicationAssumption, FS_Subset
<1>2. Cardinality(peers[n]) \in Nat /\ (peers[n] # {} => Cardinality(peers[n]) # 0)
  BY <1>1, FS_CardinalityType, FS_EmptySet
<1> DEFINE c == Cardinality(peers[n])
           e == IF ReplicationFactor < c + 1 THEN ReplicationFactor ELSE c + 1
<1>3. e \in Nat /\ ((c # 0 /\ ReplicationFactor >= 2) => e >= 2)
  BY <1>2, ReplicationAssumption
<1>4. quorumSize(n) = e \div 2 + 1
  BY DEF quorumSize
<1> HIDE DEF e
<1> QED BY <1>2, <1>3, <1>4

LEMMA SelectedArePeers ==
  ASSUME NEW C, NEW k, NEW T \in selectRandomPeers(C, k)
  PROVE  T \in SUBSET C
BY DEF selectRandomPeers, kSubset

LEMMA TargetsArePeers ==
  ASSUME NEW n \in Nodes, NEW from
  PROVE  /\ \A T \in BroadcastTargets(n) : T \in SUBSET peers[n]
         /\ \A T \in ForwardTargets(n, from) : T \in SUBSET peers[n]
<1>1. ASSUME NEW T \in BroadcastTargets(n) PROVE T \in SUBSET peers[n]
  BY <1>1, SelectedArePeers DEF BroadcastTargets
<1>2. ASSUME NEW T \in ForwardTargets(n, from) PROVE T \in SUBSET peers[n]
  <2>1. CASE Cardinality(peers[n]) <= FanoutThreshold
    BY <1>2, <2>1 DEF ForwardTargets
  <2>2. CASE ~(Cardinality(peers[n]) <= FanoutThreshold)
    <3>1. T \in SUBSET (peers[n] \ {from})
      BY <1>2, <2>2, SelectedArePeers DEF ForwardTargets
    <3> QED BY <3>1
  <2> QED BY <2>1, <2>2
<1> QED BY <1>1, <1>2

LEMMA CacheStaysSequence ==
  ASSUME NEW n \in Nodes, seen[n] \in Seq(MessageIDs), NEW id \in MessageIDs,
         NEW c \in MarkSeen(n, id)
  PROVE  c \in Seq(MessageIDs)
<1>1. ASSUME NEW d \in evictSeenLocked(n) PROVE d \in Seq(MessageIDs)
  <2>1. PICK i \in (IF CoarseClock THEN 0 ELSE 1)..Len(seen[n]) :
               d = SubSeq(seen[n], i + 1, Len(seen[n]))
    BY <1>1 DEF evictSeenLocked
  <2>2. i \in Nat /\ Len(seen[n]) \in Nat
    BY <2>1
  <2> QED BY <2>1, <2>2
<1>2. PICK d \in Seq(MessageIDs) : c = Append(d, id)
  BY <1>1 DEF MarkSeen
<1> QED BY <1>2

LEMMA DeliveredAreSent ==
  ASSUME NEW msgs, NEW d \in Delivered(msgs)
  PROVE  d \in SUBSET msgs
BY DEF Delivered

\* What TypeOK says of the operations, and that they never start over.
OpOK(o) ==
  /\ o \in Operation
  /\ o.phase # "new" => o.node \in Nodes /\ o.id \in MessageIDs
  /\ o.node \notin o.targets

OpsOK ==
  /\ op \in [Writes -> Operation]
  /\ \A w \in Writes :
       /\ Started(w) => op[w].node \in Nodes /\ op[w].id \in MessageIDs
       /\ op[w].node \notin op[w].targets

LEMMA OpUpdate ==
  ASSUME OpsOK, NEW w \in Writes, NEW o, OpOK(o), op' = [op EXCEPT ![w] = o]
  PROVE  OpsOK' /\ op'[w] = o /\ \A v \in Writes \ {w} : op'[v] = op[v]
BY DEF OpsOK, OpOK, Started

\* A step that leaves the operations' starts, pendingWrites' entries and the
\* ACK handlers alone, or only takes some away, keeps them well typed.
RegistersOK ==
  /\ pending \in [Nodes -> [MessageIDs -> Writes \cup {None}]]
  /\ \A n \in Nodes, id \in MessageIDs :
       pending[n][id] # None => Started(pending[n][id])
  /\ acking \in SUBSET [write : Writes, from : Nodes]
  /\ \A a \in acking : Started(a.write)

LEMMA RegistersKept ==
  ASSUME RegistersOK, \A w \in Writes : Started(w) => Started(w)',
         pending' = pending \/ \E n \in Nodes, id \in MessageIDs : Forget(n, id),
         acking' \in SUBSET acking
  PROVE  RegistersOK'
<1>1. pending' \in [Nodes -> [MessageIDs -> Writes \cup {None}]]
  BY DEF RegistersOK, Forget
<1>2. \A n \in Nodes, id \in MessageIDs : pending'[n][id] \in {None, pending[n][id]}
  BY DEF RegistersOK, Forget
<1>3. \A n \in Nodes, id \in MessageIDs : pending[n][id] \in Writes \cup {None}
  BY DEF RegistersOK
<1>4. ASSUME NEW n \in Nodes, NEW id \in MessageIDs, pending'[n][id] # None
      PROVE  op'[pending'[n][id]].phase # "new"
  <2>1. pending'[n][id] = pending[n][id] /\ pending[n][id] \in Writes
    BY <1>2, <1>3, <1>4
  <2>2. Started(pending[n][id])
    BY <1>4, <2>1 DEF RegistersOK
  <2> QED BY <2>1, <2>2 DEF Started
<1>5. \A a \in acking' : op'[a.write].phase # "new"
  BY DEF RegistersOK, Started
<1> QED BY <1>1, <1>4, <1>5 DEF RegistersOK, Started

LEMMA TypeParts == TypeOK => OpsOK /\ RegistersOK
BY DEF TypeOK, OpsOK, RegistersOK

-----------------------------------------------------------------------------
\* Every variable keeps its type; no write is ever sent to its own node.
THEOREM TypeCorrect == Spec => []TypeOK
<1>1. Init => TypeOK
  <2> SUFFICES ASSUME Init PROVE TypeOK
    OBVIOUS
  <2>1. NotStarted \in Operation /\ NotStarted.phase = "new"
        /\ NotStarted.targets = {}
    BY DEF NotStarted, Operation, Active, Ended
  <2>2. op \in [Writes -> Operation]
    BY <2>1 DEF Init
  <2>3. \A w \in Writes : op[w].phase = "new" /\ op[w].targets = {}
    BY <2>1 DEF Init
  <2> QED BY <2>2, <2>3, ReplicationAssumption DEF Init, TypeOK, Started
<1>2. TypeOK /\ [Next]_vars => TypeOK'
  <2> SUFFICES ASSUME TypeOK, [Next]_vars PROVE TypeOK'
    OBVIOUS
  <2>0. OpsOK /\ RegistersOK
    BY TypeParts
  <2>1. ASSUME NEW w \in Writes, NEW n \in Nodes, NEW k \in Keys, NEW t \in 0..MaxStamp,
               StartPut(w, n, k, t)
        PROVE  TypeOK'
    <3>1. t \in 1..MaxStamp /\ <<k, t>> \in MessageIDs /\ t \in Nat
      BY <2>1 DEF StartPut, MessageIDs
    <3>2. quorumSize(n) \in Nat
      BY QuorumPositive DEF TypeOK
    <3> DEFINE o == [NotStarted EXCEPT !.phase = "registered", !.node = n,
                       !.id = <<k, t>>, !.quorum = quorumSize(n),
                       !.confirmations = 1, !.knew = peers[n]]
    <3>3. OpOK(o) /\ o.phase # "new"
      BY <3>1, <3>2 DEF OpOK, NotStarted, Operation, Active, Ended, TypeOK
    <3>4. op' = [op EXCEPT ![w] = o]
      BY <2>1 DEF StartPut
    <3> HIDE DEF o
    <3>5. OpsOK' /\ op'[w] = o /\ \A v \in Writes \ {w} : op'[v] = op[v]
      BY <2>0, <3>3, <3>4, OpUpdate
    <3>6. \A v \in Writes : Started(v) \/ v = w => Started(v)'
      BY <3>3, <3>5 DEF Started
    <3>7. pending' = [pending EXCEPT ![n][<<k, t>>] = w]
      BY <2>1 DEF StartPut
    <3>8. pending' \in [Nodes -> [MessageIDs -> Writes \cup {None}]]
      BY <3>1, <3>7 DEF TypeOK
    <3>9. \A m \in Nodes, id \in MessageIDs : pending'[m][id] \in {w, pending[m][id]}
      BY <3>1, <3>7 DEF TypeOK
    <3>10. ASSUME NEW m \in Nodes, NEW id \in MessageIDs, pending'[m][id] # None
           PROVE  op'[pending'[m][id]].phase # "new"
      <4>1. pending'[m][id] \in Writes
        BY <3>8, <3>10
      <4>2. pending'[m][id] = w \/ op[pending'[m][id]].phase # "new"
        BY <3>9, <3>10 DEF TypeOK, Started
      <4> QED BY <3>6, <4>1, <4>2 DEF Started
    <3>11. \A a \in acking : op'[a.write].phase # "new"
      BY <3>6 DEF TypeOK, Started
    <3>12. clock' \in Nat /\ UNCHANGED <<store, seen, peers, net, acking, applied, churn>>
      BY <2>1, <3>1 DEF StartPut
    <3> QED BY <3>5, <3>8, <3>10, <3>11, <3>12 DEF TypeOK, OpsOK, Started
  <2>2. ASSUME NEW w \in Writes, PutStep(w) PROVE TypeOK'
    <3> DEFINE n == op[w].node
    <3>1. op[w] \in Operation /\ n \notin op[w].targets
      BY DEF TypeOK
    <3>2. op[w].phase \in Active => n \in Nodes /\ op[w].id \in MessageIDs
      BY DEF TypeOK, Active, Started
    <3>3. ASSUME NEW o, OpOK(o), o.phase # "new", op' = [op EXCEPT ![w] = o],
                 pending' = pending \/ (n \in Nodes /\ op[w].id \in MessageIDs
                                         /\ Forget(n, op[w].id)),
                 store' \in [Nodes -> [Keys -> Writes \cup {None}]],
                 seen' \in [Nodes -> Seq(MessageIDs)],
                 net' \in SUBSET Message,
                 applied' \in [Nodes -> SUBSET Writes],
                 UNCHANGED <<peers, acking, clock, churn>>
          PROVE  TypeOK'
      <4>1. OpsOK' /\ op'[w] = o /\ \A v \in Writes \ {w} : op'[v] = op[v]
        BY <2>0, <3>3, OpUpdate
      <4>2. \A v \in Writes : Started(v) => Started(v)'
        BY <3>3, <4>1 DEF Started
      <4>3. pending' = pending \/ \E m \in Nodes, id \in MessageIDs : Forget(m, id)
        BY <3>3
      <4>4. acking' \in SUBSET acking
        BY <3>3
      <4>5. RegistersOK'
        BY <2>0, <4>2, <4>3, <4>4, RegistersKept
      <4> QED BY <3>3, <4>1, <4>5 DEF TypeOK, OpsOK, RegistersOK
    <3>4. ASSUME NEW p \in Ended \cup {"stored", "waiting"}, op[w].phase \in Active
          PROVE  /\ OpOK([op[w] EXCEPT !.phase = p])
                 /\ [op[w] EXCEPT !.phase = p].phase # "new"
      BY <3>1, <3>2, <3>4 DEF OpOK, Operation, Active, Ended
    <3>5. CASE LocalPutFails(w)
      <4>1. op' = [op EXCEPT ![w] = [op[w] EXCEPT !.phase = "full"]]
            /\ Forget(n, op[w].id) /\ op[w].phase \in Active
            /\ UNCHANGED <<store, seen, peers, net, acking, applied, clock, churn>>
        BY <3>5 DEF LocalPutFails, Active
      <4>2. "full" \in Ended
        BY DEF Ended
      <4> QED BY <3>2, <3>3, <3>4, <4>1, <4>2 DEF TypeOK
    <3>6. CASE LocalPut(w)
      <4>1. op[w].id[1] \in Keys
        BY <3>2, <3>6 DEF LocalPut, Active, MessageIDs
      <4>2. store' \in [Nodes -> [Keys -> Writes \cup {None}]]
            /\ applied' \in [Nodes -> SUBSET Writes]
        BY <3>2, <3>6, <4>1 DEF LocalPut, TypeOK, Active
      <4>3. op[w].phase \in Active
            /\ op' = [op EXCEPT ![w] = [op[w] EXCEPT !.phase = "stored"]]
            /\ UNCHANGED <<pending, seen, peers, net, acking, clock, churn>>
        BY <3>6 DEF LocalPut, Active
      <4> QED BY <3>3, <3>4, <4>2, <4>3 DEF TypeOK
    <3>7. CASE LocalQuorum(w)
      <4> DEFINE o == [op[w] EXCEPT !.phase = "created", !.complete = TRUE,
                                    !.needed = op[w].quorum]
      <4>1. op[w].phase \in Active
        BY <3>7 DEF LocalQuorum, Active
      <4>2. OpOK(o) /\ o.phase # "new"
        BY <3>1, <3>2, <4>1 DEF OpOK, Operation, Ended
      <4>3. op' = [op EXCEPT ![w] = o] /\ Forget(n, op[w].id)
            /\ UNCHANGED <<store, seen, peers, net, acking, applied, clock, churn>>
        BY <3>7 DEF LocalQuorum
      <4> HIDE DEF o
      <4> QED BY <3>2, <3>3, <4>1, <4>2, <4>3 DEF TypeOK
    <3>8. CASE BroadcastToEnclave(w)
      <4>1. n \in Nodes /\ op[w].id \in MessageIDs
        BY <3>2, <3>8 DEF BroadcastToEnclave, Active
      <4>2. seen' \in [Nodes -> Seq(MessageIDs)]
        <5>1. CASE UNCHANGED seen
          BY <5>1 DEF TypeOK
        <5>2. ASSUME NEW c \in MarkSeen(n, op[w].id), seen' = [seen EXCEPT ![n] = c]
              PROVE  seen' \in [Nodes -> Seq(MessageIDs)]
          <6>1. c \in Seq(MessageIDs)
            BY <4>1, CacheStaysSequence DEF TypeOK
          <6> QED BY <5>2, <6>1 DEF TypeOK
        <5> QED BY <3>8, <5>1, <5>2 DEF BroadcastToEnclave
      <4>3. PICK T \in BroadcastTargets(n) :
                   op' = [op EXCEPT ![w] = [op[w] EXCEPT !.phase = "sending",
                                              !.targets = T, !.sent = TRUE]]
        BY <3>8 DEF BroadcastToEnclave
      <4>4. T \in SUBSET peers[n] /\ n \notin peers[n] /\ peers[n] \in SUBSET Nodes
        <5>1. n \notin peers[n] /\ peers[n] \in SUBSET Nodes
          BY <4>1 DEF TypeOK
        <5> HIDE DEF n
        <5>2. T \in SUBSET peers[n]
          BY <4>1, <4>3, TargetsArePeers DEF TypeOK
        <5> QED BY <5>1, <5>2
      <4> DEFINE o == [op[w] EXCEPT !.phase = "sending", !.targets = T, !.sent = TRUE]
      <4>5. OpOK(o) /\ o.phase # "new"
        BY <3>1, <4>1, <4>4 DEF OpOK, Operation, Active
      <4>6. op' = [op EXCEPT ![w] = o]
            /\ UNCHANGED <<pending, store, peers, net, acking, applied, clock, churn>>
        BY <3>8, <4>3 DEF BroadcastToEnclave
      <4> HIDE DEF o
      <4> QED BY <3>3, <4>2, <4>5, <4>6 DEF TypeOK
    <3>9. ASSUME NEW m \in Nodes, SendPut(w, m) PROVE TypeOK'
      <4>1. n \in Nodes /\ op[w].id \in MessageIDs
        BY <3>2, <3>9 DEF SendPut, Active
      <4> DEFINE msg == [type |-> "PUT", from |-> n, to |-> m, id |-> op[w].id, write |-> w]
                 o == [op[w] EXCEPT !.targets = @ \ {m}]
      <4>2. msg \in Message
        BY <4>1 DEF Message
      <4>3. net' \in SUBSET Message
        <5>1. PICK d \in Delivered({msg}) : net' = net \cup d
          BY <3>9 DEF SendPut
        <5> QED BY <4>2, <5>1, DeliveredAreSent DEF TypeOK
      <4>4. OpOK(o) /\ o.phase # "new"
        BY <3>1, <3>9, <4>1 DEF OpOK, Operation, SendPut
      <4>5. op' = [op EXCEPT ![w] = o]
            /\ UNCHANGED <<pending, store, seen, peers, acking, applied, clock, churn>>
        BY <3>9 DEF SendPut
      <4> HIDE DEF o
      <4> QED BY <3>3, <4>3, <4>4, <4>5 DEF TypeOK
    <3>10. CASE AllSent(w)
      <4>1. op' = [op EXCEPT ![w] = [op[w] EXCEPT !.phase = "waiting"]]
            /\ op[w].phase \in Active
            /\ UNCHANGED <<pending, store, seen, peers, net, acking, applied, clock, churn>>
        BY <3>10 DEF AllSent, Active
      <4> QED BY <3>3, <3>4, <4>1 DEF TypeOK
    <3>11. ASSUME NEW p \in Ended, PutReturns(w, p) PROVE TypeOK'
      <4>1. op[w].phase \in Active /\ op' = [op EXCEPT ![w] = [op[w] EXCEPT !.phase = p]]
            /\ Forget(n, op[w].id)
            /\ UNCHANGED <<store, seen, peers, net, acking, applied, clock, churn>>
        BY <3>11 DEF PutReturns, Active
      <4> QED BY <3>2, <3>3, <3>4, <4>1 DEF TypeOK
    <3> QED BY <2>2, <3>5, <3>6, <3>7, <3>8, <3>9, <3>10, <3>11
            DEF PutStep, PutConfirmed, PutTimesOut, PutCancelled, Ended
  <2>3. ASSUME NEW msg \in net, Handle(msg) PROVE TypeOK'
    <3>1. msg \in Message
      BY DEF TypeOK
    <3>2. msg.to \in Nodes /\ msg.from \in Nodes /\ msg.id \in MessageIDs
      BY <3>1 DEF Message
    <3>3. CASE HandleDuplicate(msg)
      BY <3>3 DEF HandleDuplicate, TypeOK, Started
    <3>4. CASE HandlePutFull(msg)
      <4>1. seen' \in [Nodes -> Seq(MessageIDs)]
        BY <3>2, <3>4, CacheStaysSequence DEF HandlePutFull, TypeOK
      <4>2. net' \in SUBSET Message
            /\ UNCHANGED <<op, pending, store, peers, acking, applied, clock, churn>>
        BY <3>4 DEF HandlePutFull, TypeOK
      <4> QED BY <4>1, <4>2 DEF TypeOK, Started
    <3>5. CASE HandlePut(msg)
      <4> DEFINE n == msg.to
                 ack == [type |-> "ACK", from |-> n, to |-> msg.from, id |-> msg.id]
                 acks == IF msg.from \in peers[n] THEN {ack} ELSE {}
      <4>1. seen' \in [Nodes -> Seq(MessageIDs)]
        BY <3>2, <3>5, CacheStaysSequence DEF HandlePut, TypeOK
      <4>2. msg.type = "PUT"
        BY <3>5 DEF HandlePut
      <4>3. msg \in [type : {"PUT"}, from : Nodes, to : Nodes, id : MessageIDs,
                     write : Writes]
        BY <3>1, <4>2 DEF Message
      <4>4. acks \in SUBSET Message
        BY <3>2 DEF Message
      <4>5. \A m \in Nodes : [msg EXCEPT !.to = m] \in Message
        BY <4>3 DEF Message
      <4>6. PICK T \in ForwardTargets(n, msg.from) :
                   \E d \in Delivered(acks \cup {[msg EXCEPT !.to = m] : m \in T}) :
                      net' = (net \ {msg}) \cup d
        BY <3>5 DEF HandlePut
      <4>7. T \in SUBSET Nodes
        BY <3>2, <4>6, TargetsArePeers DEF TypeOK
      <4>8. net' \in SUBSET Message
        <5> DEFINE out == acks \cup {[msg EXCEPT !.to = m] : m \in T}
        <5>1. out \in SUBSET Message
          BY <4>4, <4>5, <4>7
        <5>2. PICK d \in Delivered(out) : net' = (net \ {msg}) \cup d
          BY <4>6
        <5> HIDE DEF out
        <5> QED BY <5>1, <5>2, DeliveredAreSent DEF TypeOK
      <4>9. msg.write \in Writes /\ msg.id[1] \in Keys
        BY <4>3 DEF MessageIDs
      <4>10. store' \in [Nodes -> [Keys -> Writes \cup {None}]]
             /\ applied' \in [Nodes -> SUBSET Writes]
             /\ UNCHANGED <<op, pending, peers, acking, clock, churn>>
        BY <3>2, <3>5, <4>9 DEF HandlePut, TypeOK
      <4> QED BY <4>1, <4>8, <4>10 DEF TypeOK, Started
    <3>6. CASE AckLookup(msg)
      <4> DEFINE w == pending[msg.to][msg.id]
      <4>1. w \in Writes \cup {None} /\ (w # None => Started(w))
        BY <3>2 DEF TypeOK
      <4>2. acking' \in SUBSET (acking \cup
              (IF w = None THEN {} ELSE {[write |-> w, from |-> msg.from]}))
        BY <3>6 DEF AckLookup
      <4>3. acking' \in SUBSET [write : Writes, from : Nodes]
            /\ \A a \in acking' : Started(a.write)
        BY <3>2, <4>1, <4>2 DEF TypeOK
      <4> QED BY <3>6, <4>3 DEF AckLookup, TypeOK, Started
    <3> QED BY <2>3, <3>3, <3>4, <3>5, <3>6 DEF Handle
  <2>4. ASSUME NEW a \in acking, AckCount(a) PROVE TypeOK'
    <3> DEFINE w == a.write
               count == op[w].confirmations + 1
               reached == count >= quorumSize(op[w].node)
               need == IF reached /\ ~op[w].complete
                         THEN quorumSize(op[w].node) ELSE op[w].needed
               o == [op[w] EXCEPT !.confirmations = count,
                                  !.complete = op[w].complete \/ reached,
                                  !.needed = need]
    <3>1. w \in Writes /\ Started(w)
      BY DEF TypeOK
    <3>2. op[w] \in Operation /\ op[w].node \in Nodes /\ op[w].id \in MessageIDs
          /\ op[w].node \notin op[w].targets
      BY <3>1 DEF TypeOK
    <3>3. count \in Nat /\ quorumSize(op[w].node) \in Nat
      BY <3>2, QuorumPositive DEF Operation, TypeOK
    <3>4. need \in Nat
      BY <3>2, <3>3 DEF Operation
    <3>5. OpOK(o) /\ o.phase # "new"
      <4> DEFINE done == op[w].complete \/ reached
      <4>1. done \in BOOLEAN
        OBVIOUS
      <4>2. o = [op[w] EXCEPT !.confirmations = count, !.complete = done, !.needed = need]
        OBVIOUS
      <4> HIDE DEF done, count, need, o
      <4> QED BY <3>1, <3>2, <3>3, <3>4, <4>1, <4>2 DEF OpOK, Operation, Started
    <3>6. op' = [op EXCEPT ![w] = o] /\ acking' = acking \ {a}
          /\ UNCHANGED <<pending, store, seen, peers, net, applied, clock, churn>>
      BY <2>4 DEF AckCount
    <3> HIDE DEF o
    <3>7. OpsOK' /\ op'[w] = o /\ \A v \in Writes \ {w} : op'[v] = op[v]
      BY <2>0, <3>1, <3>5, <3>6, OpUpdate
    <3>8. \A v \in Writes : Started(v) => Started(v)'
      BY <3>5, <3>7 DEF Started
    <3>9. RegistersOK'
      BY <2>0, <3>6, <3>8, RegistersKept
    <3> QED BY <3>6, <3>7, <3>9 DEF TypeOK, OpsOK, RegistersOK
  <2>5. ASSUME NEW n \in Nodes, cleanupSeenMessages(n) PROVE TypeOK'
    <3>1. Tail(seen[n]) \in Seq(MessageIDs)
      BY <2>5 DEF cleanupSeenMessages, TypeOK
    <3> QED BY <2>5, <3>1 DEF cleanupSeenMessages, TypeOK, Started
  <2>6. ASSUME NEW n \in Nodes, NEW m \in Nodes, PeerChange(n, m) PROVE TypeOK'
    BY <2>6 DEF PeerChange, TypeOK, Started
  <2>7. CASE UNCHANGED vars
    BY <2>7 DEF vars, TypeOK, Started
  <2> QED BY <2>1, <2>2, <2>3, <2>4, <2>5, <2>6, <2>7 DEF Next
<1> QED BY <1>1, <1>2, PTL DEF Spec

-----------------------------------------------------------------------------
(***************************************************************************)
(* pendingWrites.  A step of Next starts a Put, ends one, or does neither; *)
(* only the first two touch pendingWrites.                                 *)
(***************************************************************************)
SameRegistration(v) ==
  /\ op'[v].node = op[v].node /\ op'[v].id = op[v].id
  /\ op'[v].phase \in Active <=> op[v].phase \in Active
  /\ op'[v].phase = "new" <=> op[v].phase = "new"

Quiet ==
  /\ UNCHANGED <<pending, clock>>
  /\ \A v \in Writes : SameRegistration(v)

Ends(w) ==
  /\ op[w].phase \in Active
  /\ op'[w].phase \in Ended /\ op'[w].node = op[w].node /\ op'[w].id = op[w].id
  /\ \A v \in Writes \ {w} : op'[v] = op[v]
  /\ Forget(op[w].node, op[w].id)
  /\ clock' = clock

LEMMA QuietUpdate ==
  ASSUME TypeOK, NEW w \in Writes, NEW o, op' = [op EXCEPT ![w] = o],
         o.node = op[w].node, o.id = op[w].id,
         o.phase \in Active <=> op[w].phase \in Active,
         o.phase = "new" <=> op[w].phase = "new",
         UNCHANGED <<pending, clock>>
  PROVE  Quiet
BY DEF Quiet, SameRegistration, TypeOK

LEMMA EndUpdate ==
  ASSUME TypeOK, NEW w \in Writes, NEW o, op' = [op EXCEPT ![w] = o],
         op[w].phase \in Active, o.phase \in Ended,
         o.node = op[w].node, o.id = op[w].id,
         Forget(op[w].node, op[w].id), clock' = clock
  PROVE  Ends(w)
BY DEF Ends, TypeOK

LEMMA StepKinds ==
  ASSUME TypeOK, [Next]_vars
  PROVE  \/ \E w \in Writes, n \in Nodes, k \in Keys, t \in 0..MaxStamp : StartPut(w, n, k, t)
         \/ Quiet
         \/ \E w \in Writes : Ends(w)
<1>1. ASSUME NEW w \in Writes, PutStep(w) PROVE Quiet \/ Ends(w)
  <2>1. op[w] \in Operation
    BY DEF TypeOK
  <2>2. CASE LocalPutFails(w)
    <3> DEFINE o == [op[w] EXCEPT !.phase = "full"]
    <3>1. op' = [op EXCEPT ![w] = o] /\ op[w].phase \in Active
          /\ Forget(op[w].node, op[w].id) /\ clock' = clock
      BY <2>2 DEF LocalPutFails, Active
    <3>2. o.phase \in Ended /\ o.node = op[w].node /\ o.id = op[w].id
      BY <2>1 DEF Operation, Ended
    <3> HIDE DEF o
    <3> QED BY <3>1, <3>2, EndUpdate
  <2>3. CASE LocalPut(w)
    <3> DEFINE o == [op[w] EXCEPT !.phase = "stored"]
    <3>1. op' = [op EXCEPT ![w] = o] /\ op[w].phase = "registered"
          /\ UNCHANGED <<pending, clock>>
      BY <2>3 DEF LocalPut
    <3>2. o.phase = "stored" /\ o.node = op[w].node /\ o.id = op[w].id
      BY <2>1 DEF Operation
    <3> HIDE DEF o
    <3> QED BY <3>1, <3>2, QuietUpdate DEF Active
  <2>4. CASE LocalQuorum(w)
    <3> DEFINE o == [op[w] EXCEPT !.phase = "created", !.complete = TRUE,
                                  !.needed = op[w].quorum]
    <3>1. op' = [op EXCEPT ![w] = o] /\ op[w].phase \in Active
          /\ Forget(op[w].node, op[w].id) /\ clock' = clock
      BY <2>4 DEF LocalQuorum, Active
    <3>2. o.phase \in Ended /\ o.node = op[w].node /\ o.id = op[w].id
      BY <2>1 DEF Operation, Ended
    <3> HIDE DEF o
    <3> QED BY <3>1, <3>2, EndUpdate
  <2>5. CASE BroadcastToEnclave(w)
    <3>1. PICK T : op' = [op EXCEPT ![w] = [op[w] EXCEPT !.phase = "sending",
                                              !.targets = T, !.sent = TRUE]]
      BY <2>5 DEF BroadcastToEnclave
    <3> DEFINE o == [op[w] EXCEPT !.phase = "sending", !.targets = T, !.sent = TRUE]
    <3>2. op' = [op EXCEPT ![w] = o] /\ op[w].phase = "stored"
          /\ UNCHANGED <<pending, clock>>
      BY <2>5, <3>1 DEF BroadcastToEnclave
    <3>3. o.phase = "sending" /\ o.node = op[w].node /\ o.id = op[w].id
      BY <2>1 DEF Operation
    <3> HIDE DEF o
    <3> QED BY <3>2, <3>3, QuietUpdate DEF Active
  <2>6. ASSUME NEW m \in Nodes, SendPut(w, m) PROVE Quiet
    <3> DEFINE o == [op[w] EXCEPT !.targets = @ \ {m}]
    <3>1. op' = [op EXCEPT ![w] = o] /\ UNCHANGED <<pending, clock>>
      BY <2>6 DEF SendPut
    <3>2. o.phase = op[w].phase /\ o.node = op[w].node /\ o.id = op[w].id
      BY <2>1 DEF Operation
    <3> HIDE DEF o
    <3> QED BY <3>1, <3>2, QuietUpdate
  <2>7. CASE AllSent(w)
    <3> DEFINE o == [op[w] EXCEPT !.phase = "waiting"]
    <3>1. op' = [op EXCEPT ![w] = o] /\ op[w].phase = "sending"
          /\ UNCHANGED <<pending, clock>>
      BY <2>7 DEF AllSent
    <3>2. o.phase = "waiting" /\ o.node = op[w].node /\ o.id = op[w].id
      BY <2>1 DEF Operation
    <3> HIDE DEF o
    <3> QED BY <3>1, <3>2, QuietUpdate DEF Active
  <2>8. ASSUME NEW p \in Ended, PutReturns(w, p) PROVE Ends(w)
    <3> DEFINE o == [op[w] EXCEPT !.phase = p]
    <3>1. op' = [op EXCEPT ![w] = o] /\ op[w].phase \in Active
          /\ Forget(op[w].node, op[w].id) /\ clock' = clock
      BY <2>8 DEF PutReturns, Active
    <3>2. o.phase \in Ended /\ o.node = op[w].node /\ o.id = op[w].id
      BY <2>1 DEF Operation
    <3> HIDE DEF o
    <3> QED BY <3>1, <3>2, EndUpdate
  <2> QED BY <1>1, <2>2, <2>3, <2>4, <2>5, <2>6, <2>7, <2>8
          DEF PutStep, PutConfirmed, PutTimesOut, PutCancelled, Ended
<1>2. ASSUME NEW a \in acking, AckCount(a) PROVE Quiet
  <2> DEFINE w == a.write
  <2>1. w \in Writes /\ op[w] \in Operation
    BY DEF TypeOK
  <2>2. PICK c, f, x : op' = [op EXCEPT ![w] = [op[w] EXCEPT !.confirmations = c,
                                                  !.complete = f, !.needed = x]]
    BY <1>2 DEF AckCount
  <2> DEFINE o == [op[w] EXCEPT !.confirmations = c, !.complete = f, !.needed = x]
  <2>3. op' = [op EXCEPT ![w] = o] /\ UNCHANGED <<pending, clock>>
    BY <1>2, <2>2 DEF AckCount
  <2>4. o.phase = op[w].phase /\ o.node = op[w].node /\ o.id = op[w].id
    BY <2>1 DEF Operation
  <2> HIDE DEF o, w
  <2> QED BY <2>1, <2>3, <2>4, QuietUpdate
<1>3. ASSUME UNCHANGED <<op, pending, clock>> PROVE Quiet
  BY <1>3 DEF Quiet, SameRegistration
<1>4. ASSUME NEW msg \in net, Handle(msg) PROVE UNCHANGED <<op, pending, clock>>
  BY <1>4 DEF Handle, HandleDuplicate, HandlePutFull, HandlePut, AckLookup
<1>5. ASSUME NEW n \in Nodes, cleanupSeenMessages(n) PROVE UNCHANGED <<op, pending, clock>>
  BY <1>5 DEF cleanupSeenMessages
<1>6. ASSUME NEW n \in Nodes, NEW m \in Nodes, PeerChange(n, m)
      PROVE  UNCHANGED <<op, pending, clock>>
  BY <1>6 DEF PeerChange
<1>7. CASE UNCHANGED vars
  BY <1>3, <1>7 DEF vars
<1> QED BY <1>1, <1>2, <1>3, <1>4, <1>5, <1>6, <1>7 DEF Next

\* MessageIDs in use carry past readings of the clock, so that of a new write
\* is new: the strengthening that makes PendingExact inductive.
StampsPast == \A w \in Writes : Started(w) => op[w].id[2] <= clock

RegisterInv == PendingExact /\ StampsPast

LEMMA RegistersExact == ~CoarseClock => (Spec => []RegisterInv)
<1> SUFFICES ASSUME ~CoarseClock PROVE Spec => []RegisterInv
  OBVIOUS
<1> DEFINE IInv == PendingExact /\ StampsPast
<1>1. Init => IInv
  <2> SUFFICES ASSUME Init PROVE IInv
    OBVIOUS
  <2>1. \A w \in Writes : op[w].phase = "new"
    BY DEF Init, NotStarted
  <2>2. \A n \in Nodes, id \in MessageIDs : pending[n][id] = None
    BY DEF Init
  <2> QED BY <2>1, <2>2 DEF PendingExact, StampsPast, Started, Active
<1>2. TypeOK /\ TypeOK' /\ IInv /\ [Next]_vars => IInv'
  <2> SUFFICES ASSUME TypeOK, TypeOK', IInv, [Next]_vars PROVE IInv'
    OBVIOUS
  <2>0. /\ \A w \in Writes : op[w].phase \in Active =>
             op[w].node \in Nodes /\ op[w].id \in MessageIDs /\ op[w].phase # "new"
        /\ \A n \in Nodes, id \in MessageIDs : pending[n][id] \in Writes \cup {None}
        /\ \A n \in Nodes, id \in MessageIDs : pending'[n][id] \in Writes \cup {None}
        /\ None \notin Writes
    BY ReplicationAssumption DEF TypeOK, Active, Started
  <2>1. ASSUME NEW w \in Writes, NEW n \in Nodes, NEW k \in Keys, NEW t \in 0..MaxStamp,
               StartPut(w, n, k, t)
        PROVE  IInv'
    <3>1. t = clock + 1 /\ clock' = t /\ clock \in Nat /\ <<k, t>> \in MessageIDs
      BY <2>1 DEF StartPut, MessageIDs, TypeOK
    <3> DEFINE o == op'[w]
    <3>2. /\ op[w].phase = "new"
          /\ o.phase = "registered" /\ o.node = n /\ o.id = <<k, t>>
          /\ \A v \in Writes \ {w} : op'[v] = op[v]
      BY <2>1 DEF StartPut, NotStarted, TypeOK
    <3>3. /\ pending'[n][<<k, t>>] = w
          /\ \A m \in Nodes, id \in MessageIDs :
               (m # n \/ id # <<k, t>>) => pending'[m][id] = pending[m][id]
      BY <2>1, <3>1 DEF StartPut, TypeOK
    <3>4. \A v \in Writes : op[v].phase \in Active => op[v].id # <<k, t>>
      <4> SUFFICES ASSUME NEW v \in Writes, op[v].phase \in Active, op[v].id = <<k, t>>
                   PROVE  FALSE
        OBVIOUS
      <4>1. op[v].id[2] <= clock
        BY <2>0 DEF StampsPast, Started
      <4>2. op[v].id[2] = t
        OBVIOUS
      <4> QED BY <3>1, <4>1, <4>2
    <3>5. ASSUME NEW v \in Writes, op'[v].phase \in Active
          PROVE  pending'[op'[v].node][op'[v].id] = v
      <4>1. CASE v = w
        BY <3>2, <3>3, <4>1
      <4>2. CASE v # w
        <5>1. op'[v] = op[v] /\ op[v].phase \in Active
          BY <3>2, <3>5, <4>2
        <5>2. op[v].id # <<k, t>> /\ op[v].node \in Nodes /\ op[v].id \in MessageIDs
          BY <2>0, <3>4, <5>1
        <5>3. pending[op[v].node][op[v].id] = v
          BY <5>1 DEF PendingExact
        <5> QED BY <3>3, <5>1, <5>2, <5>3
      <4> QED BY <4>1, <4>2
    <3>6. ASSUME NEW m \in Nodes, NEW id \in MessageIDs, pending'[m][id] # None
          PROVE  LET v == pending'[m][id]
                 IN op'[v].phase \in Active /\ op'[v].node = m /\ op'[v].id = id
      <4>1. CASE m = n /\ id = <<k, t>>
        BY <3>2, <3>3, <4>1 DEF Active
      <4>2. CASE m # n \/ id # <<k, t>>
        <5> DEFINE v == pending[m][id]
        <5>1. pending'[m][id] = v /\ v # None /\ v \in Writes
          BY <2>0, <3>3, <3>6, <4>2
        <5>2. op[v].phase \in Active /\ op[v].node = m /\ op[v].id = id
          BY <5>1 DEF PendingExact
        <5>3. v # w
          BY <3>2, <5>2 DEF Active
        <5> HIDE DEF v
        <5>4. op'[v] = op[v]
          BY <3>2, <5>1, <5>3
        <5> QED BY <5>1, <5>2, <5>4
      <4> QED BY <4>1, <4>2
    <3>7. PendingExact'
      BY <3>5, <3>6 DEF PendingExact
    <3>8. ASSUME NEW v \in Writes, op'[v].phase # "new" PROVE op'[v].id[2] <= clock'
      <4>1. CASE v = w
        <5>1. op'[v].id[2] = t
          BY <3>2, <4>1
        <5> QED BY <3>1, <5>1
      <4>2. CASE v # w
        <5>1. op'[v] = op[v] /\ op[v].phase # "new"
          BY <3>2, <3>8, <4>2
        <5>2. op[v].id[2] <= clock /\ op[v].id[2] \in Int
          <6>1. op[v].id \in Keys \X (1..MaxStamp)
            BY <5>1 DEF TypeOK, Started, MessageIDs
          <6>2. op[v].id[2] \in 1..MaxStamp
            BY <6>1
          <6> QED BY <5>1, <6>2 DEF StampsPast, Started
        <5> QED BY <3>1, <5>1, <5>2
      <4> QED BY <4>1, <4>2
    <3> QED BY <3>7, <3>8 DEF StampsPast, Started
  <2>2. CASE Quiet
    <3>1. \A v \in Writes : SameRegistration(v)
      BY <2>2 DEF Quiet
    <3>2. pending' = pending /\ clock' = clock
      BY <2>2 DEF Quiet
    <3>3. ASSUME NEW v \in Writes, op'[v].phase \in Active
          PROVE  pending'[op'[v].node][op'[v].id] = v
      BY <3>1, <3>2, <3>3 DEF PendingExact, SameRegistration
    <3>4. ASSUME NEW m \in Nodes, NEW id \in MessageIDs, pending'[m][id] # None
          PROVE  LET v == pending'[m][id]
                 IN op'[v].phase \in Active /\ op'[v].node = m /\ op'[v].id = id
      <4> DEFINE v == pending[m][id]
      <4>1. v \in Writes /\ v # None /\ pending'[m][id] = v
        BY <2>0, <3>2, <3>4
      <4>2. op[v].phase \in Active /\ op[v].node = m /\ op[v].id = id
        BY <4>1 DEF PendingExact
      <4> HIDE DEF v
      <4> QED BY <3>1, <4>1, <4>2 DEF SameRegistration
    <3>5. PendingExact'
      BY <3>3, <3>4 DEF PendingExact
    <3>6. StampsPast'
      BY <3>1, <3>2 DEF StampsPast, Started, SameRegistration
    <3> QED BY <3>5, <3>6
  <2>3. ASSUME NEW w \in Writes, Ends(w) PROVE IInv'
    <3>1. /\ op[w].phase \in Active
          /\ op'[w].phase \in Ended /\ op'[w].node = op[w].node /\ op'[w].id = op[w].id
          /\ \A v \in Writes \ {w} : op'[v] = op[v]
          /\ clock' = clock
      BY <2>3 DEF Ends
    <3>2. op[w].node \in Nodes /\ op[w].id \in MessageIDs
      BY <2>0, <3>1
    <3>3. /\ pending'[op[w].node][op[w].id] = None
          /\ \A m \in Nodes, id \in MessageIDs :
               (m # op[w].node \/ id # op[w].id) => pending'[m][id] = pending[m][id]
      BY <2>3, <3>2 DEF Ends, Forget, TypeOK
    <3>4. pending[op[w].node][op[w].id] = w
      BY <3>1 DEF PendingExact
    <3>5. op'[w].phase \notin Active
      BY <3>1 DEF Active, Ended
    <3>6. ASSUME NEW v \in Writes, op'[v].phase \in Active
          PROVE  pending'[op'[v].node][op'[v].id] = v
      <4>1. v # w /\ op'[v] = op[v] /\ op[v].phase \in Active
        BY <3>1, <3>5, <3>6
      <4>2. pending[op[v].node][op[v].id] = v /\ op[v].node \in Nodes
            /\ op[v].id \in MessageIDs
        BY <2>0, <4>1 DEF PendingExact
      <4> QED BY <3>3, <3>4, <4>1, <4>2
    <3>7. ASSUME NEW m \in Nodes, NEW id \in MessageIDs, pending'[m][id] # None
          PROVE  LET v == pending'[m][id]
                 IN op'[v].phase \in Active /\ op'[v].node = m /\ op'[v].id = id
      <4> DEFINE v == pending[m][id]
      <4>1. (m # op[w].node \/ id # op[w].id) /\ pending'[m][id] = v
        BY <3>3, <3>7
      <4>2. v \in Writes /\ v # None
        BY <2>0, <3>7, <4>1
      <4>3. op[v].phase \in Active /\ op[v].node = m /\ op[v].id = id
        BY <4>2 DEF PendingExact
      <4> HIDE DEF v
      <4>4. v # w
        BY <4>1, <4>3
      <4> QED BY <3>1, <4>1, <4>2, <4>3, <4>4
    <3>8. PendingExact'
      BY <3>6, <3>7 DEF PendingExact
    <3>9. ASSUME NEW v \in Writes, op'[v].phase # "new" PROVE op'[v].id[2] <= clock'
      <4>1. op'[v].id = op[v].id /\ op[v].phase # "new"
        BY <2>0, <3>1, <3>9
      <4> QED BY <3>1, <4>1 DEF StampsPast, Started
    <3> QED BY <3>8, <3>9 DEF StampsPast, Started
  <2> QED BY <2>1, <2>2, <2>3, StepKinds
<1>3. IInv => RegisterInv
  BY DEF RegisterInv
<1> HIDE DEF IInv
<1> QED BY <1>1, <1>2, <1>3, TypeCorrect, PTL DEF Spec

\* If every reading of the clock is new, pendingWrites holds exactly the
\* writes whose Put has not returned, each under its own MessageID.
THEOREM PendingWritesExact == ~CoarseClock => (Spec => []PendingExact)
<1>1. RegisterInv => PendingExact
  BY DEF RegisterInv
<1> QED BY <1>1, RegistersExact, PTL

-----------------------------------------------------------------------------
(***************************************************************************)
(* What the steps of one Put do to its operation, for the two proofs that  *)
(* follow.                                                                 *)
(***************************************************************************)
Moves(w, p, q) == op[w].phase = p /\ op'[w].phase = q

SameCount(w) ==
  /\ op'[w].confirmations = op[w].confirmations
  /\ op'[w].complete = op[w].complete /\ op'[w].needed = op[w].needed

SameOrigin(w) ==
  /\ op'[w].node = op[w].node /\ op'[w].id = op[w].id
  /\ op'[w].quorum = op[w].quorum /\ op'[w].knew = op[w].knew

PutMessage(w, m) == [type |-> "PUT", from |-> op[w].node, to |-> m, id |-> op[w].id, write |-> w]

StoresLocally(w) ==
  /\ Moves(w, "registered", "stored") /\ op'[w].sent = op[w].sent /\ SameCount(w)
  /\ applied' = [applied EXCEPT ![op[w].node] = @ \cup {w}]
  /\ UNCHANGED <<seen, net, acking>>

ConfirmsAlone(w) ==
  /\ Moves(w, "stored", "created") /\ op'[w].sent = op[w].sent
  /\ op'[w].confirmations = op[w].confirmations /\ op[w].confirmations >= op[w].quorum
  /\ op'[w].needed = op[w].quorum
  /\ UNCHANGED <<seen, net, acking, applied>>

Broadcasts(w) ==
  /\ Moves(w, "stored", "sending") /\ op'[w].sent /\ SameCount(w)
  /\ \/ Seen(op[w].node, op[w].id) /\ seen' = seen
     \/ \E c \in MarkSeen(op[w].node, op[w].id) : seen' = [seen EXCEPT ![op[w].node] = c]
  /\ UNCHANGED <<net, acking, applied>>

Sends(w) ==
  /\ Moves(w, "sending", "sending") /\ op'[w].sent = op[w].sent /\ SameCount(w)
  /\ \E m \in Nodes : net' \in SUBSET (net \cup {PutMessage(w, m)})
  /\ net \in SUBSET net'
  /\ UNCHANGED <<seen, acking, applied>>

Advances(w) ==
  /\ \/ Moves(w, "registered", "full") \/ Moves(w, "sending", "waiting")
     \/ \E p \in {"created", "accepted", "cancelled"} : Moves(w, "waiting", p)
  /\ op'[w].sent = op[w].sent /\ SameCount(w)
  /\ UNCHANGED <<seen, net, acking, applied>>

PutFacts(w) ==
  /\ \A v \in Writes \ {w} : op'[v] = op[v]
  /\ SameOrigin(w)
  /\ StoresLocally(w) \/ ConfirmsAlone(w) \/ Broadcasts(w) \/ Sends(w) \/ Advances(w)

LEMMA PutStepFacts ==
  ASSUME TypeOK, NEW w \in Writes, PutStep(w)
  PROVE  PutFacts(w)
<1>1. op[w] \in Operation /\ DOMAIN op = Writes
  BY DEF TypeOK
<1>2. ASSUME NEW o, op' = [op EXCEPT ![w] = o]
      PROVE  op'[w] = o /\ \A v \in Writes \ {w} : op'[v] = op[v]
  BY <1>1, <1>2
<1>3. ASSUME NEW p, op' = [op EXCEPT ![w] = [op[w] EXCEPT !.phase = p]]
      PROVE  /\ \A v \in Writes \ {w} : op'[v] = op[v]
             /\ SameOrigin(w) /\ SameCount(w) /\ op'[w].sent = op[w].sent /\ op'[w].phase = p
  <2> DEFINE o == [op[w] EXCEPT !.phase = p]
  <2>1. /\ o.phase = p /\ o.node = op[w].node /\ o.id = op[w].id /\ o.quorum = op[w].quorum
        /\ o.knew = op[w].knew /\ o.sent = op[w].sent /\ o.confirmations = op[w].confirmations
        /\ o.complete = op[w].complete /\ o.needed = op[w].needed
    BY <1>1 DEF Operation
  <2>2. op' = [op EXCEPT ![w] = o]
    BY <1>3
  <2> HIDE DEF o
  <2> QED BY <1>2, <2>1, <2>2 DEF SameOrigin, SameCount
<1>4. CASE LocalPutFails(w)
  <2>1. op' = [op EXCEPT ![w] = [op[w] EXCEPT !.phase = "full"]]
    BY <1>4 DEF LocalPutFails
  <2> QED BY <1>3, <1>4, <2>1 DEF LocalPutFails, PutFacts, Advances, Moves
<1>5. CASE LocalPut(w)
  <2>1. op' = [op EXCEPT ![w] = [op[w] EXCEPT !.phase = "stored"]]
    BY <1>5 DEF LocalPut
  <2>2. applied' = [applied EXCEPT ![op[w].node] = @ \cup {w}] /\ op[w].phase = "registered"
        /\ UNCHANGED <<seen, net, acking>>
    BY <1>5 DEF LocalPut
  <2> QED BY <1>3, <2>1, <2>2 DEF PutFacts, StoresLocally, Moves
<1>6. CASE LocalQuorum(w)
  <2> DEFINE o == [op[w] EXCEPT !.phase = "created", !.complete = TRUE, !.needed = op[w].quorum]
  <2>1. op' = [op EXCEPT ![w] = o]
    BY <1>6 DEF LocalQuorum
  <2>2. /\ o.phase = "created" /\ o.node = op[w].node /\ o.id = op[w].id /\ o.quorum = op[w].quorum
        /\ o.knew = op[w].knew /\ o.sent = op[w].sent /\ o.confirmations = op[w].confirmations
        /\ o.needed = op[w].quorum
    BY <1>1 DEF Operation
  <2>3. /\ op[w].phase = "stored" /\ op[w].confirmations >= op[w].quorum
        /\ UNCHANGED <<seen, net, acking, applied>>
    BY <1>6 DEF LocalQuorum
  <2> HIDE DEF o
  <2>4. op'[w] = o /\ \A v \in Writes \ {w} : op'[v] = op[v]
    BY <1>2, <2>1
  <2> QED BY <2>2, <2>3, <2>4 DEF PutFacts, ConfirmsAlone, Moves, SameOrigin
<1>7. CASE BroadcastToEnclave(w)
  <2>1. PICK T : op' = [op EXCEPT ![w] = [op[w] EXCEPT !.phase = "sending", !.targets = T, !.sent = TRUE]]
    BY <1>7 DEF BroadcastToEnclave
  <2> DEFINE o == [op[w] EXCEPT !.phase = "sending", !.targets = T, !.sent = TRUE]
  <2>2. /\ o.phase = "sending" /\ o.node = op[w].node /\ o.id = op[w].id /\ o.quorum = op[w].quorum
        /\ o.knew = op[w].knew /\ o.sent = TRUE /\ o.confirmations = op[w].confirmations
        /\ o.complete = op[w].complete /\ o.needed = op[w].needed
    BY <1>1 DEF Operation
  <2>3. op' = [op EXCEPT ![w] = o]
    BY <2>1
  <2>4. /\ op[w].phase = "stored" /\ UNCHANGED <<net, acking, applied>>
        /\ \/ Seen(op[w].node, op[w].id) /\ seen' = seen
           \/ \E c \in MarkSeen(op[w].node, op[w].id) : seen' = [seen EXCEPT ![op[w].node] = c]
    BY <1>7 DEF BroadcastToEnclave
  <2> HIDE DEF o
  <2>5. op'[w] = o /\ \A v \in Writes \ {w} : op'[v] = op[v]
    BY <1>2, <2>3
  <2> QED BY <2>2, <2>4, <2>5 DEF PutFacts, Broadcasts, Moves, SameOrigin, SameCount
<1>8. ASSUME NEW m \in Nodes, SendPut(w, m) PROVE PutFacts(w)
  <2> DEFINE o == [op[w] EXCEPT !.targets = @ \ {m}]
  <2>1. op' = [op EXCEPT ![w] = o]
    BY <1>8 DEF SendPut
  <2>2. /\ o.phase = op[w].phase /\ o.node = op[w].node /\ o.id = op[w].id /\ o.quorum = op[w].quorum
        /\ o.knew = op[w].knew /\ o.sent = op[w].sent /\ o.confirmations = op[w].confirmations
        /\ o.complete = op[w].complete /\ o.needed = op[w].needed
    BY <1>1 DEF Operation
  <2>3. op[w].phase = "sending" /\ UNCHANGED <<seen, acking, applied>>
    BY <1>8 DEF SendPut
  <2>4. PICK d \in Delivered({PutMessage(w, m)}) : net' = net \cup d
    BY <1>8 DEF SendPut, PutMessage
  <2>5. net' \in SUBSET (net \cup {PutMessage(w, m)}) /\ net \in SUBSET net'
    BY <2>4, DeliveredAreSent
  <2> HIDE DEF o
  <2>6. op'[w] = o /\ \A v \in Writes \ {w} : op'[v] = op[v]
    BY <1>2, <2>1
  <2> QED BY <2>2, <2>3, <2>5, <2>6 DEF PutFacts, Sends, Moves, SameOrigin, SameCount
<1>9. CASE AllSent(w)
  <2>1. op' = [op EXCEPT ![w] = [op[w] EXCEPT !.phase = "waiting"]]
    BY <1>9 DEF AllSent
  <2> QED BY <1>3, <1>9, <2>1 DEF AllSent, PutFacts, Advances, Moves
<1>10. ASSUME NEW p \in {"created", "accepted", "cancelled"}, PutReturns(w, p) PROVE PutFacts(w)
  <2>1. op' = [op EXCEPT ![w] = [op[w] EXCEPT !.phase = p]]
    BY <1>10 DEF PutReturns
  <2> QED BY <1>3, <1>10, <2>1 DEF PutReturns, PutFacts, Advances, Moves
<1> QED BY <1>4, <1>5, <1>6, <1>7, <1>8, <1>9, <1>10
        DEF PutStep, PutConfirmed, PutTimesOut, PutCancelled

-----------------------------------------------------------------------------
(***************************************************************************)
(* A write is applied once.  While copies of it may still be sent or       *)
(* received, every node that applied it has it in its dedup cache, the     *)
(* originator from the moment it broadcasts.                               *)
(***************************************************************************)
\* No dedup cache is full, so none forgets a message before its time.
Roomy == \A n \in Nodes : Len(seen[n]) < MaxSeen

PutsOf(w) == {msg \in net : msg.type = "PUT" /\ msg.write = w}

Lively(w) == op[w].phase \in Active \/ PutsOf(w) # {}

Ordered(w) ==
  /\ op[w].sent => op[w].phase \in {"sending", "waiting", "created", "accepted", "cancelled"}
  /\ op[w].phase \in {"sending", "waiting", "accepted", "cancelled"} => op[w].sent
  /\ op[w].phase \in {"new", "registered"} => \A n \in Nodes : w \notin applied[n]
  /\ \A msg \in PutsOf(w) : op[w].sent /\ msg.id = op[w].id /\ msg.from = op[w].node

AppliedSeen(w) ==
  Lively(w) =>
    \A n \in Nodes : w \in applied[n] =>
      Seen(n, op[w].id) \/ (n = op[w].node /\ op[w].phase = "stored")

AppliedInv == \A w \in Writes : Ordered(w) /\ AppliedSeen(w)

LEMMA MarkRoomy ==
  ASSUME Roomy, NEW n \in Nodes, NEW id, NEW c \in MarkSeen(n, id)
  PROVE  c = Append(seen[n], id)
BY DEF Roomy, MarkSeen

SeenGrows == \A m \in Nodes : \A id : Seen(m, id) => Seen(m, id)'

LEMMA SeenAppend ==
  ASSUME TypeOK, NEW n \in Nodes, NEW id \in MessageIDs, seen' = [seen EXCEPT ![n] = Append(seen[n], id)]
  PROVE  SeenGrows /\ Seen(n, id)'
<1>1. seen[n] \in Seq(MessageIDs) /\ DOMAIN seen = Nodes
  BY DEF TypeOK
<1> DEFINE c == Append(seen[n], id)
<1>2. /\ DOMAIN c = 1 .. Len(seen[n]) + 1 /\ c[Len(seen[n]) + 1] = id
      /\ \A i \in 1 .. Len(seen[n]) : c[i] = seen[n][i]
      /\ DOMAIN seen[n] = 1 .. Len(seen[n]) /\ Len(seen[n]) \in Nat
  BY <1>1
<1>3. seen'[n] = c /\ \A m \in Nodes \ {n} : seen'[m] = seen[m]
  BY <1>1
<1> HIDE DEF c
<1>4. Seen(n, id)'
  BY <1>2, <1>3 DEF Seen
<1>5. ASSUME NEW m \in Nodes, NEW j, Seen(m, j) PROVE Seen(m, j)'
  <2>1. CASE m # n
    BY <1>3, <1>5, <2>1 DEF Seen
  <2>2. CASE m = n
    <3>1. PICK i \in 1 .. Len(seen[n]) : seen[n][i] = j
      BY <1>2, <1>5, <2>2 DEF Seen
    <3>2. i \in DOMAIN c /\ c[i] = j
      BY <1>2, <3>1
    <3> QED BY <1>3, <2>2, <3>2 DEF Seen
  <2> QED BY <2>1, <2>2
<1> QED BY <1>4, <1>5 DEF SeenGrows

\* Only the oldest entry goes.
LEMMA SeenTail ==
  ASSUME TypeOK, NEW n \in Nodes, seen[n] # <<>>, seen' = [seen EXCEPT ![n] = Tail(@)],
         NEW m \in Nodes, NEW j, Seen(m, j), j # Head(seen[n])
  PROVE  Seen(m, j)'
<1>1. seen[n] \in Seq(MessageIDs) /\ DOMAIN seen = Nodes
  BY DEF TypeOK
<1>2. seen'[n] = Tail(seen[n]) /\ \A k \in Nodes \ {n} : seen'[k] = seen[k]
  BY <1>1
<1>3. CASE m # n
  BY <1>2, <1>3 DEF Seen
<1>4. CASE m = n
  <2> DEFINE t == Tail(seen[n])
  <2>1. /\ Len(seen[n]) \in Nat /\ DOMAIN seen[n] = 1 .. Len(seen[n]) /\ Head(seen[n]) = seen[n][1]
        /\ DOMAIN t = 1 .. Len(seen[n]) - 1 /\ \A i \in 1 .. Len(seen[n]) - 1 : t[i] = seen[n][i + 1]
    BY <1>1
  <2>2. PICK i \in 1 .. Len(seen[n]) : seen[n][i] = j
    BY <1>4, <2>1 DEF Seen
  <2>3. i # 1
    BY <2>1, <2>2
  <2>4. i - 1 \in 1 .. Len(seen[n]) - 1 /\ (i - 1) + 1 = i
    BY <2>1, <2>3
  <2>5. i - 1 \in DOMAIN t /\ t[i - 1] = j
    BY <2>1, <2>2, <2>4
  <2> HIDE DEF t
  <2>6. seen'[n] = t
    BY <1>2 DEF t
  <2> QED BY <1>4, <2>5, <2>6 DEF Seen
<1> QED BY <1>3, <1>4

\* A step that neither moves a Put nor applies a write nor sends a copy.
LEMMA AppliedFrame ==
  ASSUME AppliedInv, SeenGrows, applied' = applied,
         \A v \in Writes : /\ op'[v].phase = op[v].phase /\ op'[v].sent = op[v].sent
                           /\ op'[v].id = op[v].id /\ op'[v].node = op[v].node,
         \A msg \in net' : msg.type = "PUT" => msg \in net
  PROVE  AppliedInv'
<1> SUFFICES ASSUME NEW v \in Writes
             PROVE  Ordered(v)' /\ AppliedSeen(v)'
  BY DEF AppliedInv
<1>1. Ordered(v) /\ AppliedSeen(v)
  BY DEF AppliedInv
<1>2. \A msg \in PutsOf(v)' : msg \in PutsOf(v)
  BY DEF PutsOf
<1>3. Ordered(v)'
  BY <1>1, <1>2 DEF Ordered
<1>4. Lively(v)' => Lively(v)
  BY <1>2 DEF Lively
<1>5. AppliedSeen(v)'
  BY <1>1, <1>4 DEF AppliedSeen, SeenGrows, Seen
<1> QED BY <1>3, <1>5

\* A step of Put that stores nothing and marks nothing.
LEMMA AppliedOpOnly ==
  ASSUME AppliedInv, NEW w \in Writes, \A v \in Writes \ {w} : op'[v] = op[v],
         op'[w].id = op[w].id, op'[w].node = op[w].node, op'[w].sent = op[w].sent,
         ConfirmsAlone(w) \/ Sends(w) \/ Advances(w)
  PROVE  AppliedInv'
<1>1. seen' = seen /\ applied' = applied
  BY DEF ConfirmsAlone, Sends, Advances
<1>2. \A msg \in net' \ net : /\ msg.type = "PUT" /\ msg.write = w /\ msg.id = op[w].id /\ msg.from = op[w].node
                               /\ op[w].phase = "sending"
  BY DEF ConfirmsAlone, Sends, Advances, PutMessage, Moves
<1>3. Ordered(w) /\ AppliedSeen(w)
  BY DEF AppliedInv
<1>4. ASSUME NEW v \in Writes \ {w} PROVE Ordered(v)' /\ AppliedSeen(v)'
  <2>1. Ordered(v) /\ AppliedSeen(v) /\ op'[v] = op[v]
    BY DEF AppliedInv
  <2>2. \A msg \in PutsOf(v)' : msg \in PutsOf(v)
    BY <1>2 DEF PutsOf
  <2>3. Ordered(v)'
    BY <1>1, <2>1, <2>2 DEF Ordered
  <2>4. Lively(v)' => Lively(v)
    BY <2>1, <2>2 DEF Lively
  <2>5. AppliedSeen(v)'
    BY <1>1, <2>1, <2>4 DEF AppliedSeen, Seen
  <2> QED BY <2>3, <2>5
<1>5. \A msg \in PutsOf(w)' : \/ msg \in PutsOf(w)
                              \/ msg.id = op[w].id /\ msg.from = op[w].node /\ op[w].phase = "sending"
  BY <1>2 DEF PutsOf
<1>6. Ordered(w)'
  <2>1. \A msg \in PutsOf(w)' : op[w].sent /\ msg.id = op[w].id /\ msg.from = op[w].node
    BY <1>3, <1>5 DEF Ordered
  <2>2. /\ op[w].sent => op'[w].phase \in {"sending", "waiting", "created", "accepted", "cancelled"}
        /\ op'[w].phase \in {"sending", "waiting", "accepted", "cancelled"} => op[w].sent
        /\ op'[w].phase \notin {"new", "registered"}
    BY <1>3 DEF Ordered, ConfirmsAlone, Sends, Advances, Moves
  <2> QED BY <2>1, <2>2 DEF Ordered
<1>7. AppliedSeen(w)'
  <2>1. Lively(w)' => Lively(w)
    BY <1>5 DEF Lively, ConfirmsAlone, Sends, Advances, Moves, Active
  <2>2. op[w].phase = "stored" => ~Lively(w)'
    <3>1. ASSUME op[w].phase = "stored" PROVE op'[w].phase = "created" /\ ~op[w].sent
      BY <1>3, <3>1 DEF Ordered, ConfirmsAlone, Sends, Advances, Moves
    <3>2. ASSUME op[w].phase = "stored" PROVE PutsOf(w)' = {}
      BY <1>3, <1>5, <3>1, <3>2 DEF Ordered
    <3> QED BY <3>1, <3>2 DEF Lively, Active
  <2> QED BY <1>1, <1>3, <2>1, <2>2 DEF AppliedSeen, Seen
<1> QED BY <1>4, <1>6, <1>7 DEF AppliedInv

LEMMA StartFacts ==
  ASSUME TypeOK, NEW w \in Writes, NEW n \in Nodes, NEW k \in Keys, NEW t \in 0..MaxStamp, StartPut(w, n, k, t)
  PROVE  /\ \A v \in Writes \ {w} : op'[v] = op[v]
         /\ Moves(w, "new", "registered") /\ op'[w].sent = FALSE /\ op'[w].complete = FALSE
         /\ op'[w].id = <<k, t>> /\ op'[w].confirmations = 1
         /\ op'[w].quorum = quorumSize(n) /\ op'[w].knew = peers[n]
         /\ UNCHANGED <<seen, net, acking, applied>>
<1> DEFINE o == [NotStarted EXCEPT !.phase = "registered", !.node = n, !.id = <<k, t>>,
                   !.quorum = quorumSize(n), !.confirmations = 1, !.knew = peers[n]]
<1>1. /\ o.phase = "registered" /\ o.sent = FALSE /\ o.complete = FALSE /\ o.id = <<k, t>>
      /\ o.confirmations = 1 /\ o.quorum = quorumSize(n) /\ o.knew = peers[n]
  BY DEF NotStarted
<1>2. /\ op' = [op EXCEPT ![w] = o] /\ op[w].phase = "new"
      /\ UNCHANGED <<seen, net, acking, applied>>
  BY DEF StartPut
<1> HIDE DEF o
<1>3. op'[w] = o /\ \A v \in Writes \ {w} : op'[v] = op[v]
  BY <1>2 DEF TypeOK
<1> QED BY <1>1, <1>2, <1>3 DEF Moves

LEMMA HandlePutFacts ==
  ASSUME TypeOK, Roomy, NEW msg \in net, HandlePut(msg)
  PROVE  /\ msg.type = "PUT" /\ msg.write \in Writes /\ msg.to \in Nodes /\ msg.from \in Nodes
         /\ msg.id \in MessageIDs /\ ~Seen(msg.to, msg.id)
         /\ seen' = [seen EXCEPT ![msg.to] = Append(seen[msg.to], msg.id)]
         /\ applied' = [applied EXCEPT ![msg.to] = @ \cup {msg.write}]
         /\ store' = [store EXCEPT ![msg.to][msg.id[1]] = msg.write]
         /\ \A x \in net' :
              \/ x \in net
              \/ x.type = "ACK" /\ x.from = msg.to /\ x.to = msg.from /\ x.id = msg.id
              \/ x.type = "PUT" /\ x.write = msg.write /\ x.id = msg.id /\ x.from = msg.from
         /\ UNCHANGED <<op, pending, acking>>
<1>1. msg.type = "PUT" /\ ~Seen(msg.to, msg.id) /\ UNCHANGED <<op, pending, acking>>
      /\ applied' = [applied EXCEPT ![msg.to] = @ \cup {msg.write}]
      /\ store' = [store EXCEPT ![msg.to][msg.id[1]] = msg.write]
  BY DEF HandlePut
<1>2. msg \in [type : {"PUT"}, from : Nodes, to : Nodes, id : MessageIDs, write : Writes]
  <2>1. msg \in Message
    BY DEF TypeOK
  <2> QED BY <1>1, <2>1 DEF Message
<1>3. msg.write \in Writes /\ msg.to \in Nodes /\ msg.from \in Nodes /\ msg.id \in MessageIDs
  BY <1>2
<1>4. seen' = [seen EXCEPT ![msg.to] = Append(seen[msg.to], msg.id)]
  <2>1. PICK c \in MarkSeen(msg.to, msg.id) : seen' = [seen EXCEPT ![msg.to] = c]
    BY DEF HandlePut
  <2> QED BY <1>3, <2>1, MarkRoomy
<1> DEFINE ack == [type |-> "ACK", from |-> msg.to, to |-> msg.from, id |-> msg.id]
           acks == IF msg.from \in peers[msg.to] THEN {ack} ELSE {}
<1>9. PICK targets : \E d \in Delivered(acks \cup {[msg EXCEPT !.to = m] : m \in targets}) :
                       net' = (net \ {msg}) \cup d
  BY DEF HandlePut
<1>5. PICK d \in Delivered(acks \cup {[msg EXCEPT !.to = m] : m \in targets}) : net' = (net \ {msg}) \cup d
  BY <1>9
<1>6. d \in SUBSET (acks \cup {[msg EXCEPT !.to = m] : m \in targets})
  BY <1>5, DeliveredAreSent
<1>7. \A m \in targets : LET x == [msg EXCEPT !.to = m]
                          IN x.type = "PUT" /\ x.write = msg.write /\ x.id = msg.id /\ x.from = msg.from
  BY <1>2
<1>8. ASSUME NEW x \in net'
      PROVE  \/ x \in net
             \/ x = ack
             \/ x.type = "PUT" /\ x.write = msg.write /\ x.id = msg.id /\ x.from = msg.from
  BY <1>5, <1>6, <1>7
<1>10. ack.type = "ACK" /\ ack.from = msg.to /\ ack.to = msg.from /\ ack.id = msg.id
  OBVIOUS
<1> HIDE DEF ack
<1> QED BY <1>1, <1>3, <1>4, <1>8, <1>10

LEMMA AppliedStart ==
  ASSUME TypeOK, AppliedInv, NEW w \in Writes, NEW n \in Nodes, NEW k \in Keys, NEW t \in 0..MaxStamp,
         StartPut(w, n, k, t)
  PROVE  AppliedInv'
<1>1. /\ \A v \in Writes \ {w} : op'[v] = op[v]
      /\ Moves(w, "new", "registered") /\ op'[w].sent = FALSE
      /\ seen' = seen /\ net' = net /\ applied' = applied
  BY StartFacts
<1>2. ASSUME NEW v \in Writes \ {w} PROVE Ordered(v)' /\ AppliedSeen(v)'
  BY <1>1 DEF AppliedInv, Ordered, AppliedSeen, Lively, PutsOf, Seen
<1>3. Ordered(w)
  BY DEF AppliedInv
<1>4. PutsOf(w) = {} /\ PutsOf(w)' = PutsOf(w) /\ \A m \in Nodes : w \notin applied[m]
  BY <1>1, <1>3 DEF Ordered, Moves, PutsOf
<1>5. Ordered(w)' /\ AppliedSeen(w)'
  BY <1>1, <1>4 DEF Ordered, AppliedSeen, Moves
<1> QED BY <1>2, <1>5 DEF AppliedInv

LEMMA AppliedStores ==
  ASSUME TypeOK, AppliedInv, NEW w \in Writes, \A v \in Writes \ {w} : op'[v] = op[v],
         SameOrigin(w), StoresLocally(w)
  PROVE  AppliedInv'
<1>1. /\ Moves(w, "registered", "stored") /\ op'[w].sent = op[w].sent
      /\ op'[w].id = op[w].id /\ op'[w].node = op[w].node /\ seen' = seen /\ net' = net
  BY DEF StoresLocally, SameOrigin
<1>2. op[w].node \in Nodes
  BY <1>1 DEF TypeOK, Moves, Started
<1>3. /\ \A m \in Nodes, v \in Writes \ {w} : v \in applied'[m] <=> v \in applied[m]
      /\ \A m \in Nodes : w \in applied'[m] <=> w \in applied[m] \/ m = op[w].node
  BY <1>2 DEF StoresLocally, TypeOK
<1>4. ASSUME NEW v \in Writes \ {w} PROVE Ordered(v)' /\ AppliedSeen(v)'
  <2>1. Ordered(v) /\ AppliedSeen(v) /\ op'[v] = op[v] /\ PutsOf(v)' = PutsOf(v)
    BY <1>1 DEF AppliedInv, PutsOf
  <2>2. Ordered(v)'
    BY <1>3, <2>1 DEF Ordered
  <2>3. AppliedSeen(v)'
    BY <1>1, <1>3, <2>1 DEF AppliedSeen, Lively, Seen
  <2> QED BY <2>2, <2>3
<1>5. Ordered(w) /\ PutsOf(w)' = PutsOf(w)
  BY <1>1 DEF AppliedInv, PutsOf
<1>6. \A m \in Nodes : w \in applied'[m] => m = op[w].node
  BY <1>1, <1>3, <1>5 DEF Ordered, Moves
<1>7. Ordered(w)' /\ AppliedSeen(w)'
  BY <1>1, <1>5, <1>6 DEF Ordered, AppliedSeen, Moves
<1> QED BY <1>4, <1>7 DEF AppliedInv

LEMMA AppliedBroadcasts ==
  ASSUME TypeOK, Roomy, AppliedInv, NEW w \in Writes, \A v \in Writes \ {w} : op'[v] = op[v],
         SameOrigin(w), Broadcasts(w)
  PROVE  AppliedInv'
<1>1. /\ Moves(w, "stored", "sending") /\ op'[w].sent
      /\ op'[w].id = op[w].id /\ op'[w].node = op[w].node /\ applied' = applied /\ net' = net
  BY DEF Broadcasts, SameOrigin
<1>2. op[w].node \in Nodes /\ op[w].id \in MessageIDs
  BY <1>1 DEF TypeOK, Moves, Started
<1> DEFINE n == op[w].node
           id == op[w].id
<1>3. SeenGrows /\ Seen(n, id)'
  <2> HIDE DEF n, id
  <2>1. CASE Seen(n, id) /\ seen' = seen
    <3>1. SeenGrows
      BY <2>1 DEF SeenGrows, Seen
    <3>2. \E i \in DOMAIN seen'[n] : seen'[n][i] = id
      BY <2>1 DEF Seen
    <3>3. n' = n /\ id' = id
      BY <1>1 DEF n, id
    <3> QED BY <3>1, <3>2, <3>3 DEF Seen
  <2>2. ASSUME NEW c \in MarkSeen(n, id), seen' = [seen EXCEPT ![n] = c]
        PROVE  SeenGrows /\ Seen(n, id)'
    <3>1. PICK m \in Nodes, j \in MessageIDs : m = n /\ j = id
      BY <1>2 DEF n, id
    <3>2. seen' = [seen EXCEPT ![m] = Append(seen[m], j)]
      BY <1>2, <2>2, <3>1, MarkRoomy DEF n
    <3>3. SeenGrows /\ Seen(m, j)'
      BY <3>2, SeenAppend
    <3>4. n' = n /\ id' = id
      BY <1>1 DEF n, id
    <3> QED BY <3>1, <3>3, <3>4 DEF Seen
  <2> QED BY <2>1, <2>2 DEF Broadcasts, n, id
<1>4. ASSUME NEW v \in Writes \ {w} PROVE Ordered(v)' /\ AppliedSeen(v)'
  <2>1. Ordered(v) /\ AppliedSeen(v) /\ op'[v] = op[v] /\ PutsOf(v)' = PutsOf(v)
    BY <1>1 DEF AppliedInv, PutsOf
  <2>2. Ordered(v)'
    BY <1>1, <2>1 DEF Ordered
  <2>3. AppliedSeen(v)'
    BY <1>1, <1>3, <2>1 DEF AppliedSeen, Lively, SeenGrows, Seen
  <2> QED BY <2>2, <2>3
<1>5. Ordered(w) /\ AppliedSeen(w) /\ PutsOf(w)' = PutsOf(w)
  BY <1>1 DEF AppliedInv, PutsOf
<1>6. Ordered(w)'
  BY <1>1, <1>5 DEF Ordered, Moves
<1>7. AppliedSeen(w)'
  <2>1. ASSUME NEW m \in Nodes, w \in applied[m] PROVE Seen(m, op[w].id)'
    <3>1. Seen(m, op[w].id) \/ m = n
      BY <1>1, <1>5, <2>1 DEF AppliedSeen, Lively, Moves, Active
    <3> QED BY <1>1, <1>3, <3>1 DEF SeenGrows, Seen
  <2> QED BY <1>1, <2>1 DEF AppliedSeen, Seen
<1> QED BY <1>4, <1>6, <1>7 DEF AppliedInv

\* A copy that is not recognised is of a write the node has not applied.
LEMMA CopyIsNew ==
  ASSUME TypeOK, Roomy, AppliedInv, NEW msg \in net, HandlePut(msg)
  PROVE  /\ msg.write \notin applied[msg.to]
         /\ op[msg.write].sent /\ msg.id = op[msg.write].id /\ msg.from = op[msg.write].node
<1> DEFINE w == msg.write
<1>1. w \in Writes /\ msg.to \in Nodes /\ ~Seen(msg.to, msg.id) /\ msg \in PutsOf(w)
  BY HandlePutFacts DEF PutsOf
<1> HIDE DEF w
<1>2. op[w].sent /\ msg.id = op[w].id /\ msg.from = op[w].node /\ op[w].phase # "stored"
  BY <1>1 DEF AppliedInv, Ordered
<1>3. w \notin applied[msg.to]
  BY <1>1, <1>2 DEF AppliedInv, AppliedSeen, Lively
<1> QED BY <1>2, <1>3 DEF w

LEMMA AppliedHandles ==
  ASSUME TypeOK, Roomy, AppliedInv, NEW msg \in net, HandlePut(msg)
  PROVE  AppliedInv'
<1> DEFINE w == msg.write
           n == msg.to
<1>1. /\ w \in Writes /\ n \in Nodes /\ msg.type = "PUT" /\ msg.id \in MessageIDs /\ op' = op
      /\ seen' = [seen EXCEPT ![n] = Append(seen[n], msg.id)]
      /\ applied' = [applied EXCEPT ![n] = @ \cup {w}]
      /\ \A x \in net' : x.type = "PUT" =>
           x \in net \/ (x.write = w /\ x.id = msg.id /\ x.from = msg.from)
  BY HandlePutFacts
<1>2. op[w].sent /\ msg.id = op[w].id /\ msg.from = op[w].node /\ msg \in PutsOf(w)
  BY CopyIsNew, <1>1 DEF PutsOf
<1>3. SeenGrows /\ Seen(n, msg.id)'
  BY <1>1, SeenAppend
<1> HIDE DEF w, n
<1>4. /\ \A m \in Nodes, v \in Writes \ {w} : v \in applied'[m] <=> v \in applied[m]
      /\ \A m \in Nodes : w \in applied'[m] <=> w \in applied[m] \/ m = n
  BY <1>1 DEF TypeOK
<1>5. ASSUME NEW v \in Writes \ {w} PROVE Ordered(v)' /\ AppliedSeen(v)'
  <2>1. Ordered(v) /\ AppliedSeen(v)
    BY DEF AppliedInv
  <2>2. \A x \in PutsOf(v)' : x \in PutsOf(v)
    BY <1>1 DEF PutsOf
  <2>3. Ordered(v)'
    BY <1>1, <1>4, <2>1, <2>2 DEF Ordered
  <2>4. Lively(v)' => Lively(v)
    BY <1>1, <2>2 DEF Lively
  <2>5. AppliedSeen(v)'
    BY <1>1, <1>3, <1>4, <2>1, <2>4 DEF AppliedSeen, SeenGrows, Seen
  <2> QED BY <2>3, <2>5
<1>6. Ordered(w) /\ AppliedSeen(w)
  BY <1>1 DEF AppliedInv
<1>7. \A x \in PutsOf(w)' : x \in PutsOf(w) \/ (x.id = op[w].id /\ x.from = op[w].node)
  BY <1>1, <1>2 DEF PutsOf
<1>8. Ordered(w)'
  <2>1. \A x \in PutsOf(w)' : op[w].sent /\ x.id = op[w].id /\ x.from = op[w].node
    BY <1>2, <1>6, <1>7 DEF Ordered
  <2>2. op[w].phase \notin {"new", "registered"}
    BY <1>2, <1>6 DEF Ordered
  <2> QED BY <1>1, <1>6, <2>1, <2>2 DEF Ordered
<1>9. AppliedSeen(w)'
  <2>1. Lively(w)
    BY <1>2 DEF Lively
  <2>2. ASSUME NEW m \in Nodes, w \in applied'[m]
        PROVE  Seen(m, op[w].id)' \/ (m = op[w].node /\ op[w].phase = "stored")
    <3>1. CASE m = n
      <4>1. \E i \in DOMAIN seen'[n] : seen'[n][i] = op[w].id
        BY <1>2, <1>3 DEF Seen, n
      <4> QED BY <1>1, <3>1, <4>1 DEF Seen
    <3>2. CASE m # n
      BY <1>1, <1>3, <1>4, <1>6, <2>1, <2>2, <3>2 DEF AppliedSeen, SeenGrows, Seen
    <3> QED BY <3>1, <3>2
  <2> QED BY <1>1, <2>2 DEF AppliedSeen
<1> QED BY <1>5, <1>8, <1>9 DEF AppliedInv

LEMMA AppliedForgets ==
  ASSUME TypeOK, AppliedInv, NEW n \in Nodes, cleanupSeenMessages(n)
  PROVE  AppliedInv'
<1>1. op' = op /\ applied' = applied /\ net' = net /\ seen[n] # <<>> /\ seen' = [seen EXCEPT ![n] = Tail(@)]
  BY DEF cleanupSeenMessages
<1> SUFFICES ASSUME NEW v \in Writes
             PROVE  Ordered(v)' /\ AppliedSeen(v)'
  BY DEF AppliedInv
<1>2. Ordered(v) /\ AppliedSeen(v) /\ PutsOf(v)' = PutsOf(v)
  BY <1>1 DEF AppliedInv, PutsOf
<1>3. Ordered(v)'
  BY <1>1, <1>2 DEF Ordered
<1>4. Lively(v) => op[v].id # Head(seen[n])
  BY <1>2 DEF cleanupSeenMessages, Lively, Ordered, PutsOf
<1>5. ASSUME Lively(v), NEW m \in Nodes, Seen(m, op[v].id) PROVE Seen(m, op[v].id)'
  <2>1. PICK j : j = op[v].id
    OBVIOUS
  <2>2. Seen(m, j)'
    BY <1>1, <1>4, <1>5, <2>1, SeenTail
  <2> QED BY <1>1, <2>1, <2>2 DEF Seen
<1>6. AppliedSeen(v)'
  BY <1>1, <1>2, <1>5 DEF AppliedSeen, Lively
<1> QED BY <1>3, <1>6

LEMMA AppliedNext ==
  ASSUME TypeOK, Roomy, AppliedInv, [Next]_vars
  PROVE  AppliedInv'
<1>1. ASSUME NEW w \in Writes, PutStep(w) PROVE AppliedInv'
  <2>1. /\ \A v \in Writes \ {w} : op'[v] = op[v]
        /\ SameOrigin(w) /\ op'[w].id = op[w].id /\ op'[w].node = op[w].node
        /\ StoresLocally(w) \/ ConfirmsAlone(w) \/ Broadcasts(w) \/ Sends(w) \/ Advances(w)
    BY <1>1, PutStepFacts DEF PutFacts, SameOrigin
  <2>2. CASE ConfirmsAlone(w) \/ Sends(w) \/ Advances(w)
    <3>1. op'[w].sent = op[w].sent
      BY <2>2 DEF ConfirmsAlone, Sends, Advances
    <3> QED BY <2>1, <2>2, <3>1, AppliedOpOnly
  <2> QED BY <2>1, <2>2, AppliedStores, AppliedBroadcasts
<1>2. ASSUME SeenGrows, UNCHANGED <<op, applied>>, \A x \in net' : x.type = "PUT" => x \in net
      PROVE  AppliedInv'
  BY <1>2, AppliedFrame
<1>3. ASSUME seen' = seen PROVE SeenGrows
  BY <1>3 DEF SeenGrows, Seen
<1>4. ASSUME NEW msg \in net, HandleDuplicate(msg) \/ AckLookup(msg) PROVE AppliedInv'
  BY <1>2, <1>3, <1>4 DEF HandleDuplicate, AckLookup
<1>5. ASSUME NEW msg \in net, HandlePutFull(msg) PROVE AppliedInv'
  <2>1. msg \in Message
    BY DEF TypeOK
  <2>2. msg.to \in Nodes /\ msg.id \in MessageIDs
    BY <2>1 DEF Message
  <2>3. PICK c \in MarkSeen(msg.to, msg.id) : seen' = [seen EXCEPT ![msg.to] = c]
    BY <1>5 DEF HandlePutFull
  <2>4. SeenGrows
    BY <2>2, <2>3, MarkRoomy, SeenAppend
  <2> QED BY <1>2, <1>5, <2>4 DEF HandlePutFull
<1>6. ASSUME NEW a \in acking, AckCount(a) PROVE AppliedInv'
  <2> DEFINE w == a.write
  <2>1. w \in Writes /\ op[w] \in Operation /\ DOMAIN op = Writes
    BY DEF TypeOK
  <2>2. PICK c, f, x : op' = [op EXCEPT ![w] = [op[w] EXCEPT !.confirmations = c,
                                                  !.complete = f, !.needed = x]]
    BY <1>6 DEF AckCount
  <2> DEFINE o == [op[w] EXCEPT !.confirmations = c, !.complete = f, !.needed = x]
  <2>3. o.phase = op[w].phase /\ o.node = op[w].node /\ o.id = op[w].id /\ o.sent = op[w].sent
    BY <2>1 DEF Operation
  <2>4. op' = [op EXCEPT ![w] = o]
    BY <2>2
  <2> HIDE DEF o, w
  <2>5. \A v \in Writes : /\ op'[v].phase = op[v].phase /\ op'[v].sent = op[v].sent
                           /\ op'[v].id = op[v].id /\ op'[v].node = op[v].node
    BY <2>1, <2>3, <2>4
  <2>6. seen' = seen /\ applied' = applied /\ net' = net
    BY <1>6 DEF AckCount
  <2> QED BY <1>3, <2>5, <2>6, AppliedFrame
<1>7. ASSUME NEW n \in Nodes, NEW m \in Nodes, PeerChange(n, m) PROVE AppliedInv'
  BY <1>2, <1>3, <1>7 DEF PeerChange
<1>8. CASE UNCHANGED vars
  BY <1>2, <1>3, <1>8 DEF vars
<1> QED
  BY <1>1, <1>4, <1>5, <1>6, <1>7, <1>8, AppliedStart, AppliedHandles, AppliedForgets DEF Next, Handle

LEMMA AppliedInit ==
  ASSUME Init
  PROVE  AppliedInv
<1> SUFFICES ASSUME NEW w \in Writes
             PROVE  Ordered(w) /\ AppliedSeen(w)
  BY DEF AppliedInv
<1>1. op[w].phase = "new" /\ op[w].sent = FALSE /\ PutsOf(w) = {} /\ \A n \in Nodes : applied[n] = {}
  BY DEF Init, NotStarted, PutsOf
<1> QED BY <1>1 DEF Ordered, AppliedSeen

LEMMA AlwaysApplied == Spec /\ []Roomy => []AppliedInv
BY AppliedInit, AppliedNext, TypeCorrect, PTL DEF Spec

\* A step stores only what its node has not stored before.
LEMMA StoresNew ==
  ASSUME TypeOK, Roomy, AppliedInv, [Next]_vars, NEW n \in Nodes, NEW k \in Keys,
         store'[n][k] # store[n][k]
  PROVE  store'[n][k] \notin applied[n]
<1>1. ASSUME NEW w \in Writes, LocalPut(w) PROVE store'[n][k] \notin applied[n]
  <2>1. op[w].phase = "registered" /\ store' = [store EXCEPT ![op[w].node][op[w].id[1]] = w]
    BY <1>1 DEF LocalPut
  <2>2. op[w].node \in Nodes /\ op[w].id[1] \in Keys
    BY <2>1 DEF TypeOK, Started, MessageIDs
  <2>3. store'[n][k] = w
    BY <2>1, <2>2 DEF TypeOK
  <2>4. w \notin applied[n]
    BY <2>1 DEF AppliedInv, Ordered
  <2> QED BY <2>3, <2>4
<1>2. ASSUME NEW msg \in net, HandlePut(msg) PROVE store'[n][k] \notin applied[n]
  <2>1. /\ msg.to \in Nodes /\ msg.id \in MessageIDs
        /\ store' = [store EXCEPT ![msg.to][msg.id[1]] = msg.write]
    BY <1>2, HandlePutFacts
  <2>2. msg.id[1] \in Keys
    BY <2>1 DEF MessageIDs
  <2>3. store'[n][k] = msg.write /\ n = msg.to
    BY <2>1, <2>2 DEF TypeOK
  <2> QED BY <1>2, <2>3, CopyIsNew
<1>3. ASSUME NEW w \in Writes, PutStep(w), ~LocalPut(w) PROVE store' = store
  BY <1>3 DEF PutStep, LocalPutFails, LocalQuorum, BroadcastToEnclave, SendPut, AllSent,
              PutConfirmed, PutTimesOut, PutCancelled, PutReturns
<1>4. ASSUME NEW msg \in net, Handle(msg), ~HandlePut(msg) PROVE store' = store
  BY <1>4 DEF Handle, HandleDuplicate, HandlePutFull, AckLookup
<1> QED
  BY <1>1, <1>2, <1>3, <1>4 DEF Next, StartPut, AckCount, cleanupSeenMessages, PeerChange, vars

\* Until a dedup cache overflows, no node stores a write twice: a late copy
\* never brings back an old value, whatever is lost, reordered or forwarded
\* (protocol.go, MarkSeen; node.go, handlePutMessage).
THEOREM StoredAtMostOnce == Spec /\ []Roomy => AppliedOnce
<1>1. TypeOK /\ Roomy /\ AppliedInv /\ [Next]_vars =>
        [\A n \in Nodes, k \in Keys :
           (store'[n][k] # store[n][k]) => store'[n][k] \notin applied[n]]_vars
  BY StoresNew
<1> QED BY <1>1, AlwaysApplied, TypeCorrect, PTL DEF Spec, AppliedOnce

-----------------------------------------------------------------------------
(***************************************************************************)
(* A confirmation is a replica.  An acknowledgement is on its way, in a    *)
(* handler or counted, in one of the three, and its sender holds the       *)
(* write; so the count and what is still to be counted stay within the     *)
(* number of nodes that hold it.                                           *)
(***************************************************************************)
UniqueIDs ==
  \A v, w \in Writes : Started(v) /\ Started(w) /\ op[v].id = op[w].id => v = w

Acks == {msg \in net : msg.type = "ACK"}

AcksKnown ==
  \A msg \in Acks : \E w \in Writes :
    /\ op[w].sent /\ msg.id = op[w].id /\ msg.to = op[w].node
    /\ w \in applied[msg.from]

AckingKnown == \A a \in acking : op[a.write].sent /\ a.write \in applied[a.from]

AckOnce == \A msg \in Acks, a \in acking : msg.from = a.from => msg.id # op[a.write].id

Outstanding(w) ==
  {n \in Nodes : \/ \E msg \in Acks : msg.from = n /\ msg.id = op[w].id
                 \/ \E a \in acking : a.from = n /\ a.write = w}

Confirmable(w) == op[w].phase \notin {"new", "registered", "full"}

Tally(w) ==
  /\ Started(w) /\ ~op[w].sent => op[w].confirmations = 1
  /\ Confirmable(w) => op[w].confirmations + Cardinality(Outstanding(w)) <= Cardinality(Holders(w))
  /\ op[w].complete => Confirmable(w) /\ op[w].needed <= Cardinality(Holders(w))

Told(w) ==
  /\ Started(w) /\ op[w].knew # {} => op[w].quorum >= 2
  /\ op[w].phase = "created" /\ op[w].knew # {} => op[w].sent

Receipts == UniqueIDs /\ AcksKnown /\ AckingKnown /\ AckOnce
QuorumInv == Receipts /\ \A w \in Writes : Tally(w) /\ Told(w)

LEMMA NodeSets ==
  ASSUME NEW S \in SUBSET Nodes
  PROVE  /\ IsFiniteSet(S) /\ Cardinality(S) \in Nat
         /\ \A T \in SUBSET S : Cardinality(T) <= Cardinality(S) /\ Cardinality(T) \in Nat
         /\ \A n \in S : /\ Cardinality(S \ {n}) = Cardinality(S) - 1
                         /\ Cardinality(S) >= 1
         /\ \A n \in Nodes \ S : Cardinality(S \cup {n}) = Cardinality(S) + 1
<1>1. IsFiniteSet(S) /\ Cardinality(S) \in Nat
  BY ReplicationAssumption, FS_Subset, FS_CardinalityType
<1>2. \A T \in SUBSET S : Cardinality(T) <= Cardinality(S) /\ Cardinality(T) \in Nat
  BY <1>1, FS_Subset, FS_CardinalityType
<1>3. ASSUME NEW n \in S PROVE Cardinality(S \ {n}) = Cardinality(S) - 1 /\ Cardinality(S) >= 1
  <2>1. Cardinality(S \ {n}) = Cardinality(S) - 1 /\ Cardinality(S \ {n}) \in Nat
    BY <1>1, FS_RemoveElement, FS_CardinalityType
  <2> QED BY <1>1, <2>1
<1>4. ASSUME NEW n \in Nodes \ S PROVE Cardinality(S \cup {n}) = Cardinality(S) + 1
  BY <1>1, FS_AddElement
<1> QED BY <1>1, <1>2, <1>3, <1>4

LEMMA Counts ==
  ASSUME TypeOK, NEW w \in Writes
  PROVE  /\ Outstanding(w) \in SUBSET Nodes /\ Holders(w) \in SUBSET Nodes
         /\ Cardinality(Outstanding(w)) \in Nat /\ Cardinality(Holders(w)) \in Nat
         /\ op[w].confirmations \in Nat /\ op[w].needed \in Nat /\ op[w].quorum \in Nat
<1>1. Outstanding(w) \in SUBSET Nodes /\ Holders(w) \in SUBSET Nodes
  BY DEF Outstanding, Holders
<1>2. op[w] \in Operation
  BY DEF TypeOK
<1>3. op[w].confirmations \in Nat /\ op[w].needed \in Nat /\ op[w].quorum \in Nat
  BY <1>2 DEF Operation
<1> QED BY <1>1, <1>3, NodeSets

AckShape(x) == x.from \in Nodes /\ x = [type |-> "ACK", from |-> x.from, to |-> x.to, id |-> x.id]

LEMMA AckShapes ==
  ASSUME TypeOK
  PROVE  /\ \A x \in Acks : AckShape(x) /\ x \in net /\ x.to \in Nodes /\ x.id \in MessageIDs
         /\ \A a \in acking : /\ a.write \in Writes /\ a.from \in Nodes
                               /\ a = [write |-> a.write, from |-> a.from]
<1>1. ASSUME NEW x \in Acks
      PROVE  AckShape(x) /\ x \in net /\ x.to \in Nodes /\ x.id \in MessageIDs
  <2>1. x \in net /\ x \in Message /\ x.type = "ACK"
    BY DEF Acks, TypeOK
  <2>2. x \in [type : {"ACK"}, from : Nodes, to : Nodes, id : MessageIDs]
    BY <2>1 DEF Message
  <2> QED BY <2>1, <2>2 DEF AckShape
<1>2. ASSUME NEW a \in acking
      PROVE  a.write \in Writes /\ a.from \in Nodes /\ a = [write |-> a.write, from |-> a.from]
  BY DEF TypeOK
<1> QED BY <1>1, <1>2

LEMMA SentIsStarted ==
  ASSUME AppliedInv, NEW w \in Writes, op[w].sent
  PROVE  Started(w) /\ Confirmable(w)
BY DEF AppliedInv, Ordered, Started, Confirmable

\* The write an acknowledgement is for.
LEMMA AckIsFor ==
  ASSUME TypeOK, AppliedInv, Receipts, NEW x \in Acks, NEW w \in Writes, Started(w), x.id = op[w].id
  PROVE  op[w].sent /\ x.to = op[w].node /\ w \in applied[x.from]
<1>1. PICK v \in Writes : op[v].sent /\ x.id = op[v].id /\ x.to = op[v].node /\ v \in applied[x.from]
  BY DEF Receipts, AcksKnown
<1>2. v = w
  BY <1>1, SentIsStarted DEF Receipts, UniqueIDs
<1> QED BY <1>1, <1>2

\* A step that makes no acknowledgement.
LEMMA ReceiptsKept ==
  ASSUME TypeOK, Receipts,
         \A v \in Writes : /\ Started(v)' <=> Started(v)
                           /\ op'[v].id = op[v].id /\ op'[v].node = op[v].node
                           /\ op[v].sent => op'[v].sent,
         \A n \in Nodes, v \in Writes : v \in applied[n] => v \in applied'[n],
         \A x \in net' : x.type = "ACK" => x \in net, acking' \in SUBSET acking
  PROVE  /\ Receipts'
         /\ \A v \in Writes : Outstanding(v)' \in SUBSET Outstanding(v) /\ Holders(v) \in SUBSET Holders(v)'
<1>1. \A x \in Acks' : x \in Acks
  BY DEF Acks
<1>2. UniqueIDs'
  BY DEF Receipts, UniqueIDs
<1>3. AcksKnown'
  <2> SUFFICES ASSUME NEW x \in Acks'
               PROVE  \E w \in Writes : /\ op'[w].sent /\ x.id = op'[w].id /\ x.to = op'[w].node
                                        /\ w \in applied'[x.from]
    BY DEF AcksKnown
  <2>1. PICK v \in Writes : op[v].sent /\ x.id = op[v].id /\ x.to = op[v].node /\ v \in applied[x.from]
    BY <1>1 DEF Receipts, AcksKnown
  <2>2. x.from \in Nodes
    BY <1>1, AckShapes DEF AckShape
  <2> QED BY <2>1, <2>2
<1>4. AckingKnown'
  BY AckShapes DEF Receipts, AckingKnown
<1>5. AckOnce'
  BY <1>1, AckShapes DEF Receipts, AckOnce
<1>6. ASSUME NEW v \in Writes
      PROVE  Outstanding(v)' \in SUBSET Outstanding(v) /\ Holders(v) \in SUBSET Holders(v)'
  BY <1>1 DEF Outstanding, Holders
<1> QED BY <1>2, <1>3, <1>4, <1>5, <1>6 DEF Receipts

\* A count that does not move stays within the holders.
LEMMA TallyKept ==
  ASSUME TypeOK, TypeOK', NEW v \in Writes, Tally(v), SameCount(v),
         op[v].sent => op'[v].sent, Started(v)' => Started(v),
         Confirmable(v)' <=> Confirmable(v),
         Confirmable(v) => Outstanding(v)' \in SUBSET Outstanding(v), Holders(v) \in SUBSET Holders(v)'
  PROVE  Tally(v)'
<1>1. /\ Outstanding(v) \in SUBSET Nodes /\ Holders(v)' \in SUBSET Nodes
      /\ Cardinality(Outstanding(v)) \in Nat /\ Cardinality(Holders(v)) \in Nat
      /\ Cardinality(Outstanding(v)') \in Nat /\ Cardinality(Holders(v)') \in Nat
      /\ op[v].confirmations \in Nat /\ op[v].needed \in Nat
  <2>1. Outstanding(v)' \in SUBSET Nodes /\ Holders(v)' \in SUBSET Nodes
    BY DEF Outstanding, Holders
  <2> QED BY <2>1, Counts, NodeSets
<1>2. Confirmable(v) => Cardinality(Outstanding(v)') <= Cardinality(Outstanding(v))
  BY <1>1, NodeSets
<1>3. Cardinality(Holders(v)) <= Cardinality(Holders(v)')
  BY <1>1, NodeSets
<1>4. op'[v].confirmations = op[v].confirmations /\ op'[v].needed = op[v].needed
  BY DEF SameCount
<1>5. op'[v].complete => op[v].complete
  BY DEF SameCount
<1>6. Started(v)' /\ ~op'[v].sent => op'[v].confirmations = 1
  BY <1>4 DEF Tally
<1>7. Confirmable(v)' => op'[v].confirmations + Cardinality(Outstanding(v)') <= Cardinality(Holders(v)')
  <2>1. Confirmable(v) => op[v].confirmations + Cardinality(Outstanding(v)) <= Cardinality(Holders(v))
    BY DEF Tally
  <2> HIDE DEF Confirmable
  <2> QED BY <1>1, <1>2, <1>3, <1>4, <2>1
<1>8. op'[v].complete => Confirmable(v)' /\ op'[v].needed <= Cardinality(Holders(v)')
  <2>1. op[v].complete => Confirmable(v) /\ op[v].needed <= Cardinality(Holders(v))
    BY DEF Tally
  <2>2. op[v].complete => op[v].needed <= Cardinality(Holders(v)')
    BY <1>1, <1>3, <2>1
  <2> QED BY <1>4, <1>5, <2>1, <2>2
<1> QED BY <1>6, <1>7, <1>8 DEF Tally

\* A step that moves no Put and makes no acknowledgement.
LEMMA QuorumFrame ==
  ASSUME TypeOK, TypeOK', QuorumInv, op' = op, applied' = applied,
         \A x \in net' : x.type = "ACK" => x \in net, acking' \in SUBSET acking
  PROVE  QuorumInv'
<1>1. \A v \in Writes : Started(v)' <=> Started(v)
  BY DEF Started
<1>2. /\ Receipts'
      /\ \A v \in Writes : Outstanding(v)' \in SUBSET Outstanding(v) /\ Holders(v) \in SUBSET Holders(v)'
  BY <1>1, ReceiptsKept DEF QuorumInv
<1>3. ASSUME NEW v \in Writes PROVE Tally(v)' /\ Told(v)'
  <2>1. SameCount(v) /\ (Confirmable(v)' <=> Confirmable(v)) /\ (op[v].sent => op'[v].sent)
    BY DEF SameCount, Confirmable
  <2>2. Tally(v)'
    BY <1>1, <1>2, <2>1, TallyKept DEF QuorumInv
  <2>3. Told(v)'
    BY DEF QuorumInv, Told, Started
  <2> QED BY <2>2, <2>3
<1> QED BY <1>2, <1>3 DEF QuorumInv

LEMMA QuorumStart ==
  ASSUME ~CoarseClock, ReplicationFactor >= 2, TypeOK, TypeOK', StampsPast, AppliedInv, QuorumInv,
         NEW w \in Writes, NEW n \in Nodes, NEW k \in Keys, NEW t \in 0..MaxStamp, StartPut(w, n, k, t)
  PROVE  QuorumInv'
<1>1. /\ \A v \in Writes \ {w} : op'[v] = op[v]
      /\ op[w].phase = "new" /\ op'[w].phase = "registered" /\ op'[w].sent = FALSE
      /\ op'[w].complete = FALSE
      /\ op'[w].id = <<k, t>> /\ op'[w].confirmations = 1
      /\ op'[w].quorum = quorumSize(n) /\ op'[w].knew = peers[n]
      /\ net' = net /\ acking' = acking /\ applied' = applied
  BY StartFacts DEF Moves
<1>2. ~op[w].sent /\ ~Started(w)
  BY <1>1 DEF AppliedInv, Ordered, Started
<1>3. t = clock + 1 /\ clock \in Nat
  BY DEF StartPut, TypeOK
<1>4. \A v \in Writes : Started(v) => op[v].id # <<k, t>>
  <2> SUFFICES ASSUME NEW v \in Writes, Started(v), op[v].id = <<k, t>> PROVE FALSE
    OBVIOUS
  <2>1. op[v].id[2] <= clock
    BY DEF StampsPast
  <2>2. op[v].id[2] = t
    OBVIOUS
  <2> QED BY <1>3, <2>1, <2>2
<1>5. \A v \in Writes \ {w} : Started(v)' <=> Started(v)
  BY <1>1 DEF Started
<1>6. UniqueIDs'
  BY <1>1, <1>4, <1>5 DEF QuorumInv, Receipts, UniqueIDs
<1>7. AcksKnown'
  BY <1>1, <1>2 DEF QuorumInv, Receipts, AcksKnown, Acks
<1>8. AckingKnown'
  BY <1>1, <1>2, AckShapes DEF QuorumInv, Receipts, AckingKnown
<1>9. AckOnce'
  <2>1. \A a \in acking : a.write \in Writes /\ a.write # w
    BY <1>2, AckShapes DEF QuorumInv, Receipts, AckingKnown
  <2> QED BY <1>1, <2>1 DEF QuorumInv, Receipts, AckOnce, Acks
<1>10. ASSUME NEW v \in Writes \ {w} PROVE Tally(v)' /\ Told(v)'
  <2>1. op'[v] = op[v]
    BY <1>1
  <2>2. Outstanding(v)' = Outstanding(v) /\ Holders(v)' = Holders(v)
    BY <1>1, <2>1 DEF Outstanding, Acks, Holders
  <2>3. Tally(v)'
    BY <2>1, <2>2 DEF QuorumInv, Tally, Started, Confirmable
  <2>4. Told(v)'
    BY <2>1 DEF QuorumInv, Told, Started
  <2> QED BY <2>3, <2>4
<1>11. Tally(w)'
  BY <1>1 DEF Tally, Confirmable
<1>12. Told(w)'
  <2>1. peers[n] # {} => quorumSize(n) >= 2
    BY QuorumPositive DEF TypeOK
  <2> QED BY <1>1, <2>1 DEF Told
<1> QED BY <1>6, <1>7, <1>8, <1>9, <1>10, <1>11, <1>12 DEF QuorumInv, Receipts

LEMMA QuorumPut ==
  ASSUME TypeOK, TypeOK', AppliedInv, QuorumInv, NEW w \in Writes, PutFacts(w)
  PROVE  QuorumInv'
<1>1. /\ \A v \in Writes \ {w} : op'[v] = op[v]
      /\ op'[w].node = op[w].node /\ op'[w].id = op[w].id
      /\ op'[w].quorum = op[w].quorum /\ op'[w].knew = op[w].knew
      /\ StoresLocally(w) \/ ConfirmsAlone(w) \/ Broadcasts(w) \/ Sends(w) \/ Advances(w)
  BY DEF PutFacts, SameOrigin
<1>2. acking' = acking /\ \A x \in net' : x.type = "ACK" => x \in net
  BY <1>1 DEF StoresLocally, ConfirmsAlone, Broadcasts, Sends, Advances, PutMessage
<1>3. op[w].phase # "new" /\ op'[w].phase # "new" /\ (op[w].sent => op'[w].sent)
      /\ op'[w].confirmations = op[w].confirmations
  BY <1>1 DEF StoresLocally, ConfirmsAlone, Broadcasts, Sends, Advances, Moves, SameCount
<1>4. op[w].node \in Nodes
  BY <1>3 DEF TypeOK, Started
<1>5. \A n \in Nodes, v \in Writes : v \in applied[n] => v \in applied'[n]
  <2>1. CASE StoresLocally(w)
    BY <1>4, <2>1 DEF StoresLocally, TypeOK
  <2> QED BY <1>1, <2>1 DEF ConfirmsAlone, Broadcasts, Sends, Advances
<1>6. \A v \in Writes : /\ Started(v)' <=> Started(v)
                        /\ op'[v].id = op[v].id /\ op'[v].node = op[v].node
                        /\ op[v].sent => op'[v].sent
  BY <1>1, <1>3 DEF Started
<1>7. /\ Receipts'
      /\ \A v \in Writes : Outstanding(v)' \in SUBSET Outstanding(v) /\ Holders(v) \in SUBSET Holders(v)'
  BY <1>2, <1>5, <1>6, ReceiptsKept DEF QuorumInv
<1>8. ASSUME NEW v \in Writes \ {w} PROVE Tally(v)' /\ Told(v)'
  <2>1. SameCount(v) /\ (Confirmable(v)' <=> Confirmable(v)) /\ (op[v].sent => op'[v].sent) /\ op'[v] = op[v]
    BY <1>1 DEF SameCount, Confirmable
  <2>2. Tally(v)'
    BY <1>6, <1>7, <2>1, TallyKept DEF QuorumInv
  <2>3. Told(v)'
    BY <2>1 DEF QuorumInv, Told, Started
  <2> QED BY <2>2, <2>3
<1>9. Tally(w) /\ Told(w) /\ Ordered(w)
  BY DEF QuorumInv, AppliedInv
<1>10. Told(w)'
  <2>1. Started(w)' /\ op'[w].knew # {} => op'[w].quorum >= 2
    BY <1>1, <1>6, <1>9 DEF Told
  <2>2. ASSUME op'[w].phase = "created", op'[w].knew # {} PROVE op'[w].sent
    <3>1. CASE ConfirmsAlone(w)
      <4>1. op[w].quorum >= 2 /\ op[w].confirmations >= op[w].quorum /\ op[w].quorum \in Nat /\ op[w].confirmations \in Nat
        BY <1>1, <1>3, <1>9, <2>2, <3>1, Counts DEF Told, ConfirmsAlone, Started
      <4>2. op[w].confirmations # 1
        BY <4>1
      <4> QED BY <1>3, <1>9, <4>2 DEF Tally, Started
    <3>2. CASE Advances(w)
      <4>1. op[w].phase = "waiting"
        BY <2>2, <3>2 DEF Advances, Moves
      <4> QED BY <1>3, <1>9, <4>1 DEF Ordered
    <3> QED BY <1>1, <2>2, <3>1, <3>2 DEF StoresLocally, Broadcasts, Sends, Moves
  <2> QED BY <2>1, <2>2 DEF Told
<1>11. Tally(w)'
  <2>1. CASE StoresLocally(w)
    <3>1. op[w].phase = "registered" /\ op'[w].phase = "stored" /\ ~op[w].sent /\ SameCount(w)
          /\ ~Confirmable(w)
      BY <1>9, <2>1 DEF StoresLocally, Moves, Ordered, Confirmable
    <3>2. op[w].confirmations = 1 /\ ~op[w].complete
      BY <1>9, <3>1 DEF Tally, Started
    <3>3. Outstanding(w) = {}
      <4>1. \A x \in Acks : x.id # op[w].id
        BY <1>3, <3>1, AckIsFor DEF QuorumInv, Started
      <4>2. \A a \in acking : a.write # w
        BY <3>1 DEF QuorumInv, Receipts, AckingKnown
      <4> QED BY <4>1, <4>2 DEF Outstanding
    <3>4. Outstanding(w)' = {}
      BY <1>7, <3>3
    <3>5. op[w].node \in Holders(w)'
      BY <1>4, <2>1 DEF StoresLocally, TypeOK, Holders
    <3>6. Cardinality(Holders(w)') >= 1 /\ Cardinality(Holders(w)') \in Nat
      <4>1. Holders(w)' \in SUBSET Nodes
        BY DEF Holders
      <4> QED BY <3>5, <4>1, NodeSets
    <3>7. Cardinality(Outstanding(w)') = 0
      BY <3>4, FS_EmptySet
    <3>8. op'[w].confirmations = 1 /\ ~op'[w].complete
      BY <3>1, <3>2 DEF SameCount
    <3>9. op'[w].confirmations + Cardinality(Outstanding(w)') <= Cardinality(Holders(w)')
      BY <3>6, <3>7, <3>8
    <3> QED BY <3>8, <3>9 DEF Tally
  <2>2. CASE ConfirmsAlone(w)
    <3>1. /\ op[w].phase = "stored" /\ op'[w].phase = "created"
          /\ op[w].confirmations >= op[w].quorum /\ op'[w].needed = op[w].quorum /\ op'[w].sent = op[w].sent
          /\ op' [w].confirmations = op[w].confirmations
          /\ net' = net /\ acking' = acking /\ applied' = applied
      BY <2>2 DEF ConfirmsAlone, Moves
    <3>2. Outstanding(w)' = Outstanding(w) /\ Holders(w)' = Holders(w)
      BY <1>1, <3>1 DEF Outstanding, Acks, Holders
    <3>3. op[w].confirmations + Cardinality(Outstanding(w)) <= Cardinality(Holders(w))
      BY <1>9, <3>1 DEF Tally, Confirmable
    <3>4. op'[w].confirmations + Cardinality(Outstanding(w)') <= Cardinality(Holders(w)')
          /\ op'[w].needed <= Cardinality(Holders(w)')
      BY <3>1, <3>2, <3>3, Counts
    <3>5. Confirmable(w)'
      BY <3>1 DEF Confirmable
    <3>6. ~op'[w].sent => op'[w].confirmations = 1
      BY <1>3, <1>9, <3>1 DEF Tally, Started
    <3> QED BY <3>4, <3>5, <3>6 DEF Tally
  <2>3. CASE Broadcasts(w) \/ Sends(w) \/ Advances(w)
    <3>1. SameCount(w) /\ (Confirmable(w)' <=> Confirmable(w))
      BY <2>3 DEF Broadcasts, Sends, Advances, Moves, Confirmable
    <3> QED BY <1>3, <1>6, <1>7, <1>9, <3>1, TallyKept
  <2> QED BY <1>1, <2>1, <2>2, <2>3
<1> QED BY <1>7, <1>8, <1>10, <1>11 DEF QuorumInv

\* A copy that is applied adds one holder and at most one acknowledgement.
LEMMA QuorumHandles ==
  ASSUME TypeOK, TypeOK', Roomy, AppliedInv, QuorumInv, NEW msg \in net, HandlePut(msg)
  PROVE  QuorumInv'
<1> DEFINE w == msg.write
           n == msg.to
<1>1. /\ w \in Writes /\ n \in Nodes /\ op' = op /\ acking' = acking
      /\ applied' = [applied EXCEPT ![n] = @ \cup {w}]
      /\ \A x \in net' : x.type = "ACK" =>
           x \in net \/ (x.from = n /\ x.to = msg.from /\ x.id = msg.id)
  BY HandlePutFacts
<1>2. w \notin applied[n] /\ op[w].sent /\ msg.id = op[w].id /\ msg.from = op[w].node
  BY CopyIsNew
<1>3. Receipts /\ Started(w) /\ Confirmable(w)
  BY <1>1, <1>2, SentIsStarted DEF QuorumInv
<1> HIDE DEF w, n
<1>4. /\ \A m \in Nodes, v \in Writes \ {w} : v \in applied'[m] <=> v \in applied[m]
      /\ \A m \in Nodes : w \in applied'[m] <=> w \in applied[m] \/ m = n
  BY <1>1 DEF TypeOK
<1>5. \A x \in Acks' : x \in Acks \/ (x.from = n /\ x.to = op[w].node /\ x.id = op[w].id)
  BY <1>1, <1>2 DEF Acks
<1>6. \A v \in Writes : Started(v)' <=> Started(v)
  BY <1>1 DEF Started
<1>7. UniqueIDs'
  BY <1>1, <1>3, <1>6 DEF Receipts, UniqueIDs
<1>8. AcksKnown'
  <2> SUFFICES ASSUME NEW x \in Acks'
               PROVE  \E v \in Writes : /\ op[v].sent /\ x.id = op[v].id /\ x.to = op[v].node
                                        /\ v \in applied'[x.from]
    BY <1>1 DEF AcksKnown
  <2>1. CASE x \in Acks
    <3>1. PICK v \in Writes : op[v].sent /\ x.id = op[v].id /\ x.to = op[v].node /\ v \in applied[x.from]
      BY <1>3, <2>1 DEF Receipts, AcksKnown
    <3>2. x.from \in Nodes
      BY <2>1, AckShapes DEF AckShape
    <3> QED BY <1>4, <3>1, <3>2
  <2>2. CASE x \notin Acks
    BY <1>1, <1>2, <1>4, <1>5, <2>2
  <2> QED BY <2>1, <2>2
<1>9. AckingKnown'
  BY <1>1, <1>3, <1>4, AckShapes DEF Receipts, AckingKnown
<1>10. AckOnce'
  <2> SUFFICES ASSUME NEW x \in Acks', NEW a \in acking, x.from = a.from, x.id = op[a.write].id
               PROVE  FALSE
    BY <1>1 DEF AckOnce
  <2>1. x \notin Acks
    BY <1>3 DEF Receipts, AckOnce
  <2>2. x.from = n /\ x.id = op[w].id
    BY <1>5, <2>1
  <2>3. a.write \in Writes /\ op[a.write].sent /\ a.write \in applied[n]
    BY <1>3, <2>2, AckShapes DEF Receipts, AckingKnown
  <2>4. a.write = w
    BY <1>1, <1>3, <2>2, <2>3, SentIsStarted DEF Receipts, UniqueIDs
  <2> QED BY <1>2, <2>3, <2>4
<1>11. \A v \in Writes : Told(v)'
  BY <1>1 DEF QuorumInv, Told, Started
<1>12. ASSUME NEW v \in Writes \ {w} PROVE Tally(v)'
  <2>1. SameCount(v) /\ (Confirmable(v)' <=> Confirmable(v)) /\ (op[v].sent => op'[v].sent)
    BY <1>1 DEF SameCount, Confirmable
  <2>2. Confirmable(v) => Outstanding(v)' \in SUBSET Outstanding(v)
    <3>1. ASSUME Confirmable(v) PROVE op[v].id # op[w].id
      BY <1>1, <1>3, <3>1 DEF Receipts, UniqueIDs, Started, Confirmable
    <3> QED BY <1>1, <1>5, <3>1 DEF Outstanding
  <2>3. Holders(v) \in SUBSET Holders(v)'
    BY <1>4 DEF Holders
  <2> QED BY <1>6, <2>1, <2>2, <2>3, TallyKept DEF QuorumInv
<1>13. Tally(w)'
  <2>1. /\ Outstanding(w) \in SUBSET Nodes /\ Holders(w) \in SUBSET Nodes
        /\ Cardinality(Outstanding(w)) \in Nat /\ Cardinality(Holders(w)) \in Nat
        /\ op[w].confirmations \in Nat /\ op[w].needed \in Nat
    BY <1>1, Counts
  <2>2. Holders(w)' = Holders(w) \cup {n} /\ n \notin Holders(w)
    BY <1>1, <1>2, <1>4 DEF Holders
  <2>3. Cardinality(Holders(w)') = Cardinality(Holders(w)) + 1
    BY <1>1, <2>1, <2>2, NodeSets
  <2>4. Outstanding(w)' \in SUBSET (Outstanding(w) \cup {n})
    BY <1>1, <1>5 DEF Outstanding
  <2>5. Cardinality(Outstanding(w)') <= Cardinality(Outstanding(w)) + 1 /\ Cardinality(Outstanding(w)') \in Nat
    <3>1. CASE n \in Outstanding(w)
      <4>1. Outstanding(w)' \in SUBSET Outstanding(w)
        BY <2>4, <3>1
      <4> QED BY <2>1, <4>1, NodeSets
    <3>2. CASE n \notin Outstanding(w)
      <4>1. Cardinality(Outstanding(w) \cup {n}) = Cardinality(Outstanding(w)) + 1
        BY <1>1, <2>1, <3>2, NodeSets
      <4>2. Outstanding(w) \cup {n} \in SUBSET Nodes
        BY <1>1, <2>1
      <4>3. /\ Cardinality(Outstanding(w)') <= Cardinality(Outstanding(w) \cup {n})
            /\ Cardinality(Outstanding(w)') \in Nat
        BY <2>4, <4>2, NodeSets
      <4> QED BY <4>1, <4>3
    <3> QED BY <3>1, <3>2
  <2>6. Tally(w) /\ Confirmable(w)'
    BY <1>1, <1>3 DEF QuorumInv, Confirmable
  <2>7. op[w].confirmations + Cardinality(Outstanding(w)) <= Cardinality(Holders(w))
    BY <1>3, <2>6 DEF Tally
  <2>8. op'[w].confirmations + Cardinality(Outstanding(w)') <= Cardinality(Holders(w)')
    BY <1>1, <2>1, <2>3, <2>5, <2>7
  <2>9. op[w].complete => op[w].needed <= Cardinality(Holders(w)')
    <3>1. op[w].complete => op[w].needed <= Cardinality(Holders(w))
      BY <2>6 DEF Tally
    <3>2. op[w].needed <= Cardinality(Holders(w)) => op[w].needed <= Cardinality(Holders(w)')
      BY <2>1, <2>3
    <3> QED BY <3>1, <3>2
  <2> QED BY <1>1, <1>2, <2>6, <2>8, <2>9 DEF Tally
<1> QED BY <1>7, <1>8, <1>9, <1>10, <1>11, <1>12, <1>13 DEF QuorumInv, Receipts

\* An acknowledgement that reaches the register moves into its handler.
LEMMA QuorumLookup ==
  ASSUME TypeOK, TypeOK', PendingExact, AppliedInv, QuorumInv, NEW msg \in net, AckLookup(msg)
  PROVE  QuorumInv'
<1> DEFINE w == pending[msg.to][msg.id]
<1>1. /\ msg \in Acks /\ net' = net \ {msg} /\ op' = op /\ applied' = applied
      /\ acking' = IF w = None THEN acking ELSE acking \cup {[write |-> w, from |-> msg.from]}
  BY DEF AckLookup, Acks
<1>2. CASE w = None
  BY <1>1, <1>2, QuorumFrame
<1>3. CASE w # None
  <2>1. msg.to \in Nodes /\ msg.id \in MessageIDs /\ msg.from \in Nodes /\ AckShape(msg)
    BY <1>1, AckShapes DEF AckShape
  <2>2. w \in Writes /\ Started(w)
    BY <1>3, <2>1 DEF TypeOK
  <2>3. op[w].node = msg.to /\ op[w].id = msg.id
    BY <1>3, <2>1 DEF PendingExact
  <2> DEFINE b == [write |-> w, from |-> msg.from]
  <2>4. b.write = w /\ b.from = msg.from /\ acking' = acking \cup {b}
    BY <1>1, <1>3
  <2> HIDE DEF w, b
  <2>5. Receipts /\ op[w].sent /\ w \in applied[msg.from]
    BY <1>1, <2>2, <2>3, AckIsFor DEF QuorumInv
  <2>6. \A x \in Acks' : x \in Acks /\ x # msg
    BY <1>1 DEF Acks
  <2>7. \A v \in Writes : Started(v)' <=> Started(v)
    BY <1>1 DEF Started
  <2>8. UniqueIDs' /\ AcksKnown'
    BY <1>1, <2>5, <2>6, <2>7 DEF Receipts, UniqueIDs, AcksKnown
  <2>9. AckingKnown'
    BY <1>1, <2>4, <2>5 DEF Receipts, AckingKnown
  <2>10. AckOnce'
    <3>1. ASSUME NEW x \in Acks', x.from = msg.from, x.id = op[w].id PROVE FALSE
      <4>1. x \in Acks /\ AckShape(x)
        BY <2>6, AckShapes
      <4>2. x.to = msg.to
        BY <2>2, <2>3, <2>5, <3>1, <4>1, AckIsFor
      <4>3. x = msg
        BY <2>1, <2>3, <3>1, <4>1, <4>2 DEF AckShape
      <4> QED BY <2>6, <4>3
    <3> QED BY <1>1, <2>4, <2>5, <2>6, <3>1 DEF Receipts, AckOnce
  <2>11. ASSUME NEW v \in Writes PROVE Tally(v)' /\ Told(v)'
    <3>1. SameCount(v) /\ (Confirmable(v)' <=> Confirmable(v)) /\ (op[v].sent => op'[v].sent)
      BY <1>1 DEF SameCount, Confirmable
    <3>2. Outstanding(v)' \in SUBSET Outstanding(v) /\ Holders(v)' = Holders(v)
      BY <1>1, <2>3, <2>4, <2>6 DEF Outstanding, Holders
    <3>3. Tally(v)'
      BY <2>7, <3>1, <3>2, TallyKept DEF QuorumInv
    <3>4. Told(v)'
      BY <1>1 DEF QuorumInv, Told, Started
    <3> QED BY <3>3, <3>4
  <2> QED BY <2>8, <2>9, <2>10, <2>11 DEF QuorumInv, Receipts
<1> QED BY <1>2, <1>3

LEMMA CountFacts ==
  ASSUME TypeOK, NEW a \in acking, AckCount(a)
  PROVE  LET w == a.write
             q == quorumSize(op[w].node)
             o == op'[w]
         IN /\ w \in Writes /\ op[w] \in Operation /\ q \in Nat
            /\ \A v \in Writes \ {w} : op'[v] = op[v]
            /\ o.phase = op[w].phase /\ o.sent = op[w].sent /\ SameOrigin(w)
            /\ o.confirmations = op[w].confirmations + 1
            /\ \/ o.complete = op[w].complete /\ o.needed = op[w].needed
               \/ o.needed = q /\ q <= op[w].confirmations + 1
            /\ acking' = acking \ {a} /\ UNCHANGED <<net, applied>>
<1> DEFINE w == a.write
           q == quorumSize(op[w].node)
           count == op[w].confirmations + 1
           reached == count >= q
           need == IF reached /\ ~op[w].complete THEN q ELSE op[w].needed
           done == op[w].complete \/ reached
           o == [op[w] EXCEPT !.confirmations = count, !.complete = done, !.needed = need]
<1>1. w \in Writes /\ Started(w) /\ op[w] \in Operation /\ DOMAIN op = Writes
  BY DEF TypeOK
<1>2. q \in Nat /\ op[w].confirmations \in Nat /\ op[w].complete \in BOOLEAN
  BY <1>1, QuorumPositive DEF TypeOK, Operation
<1>3. op' = [op EXCEPT ![w] = o] /\ acking' = acking \ {a} /\ UNCHANGED <<net, applied>>
  BY DEF AckCount
<1>4. \/ done = op[w].complete /\ need = op[w].needed
      \/ need = q /\ reached
  <2> HIDE DEF reached, q
  <2> QED BY <1>2
<1>5. reached => q <= count
  BY <1>2
<1>6. /\ o.phase = op[w].phase /\ o.sent = op[w].sent /\ o.node = op[w].node /\ o.id = op[w].id
      /\ o.quorum = op[w].quorum /\ o.knew = op[w].knew
      /\ o.confirmations = count /\ o.complete = done /\ o.needed = need
  <2> HIDE DEF count, done, need
  <2> QED BY <1>1 DEF Operation
<1> HIDE DEF o, done, need, reached, w, q
<1>7. op'[w] = o /\ \A v \in Writes \ {w} : op'[v] = op[v]
  BY <1>1, <1>3
<1> QED BY <1>1, <1>2, <1>3, <1>4, <1>5, <1>6, <1>7 DEF SameOrigin, w, q

\* Counting an acknowledgement takes it from what is still to be counted.
LEMMA QuorumCount ==
  ASSUME TypeOK, TypeOK', AppliedInv, QuorumInv, NEW a \in acking, AckCount(a)
  PROVE  QuorumInv'
<1> DEFINE w == a.write
           q == quorumSize(op[w].node)
<1>1. /\ w \in Writes /\ q \in Nat
      /\ \A v \in Writes \ {w} : op'[v] = op[v]
      /\ op'[w].phase = op[w].phase /\ op'[w].sent = op[w].sent /\ SameOrigin(w)
      /\ op'[w].confirmations = op[w].confirmations + 1
      /\ \/ op'[w].complete = op[w].complete /\ op'[w].needed = op[w].needed
         \/ op'[w].needed = q /\ q <= op[w].confirmations + 1
      /\ acking' = acking \ {a} /\ net' = net /\ applied' = applied
  BY CountFacts
<1> HIDE DEF q
<1>2. \A v \in Writes : /\ Started(v)' <=> Started(v)
                        /\ op'[v].id = op[v].id /\ op'[v].node = op[v].node
                        /\ op[v].sent => op'[v].sent
  BY <1>1 DEF SameOrigin, Started
<1>3. /\ Receipts'
      /\ \A v \in Writes : Outstanding(v)' \in SUBSET Outstanding(v) /\ Holders(v) \in SUBSET Holders(v)'
  BY <1>1, <1>2, ReceiptsKept DEF QuorumInv
<1>4. \A v \in Writes : Told(v)'
  BY <1>1 DEF QuorumInv, Told, Started, SameOrigin
<1>5. ASSUME NEW v \in Writes \ {w} PROVE Tally(v)'
  <2>1. SameCount(v) /\ (Confirmable(v)' <=> Confirmable(v)) /\ (op[v].sent => op'[v].sent)
    BY <1>1 DEF SameCount, Confirmable
  <2> QED BY <1>2, <1>3, <2>1, TallyKept DEF QuorumInv
<1>6. Receipts /\ Tally(w) /\ op[w].sent /\ Confirmable(w)
  BY <1>1, SentIsStarted DEF QuorumInv, Receipts, AckingKnown
<1>7. Confirmable(w)' /\ op'[w].sent
  BY <1>1, <1>6 DEF Confirmable
<1>8. a.from \in Outstanding(w)
  BY AckShapes DEF Outstanding
<1>9. Outstanding(w)' \in SUBSET (Outstanding(w) \ {a.from})
  <2>1. \A x \in Acks' : x \in Acks
    BY <1>1 DEF Acks
  <2>2. \A x \in Acks : x.from = a.from => x.id # op[w].id
    BY <1>6 DEF Receipts, AckOnce
  <2>3. \A b \in acking' : ~(b.from = a.from /\ b.write = w)
    BY <1>1, AckShapes
  <2>4. a.from \notin Outstanding(w)'
    BY <1>1, <1>2, <2>1, <2>2, <2>3 DEF Outstanding
  <2> QED BY <1>1, <1>3, <2>4
<1>10. Holders(w)' = Holders(w)
  BY <1>1 DEF Holders
<1> DEFINE C == op[w].confirmations
           O == Cardinality(Outstanding(w))
           P == Cardinality(Outstanding(w)')
           H == Cardinality(Holders(w))
<1>11. /\ Outstanding(w) \in SUBSET Nodes /\ O \in Nat /\ H \in Nat /\ C \in Nat /\ op[w].needed \in Nat
  BY <1>1, Counts
<1>12. P <= O - 1 /\ P \in Nat
  <2>1. Cardinality(Outstanding(w) \ {a.from}) = O - 1
    BY <1>8, <1>11, NodeSets
  <2>2. Outstanding(w) \ {a.from} \in SUBSET Nodes
    BY <1>11
  <2>3. P <= Cardinality(Outstanding(w) \ {a.from}) /\ P \in Nat
    BY <1>9, <2>2, NodeSets
  <2> QED BY <2>1, <2>3
<1>13. C + O <= H
  BY <1>6 DEF Tally
<1>14. op'[w].confirmations + Cardinality(Outstanding(w)') <= Cardinality(Holders(w)')
  <2>1. C + 1 + P <= H
    BY <1>11, <1>12, <1>13
  <2> QED BY <1>1, <1>10, <2>1
<1>15. q <= C + 1 => q <= H
  BY <1>1, <1>11, <1>12, <1>13
<1>16. op'[w].complete => op'[w].needed <= Cardinality(Holders(w)')
  <2>1. op[w].complete => op[w].needed <= H
    BY <1>6 DEF Tally
  <2> HIDE DEF w, C, H
  <2>2. CASE op'[w].complete = op[w].complete /\ op'[w].needed = op[w].needed
    BY <1>10, <2>1, <2>2 DEF H
  <2>3. CASE op'[w].needed = q /\ q <= C + 1
    BY <1>10, <1>15, <2>3 DEF H
  <2> QED BY <1>1, <2>2, <2>3 DEF C
<1>17. Tally(w)'
  BY <1>7, <1>14, <1>16 DEF Tally
<1> QED BY <1>3, <1>4, <1>5, <1>17 DEF QuorumInv

LEMMA QuorumNext ==
  ASSUME ~CoarseClock, ReplicationFactor >= 2, TypeOK, TypeOK', Roomy, RegisterInv, AppliedInv,
         QuorumInv, [Next]_vars
  PROVE  QuorumInv'
<1>1. ASSUME NEW msg \in net, HandleDuplicate(msg) \/ HandlePutFull(msg) PROVE QuorumInv'
  BY <1>1, QuorumFrame DEF HandleDuplicate, HandlePutFull
<1>2. ASSUME NEW n \in Nodes, cleanupSeenMessages(n) PROVE QuorumInv'
  BY <1>2, QuorumFrame DEF cleanupSeenMessages
<1>3. ASSUME NEW n \in Nodes, NEW m \in Nodes, PeerChange(n, m) PROVE QuorumInv'
  BY <1>3, QuorumFrame DEF PeerChange
<1>4. CASE UNCHANGED vars
  BY <1>4, QuorumFrame DEF vars
<1>5. ASSUME NEW w \in Writes, PutStep(w) PROVE QuorumInv'
  BY <1>5, PutStepFacts, QuorumPut
<1>6. ASSUME NEW msg \in net, Handle(msg) PROVE QuorumInv'
  BY <1>1, <1>6, QuorumHandles, QuorumLookup DEF Handle, RegisterInv
<1> QED BY <1>2, <1>3, <1>4, <1>5, <1>6, QuorumStart, QuorumCount DEF Next, RegisterInv

LEMMA QuorumInit ==
  ASSUME Init
  PROVE  QuorumInv
<1>1. \A w \in Writes : op[w].phase = "new" /\ op[w].complete = FALSE
  BY DEF Init, NotStarted
<1>2. Acks = {} /\ acking = {}
  BY DEF Init, Acks
<1>3. Receipts
  BY <1>1, <1>2 DEF Receipts, UniqueIDs, AcksKnown, AckingKnown, AckOnce, Started
<1> QED BY <1>1, <1>3 DEF QuorumInv, Tally, Told, Started, Confirmable

\* With clock readings that differ and a factor that asks for a second copy,
\* and until a dedup cache overflows: a write reported as confirmed is held
\* by as many nodes as the threshold, and a Put that knew peers never reports
\* success without having told them (node.go, Put, handleAckMessage,
\* quorumSize; protocol.go, MarkSeen).
THEOREM QuorumsHeld ==
  ~CoarseClock /\ ReplicationFactor >= 2 => (Spec /\ []Roomy => []QuorumHeld)
<1> SUFFICES ASSUME ~CoarseClock, ReplicationFactor >= 2
             PROVE  Spec /\ []Roomy => []QuorumHeld
  OBVIOUS
<1>1. TypeOK /\ TypeOK' /\ Roomy /\ RegisterInv /\ AppliedInv /\ QuorumInv /\ [Next]_vars => QuorumInv'
  BY QuorumNext
<1>2. Spec => []RegisterInv
  BY RegistersExact
<1>3. TypeOK /\ AppliedInv /\ QuorumInv => QuorumHeld
  <2> SUFFICES ASSUME TypeOK, AppliedInv, QuorumInv, NEW w \in Writes
               PROVE  /\ op[w].complete => Cardinality(Holders(w)) >= op[w].needed
                      /\ op[w].phase \in {"created", "accepted"} /\ op[w].knew # {} => op[w].sent
    BY DEF QuorumHeld
  <2>1. op[w].complete => op[w].needed <= Cardinality(Holders(w))
    BY DEF QuorumInv, Tally
  <2>2. op[w].needed <= Cardinality(Holders(w)) => Cardinality(Holders(w)) >= op[w].needed
    BY Counts
  <2>3. op[w].phase \in {"created", "accepted"} /\ op[w].knew # {} => op[w].sent
    BY DEF QuorumInv, Told, AppliedInv, Ordered
  <2> QED BY <2>1, <2>2, <2>3
<1> QED BY <1>1, <1>2, <1>3, QuorumInit, AlwaysApplied, TypeCorrect, PTL DEF Spec
-----------------------------------------------------------------------------
(***************************************************************************)
(* Roomy is more than a hypothesis: a dedup cache holds each MessageID at  *)
(* most once, and only those of writes that started, so it cannot overflow *)
(* while there are fewer writes than entries.                              *)
(***************************************************************************)
Known(id) == \E w \in Writes : Started(w) /\ op[w].id = id

CacheOK(n) ==
  /\ \A i \in DOMAIN seen[n] : Known(seen[n][i])
  /\ \A i, j \in DOMAIN seen[n] : seen[n][i] = seen[n][j] => i = j

CacheInv == \A n \in Nodes : CacheOK(n)

LEMMA FewWritesFit ==
  ASSUME TypeOK, CacheInv, Cardinality(Writes) < MaxSeen
  PROVE  Roomy
<1> SUFFICES ASSUME NEW n \in Nodes PROVE Len(seen[n]) < MaxSeen
  BY DEF Roomy
<1>1. seen[n] \in Seq(MessageIDs)
  BY DEF TypeOK
<1>2. Len(seen[n]) \in Nat /\ DOMAIN seen[n] = 1 .. Len(seen[n])
  BY <1>1
<1>3. CacheOK(n)
  BY DEF CacheInv
<1> DEFINE f == [i \in 1 .. Len(seen[n]) |-> CHOOSE w \in Writes : op[w].id = seen[n][i]]
<1>4. \A i \in 1 .. Len(seen[n]) : f[i] \in Writes /\ op[f[i]].id = seen[n][i]
  BY <1>2, <1>3 DEF CacheOK, Known
<1>5. f \in [1 .. Len(seen[n]) -> Writes]
  BY <1>4
<1>6. f \in Injection(1 .. Len(seen[n]), Writes)
  <2> HIDE DEF f
  <2>1. \A i, j \in 1 .. Len(seen[n]) : f[i] = f[j] => i = j
    BY <1>2, <1>3, <1>4 DEF CacheOK
  <2> QED BY <1>5, <2>1, Fun_IsInj
<1>7. Cardinality(1 .. Len(seen[n])) <= Cardinality(Writes)
  BY <1>6, FS_Injection, ReplicationAssumption
<1>8. Cardinality(1 .. Len(seen[n])) = Len(seen[n])
  BY <1>2, FS_Interval
<1>9. Cardinality(Writes) \in Nat /\ MaxSeen \in Nat
  BY ReplicationAssumption, FS_CardinalityType
<1> QED BY <1>2, <1>7, <1>8, <1>9

\* A write that has started keeps its MessageID.
LEMMA KnownKept ==
  ASSUME TypeOK, [Next]_vars, NEW id, Known(id)
  PROVE  \E w \in Writes : Started(w)' /\ op'[w].id = id
<1>1. PICK v \in Writes : Started(v) /\ op[v].id = id
  BY DEF Known
<1>2. Started(v)' /\ op'[v].id = op[v].id
  <2>1. ASSUME NEW w \in Writes, NEW n \in Nodes, NEW k \in Keys, NEW t \in 0..MaxStamp, StartPut(w, n, k, t)
        PROVE  Started(v)' /\ op'[v].id = op[v].id
    BY <1>1, <2>1, StartFacts DEF Moves, Started
  <2>2. CASE Quiet
    BY <1>1, <2>2 DEF Quiet, SameRegistration, Started
  <2>3. ASSUME NEW w \in Writes, Ends(w) PROVE Started(v)' /\ op'[v].id = op[v].id
    BY <1>1, <2>3 DEF Ends, SameRegistration, Started, Ended
  <2> QED BY <2>1, <2>2, <2>3, StepKinds
<1> QED BY <1>1, <1>2

Marks(n) == \E id \in MessageIDs : Known(id) /\ ~Seen(n, id) /\ seen' = [seen EXCEPT ![n] = Append(seen[n], id)]

Expires(n) == seen[n] # <<>> /\ seen' = [seen EXCEPT ![n] = Tail(@)]

LEMMA CacheSteps ==
  ASSUME TypeOK, Roomy, AppliedInv, [Next]_vars
  PROVE  seen' = seen \/ \E n \in Nodes : Marks(n) \/ Expires(n)
<1>1. ASSUME NEW w \in Writes, PutStep(w) PROVE seen' = seen \/ \E n \in Nodes : Marks(n)
  <2>1. CASE Broadcasts(w) /\ seen' # seen
    <3>1. op[w].phase = "stored"
      BY <2>1 DEF Broadcasts, Moves
    <3>2. Started(w) /\ op[w].node \in Nodes /\ op[w].id \in MessageIDs
      BY <3>1 DEF TypeOK, Started
    <3>3. ~Seen(op[w].node, op[w].id)
      BY <1>1, <2>1, <3>1 DEF PutStep, LocalPutFails, LocalPut, LocalQuorum, BroadcastToEnclave, SendPut,
                          AllSent, PutConfirmed, PutTimesOut, PutCancelled, PutReturns
    <3>4. PICK c \in MarkSeen(op[w].node, op[w].id) : seen' = [seen EXCEPT ![op[w].node] = c]
      BY <2>1 DEF Broadcasts
    <3>5. c = Append(seen[op[w].node], op[w].id)
      BY <3>2, <3>4, MarkRoomy
    <3>6. Marks(op[w].node)
      BY <3>2, <3>3, <3>4, <3>5 DEF Marks, Known
    <3> QED BY <3>2, <3>6
  <2> QED BY <1>1, <2>1, PutStepFacts DEF PutFacts, StoresLocally, ConfirmsAlone, Sends, Advances
<1>2. ASSUME NEW msg \in net, HandlePut(msg) \/ HandlePutFull(msg) PROVE Marks(msg.to) /\ msg.to \in Nodes
  <2>1. msg.type = "PUT" /\ ~Seen(msg.to, msg.id) /\ msg \in Message
    BY <1>2 DEF HandlePut, HandlePutFull, TypeOK
  <2>2. msg \in [type : {"PUT"}, from : Nodes, to : Nodes, id : MessageIDs, write : Writes]
    BY <2>1 DEF Message
  <2>3. msg.to \in Nodes /\ msg.id \in MessageIDs /\ msg.write \in Writes
    BY <2>2
  <2>4. PICK c \in MarkSeen(msg.to, msg.id) : seen' = [seen EXCEPT ![msg.to] = c]
    BY <1>2 DEF HandlePut, HandlePutFull
  <2>5. c = Append(seen[msg.to], msg.id)
    BY <2>3, <2>4, MarkRoomy
  <2>6. op[msg.write].sent /\ msg.id = op[msg.write].id
    BY <2>1, <2>3 DEF AppliedInv, Ordered, PutsOf
  <2>7. Known(msg.id)
    BY <2>3, <2>6, SentIsStarted DEF Known
  <2> QED BY <2>1, <2>3, <2>4, <2>5, <2>7 DEF Marks
<1>3. ASSUME NEW msg \in net, HandleDuplicate(msg) \/ AckLookup(msg) PROVE seen' = seen
  BY <1>3 DEF HandleDuplicate, AckLookup
<1>4. ASSUME NEW n \in Nodes, cleanupSeenMessages(n) PROVE Expires(n)
  BY <1>4 DEF cleanupSeenMessages, Expires
<1> QED
  BY <1>1, <1>2, <1>3, <1>4 DEF Next, Handle, StartPut, AckCount, PeerChange, vars

LEMMA CacheNext ==
  ASSUME TypeOK, Roomy, AppliedInv, CacheInv, [Next]_vars
  PROVE  CacheInv'
<1>1. ASSUME NEW n \in Nodes, NEW c, seen'[n] = c, \A i \in DOMAIN c : Known(c[i]),
             \A i, j \in DOMAIN c : c[i] = c[j] => i = j
      PROVE  CacheOK(n)'
  <2>1. ASSUME NEW i \in DOMAIN c PROVE \E w \in Writes : Started(w)' /\ op'[w].id = c[i]
    BY <1>1, KnownKept
  <2> QED BY <1>1, <2>1 DEF CacheOK, Known
<1>2. ASSUME NEW n \in Nodes, seen'[n] = seen[n] PROVE CacheOK(n)'
  <2>1. PICK c : c = seen[n]
    OBVIOUS
  <2> QED BY <1>1, <1>2, <2>1 DEF CacheInv, CacheOK
<1>3. ASSUME NEW n \in Nodes, Marks(n) PROVE CacheInv'
  <2>1. PICK id \in MessageIDs : Known(id) /\ ~Seen(n, id) /\ seen' = [seen EXCEPT ![n] = Append(seen[n], id)]
    BY <1>3 DEF Marks
  <2>2. seen[n] \in Seq(MessageIDs) /\ DOMAIN seen = Nodes /\ CacheOK(n)
    BY DEF TypeOK, CacheInv
  <2> DEFINE c == Append(seen[n], id)
             l == Len(seen[n])
  <2>3. /\ l \in Nat /\ DOMAIN seen[n] = 1 .. l /\ DOMAIN c = 1 .. l + 1 /\ c[l + 1] = id
        /\ \A i \in 1 .. l : c[i] = seen[n][i]
    BY <2>2
  <2>4. seen'[n] = c /\ \A m \in Nodes \ {n} : seen'[m] = seen[m]
    BY <2>1, <2>2
  <2> HIDE DEF c, l
  <2>5. \A i \in DOMAIN c : i \in 1 .. l \/ i = l + 1
    BY <2>3
  <2>6. \A i \in 1 .. l : c[i] # id /\ Known(c[i])
    BY <2>1, <2>2, <2>3 DEF Seen, CacheOK
  <2>7. \A i \in DOMAIN c : Known(c[i])
    BY <2>1, <2>3, <2>5, <2>6
  <2>8. \A i, j \in DOMAIN c : c[i] = c[j] => i = j
    BY <2>2, <2>3, <2>5, <2>6 DEF CacheOK
  <2>9. CacheOK(n)'
    BY <1>1, <2>4, <2>7, <2>8
  <2> QED BY <1>2, <2>4, <2>9 DEF CacheInv
<1>4. ASSUME NEW n \in Nodes, Expires(n) PROVE CacheInv'
  <2>1. seen[n] \in Seq(MessageIDs) /\ DOMAIN seen = Nodes /\ CacheOK(n) /\ seen[n] # <<>>
    BY <1>4 DEF TypeOK, CacheInv, Expires
  <2> DEFINE c == Tail(seen[n])
             l == Len(seen[n])
  <2>2. /\ l \in Nat /\ DOMAIN seen[n] = 1 .. l /\ DOMAIN c = 1 .. l - 1
        /\ \A i \in 1 .. l - 1 : c[i] = seen[n][i + 1] /\ i + 1 \in 1 .. l
    BY <2>1
  <2>3. seen'[n] = c /\ \A m \in Nodes \ {n} : seen'[m] = seen[m]
    BY <1>4, <2>1 DEF Expires
  <2> HIDE DEF c, l
  <2>4. \A i \in DOMAIN c : Known(c[i])
    BY <2>1, <2>2 DEF CacheOK
  <2>5. \A i, j \in DOMAIN c : c[i] = c[j] => i = j
    BY <2>1, <2>2 DEF CacheOK
  <2>6. CacheOK(n)'
    BY <1>1, <2>3, <2>4, <2>5
  <2> QED BY <1>2, <2>3, <2>6 DEF CacheInv
<1>5. CASE seen' = seen
  BY <1>2, <1>5 DEF CacheInv
<1> QED BY <1>3, <1>4, <1>5, CacheSteps

LEMMA AlwaysRoomy == Cardinality(Writes) < MaxSeen => (Spec => []Roomy)
<1> SUFFICES ASSUME Cardinality(Writes) < MaxSeen PROVE Spec => []Roomy
  OBVIOUS
<1>1. Init => CacheInv
  BY DEF Init, CacheInv, CacheOK
<1>2. TypeOK /\ CacheInv => Roomy
  BY FewWritesFit
<1>3. TypeOK /\ AppliedInv /\ CacheInv /\ [Next]_vars => AppliedInv' /\ CacheInv'
  BY <1>2, AppliedNext, CacheNext
<1> QED BY <1>1, <1>2, <1>3, AppliedInit, TypeCorrect, PTL DEF Spec

\* With fewer writes than a dedup cache holds, both promises are without
\* condition on the behaviour: no write is stored twice by a node, and with
\* distinct clock readings every reported quorum is really held.
THEOREM SmallLoadSafe ==
  Cardinality(Writes) < MaxSeen =>
    /\ Spec => AppliedOnce
    /\ ~CoarseClock /\ ReplicationFactor >= 2 => (Spec => []QuorumHeld)
<1> SUFFICES ASSUME Cardinality(Writes) < MaxSeen
             PROVE  /\ Spec => AppliedOnce
                    /\ ~CoarseClock /\ ReplicationFactor >= 2 => (Spec => []QuorumHeld)
  OBVIOUS
<1>1. Spec => []Roomy
  BY AlwaysRoomy
<1>2. Spec => AppliedOnce
  BY <1>1, StoredAtMostOnce, PTL
<1>3. ASSUME ~CoarseClock, ReplicationFactor >= 2 PROVE Spec => []QuorumHeld
  <2>1. Spec /\ []Roomy => []QuorumHeld
    BY <1>3, QuorumsHeld
  <2> QED BY <1>1, <2>1, PTL
<1> QED BY <1>2, <1>3
=============================================================================
