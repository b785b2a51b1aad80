--------------------------- MODULE PeerTableProofs ---------------------------
(***************************************************************************)
(* Proofs about PeerTable, for every set of IDs, origins and manifests and *)
(* every limit of failed health checks.                                    *)
(***************************************************************************)
EXTENDS PeerTable, TLAPS

\* No binding is None, and a well-formed advertisement is a binding.
LEMMA NoneIsNoBinding == None \notin Binding
BY NameAssumption DEF None, Binding

LEMMA AdvertBinding ==
  ASSUME NEW a \in Advert, a.origin # BadOrigin
  PROVE  BindingOf(a) \in Binding
BY NameAssumption DEF Advert, BindingOf, Binding, BadOrigin

\* Every variable keeps its type, and the node never enters its own table:
\* addPeer filters it and SetRootBindings only rewrites what is there.
THEOREM TypeCorrect == Spec => []TypeOK
<1>1. Init => TypeOK
  BY PeerAssumption DEF Init, TypeOK
<1>2. TypeOK /\ [Next]_vars => TypeOK'
  <2> SUFFICES ASSUME TypeOK, [Next]_vars PROVE TypeOK'
    OBVIOUS
  <2> USE DEF TypeOK
  <2>1. ASSUME NEW a \in Advert, addPeer(a) PROVE TypeOK'
    <3>1. BindingOf(a) \in Binding /\ a.id \in Ids
      BY <2>1, AdvertBinding DEF addPeer, Advert
    <3> QED BY <2>1, <3>1, PeerAssumption DEF addPeer, NotSelf, round
  <2>2. ASSUME NEW m \in Manifests, SetRootBindings(m) PROVE TypeOK'
    <3>1. m \in [Ids -> Binding \cup {None}]
      BY NameAssumption
    <3> QED BY <2>2, <3>1, PeerAssumption DEF SetRootBindings, Rebound, round
  <2>3. CASE pingPeers
    BY <2>3 DEF pingPeers, Peers, table
  <2>4. CASE RoundEnds
    BY <2>4 DEF RoundEnds, table
  <2>5. ASSUME NEW i \in Ids, PingSucceeds(i) PROVE TypeOK'
    BY <2>5 DEF PingSucceeds, table
  <2>6. ASSUME NEW i \in Ids, PingFails(i) PROVE TypeOK'
    BY <2>6, PeerAssumption DEF PingFails, Capped
  <2>7. ASSUME NEW i \in Ids, handlePong(i) PROVE TypeOK'
    BY <2>7 DEF handlePong, round
  <2>8. ASSUME NEW i \in Ids, removePeer(i) PROVE TypeOK'
    BY <2>8 DEF removePeer
  <2>9. ASSUME NEW i \in Ids, Dies(i) PROVE TypeOK'
    BY <2>9 DEF Dies, table, round
  <2>10. CASE UNCHANGED vars
    BY <2>10 DEF vars, table, round
  <2> QED BY <2>1, <2>2, <2>3, <2>4, <2>5, <2>6, <2>7, <2>8, <2>9, <2>10 DEF Next
<1> QED BY <1>1, <1>2, PTL DEF Spec

\* A root in the table always has the route of the last verified manifest.
\* The invariant is inductive: addPeer refuses what contradicts a pin, and
\* SetRootBindings moves the peers it pins in the step that pins them.
THEOREM PinsRespected == Spec => []PinsHold
<1>1. Init => PinsHold
  BY DEF Init, PinsHold, Peers
<1>2. TypeOK /\ TypeOK' /\ PinsHold /\ [Next]_vars => PinsHold'
  <2> SUFFICES ASSUME TypeOK, TypeOK', PinsHold, [Next]_vars PROVE PinsHold'
    OBVIOUS
  <2> USE DEF PinsHold, Peers
  <2>1. ASSUME NEW a \in Advert, addPeer(a) PROVE PinsHold'
    <3>1. a.id \in Ids
      BY DEF Advert
    <3>2. peers' = [peers EXCEPT ![a.id] = BindingOf(a)] /\ rootBindings' = rootBindings
      BY <2>1 DEF addPeer
    <3>3. rootBindings[a.id] \in {None, BindingOf(a)}
      BY <2>1 DEF addPeer, AgreesWithPin
    <3> QED BY <3>1, <3>2, <3>3 DEF TypeOK
  <2>2. ASSUME NEW m \in Manifests, SetRootBindings(m) PROVE PinsHold'
    <3>1. rootBindings' = m /\ peers' = Rebound(m)
      BY <2>2 DEF SetRootBindings
    <3>2. ASSUME NEW i \in Ids, peers'[i] # None PROVE m[i] \in {None, peers'[i]}
      BY <3>1, <3>2 DEF Rebound
    <3> QED BY <3>1, <3>2
  <2>3. ASSUME NEW i \in Ids, removePeer(i) PROVE PinsHold'
    BY <2>3 DEF removePeer, TypeOK
  <2>4. CASE UNCHANGED <<peers, rootBindings>>
    BY <2>4
  <2>5. \/ \E a \in Advert : addPeer(a)
        \/ \E m \in Manifests : SetRootBindings(m)
        \/ \E i \in Ids : removePeer(i)
        \/ UNCHANGED <<peers, rootBindings>>
    BY DEF Next, vars, table, pingPeers, RoundEnds, PingSucceeds, PingFails,
           handlePong, Dies
  <2> QED BY <2>1, <2>2, <2>3, <2>4, <2>5
<1> QED BY <1>1, <1>2, TypeCorrect, PTL DEF Spec

\* No referral moves an established peer.
THEOREM RoutesStable == Spec => RouteStable
<1>1. TypeOK /\ [Next]_vars =>
        [\A i \in Ids :
           (peers[i] # None /\ peers'[i] \notin {None, peers[i]}) =>
             /\ manifests' = manifests + 1
             /\ rootBindings'[i] = peers'[i]]_vars
  <2> SUFFICES ASSUME TypeOK, [Next]_vars, NEW i \in Ids,
                      peers[i] # None, peers'[i] \notin {None, peers[i]}
               PROVE  manifests' = manifests + 1 /\ rootBindings'[i] = peers'[i]
    BY DEF vars
  <2>1. ASSUME NEW a \in Advert, addPeer(a) PROVE FALSE
    BY <2>1 DEF addPeer, Known, TypeOK, Advert
  <2>2. ASSUME NEW m \in Manifests, SetRootBindings(m)
        PROVE  manifests' = manifests + 1 /\ rootBindings'[i] = peers'[i]
    BY <2>2 DEF SetRootBindings, Rebound
  <2>3. ASSUME NEW j \in Ids, removePeer(j) PROVE FALSE
    BY <2>3 DEF removePeer, TypeOK
  <2>4. peers' # peers
    OBVIOUS
  <2>5. \/ \E a \in Advert : addPeer(a)
        \/ \E m \in Manifests : SetRootBindings(m)
        \/ \E j \in Ids : removePeer(j)
    BY <2>4 DEF Next, vars, table, pingPeers, RoundEnds, PingSucceeds, PingFails,
                handlePong, Dies
  <2> QED BY <2>1, <2>2, <2>3, <2>5
<1> QED BY <1>1, TypeCorrect, PTL DEF Spec, RouteStable

-----------------------------------------------------------------------------
(* Failure counts.                                                         *)
\* What a round may hold: peers only, each either still to be pinged, with a
\* count below the limit, or already counted.
RoundInv ==
  /\ toPing \subseteq Peers /\ evictions \subseteq Peers
  /\ toPing \cap evictions = {}
  /\ healthCheck = "idle" => toPing = {} /\ evictions = {}

CountInv == RoundInv /\ FailuresBounded

\* The counts of a round stay within their limits.
THEOREM CountsBounded == Spec => []CountInv
<1>1. Init => CountInv
  BY PeerAssumption DEF Init, CountInv, RoundInv, FailuresBounded, Peers
<1>2. TypeOK /\ TypeOK' /\ CountInv /\ [Next]_vars => CountInv'
  <2> SUFFICES ASSUME TypeOK, TypeOK', CountInv, [Next]_vars PROVE CountInv'
    OBVIOUS
  <2> USE PeerAssumption, NoneIsNoBinding DEF CountInv, RoundInv, FailuresBounded, Peers
  <2>1. ASSUME NEW a \in Advert, addPeer(a) PROVE CountInv'
    <3>1. BindingOf(a) # None /\ a.id \in Ids
      BY <2>1, AdvertBinding DEF addPeer, Advert
    <3>2. a.id \notin Peers
      BY <2>1 DEF addPeer, Known
    <3>3. peerFailures[a.id] = 0
      BY <3>1, <3>2 DEF TypeOK
    <3> QED BY <2>1, <3>1, <3>2, <3>3 DEF addPeer, round, TypeOK
  <2>2. ASSUME NEW m \in Manifests, SetRootBindings(m) PROVE CountInv'
    <3>1. \A i \in Ids : peers'[i] # None <=> peers[i] # None
      BY <2>2 DEF SetRootBindings, Rebound
    <3>2. \A i \in Ids : peerFailures'[i] \in {0, peerFailures[i]}
      BY <2>2 DEF SetRootBindings
    <3>3. UNCHANGED <<healthCheck, toPing, evictions>>
      BY <2>2 DEF SetRootBindings, round
    <3> QED BY <3>1, <3>2, <3>3 DEF TypeOK
  <2>3. CASE pingPeers
    BY <2>3 DEF pingPeers, table, TypeOK
  <2>4. CASE RoundEnds
    BY <2>4 DEF RoundEnds, table, TypeOK
  <2>5. ASSUME NEW i \in Ids, PingSucceeds(i) PROVE CountInv'
    BY <2>5 DEF PingSucceeds, table, TypeOK
  <2>6. ASSUME NEW i \in Ids, PingFails(i) PROVE CountInv'
    <3>1. i \in Peers /\ i \notin evictions /\ healthCheck = "running"
      BY <2>6 DEF PingFails, TypeOK
    <3>2. peerFailures[i] < MaxPingFailures
      BY <3>1 DEF TypeOK
    <3>3. peerFailures'[i] = peerFailures[i] + 1
      BY <2>6 DEF PingFails, TypeOK
    <3>5. \A j \in Ids \ {i} : peerFailures'[j] = peerFailures[j]
      BY <2>6 DEF PingFails, TypeOK
    <3>6. UNCHANGED <<peers, healthCheck>> /\ toPing' = toPing \ {i}
      BY <2>6 DEF PingFails
    <3>7. CASE peerFailures[i] + 1 = MaxPingFailures
      <4>1. evictions' = evictions \cup {i}
        BY <2>6, <3>7 DEF PingFails, LimitReached, TypeOK
      <4> QED BY <3>1, <3>3, <3>5, <3>6, <3>7, <4>1 DEF TypeOK
    <3>8. CASE peerFailures[i] + 1 # MaxPingFailures
      <4>1. evictions' = evictions
        BY <2>6, <3>2, <3>8 DEF PingFails, LimitReached, TypeOK
      <4> QED BY <3>1, <3>2, <3>3, <3>5, <3>6, <3>8, <4>1 DEF TypeOK
    <3> QED BY <3>7, <3>8
  <2>7. ASSUME NEW i \in Ids, handlePong(i) PROVE CountInv'
    BY <2>7 DEF handlePong, round, TypeOK
  <2>8. ASSUME NEW i \in Ids, removePeer(i) PROVE CountInv'
    BY <2>8 DEF removePeer, TypeOK
  <2>9. ASSUME NEW i \in Ids, Dies(i) PROVE CountInv'
    BY <2>9 DEF Dies, table, round
  <2>10. CASE UNCHANGED vars
    BY <2>10 DEF vars, table, round
  <2> QED BY <2>1, <2>2, <2>3, <2>4, <2>5, <2>6, <2>7, <2>8, <2>9, <2>10 DEF Next
<1> QED BY <1>1, <1>2, TypeCorrect, PTL DEF Spec

\* A failure count never passes the limit, belongs to a peer, and stands at
\* the limit only while the round that will evict the peer is running.
THEOREM FailureCounts == Spec => []FailuresBounded
BY CountsBounded, PTL DEF CountInv
=============================================================================
