------------------------------ MODULE PeerTable ------------------------------
(***************************************************************************)
(* The peer table of one node (internal/gossip/protocol.go, bindings.go):  *)
(* unsigned advertisements that arrive in SYNC messages, bootstrap         *)
(* requests and bootstrap responses, the pins of signed roots, and the     *)
(* health check that pings every peer and evicts the ones that stay away.  *)
(*                                                                         *)
(* The table is guarded by one mutex, so addPeer, handlePong, removePeer   *)
(* and SetRootBindings are atomic.  A round of pingPeers is not: it copies *)
(* the table, sends one ping after another, each of which may take until   *)
(* its timeout, and only then evicts; everything else runs in between.     *)
(***************************************************************************)
EXTENDS Integers, FiniteSets

CONSTANTS
  Self, Ids,         \* this node's ID, and the IDs that are advertised
  Origins,           \* normalised HTTP(S) origins
  Enclaves,          \* enclave names, "default" among them
  MaxPingFailures,   \* failed health checks until a peer is evicted
  Manifests,         \* the root bindings of the manifests discovery may verify
  MaxManifests       \* bound: manifests applied in one behaviour

Binding == [origin : Origins, enclave : Enclaves]
Absent    == "absent"                                 \* a name left empty
None      == [origin |-> Absent, enclave |-> Absent]  \* no peer, no pin
BadOrigin == "bad"                                    \* does not normalise

ASSUME PeerAssumption ==
  /\ Self \in Ids
  /\ MaxPingFailures \in Nat \ {0}
  /\ MaxManifests \in Nat

ASSUME NameAssumption ==
  /\ Manifests \subseteq [Ids -> Binding \cup {None}]
  /\ "default" \in Enclaves
  /\ Absent \notin Enclaves /\ Absent \notin Origins /\ BadOrigin \notin Origins

VARIABLES
  peers,         \* peers[i]: route and enclave of peer i
  peerFailures,  \* peerFailures[i]: 0 where the map has no entry
  rootBindings,  \* rootBindings[i]: the pin of root i
  healthCheck,   \* whether a round of pingPeers is running
  toPing,        \* the peers of its copy it has not pinged yet
  evictions,     \* the peers it will evict when it is through
  dead,          \* environment: IDs that are gone for good
  manifests,     \* manifests applied so far
  missed         \* history: failed pings of i in a row since it was admitted

table == <<peers, peerFailures, rootBindings>>
round == <<healthCheck, toPing, evictions>>
vars  == <<table, round, dead, manifests, missed>>

Peers == {i \in Ids : peers[i] # None}

\* What a referral may say: any origin, and an enclave or none.
Advert ==
  [id : Ids, origin : Origins \cup {BadOrigin}, enclave : Enclaves \cup {Absent}]

\* History counters are kept up to the limit that matters.
Capped(c) == IF c < MaxPingFailures THEN c + 1 ELSE c

-----------------------------------------------------------------------------
(* addPeer.                                                                *)
BindingOf(a) ==
  [origin |-> a.origin,
   enclave |-> IF a.enclave = Absent THEN "default" ELSE a.enclave]

AnyId(a) == TRUE   \* mutant: no self-filter

NotSelf(a) == a.id # Self

Unpinned(a) == TRUE   \* mutant: a signed root's pin is not consulted

\* An advertisement must agree with the pin of a signed root.
AgreesWithPin(a) == rootBindings[a.id] \in {None, BindingOf(a)}

Established(a) == FALSE   \* mutant: the newest advertisement wins

\* An established peer is neither moved nor reset by an advertisement.
Known(a) == peers[a.id] # None

\* An advertisement that adds a peer; every other one changes nothing.
addPeer(a) ==
  /\ NotSelf(a)
  /\ a.origin # BadOrigin
  /\ AgreesWithPin(a)
  /\ ~Known(a)
  /\ peers' = [peers EXCEPT ![a.id] = BindingOf(a)]
  /\ peerFailures' = [peerFailures EXCEPT ![a.id] = 0]
  /\ missed' = [missed EXCEPT ![a.id] = 0]
  /\ UNCHANGED <<rootBindings, round, dead, manifests>>

PinsOnly(m) == peers   \* mutant: peers that are in the table keep their route

\* The routes SetRootBindings gives the established peers.
Rebound(m) == [i \in Ids |-> IF peers[i] # None /\ m[i] # None THEN m[i] ELSE peers[i]]

\* The counter starts over for a root whose origin changed.
SetRootBindings(m) ==
  /\ manifests < MaxManifests
  /\ manifests' = manifests + 1
  /\ rootBindings' = m
  /\ peers' = Rebound(m)
  /\ peerFailures' = [i \in Ids |-> IF Rebound(m)[i].origin # peers[i].origin
                                      THEN 0 ELSE peerFailures[i]]
  /\ UNCHANGED <<round, dead, missed>>

-----------------------------------------------------------------------------
(* Health checks.                                                          *)
pingPeers ==
  /\ healthCheck = "idle"
  /\ healthCheck' = "running"
  /\ toPing' = Peers
  /\ evictions' = {}
  /\ UNCHANGED <<table, dead, manifests, missed>>

\* The ping is answered with a 200, which leaves the counter alone.  Before
\* that the other side has delivered a PONG (handlePong), or it does not have
\* this node in its table and sends none.
PingSucceeds(i) ==
  /\ i \in toPing \ dead
  /\ toPing' = toPing \ {i}
  /\ missed' = [missed EXCEPT ![i] = 0]
  /\ UNCHANGED <<table, healthCheck, evictions, dead, manifests>>

OneTooMany(f) == f > MaxPingFailures  \* mutant: off by one

LimitReached(f) == f >= MaxPingFailures

PingFails(i) ==
  LET failures == peerFailures[i] + 1
  IN /\ i \in toPing
     /\ toPing' = toPing \ {i}
     /\ peerFailures' = [peerFailures EXCEPT ![i] = failures]
     /\ evictions' = IF LimitReached(failures) THEN evictions \cup {i} ELSE evictions
     /\ missed' = [missed EXCEPT ![i] = Capped(@)]
     /\ UNCHANGED <<peers, rootBindings, healthCheck, dead, manifests>>

\* A PONG resets the counter, whenever it arrives.
handlePong(i) ==
  /\ i \in Ids \ dead
  /\ peerFailures' = [peerFailures EXCEPT ![i] = 0]
  /\ UNCHANGED <<peers, rootBindings, round, dead, manifests, missed>>

ForgetsCount(i) ==   \* mutant: the peer's count is deleted, the peer is not
  /\ healthCheck = "running" /\ toPing = {}
  /\ i \in evictions
  /\ evictions' = evictions \ {i}
  /\ peerFailures' = [peerFailures EXCEPT ![i] = 0]
  /\ UNCHANGED <<peers, rootBindings, healthCheck, toPing, dead, manifests, missed>>

removePeer(i) ==
  /\ healthCheck = "running" /\ toPing = {}
  /\ i \in evictions
  /\ evictions' = evictions \ {i}
  /\ peers' = [peers EXCEPT ![i] = None]
  /\ peerFailures' = [peerFailures EXCEPT ![i] = 0]
  /\ UNCHANGED <<rootBindings, healthCheck, toPing, dead, manifests, missed>>

RoundEnds ==
  /\ healthCheck = "running" /\ toPing = {} /\ evictions = {}
  /\ healthCheck' = "idle"
  /\ UNCHANGED <<table, toPing, evictions, dead, manifests, missed>>

\* A host goes away for good: no ping reaches it and no PONG leaves it.
Dies(i) ==
  /\ i \in Ids \ (dead \cup {Self})
  /\ dead' = dead \cup {i}
  /\ UNCHANGED <<table, round, manifests, missed>>

-----------------------------------------------------------------------------
Init ==
  /\ peers = [i \in Ids |-> None]
  /\ peerFailures = [i \in Ids |-> 0]
  /\ rootBindings = [i \in Ids |-> None]
  /\ healthCheck = "idle" /\ toPing = {} /\ evictions = {}
  /\ dead = {} /\ manifests = 0
  /\ missed = [i \in Ids |-> 0]

Next ==
  \/ \E a \in Advert : addPeer(a)
  \/ \E m \in Manifests : SetRootBindings(m)
  \/ pingPeers \/ RoundEnds
  \/ \E i \in Ids :
       PingSucceeds(i) \/ PingFails(i) \/ handlePong(i) \/ removePeer(i) \/ Dies(i)

Spec == Init /\ [][Next]_vars

-----------------------------------------------------------------------------
(* Properties.                                                             *)
\* Every variable has its type, and the node is never its own peer.
TypeOK ==
  /\ peers \in [Ids -> Binding \cup {None}]
  /\ peers[Self] = None
  /\ peerFailures \in [Ids -> Nat]
  /\ rootBindings \in [Ids -> Binding \cup {None}]
  /\ healthCheck \in {"idle", "running"}
  /\ toPing \in SUBSET Ids /\ evictions \in SUBSET Ids
  /\ dead \in SUBSET Ids
  /\ manifests \in Nat
  /\ missed \in [Ids -> Nat]

\* A root that is in the table is there with the route and the enclave of the
\* last verified manifest, whichever came first, the referral or the pin.
PinsHold == \A i \in Peers : rootBindings[i] \in {None, peers[i]}

\* Only peers have a failure count, no count passes the limit, and a peer
\* whose count stands at the limit is on the list of the running round: no
\* interleaving of PONGs, rebindings and referrals with a round leaves a peer
\* at the limit that nobody will evict, or the count of a peer that is gone.
FailuresBounded ==
  \A i \in Ids :
    /\ peerFailures[i] > 0 => i \in Peers
    /\ peerFailures[i] <= MaxPingFailures
    /\ peerFailures[i] = MaxPingFailures => healthCheck = "running" /\ i \in evictions

\* An established peer's route changes only by a verified manifest that pins
\* the peer to the new one; a referral never moves it.
RouteStable ==
  [][\A i \in Ids :
       (peers[i] # None /\ peers'[i] \notin {None, peers[i]}) =>
         /\ manifests' = manifests + 1
         /\ rootBindings'[i] = peers'[i]]_vars

\* A peer is evicted only after the limit of consecutive failed health checks,
\* as the comments on MaxPingFailures and peerFailures and the log line of the
\* eviction have it.  The code does not keep to it: only a PONG sets the count
\* back, and a peer that does not have this node in its table answers every
\* ping and sends none.
ConsecutiveFailures ==
  [][\A i \in Ids :
       (peers[i] # None /\ peers'[i] = None) => missed[i] >= MaxPingFailures]_vars

(***************************************************************************)
(* Liveness.  The health check ticks every 30 seconds, every ping ends by  *)
(* its timeout, and the goroutine of the round is scheduled.               *)
(***************************************************************************)
Ping(i) == PingSucceeds(i) \/ PingFails(i)

Fairness ==
  /\ WF_vars(pingPeers \/ RoundEnds)
  /\ \A i \in Ids : WF_vars(Ping(i)) /\ WF_vars(removePeer(i))

LiveSpec == Spec /\ Fairness

\* A peer whose host is gone for good leaves the table.
DeadEvicted == \A i \in Ids : (i \in dead /\ i \in Peers) ~> (i \notin Peers)
=============================================================================
