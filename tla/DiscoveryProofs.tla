-------------------------- MODULE DiscoveryProofs ---------------------------
(***************************************************************************)
(* That the state directory, with its lock, its renames and its syncs,     *)
(* implements the one-step trust state, and that the sessions reading it   *)
(* keep to it: for any number of processes, releases and faults.           *)
(***************************************************************************)
EXTENDS Discovery, TLAPS

Metadata == Lease!Metadata
States == Lease!States
NotNewer(a, b) == Lease!NotNewer(a, b)
SameAuthority(a, b) == Lease!SameAuthority(a, b)

-----------------------------------------------------------------------------
(* The inductive invariant.                                                *)

\* The metadata of a state: a root, and the other roles in the order in
\* which they are fetched, none ahead of the one that names it.
Kept(m) ==
  /\ m \in Metadata
  /\ m.root # 0
  /\ m.snapshot <= m.timestamp
  /\ IF m.snapshot = 0 THEN m.targets = 0 ELSE m.targets <= Targets[m.snapshot]

Good(s) == s \in States /\ Kept(s.metadata) /\ Lease!Sound(s)

File(s) == s = Absent \/ s = Empty \/ Good(s)

\* What is durable is not ahead of what is visible.
FilesKept ==
  /\ File(visible) /\ File(durable)
  /\ durable # Absent => visible # Absent
  /\ IsState(durable) => IsState(visible) /\ NotNewer(durable.metadata, visible.metadata)

Making == {"made", "create"}
Running == Stages \cup {"accept", "accepted"}
Open == Running \cup {"read", "opened", "reread", "refreshed", "configure", "idle"}
Places == Making \cup Open \cup {"down", "open"}

TrustTypes ==
  /\ repoRoot \in Releases /\ repoTimestamp \in Releases /\ clock \in Int
  /\ pc \in [Procs -> Places]
  /\ DOMAIN st = Procs
  /\ work \in [Procs -> Metadata]
  /\ view \in [Procs -> Metadata]
  /\ DOMAIN bindings = Procs

\* Only the process that made the directory creates the state.
OneMaker == \A p, q \in Procs : pc[p] \in Making /\ pc[q] \in Making => p = q

\* Who saves holds the lock.
Locked(p) ==
  /\ pc[p] \in Running \cup {"create"} => lock = p
  /\ p \in renamed => pc[p] \in Running \cup {"create"} /\ pc[p] # "accepted"

\* What the directory holds, by where p stands.
Placed(p) ==
  /\ pc[p] = "made" => visible = Empty
  /\ pc[p] = "create" => visible = IF p \in renamed THEN InitialState ELSE Empty
  /\ pc[p] \in Open => IsState(visible)

\* What p has loaded is the state it is replacing.
Loaded(p) ==
  IF pc[p] \in Running
  THEN Good(st[p]) /\ visible = IF p \in renamed THEN Goal(p) ELSE st[p]
  ELSE st[p] = Absent

\* The scratch directory goes forward from there, role by role.
Fetched(p) ==
  /\ pc[p] \in Running => Kept(work[p]) /\ NotNewer(st[p].metadata, work[p])
  /\ pc[p] \in {"snapshot", "targets", "manifest", "accept"} =>
       work[p].timestamp # 0 /\ Online[work[p].root] = Online[RootOf[work[p].timestamp]]
  /\ pc[p] \in {"targets", "manifest", "accept"} => work[p].snapshot = work[p].timestamp
  /\ pc[p] \in {"manifest", "accept"} => work[p].targets = Targets[work[p].snapshot]
  /\ pc[p] = "accept" => work[p] = st[p].metadata

\* A view is not ahead of the state; while its authority is the state's, the
\* state has an accepted manifest to withdraw.
BackedBy(m) ==
  m # NoMetadata =>
    /\ IsState(visible) /\ NotNewer(m, visible.metadata)
    /\ m.timestamp # 0
    /\ SameAuthority(m, visible.metadata) => visible.accepted # NoMetadata

\* So is a view that has been read and not yet shown.
Backed(p) == BackedBy(view[p]) /\ (pc[p] \in {"opened", "refreshed"} => BackedBy(work[p]))

\* The same of the state that p has loaded.
Revocable(p) ==
  pc[p] \in Running /\ view[p] # NoMetadata /\ SameAuthority(view[p], st[p].metadata) =>
    st[p].accepted # NoMetadata

Pinned(p) == bindings[p] # 0 /\ Fresh(view[p]) => bindings[p] = view[p].targets

Mine(p) ==
  /\ Locked(p) /\ Placed(p) /\ Loaded(p) /\ Fetched(p)
  /\ Backed(p) /\ Revocable(p) /\ Pinned(p)

TrustInv == TrustTypes /\ FilesKept /\ OneMaker /\ \A p \in Procs : Mine(p)
-----------------------------------------------------------------------------
(* Metadata and states.                                                    *)

LEMMA ReleaseFacts ==
  /\ \A n \in Releases : n \in Int /\ n >= 1 /\ n <= Last
  /\ \A n \in Int : 1 <= n /\ n <= Last => n \in Releases
  /\ Last \in Int
BY DiscoveryAssumption DEF Releases

LEMMA TargetsFacts ==
  /\ \A n \in Releases : Targets[n] \in Releases /\ Targets[n] \in Int /\ Targets[n] >= 1
  /\ \A m, n \in Releases : m <= n => Targets[m] <= Targets[n]
BY DiscoveryAssumption, ReleaseFacts

LEMMA MetadataFields ==
  ASSUME NEW m \in Metadata
  PROVE  /\ m.root \in Int /\ m.timestamp \in Int /\ m.snapshot \in Int /\ m.targets \in Int
         /\ m.root \in {0} \cup Releases /\ m.timestamp \in {0} \cup Releases
         /\ m.snapshot \in {0} \cup Releases /\ m.targets \in {0} \cup Releases
         /\ m.root >= 0 /\ m.timestamp >= 0 /\ m.snapshot >= 0 /\ m.targets >= 0
<1>1. \A r \in {0} \cup Releases : r \in Int /\ r >= 0
  BY DiscoveryAssumption DEF Releases
<1>2. /\ m.root \in {0} \cup Releases /\ m.timestamp \in {0} \cup Releases
      /\ m.snapshot \in {0} \cup Releases /\ m.targets \in {0} \cup Releases
  BY DEF Metadata, Lease!Metadata, Lease!Version
<1> QED BY <1>1, <1>2

LEMMA NoMetadataFields ==
  /\ NoMetadata \in Metadata
  /\ NoMetadata.root = 0 /\ NoMetadata.timestamp = 0 /\ NoMetadata.snapshot = 0 /\ NoMetadata.targets = 0
BY DEF NoMetadata, Lease!NoMetadata, Metadata, Lease!Metadata, Lease!Version

LEMMA NotNewerTransitive ==
  ASSUME NEW a \in Metadata, NEW b \in Metadata, NEW c \in Metadata,
         NotNewer(a, b), NotNewer(b, c)
  PROVE  NotNewer(a, c)
BY MetadataFields DEF NotNewer, Lease!NotNewer

LEMMA NotNewerItself ==
  ASSUME NEW a \in Metadata
  PROVE  NotNewer(a, a)
BY MetadataFields DEF NotNewer, Lease!NotNewer

\* What has come back to an authority has not left it.
LEMMA AuthorityBetween ==
  ASSUME NEW a \in Metadata, NEW b \in Metadata, NEW c \in Metadata,
         NotNewer(a, b), NotNewer(b, c), SameAuthority(a, c)
  PROVE  SameAuthority(a, b) /\ SameAuthority(c, b)
BY MetadataFields DEF NotNewer, Lease!NotNewer, SameAuthority, Lease!SameAuthority

LEMMA StateFields ==
  ASSUME NEW s, s \in States
  PROVE  /\ s.at = "state" /\ s.metadata \in Metadata /\ s.accepted \in Metadata
         /\ s = [at |-> "state", metadata |-> s.metadata, accepted |-> s.accepted]
         /\ s # Absent /\ s # Empty
<1>1. s.at = "state" /\ s.metadata \in Metadata /\ s.accepted \in Metadata
  BY DEF States, Lease!States, Metadata
<1>2. s = [at |-> "state", metadata |-> s.metadata, accepted |-> s.accepted]
  BY DEF States, Lease!States
<1>3. Absent.at = "absent" /\ Empty.at = "empty"
  BY DEF Absent, Lease!Absent, Empty, Lease!Empty
<1> QED BY <1>1, <1>2, <1>3

LEMMA NoState ==
  /\ ~IsState(Absent) /\ ~IsState(Empty) /\ Absent # Empty
BY DEF IsState, Absent, Lease!Absent, Empty, Lease!Empty

LEMMA FileOrState ==
  ASSUME NEW s, File(s)
  PROVE  IsState(s) <=> Good(s)
BY NoState, StateFields DEF File, Good, IsState

LEMMA MakeState ==
  ASSUME NEW m \in Metadata, NEW a \in Metadata
  PROVE  [at |-> "state", metadata |-> m, accepted |-> a] \in States
BY DEF States, Lease!States, Metadata

LEMMA InitialGood ==
  /\ Good(InitialState) /\ IsState(InitialState)
  /\ InitialState.accepted = NoMetadata
<1> DEFINE m == [NoMetadata EXCEPT !.root = 1]
<1>1. m = [root |-> 1, timestamp |-> 0, snapshot |-> 0, targets |-> 0]
  BY DEF NoMetadata, Lease!NoMetadata
<1>2. m \in Metadata
  BY <1>1, DiscoveryAssumption DEF Metadata, Lease!Metadata, Lease!Version, Releases
<1>3. Kept(m)
  BY <1>1, <1>2 DEF Kept
<1> HIDE DEF m
<1>4. InitialState = [at |-> "state", metadata |-> m, accepted |-> NoMetadata]
  BY DEF InitialState, m
<1>5. InitialState \in States
  BY <1>2, <1>4, MakeState, NoMetadataFields
<1>6. InitialState.metadata = m /\ InitialState.accepted = NoMetadata /\ InitialState.at = "state"
  BY <1>4
<1> QED
  BY <1>3, <1>5, <1>6 DEF Good, Lease!Sound, IsState, NoMetadata

\* A new accepted manifest: the metadata at hand, when it is complete.
LEMMA AcceptGood ==
  ASSUME NEW s, Good(s), Lease!Complete(s.metadata),
         NEW g, g = [s EXCEPT !.accepted = s.metadata]
  PROVE  /\ Good(g) /\ IsState(g)
         /\ g.metadata = s.metadata /\ g.accepted = s.metadata
         /\ g.accepted # NoMetadata
<1>1. /\ s.metadata \in Metadata /\ s.at = "state" /\ s \in States
      /\ s = [at |-> "state", metadata |-> s.metadata, accepted |-> s.accepted]
  BY StateFields DEF Good
<1> DEFINE m == s.metadata
<1>2. g = [at |-> "state", metadata |-> m, accepted |-> m]
  BY <1>1
<1>3. g \in States
  BY <1>1, <1>2, MakeState
<1>4. g.metadata = m /\ g.accepted = m /\ g.at = "state"
  BY <1>2
<1>5. Kept(m) /\ m \in Metadata
  BY <1>1 DEF Good
<1>6. m # NoMetadata
  BY <1>5, NoMetadataFields DEF Kept
<1>7. NotNewer(m, m) /\ SameAuthority(m, m)
  BY <1>5, NotNewerItself DEF SameAuthority, Lease!SameAuthority
<1> HIDE DEF m
<1>8. Lease!Complete(m)
  BY DEF m
<1>9. Lease!Sound(g)
  BY <1>4, <1>7, <1>8 DEF Lease!Sound, NotNewer, SameAuthority
<1> QED
  BY <1>3, <1>4, <1>5, <1>6, <1>9 DEF Good, IsState, m

\* Progress: the accepted manifest stays while its authority does.
LEMMA CheckpointGood ==
  ASSUME NEW s, Good(s), NEW w, Kept(w), NotNewer(s.metadata, w),
         NEW a, a = IF SameAuthority(w, s.metadata) THEN s.accepted ELSE NoMetadata,
         NEW g, g = [at |-> "state", metadata |-> w, accepted |-> a]
  PROVE  /\ Good(g) /\ IsState(g)
         /\ g.metadata = w
         /\ g.accepted = a
<1>1. /\ s.metadata \in Metadata /\ s.accepted \in Metadata
      /\ s = [at |-> "state", metadata |-> s.metadata, accepted |-> s.accepted]
  BY StateFields DEF Good
<1>2. g.metadata = w /\ g.accepted = a /\ g.at = "state"
  OBVIOUS
<1>3. a \in Metadata /\ w \in Metadata
  BY <1>1, NoMetadataFields DEF Kept
<1>4. a # NoMetadata => a = s.accepted /\ SameAuthority(w, s.metadata)
  OBVIOUS
<1>6. g \in States
  BY <1>2, <1>3, MakeState
<1>8. ASSUME a # NoMetadata
      PROVE  Lease!Complete(a) /\ SameAuthority(a, w) /\ NotNewer(a, w)
  <2>1. Lease!Complete(a) /\ SameAuthority(a, s.metadata) /\ NotNewer(a, s.metadata)
    BY <1>4, <1>8 DEF Good, Lease!Sound, SameAuthority, NotNewer, NoMetadata
  <2>2. SameAuthority(a, w)
    BY <1>4, <1>8, <2>1 DEF SameAuthority, Lease!SameAuthority
  <2> QED BY <1>1, <1>3, <2>1, <2>2, NotNewerTransitive
<1>9. Lease!Sound(g)
  BY <1>2, <1>8 DEF Lease!Sound, SameAuthority, NotNewer, NoMetadata
<1> QED
  BY <1>6, <1>2, <1>9 DEF Good, IsState

\* What a save leaves, by what it is for.
LEMMA GoalIs ==
  ASSUME NEW p \in Procs, Mine(p), TrustTypes, pc[p] \in Running, pc[p] # "accepted"
  PROVE  /\ Good(Goal(p)) /\ IsState(Goal(p))
         /\ NotNewer(st[p].metadata, Goal(p).metadata)
         /\ Goal(p).accepted # NoMetadata =>
              Goal(p).accepted = st[p].accepted \/ pc[p] = "accept"
         /\ st[p].accepted # NoMetadata /\ SameAuthority(Goal(p).metadata, st[p].metadata) =>
              Goal(p).accepted # NoMetadata
         /\ Kept(work[p]) /\ NotNewer(Goal(p).metadata, work[p])
         /\ pc[p] # "accept" => Goal(p).metadata = work[p]
         /\ pc[p] = "accept" => Goal(p).metadata = st[p].metadata /\ Goal(p).accepted = st[p].metadata
<1>1. /\ Good(st[p]) /\ st[p].metadata \in Metadata
      /\ Kept(work[p]) /\ work[p] \in Metadata /\ NotNewer(st[p].metadata, work[p])
      /\ st[p].accepted \in Metadata
  BY StateFields DEF Mine, Loaded, Fetched, Good, Kept
<1>2. CASE pc[p] = "accept"
  <2>1. Lease!Complete(st[p].metadata) /\ work[p] = st[p].metadata
    BY <1>1, <1>2, MetadataFields DEF Mine, Fetched, Lease!Complete
  <2>2. Goal(p) = [st[p] EXCEPT !.accepted = st[p].metadata]
    BY <1>2 DEF Goal
  <2> DEFINE g == Goal(p)
  <2> HIDE DEF g
  <2>3. /\ Good(g) /\ IsState(g) /\ g.metadata = st[p].metadata
        /\ g.accepted = st[p].metadata /\ g.accepted # NoMetadata
    <3>1. g = [st[p] EXCEPT !.accepted = st[p].metadata]
      BY <2>2 DEF g
    <3> QED BY <1>1, <2>1, <3>1, AcceptGood
  <2>4. NotNewer(st[p].metadata, g.metadata)
    BY <1>1, <2>3, NotNewerItself
  <2> QED
    BY <1>1, <1>2, <2>1, <2>3, <2>4 DEF g
<1>3. CASE pc[p] \in Stages
  <2> DEFINE g == Goal(p)
             a == IF SameAuthority(work[p], st[p].metadata) THEN st[p].accepted ELSE NoMetadata
  <2>1. pc[p] # "accept" /\ pc[p] # "create"
    BY <1>3 DEF Stages
  <2>2. Goal(p) = Checkpointed(p)
    BY <2>1 DEF Goal
  <2>3. g = [at |-> "state", metadata |-> work[p], accepted |-> a]
    BY <2>2 DEF Checkpointed, SameAuthority
  <2>4. a = IF SameAuthority(work[p], st[p].metadata) THEN st[p].accepted ELSE NoMetadata
    OBVIOUS
  <2> HIDE DEF g, a
  <2>5. Good(g) /\ IsState(g) /\ g.metadata = work[p] /\ g.accepted = a
    BY <1>1, <2>3, <2>4, CheckpointGood
  <2>6. NotNewer(work[p], work[p])
    BY <1>1, NotNewerItself
  <2> QED
    BY <1>1, <2>1, <2>4, <2>5, <2>6 DEF g
<1> QED
  BY <1>2, <1>3 DEF Running

LEMMA GoalOfCreate ==
  ASSUME NEW p \in Procs, pc[p] = "create"
  PROVE  Goal(p) = InitialState
BY DEF Goal

\* A process that does not move keeps what is its own, as long as the
\* directory does not change and nobody takes its lock.
LEMMA OthersKeep ==
  ASSUME TrustTypes, NEW q \in Procs, Mine(q),
         pc'[q] = pc[q], st'[q] = st[q], work'[q] = work[q], view'[q] = view[q],
         bindings'[q] = bindings[q], q \in renamed' <=> q \in renamed,
         visible' = visible, clock' \in Int, clock' >= clock, lock = q => lock' = q
  PROVE  Mine(q)'
<1>1. Fresh(view[q])' => Fresh(view[q])
  <2>1. ASSUME view[q] # NoMetadata
        PROVE  clock \in Int /\ clock' \in Int /\ Deadline[view[q].timestamp] \in Int
    BY <2>1, MetadataFields, DiscoveryAssumption DEF Mine, Backed, BackedBy, TrustTypes
  <2> QED BY <2>1 DEF Fresh, NoMetadata
<1>2. Locked(q)'
  BY DEF Mine, Locked
<1>3. Placed(q)'
  BY DEF Mine, Placed, IsState
<1>4. Goal(q)' = Goal(q)
  BY DEF Goal, Checkpointed
<1>5. Loaded(q)'
  BY <1>4 DEF Mine, Loaded, Good, Kept
<1>6. Fetched(q)'
  BY DEF Mine, Fetched, Kept, NotNewer
<1>7. Backed(q)'
  BY DEF Mine, Backed, BackedBy, IsState, NotNewer, SameAuthority
<1>8. Revocable(q)'
  BY DEF Mine, Revocable, SameAuthority
<1>9. Pinned(q)'
  BY <1>1 DEF Mine, Pinned
<1> QED
  BY <1>2, <1>3, <1>5, <1>6, <1>7, <1>8, <1>9 DEF Mine

-----------------------------------------------------------------------------
(* The steps of one process.                                               *)

LEMMA FilesSame ==
  ASSUME FilesKept, visible' = visible, durable' = durable
  PROVE  FilesKept'
BY DEF FilesKept, File, Good, Kept, IsState, NotNewer

\* A step of p: what belongs to the other processes is left alone.
StepOf(p) ==
  /\ \A q \in Procs \ {p} :
       /\ pc'[q] = pc[q] /\ st'[q] = st[q] /\ work'[q] = work[q] /\ view'[q] = view[q]
       /\ bindings'[q] = bindings[q]
       /\ (q \in renamed' <=> q \in renamed)
  /\ clock' = clock
  /\ lock' = lock \/ lock = p \/ lock = "free"
  /\ pc'[p] \in Making => pc[p] \in Making

LEMMA OneMakerKept ==
  ASSUME OneMaker, NEW p \in Procs, StepOf(p)
  PROVE  OneMaker'
BY DEF OneMaker, StepOf

LEMMA ProcStep ==
  ASSUME TrustInv, NEW p \in Procs, StepOf(p), visible' = visible,
         TrustTypes', FilesKept', Mine(p)'
  PROVE  TrustInv'
<1>1. OneMaker'
  BY OneMakerKept DEF TrustInv
<1>2. ASSUME NEW q \in Procs, q # p
      PROVE  Mine(q)'
  <2>1. lock = q => lock' = q
    BY <1>2, DiscoveryAssumption DEF StepOf
  <2>2. clock' \in Int /\ clock' >= clock
    BY DEF StepOf, TrustInv, TrustTypes
  <2> QED BY <1>2, <2>1, <2>2, OthersKeep DEF TrustInv, StepOf
<1> QED
  BY <1>1, <1>2 DEF TrustInv

\* Between two operations a process has nothing loaded.
Resting == {"down", "open", "read", "opened", "reread", "refreshed", "configure", "idle"}

LEMMA AtRest ==
  ASSUME NEW p \in Procs, pc'[p] \in Resting, p \notin renamed', st'[p] = Absent,
         pc'[p] \in {"down", "open"} \/ IsState(visible)', Backed(p)', Pinned(p)'
  PROVE  Mine(p)'
<1>1. /\ pc'[p] \notin Running /\ pc'[p] \notin Making /\ pc'[p] \notin Stages
      /\ pc'[p] \in Open => pc'[p] \notin {"down", "open"}
  BY DEF Resting, Running, Stages, Making, Open
<1>2. Locked(p)' /\ Placed(p)'
  BY <1>1 DEF Locked, Placed, Making
<1>3. Loaded(p)' /\ Fetched(p)' /\ Revocable(p)'
  BY <1>1 DEF Loaded, Fetched, Revocable, Running, Stages
<1> QED
  BY <1>2, <1>3 DEF Mine

LEMMA EndsKeeps ==
  ASSUME TrustInv, NEW p \in Procs, Ends(p), UNCHANGED <<repoVars, clock, diskVars>>
  PROVE  TrustInv'
<1>1. StepOf(p)
  BY DEF StepOf, TrustInv, TrustTypes, Ends, Go, Making
<1>2. TrustTypes'
  BY NoMetadataFields DEF TrustInv, TrustTypes, Ends, Go, repoVars, Places
<1>3. FilesKept' /\ visible' = visible
  BY FilesSame DEF TrustInv, diskVars
<1>4. /\ pc'[p] = "down" /\ p \notin renamed' /\ st'[p] = Absent
      /\ view'[p] = NoMetadata /\ bindings'[p] = 0
  BY DEF TrustInv, TrustTypes, Ends, Go
<1>5. Backed(p)' /\ Pinned(p)'
  BY <1>4 DEF Backed, BackedBy, Pinned, NoMetadata
<1>6. Mine(p)'
  BY <1>4, <1>5, AtRest DEF Resting
<1> QED BY <1>1, <1>2, <1>3, <1>6, ProcStep

\* A refresh ends with a view that the state backs.
LEMMA OverKeeps ==
  ASSUME TrustInv, NEW p \in Procs, pc[p] \in Running \cup {"create"}, NEW stage \in Resting,
         NEW v \in Metadata, Over(p, stage, v), UNCHANGED <<repoVars, clock, diskVars>>,
         stage = "down" \/ pc[p] # "create", stage # "open",
         UNCHANGED <<view, bindings>>, Backed(p)', Pinned(p)'
  PROVE  TrustInv'
<1>1. lock = p
  BY DEF TrustInv, Mine, Locked
<1>2. StepOf(p)
  BY <1>1 DEF StepOf, TrustInv, TrustTypes, Over, Go, Making, Resting
<1>3. TrustTypes'
  BY NoMetadataFields DEF TrustInv, TrustTypes, Over, Go, repoVars, Places, Open, Resting
<1>4. FilesKept' /\ visible' = visible
  BY FilesSame DEF TrustInv, diskVars
<1>5. pc'[p] = stage /\ p \notin renamed' /\ st'[p] = Absent
  BY DEF TrustInv, TrustTypes, Over, Go
<1>6. stage = "down" \/ IsState(visible)'
  <2>1. CASE pc[p] = "create"
    BY <2>1
  <2>2. CASE pc[p] \in Running
    BY <1>4, <2>2 DEF TrustInv, Mine, Placed, Open, IsState
  <2> QED BY <2>1, <2>2
<1>7. Mine(p)'
  BY <1>5, <1>6, AtRest
<1> QED BY <1>2, <1>3, <1>4, <1>7, ProcStep

LEMMA ViewSame ==
  ASSUME NEW p \in Procs, Mine(p), view'[p] = view[p], bindings'[p] = bindings[p],
         visible' = visible, clock' = clock, pc'[p] \notin {"opened", "refreshed"}
  PROVE  Backed(p)' /\ Pinned(p)'
BY DEF Mine, Backed, BackedBy, Pinned, Fresh, IsState, NotNewer, SameAuthority

LEMMA FailureKeeps ==
  ASSUME TrustInv, NEW p \in Procs, pc[p] \in Running \cup {"create"},
         NEW stage, stage = IF pc[p] = "create" THEN "down" ELSE "reread",
         Over(p, stage, NoMetadata), UNCHANGED <<repoVars, clock, diskVars, view, bindings>>
  PROVE  TrustInv'
<1>1. pc'[p] = stage
  BY DEF Over, Go, TrustInv, TrustTypes
<1>2. Backed(p)' /\ Pinned(p)'
  BY <1>1, ViewSame DEF TrustInv, diskVars
<1>3. /\ stage \in Resting /\ stage # "open" /\ (stage = "down" \/ pc[p] # "create")
  BY DEF Resting
<1> QED BY <1>2, <1>3, NoMetadataFields, OverKeeps

LEMMA SaveFailsKeeps ==
  ASSUME TrustInv, NEW p \in Procs, SaveFails(p)
  PROVE  TrustInv'
<1>1. pc[p] \in Running \cup {"create"}
  BY DEF TrustInv, Mine, Locked, SaveFails, Saves, Behind, Running
<1> QED BY <1>1, FailureKeeps DEF SaveFails

LEMMA FailsKeeps ==
  ASSUME TrustInv, NEW p \in Procs, pc[p] \in Stages, Fails(p)
  PROVE  TrustInv'
BY FailureKeeps DEF Fails, Running, Stages

LEMMA RefusesKeeps ==
  ASSUME TrustInv, NEW p \in Procs, Refuses(p) \/ FetchFails(p)
  PROVE  TrustInv'
BY FailsKeeps DEF Refuses, FetchFails, Ready, Stages

-----------------------------------------------------------------------------
(* Views.                                                                  *)

LEMMA AcceptedBacked ==
  ASSUME NEW s, Good(s), s.accepted # NoMetadata
  PROVE  NotNewer(s.accepted, s.metadata) /\ s.accepted.timestamp # 0
<1>1. s.accepted \in Metadata
  BY StateFields DEF Good
<1>2. Lease!Complete(s.accepted) /\ NotNewer(s.accepted, s.metadata)
  BY DEF Good, Lease!Sound, NotNewer, NoMetadata
<1>3. s.accepted.timestamp \in Releases
  BY <1>2 DEF Lease!Complete
<1>4. \A n \in Releases : n # 0
  BY DiscoveryAssumption DEF Releases
<1> QED BY <1>2, <1>3, <1>4

LEMMA SetViewKeeps ==
  ASSUME TrustInv, NEW p \in Procs, NEW v \in Metadata, SetView(p, v), clock' = clock
  PROVE  /\ view' \in [Procs -> Metadata] /\ DOMAIN bindings' = Procs
         /\ \A q \in Procs \ {p} : view'[q] = view[q] /\ bindings'[q] = bindings[q]
         /\ view'[p] = v /\ Pinned(p)'
<1>1. /\ view' \in [Procs -> Metadata] /\ DOMAIN bindings' = Procs
      /\ \A q \in Procs \ {p} : view'[q] = view[q] /\ bindings'[q] = bindings[q]
      /\ view'[p] = v
  BY DEF TrustInv, TrustTypes, SetView
<1>2. Fresh(view[p])' => Fresh(v)
  BY <1>1 DEF Fresh, NoMetadata
<1>3. ASSUME Fresh(v), bindings'[p] # 0
      PROVE  bindings'[p] = v.targets
  BY <1>3 DEF SetView, TrustInv, TrustTypes
<1> QED BY <1>1, <1>2, <1>3 DEF Pinned

\* A view read from the state, or just accepted, is backed by it.
LEMMA ReadBacked ==
  ASSUME Good(visible), NEW v, v = NoMetadata \/ v = visible.accepted
  PROVE  v \in Metadata /\ BackedBy(v)
<1>1. v \in Metadata
  BY StateFields, NoMetadataFields DEF Good
<1>2. v # NoMetadata => NotNewer(v, visible.metadata) /\ v.timestamp # 0 /\ visible.accepted # NoMetadata
  BY AcceptedBacked
<1>3. IsState(visible)
  BY StateFields DEF Good, IsState
<1> QED BY <1>1, <1>2, <1>3 DEF BackedBy

\* While view and state stay, so does what backs them.
LEMMA Shows ==
  ASSUME NEW p \in Procs, Mine(p), UNCHANGED <<view, bindings, visible, clock>>,
         NEW v, work'[p] = v, BackedBy(v)
  PROVE  Backed(p)' /\ Pinned(p)'
<1>1. BackedBy(view[p])' /\ BackedBy(work[p])'
  BY DEF Mine, Backed, BackedBy, IsState, NotNewer, SameAuthority, NoMetadata
<1> QED BY <1>1 DEF Backed, Mine, Pinned, Fresh

LEMMA FinishKeeps ==
  ASSUME TrustInv, NEW p \in Procs, Finish(p)
  PROVE  TrustInv'
<1> DEFINE v == st[p].accepted
<1>1. pc[p] = "accepted" /\ pc[p] \in Running /\ pc[p] # "create" /\ p \notin renamed
  BY DEF Finish, Running, TrustInv, Mine, Locked
<1>2. Good(visible) /\ v = visible.accepted
  BY <1>1 DEF TrustInv, Mine, Loaded
<1> HIDE DEF v
<1>3. v \in Metadata /\ BackedBy(v)
  BY <1>2, ReadBacked
<1>4. Over(p, "refreshed", v) /\ UNCHANGED <<repoVars, clock, diskVars, view, bindings>>
  BY DEF Finish, v
<1>5. work'[p] = v
  BY <1>4 DEF Over, TrustInv, TrustTypes
<1>6. Backed(p)' /\ Pinned(p)'
  BY <1>3, <1>4, <1>5, Shows DEF TrustInv, diskVars
<1> QED
  BY <1>1, <1>3, <1>4, <1>6, OverKeeps DEF Resting

LEMMA ReadKeeps ==
  ASSUME TrustInv, NEW p \in Procs, Read(p)
  PROVE  TrustInv'
<1>1. /\ pc[p] \in {"read", "reread"} /\ pc[p] \in Open /\ pc[p] \notin Running \cup {"create"}
  BY DEF Read, Open, Running, Stages
<1>2. IsState(visible) /\ Good(visible) /\ p \notin renamed /\ st[p] = Absent
  BY <1>1, FileOrState DEF TrustInv, Mine, Placed, FilesKept, Locked, Loaded
<1>3. PICK v : (v = NoMetadata \/ v = visible.accepted) /\ work' = [work EXCEPT ![p] = v]
  BY DEF Read, Current
<1>4. v \in Metadata /\ BackedBy(v)
  BY <1>2, <1>3, ReadBacked
<1>5. /\ visible' = visible /\ durable' = durable /\ clock' = clock /\ lock' = lock
      /\ renamed' = renamed /\ st' = st /\ view' = view /\ bindings' = bindings
      /\ repoRoot' = repoRoot /\ repoTimestamp' = repoTimestamp
  BY DEF Read, diskVars, repoVars
<1>6. PICK stage \in {"opened", "refreshed"} : Go(p, stage)
  BY DEF Read
<1>7. /\ pc' = [pc EXCEPT ![p] = stage] /\ pc'[p] = stage
      /\ work'[p] = v
  BY <1>3, <1>6 DEF Go, TrustInv, TrustTypes
<1>8. TrustTypes'
  BY <1>3, <1>4, <1>5, <1>7 DEF TrustInv, TrustTypes, Places, Open
<1>9. StepOf(p)
  BY <1>3, <1>5, <1>7 DEF StepOf, TrustInv, TrustTypes, Making
<1>10. Backed(p)' /\ Pinned(p)'
  BY <1>4, <1>5, <1>7, Shows DEF TrustInv
<1>11. Mine(p)'
  BY <1>2, <1>5, <1>7, <1>10, AtRest DEF IsState, Resting
<1> QED BY <1>5, <1>8, <1>9, <1>11, ProcStep, FilesSame DEF TrustInv

LEMMA ShowKeeps ==
  ASSUME TrustInv, NEW p \in Procs, Show(p)
  PROVE  TrustInv'
<1>1. /\ pc[p] \in {"opened", "refreshed"} /\ pc[p] \in Open /\ pc[p] \notin Running \cup {"create"}
  BY DEF Show, Open, Running, Stages
<1>2. IsState(visible) /\ p \notin renamed /\ st[p] = Absent
  BY <1>1 DEF TrustInv, Mine, Placed, Locked, Loaded
<1> DEFINE v == work[p]
<1>3. v \in Metadata /\ BackedBy(v) /\ SetView(p, v)
  BY <1>1 DEF Show, TrustInv, TrustTypes, Mine, Backed
<1>4. /\ visible' = visible /\ durable' = durable /\ clock' = clock /\ lock' = lock
      /\ renamed' = renamed /\ st' = st /\ repoRoot' = repoRoot /\ repoTimestamp' = repoTimestamp
      /\ work' = [work EXCEPT ![p] = NoMetadata]
  BY DEF Show, diskVars, repoVars
<1>5. PICK stage \in {"configure", "idle"} : Go(p, stage)
  BY DEF Show
<1>6. pc' = [pc EXCEPT ![p] = stage] /\ pc'[p] = stage
  BY <1>5 DEF Go, TrustInv, TrustTypes
<1> HIDE DEF v
<1>7. /\ view' \in [Procs -> Metadata] /\ DOMAIN bindings' = Procs
      /\ \A q \in Procs \ {p} : view'[q] = view[q] /\ bindings'[q] = bindings[q]
      /\ view'[p] = v /\ Pinned(p)'
  BY <1>3, <1>4, SetViewKeeps
<1>8. TrustTypes'
  BY <1>4, <1>6, <1>7, NoMetadataFields DEF TrustInv, TrustTypes, Places, Open
<1>9. StepOf(p)
  BY <1>4, <1>6, <1>7 DEF StepOf, TrustInv, TrustTypes, Making
<1>10. Backed(p)'
  BY <1>3, <1>4, <1>5, <1>6, <1>7 DEF Backed, BackedBy, IsState, NotNewer, SameAuthority, NoMetadata
<1>11. Mine(p)'
  BY <1>2, <1>4, <1>6, <1>7, <1>10, AtRest DEF IsState, Resting
<1> QED BY <1>4, <1>8, <1>9, <1>11, ProcStep, FilesSame DEF TrustInv

-----------------------------------------------------------------------------
(* Opening, beginning and downloading.                                     *)

LEMMA OpenLoadsKeeps ==
  ASSUME TrustInv, NEW p \in Procs, OpenLoads(p)
  PROVE  TrustInv'
<1>1. PICK stage \in {"read", "down"} : Go(p, stage) /\ (stage = "read" => IsState(visible))
  BY DEF OpenLoads
<1>2. /\ visible' = visible /\ durable' = durable /\ clock' = clock /\ lock' = lock
      /\ renamed' = renamed /\ st' = st /\ work' = work /\ view' = view /\ bindings' = bindings
      /\ repoRoot' = repoRoot /\ repoTimestamp' = repoTimestamp
  BY DEF OpenLoads, diskVars, repoVars
<1>3. pc' = [pc EXCEPT ![p] = stage] /\ pc'[p] = stage
  BY <1>1 DEF Go, TrustInv, TrustTypes
<1>4. p \notin renamed /\ st[p] = Absent
  BY DEF OpenLoads, TrustInv, Mine, Locked, Loaded, Running, Stages
<1>5. TrustTypes'
  BY <1>1, <1>2, <1>3 DEF TrustInv, TrustTypes, Places, Open
<1>6. StepOf(p)
  BY <1>1, <1>2, <1>3 DEF StepOf, TrustInv, TrustTypes, Making
<1>7. Backed(p)' /\ Pinned(p)'
  BY <1>2, <1>3, ViewSame DEF TrustInv
<1>8. Mine(p)'
  BY <1>1, <1>2, <1>3, <1>4, <1>7, AtRest DEF IsState, Resting
<1> QED BY <1>2, <1>5, <1>6, <1>8, ProcStep, FilesSame DEF TrustInv

LEMMA ConfigureKeeps ==
  ASSUME TrustInv, NEW p \in Procs, Configure(p)
  PROVE  TrustInv'
<1>1. /\ visible' = visible /\ durable' = durable /\ clock' = clock /\ lock' = lock
      /\ renamed' = renamed /\ st' = st /\ work' = work /\ view' = view
      /\ repoRoot' = repoRoot /\ repoTimestamp' = repoTimestamp
  BY DEF Configure, diskVars, repoVars
<1>2. pc' = [pc EXCEPT ![p] = "idle"] /\ pc'[p] = "idle"
  BY DEF Configure, Go, TrustInv, TrustTypes
<1>3. bindings' = [bindings EXCEPT ![p] = view[p].targets] /\ bindings'[p] = view[p].targets
  BY DEF Configure, TrustInv, TrustTypes
<1>4. p \notin renamed /\ st[p] = Absent /\ IsState(visible)
  BY DEF Configure, TrustInv, Mine, Locked, Loaded, Running, Stages, Placed, Open
<1>5. TrustTypes'
  BY <1>1, <1>2, <1>3 DEF TrustInv, TrustTypes, Places, Open
<1>6. StepOf(p)
  BY <1>1, <1>2, <1>3 DEF StepOf, TrustInv, TrustTypes, Making
<1>7. Backed(p)'
  BY <1>1, <1>2 DEF TrustInv, Mine, Backed, BackedBy, IsState, NotNewer, SameAuthority
<1>8. Pinned(p)'
  BY <1>1, <1>3 DEF Pinned
<1>9. Mine(p)'
  BY <1>1, <1>2, <1>4, <1>7, <1>8, AtRest DEF IsState, Resting
<1> QED BY <1>1, <1>5, <1>6, <1>9, ProcStep, FilesSame DEF TrustInv

LEMMA BeginKeeps ==
  ASSUME TrustInv, NEW p \in Procs, Begin(p)
  PROVE  TrustInv'
<1>1. /\ visible' = visible /\ durable' = durable /\ clock' = clock
      /\ renamed' = renamed /\ view' = view /\ bindings' = bindings
      /\ repoRoot' = repoRoot /\ repoTimestamp' = repoTimestamp
  BY DEF Begin, diskVars, repoVars
<1>2. pc[p] = "idle" /\ lock = "free" /\ lock' = p
  BY DEF Begin, LockFree
<1>3. /\ pc' = [pc EXCEPT ![p] = "root"] /\ pc'[p] = "root"
      /\ st' = [st EXCEPT ![p] = visible] /\ st'[p] = visible
      /\ work' = [work EXCEPT ![p] = visible.metadata] /\ work'[p] = visible.metadata
  BY DEF Begin, Go, Scratch, TrustInv, TrustTypes
<1>4. IsState(visible) /\ Good(visible) /\ p \notin renamed
  BY <1>2, FileOrState DEF TrustInv, Mine, Placed, Open, FilesKept, Locked, Running, Stages
<1>5. visible.metadata \in Metadata /\ Kept(visible.metadata) /\ NotNewer(visible.metadata, visible.metadata)
  BY <1>4, StateFields, NotNewerItself DEF Good
<1>8. TrustTypes'
  BY <1>1, <1>3, <1>5 DEF TrustInv, TrustTypes, Places, Open, Running, Stages
<1>9. StepOf(p)
  BY <1>1, <1>2, <1>3 DEF StepOf, TrustInv, TrustTypes, Making
<1>10. Locked(p)' /\ Placed(p)'
  BY <1>1, <1>2, <1>3, <1>4 DEF Locked, Placed, IsState
<1>11. Loaded(p)' /\ Fetched(p)'
  BY <1>1, <1>3, <1>4, <1>5 DEF Loaded, Fetched, Good, Kept, NotNewer, Running, Stages
<1>12. Backed(p)' /\ Pinned(p)'
  BY <1>1, <1>3, ViewSame DEF TrustInv
<1>13. Revocable(p)'
  BY <1>1, <1>3 DEF TrustInv, Mine, Backed, BackedBy, Revocable, SameAuthority, NoMetadata
<1>14. Mine(p)'
  BY <1>10, <1>11, <1>12, <1>13 DEF Mine
<1> QED BY <1>1, <1>8, <1>9, <1>14, ProcStep, FilesSame DEF TrustInv

\* The scratch directory takes the next version of a role.
LEMMA TookKeeps ==
  ASSUME TrustInv, NEW p \in Procs, pc[p] \in Stages, p \notin renamed, NEW stage \in Stages,
         NEW role, NEW version, Took(p, role, version, stage),
         NEW w, w = [work[p] EXCEPT ![role] = version], Kept(w), NotNewer(work[p], w),
         stage \in {"snapshot", "targets", "manifest"} =>
           w.timestamp # 0 /\ Online[w.root] = Online[RootOf[w.timestamp]],
         stage \in {"targets", "manifest"} => w.snapshot = w.timestamp,
         stage = "manifest" => w.targets = Targets[w.snapshot]
  PROVE  TrustInv'
<1>1. /\ visible' = visible /\ durable' = durable /\ clock' = clock /\ lock' = lock
      /\ renamed' = renamed /\ st' = st /\ view' = view /\ bindings' = bindings
      /\ repoRoot' = repoRoot /\ repoTimestamp' = repoTimestamp
  BY DEF Took, diskVars, repoVars
<1>2. /\ pc' = [pc EXCEPT ![p] = stage] /\ pc'[p] = stage
      /\ work' = [work EXCEPT ![p] = w] /\ work'[p] = w
  BY DEF Took, Go, TrustInv, TrustTypes
<1>3. w \in Metadata
  BY DEF Kept
<1>4. TrustTypes'
  BY <1>1, <1>2, <1>3 DEF TrustInv, TrustTypes, Places, Open, Running
<1>5. StepOf(p)
  BY <1>1, <1>2 DEF StepOf, TrustInv, TrustTypes, Making, Stages
<1>6. pc[p] \in Running /\ stage \in Running /\ pc[p] \in Open /\ stage \in Open /\ stage # "create" /\ stage # "made"
  BY DEF Running, Open, Stages
<1>7. Good(st[p]) /\ visible = st[p] /\ NotNewer(st[p].metadata, work[p]) /\ IsState(visible) /\ lock = p
  BY <1>6 DEF TrustInv, Mine, Loaded, Fetched, Placed, Locked
<1>8. NotNewer(st[p].metadata, w)
  <2>1. st[p].metadata \in Metadata /\ work[p] \in Metadata
    BY <1>7, StateFields DEF Good, TrustInv, TrustTypes
  <2> QED BY <1>3, <1>7, <2>1, NotNewerTransitive
<1>9. Locked(p)' /\ Placed(p)'
  BY <1>1, <1>2, <1>6, <1>7 DEF Locked, Placed, IsState
<1>10. Loaded(p)'
  BY <1>1, <1>2, <1>6, <1>7 DEF Loaded, Good, Kept
<1>11. Fetched(p)'
  BY <1>1, <1>2, <1>8 DEF Fetched, Kept, NotNewer, Stages
<1>12. Backed(p)' /\ Pinned(p)'
  BY <1>1, <1>2, ViewSame DEF TrustInv, Stages
<1>13. Revocable(p)'
  BY <1>1, <1>2, <1>6 DEF TrustInv, Mine, Revocable, SameAuthority
<1>14. Mine(p)'
  BY <1>9, <1>10, <1>11, <1>12, <1>13 DEF Mine
<1> QED BY <1>1, <1>4, <1>5, <1>14, ProcStep, FilesSame DEF TrustInv

LEMMA FetchRootKeeps ==
  ASSUME TrustInv, NEW p \in Procs, FetchRoot(p)
  PROVE  TrustInv'
<1>1. pc[p] = "root" /\ pc[p] \in Stages /\ p \notin renamed
  BY DEF FetchRoot, Ready, Stages
<1>2. Kept(work[p]) /\ work[p] \in Metadata
  BY <1>1 DEF TrustInv, Mine, Fetched, Kept, Running
<1>3. PICK version \in Releases, stage \in {"root", "timestamp"} :
        Took(p, "root", version, stage) /\ version >= work[p].root
  <2>1. work[p].root \in Releases /\ work[p].root \in Int
    BY <1>2, MetadataFields DEF Kept
  <2>2. ASSUME HasNextRoot(p)
        PROVE  work[p].root + 1 \in Releases
    BY <2>1, <2>2, ReleaseFacts DEF HasNextRoot, TrustInv, TrustTypes
  <2> QED BY <2>1, <2>2 DEF FetchRoot
<1> DEFINE w == [work[p] EXCEPT !["root"] = version]
<1>4. /\ w \in Metadata /\ w.root = version
      /\ w.timestamp = work[p].timestamp /\ w.snapshot = work[p].snapshot /\ w.targets = work[p].targets
  BY <1>2 DEF Metadata, Lease!Metadata, Lease!Version
<1>5. w = [work[p] EXCEPT !["root"] = version]
  OBVIOUS
<1> HIDE DEF w
<1>6. Kept(w)
  BY <1>2, <1>4, DiscoveryAssumption DEF Kept, Releases
<1>7. NotNewer(work[p], w)
  BY <1>2, <1>3, <1>4, MetadataFields DEF NotNewer, Lease!NotNewer
<1>8. stage \in Stages /\ stage \notin {"snapshot", "targets", "manifest"}
  BY DEF Stages
<1> QED BY <1>1, <1>3, <1>5, <1>6, <1>7, <1>8, TookKeeps

LEMMA FetchTimestampKeeps ==
  ASSUME TrustInv, NEW p \in Procs, FetchTimestamp(p)
  PROVE  TrustInv'
<1>1. pc[p] = "timestamp" /\ pc[p] \in Stages /\ p \notin renamed
  BY DEF FetchTimestamp, Ready, Stages
<1>2. Kept(work[p]) /\ work[p] \in Metadata
  BY <1>1 DEF TrustInv, Mine, Fetched, Kept, Running
<1>3. PICK n \in 1 .. repoTimestamp : Accepts(p, n) /\ Took(p, "timestamp", n, "snapshot")
  BY DEF FetchTimestamp
<1>4. n \in Releases /\ n # 0 /\ n >= work[p].timestamp /\ n \in Int
  BY <1>3, DiscoveryAssumption DEF TrustInv, TrustTypes, Releases, Accepts
<1> DEFINE w == [work[p] EXCEPT !["timestamp"] = n]
<1>5. /\ w \in Metadata /\ w.timestamp = n
      /\ w.root = work[p].root /\ w.snapshot = work[p].snapshot /\ w.targets = work[p].targets
  BY <1>2, <1>4 DEF Metadata, Lease!Metadata, Lease!Version
<1>6. w = [work[p] EXCEPT !["timestamp"] = n]
  OBVIOUS
<1> HIDE DEF w
<1>7. Kept(w)
  BY <1>2, <1>4, <1>5, MetadataFields DEF Kept
<1>8. NotNewer(work[p], w)
  BY <1>2, <1>4, <1>5, MetadataFields DEF NotNewer, Lease!NotNewer
<1>9. w.timestamp # 0 /\ Online[w.root] = Online[RootOf[w.timestamp]]
  BY <1>3, <1>4, <1>5 DEF Accepts
<1>10. "snapshot" \in Stages
  BY DEF Stages
<1> QED BY <1>1, <1>3, <1>6, <1>7, <1>8, <1>9, <1>10, TookKeeps

LEMMA FetchSnapshotKeeps ==
  ASSUME TrustInv, NEW p \in Procs, FetchSnapshot(p)
  PROVE  TrustInv'
<1>1. pc[p] = "snapshot" /\ pc[p] \in Stages /\ p \notin renamed
  BY DEF FetchSnapshot, Stages
<1>2. /\ Kept(work[p]) /\ work[p] \in Metadata
      /\ work[p].timestamp # 0 /\ Online[work[p].root] = Online[RootOf[work[p].timestamp]]
  BY <1>1 DEF TrustInv, Mine, Fetched, Kept, Running
<1> DEFINE n == work[p].timestamp
           w == [work[p] EXCEPT !["snapshot"] = n]
<1>3. n \in Releases /\ work[p].snapshot <= n
  BY <1>2, MetadataFields DEF Kept
<1>4. Took(p, "snapshot", n, "targets")
  BY DEF FetchSnapshot
<1>5. /\ w \in Metadata /\ w.snapshot = n
      /\ w.root = work[p].root /\ w.timestamp = work[p].timestamp /\ w.targets = work[p].targets
  BY <1>2, <1>3 DEF Metadata, Lease!Metadata, Lease!Version
<1>6. w = [work[p] EXCEPT !["snapshot"] = n]
  OBVIOUS
<1> HIDE DEF w
<1>7. Kept(w)
  <2>1. w.targets <= Targets[n]
    <3>1. Targets[n] \in Int /\ Targets[n] >= 0
      BY <1>3, TargetsFacts
    <3>2. CASE work[p].snapshot = 0
      BY <1>2, <1>5, <3>1, <3>2 DEF Kept
    <3>3. CASE work[p].snapshot # 0
      <4>1. work[p].snapshot \in Releases /\ work[p].targets <= Targets[work[p].snapshot] /\ work[p].targets \in Int
        BY <1>2, <3>3, MetadataFields DEF Kept
      <4>2. Targets[work[p].snapshot] <= Targets[n] /\ Targets[work[p].snapshot] \in Int
        BY <1>3, <4>1, TargetsFacts
      <4> QED BY <1>5, <3>1, <4>1, <4>2
    <3> QED BY <3>2, <3>3
  <2> QED BY <1>2, <1>3, <1>5, <2>1, MetadataFields DEF Kept
<1>8. NotNewer(work[p], w)
  BY <1>2, <1>3, <1>5, MetadataFields DEF NotNewer, Lease!NotNewer
<1>9. w.timestamp # 0 /\ Online[w.root] = Online[RootOf[w.timestamp]] /\ w.snapshot = w.timestamp
  BY <1>2, <1>5
<1>10. "targets" \in Stages
  BY DEF Stages
<1> QED BY <1>1, <1>4, <1>6, <1>7, <1>8, <1>9, <1>10, TookKeeps

LEMMA FetchTargetsKeeps ==
  ASSUME TrustInv, NEW p \in Procs, FetchTargets(p)
  PROVE  TrustInv'
<1>1. pc[p] = "targets" /\ pc[p] \in Stages /\ p \notin renamed
  BY DEF FetchTargets, Stages
<1>2. /\ Kept(work[p]) /\ work[p] \in Metadata /\ work[p].snapshot = work[p].timestamp
      /\ work[p].timestamp # 0 /\ Online[work[p].root] = Online[RootOf[work[p].timestamp]]
  BY <1>1 DEF TrustInv, Mine, Fetched, Kept, Running
<1> DEFINE n == Targets[work[p].snapshot]
           w == [work[p] EXCEPT !["targets"] = n]
<1>3. n \in Releases /\ n \in Int /\ work[p].targets <= n
  <2>1. work[p].snapshot \in Releases /\ work[p].targets <= n
    BY <1>2, MetadataFields DEF Kept
  <2> QED BY <2>1, TargetsFacts
<1>4. Took(p, "targets", n, "manifest")
  BY DEF FetchTargets
<1>5. /\ w \in Metadata /\ w.targets = n
      /\ w.root = work[p].root /\ w.timestamp = work[p].timestamp /\ w.snapshot = work[p].snapshot
  BY <1>2, <1>3 DEF Metadata, Lease!Metadata, Lease!Version
<1>6. w = [work[p] EXCEPT !["targets"] = n]
  OBVIOUS
<1> HIDE DEF w
<1>7. Kept(w)
  BY <1>2, <1>3, <1>5, MetadataFields DEF Kept
<1>8. NotNewer(work[p], w)
  BY <1>2, <1>3, <1>5, MetadataFields DEF NotNewer, Lease!NotNewer
<1>9. /\ w.timestamp # 0 /\ Online[w.root] = Online[RootOf[w.timestamp]] /\ w.snapshot = w.timestamp
      /\ w.targets = Targets[w.snapshot]
  BY <1>2, <1>5
<1>10. "manifest" \in Stages
  BY DEF Stages
<1> QED BY <1>1, <1>4, <1>6, <1>7, <1>8, <1>9, <1>10, TookKeeps

LEMMA FetchManifestKeeps ==
  ASSUME TrustInv, NEW p \in Procs, FetchManifest(p)
  PROVE  TrustInv'
<1>1. /\ visible' = visible /\ durable' = durable /\ clock' = clock /\ lock' = lock
      /\ renamed' = renamed /\ st' = st /\ work' = work /\ view' = view /\ bindings' = bindings
      /\ repoRoot' = repoRoot /\ repoTimestamp' = repoTimestamp
  BY DEF FetchManifest, diskVars, repoVars
<1>2. pc' = [pc EXCEPT ![p] = "accept"] /\ pc'[p] = "accept"
  BY DEF FetchManifest, Go, TrustInv, TrustTypes
<1>3. pc[p] = "manifest" /\ p \notin renamed /\ work[p] = st[p].metadata
  BY DEF FetchManifest, Ready, Behind, Stages
<1>4. TrustTypes'
  BY <1>1, <1>2 DEF TrustInv, TrustTypes, Places, Open, Running
<1>5. StepOf(p)
  BY <1>1, <1>2 DEF StepOf, TrustInv, TrustTypes, Making
<1>6. pc[p] \in Running /\ pc[p] \in Open /\ "accept" \in Running /\ "accept" \in Open /\ "accept" \notin Stages
  BY <1>3 DEF Running, Open, Stages
<1>7. Good(st[p]) /\ visible = st[p] /\ IsState(visible) /\ lock = p
  BY <1>3, <1>6 DEF TrustInv, Mine, Loaded, Placed, Locked
<1>8. Locked(p)' /\ Placed(p)'
  BY <1>1, <1>2, <1>3, <1>6, <1>7 DEF Locked, Placed, IsState
<1>9. Loaded(p)'
  BY <1>1, <1>2, <1>3, <1>6, <1>7 DEF Loaded, Good, Kept
<1>10. Fetched(p)'
  BY <1>1, <1>2, <1>3, <1>6 DEF TrustInv, Mine, Fetched, Kept, NotNewer
<1>11. Backed(p)' /\ Pinned(p)'
  BY <1>1, <1>2, ViewSame DEF TrustInv
<1>12. Revocable(p)'
  BY <1>1, <1>2, <1>6 DEF TrustInv, Mine, Revocable, SameAuthority
<1>13. Mine(p)'
  BY <1>8, <1>9, <1>10, <1>11, <1>12 DEF Mine
<1> QED BY <1>1, <1>4, <1>5, <1>13, ProcStep, FilesSame DEF TrustInv

-----------------------------------------------------------------------------
(* Saving.                                                                 *)

LEMMA RenameKeeps ==
  ASSUME TrustInv, NEW p \in Procs, Rename(p)
  PROVE  TrustInv'
<1>1. /\ visible' = Goal(p) /\ renamed' = renamed \cup {p} /\ p \notin renamed
      /\ durable' = durable /\ clock' = clock /\ lock' = lock /\ pc' = pc
      /\ st' = st /\ work' = work /\ view' = view /\ bindings' = bindings
      /\ repoRoot' = repoRoot /\ repoTimestamp' = repoTimestamp
  BY DEF Rename, Saves, repoVars
<1>2. pc[p] \in Running \cup {"create"} /\ pc[p] # "accepted"
  BY DEF Rename, Saves, Behind, Running, Stages
<1>3. lock = p
  BY <1>2 DEF TrustInv, Mine, Locked
<1>4. Good(Goal(p)) /\ IsState(Goal(p))
  BY <1>2, GoalIs, GoalOfCreate, InitialGood DEF TrustInv
<1>5. ASSUME IsState(visible)
      PROVE  /\ pc[p] \in Running /\ visible = st[p] /\ Good(st[p])
             /\ NotNewer(st[p].metadata, Goal(p).metadata)
             /\ st[p].accepted # NoMetadata /\ SameAuthority(Goal(p).metadata, st[p].metadata) =>
                  Goal(p).accepted # NoMetadata
  <2>1. pc[p] # "create"
    BY <1>1, <1>5, NoState DEF TrustInv, Mine, Placed
  <2> QED BY <1>1, <1>2, <2>1, GoalIs DEF TrustInv, Mine, Loaded
<1>6. ASSUME NEW m \in Metadata, IsState(visible), NotNewer(m, visible.metadata)
      PROVE  /\ NotNewer(m, Goal(p).metadata)
             /\ SameAuthority(m, Goal(p).metadata) =>
                  /\ SameAuthority(m, visible.metadata)
                  /\ visible.accepted # NoMetadata => Goal(p).accepted # NoMetadata
  <2>1. st[p].metadata \in Metadata /\ Goal(p).metadata \in Metadata
    BY <1>4, <1>5, <1>6, StateFields DEF Good
  <2> QED BY <1>5, <1>6, <2>1, NotNewerTransitive, AuthorityBetween
<1>7. FilesKept'
  <2>1. File(visible)' /\ visible' # Absent /\ IsState(visible)'
    BY <1>1, <1>4, NoState DEF File, Good, Kept, IsState
  <2>2. File(durable)'
    BY <1>1 DEF TrustInv, FilesKept, File, Good, Kept
  <2>3. ASSUME IsState(durable)
        PROVE  NotNewer(durable.metadata, Goal(p).metadata)
    <3>1. durable.metadata \in Metadata
      BY <2>3, FileOrState, StateFields DEF TrustInv, FilesKept, Good
    <3> QED BY <1>6, <2>3, <3>1 DEF TrustInv, FilesKept
  <2> QED BY <1>1, <2>1, <2>2, <2>3 DEF FilesKept, IsState, NotNewer
<1>8. TrustTypes' /\ OneMaker'
  BY <1>1 DEF TrustInv, TrustTypes, OneMaker
<1>9. ASSUME NEW q \in Procs
      PROVE  Backed(q)' /\ Revocable(q)' /\ Pinned(q)' /\ Fetched(q)'
  <2>1. Backed(q)'
    <3>1. ASSUME NEW m \in Metadata, BackedBy(m)
          PROVE  BackedBy(m)'
      <4>1. SUFFICES ASSUME m # NoMetadata
                     PROVE  /\ IsState(Goal(p)) /\ NotNewer(m, Goal(p).metadata)
                            /\ m.timestamp # 0
                            /\ SameAuthority(m, Goal(p).metadata) => Goal(p).accepted # NoMetadata
        BY <1>1 DEF BackedBy, IsState, NotNewer, SameAuthority, NoMetadata
      <4>2. /\ IsState(visible) /\ NotNewer(m, visible.metadata) /\ m.timestamp # 0
            /\ SameAuthority(m, visible.metadata) => visible.accepted # NoMetadata
        BY <3>1, <4>1 DEF BackedBy
      <4> QED BY <1>4, <1>6, <4>2
    <3>2. /\ view[q] \in Metadata /\ work[q] \in Metadata /\ view'[q] = view[q]
          /\ work'[q] = work[q] /\ pc'[q] = pc[q]
      BY <1>1 DEF TrustInv, TrustTypes
    <3>3. BackedBy(view[q])'
      <4>1. BackedBy(view[q])
        BY DEF TrustInv, Mine, Backed
      <4> QED BY <1>1, <3>1, <3>2, <4>1 DEF BackedBy
    <3>4. ASSUME pc[q] \in {"opened", "refreshed"}
          PROVE  BackedBy(work[q])'
      <4>1. BackedBy(work[q])
        BY <3>4 DEF TrustInv, Mine, Backed
      <4> QED BY <1>1, <3>1, <3>2, <4>1 DEF BackedBy
    <3> QED BY <3>2, <3>3, <3>4 DEF Backed
  <2>2. Revocable(q)'
    BY <1>1 DEF TrustInv, Mine, Revocable, SameAuthority
  <2>3. Pinned(q)'
    BY <1>1 DEF TrustInv, Mine, Pinned, Fresh
  <2>4. Fetched(q)'
    BY <1>1 DEF TrustInv, Mine, Fetched, Kept, NotNewer
  <2> QED BY <2>1, <2>2, <2>3, <2>4
<1>10. ASSUME NEW q \in Procs, q # p
       PROVE  Locked(q)' /\ Placed(q)' /\ Loaded(q)'
  <2>1. pc[q] \notin Running \cup {"create"} /\ st[q] = Absent
    BY <1>3, <1>10 DEF TrustInv, Mine, Locked, Loaded
  <2>2. pc[q] # "made"
    <3>1. CASE pc[p] = "create"
      BY <1>10, <3>1 DEF TrustInv, OneMaker, Making
    <3>2. CASE pc[p] \in Running
      BY <3>2, NoState DEF TrustInv, Mine, Placed, Open
    <3> QED BY <1>2, <3>1, <3>2
  <2>3. Locked(q)'
    BY <1>1, <1>10, <2>1 DEF TrustInv, Mine, Locked
  <2>4. Placed(q)'
    BY <1>1, <1>4, <2>1, <2>2 DEF Placed, IsState
  <2>5. Loaded(q)'
    BY <1>1, <2>1 DEF Loaded
  <2> QED BY <2>3, <2>4, <2>5
<1>11. Locked(p)' /\ Placed(p)' /\ Loaded(p)'
  <2>1. Goal(p)' = Goal(p)
    BY <1>1 DEF Goal, Checkpointed
  <2>2. Locked(p)'
    BY <1>1, <1>2, <1>3 DEF Locked
  <2>3. Placed(p)'
    BY <1>1, <1>2, <1>4, GoalOfCreate DEF Placed, IsState, Running, Stages
  <2>4. Loaded(p)'
    BY <1>1, <2>1 DEF TrustInv, Mine, Loaded, Good, Kept
  <2> QED BY <2>2, <2>3, <2>4
<1> QED
  BY <1>7, <1>8, <1>9, <1>10, <1>11 DEF TrustInv, Mine

LEMMA CommitKeeps ==
  ASSUME TrustInv, NEW p \in Procs, Commit(p)
  PROVE  TrustInv'
<1>1. /\ durable' = visible /\ renamed' = renamed \ {p} /\ p \in renamed
      /\ visible' = visible /\ clock' = clock /\ work' = work /\ bindings' = bindings
      /\ repoRoot' = repoRoot /\ repoTimestamp' = repoTimestamp
      /\ lock' = IF pc[p] = "create" THEN "free" ELSE lock
  BY DEF Commit, repoVars
<1>2. pc[p] \in Running \cup {"create"} /\ pc[p] # "accepted" /\ lock = p
  BY <1>1 DEF TrustInv, Mine, Locked
<1>3. /\ pc' = [pc EXCEPT ![p] = AfterSave(p)] /\ pc'[p] = AfterSave(p)
      /\ st' = [st EXCEPT ![p] = IF pc[p] = "create" THEN Absent ELSE Goal(p)]
      /\ st'[p] = IF pc[p] = "create" THEN Absent ELSE Goal(p)
      /\ view' = [view EXCEPT ![p] = Invalidated(p)] /\ view'[p] = Invalidated(p)
  BY DEF Commit, Go, TrustInv, TrustTypes
<1>4. Invalidated(p) = NoMetadata \/ Invalidated(p) = view[p]
  BY DEF Invalidated
<1>5. AfterSave(p) \in Running \/ (pc[p] = "create" /\ AfterSave(p) = "read")
  BY <1>2 DEF AfterSave, Running, Stages
<1>6. TrustTypes'
  <2>1. Invalidated(p) \in Metadata
    BY <1>4, NoMetadataFields DEF TrustInv, TrustTypes
  <2>2. AfterSave(p) \in Places
    BY <1>5 DEF Places, Open
  <2> QED BY <1>1, <1>3, <2>1, <2>2 DEF TrustInv, TrustTypes
<1>7. StepOf(p)
  BY <1>1, <1>2, <1>3, <1>5 DEF StepOf, TrustInv, TrustTypes, Making, Running, Stages
<1>8. IsState(visible) /\ Good(visible)
  <2>1. CASE pc[p] = "create"
    BY <1>1, <2>1, InitialGood DEF TrustInv, Mine, Placed
  <2>2. CASE pc[p] \in Running
    BY <2>2, FileOrState DEF TrustInv, FilesKept, Mine, Placed, Open
  <2> QED BY <1>2, <2>1, <2>2
<1>9. FilesKept'
  <2>1. NotNewer(visible.metadata, visible.metadata)
    BY <1>8, StateFields, NotNewerItself DEF Good
  <2> QED
    BY <1>1, <1>8, <2>1 DEF TrustInv, FilesKept, File, Good, Kept, IsState, NotNewer
<1>10. Backed(p)'
  <2>1. pc'[p] \notin {"opened", "refreshed"}
    BY <1>3, <1>5 DEF Running, Stages
  <2> QED
    BY <1>1, <1>3, <1>4, <2>1 DEF TrustInv, Mine, Backed, BackedBy, IsState, NotNewer, SameAuthority, NoMetadata
<1>11. Pinned(p)'
  BY <1>1, <1>3, <1>4 DEF TrustInv, Mine, Pinned, Fresh, NoMetadata
<1>12. Mine(p)'
  <2>1. CASE pc[p] = "create"
    <3>1. pc'[p] = "read" /\ st'[p] = Absent /\ p \notin renamed' /\ IsState(visible)'
      BY <1>1, <1>3, <1>8, <2>1 DEF AfterSave, IsState
    <3> QED BY <1>10, <1>11, <3>1, AtRest DEF Resting
  <2>2. CASE pc[p] \in Running
    <3> DEFINE g == Goal(p)
    <3>1. pc[p] # "create" /\ pc'[p] \in Running /\ pc'[p] \in Open /\ pc'[p] \notin Making
      BY <1>3, <1>5, <2>2 DEF Running, Stages, Open, Making
    <3>2. st'[p] = g /\ visible = g /\ lock' = p
      BY <1>1, <1>2, <1>3, <2>2, <3>1 DEF TrustInv, Mine, Loaded
    <3>3. Good(g) /\ Kept(work[p]) /\ NotNewer(g.metadata, work[p])
      BY <1>2, <2>2, GoalIs DEF TrustInv
    <3>4. pc'[p] = "accepted" \/ (pc'[p] = pc[p] /\ pc[p] \in Stages)
      BY <1>2, <1>3, <2>2, <3>1 DEF AfterSave, Running
    <3>5. Revocable(p)'
      BY <1>1, <1>10, <3>2 DEF Revocable, Backed, BackedBy, SameAuthority, NoMetadata
    <3> HIDE DEF g
    <3>6. Locked(p)' /\ Placed(p)'
      BY <1>1, <1>8, <3>1, <3>2 DEF Locked, Placed, Making, IsState
    <3>7. Loaded(p)'
      BY <1>1, <3>1, <3>2, <3>3 DEF Loaded, Good, Kept
    <3>8. Fetched(p)'
      BY <1>1, <3>2, <3>3, <3>4 DEF TrustInv, Mine, Fetched, Kept, NotNewer, Stages
    <3> QED BY <1>10, <1>11, <3>5, <3>6, <3>7, <3>8 DEF Mine
  <2> QED BY <1>2, <2>1, <2>2
<1> QED BY <1>1, <1>6, <1>7, <1>9, <1>12, ProcStep

-----------------------------------------------------------------------------
(* Creating the directory.                                                 *)

LEMMA MkdirKeeps ==
  ASSUME TrustInv, NEW p \in Procs, Mkdir(p)
  PROVE  TrustInv'
<1>1. /\ durable' = durable /\ clock' = clock /\ lock' = lock /\ renamed' = renamed
      /\ st' = st /\ work' = work /\ view' = view /\ bindings' = bindings
      /\ repoRoot' = repoRoot /\ repoTimestamp' = repoTimestamp
  BY DEF Mkdir, repoVars
<1>2. p \notin renamed /\ st[p] = Absent
  BY DEF Mkdir, TrustInv, Mine, Locked, Loaded, Running, Stages
<1>3. CASE visible # Absent
  <2>1. visible' = visible /\ pc' = [pc EXCEPT ![p] = "open"] /\ pc'[p] = "open"
    BY <1>3 DEF Mkdir, Go, TrustInv, TrustTypes
  <2>2. TrustTypes'
    BY <1>1, <2>1 DEF TrustInv, TrustTypes, Places
  <2>3. StepOf(p)
    BY <1>1, <2>1 DEF StepOf, TrustInv, TrustTypes, Making
  <2>4. Backed(p)' /\ Pinned(p)'
    BY <1>1, <2>1, ViewSame DEF TrustInv
  <2>5. Mine(p)'
    BY <1>1, <1>2, <2>1, <2>4, AtRest DEF Resting
  <2> QED BY <1>1, <2>1, <2>2, <2>3, <2>5, ProcStep, FilesSame DEF TrustInv
<1>4. CASE visible = Absent
  <2>1. visible' = Empty /\ pc' = [pc EXCEPT ![p] = "made"] /\ pc'[p] = "made"
    BY <1>4 DEF Mkdir, Go, TrustInv, TrustTypes
  <2>2. TrustTypes'
    BY <1>1, <2>1 DEF TrustInv, TrustTypes, Places, Making
  <2>3. ASSUME NEW q \in Procs
        PROVE  pc[q] \notin Making /\ pc[q] \notin Open /\ view[q] = NoMetadata
    <3>1. visible # Empty /\ visible # InitialState /\ ~IsState(visible)
      BY <1>4, NoState, InitialGood
    <3> QED BY <3>1 DEF TrustInv, Mine, Placed, Backed, BackedBy, Making
  <2>4. OneMaker'
    BY <2>1, <2>3 DEF OneMaker, TrustInv, TrustTypes
  <2>5. FilesKept'
    <3>1. durable = Absent
      BY <1>4 DEF TrustInv, FilesKept
    <3> QED BY <1>1, <2>1, <3>1, NoState DEF FilesKept, File, IsState
  <2>6. ASSUME NEW q \in Procs
        PROVE  Mine(q)'
    <3>1. pc'[q] = "made" \/ (pc'[q] = pc[q] /\ pc[q] # "create")
      BY <2>1, <2>3 DEF TrustInv, TrustTypes, Making
    <3>2. pc'[q] \notin Running \cup {"create"} /\ pc'[q] \notin Open /\ pc[q] \notin Running \cup {"create"}
      BY <2>3, <3>1 DEF Running, Stages, Open, Making
    <3>3. Locked(q)' /\ Placed(q)'
      BY <1>1, <2>1, <3>1, <3>2 DEF TrustInv, Mine, Locked, Placed
    <3>4. Loaded(q)'
      BY <1>1, <3>2 DEF TrustInv, Mine, Loaded
    <3>5. Fetched(q)' /\ Revocable(q)'
      BY <3>2 DEF Fetched, Revocable, Running, Stages
    <3>6. Backed(q)' /\ Pinned(q)'
      BY <1>1, <2>3, <3>2 DEF Backed, BackedBy, Pinned, Fresh, NoMetadata, Open
    <3> QED BY <3>3, <3>4, <3>5, <3>6 DEF Mine
  <2> QED BY <2>2, <2>4, <2>5, <2>6 DEF TrustInv
<1> QED BY <1>3, <1>4

LEMMA LockNewKeeps ==
  ASSUME TrustInv, NEW p \in Procs, LockNew(p)
  PROVE  TrustInv'
<1>1. /\ visible' = visible /\ clock' = clock /\ renamed' = renamed
      /\ st' = st /\ work' = work /\ view' = view /\ bindings' = bindings
      /\ repoRoot' = repoRoot /\ repoTimestamp' = repoTimestamp
      /\ lock = "free" /\ lock' = p /\ pc[p] = "made"
      /\ durable' = IF durable = Absent THEN Empty ELSE durable
  BY DEF LockNew, LockFree, repoVars
<1>2. pc' = [pc EXCEPT ![p] = "create"] /\ pc'[p] = "create"
  BY DEF LockNew, Go, TrustInv, TrustTypes
<1>3. visible = Empty /\ p \notin renamed /\ st[p] = Absent
  BY <1>1 DEF TrustInv, Mine, Placed, Locked, Loaded, Running, Stages
<1>4. TrustTypes'
  BY <1>1, <1>2 DEF TrustInv, TrustTypes, Places, Making
<1>5. StepOf(p)
  BY <1>1, <1>2 DEF StepOf, TrustInv, TrustTypes, Making
<1>6. FilesKept'
  <2>1. durable = Absent \/ durable = Empty
    BY <1>3, NoState, FileOrState DEF TrustInv, FilesKept, File
  <2> QED BY <1>1, <1>3, <2>1, NoState DEF FilesKept, File, IsState
<1>7. Locked(p)' /\ Placed(p)'
  BY <1>1, <1>2, <1>3 DEF Locked, Placed, Open, Running, Stages
<1>8. Loaded(p)' /\ Fetched(p)' /\ Revocable(p)'
  BY <1>1, <1>2, <1>3 DEF Loaded, Fetched, Revocable, Running, Stages
<1>9. Backed(p)' /\ Pinned(p)'
  BY <1>1, <1>2, ViewSame DEF TrustInv
<1>10. Mine(p)'
  BY <1>7, <1>8, <1>9 DEF Mine
<1> QED BY <1>1, <1>4, <1>5, <1>6, <1>10, ProcStep

-----------------------------------------------------------------------------
(* The repository, time and crashes.                                       *)

\* Steps that are no process's.
LEMMA UnmovedKeeps ==
  ASSUME TrustInv, UNCHANGED <<diskVars, lock, procVars>>, clock' \in Int, clock' >= clock,
         repoRoot' \in Releases, repoTimestamp' \in Releases
  PROVE  TrustInv'
<1>1. /\ visible' = visible /\ durable' = durable /\ lock' = lock /\ renamed' = renamed /\ pc' = pc
      /\ st' = st /\ work' = work /\ view' = view /\ bindings' = bindings
  BY DEF diskVars, procVars
<1>2. TrustTypes' /\ OneMaker'
  BY <1>1 DEF TrustInv, TrustTypes, OneMaker
<1>3. FilesKept'
  BY <1>1, FilesSame DEF TrustInv
<1>4. ASSUME NEW q \in Procs
      PROVE  Mine(q)'
  BY <1>1, OthersKeep DEF TrustInv
<1> QED BY <1>2, <1>3, <1>4 DEF TrustInv

LEMMA EnvironmentKeeps ==
  ASSUME TrustInv, PublishRoot \/ PublishTimestamp \/ Tick
  PROVE  TrustInv'
<1>1. repoRoot \in Releases /\ repoTimestamp \in Releases /\ clock \in Int
  BY DEF TrustInv, TrustTypes
<1>2. CASE PublishRoot
  <2>1. repoTimestamp + 1 \in Releases
    BY <1>1, <1>2, ReleaseFacts DEF PublishRoot
  <2>2. RootOf[repoTimestamp + 1] \in Releases
    BY <2>1, DiscoveryAssumption
  <2>3. repoRoot' \in Releases
    BY <1>1, <1>2, <2>2, ReleaseFacts DEF PublishRoot
  <2> QED BY <1>1, <1>2, <2>3, UnmovedKeeps DEF PublishRoot
<1>3. CASE PublishTimestamp
  <2>1. repoTimestamp' \in Releases
    BY <1>1, <1>3, ReleaseFacts DEF PublishTimestamp
  <2> QED BY <1>1, <1>3, <2>1, UnmovedKeeps DEF PublishTimestamp
<1>4. CASE Tick
  BY <1>1, <1>4, UnmovedKeeps DEF Tick, repoVars
<1> QED BY <1>2, <1>3, <1>4

\* Every process is down and the two files are the same.
LEMMA AllDown ==
  ASSUME FilesKept', visible' = durable', pc' = [p \in Procs |-> "down"], renamed' = {},
         st' = [p \in Procs |-> Absent], work' = [p \in Procs |-> NoMetadata],
         view' = [p \in Procs |-> NoMetadata], bindings' = [p \in Procs |-> 0],
         repoRoot' \in Releases, repoTimestamp' \in Releases, clock' \in Int
  PROVE  TrustInv'
<1>1. TrustTypes'
  BY NoMetadataFields DEF TrustTypes, Places
<1>2. OneMaker'
  BY DEF OneMaker, Making
<1>3. ASSUME NEW q \in Procs
      PROVE  Mine(q)'
  <2>1. pc'[q] = "down" /\ q \notin renamed' /\ st'[q] = Absent
    OBVIOUS
  <2>2. Backed(q)' /\ Pinned(q)'
    BY DEF Backed, BackedBy, Pinned, NoMetadata
  <2> QED BY <2>1, <2>2, AtRest DEF Resting
<1> QED BY <1>1, <1>2, <1>3 DEF TrustInv

LEMMA PowerLossKeeps ==
  ASSUME TrustInv, PowerLoss
  PROVE  TrustInv'
<1>1. visible' = durable /\ durable' = durable
  BY DEF PowerLoss
<1>2. FilesKept'
  <2>1. IsState(durable) => NotNewer(durable.metadata, durable.metadata)
    BY FileOrState, StateFields, NotNewerItself DEF TrustInv, FilesKept, Good
  <2> QED BY <1>1, <2>1 DEF TrustInv, FilesKept, File, Good, Kept, IsState, NotNewer
<1>3. repoRoot' \in Releases /\ repoTimestamp' \in Releases /\ clock' \in Int
  BY DEF PowerLoss, TrustInv, TrustTypes, repoVars
<1> QED BY <1>1, <1>2, <1>3, AllDown DEF PowerLoss

LEMMA InitTrust ==
  ASSUME Init
  PROVE  TrustInv
<1>1. TrustTypes
  <2>1. repoRoot \in Releases /\ repoTimestamp \in Releases /\ clock \in Int
    BY DiscoveryAssumption DEF Init, Releases
  <2> QED BY <2>1, NoMetadataFields DEF Init, TrustTypes, Places
<1>2. OneMaker
  BY DEF Init, OneMaker, Making
<1>3. FilesKept
  BY NoState DEF Init, FilesKept, File
<1>4. ASSUME NEW q \in Procs
      PROVE  Mine(q)
  <2>1. pc[q] = "down" /\ q \notin renamed /\ st[q] = Absent /\ view[q] = NoMetadata /\ bindings[q] = 0
    BY DEF Init
  <2>2. pc[q] \notin Running /\ pc[q] \notin Making /\ pc[q] \notin Stages /\ pc[q] \notin Open
    BY <2>1 DEF Running, Stages, Making, Open
  <2>3. Locked(q) /\ Placed(q)
    BY <2>1, <2>2 DEF Locked, Placed
  <2>4. Loaded(q) /\ Fetched(q) /\ Revocable(q)
    BY <2>1, <2>2 DEF Loaded, Fetched, Revocable
  <2>5. Backed(q) /\ Pinned(q)
    BY <2>1 DEF Backed, BackedBy, Pinned
  <2> QED BY <2>3, <2>4, <2>5 DEF Mine
<1> QED BY <1>1, <1>2, <1>3, <1>4 DEF TrustInv

-----------------------------------------------------------------------------
(* Every step.                                                             *)

LEMMA NextTrust ==
  ASSUME TrustInv, [Next]_vars
  PROVE  TrustInv'
<1>1. ASSUME NEW p \in Procs, Opening(p)
      PROVE  TrustInv'
  <2>1. CASE NoDiscovery(p)
    BY <2>1, EndsKeeps DEF NoDiscovery
  <2> QED
    BY <1>1, <2>1, MkdirKeeps, LockNewKeeps, OpenLoadsKeeps, ReadKeeps, ShowKeeps,
       ConfigureKeeps DEF Opening
<1>2. ASSUME NEW p \in Procs, Refreshing(p)
      PROVE  TrustInv'
  BY <1>2, BeginKeeps, FetchRootKeeps, FetchTimestampKeeps, FetchSnapshotKeeps, FetchTargetsKeeps,
     FetchManifestKeeps, RefusesKeeps, FinishKeeps DEF Refreshing
<1>3. ASSUME NEW p \in Procs, Saving(p)
      PROVE  TrustInv'
  BY <1>3, RenameKeeps, CommitKeeps DEF Saving
<1>4. ASSUME NEW p \in Procs, FetchFails(p) \/ SaveFails(p)
      PROVE  TrustInv'
  BY <1>4, RefusesKeeps, SaveFailsKeeps
<1>5. ASSUME NEW p \in Procs, Kill(p)
      PROVE  TrustInv'
  BY <1>5, EndsKeeps DEF Kill
<1>6. CASE UNCHANGED vars
  <2>1. repoRoot' \in Releases /\ repoTimestamp' \in Releases /\ clock' \in Int /\ clock' >= clock
    BY <1>6 DEF vars, repoVars, TrustInv, TrustTypes
  <2> QED BY <1>6, <2>1, UnmovedKeeps DEF vars
<1> QED
  BY <1>1, <1>2, <1>3, <1>4, <1>5, <1>6, EnvironmentKeeps, PowerLossKeeps DEF Next, Proc

LEMMA AlwaysTrust == Spec => []TrustInv
BY InitTrust, NextTrust, PTL DEF Spec

\* Whatever processes start, stop and crash, the one that writes the state
\* has read what it replaces, and no session shows what is ahead of the
\* directory (state.go, the lock; client.go, save).
THEOREM NothingEverLost == Spec => []NothingLost
<1>1. ASSUME TrustInv
      PROVE  NothingLost
  <2>1. ASSUME NEW p \in Procs, p \notin renamed, st[p].at = "state"
        PROVE  visible = st[p]
    <3>1. st[p] # Absent
      BY <2>1, NoState DEF IsState
    <3> QED BY <1>1, <2>1, <3>1 DEF TrustInv, Mine, Loaded
  <2>2. ASSUME NEW p \in Procs, view[p] # NoMetadata
        PROVE  visible.at = "state" /\ Lease!NotNewer(view[p], visible.metadata)
    BY <1>1, <2>2 DEF TrustInv, Mine, Backed, BackedBy, IsState, NotNewer
  <2> QED BY <2>1, <2>2 DEF NothingLost
<1> QED BY <1>1, AlwaysTrust, PTL

\* What OwnSaveRevokes says of one step.
Revokes ==
  \A p \in Procs :
    (p \in renamed \ renamed' /\ st'[p].at = "state" /\ view'[p] # NoMetadata) =>
      \/ Lease!SameAuthority(view'[p], st'[p].metadata)
      \/ ~Lease!SameAuthority(view[p], st[p].metadata)

\* A commit that replaces the authority finds a manifest to withdraw.
LEMMA CommitRevokes ==
  ASSUME TrustInv, NEW p \in Procs, Commit(p), pc[p] \in Running, Invalidated(p) # NoMetadata,
         SameAuthority(view[p], st[p].metadata)
  PROVE  Invalidated(p) = view[p] /\ SameAuthority(view[p], Goal(p).metadata)
<1> DEFINE g == Goal(p)
<1>1. pc[p] # "accepted" /\ p \in renamed
  BY DEF Commit, TrustInv, Mine, Locked
<1>2. Invalidated(p) = view[p] /\ view[p] # NoMetadata
  BY DEF Invalidated
<1>3. st[p].accepted # NoMetadata /\ st[p].at = "state"
  BY <1>2, StateFields DEF TrustInv, Mine, Revocable, Loaded, Good
<1>4. g.accepted # NoMetadata
  BY <1>2, <1>3 DEF Invalidated
<1>5. CASE pc[p] = "accept"
  <2>1. g.metadata = st[p].metadata
    BY <1>1, <1>5, GoalIs DEF TrustInv
  <2> QED BY <1>2, <2>1
<1>6. CASE pc[p] \in Stages
  <2>1. g = Checkpointed(p)
    BY <1>6 DEF Goal, Stages
  <2>2. g.metadata = work[p] /\ SameAuthority(work[p], st[p].metadata)
    BY <1>4, <2>1 DEF Checkpointed, SameAuthority
  <2> QED BY <1>2, <2>2 DEF SameAuthority, Lease!SameAuthority
<1> QED BY <1>1, <1>5, <1>6 DEF Running

LEMMA StepRevokes ==
  ASSUME TrustInv, [Next]_vars
  PROVE  Revokes
<1> SUFFICES ASSUME NEW p \in Procs, p \in renamed, p \notin renamed', st'[p].at = "state",
                    view'[p] # NoMetadata, Lease!SameAuthority(view[p], st[p].metadata)
             PROVE  Lease!SameAuthority(view'[p], st'[p].metadata)
  BY DEF Revokes
<1>0. st'[p] # Absent
  BY NoState DEF IsState
<1>1. CASE Commit(p)
  <2>1. pc[p] \in Running \cup {"create"}
    BY DEF TrustInv, Mine, Locked
  <2>2. /\ st'[p] = IF pc[p] = "create" THEN Absent ELSE Goal(p)
        /\ view'[p] = Invalidated(p)
    BY <1>1 DEF Commit, TrustInv, TrustTypes
  <2>3. pc[p] \in Running /\ st'[p] = Goal(p)
    BY <1>0, <2>1, <2>2 DEF Running, Stages
  <2> QED BY <1>1, <2>2, <2>3, CommitRevokes DEF SameAuthority
<1>2. ASSUME NEW q \in Procs, Commit(q), q # p PROVE FALSE
  BY <1>2 DEF Commit
<1>3. ASSUME NEW q \in Procs, SaveFails(q) \/ Fails(q) \/ Finish(q) PROVE FALSE
  <2>1. renamed' = renamed \ {q} /\ st' = [st EXCEPT ![q] = Absent]
    BY <1>3 DEF SaveFails, Fails, Finish, Over
  <2> QED BY <1>0, <2>1 DEF TrustInv, TrustTypes
<1>4. ASSUME NEW q \in Procs, Ends(q) PROVE FALSE
  <2>1. renamed' = renamed \ {q} /\ st' = [st EXCEPT ![q] = Absent]
    BY <1>4 DEF Ends
  <2> QED BY <1>0, <2>1 DEF TrustInv, TrustTypes
<1>5. CASE PowerLoss
  BY <1>0, <1>5 DEF PowerLoss
<1>6. ASSUME NEW q \in Procs, Opening(q) PROVE FALSE
  BY <1>4, <1>6 DEF Opening, Mkdir, LockNew, OpenLoads, Read, Show, Configure, NoDiscovery
<1>7. ASSUME NEW q \in Procs, Refreshing(q) PROVE FALSE
  BY <1>3, <1>7 DEF Refreshing, Begin, FetchRoot, FetchTimestamp, FetchSnapshot, FetchTargets, Took,
                    FetchManifest, Refuses
<1>8. ASSUME NEW q \in Procs, Rename(q) PROVE FALSE
  BY <1>8 DEF Rename
<1>9. ASSUME NEW q \in Procs, FetchFails(q) \/ SaveFails(q) \/ Kill(q) PROVE FALSE
  BY <1>3, <1>4, <1>9 DEF FetchFails, Kill
<1>10. CASE PublishRoot \/ PublishTimestamp \/ Tick \/ UNCHANGED vars
  BY <1>10 DEF PublishRoot, PublishTimestamp, Tick, vars, procVars
<1> QED
  BY <1>1, <1>2, <1>5, <1>6, <1>7, <1>8, <1>9, <1>10 DEF Next, Proc, Saving

\* A process whose save replaces the authority its session was showing shows
\* nothing of it any more, whatever other processes did to the state before
\* (client.go, Refresh; session.go, OnInvalidate).
THEOREM OwnSaveAlwaysRevokes == Spec => OwnSaveRevokes
<1>1. TrustInv /\ [Next]_vars =>
        [\A p \in Procs :
           (p \in renamed \ renamed' /\ st'[p].at = "state" /\ view'[p] # NoMetadata) =>
             \/ Lease!SameAuthority(view'[p], st'[p].metadata)
             \/ ~Lease!SameAuthority(view[p], st[p].metadata)]_vars
  BY StepRevokes DEF Revokes
<1> QED BY <1>1, AlwaysTrust, PTL DEF Spec, OwnSaveRevokes

\* The roots a node routes to are those of the fresh view it serves
\* (session.go, notifyView before the view is set).
THEOREM PinsAlwaysCoverView == Spec => []PinsCoverView
<1>1. TrustInv => PinsCoverView
  BY DEF TrustInv, Mine, Pinned, PinsCoverView
<1> QED BY <1>1, AlwaysTrust, PTL

-----------------------------------------------------------------------------
(* Refinement: the durable file is the trust state.                        *)

LEMMA DurableStep ==
  ASSUME TrustInv, [Next]_vars
  PROVE  [Lease!Next]_durable
<1>1. ASSUME NEW p \in Procs, Commit(p)
      PROVE  Lease!Next
  <2>1. p \in renamed /\ durable' = visible
    BY <1>1 DEF Commit
  <2>2. pc[p] \in Running \cup {"create"}
    BY <2>1 DEF TrustInv, Mine, Locked
  <2>3. IsState(visible) /\ Good(visible)
    <3>1. CASE pc[p] = "create"
      BY <2>1, <3>1, InitialGood DEF TrustInv, Mine, Placed
    <3>2. CASE pc[p] \in Running
      BY <3>2, FileOrState DEF TrustInv, FilesKept, Mine, Placed, Open
    <3> QED BY <2>2, <3>1, <3>2
  <2>4. durable' \in Lease!States /\ Lease!Sound(durable')
    BY <2>1, <2>3 DEF Good, States
  <2>5. CASE durable.at = "state"
    BY <2>1, <2>4, <2>5 DEF Lease!Next, Lease!Advance, TrustInv, FilesKept, IsState, NotNewer
  <2>6. CASE durable.at # "state"
    <3>1. durable'.metadata.root >= 1
      <4>1. visible.metadata \in Metadata /\ visible.metadata.root # 0
        BY <2>3, StateFields DEF Good, Kept
      <4> QED BY <2>1, <4>1, MetadataFields
    <3> QED BY <2>4, <2>6, <3>1 DEF Lease!Next, Lease!Begin
  <2> QED BY <2>5, <2>6
<1>2. ASSUME NEW p \in Procs, LockNew(p)
      PROVE  [Lease!Next]_durable
  BY <1>2 DEF LockNew, Lease!Next, Lease!Create, Absent, Empty
<1>3. ASSUME NEW p \in Procs, Opening(p), ~LockNew(p)
      PROVE  durable' = durable
  BY <1>3 DEF Opening, Mkdir, OpenLoads, Read, Show, Configure, NoDiscovery, diskVars
<1>4. ASSUME NEW p \in Procs, Refreshing(p)
      PROVE  durable' = durable
  BY <1>4 DEF Refreshing, Begin, FetchRoot, FetchTimestamp, FetchSnapshot, FetchTargets, Took,
              FetchManifest, Refuses, Fails, Finish, diskVars
<1>5. ASSUME NEW p \in Procs, Rename(p) \/ FetchFails(p) \/ SaveFails(p) \/ Kill(p)
      PROVE  durable' = durable
  BY <1>5 DEF Rename, FetchFails, Fails, SaveFails, Kill, diskVars
<1>6. CASE PublishRoot \/ PublishTimestamp \/ Tick \/ PowerLoss \/ UNCHANGED vars
  BY <1>6 DEF PublishRoot, PublishTimestamp, Tick, PowerLoss, vars, diskVars
<1> QED
  BY <1>1, <1>2, <1>3, <1>4, <1>5, <1>6 DEF Next, Proc, Saving

\* The state directory implements the trust state that changes in one step:
\* through kills and power losses at any point of a save, its versions only
\* go forward and what it has accepted is whole (state.go; client.go).
THEOREM DirectoryImplements == Spec => Implements
<1>1. Init => Lease!Init
  BY DEF Init, Lease!Init, Absent
<1>2. TrustInv /\ [Next]_vars => [Lease!Next]_durable
  BY DurableStep
<1> QED
  BY <1>1, <1>2, AlwaysTrust, PTL DEF Spec, Implements, Lease!Spec
=============================================================================
