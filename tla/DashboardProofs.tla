--------------------------- MODULE DashboardProofs --------------------------
(***************************************************************************)
(* Proof that no walk and no restart loses a graph, except where the file  *)
(* could not be loaded, for any lists, seeds and limits.                   *)
(***************************************************************************)
EXTENDS Dashboard, TLAPS

Snapshots == [graph : {"none", "some"}, stale : BOOLEAN, disk : BOOLEAN]

SnapshotTypes == file \in Snapshots /\ snapshot \in Snapshots

\* A process that is down serves nothing and is in no cycle.
DownIsEmpty == ~running => snapshot = NoSnapshot /\ cycle = Between

\* A process that could load the file serves the graph it holds: a cycle that
\* saves a snapshot saves at least as much as the file holds.
DiskServed == running /\ ~unread /\ file.graph = "some" => snapshot.graph = "some"

GraphInv == SnapshotTypes /\ DownIsEmpty /\ DiskServed

\* What a boot loads has the graph of the file (LoadSnapshot).
LEMMA LoadedGraph ==
  ASSUME file \in Snapshots
  PROVE  Loaded \in Snapshots /\ Loaded.graph = file.graph
  BY DEF Loaded, Snapshots, NoSnapshot

\* What a cycle builds is a snapshot, with a graph if the walk found a node
\* (Builder.Build).
LEMMA BuiltGraph == Built \in Snapshots /\ (cycle.found # "none" => Built.graph = "some")
  BY DEF Built, Snapshots

\* Steps that touch neither the snapshot, nor the file, nor the cycle of the
\* process preserve the invariant.
LEMMA QuietSteps ==
  ASSUME GraphInv, UNCHANGED <<file, running, snapshot, unread, cycle>>
  PROVE  GraphInv'
  BY DEF GraphInv, SnapshotTypes, DownIsEmpty, DiskServed

\* Steps of the cycle before it publishes.
LEMMA CycleSteps ==
  ASSUME GraphInv, running, UNCHANGED <<file, running, snapshot, unread>>
  PROVE  GraphInv'
  BY DEF GraphInv, SnapshotTypes, DownIsEmpty, DiskServed

\* A cycle that has begun belongs to a process that runs.
LEMMA InCycle ==
  ASSUME GraphInv, cycle.pc # "idle"
  PROVE  running
  BY DEF GraphInv, DownIsEmpty, Between

\* Boot keeps the graph of the file, or remembers that it could not load it.
LEMMA BootSteps ==
  ASSUME GraphInv, NEW l, NEW n, Boots(l, n)
  PROVE  /\ GraphInv'
         /\ snapshot.graph = "none" /\ file' = file
  <1>1. ~running /\ running' /\ file' = file
    BY DEF Boots
  <1>2. snapshot.graph = "none"
    BY <1>1 DEF GraphInv, DownIsEmpty, NoSnapshot
  <1>3. CASE ~unread' /\ snapshot' = Loaded
    <2>1. Loaded \in Snapshots /\ Loaded.graph = file.graph
      BY LoadedGraph DEF GraphInv, SnapshotTypes
    <2> QED BY <1>1, <1>2, <1>3, <2>1 DEF GraphInv, SnapshotTypes, DownIsEmpty, DiskServed
  <1>4. CASE unread' /\ snapshot' = NoSnapshot
    <2>1. NoSnapshot \in Snapshots
      BY DEF NoSnapshot, Snapshots
    <2> QED BY <1>1, <1>2, <1>4, <2>1 DEF GraphInv, SnapshotTypes, DownIsEmpty, DiskServed
  <1> QED BY <1>3, <1>4 DEF Boots

\* Publishing keeps a graph that is served (cycle).
LEMMA PublishStep ==
  ASSUME GraphInv, Publish
  PROVE  GraphInv' /\ (snapshot.graph = "some" => snapshot'.graph = "some") /\ file' = file
  <1>1. running
    BY InCycle DEF Publish
  <1>2. running' = running /\ file' = file /\ unread' = unread
    BY DEF Publish
  <1>3. CASE KeepsPrior
    <2>1. snapshot' = [snapshot EXCEPT !.stale = TRUE]
      BY <1>3 DEF Publish
    <2>2. snapshot' \in Snapshots /\ snapshot'.graph = snapshot.graph
      BY <2>1 DEF GraphInv, SnapshotTypes, Snapshots
    <2> QED BY <1>1, <1>2, <2>2 DEF GraphInv, SnapshotTypes, DownIsEmpty, DiskServed
  <1>4. CASE ~KeepsPrior
    <2>1. snapshot' = Built
      BY <1>4 DEF Publish
    <2>2. snapshot'.graph = "some" \/ snapshot.graph # "some"
      BY <1>4, <2>1, BuiltGraph DEF KeepsPrior
    <2> QED BY <1>1, <1>2, <2>1, <2>2, BuiltGraph DEF GraphInv, SnapshotTypes, DownIsEmpty, DiskServed
  <1> QED BY <1>3, <1>4

\* The file takes over what is served, which has a graph if the file has one
\* that could be loaded (SaveSnapshot).
LEMMA SaveStep ==
  ASSUME GraphInv, SaveSnapshot
  PROVE  GraphInv' /\ snapshot' = snapshot /\ (file.graph = "some" /\ ~unread => file'.graph = "some")
  <1>1. running
    BY InCycle DEF SaveSnapshot
  <1>2. UNCHANGED <<running, snapshot, unread>> /\ (file' = snapshot \/ file' = file)
    BY DEF SaveSnapshot
  <1> QED BY <1>1, <1>2 DEF GraphInv, SnapshotTypes, DownIsEmpty, DiskServed

\* A killed process serves nothing; the file stays.
LEMMA KillStep ==
  ASSUME GraphInv, Kill
  PROVE  GraphInv' /\ ~running' /\ file' = file
  <1>1. running' = FALSE /\ snapshot' = NoSnapshot /\ cycle' = Between /\ file' = file
    BY DEF Kill
  <1>2. NoSnapshot \in Snapshots
    BY DEF NoSnapshot, Snapshots
  <1> QED BY <1>1, <1>2 DEF GraphInv, SnapshotTypes, DownIsEmpty, DiskServed

\* What a step does to the graph that is served and to the one on disk.
KeepsGraph ==
  /\ snapshot.graph = "some" /\ running' => snapshot'.graph = "some"
  /\ file.graph = "some" /\ ~unread => file'.graph = "some"

\* Every step of the system keeps the invariant and the graph.
LEMMA StepKeeps ==
  ASSUME GraphInv, [Next]_vars
  PROVE  GraphInv' /\ KeepsGraph
  <1>1. CASE BootFromCache
    BY <1>1, BootSteps DEF BootFromCache, KeepsGraph
  <1>2. CASE BootFromDNS
    BY <1>2, BootSteps DEF BootFromDNS, KeepsGraph
  <1>3. CASE BootFromSeeds
    BY <1>3, BootSteps DEF BootFromSeeds, KeepsGraph
  <1>4. CASE Poll
    BY <1>4, CycleSteps DEF Poll, KeepsGraph
  <1>5. CASE Hup
    BY <1>5, CycleSteps DEF Hup, KeepsGraph
  <1>6. CASE Walk
    <2>1. running
      BY <1>6, InCycle DEF Walk
    <2> QED BY <1>6, <2>1, CycleSteps DEF Walk, KeepsGraph
  <1>7. CASE Count
    <2>1. running
      BY <1>7, InCycle DEF Count
    <2> QED BY <1>7, <2>1, CycleSteps DEF Count, KeepsGraph
  <1>8. CASE Publish
    BY <1>8, PublishStep DEF KeepsGraph
  <1>9. CASE SaveSnapshot
    BY <1>9, SaveStep DEF KeepsGraph
  <1>10. CASE Timer \/ Refresh
    <2>1. UNCHANGED <<file, running, snapshot, unread, cycle>>
      BY <1>10 DEF Timer, Refresh, Triggered, Fetch, FetchFails, SaveCache, ApplyRoots, MarkRefreshed, Still
    <2> QED BY <2>1, QuietSteps DEF KeepsGraph
  <1>11. CASE SignalHUP \/ PublishList \/ Expire \/ NodeChanges
    <2>1. UNCHANGED <<file, running, snapshot, unread, cycle>>
      BY <1>11 DEF SignalHUP, PublishList, Expire, NodeChanges
    <2> QED BY <2>1, QuietSteps DEF KeepsGraph
  <1>12. CASE Kill
    BY <1>12, KillStep DEF KeepsGraph
  <1>13. CASE UNCHANGED vars
    <2>1. UNCHANGED <<file, running, snapshot, unread, cycle>>
      BY <1>13 DEF vars
    <2> QED BY <2>1, QuietSteps DEF KeepsGraph
  <1> QED BY <1>1, <1>2, <1>3, <1>4, <1>5, <1>6, <1>7, <1>8, <1>9, <1>10, <1>11, <1>12, <1>13
          DEF Next, Boot, Cycle, World

\* A dashboard that has not started satisfies the invariant.
LEMMA InitHolds == Init => GraphInv
  BY DEF Init, GraphInv, SnapshotTypes, Snapshots, DownIsEmpty, DiskServed, NoSnapshot, Between

\* No walk, however it ends, and no restart replaces a graph that is served, or
\* one in a file the process could load, by an empty one (Orchestrator.cycle,
\* Boot).
THEOREM GraphNeverLost == Spec => GraphKept
  <1>1. GraphInv /\ [Next]_vars => GraphInv'
    BY StepKeeps
  <1>2. GraphInv /\ [Next]_vars =>
          [/\ snapshot.graph = "some" /\ running' => snapshot'.graph = "some"
           /\ file.graph = "some" /\ ~unread => file'.graph = "some"]_vars
    BY StepKeeps DEF KeepsGraph
  <1> QED BY <1>1, <1>2, InitHolds, PTL DEF Spec, GraphKept
=============================================================================
