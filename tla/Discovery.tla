----------------------------- MODULE Discovery ------------------------------
(***************************************************************************)
(* Public discovery: the durable TUF client (internal/trust/bootstrap) and *)
(* the session a node serves its roots from (internal/discovery), with the *)
(* handler cmd/server installs.  Several processes of one account may      *)
(* share the state directory; a file lock serialises them.                 *)
(*                                                                         *)
(* A file has two values: what is visible now, and what is durable, which  *)
(* is what a power loss leaves.  A rename changes the first, syncing the   *)
(* directory the second.  The repository is external: it uploads a new     *)
(* root before the timestamp that needs it, and a cache may answer with an *)
(* older timestamp.  go-tuf is external: it accepts, role by role, what is *)
(* signed under the root at hand, not older than what it has, not expired. *)
(***************************************************************************)
EXTENDS Integers, FiniteSets

CONSTANTS
  Procs,     \* processes that share the state directory
  Last,      \* bound: releases the repository publishes
  Targets,   \* Targets[n]: the targets version of release n
  RootOf,    \* RootOf[n]: the root version of release n
  Online,    \* Online[r]: the online key of root version r
  Deadline,  \* Deadline[n]: when the first of release n's roles expires
  MaxClock,  \* bound: the clock
  MaxFaults  \* bound: failed downloads and writes, stale answers, crashes

Releases == 1 .. Last

ASSUME DiscoveryAssumption ==
  /\ Last \in Nat \ {0} /\ MaxClock \in Nat /\ MaxFaults \in Nat
  /\ Targets \in [Releases -> Releases] /\ RootOf \in [Releases -> Releases]
  /\ \A m, n \in Releases : m <= n => Targets[m] <= Targets[n] /\ RootOf[m] <= RootOf[n]
  /\ RootOf[1] = 1
  /\ Deadline \in [Releases -> Nat]
  /\ "free" \notin Procs

VARIABLES
  repoRoot, repoTimestamp,  \* the newest root and the timestamp being served
  clock,
  visible, durable,         \* the state directory: absent, empty or a state
  lock,                     \* the process that holds the file lock, or "free"
  pc,                       \* pc[p]: where p stands
  renamed,                  \* processes that have renamed and not yet synced
  st,                       \* st[p]: the state p has loaded or saved last
  work,                     \* work[p]: the metadata in the scratch directory; between two
                            \* refreshes, a view on its way to the session
  view,                     \* view[p]: the session's view, or NoMetadata
  bindings,                 \* bindings[p]: the targets version of the pinned roots, 0 for no handler
  faults

repoVars == <<repoRoot, repoTimestamp>>
diskVars == <<visible, durable>>
procVars == <<pc, renamed, st, work, view, bindings>>
vars == <<repoVars, clock, diskVars, lock, procVars, faults>>

Lease == INSTANCE TrustLease WITH trusted <- durable

Absent == Lease!Absent
Empty == Lease!Empty
NoMetadata == Lease!NoMetadata

InitialState == [at |-> "state", metadata |-> [NoMetadata EXCEPT !.root = 1], accepted |-> NoMetadata]

Stages == {"root", "timestamp", "snapshot", "targets", "manifest"}

Fresh(m) == m # NoMetadata /\ clock < Deadline[m.timestamp]

LockIgnored == TRUE   \* mutant: the lock is not waited for
LockFree == lock = "free"

Fault == faults < MaxFaults /\ faults' = faults + 1
Go(p, stage) == pc' = [pc EXCEPT ![p] = stage]

-----------------------------------------------------------------------------
(* save: the pending file is renamed over the state, then the directory is *)
(* synced.  What is saved follows from why.                                *)

ForgetsProgress(p) == [st[p] EXCEPT !.accepted = NoMetadata]   \* mutant: the new metadata is left out

\* checkpointMetadata: progress withdraws a manifest of another authority.
Checkpointed(p) ==
  [at |-> "state", metadata |-> work[p],
   accepted |-> IF Lease!SameAuthority(work[p], st[p].metadata) THEN st[p].accepted ELSE NoMetadata]

Goal(p) ==
  CASE pc[p] = "create" -> InitialState
    [] pc[p] = "accept" -> [st[p] EXCEPT !.accepted = st[p].metadata]
    [] OTHER            -> Checkpointed(p)

\* The scratch directory holds something the state does not: checkpoint saves it.
Behind(p) == pc[p] \in Stages /\ work[p] # st[p].metadata

Saves(p) == p \notin renamed /\ (pc[p] \in {"create", "accept"} \/ Behind(p))

Rename(p) ==
  /\ Saves(p)
  /\ visible' = Goal(p)
  /\ renamed' = renamed \cup {p}
  /\ UNCHANGED <<repoVars, clock, durable, lock, pc, st, work, view, bindings, faults>>

KeepsView(p) == view[p]   \* mutant: OnInvalidate does nothing

\* OnInvalidate, when the save has withdrawn the accepted manifest.
Invalidated(p) ==
  IF st[p].at = "state" /\ st[p].accepted # NoMetadata /\ Goal(p).accepted = NoMetadata
  THEN NoMetadata ELSE view[p]

AfterSave(p) == CASE pc[p] = "create" -> "read" [] pc[p] = "accept" -> "accepted" [] OTHER -> pc[p]

Commit(p) ==
  /\ p \in renamed
  /\ durable' = visible
  /\ st' = [st EXCEPT ![p] = IF pc[p] = "create" THEN Absent ELSE Goal(p)]
  /\ view' = [view EXCEPT ![p] = Invalidated(p)]
  /\ renamed' = renamed \ {p}
  /\ Go(p, AfterSave(p))
  /\ lock' = IF pc[p] = "create" THEN "free" ELSE lock
  /\ UNCHANGED <<repoVars, clock, visible, work, bindings, faults>>

\* The refresh is over, or the creation of the state.  What it had loaded is
\* gone; v is the view it returns.
Over(p, stage, v) ==
  /\ lock' = "free"
  /\ Go(p, stage)
  /\ renamed' = renamed \ {p}
  /\ st' = [st EXCEPT ![p] = Absent]
  /\ work' = [work EXCEPT ![p] = v]

\* The write, the rename or the sync fails; nothing more is saved.
SaveFails(p) ==
  /\ Saves(p) \/ p \in renamed
  /\ Fault
  /\ Over(p, IF pc[p] = "create" THEN "down" ELSE "reread", NoMetadata)
  /\ UNCHANGED <<repoVars, clock, diskVars, view, bindings>>

-----------------------------------------------------------------------------
(* Opening: New, then Session.Open.                                        *)

\* openStore makes the directory; only the process that made it creates state.
Mkdir(p) ==
  /\ pc[p] = "down"
  /\ IF visible = Absent THEN visible' = Empty /\ Go(p, "made")
                         ELSE UNCHANGED visible /\ Go(p, "open")
  /\ UNCHANGED <<repoVars, clock, durable, lock, renamed, st, work, view, bindings, faults>>

\* It locks, syncs the parent and starts from the bundled root.
LockNew(p) ==
  /\ pc[p] = "made" /\ LockFree
  /\ lock' = p
  /\ durable' = IF durable = Absent THEN Empty ELSE durable
  /\ Go(p, "create")
  /\ UNCHANGED <<repoVars, clock, visible, renamed, st, work, view, bindings, faults>>

IsState(s) == s.at = "state"

\* An existing directory must hold a state: otherwise ErrState.
OpenLoads(p) ==
  /\ pc[p] = "open" /\ LockFree
  /\ Go(p, IF IsState(visible) THEN "read" ELSE "down")
  /\ UNCHANGED <<repoVars, clock, diskVars, lock, renamed, st, work, view, bindings, faults>>

SetsViewOnly(p, v) ==   \* mutant: the handler is not called
  /\ view' = [view EXCEPT ![p] = v]
  /\ UNCHANGED bindings

\* notifyView under the session's mutex, then the view is set.
SetView(p, v) ==
  /\ view' = [view EXCEPT ![p] = v]
  /\ bindings' = IF bindings[p] # 0 /\ Fresh(v)
                 THEN [bindings EXCEPT ![p] = v.targets] ELSE bindings

\* Client.Current: the accepted manifest, if its authority is still the
\* state's and it has not expired.
Current ==
  LET a == visible.accepted
  IN IF Fresh(a) /\ Lease!SameAuthority(a, visible.metadata) THEN a ELSE NoMetadata

\* Session.Open, and Session.Refresh when it has failed, read the state.
Read(p) ==
  /\ pc[p] \in {"read", "reread"} /\ LockFree
  /\ \E v \in {Current, NoMetadata} :
       /\ work' = [work EXCEPT ![p] = v]
       /\ IF v = Current THEN UNCHANGED faults ELSE Fault   \* the lock was not had in time
  /\ Go(p, IF pc[p] = "read" THEN "opened" ELSE "refreshed")
  /\ UNCHANGED <<repoVars, clock, diskVars, lock, renamed, st, view, bindings>>

\* The session takes the view; the lock has been released by now, and another
\* process may have replaced what the view was read from.
Show(p) ==
  /\ pc[p] \in {"opened", "refreshed"}
  /\ SetView(p, work[p])
  /\ work' = [work EXCEPT ![p] = NoMetadata]
  /\ Go(p, IF pc[p] = "refreshed" /\ bindings[p] = 0 THEN "configure" ELSE "idle")
  /\ UNCHANGED <<repoVars, clock, diskVars, lock, renamed, st, faults>>

\* The process ends, whatever it was doing: the system releases its lock.
Ends(p) ==
  /\ lock' = IF lock = p THEN "free" ELSE lock
  /\ Go(p, "down")
  /\ renamed' = renamed \ {p}
  /\ st' = [st EXCEPT ![p] = Absent]
  /\ work' = [work EXCEPT ![p] = NoMetadata]
  /\ view' = [view EXCEPT ![p] = NoMetadata]
  /\ bindings' = [bindings EXCEPT ![p] = 0]

\* resolveOmegaBootstrap after the first refresh, then the view handler.
Configure(p) ==
  /\ pc[p] = "configure" /\ Fresh(view[p])
  /\ bindings' = [bindings EXCEPT ![p] = view[p].targets]
  /\ Go(p, "idle")
  /\ UNCHANGED <<repoVars, clock, diskVars, lock, renamed, st, work, view, faults>>

NoDiscovery(p) ==
  /\ pc[p] = "configure" /\ ~Fresh(view[p])
  /\ Ends(p)
  /\ UNCHANGED <<repoVars, clock, diskVars, faults>>

-----------------------------------------------------------------------------
(* Client.Refresh: the lock is held from here to the end.                  *)

ScratchRootOnly == InitialState.metadata   \* mutant: the cached metadata is not copied
Scratch == visible.metadata

Begin(p) ==
  /\ pc[p] = "idle" /\ LockFree
  /\ lock' = p
  /\ st' = [st EXCEPT ![p] = visible]
  /\ work' = [work EXCEPT ![p] = Scratch]
  /\ Go(p, "root")
  /\ UNCHANGED <<repoVars, clock, diskVars, renamed, view, bindings, faults>>

\* A stage whose progress is in the state; the next download may start.
Ready(p, stage) == pc[p] = stage /\ p \notin renamed /\ ~Behind(p)

Took(p, role, version, stage) ==
  /\ work' = [work EXCEPT ![p] = [@ EXCEPT ![role] = version]]
  /\ Go(p, stage)
  /\ UNCHANGED <<repoVars, clock, diskVars, lock, renamed, st, view, bindings>>

\* One root after the other until there is none (a 404).
HasNextRoot(p) == work[p].root < repoRoot

FetchRoot(p) ==
  /\ Ready(p, "root")
  /\ IF HasNextRoot(p) THEN Took(p, "root", work[p].root + 1, "root")
                       ELSE Took(p, "root", work[p].root, "timestamp")
  /\ UNCHANGED faults

Accepts(p, n) ==
  /\ Online[RootOf[n]] = Online[work[p].root]
  /\ n >= work[p].timestamp
  /\ clock <= Deadline[n]

\* The current timestamp or, from a cache, an older one.
FetchTimestamp(p) ==
  /\ Ready(p, "timestamp")
  /\ \E n \in 1 .. repoTimestamp :
       /\ Accepts(p, n)
       /\ IF n = repoTimestamp THEN UNCHANGED faults ELSE Fault
       /\ Took(p, "timestamp", n, "snapshot")

\* Downloaded only when the one at hand is not what the timestamp names.
FetchSnapshot(p) ==
  /\ pc[p] = "snapshot"
  /\ Ready(p, "snapshot") \/ work[p].snapshot = work[p].timestamp
  /\ p \notin renamed
  /\ Took(p, "snapshot", work[p].timestamp, "targets")
  /\ UNCHANGED faults

FetchTargets(p) ==
  /\ pc[p] = "targets"
  /\ Ready(p, "targets") \/ work[p].targets = Targets[work[p].snapshot]
  /\ p \notin renamed
  /\ Took(p, "targets", Targets[work[p].snapshot], "manifest")
  /\ UNCHANGED faults

\* The manifest is downloaded and verified with all its metadata.
FetchManifest(p) ==
  /\ Ready(p, "manifest") /\ Fresh(work[p])
  /\ Go(p, "accept")
  /\ UNCHANGED <<repoVars, clock, diskVars, lock, renamed, st, work, view, bindings, faults>>

Fails(p) == Over(p, "reread", NoMetadata) /\ UNCHANGED <<repoVars, clock, diskVars, view, bindings>>

\* What the repository serves cannot be accepted.
Refuses(p) ==
  /\ \/ Ready(p, "timestamp") /\ ~Accepts(p, repoTimestamp)
     \/ Ready(p, "manifest") /\ ~Fresh(work[p])
  /\ Fails(p) /\ UNCHANGED faults

\* The download fails, the deadline of the refresh included.
FetchFails(p) == (\E s \in Stages : Ready(p, s)) /\ Fails(p) /\ Fault

\* Refresh returns the new view, and releases the lock before the session has it.
Finish(p) ==
  /\ pc[p] = "accepted"
  /\ Over(p, "refreshed", st[p].accepted)
  /\ UNCHANGED <<repoVars, clock, diskVars, view, bindings, faults>>

-----------------------------------------------------------------------------
(* The repository, time and crashes.                                       *)

PublishRoot ==
  /\ repoTimestamp < Last /\ repoRoot < RootOf[repoTimestamp + 1]
  /\ repoRoot' = repoRoot + 1
  /\ UNCHANGED <<repoTimestamp, clock, diskVars, lock, procVars, faults>>

PublishTimestamp ==
  /\ repoTimestamp < Last /\ repoRoot = RootOf[repoTimestamp + 1]
  /\ repoTimestamp' = repoTimestamp + 1
  /\ UNCHANGED <<repoRoot, clock, diskVars, lock, procVars, faults>>

\* The next release is signed to last beyond the time it is published at.
Tick ==
  /\ clock < MaxClock
  /\ repoTimestamp < Last => clock + 1 < Deadline[repoTimestamp + 1]
  /\ clock' = clock + 1
  /\ UNCHANGED <<repoVars, diskVars, lock, procVars, faults>>

Kill(p) ==
  /\ pc[p] # "down" /\ Fault
  /\ Ends(p)
  /\ UNCHANGED <<repoVars, clock, diskVars>>

\* Every process ends; the directory is what had been synced.
PowerLoss ==
  /\ Fault
  /\ visible' = durable
  /\ lock' = "free"
  /\ pc' = [p \in Procs |-> "down"]
  /\ renamed' = {}
  /\ st' = [p \in Procs |-> Absent]
  /\ work' = [p \in Procs |-> NoMetadata]
  /\ view' = [p \in Procs |-> NoMetadata]
  /\ bindings' = [p \in Procs |-> 0]
  /\ UNCHANGED <<repoVars, clock, durable>>

-----------------------------------------------------------------------------
Init ==
  /\ repoRoot = 1 /\ repoTimestamp = 1 /\ clock = 0
  /\ visible = Absent /\ durable = Absent /\ lock = "free"
  /\ pc = [p \in Procs |-> "down"] /\ renamed = {}
  /\ st = [p \in Procs |-> Absent] /\ work = [p \in Procs |-> NoMetadata]
  /\ view = [p \in Procs |-> NoMetadata] /\ bindings = [p \in Procs |-> 0]
  /\ faults = 0

Opening(p) == Mkdir(p) \/ LockNew(p) \/ OpenLoads(p) \/ Read(p) \/ Show(p) \/ Configure(p) \/ NoDiscovery(p)
Refreshing(p) ==
  \/ Begin(p) \/ FetchRoot(p) \/ FetchTimestamp(p) \/ FetchSnapshot(p) \/ FetchTargets(p)
  \/ FetchManifest(p) \/ Refuses(p) \/ Finish(p)
Saving(p) == Rename(p) \/ Commit(p)
Proc(p) == Opening(p) \/ Refreshing(p) \/ Saving(p)

Next ==
  \/ \E p \in Procs : Proc(p) \/ FetchFails(p) \/ SaveFails(p) \/ Kill(p)
  \/ PublishRoot \/ PublishTimestamp \/ Tick \/ PowerLoss

Spec == Init /\ [][Next]_vars

\* Every process runs on: its operations end (time-outs and the two minutes
\* of a refresh bound them), Run starts the next refresh, and a process that
\* ended is started again.  The lock is polled: strong fairness, as each
\* holder lets it go.  The repository completes a publication.
Fairness ==
  /\ \A p \in Procs : SF_vars(Proc(p))
  /\ WF_vars(PublishRoot \/ PublishTimestamp)
LiveSpec == Spec /\ Fairness

-----------------------------------------------------------------------------
(* Properties.                                                             *)

\* A save that replaces the authority ends the view of the process that saves,
\* before it downloads anything more: after a save its session shows a view of
\* the authority saved, or one that was of another authority before, because
\* another process had replaced it (client.go, Refresh; session.go,
\* OnInvalidate).
OwnSaveRevokes ==
  [][\A p \in Procs :
       (p \in renamed \ renamed' /\ st'[p].at = "state" /\ view'[p] # NoMetadata) =>
         \/ Lease!SameAuthority(view'[p], st'[p].metadata)
         \/ ~Lease!SameAuthority(view[p], st[p].metadata)]_vars

\* The roots a node routes to by their signed origin are those of the view
\* it serves: no view is visible before its bindings are in place.
PinsCoverView ==
  \A p \in Procs : bindings[p] # 0 /\ Fresh(view[p]) => bindings[p] = view[p].targets

\* Two processes never write the state at once, and the one that writes has
\* read what it replaces: nothing another process saved is lost, and no session
\* shows what is ahead of the state directory, so a process that is killed and
\* started again shows nothing older (state.go, the lock; client.go, save).
NothingLost ==
  \A p \in Procs :
    /\ p \notin renamed /\ st[p].at = "state" => visible = st[p]
    /\ view[p] # NoMetadata => visible.at = "state" /\ Lease!NotNewer(view[p], visible.metadata)

\* The state directory implements the one-step trust state: versions only go
\* forward, across kills and power losses at any point of a save.
Implements == Lease!Spec

\* Every node ends with the view of the last release, unless a crash left a
\* directory without state, which needs explicit recovery.
ServesLatest ==
  <>[](visible = Empty \/ \A p \in Procs : view[p].timestamp = Last /\ view[p].root = RootOf[Last])
=============================================================================
