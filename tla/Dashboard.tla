----------------------------- MODULE Dashboard ------------------------------
(***************************************************************************)
(* The dashboard (internal/dashboard, cmd/dashboard) over the signed root  *)
(* list it trusts (internal/trust): the orchestrator boots from the cached *)
(* list, from DNS or from seeds, walks the network in cycles and publishes *)
(* a snapshot; a refresher fetches newer lists when its timer or a trigger *)
(* says so.                                                                *)
(*                                                                         *)
(* Signed lists are numbered; DNS serves the newest, older ones expire in  *)
(* order.  The roots, their source and the list they come from are written *)
(* together under rootsMu: using stands for the three, with 0 for seeds.   *)
(* Delays are not measured: a timer may fire at any time.  A walk (module  *)
(* TopologyWalk) is one step here: it ends with a graph or, when its       *)
(* deadline comes first, perhaps without, and reaches a root only if one   *)
(* answers.  Regions, node metrics and the HTTP surface are left out.      *)
(***************************************************************************)
EXTENDS Integers, FiniteSets

CONSTANTS
  Addrs,      \* addresses, "host:port"
  ListRoots,  \* ListRoots[l]: the addresses in signed list l
  SeedAddresses,
  MaxRootsUnreachableCycles,
  MaxFaults   \* bound: failed lookups and writes, nodes that go down or up, kills

ASSUME DashboardAssumption ==
  /\ MaxRootsUnreachableCycles \in Nat \ {0} /\ MaxFaults \in Nat /\ SeedAddresses \subseteq Addrs
  /\ \A l \in DOMAIN ListRoots : ListRoots[l] # {} /\ ListRoots[l] \subseteq Addrs

VARIABLES
  answering,           \* addresses that answer
  published, expired,  \* the list DNS serves; the newest list that has expired
  cache,               \* root-list.json: a list, or 0
  file,                \* snapshot.json
  running,             \* the process is up
  using,               \* roots, source and currentList
  misses,              \* rootsConsecutiveMisses
  failed,              \* omegaRefreshFailedFlag
  snapshot,            \* what /api/snapshot serves
  unread,              \* history: this process could not load snapshot.json
  refresher,           \* its pc and the list it fetched
  trigger, hup,        \* triggerCh and hupCh hold a signal
  cycle,               \* pc of the cycle, the list it read, the result of its walk
  faults

vars == <<answering, published, expired, cache, file, running, using, misses, failed, snapshot, unread, refresher, trigger, hup, cycle, faults>>

Lists == DOMAIN ListRoots
Seeds == 0
NoSnapshot == [graph |-> "none", stale |-> TRUE, disk |-> FALSE]
Off == [pc |-> "off", list |-> 0]
Between == [pc |-> "idle"]

Roots(l) == IF l = Seeds THEN SeedAddresses ELSE ListRoots[l]
\* SignedList.Verify.
Verified(l) == l > expired

Faults(n) == faults + n <= MaxFaults /\ faults' = faults + n
Fault == Faults(1)

-----------------------------------------------------------------------------
(* Boot and Run.                                                            *)

\* LoadSnapshot marks what it loads.
Loaded == IF file = NoSnapshot THEN NoSnapshot ELSE [file EXCEPT !.stale = TRUE, !.disk = TRUE]

\* Boot goes on without a snapshot when the file cannot be read or parsed, and
\* ends with the roots of l; n other things have failed on the way.  Run starts
\* the refresher unless these are seeds.
Boots(l, n) ==
  /\ ~running
  /\ \/ unread' = FALSE /\ snapshot' = Loaded /\ Faults(n)
     \/ unread' = TRUE /\ snapshot' = NoSnapshot /\ Faults(n + 1)
  /\ running' = TRUE /\ using' = l /\ misses' = 0 /\ failed' = FALSE
  /\ refresher' = IF l = Seeds THEN Off ELSE [pc |-> "sleep", list |-> l]
  /\ cycle' = [pc |-> "first"]
  /\ UNCHANGED <<answering, published, expired, file, trigger, hup>>

Trusted == cache # 0 /\ Verified(cache)

BootFromCache == Trusted /\ Boots(cache, 0) /\ UNCHANGED cache

\* A cached list that would do is passed over when LoadCache fails.
CacheUnread == IF Trusted THEN 1 ELSE 0

\* SaveCache may fail; the list is used all the same.
BootFromDNS ==
  /\ Verified(published)
  /\ \/ cache' = published /\ Boots(published, CacheUnread)
     \/ cache' = cache /\ Boots(published, CacheUnread + 1)

\* The lookup has failed.
BootFromSeeds == SeedAddresses # {} /\ Boots(Seeds, CacheUnread + 1) /\ UNCHANGED cache

-----------------------------------------------------------------------------
(* A poll cycle.                                                            *)

\* The cycle copies roots, source and list under the lock and walks from them.
BeginCycle == cycle' = [pc |-> "walk", using |-> using]

Poll ==
  /\ running /\ cycle.pc \in {"first", "idle"}
  /\ BeginCycle
  /\ UNCHANGED <<answering, published, expired, cache, file, running, using, misses, failed, snapshot, unread, refresher, trigger, hup, faults>>

\* SIGHUP: trigger a refresh, then poll.
Hup ==
  /\ running /\ cycle.pc = "idle" /\ hup
  /\ hup' = FALSE
  /\ trigger' = (trigger \/ refresher # Off)
  /\ BeginCycle
  /\ UNCHANGED <<answering, published, expired, cache, file, running, using, misses, failed, snapshot, unread, refresher, faults>>

\* Poller.Walk: what it found, and whether a root answered.
Walk ==
  /\ cycle.pc = "walk"
  /\ \E found \in {"none", "nodes", "roots"} :
       /\ found = "roots" => Roots(cycle.using) \cap answering # {}
       /\ cycle' = [pc |-> "count", using |-> cycle.using, found |-> found]
  /\ UNCHANGED <<answering, published, expired, cache, file, running, using, misses, failed, snapshot, unread, refresher, trigger, hup, faults>>

TriggersOnce(n) == n = MaxRootsUnreachableCycles   \* mutant: one trigger, no more
Degraded(n) == n >= MaxRootsUnreachableCycles

\* The misses are those of the roots in use now, which a refresh may have
\* replaced since the cycle read them.
Count ==
  LET n == IF cycle.found # "roots" THEN misses + 1 ELSE 0
  IN /\ cycle.pc = "count"
     /\ misses' = IF n > MaxRootsUnreachableCycles + 1 THEN misses ELSE n   \* bound of the counter
     /\ trigger' = (trigger \/ (Degraded(n) /\ cycle.using # Seeds /\ refresher # Off))
     /\ cycle' = [cycle EXCEPT !.pc = "publish"]
     /\ UNCHANGED <<answering, published, expired, cache, file, running, using, failed, snapshot, unread, refresher, hup, faults>>

Built == [graph |-> IF cycle.found = "none" THEN "none" ELSE "some", stale |-> cycle.found = "none", disk |-> FALSE]

NeverKeeps == FALSE   \* mutant: an empty graph is published as well
KeepsPrior == cycle.found = "none" /\ snapshot.graph = "some"

\* A walk without results keeps the graph that is served, as a stale one.
Publish ==
  /\ cycle.pc = "publish"
  /\ IF KeepsPrior
     THEN snapshot' = [snapshot EXCEPT !.stale = TRUE] /\ cycle' = Between
     ELSE snapshot' = Built /\ cycle' = [cycle EXCEPT !.pc = "save"]
  /\ UNCHANGED <<answering, published, expired, cache, file, running, using, misses, failed, unread, refresher, trigger, hup, faults>>

\* SaveSnapshot replaces the file or, when a step of it fails, leaves it.
SaveSnapshot ==
  /\ cycle.pc = "save"
  /\ cycle' = Between
  /\ \/ file' = snapshot /\ UNCHANGED faults
     \/ file' = file /\ Fault
  /\ UNCHANGED <<answering, published, expired, cache, running, using, misses, failed, snapshot, unread, refresher, trigger, hup>>

-----------------------------------------------------------------------------
(* The refresher.                                                           *)

Still == UNCHANGED <<answering, published, expired, file, running, snapshot, unread, hup, cycle>>

\* After a failure it waits for the backoff and then, as before a first try,
\* for the delay the list's lifetime gives.
Next0(pc) == IF pc = "sleep" THEN "fetch" ELSE "sleep"

Timer ==
  /\ refresher.pc \in {"sleep", "backoff"}
  /\ refresher' = [refresher EXCEPT !.pc = Next0(@)]
  /\ Still /\ UNCHANGED <<cache, using, misses, failed, trigger, faults>>

Triggered ==
  /\ refresher.pc \in {"sleep", "backoff"} /\ trigger
  /\ trigger' = FALSE
  /\ refresher' = [refresher EXCEPT !.pc = Next0(@)]
  /\ Still /\ UNCHANGED <<cache, using, misses, failed, faults>>

\* FetchSigned: two lookups, parse, verify.
Fetch ==
  /\ refresher.pc = "fetch" /\ Verified(published)
  /\ refresher' = [pc |-> "save", list |-> published]
  /\ Still /\ UNCHANGED <<cache, using, misses, failed, trigger, faults>>

FetchFails ==
  /\ refresher.pc = "fetch" /\ Fault
  /\ failed' = TRUE
  /\ refresher' = [refresher EXCEPT !.pc = "backoff"]
  /\ Still /\ UNCHANGED <<cache, using, misses, trigger>>

SaveCache ==
  /\ refresher.pc = "save"
  /\ refresher' = [refresher EXCEPT !.pc = "update"]
  /\ \/ cache' = refresher.list /\ UNCHANGED <<failed, faults>>
     \/ cache' = cache /\ failed' = TRUE /\ Fault
  /\ Still /\ UNCHANGED <<using, misses, trigger>>

\* onOmegaUpdate: applyRoots, then the flag.
ApplyRoots ==
  /\ refresher.pc = "update"
  /\ using' = refresher.list /\ misses' = 0
  /\ refresher' = [refresher EXCEPT !.pc = "mark"]
  /\ Still /\ UNCHANGED <<cache, failed, trigger, faults>>

MarkRefreshed ==
  /\ refresher.pc = "mark"
  /\ failed' = FALSE
  /\ refresher' = [refresher EXCEPT !.pc = "sleep"]
  /\ Still /\ UNCHANGED <<cache, using, misses, trigger, faults>>

-----------------------------------------------------------------------------
(* The world.                                                               *)

SignalHUP ==
  /\ running /\ ~hup /\ Fault
  /\ hup' = TRUE
  /\ UNCHANGED <<answering, published, expired, cache, file, running, using, misses, failed, snapshot, unread, refresher, trigger, cycle>>

PublishList ==
  /\ published + 1 \in Lists
  /\ published' = published + 1
  /\ UNCHANGED <<answering, expired, cache, file, running, using, misses, failed, snapshot, unread, refresher, trigger, hup, cycle, faults>>

Expire ==
  /\ expired + 1 < published
  /\ expired' = expired + 1
  /\ UNCHANGED <<answering, published, cache, file, running, using, misses, failed, snapshot, unread, refresher, trigger, hup, cycle, faults>>

NodeChanges ==
  /\ \E a \in Addrs : answering' = IF a \in answering THEN answering \ {a} ELSE answering \cup {a}
  /\ Fault
  /\ UNCHANGED <<published, expired, cache, file, running, using, misses, failed, snapshot, unread, refresher, trigger, hup, cycle>>

\* The process ends, at any step; what it wrote stays.
Kill ==
  /\ running /\ Fault
  /\ running' = FALSE /\ using' = 0 /\ misses' = 0 /\ failed' = FALSE /\ snapshot' = NoSnapshot
  /\ unread' = FALSE /\ refresher' = Off /\ trigger' = FALSE /\ hup' = FALSE /\ cycle' = Between
  /\ UNCHANGED <<answering, published, expired, cache, file>>

-----------------------------------------------------------------------------
Init ==
  /\ answering = Addrs
  /\ published = 1 /\ expired = 0 /\ cache = 0 /\ file = NoSnapshot
  /\ running = FALSE /\ using = 0 /\ misses = 0 /\ failed = FALSE /\ snapshot = NoSnapshot
  /\ unread = FALSE /\ refresher = Off /\ trigger = FALSE /\ hup = FALSE /\ cycle = Between /\ faults = 0

Boot == BootFromCache \/ BootFromDNS \/ BootFromSeeds
Cycle == Poll \/ Hup \/ Walk \/ Count \/ Publish \/ SaveSnapshot
Refresh == Triggered \/ Fetch \/ FetchFails \/ SaveCache \/ ApplyRoots \/ MarkRefreshed
World == SignalHUP \/ PublishList \/ Expire \/ NodeChanges \/ Kill

Next == Boot \/ Cycle \/ Timer \/ Refresh \/ World

Spec == Init /\ [][Next]_vars

\* The loops go on and the deadline of a walk comes.  The refresher's timer
\* gets no fairness: a list may be good for months.  A backoff is short.
LiveSpec ==
  /\ Spec /\ WF_vars(Boot) /\ WF_vars(Cycle) /\ WF_vars(Refresh)
  /\ WF_vars(refresher.pc = "backoff" /\ Timer)

-----------------------------------------------------------------------------
(* Properties.                                                              *)

\* A graph that is served is not replaced by an empty one while the process
\* runs, and a graph in the file not by a process that could load the file,
\* whatever the walks return, whichever saves fail and however often it
\* restarts (cycle, Boot).  One that could not load it and whose first walk
\* finds nothing does save an empty graph over it.
GraphKept ==
  [][/\ snapshot.graph = "some" /\ running' => snapshot'.graph = "some"
     /\ file.graph = "some" /\ ~unread => file'.graph = "some"]_vars

Stuck == using # Seeds /\ Roots(using) \cap answering = {} /\ using # published

\* The dashboard does not stay with roots that are gone while DNS has a newer
\* list: the misses trigger a refresh, and again when that one fails (cycle,
\* Refresher.Run).
LeavesDeadRoots == <>[]~Stuck
=============================================================================
