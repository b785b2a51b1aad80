----------------------------- MODULE TrustLease -----------------------------
(***************************************************************************)
(* What the trust state on disk promises its users, as one variable that   *)
(* changes in one step: the versions it has verified never go back, and    *)
(* the accepted manifest, when there is one, is a release the authority    *)
(* published, complete, and under the root and the targets the state is    *)
(* at now.  Discovery implements it with files, locks, crashes.            *)
(***************************************************************************)
EXTENDS Integers

CONSTANTS
  Releases,  \* the numbers of the releases, 1 .. n
  Targets,   \* Targets[n]: the targets version release n refers to
  RootOf,    \* RootOf[n]: the root version release n was made under
  Online     \* Online[r]: the online key of root version r

VARIABLE trusted

Absent == [at |-> "absent"]
Empty  == [at |-> "empty"]

NoMetadata == [root |-> 0, timestamp |-> 0, snapshot |-> 0, targets |-> 0]

\* Role by role, a is not newer than b.
NotNewer(a, b) ==
  /\ a.root <= b.root /\ a.timestamp <= b.timestamp
  /\ a.snapshot <= b.snapshot /\ a.targets <= b.targets

SameAuthority(a, b) == a.root = b.root /\ a.targets = b.targets

\* The four roles belong together: no mix of two releases.
Complete(m) ==
  /\ m.timestamp \in Releases /\ m.snapshot = m.timestamp
  /\ m.targets = Targets[m.snapshot] /\ Online[m.root] = Online[RootOf[m.timestamp]]

Sound(s) ==
  s.accepted # NoMetadata =>
    /\ Complete(s.accepted)
    /\ SameAuthority(s.accepted, s.metadata)
    /\ NotNewer(s.accepted, s.metadata)

Version == {0} \cup Releases
Metadata == [root : Version, timestamp : Version, snapshot : Version, targets : Version]
States == [at : {"state"}, metadata : Metadata, accepted : Metadata]

Init == trusted = Absent

Create == trusted = Absent /\ trusted' = Empty

Begin ==
  /\ trusted.at # "state"
  /\ trusted' \in States
  /\ trusted'.metadata.root >= 1
  /\ Sound(trusted')

Advance ==
  /\ trusted.at = "state"
  /\ trusted' \in States
  /\ NotNewer(trusted.metadata, trusted'.metadata)
  /\ Sound(trusted')

Next == Create \/ Begin \/ Advance

Spec == Init /\ [][Next]_trusted
=============================================================================
