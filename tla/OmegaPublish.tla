---------------------------- MODULE OmegaPublish ----------------------------
(***************************************************************************)
(* The omega authority's publication journal and public repository         *)
(* (internal/omega): soph omega publish, publish --renew and rotate, each  *)
(* interrupted at any step and run again.  The lock of the home lets one   *)
(* command run at a time.                                                  *)
(*                                                                         *)
(* A record of the journal is written to <name>.pending, synced, linked to *)
(* its name, and the directory synced.  Its file is therefore              *)
(*   none, torn (an incomplete .pending), pending (complete), linked       *)
(*   (visible under its name), final (and durable).                        *)
(* A kill leaves files as they are; a power loss may undo, file by file,   *)
(* whatever no sync has covered.  The public repository has, of each       *)
(* object, a visible and a durable copy, and one file that changes: the    *)
(* timestamp.  Signatures are deterministic: what is signed is what is in  *)
(* it, the time included.  Root expiry is not modelled.                    *)
(***************************************************************************)
EXTENDS Integers, Sequences, FiniteSets

CONSTANTS
  Manifests,   \* what the operator may approve
  Roles,       \* roles a rotation may replace: subset of {"online", "targets", "root"}
  MaxReleases, \* bound: releases
  MaxKeys,     \* bound: keys generated
  MaxClock,    \* bound: the clock
  Due, TimestampLife, TargetsLife,  \* ages at which renewal is due and roles expire
  MaxFaults    \* bound: crashes and failed verifications

ASSUME OmegaAssumption ==
  /\ MaxReleases \in Nat \ {0} /\ MaxKeys \in Nat /\ MaxClock \in Nat /\ MaxFaults \in Nat
  /\ Due \in Nat /\ TimestampLife \in Nat /\ TargetsLife \in Nat
  /\ Roles \subseteq {"online", "targets", "root"}

VARIABLES
  file,      \* file[f]: the state and the value of record f
  objects,   \* public objects that are visible
  durable,   \* public objects that are durable
  timestamp, timestampDurable,  \* the public timestamp, by the release it belongs to
  receipt,   \* receipt[v]: the last verification of release v
  cmd,       \* the command that is running
  keys,      \* keys generated so far
  clock, faults,
  exposed    \* history: every object that was ever public

vars == <<file, objects, durable, timestamp, timestampDurable, receipt, cmd, keys, clock, faults, exposed>>

Nothing == [kind |-> "nothing"]

Versions == 1 .. MaxReleases
Release(v) == <<"release", v>>
Intent(v)  == <<"intent", v>>      \* a renewal's intent
Apply(v)   == <<"apply", v>>       \* the reservation of a rotation's apply
Handoff(v) == <<"handoff", v>>     \* the targets a rotation signed offline
\* The rotation to root version 2: the offline key, the intent, the signed root.
Key == <<"key", 2>>
RotationIntent == <<"rotation-intent", 2>>
Rotation == <<"rotation", 2>>

Files == {Release(v) : v \in Versions} \cup {Intent(v) : v \in Versions} \cup {Apply(v) : v \in Versions}
           \cup {Handoff(v) : v \in Versions} \cup {Key, RotationIntent, Rotation}

Idle == [op |-> "none", pc |-> "idle"]

Exists(f) == file[f].st # "none"
Committed(f) == file[f].st \in {"linked", "final"}
\* state.read of the name or, failing that, of a complete pending file.
Readable(f) == file[f].st \in {"pending", "linked", "final"}

\* loadReleases: the committed releases, which must have no gap.
Latest == Cardinality({v \in Versions : Committed(Release(v))})
NoGap == \A v \in 1 .. Latest : Committed(Release(v))
History == [v \in 1 .. Latest |-> file[Release(v)].val]

Fault == faults < MaxFaults /\ faults' = faults + 1

-----------------------------------------------------------------------------
(* Releases: what prepareRelease and prepareContinuedRelease sign.          *)

Min2(a, b) == IF a < b THEN a ELSE b
TargetsExpire(r) == r.targets.approved + TargetsLife
TimestampExpires(r) == Min2(r.created + TimestampLife, TargetsExpire(r))
Expired(r, now) == now >= TimestampExpires(r)
RenewalDue(r, now) == now >= Min2(r.created + Due, TimestampExpires(r))

CurrentRoot == IF Latest = 0 THEN Nothing ELSE History[Latest].root
\* The membership key in use: that of the last rotation of the targets role.
MembershipKey == IF CurrentRoot # Nothing /\ CurrentRoot.role = "targets" THEN CurrentRoot.key ELSE 0

Previous == IF Latest = 0 THEN Nothing ELSE History[Latest]

Approved(v, m, now) ==
  [kind |-> "approval", version |-> v, previous |-> Previous, created |-> now, root |-> CurrentRoot,
   targets |-> [version |-> v, manifest |-> m, approved |-> now, signer |-> MembershipKey]]

Renewed(v, now) ==
  [kind |-> "renewal", version |-> v, previous |-> Previous, created |-> now, root |-> CurrentRoot,
   targets |-> History[Latest].targets]

\* The targets of a rotation: the membership is unchanged; rotating the root
\* renews its lifetime.
RotatedTargets(v, rotation, now) ==
  [version |-> v, manifest |-> History[Latest].targets.manifest,
   approved |-> IF rotation.role = "root" THEN now ELSE History[Latest].targets.approved,
   signer |-> IF rotation.role = "targets" THEN rotation.key ELSE MembershipKey]

Rotated(v, rotation, now) ==
  [kind |-> IF rotation.role = "online" THEN "renewal" ELSE "transition",
   version |-> v, previous |-> Previous, created |-> now, root |-> rotation,
   targets |-> IF rotation.role = "online" THEN History[Latest].targets ELSE file[Handoff(v)].val]

\* release.objects, in the order they are written.
Objects(r) ==
  <<[name |-> <<"targets", r.targets.version>>, data |-> r.targets],
    [name |-> <<"snapshot", r.version>>, data |-> r]>>
  \o (IF r.root = Nothing THEN <<>> ELSE <<[name |-> <<"root", 2>>, data |-> r.root]>>)

-----------------------------------------------------------------------------
(* store.install and the syncs that follow it.                              *)

\* Run: install value x as f, then go on at pc next.
Install(op, f, x, next) ==
  cmd' = [op |-> op, pc |-> "install", f |-> f, x |-> x, next |-> next, now |-> clock]

Quiet == UNCHANGED <<objects, durable, timestamp, timestampDurable, receipt, clock, exposed>>

Write ==
  /\ cmd.pc = "install" /\ ~Committed(cmd.f)
  /\ file[cmd.f] # [st |-> "pending", val |-> cmd.x]
  /\ file' = [file EXCEPT ![cmd.f] = [st |-> "pending", val |-> cmd.x]]
  /\ Quiet /\ UNCHANGED <<cmd, keys, faults>>

Link ==
  /\ cmd.pc = "install" /\ file[cmd.f] = [st |-> "pending", val |-> cmd.x]
  /\ file' = [file EXCEPT ![cmd.f].st = "linked"]
  /\ Quiet /\ UNCHANGED <<cmd, keys, faults>>

Same(f, x) == Committed(f) /\ file[f].val = x

\* The offline key lives in a directory of its own.
JournalOnly(f) == Files \ {Key}   \* mutant: the key's directory is not synced
InDirOf(f) == IF f = Key THEN {Key} ELSE Files \ {Key}
UnsyncedDir(f) == file   \* mutant: the directory is not synced
SyncedDir(f) ==
  [g \in Files |-> IF g \in InDirOf(f) /\ file[g].st = "linked" THEN [file[g] EXCEPT !.st = "final"] ELSE file[g]]

\* syncDir, also when the record was there already; install refuses to replace
\* a committed record with another.
Sync ==
  /\ cmd.pc = "install" /\ Committed(cmd.f)
  /\ file' = IF Same(cmd.f, cmd.x) THEN SyncedDir(cmd.f) ELSE file
  /\ cmd' = IF Same(cmd.f, cmd.x) THEN [cmd EXCEPT !.pc = cmd.next] ELSE Idle
  /\ Quiet /\ UNCHANGED <<keys, faults>>

-----------------------------------------------------------------------------
(* The commands up to the signed release.                                   *)

\* checkRecordedDestination: the repository holds nothing the journal lacks.
KnownDestination ==
  /\ timestamp # Nothing => \E v \in 1 .. Latest : timestamp = History[v]
  /\ \A o \in objects :
       IF o.name[1] = "root" THEN o.data = CurrentRoot ELSE o.name[2] <= Latest

\* A command takes the lock and finds a journal and a repository that agree.
Starts == cmd = Idle /\ NoGap /\ KnownDestination

Next1 == Latest + 1
Signs(v) == v <= MaxReleases

\* publish, at the next version: a complete pending release is used as it is.
PublishNext(m) ==
  LET v == Next1
      pending == Signs(v) /\ Readable(Release(v))
      r == IF pending THEN file[Release(v)].val ELSE Approved(v, m, clock)
  IN /\ Starts /\ Signs(v)
     /\ ~Exists(Intent(v)) /\ ~Exists(Apply(v)) /\ ~Exists(Handoff(v))
     /\ r.kind = "approval" /\ r.targets.manifest = m /\ r.previous = Previous
     /\ Install("publish", Release(v), r, "publish")
     /\ Quiet /\ UNCHANGED <<file, keys, faults>>

Publishes(op) == cmd' = [op |-> op, pc |-> "publish", now |-> clock]

\* publish, at the latest version again.
PublishAgain(m) ==
  /\ Starts /\ Latest > 0
  /\ History[Latest].kind = "approval" /\ History[Latest].targets.manifest = m
  /\ Publishes("publish")
  /\ Quiet /\ UNCHANGED <<file, keys, faults>>

NeedsHandoff(rotation) == rotation.role \in {"targets", "root"}

\* renew first finishes the apply of a rotation.
RenewResumes ==
  LET v == Next1
  IN /\ Starts /\ Latest > 0 /\ Signs(v)
     /\ Readable(Apply(v)) /\ ~Exists(Intent(v))
     /\ Install("renew", Apply(v), file[Apply(v)].val, "resume")
     /\ Quiet /\ UNCHANGED <<file, keys, faults>>

BegunDurably(v) ==   \* mutant: a complete pending intent is not seen
  Committed(Intent(v)) /\ file[Intent(v)].val.previous = Previous
Begun(v) == Readable(Intent(v)) /\ file[Intent(v)].val.previous = Previous

\* It finishes a renewal that has an intent, with the time of the intent.
RenewFinishes ==
  LET v == Next1
  IN /\ Starts /\ Latest > 0 /\ Signs(v)
     /\ ~Exists(Apply(v)) /\ ~Exists(Handoff(v))
     /\ Begun(v)
     /\ Install("renew", Intent(v), file[Intent(v)].val, "renewal")
     /\ Quiet /\ UNCHANGED <<file, keys, faults>>

\* Neither a reservation nor a pending release is in the way.
IgnoresApply(v) == ~Readable(Intent(v)) /\ ~Exists(Release(v))   \* mutant: a rotation's reservation is not seen
Unreserved(v) ==
  ~Exists(Apply(v)) /\ ~Exists(Handoff(v)) /\ ~Readable(Intent(v)) /\ ~Exists(Release(v))

Removed(f) == [file EXCEPT ![f] = [st |-> "none", val |-> Nothing]]

\* An expired approval cannot be renewed: a torn intent gives way.
RenewTooLate ==
  LET v == Next1
  IN /\ Starts /\ Latest > 0 /\ Signs(v) /\ Unreserved(v)
     /\ clock >= TargetsExpire(History[Latest])
     /\ Exists(Intent(v))
     /\ file' = Removed(Intent(v))
     /\ Quiet /\ UNCHANGED <<cmd, keys, faults>>

StillGood(r) == ~Expired(r, clock) /\ (receipt[r.version] # "verified" \/ ~RenewalDue(r, clock))

RepeatsVerified(r) ==   \* mutant: a release nobody has seen is not published again
  clock < TargetsExpire(r) /\ StillGood(r) /\ receipt[r.version] = "verified"
Repeatable(r) == clock < TargetsExpire(r) /\ StillGood(r)

\* It publishes the latest release again while that is good.
RenewRepeats ==
  /\ Starts /\ Latest > 0
  /\ Signs(Next1) => Unreserved(Next1) /\ ~Exists(Intent(Next1))
  /\ Repeatable(History[Latest])
  /\ Publishes("renew")
  /\ Quiet /\ UNCHANGED <<file, keys, faults>>

\* Otherwise it begins a renewal.
RenewBegins ==
  LET v == Next1
  IN /\ Starts /\ Latest > 0 /\ Signs(v) /\ Unreserved(v)
     /\ clock < TargetsExpire(History[Latest])
     /\ Exists(Intent(v)) \/ ~StillGood(History[Latest])
     /\ Install("renew", Intent(v), [kind |-> "intent", created |-> clock, previous |-> Previous], "renewal")
     /\ Quiet /\ UNCHANGED <<file, keys, faults>>

\* The command goes on with value x for record f, unless a complete pending
\* file says something else.
GoesOn(f, x, next) ==
  cmd' = IF file[f].st = "pending" /\ file[f].val # x
         THEN Idle ELSE [cmd EXCEPT !.pc = "install", !.f = f, !.x = x, !.next = next]

SignRenewal ==
  /\ cmd.pc = "renewal"
  /\ GoesOn(Release(Next1), Renewed(Next1, cmd.x.created), "publish")
  /\ Quiet /\ UNCHANGED <<file, keys, faults>>

\* rotate without --apply.  A key is generated only while nothing was derived
\* from one; for the online role the intent holds it, for the others a file of
\* the offline home.  The plan and the three key files prepareRootRotation
\* writes for the root role are taken as one file.
Generates(role) ==
  /\ ~Readable(IF role = "online" THEN RotationIntent ELSE Key)
  /\ role # "online" => ~Exists(RotationIntent)
  /\ ~Exists(Rotation)

Prepares(role) ==
  /\ Starts /\ Latest > 0 /\ CurrentRoot = Nothing
  /\ role = "online" => ~Exists(Key)
  /\ \A f \in {Key, RotationIntent} : Readable(f) => file[f].val.role = role

FirstFile(role) == IF role = "online" THEN RotationIntent ELSE Key
AfterFirst(role) == IF role = "online" THEN "root" ELSE "handover"

PrepareNew(role) ==
  /\ Prepares(role) /\ Generates(role) /\ keys < MaxKeys
  /\ keys' = keys + 1
  /\ Install("rotate", FirstFile(role), [kind |-> "rotation", role |-> role, key |-> keys + 1, created |-> clock],
             AfterFirst(role))
  /\ Quiet /\ UNCHANGED <<file, faults>>

PrepareAgain(role) ==
  /\ Prepares(role) /\ Readable(FirstFile(role))
  /\ Readable(RotationIntent) => file[RotationIntent].val = file[FirstFile(role)].val
  /\ Install("rotate", FirstFile(role), file[FirstFile(role)].val, AfterFirst(role))
  /\ Quiet /\ UNCHANGED <<file, keys, faults>>

\* The public part goes to the journal, then the root is signed.
Handover ==
  /\ cmd.pc = "handover"
  /\ cmd' = [cmd EXCEPT !.pc = "install", !.f = RotationIntent, !.next = "root"]
  /\ Quiet /\ UNCHANGED <<file, keys, faults>>

SignRoot ==
  /\ cmd.pc = "root"
  /\ GoesOn(Rotation, cmd.x, "done")
  /\ Quiet /\ UNCHANGED <<file, keys, faults>>

Done ==
  /\ cmd.pc = "done"
  /\ cmd' = Idle
  /\ Quiet /\ UNCHANGED <<file, keys, faults>>

\* rotate --apply with the digest of the prepared root.
Applies == Starts /\ Latest > 0 /\ Committed(Rotation) /\ Committed(RotationIntent)

ApplyReserves ==
  LET v == Next1
      rotation == file[Rotation].val
      reserved == Readable(Apply(v))
  IN /\ Applies /\ CurrentRoot = Nothing /\ Signs(v)
     /\ ~reserved => /\ ~Exists(Release(v)) /\ ~Exists(Intent(v)) /\ ~Exists(Handoff(v))
                     /\ rotation.role # "root" => clock < TargetsExpire(History[Latest])
     /\ Install("rotate", Apply(v),
                IF reserved THEN file[Apply(v)].val
                ELSE [kind |-> "apply", rotation |-> rotation, created |-> clock, previous |-> Previous],
                "handoff")
     /\ Quiet /\ UNCHANGED <<file, keys, faults>>

ApplyTooLate ==
  LET v == Next1
  IN /\ Applies /\ CurrentRoot = Nothing /\ Signs(v)
     /\ file[Apply(v)].st = "torn" /\ file[Rotation].val.role # "root"
     /\ ~Exists(Release(v)) /\ ~Exists(Intent(v)) /\ ~Exists(Handoff(v))
     /\ clock >= TargetsExpire(History[Latest])
     /\ file' = Removed(Apply(v))
     /\ Quiet /\ UNCHANGED <<cmd, keys, faults>>

ApplyAgain ==
  /\ Applies /\ CurrentRoot = file[Rotation].val
  /\ Publishes("rotate")
  /\ Quiet /\ UNCHANGED <<file, keys, faults>>

\* prepareRotationTargets: the offline half of an apply.
SignHandoff ==
  LET v == Next1
      rotation == cmd.x.rotation
  IN /\ cmd.pc = "handoff"
     /\ IF NeedsHandoff(rotation)
        THEN cmd' = [cmd EXCEPT !.pc = "install", !.f = Handoff(v), !.next = "resume",
                       !.x = IF Readable(Handoff(v)) THEN file[Handoff(v)].val
                             ELSE RotatedTargets(v, rotation, cmd.x.created)]
        ELSE cmd' = [cmd EXCEPT !.pc = "resume"]
     /\ Quiet /\ UNCHANGED <<file, keys, faults>>

\* resumeRotationApply, once the reservation is durable: without the handoff
\* the scheduler cannot go on.
Resume ==
  LET v == Next1
      rotation == file[Apply(v)].val.rotation
  IN /\ cmd.pc = "resume"
     /\ IF ~NeedsHandoff(rotation) THEN cmd' = [cmd EXCEPT !.pc = "sign"]
        ELSE IF Readable(Handoff(v))
        THEN cmd' = [cmd EXCEPT !.pc = "install", !.f = Handoff(v), !.x = file[Handoff(v)].val, !.next = "sign"]
        ELSE cmd' = Idle
     /\ Quiet /\ UNCHANGED <<file, keys, faults>>

SignRotated ==
  LET v == Next1
      a == file[Apply(v)].val
  IN /\ cmd.pc = "sign"
     /\ GoesOn(Release(v), Rotated(v, a.rotation, a.created), "publish")
     /\ Quiet /\ UNCHANGED <<file, keys, faults>>

-----------------------------------------------------------------------------
(* publishPrepared: the latest release goes to the public repository.       *)

\* The journal is made durable before anything becomes public.
PublishSync ==
  /\ cmd.pc = "publish"
  /\ file' = SyncedDir(Release(Latest))
  /\ cmd' = [op |-> cmd.op, pc |-> "check", now |-> cmd.now, todo |-> Objects(History[Latest])]
  /\ Quiet /\ UNCHANGED <<keys, faults>>

\* checkTimestamp: only a known older release may be replaced.
Replaceable == timestamp = Nothing \/ \E v \in 1 .. Latest : timestamp = History[v]

Fails ==
  /\ receipt' = [receipt EXCEPT ![Latest] = "failed"]
  /\ cmd' = Idle
  /\ UNCHANGED <<file, objects, durable, timestamp, timestampDurable, keys, clock, exposed>>

Check ==
  /\ cmd.pc = "check"
  /\ ~Expired(History[Latest], cmd.now) /\ Replaceable
  /\ cmd' = [cmd EXCEPT !.pc = "objects"]
  /\ Quiet /\ UNCHANGED <<file, keys, faults>>

Overwrites(o) == \E p \in objects : p.name = o.name /\ p # o

NotSynced(o) == durable   \* mutant: an object is linked and not synced
Synced(o) == durable \cup {o}

\* writeObject, for an immutable object: linked, then synced.  One that is
\* there already is synced again.
WriteObject ==
  /\ cmd.pc = "objects" /\ cmd.todo # <<>> /\ ~Overwrites(Head(cmd.todo))
  /\ LET o == Head(cmd.todo)
     IN IF o \notin objects
        THEN /\ objects' = objects \cup {o} /\ exposed' = exposed \cup {o}
             /\ UNCHANGED <<durable, cmd>>
        ELSE /\ durable' = Synced(o)
             /\ cmd' = [cmd EXCEPT !.todo = Tail(@)]
             /\ UNCHANGED <<objects, exposed>>
  /\ UNCHANGED <<file, timestamp, timestampDurable, receipt, keys, clock, faults>>

ObjectsReady ==
  /\ cmd.pc = "objects" /\ cmd.todo = <<>>
  /\ cmd' = [op |-> cmd.op, pc |-> "timestamp", now |-> cmd.now]
  /\ Quiet /\ UNCHANGED <<file, keys, faults>>

WriteTimestamp ==
  /\ cmd.pc = "timestamp"
  /\ ~Expired(History[Latest], clock) /\ Replaceable
  /\ timestamp' = History[Latest]
  /\ cmd' = [cmd EXCEPT !.pc = "settle"]
  /\ UNCHANGED <<file, objects, durable, timestampDurable, receipt, keys, clock, faults, exposed>>

SyncTimestamp ==
  /\ cmd.pc = "settle"
  /\ timestampDurable' = timestamp
  /\ cmd' = [cmd EXCEPT !.pc = "verify"]
  /\ UNCHANGED <<file, objects, durable, timestamp, receipt, keys, clock, faults, exposed>>

\* A fresh client sees the release over HTTPS.
Verify ==
  /\ cmd.pc = "verify" /\ ~Expired(History[Latest], clock)
  /\ receipt' = [receipt EXCEPT ![Latest] = "verified"]
  /\ cmd' = Idle
  /\ UNCHANGED <<file, objects, durable, timestamp, timestampDurable, keys, clock, faults, exposed>>

Refused ==
  /\ \/ cmd.pc = "check" /\ (Expired(History[Latest], cmd.now) \/ ~Replaceable)
     \/ cmd.pc = "objects" /\ cmd.todo # <<>> /\ Overwrites(Head(cmd.todo))
     \/ cmd.pc = "timestamp" /\ (Expired(History[Latest], clock) \/ ~Replaceable)
     \/ cmd.pc = "verify" /\ Expired(History[Latest], clock)
  /\ Fails /\ UNCHANGED faults

VerifyFails == cmd.pc = "verify" /\ Fails /\ Fault

-----------------------------------------------------------------------------
(* Time and crashes.                                                        *)

Tick ==
  /\ clock < MaxClock
  /\ clock' = clock + 1
  /\ UNCHANGED <<file, objects, durable, timestamp, timestampDurable, receipt, cmd, keys, faults, exposed>>

\* The process ends; a record it was writing may be incomplete.
Kill ==
  /\ cmd # Idle /\ Fault
  /\ cmd' = Idle
  /\ \/ UNCHANGED file
     \/ /\ cmd.pc = "install" /\ ~Committed(cmd.f) /\ file[cmd.f] # [st |-> "pending", val |-> cmd.x]
        /\ file' = [file EXCEPT ![cmd.f] = [st |-> "torn", val |-> Nothing]]
  /\ Quiet /\ UNCHANGED keys

\* What may be left of a record no sync has covered.
Left(f) ==
  CASE file[f].st = "torn"    -> {"none", "torn"}
    [] file[f].st = "pending" -> {"none", "torn", "pending"}
    [] file[f].st = "linked"  -> {"none", "pending", "final"}
    [] OTHER -> {file[f].st}

PowerLoss ==
  LET unsettled == {f \in Files : file[f].st \notin {"none", "final"}}
  IN /\ Fault
     /\ \E left \in [unsettled -> {"none", "torn", "pending", "final"}] :
          /\ \A f \in unsettled : left[f] \in Left(f)
          /\ file' = [f \in Files |->
               IF f \notin unsettled THEN file[f]
               ELSE [st |-> left[f], val |-> IF left[f] \in {"none", "torn"} THEN Nothing ELSE file[f].val]]
     /\ \E lost \in SUBSET (objects \ durable) : objects' = objects \ lost
     /\ durable' = objects'
     /\ timestamp' \in {timestamp, timestampDurable} /\ timestampDurable' = timestamp'
     /\ cmd' = Idle
     /\ UNCHANGED <<receipt, keys, clock, exposed>>

-----------------------------------------------------------------------------
Init ==
  /\ file = [f \in Files |-> [st |-> "none", val |-> Nothing]]
  /\ objects = {} /\ durable = {} /\ timestamp = Nothing /\ timestampDurable = Nothing
  /\ receipt = [v \in Versions |-> "none"]
  /\ cmd = Idle /\ keys = 0 /\ clock = 0 /\ faults = 0 /\ exposed = {}

Publish == \E m \in Manifests : PublishNext(m) \/ PublishAgain(m)
Renew == RenewResumes \/ RenewFinishes \/ RenewTooLate \/ RenewRepeats \/ RenewBegins
Rotate == (\E role \in Roles : PrepareNew(role) \/ PrepareAgain(role)) \/ ApplyReserves \/ ApplyTooLate \/ ApplyAgain
Step ==
  \/ Write \/ Link \/ Sync
  \/ SignRenewal \/ Handover \/ SignRoot \/ Done \/ SignHandoff \/ Resume \/ SignRotated
  \/ PublishSync \/ Check \/ WriteObject \/ ObjectsReady \/ WriteTimestamp \/ SyncTimestamp \/ Verify \/ Refused

Next == Publish \/ Renew \/ Rotate \/ Step \/ VerifyFails \/ Tick \/ Kill \/ PowerLoss

Spec == Init /\ [][Next]_vars

\* A command goes on until it ends; the timer runs renew again and again, and
\* the operator repeats an apply that was interrupted.  Both may find the lock
\* taken many times, not for ever.
LiveSpec == Spec /\ WF_vars(Step) /\ SF_vars(Renew) /\ SF_vars(ApplyReserves)

-----------------------------------------------------------------------------
(* Properties.                                                              *)

\* One name was never public with two contents: a number, once served, means
\* one thing, whatever crashed in between (writeObject, install).
NeverTwice == \A o, p \in exposed : o.name = p.name => o = p

Belongs(o, r) == \E i \in 1 .. Len(Objects(r)) : Objects(r)[i] = o

\* Whatever is public belongs to a release whose record is durable: no crash
\* leaves a repository that is ahead of its journal, which every later
\* command would refuse to touch (publishPrepared, checkRecordedDestination).
JournalLeads ==
  \A o \in objects : \E v \in Versions :
    file[Release(v)].st = "final" /\ Belongs(o, file[Release(v)].val)

\* What the timestamp leads a client to is there, also after a power loss
\* (publishPrepared writes the timestamp last).
RepositoryComplete ==
  /\ timestamp # Nothing => \A i \in 1 .. Len(Objects(timestamp)) : Objects(timestamp)[i] \in objects
  /\ timestampDurable # Nothing =>
       \A i \in 1 .. Len(Objects(timestampDurable)) : Objects(timestampDurable)[i] \in durable

\* A release that was not approved carries out the durable reservation of its
\* version, made at the time the release is dated, and no version is reserved
\* for a renewal and a rotation (runRenewal, resumeRotationApply).
ReservationKept ==
  \A v \in Versions :
    LET r == file[Release(v)].val
    IN /\ ~(Readable(Intent(v)) /\ Readable(Apply(v)))
       /\ Readable(Release(v)) /\ r.kind # "approval" =>
            \/ file[Intent(v)].st = "final" /\ file[Intent(v)].val.created = r.created
            \/ file[Apply(v)].st = "final" /\ file[Apply(v)].val.created = r.created
                 /\ file[Apply(v)].val.rotation = r.root

\* The private half of a key that a signed root names is durable: a rotation
\* never hands the role to a key the operator has lost (prepareRotation).
RootKeyHeld ==
  Readable(Rotation) =>
    LET f == FirstFile(file[Rotation].val.role)
    IN file[f].st = "final" /\ file[f].val = file[Rotation].val

Reached(v) == timestamp # Nothing /\ timestamp.version >= v

\* A release in the journal is served in the end, unless it expires first or a
\* power loss takes its record (renew publishes the latest release again).
ReleaseServed ==
  \A v \in Versions :
    Latest >= v ~> (Latest < v \/ Reached(v) \/ Expired(History[v], clock))

\* A reservation is carried out in the end, unless a power loss takes it: a
\* version that is reserved does not block the journal for ever.
ReservationCarriedOut ==
  \A v \in Versions :
    (Readable(Intent(v)) \/ Readable(Apply(v)))
      ~> (Committed(Release(v)) \/ ~(Readable(Intent(v)) \/ Readable(Apply(v))))

\* The journal makes progress: what it holds is served, what it reserves is
\* carried out.
WorkFinished == ReleaseServed /\ ReservationCarriedOut
=============================================================================
