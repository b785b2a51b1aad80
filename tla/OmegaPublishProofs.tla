------------------------ MODULE OmegaPublishProofs --------------------------
(***************************************************************************)
(* Proofs about OmegaPublish: for any number of releases, keys, manifests, *)
(* crashes and power losses, the journal is ahead of the repository, the   *)
(* repository is complete, and no number is ever used for two contents.    *)
(***************************************************************************)
EXTENDS OmegaPublish, FiniteSetTheorems, SequenceTheorems, TLAPS

-----------------------------------------------------------------------------
(* The inductive invariant.                                                *)

Stages == {"none", "torn", "pending", "linked", "final"}
AllRoles == {"online", "targets", "root"}
Final(f) == file[f].st = "final"

\* x is the rotation whose private key is durable.
Rooted(x) == x.role \in AllRoles /\ Final(FirstFile(x.role)) /\ file[FirstFile(x.role)].val = x

\* What a release of version v is: it names its version, its targets are its
\* own or those of the release before it, and its root has a key.
Formed(r, v) ==
  /\ r.version = v
  /\ r.targets.version = v \/ (v > 1 /\ r.targets = r.previous.targets)
  /\ r.root = Nothing \/ Rooted(r.root)

\* It carries out a durable reservation.
Reserved(r, v) ==
  r.kind # "approval" =>
    \/ Final(Intent(v)) /\ file[Intent(v)].val.created = r.created
    \/ Final(Apply(v)) /\ file[Apply(v)].val.created = r.created /\ file[Apply(v)].val.rotation = r.root

OnlineIntent == Readable(RotationIntent) /\ file[RotationIntent].val.role = "online"

FileTypes ==
  /\ DOMAIN file = Files
  /\ \A f \in Files : file[f].st \in Stages /\ file[f] = [st |-> file[f].st, val |-> file[f].val]

RotationFiles ==
  /\ Readable(Rotation) => Rooted(file[Rotation].val)
  /\ OnlineIntent => ~Exists(Key)

VersionFiles(v) ==
  /\ Readable(Release(v)) => Formed(file[Release(v)].val, v) /\ Reserved(file[Release(v)].val, v)
  /\ ~(Readable(Intent(v)) /\ Readable(Apply(v)))
  /\ Readable(Apply(v)) => Rooted(file[Apply(v)].val.rotation)
  /\ Readable(Handoff(v)) => file[Handoff(v)].val.version = v

TargetsOf(v) == file[Release(v)].val.targets

\* A number of the targets role means one thing in the journal.
TargetsUnique ==
  \A v \in Versions : Committed(Release(v)) =>
    /\ TargetsOf(v).version \in 1 .. v
    /\ \A u \in Versions : Committed(Release(u)) /\ TargetsOf(u).version = TargetsOf(v).version =>
         TargetsOf(u) = TargetsOf(v)

FilesInv == FileTypes /\ RotationFiles /\ (\A v \in Versions : VersionFiles(v)) /\ TargetsUnique

\* What may be installed as f, and what comes next.
Fits(f, x, next) ==
  \/ f = Key /\ next = "handover" /\ x.role \in {"targets", "root"} /\ ~OnlineIntent
  \/ f = RotationIntent /\ next = "root" /\ x.role \in AllRoles
       /\ IF x.role = "online" THEN ~Exists(Key) ELSE Final(Key) /\ file[Key].val = x
  \/ f = Rotation /\ next = "done" /\ Rooted(x)
  \/ \E v \in Versions :
       \/ /\ f = Intent(v) /\ next = "renewal" /\ v = Next1 /\ v > 1 /\ ~Readable(Apply(v))
       \/ /\ f = Apply(v) /\ next \in {"handoff", "resume"} /\ v = Next1 /\ v > 1
          /\ ~Readable(Intent(v)) /\ Rooted(x.rotation)
       \/ /\ f = Handoff(v) /\ next \in {"resume", "sign"} /\ v = Next1 /\ v > 1
          /\ Final(Apply(v)) /\ x.version = v
       \/ /\ f = Release(v) /\ next = "publish" /\ Formed(x, v) /\ Reserved(x, v)
          /\ Committed(f) \/ (v = Next1 /\ x.previous = Previous)

LongPcs == {"install", "renewal", "handover", "root", "done", "handoff", "resume", "sign"}
OtherPcs == {"idle", "publish", "check", "objects", "timestamp", "settle", "verify"}

CmdInv ==
  /\ cmd.pc \in LongPcs \cup OtherPcs
  /\ cmd.pc # "idle" => NoGap
  /\ cmd.pc \in LongPcs =>
       /\ cmd = [op |-> cmd.op, pc |-> cmd.pc, f |-> cmd.f, x |-> cmd.x, next |-> cmd.next, now |-> cmd.now]
  /\ cmd.pc = "install" => cmd.f \in Files /\ Fits(cmd.f, cmd.x, cmd.next)
  /\ cmd.pc = "renewal" =>
       Next1 \in Versions /\ Next1 > 1 /\ Final(Intent(Next1)) /\ file[Intent(Next1)].val = cmd.x
  /\ cmd.pc = "handover" => Final(Key) /\ file[Key].val = cmd.x /\ cmd.x.role \in {"targets", "root"}
  /\ cmd.pc = "root" => Rooted(cmd.x)
  /\ cmd.pc \in {"handoff", "resume", "sign"} => Next1 \in Versions /\ Next1 > 1 /\ Final(Apply(Next1))
  /\ cmd.pc = "handoff" => file[Apply(Next1)].val = cmd.x
  /\ cmd.pc = "sign" /\ NeedsHandoff(file[Apply(Next1)].val.rotation) => Readable(Handoff(Next1))
  /\ cmd.pc \in OtherPcs \ {"idle"} => Latest > 0

ObjectSet(r) == {Objects(r)[i] : i \in 1 .. Len(Objects(r))}

Newest == file[Release(Latest)].val

Covered(t) == t # Nothing => ObjectSet(t) \subseteq durable

PublicInv ==
  /\ durable \subseteq objects /\ objects \subseteq exposed
  /\ \A o \in exposed : \E v \in Versions : Final(Release(v)) /\ o \in ObjectSet(file[Release(v)].val)
  /\ Covered(timestamp) /\ Covered(timestampDurable)

TodoInv ==
  /\ cmd.pc \in {"timestamp", "settle"} => cmd = [op |-> cmd.op, pc |-> cmd.pc, now |-> cmd.now]
  /\ cmd.pc \in {"check", "objects"} =>
       /\ cmd = [op |-> cmd.op, pc |-> cmd.pc, now |-> cmd.now, todo |-> cmd.todo]
       /\ Final(Release(Latest))
       /\ cmd.todo \in Seq(ObjectSet(Newest))
       /\ \A o \in ObjectSet(Newest) : o \in durable \/ \E i \in 1 .. Len(cmd.todo) : cmd.todo[i] = o
  /\ cmd.pc = "timestamp" => ObjectSet(Newest) \subseteq durable


-----------------------------------------------------------------------------
(* Names, versions and the length of the journal.                          *)

LEMMA FileNames ==
  /\ Key # RotationIntent /\ Key # Rotation /\ RotationIntent # Rotation
  /\ \A v : /\ Release(v) \notin {Key, RotationIntent, Rotation} /\ Intent(v) \notin {Key, RotationIntent, Rotation}
            /\ Apply(v) \notin {Key, RotationIntent, Rotation} /\ Handoff(v) \notin {Key, RotationIntent, Rotation}
  /\ \A v, w : /\ Release(v) \notin {Intent(w), Apply(w), Handoff(w)} /\ Intent(v) \notin {Apply(w), Handoff(w)}
               /\ Apply(v) # Handoff(w)
  /\ \A v, w : /\ Release(v) = Release(w) => v = w
               /\ Intent(v) = Intent(w) => v = w
               /\ Apply(v) = Apply(w) => v = w
               /\ Handoff(v) = Handoff(w) => v = w
BY DEF Key, RotationIntent, Rotation, Release, Intent, Apply, Handoff

LEMMA FilesAre ==
  /\ Key \in Files /\ RotationIntent \in Files /\ Rotation \in Files
  /\ \A v \in Versions : Release(v) \in Files /\ Intent(v) \in Files /\ Apply(v) \in Files /\ Handoff(v) \in Files
BY DEF Files

LEMMA VersionsAre ==
  /\ Versions \subseteq Nat /\ IsFiniteSet(Versions) /\ Cardinality(Versions) = MaxReleases /\ MaxReleases \in Nat
  /\ \A v \in Nat : v \in Versions <=> 1 <= v /\ v <= MaxReleases
<1>1. MaxReleases \in Nat /\ MaxReleases >= 1
  BY OmegaAssumption
<1> QED BY <1>1, FS_Interval DEF Versions

LEMMA CommittedReadable ==
  \A f : /\ Committed(f) => Readable(f)
         /\ Readable(f) => Exists(f)
         /\ Final(f) => Committed(f)
BY DEF Committed, Readable, Exists, Final

CommittedSet == {v \in Versions : Committed(Release(v))}

LEMMA LatestIs == Latest \in Nat /\ Latest = Cardinality(CommittedSet) /\ Latest <= MaxReleases
<1>1. CommittedSet \in SUBSET Versions /\ Latest = Cardinality(CommittedSet)
  BY DEF CommittedSet, Latest
<1>2. IsFiniteSet(CommittedSet) /\ Cardinality(CommittedSet) <= Cardinality(Versions)
  BY <1>1, VersionsAre, FS_Subset
<1> QED BY <1>1, <1>2, VersionsAre, FS_CardinalityType

\* A journal without gap holds the first releases.
LEMMA Gapless ==
  ASSUME NoGap
  PROVE  \A v \in Versions : Committed(Release(v)) <=> v <= Latest
<1>1. Latest \in Nat /\ Latest = Cardinality(CommittedSet) /\ Latest <= MaxReleases
  BY LatestIs
<1>2. CommittedSet \in SUBSET Versions /\ IsFiniteSet(CommittedSet)
  BY VersionsAre, FS_Subset DEF CommittedSet
<1>3. 1 .. Latest \in SUBSET CommittedSet
  BY <1>1, VersionsAre DEF NoGap, CommittedSet
<1>4. Cardinality(1 .. Latest) = Latest
  BY <1>1, FS_Interval
<1>5. 1 .. Latest = CommittedSet
  BY <1>1, <1>2, <1>3, <1>4, FS_Subset
<1> QED BY <1>1, <1>5, VersionsAre DEF CommittedSet

LEMMA SameLatest ==
  ASSUME \A v \in Versions : Committed(Release(v))' <=> Committed(Release(v))
  PROVE  Latest' = Latest /\ (NoGap' <=> NoGap) /\ Next1' = Next1
<1>1. Latest' = Latest
  BY DEF Latest
<1>2. \A v \in 1 .. Latest : v \in Versions
  BY LatestIs, VersionsAre
<1>3. NoGap' <=> NoGap
  BY <1>1, <1>2 DEF NoGap
<1> QED BY <1>1, <1>3 DEF Next1

LEMMA OneMore ==
  ASSUME NoGap, Next1 \in Versions,
         \A v \in Versions : Committed(Release(v))' <=> Committed(Release(v)) \/ v = Next1
  PROVE  Latest' = Next1 /\ NoGap'
<1>1. Latest \in Nat /\ Latest = Cardinality(CommittedSet) /\ Next1 = Latest + 1 /\ Next1 \in Versions
  BY LatestIs DEF Next1
<1>2. CommittedSet \in SUBSET Versions /\ IsFiniteSet(CommittedSet)
  BY VersionsAre, FS_Subset DEF CommittedSet
<1>3. Latest + 1 \notin CommittedSet
  BY <1>1, Gapless DEF CommittedSet
<1>4. {v \in Versions : Committed(Release(v))'} = CommittedSet \cup {Latest + 1}
  BY <1>1 DEF CommittedSet
<1>5. Cardinality(CommittedSet \cup {Latest + 1}) = Latest + 1
  BY <1>1, <1>2, <1>3, FS_AddElement
<1>6. Latest' = Latest + 1
  BY <1>4, <1>5 DEF Latest
<1>7. \A v \in 1 .. Latest + 1 : v \in Versions /\ (v <= Latest \/ v = Next1)
  BY <1>1, VersionsAre
<1>8. NoGap'
  BY <1>6, <1>7, Gapless DEF NoGap
<1> QED BY <1>1, <1>6, <1>8

LEMMA HistoryIs ==
  ASSUME Latest > 0
  PROVE  /\ History[Latest] = file[Release(Latest)].val /\ Previous = file[Release(Latest)].val
         /\ Latest \in Versions /\ CurrentRoot = file[Release(Latest)].val.root
<1>1. Latest \in 1 .. Latest /\ Latest # 0 /\ Latest \in Versions
  BY LatestIs, VersionsAre
<1> QED BY <1>1 DEF History, Previous, CurrentRoot

-----------------------------------------------------------------------------
(* What happens to files.                                                  *)

\* A record that is durable stays as it is.
FinalKept == \A f \in Files : Final(f) => file'[f] = file[f]

\* No record is made, changed or shown.
NothingNew ==
  /\ FileTypes' /\ FinalKept
  /\ \A f \in Files : Readable(f)' => Readable(f) /\ file'[f].val = file[f].val
  /\ Exists(Key)' => Exists(Key) \/ ~OnlineIntent

LEMMA FirstFiles == \A role : FirstFile(role) \in {Key, RotationIntent} /\ FirstFile(role) \in Files
BY FilesAre DEF FirstFile

LEMMA RootedKept ==
  ASSUME FinalKept, NEW x, Rooted(x)
  PROVE  Rooted(x)'
<1>1. FirstFile(x.role)' = FirstFile(x.role)
  BY DEF FirstFile
<1> QED BY <1>1, FirstFiles DEF Rooted, FinalKept, Final

LEMMA FormedKept ==
  ASSUME FinalKept, NEW r, NEW v \in Versions, Formed(r, v)
  PROVE  Formed(r, v)'
<1>1. PICK x : x = r.root
  OBVIOUS
<1>2. Rooted(x) => Rooted(x)'
  BY RootedKept
<1> QED BY <1>1, <1>2 DEF Formed

LEMMA ReservedKept ==
  ASSUME FinalKept, NEW r, NEW v \in Versions, Reserved(r, v)
  PROVE  Reserved(r, v)'
BY FilesAre DEF Reserved, FinalKept, Final

\* One rotation, one key.
LEMMA RootedOnce ==
  ASSUME FilesInv, NEW x, NEW y, Rooted(x), Rooted(y)
  PROVE  x = y
<1>1. Final(Key) => ~OnlineIntent
  BY CommittedReadable DEF FilesInv, RotationFiles
<1>2. ASSUME NEW z, Rooted(z) PROVE z.role # "online" => Final(Key) /\ file[Key].val = z
  BY <1>2 DEF Rooted, FirstFile
<1>3. ASSUME NEW z, Rooted(z), z.role = "online" PROVE OnlineIntent /\ file[RotationIntent].val = z
  BY <1>3, CommittedReadable DEF Rooted, FirstFile, OnlineIntent
<1> QED BY <1>1, <1>2, <1>3

LEMMA VersionKept ==
  ASSUME FinalKept, NEW v \in Versions, VersionFiles(v),
         \A f \in {Release(v), Intent(v), Apply(v), Handoff(v)} :
           Readable(f)' => Readable(f) /\ file'[f].val = file[f].val
  PROVE  VersionFiles(v)'
<1>1. Readable(Release(v))' => Formed(file[Release(v)].val, v)' /\ Reserved(file[Release(v)].val, v)'
  <2> SUFFICES ASSUME Readable(Release(v))'
               PROVE  Formed(file[Release(v)].val, v)' /\ Reserved(file[Release(v)].val, v)'
    OBVIOUS
  <2>1. PICK r : r = file[Release(v)].val
    OBVIOUS
  <2>2. r = file'[Release(v)].val /\ Formed(r, v) /\ Reserved(r, v)
    BY <2>1 DEF VersionFiles
  <2>3. Formed(r, v)' /\ Reserved(r, v)'
    BY <2>2, FormedKept, ReservedKept
  <2> QED BY <2>2, <2>3 DEF Formed, Reserved
<1>2. ~(Readable(Intent(v))' /\ Readable(Apply(v))')
  BY DEF VersionFiles
<1>3. Readable(Apply(v))' => Rooted(file[Apply(v)].val.rotation)'
  <2> SUFFICES ASSUME Readable(Apply(v))' PROVE Rooted(file[Apply(v)].val.rotation)'
    OBVIOUS
  <2>1. PICK x : x = file[Apply(v)].val.rotation
    OBVIOUS
  <2>2. x = file'[Apply(v)].val.rotation /\ Rooted(x)
    BY <2>1 DEF VersionFiles
  <2>3. Rooted(x)'
    BY <2>2, RootedKept
  <2> QED BY <2>2, <2>3 DEF Rooted
<1>4. Readable(Handoff(v))' => file'[Handoff(v)].val.version = v
  BY DEF VersionFiles
<1> QED BY <1>1, <1>2, <1>3, <1>4 DEF VersionFiles

LEMMA RotationKept ==
  ASSUME NothingNew, RotationFiles
  PROVE  RotationFiles'
<1>1. Readable(Rotation)' => Rooted(file[Rotation].val)'
  <2> SUFFICES ASSUME Readable(Rotation)' PROVE Rooted(file[Rotation].val)'
    OBVIOUS
  <2>1. PICK x : x = file[Rotation].val
    OBVIOUS
  <2>2. x = file'[Rotation].val /\ Rooted(x)
    BY <2>1, FilesAre DEF RotationFiles, NothingNew
  <2>3. Rooted(x)'
    BY <2>2, RootedKept DEF NothingNew
  <2> QED BY <2>2, <2>3 DEF Rooted
<1>2. OnlineIntent' => OnlineIntent
  BY FilesAre DEF OnlineIntent, NothingNew
<1>3. OnlineIntent' => ~Exists(Key)'
  BY <1>2 DEF RotationFiles, NothingNew
<1> QED BY <1>1, <1>3 DEF RotationFiles

\* Fewer committed releases, with the targets they had.
LEMMA UniqueKept ==
  ASSUME TargetsUnique,
         \A v \in Versions : Committed(Release(v))' =>
           Committed(Release(v)) /\ file'[Release(v)].val = file[Release(v)].val
  PROVE  TargetsUnique'
<1>1. \A v \in Versions : Committed(Release(v))' => Committed(Release(v)) /\ TargetsOf(v)' = TargetsOf(v)
  BY DEF TargetsOf
<1> QED BY <1>1 DEF TargetsUnique

LEMMA FilesKept ==
  ASSUME FilesInv, NothingNew, \A v \in Versions : Committed(Release(v))' => Committed(Release(v))
  PROVE  FilesInv'
<1>1. \A v \in Versions : VersionFiles(v)'
  BY VersionKept, FilesAre DEF FilesInv, NothingNew
<1>2. RotationFiles'
  BY RotationKept DEF FilesInv
<1>3. TargetsUnique'
  <2>1. \A f : Committed(f)' => Readable(f)'
    BY DEF Committed, Readable
  <2> QED BY <2>1, UniqueKept, FilesAre DEF FilesInv, NothingNew
<1> QED BY <1>1, <1>2, <1>3 DEF FilesInv, NothingNew

-----------------------------------------------------------------------------
(* Write and Link.                                                         *)

\* Record f has x pending; nothing else changed.
Writes(f, x) ==
  /\ file'[f] = [st |-> "pending", val |-> x]
  /\ \A g \in Files \ {f} : file'[g] = file[g]
  /\ DOMAIN file' = Files

\* Record f is shown, with value x.
Links(f, x) ==
  /\ file[f] = [st |-> "pending", val |-> x] /\ file'[f] = [st |-> "linked", val |-> x]
  /\ \A g \in Files \ {f} : file'[g] = file[g]
  /\ DOMAIN file' = Files

LEMMA WriteTypes ==
  ASSUME FileTypes, NEW f \in Files, NEW x, Writes(f, x) \/ Links(f, x), ~Committed(f)
  PROVE  FileTypes' /\ FinalKept
<1>1. file'[f].st \in Stages /\ file'[f] = [st |-> file'[f].st, val |-> file'[f].val]
  BY DEF Writes, Links, Stages
<1>2. FileTypes'
  BY <1>1 DEF Writes, Links, FileTypes
<1>3. FinalKept
  BY CommittedReadable DEF FinalKept, Writes, Links
<1> QED BY <1>2, <1>3

\* Another record is as readable as it was.
LEMMA OthersSame ==
  ASSUME NEW f \in Files, NEW x, Writes(f, x) \/ Links(f, x)
  PROVE  \A g \in Files \ {f} :
           /\ Readable(g)' <=> Readable(g) 
           /\ Committed(g)' <=> Committed(g)
           /\ Exists(g)' <=> Exists(g)
           /\ Final(g)' <=> Final(g)
           /\ file'[g] = file[g]
BY DEF Writes, Links, Readable, Committed, Exists, Final

\* A record that fits keeps the files of a rotation consistent.
LEMMA WriteRotation ==
  ASSUME FilesInv, NEW f \in Files, NEW x, NEW next, Fits(f, x, next),
         Writes(f, x) \/ Links(f, x), ~Committed(f)
  PROVE  RotationFiles'
<1>1. FinalKept
  BY WriteTypes DEF FilesInv
<1>2. file'[f].val = x /\ Readable(f)'
  BY DEF Writes, Links, Readable
<1>3. f = Rotation => Rooted(x)
  BY FileNames DEF Fits
<1>4. f = Key => ~OnlineIntent
  BY FileNames DEF Fits
<1>5. f = RotationIntent /\ x.role = "online" => ~Exists(Key)
  BY FileNames DEF Fits
<1>6. Readable(Rotation)' => Rooted(file[Rotation].val)'
  <2> SUFFICES ASSUME Readable(Rotation)' PROVE Rooted(file[Rotation].val)'
    OBVIOUS
  <2>1. PICK y : y = IF f = Rotation THEN x ELSE file[Rotation].val
    OBVIOUS
  <2>2. y = file'[Rotation].val
    BY <1>2, <2>1, FilesAre, OthersSame
  <2>3. Rooted(y)
    BY <1>3, <2>1, FilesAre, OthersSame DEF FilesInv, RotationFiles
  <2>4. Rooted(y)'
    BY <1>1, <2>3, RootedKept
  <2> QED BY <2>2, <2>4 DEF Rooted
<1>7. OnlineIntent' => ~Exists(Key)'
  <2>1. CASE f = Key
    <3>1. OnlineIntent' <=> OnlineIntent
      BY <2>1, FileNames, FilesAre, OthersSame DEF OnlineIntent
    <3> QED BY <1>4, <2>1, <3>1
  <2>2. CASE f = RotationIntent
    <3>1. OnlineIntent' => x.role = "online"
      BY <1>2, <2>2 DEF OnlineIntent
    <3>2. Exists(Key)' <=> Exists(Key)
      BY <2>2, FileNames, FilesAre, OthersSame
    <3> QED BY <1>5, <2>2, <3>1, <3>2
  <2>3. CASE f \notin {Key, RotationIntent}
    <3>1. (OnlineIntent' <=> OnlineIntent) /\ (Exists(Key)' <=> Exists(Key))
      BY <2>3, FilesAre, OthersSame DEF OnlineIntent
    <3> QED BY <3>1 DEF FilesInv, RotationFiles
  <2> QED BY <2>1, <2>2, <2>3
<1> QED BY <1>6, <1>7 DEF RotationFiles

\* ... and those of a version.
LEMMA WriteVersion ==
  ASSUME FilesInv, NEW f \in Files, NEW x, NEW next, Fits(f, x, next),
         Writes(f, x) \/ Links(f, x), ~Committed(f), NEW v \in Versions
  PROVE  VersionFiles(v)'
<1>1. FinalKept /\ VersionFiles(v)
  BY WriteTypes DEF FilesInv
<1>2. file'[f].val = x /\ Readable(f)'
  BY DEF Writes, Links, Readable
<1>3. /\ f = Release(v) => Formed(x, v) /\ Reserved(x, v)
      /\ f = Intent(v) => ~Readable(Apply(v))
      /\ f = Apply(v) => ~Readable(Intent(v)) /\ Rooted(x.rotation)
      /\ f = Handoff(v) => x.version = v
  BY FileNames DEF Fits
<1>4. Readable(Release(v))' => Formed(file[Release(v)].val, v)' /\ Reserved(file[Release(v)].val, v)'
  <2> SUFFICES ASSUME Readable(Release(v))'
               PROVE  Formed(file[Release(v)].val, v)' /\ Reserved(file[Release(v)].val, v)'
    OBVIOUS
  <2>1. PICK r : r = IF f = Release(v) THEN x ELSE file[Release(v)].val
    OBVIOUS
  <2>2. r = file'[Release(v)].val
    BY <1>2, <2>1, FilesAre, OthersSame
  <2>3. Formed(r, v) /\ Reserved(r, v)
    BY <1>1, <1>3, <2>1, FilesAre, OthersSame DEF VersionFiles
  <2>4. Formed(r, v)' /\ Reserved(r, v)'
    BY <1>1, <2>3, FormedKept, ReservedKept
  <2> QED BY <2>2, <2>4 DEF Formed, Reserved
<1>5. ~(Readable(Intent(v))' /\ Readable(Apply(v))')
  BY <1>1, <1>3, FileNames, FilesAre, OthersSame DEF VersionFiles
<1>6. Readable(Apply(v))' => Rooted(file[Apply(v)].val.rotation)'
  <2> SUFFICES ASSUME Readable(Apply(v))' PROVE Rooted(file[Apply(v)].val.rotation)'
    OBVIOUS
  <2>1. PICK y : y = IF f = Apply(v) THEN x.rotation ELSE file[Apply(v)].val.rotation
    OBVIOUS
  <2>2. y = file'[Apply(v)].val.rotation
    BY <1>2, <2>1, FilesAre, OthersSame
  <2>3. Rooted(y)
    BY <1>1, <1>3, <2>1, FilesAre, OthersSame DEF VersionFiles
  <2>4. Rooted(y)'
    BY <1>1, <2>3, RootedKept
  <2> QED BY <2>2, <2>4 DEF Rooted
<1>7. Readable(Handoff(v))' => file'[Handoff(v)].val.version = v
  BY <1>1, <1>2, <1>3, FilesAre, OthersSame DEF VersionFiles
<1> QED BY <1>4, <1>5, <1>6, <1>7 DEF VersionFiles

LEMMA WriteFiles ==
  ASSUME FilesInv, NEW f \in Files, NEW x, NEW next, Fits(f, x, next), ~Committed(f), Writes(f, x)
  PROVE  /\ FilesInv' /\ FinalKept
         /\ \A v \in Versions : Committed(Release(v))' <=> Committed(Release(v))
         /\ \A v \in Versions : Committed(Release(v)) => file'[Release(v)].val = file[Release(v)].val
<1>1. FileTypes' /\ FinalKept /\ RotationFiles' /\ \A v \in Versions : VersionFiles(v)'
  BY WriteTypes, WriteRotation, WriteVersion DEF FilesInv
<1>2. ~Committed(f)'
  BY DEF Writes, Committed
<1>3. ASSUME NEW v \in Versions
      PROVE  /\ Committed(Release(v))' <=> Committed(Release(v))
             /\ Committed(Release(v)) => file'[Release(v)].val = file[Release(v)].val
  <2>1. CASE Release(v) = f
    BY <1>2, <2>1
  <2>2. CASE Release(v) # f
    BY <2>2, FilesAre, OthersSame
  <2> QED BY <2>1, <2>2
<1>4. TargetsUnique'
  BY <1>3, UniqueKept DEF FilesInv
<1> QED BY <1>1, <1>3, <1>4 DEF FilesInv

LEMMA SamePrevious ==
  ASSUME NoGap,
         \A v \in Versions : Committed(Release(v))' <=> Committed(Release(v)),
         \A v \in Versions : Committed(Release(v)) => file'[Release(v)].val = file[Release(v)].val
  PROVE  Latest' = Latest /\ NoGap' /\ Next1' = Next1 /\ Previous' = Previous
<1>1. Latest' = Latest /\ NoGap' /\ Next1' = Next1
  BY SameLatest
<1>2. CASE Latest = 0
  BY <1>1, <1>2 DEF Previous
<1>3. CASE Latest # 0
  <2>1. Latest \in Nat /\ Latest > 0
    BY <1>3, LatestIs
  <2>2. Latest \in Versions /\ Previous = file[Release(Latest)].val
    BY <2>1, HistoryIs
  <2>3. Latest' > 0 /\ Latest' \in 1 .. Latest'
    BY <1>1, <2>1
  <2>4. Previous' = file'[Release(Latest')].val
    BY <2>3 DEF Previous, History, Release
  <2>5. Committed(Release(Latest))
    BY <2>1, <2>2, Gapless
  <2> QED BY <1>1, <2>2, <2>4, <2>5
<1> QED BY <1>1, <1>2, <1>3

\* What was to be installed still is.
LEMMA FitsWrite ==
  ASSUME FilesInv, NoGap, NEW f \in Files, NEW x, NEW next, Fits(f, x, next), ~Committed(f), Writes(f, x)
  PROVE  Fits(f, x, next)' /\ NoGap'
<1>1. /\ FinalKept
      /\ Next1' = Next1 /\ Previous' = Previous /\ NoGap'
  BY WriteFiles, SamePrevious
<1>2. CASE f = Key /\ next = "handover" /\ x.role \in {"targets", "root"} /\ ~OnlineIntent
  BY <1>1, <1>2, FileNames, FilesAre, OthersSame DEF Fits, OnlineIntent
<1>3. CASE f = RotationIntent /\ next = "root" /\ x.role \in AllRoles
             /\ IF x.role = "online" THEN ~Exists(Key) ELSE Final(Key) /\ file[Key].val = x
  BY <1>1, <1>3, FileNames, FilesAre, OthersSame DEF Fits
<1>4. CASE f = Rotation /\ next = "done" /\ Rooted(x)
  BY <1>1, <1>4, RootedKept DEF Fits
<1>5. ASSUME NEW v \in Versions, f = Intent(v), next = "renewal", v = Next1, v > 1, ~Readable(Apply(v))
      PROVE  Fits(f, x, next)'
  <2>1. ~Readable(Apply(v))'
    BY <1>5, FileNames, FilesAre, OthersSame
  <2> QED BY <1>1, <1>5, <2>1 DEF Fits
<1>6. ASSUME NEW v \in Versions, f = Apply(v), next \in {"handoff", "resume"}, v = Next1, v > 1,
             ~Readable(Intent(v)), Rooted(x.rotation)
      PROVE  Fits(f, x, next)'
  <2>1. ~Readable(Intent(v))'
    BY <1>6, FileNames, FilesAre, OthersSame
  <2>2. PICK y : y = x.rotation
    OBVIOUS
  <2>3. Rooted(y)'
    BY <1>1, <1>6, <2>2, RootedKept
  <2>4. Rooted(x.rotation)'
    BY <2>2, <2>3 DEF Rooted
  <2> QED BY <1>1, <1>6, <2>1, <2>4 DEF Fits
<1>7. ASSUME NEW v \in Versions, f = Handoff(v), next \in {"resume", "sign"}, v = Next1, v > 1,
             Final(Apply(v)), x.version = v
      PROVE  Fits(f, x, next)'
  <2>1. Final(Apply(v))'
    BY <1>7, FileNames, FilesAre, OthersSame
  <2> QED BY <1>1, <1>7, <2>1 DEF Fits
<1>8. ASSUME NEW v \in Versions, f = Release(v), next = "publish", Formed(x, v), Reserved(x, v),
             Committed(f) \/ (v = Next1 /\ x.previous = Previous)
      PROVE  Fits(f, x, next)'
  <2>1. Formed(x, v)' /\ Reserved(x, v)'
    BY <1>1, <1>8, FormedKept, ReservedKept
  <2> QED BY <1>1, <1>8, <2>1 DEF Fits
<1> QED BY <1>1, <1>2, <1>3, <1>4, <1>5, <1>6, <1>7, <1>8 DEF Fits

\* A release that is shown extends the journal by one.
LEMMA LinkRelease ==
  ASSUME FilesInv, NoGap, NEW v \in Versions, NEW x, ~Committed(Release(v)), Formed(x, v),
         v = Next1, x.previous = Previous, Links(Release(v), x)
  PROVE  TargetsUnique' /\ NoGap' /\ Committed(Release(v))'
<1>1. Committed(Release(v))' /\ TargetsOf(v)' = x.targets
  BY DEF Links, Committed, TargetsOf
<1>2. \A u \in Versions \ {v} : /\ Committed(Release(u))' <=> Committed(Release(u))
                                /\ TargetsOf(u)' = TargetsOf(u)
  BY FileNames, FilesAre, OthersSame DEF TargetsOf
<1>3. NoGap'
  BY <1>1, <1>2, OneMore
<1>4. v = Latest + 1 /\ Latest \in Nat /\ v \in Nat
  BY LatestIs DEF Next1
<1>5. \A u \in Versions \ {v} : Committed(Release(u)) => u < v /\ u \in Nat
  BY <1>4, Gapless, VersionsAre
<1>6. ASSUME NEW u \in Versions \ {v}, Committed(Release(u))
      PROVE  /\ TargetsOf(u).version \in 1 .. u /\ TargetsOf(u).version # v
             /\ \A w \in Versions \ {v} : Committed(Release(w)) /\ TargetsOf(w).version = TargetsOf(u).version =>
                  TargetsOf(w) = TargetsOf(u)
  <2>1. TargetsOf(u).version \in 1 .. u
    BY <1>6 DEF FilesInv, TargetsUnique
  <2>2. TargetsOf(u).version # v
    BY <1>4, <1>5, <1>6, <2>1
  <2> QED BY <1>6, <2>1, <2>2 DEF FilesInv, TargetsUnique
<1>7. CASE x.targets.version = v
  <2>1. x.targets.version \in 1 .. v
    BY <1>4, <1>7
  <2> QED BY <1>1, <1>2, <1>3, <1>6, <1>7, <2>1 DEF TargetsUnique
<1>8. CASE v > 1 /\ x.targets = x.previous.targets
  <2>1. Latest > 0
    BY <1>4, <1>8
  <2>2. Latest \in Versions \ {v} /\ x.targets = TargetsOf(Latest)
    BY <1>4, <1>8, <2>1, HistoryIs DEF TargetsOf
  <2>3. Committed(Release(Latest))
    BY <1>4, <2>2, Gapless
  <2>4. x.targets.version \in 1 .. v
    BY <1>4, <1>6, <2>2, <2>3
  <2>5. \A u \in Versions \ {v} : Committed(Release(u)) /\ TargetsOf(u).version = x.targets.version =>
          TargetsOf(u) = x.targets
    BY <1>6, <2>2, <2>3
  <2>6. ASSUME NEW u \in Versions, Committed(Release(u))'
        PROVE  /\ TargetsOf(u)'.version \in 1 .. u
               /\ \A w \in Versions : Committed(Release(w))' /\ TargetsOf(w)'.version = TargetsOf(u)'.version =>
                    TargetsOf(w)' = TargetsOf(u)'
    <3>1. CASE u = v
      BY <1>1, <1>2, <2>4, <2>5, <3>1
    <3>2. CASE u # v
      BY <1>1, <1>2, <1>6, <2>5, <2>6, <3>2
    <3> QED BY <3>1, <3>2
  <2> QED BY <1>1, <1>3, <2>6 DEF TargetsUnique
<1> QED BY <1>7, <1>8 DEF Formed

LEMMA LinkFiles ==
  ASSUME FilesInv, NoGap, NEW f \in Files, NEW x, NEW next, Fits(f, x, next), ~Committed(f), Links(f, x)
  PROVE  FilesInv' /\ FinalKept /\ NoGap' /\ Fits(f, x, next)'
<1>1. FileTypes' /\ FinalKept /\ RotationFiles' /\ \A v \in Versions : VersionFiles(v)'
  BY WriteTypes, WriteRotation, WriteVersion DEF FilesInv
<1>2. ASSUME NEW v \in Versions, f = Release(v)
      PROVE  TargetsUnique' /\ NoGap' /\ Fits(f, x, next)'
  <2>1. Formed(x, v) /\ Reserved(x, v) /\ v = Next1 /\ x.previous = Previous /\ next = "publish"
    BY <1>2, FileNames DEF Fits
  <2>2. TargetsUnique' /\ NoGap' /\ Committed(f)'
    BY <1>2, <2>1, LinkRelease
  <2>3. Formed(x, v)' /\ Reserved(x, v)'
    BY <1>1, <2>1, FormedKept, ReservedKept
  <2> QED BY <1>2, <2>1, <2>2, <2>3 DEF Fits
<1>3. ASSUME \A v \in Versions : f # Release(v)
      PROVE  TargetsUnique' /\ NoGap' /\ Fits(f, x, next)'
  <2>1. \A v \in Versions : /\ Committed(Release(v))' <=> Committed(Release(v))
                            /\ file'[Release(v)] = file[Release(v)]
    BY <1>3, FilesAre, OthersSame
  <2>2. TargetsUnique'
    BY <2>1, UniqueKept DEF FilesInv
  <2>3. Next1' = Next1 /\ NoGap'
    BY <2>1, SamePrevious
  <2>4. CASE f = Key /\ next = "handover" /\ x.role \in {"targets", "root"} /\ ~OnlineIntent
    BY <2>2, <2>3, <2>4, FileNames, FilesAre, OthersSame DEF Fits, OnlineIntent
  <2>5. CASE f = RotationIntent /\ next = "root" /\ x.role \in AllRoles
               /\ IF x.role = "online" THEN ~Exists(Key) ELSE Final(Key) /\ file[Key].val = x
    BY <2>2, <2>3, <2>5, FileNames, FilesAre, OthersSame DEF Fits
  <2>6. CASE f = Rotation /\ next = "done" /\ Rooted(x)
    BY <1>1, <2>2, <2>3, <2>6, RootedKept DEF Fits
  <2>7. ASSUME NEW v \in Versions, f = Intent(v), next = "renewal", v = Next1, v > 1, ~Readable(Apply(v))
        PROVE  Fits(f, x, next)'
    <3>1. ~Readable(Apply(v))'
      BY <2>7, FileNames, FilesAre, OthersSame
    <3> QED BY <2>3, <2>7, <3>1 DEF Fits
  <2>8. ASSUME NEW v \in Versions, f = Apply(v), next \in {"handoff", "resume"}, v = Next1, v > 1,
               ~Readable(Intent(v)), Rooted(x.rotation)
        PROVE  Fits(f, x, next)'
    <3>1. ~Readable(Intent(v))'
      BY <2>8, FileNames, FilesAre, OthersSame
    <3>2. PICK y : y = x.rotation
      OBVIOUS
    <3>3. Rooted(y)'
      BY <1>1, <2>8, <3>2, RootedKept
    <3>4. Rooted(x.rotation)'
      BY <3>2, <3>3 DEF Rooted
    <3> QED BY <2>3, <2>8, <3>1, <3>4 DEF Fits
  <2>9. ASSUME NEW v \in Versions, f = Handoff(v), next \in {"resume", "sign"}, v = Next1, v > 1,
               Final(Apply(v)), x.version = v
        PROVE  Fits(f, x, next)'
    <3>1. Final(Apply(v))'
      BY <2>9, FileNames, FilesAre, OthersSame
    <3> QED BY <2>3, <2>9, <3>1 DEF Fits
  <2> QED BY <1>3, <2>2, <2>3, <2>4, <2>5, <2>6, <2>7, <2>8, <2>9 DEF Fits
<1>4. TargetsUnique' /\ NoGap' /\ Fits(f, x, next)'
  BY <1>2, <1>3
<1> QED BY <1>1, <1>4 DEF FilesInv

-----------------------------------------------------------------------------
(* Syncs, crashes, and records that are removed.                           *)

LEMMA SyncFacts ==
  ASSUME FileTypes, NEW f \in Files, file' = SyncedDir(f)
  PROVE  /\ NothingNew
         /\ \A g \in Files : /\ Committed(g)' <=> Committed(g)
                             /\ file'[g].val = file[g].val
         /\ Committed(f) => Final(f)'
         /\ f # Key => \A g \in Files \ {Key} : Committed(g) => Final(g)'
<1>1. ASSUME NEW g \in Files
      PROVE  /\ file'[g] = IF g \in InDirOf(f) /\ file[g].st = "linked"
                             THEN [file[g] EXCEPT !.st = "final"] ELSE file[g]
             /\ file[g].st \in Stages /\ file[g] = [st |-> file[g].st, val |-> file[g].val]
  BY DEF SyncedDir, FileTypes
<1>2. ASSUME NEW g \in Files
      PROVE  /\ file'[g] = [st |-> file'[g].st, val |-> file[g].val]
             /\ file'[g].st = IF g \in InDirOf(f) /\ file[g].st = "linked" THEN "final" ELSE file[g].st
  <2>1. PICK s, y : file[g] = [st |-> s, val |-> y]
    BY <1>1
  <2> QED BY <1>1, <2>1
<1>3. \A g \in Files : file'[g].val = file[g].val /\ file'[g].st \in Stages
  BY <1>1, <1>2 DEF Stages
<1>4. DOMAIN file' = Files
  BY DEF SyncedDir
<1>5. FileTypes'
  BY <1>2, <1>3, <1>4 DEF FileTypes
<1>6. ASSUME NEW g \in Files
      PROVE  /\ Committed(g)' <=> Committed(g)
             /\ Readable(g)' <=> Readable(g)
             /\ Exists(g)' <=> Exists(g)
             /\ Final(g) => file'[g] = file[g]
  BY <1>1, <1>2 DEF Committed, Readable, Exists, Final
<1>7. NothingNew
  BY <1>3, <1>5, <1>6, FilesAre DEF NothingNew, FinalKept
<1>8. ASSUME NEW g \in InDirOf(f), g \in Files, Committed(g) PROVE Final(g)'
  BY <1>2, <1>8 DEF Committed, Final
<1>9. f \in InDirOf(f) /\ (f # Key => \A g \in Files \ {Key} : g \in InDirOf(f))
  BY DEF InDirOf
<1> QED BY <1>3, <1>6, <1>7, <1>8, <1>9

LEMMA RemoveFacts ==
  ASSUME FileTypes, NEW f \in Files, ~Readable(f), file' = Removed(f)
  PROVE  NothingNew /\ \A g \in Files : Committed(g)' => Committed(g)
<1>1. /\ file'[f] = [st |-> "none", val |-> Nothing]
      /\ \A g \in Files \ {f} : file'[g] = file[g]
      /\ DOMAIN file' = Files
  BY DEF Removed, FileTypes
<1>2. FileTypes'
  BY <1>1 DEF FileTypes, Stages
<1>3. \A g \in Files : /\ Final(g) => file'[g] = file[g]
                       /\ Readable(g)' => Readable(g) /\ file'[g] = file[g]
                       /\ Exists(g)' => Exists(g)
                       /\ Committed(g)' => Committed(g)
  BY <1>1 DEF Final, Readable, Exists, Committed
<1> QED BY <1>2, <1>3, FilesAre DEF NothingNew, FinalKept

\* A record torn in the middle of its writing.
LEMMA TornFacts ==
  ASSUME FileTypes, NEW f \in Files, ~Committed(f), f = Key => ~OnlineIntent,
         file' = [file EXCEPT ![f] = [st |-> "torn", val |-> Nothing]]
  PROVE  NothingNew /\ \A g \in Files : Committed(g)' => Committed(g)
<1>1. /\ file'[f] = [st |-> "torn", val |-> Nothing]
      /\ \A g \in Files \ {f} : file'[g] = file[g]
      /\ DOMAIN file' = Files
  BY DEF FileTypes
<1>2. FileTypes'
  BY <1>1 DEF FileTypes, Stages
<1>3. \A g \in Files : /\ Final(g) => file'[g] = file[g]
                       /\ Readable(g)' => Readable(g) /\ file'[g] = file[g]
                       /\ Exists(g)' => Exists(g) \/ g = f
                       /\ Committed(g)' => Committed(g)
  BY <1>1 DEF Final, Readable, Exists, Committed
<1> QED BY <1>2, <1>3, FilesAre DEF NothingNew, FinalKept

LEMMA PowerLossFacts ==
  ASSUME FileTypes, PowerLoss
  PROVE  NothingNew /\ \A g \in Files : Committed(g)' => Committed(g)
<1> DEFINE unsettled == {f \in Files : file[f].st \notin {"none", "final"}}
<1>1. PICK left \in [unsettled -> {"none", "torn", "pending", "final"}] :
        /\ \A f \in unsettled : left[f] \in Left(f)
        /\ file' = [f \in Files |->
             IF f \notin unsettled THEN file[f]
             ELSE [st |-> left[f], val |-> IF left[f] \in {"none", "torn"} THEN Nothing ELSE file[f].val]]
  BY DEF PowerLoss
<1>2. ASSUME NEW g \in Files, g \notin unsettled
      PROVE  file'[g] = file[g]
  BY <1>1, <1>2
<1>3. ASSUME NEW g \in Files, g \in unsettled
      PROVE  /\ file[g].st \in {"torn", "pending", "linked"} /\ file'[g].st \in Left(g)
             /\ file'[g].st \in {"none", "torn", "pending", "final"}
             /\ file'[g] = [st |-> file'[g].st, val |-> file'[g].val]
             /\ file'[g].st \notin {"none", "torn"} => file'[g].val = file[g].val
  <2>1. file'[g] = [st |-> left[g], val |-> IF left[g] \in {"none", "torn"} THEN Nothing ELSE file[g].val]
    BY <1>1, <1>3
  <2>2. left[g] \in Left(g) /\ left[g] \in {"none", "torn", "pending", "final"}
    BY <1>1, <1>3
  <2>3. file[g].st \in Stages /\ file[g].st \notin {"none", "final"}
    BY <1>3 DEF FileTypes
  <2>4. file[g].st \in {"torn", "pending", "linked"}
    BY <2>3 DEF Stages
  <2> QED BY <2>1, <2>2, <2>4
<1>4. FileTypes'
  <2>1. DOMAIN file' = Files
    BY <1>1
  <2>2. ASSUME NEW g \in Files
        PROVE  file'[g].st \in Stages /\ file'[g] = [st |-> file'[g].st, val |-> file'[g].val]
    <3>1. CASE g \notin unsettled
      BY <1>2, <3>1 DEF FileTypes
    <3>2. CASE g \in unsettled
      BY <1>3, <3>2 DEF Stages
    <3> QED BY <3>1, <3>2
  <2> QED BY <2>1, <2>2 DEF FileTypes
<1>5. ASSUME NEW g \in Files
      PROVE  /\ Final(g) => file'[g] = file[g]
             /\ Readable(g)' => Readable(g) /\ file'[g].val = file[g].val
             /\ Exists(g)' => Exists(g)
             /\ Committed(g)' => Committed(g)
  <2>1. CASE g \notin unsettled
    BY <1>2, <2>1 DEF Final, Readable, Exists, Committed
  <2>2. CASE g \in unsettled
    <3>1. file[g].st = "torn" => file'[g].st \in {"none", "torn"}
      BY <1>3, <2>2 DEF Left
    <3>2. file[g].st = "pending" => file'[g].st \in {"none", "torn", "pending"}
      BY <1>3, <2>2 DEF Left
    <3> HIDE DEF unsettled
    <3> QED BY <1>3, <2>2, <3>1, <3>2 DEF Final, Readable, Exists, Committed
  <2> QED BY <2>1, <2>2
<1> QED BY <1>4, <1>5, FilesAre DEF NothingNew, FinalKept

-----------------------------------------------------------------------------
(* The command.                                                            *)

LEMMA CommandEnds ==
  ASSUME cmd' = Idle
  PROVE  CmdInv' /\ TodoInv'
<1>1. cmd'.pc = "idle"
  BY DEF Idle
<1> QED BY <1>1 DEF CmdInv, TodoInv, LongPcs, OtherPcs

\* The journal is as it was.
LEMMA SameJournal ==
  ASSUME file' = file
  PROVE  /\ FilesInv' <=> FilesInv
         /\ Latest' = Latest /\ (NoGap' <=> NoGap) /\ Next1' = Next1 /\ Previous' = Previous
         /\ \A f : (Final(f)' <=> Final(f)) /\ (Readable(f)' <=> Readable(f)) /\ (Committed(f)' <=> Committed(f))
         /\ \A x : Rooted(x)' <=> Rooted(x)
         /\ \A f, x, next : Fits(f, x, next)' <=> Fits(f, x, next)
<1>1. \A f : /\ Final(f)' <=> Final(f)
             /\ Readable(f)' <=> Readable(f)
             /\ Committed(f)' <=> Committed(f)
             /\ Exists(f)' <=> Exists(f)
  BY DEF Final, Readable, Committed, Exists
<1>2. Latest' = Latest /\ (NoGap' <=> NoGap) /\ Next1' = Next1
  BY <1>1, SameLatest
<1>3. Previous' = Previous
  BY <1>2 DEF Previous, History
<1>4. \A x : Rooted(x)' <=> Rooted(x)
  BY <1>1 DEF Rooted, FirstFile
<1>5. \A r, v : (Formed(r, v)' <=> Formed(r, v)) /\ (Reserved(r, v)' <=> Reserved(r, v))
  BY <1>1, <1>4 DEF Formed, Reserved
<1>6. \A f, x, next : Fits(f, x, next)' <=> Fits(f, x, next)
  BY <1>1, <1>2, <1>3, <1>4, <1>5 DEF Fits, OnlineIntent
<1>7. FilesInv' <=> FilesInv
  BY <1>1, <1>4, <1>5 DEF FilesInv, FileTypes, RotationFiles, OnlineIntent, VersionFiles, TargetsUnique, TargetsOf
<1> QED BY <1>1, <1>2, <1>3, <1>4, <1>6, <1>7

\* A record that fits may be installed.
LEMMA Installs ==
  ASSUME FilesInv, NoGap, file' = file, NEW o, NEW f \in Files, NEW x, NEW next, NEW now,
         cmd' = [op |-> o, pc |-> "install", f |-> f, x |-> x, next |-> next, now |-> now],
         Fits(f, x, next)
  PROVE  CmdInv' /\ TodoInv'
<1>1. cmd'.pc = "install" /\ cmd'.f = f /\ cmd'.x = x /\ cmd'.next = next /\ cmd'.op = o /\ cmd'.now = now
  OBVIOUS
<1>2. NoGap' /\ Fits(f, x, next)'
  BY SameJournal
<1>3. Fits(cmd.f, cmd.x, cmd.next)'
  BY <1>1, <1>2 DEF Fits
<1>4. cmd' = [op |-> cmd'.op, pc |-> cmd'.pc, f |-> cmd'.f, x |-> cmd'.x, next |-> cmd'.next, now |-> cmd'.now]
  BY <1>1
<1> QED BY <1>1, <1>2, <1>3, <1>4 DEF CmdInv, TodoInv, LongPcs, OtherPcs

\* A command that has nothing to install starts to publish.
LEMMA StartsPublishing ==
  ASSUME NoGap, Latest > 0, file' = file, NEW o, NEW now, cmd' = [op |-> o, pc |-> "publish", now |-> now]
  PROVE  CmdInv' /\ TodoInv'
<1>1. cmd'.pc = "publish"
  OBVIOUS
<1>2. NoGap' /\ Latest' > 0
  BY SameJournal
<1> QED BY <1>1, <1>2 DEF CmdInv, TodoInv, LongPcs, OtherPcs

LEMMA NextVersion ==
  /\ Next1 \in Nat /\ (Signs(Next1) => Next1 \in Versions)
  /\ Latest > 0 <=> Next1 > 1
<1>1. Latest \in Nat /\ Next1 = Latest + 1
  BY LatestIs DEF Next1
<1> QED BY <1>1, VersionsAre DEF Signs

LEMMA RootHasKey ==
  ASSUME FilesInv, NoGap
  PROVE  CurrentRoot = Nothing \/ Rooted(CurrentRoot)
<1>1. CASE Latest = 0
  BY <1>1 DEF CurrentRoot
<1>2. CASE Latest > 0
  <2>1. Latest \in Versions /\ CurrentRoot = file[Release(Latest)].val.root
    BY <1>2, HistoryIs
  <2>2. Readable(Release(Latest))
    BY <2>1, LatestIs, Gapless, CommittedReadable
  <2>3. Formed(file[Release(Latest)].val, Latest)
    BY <2>1, <2>2 DEF FilesInv, VersionFiles
  <2> QED BY <2>1, <2>3 DEF Formed
<1> QED BY <1>1, <1>2, LatestIs

-----------------------------------------------------------------------------
(* How commands start.                                                      *)

LEMMA PublishNextFits ==
  ASSUME FilesInv, NEW m, PublishNext(m)
  PROVE  FilesInv' /\ CmdInv' /\ TodoInv'
<1> DEFINE v == Next1
           r == IF Signs(v) /\ Readable(Release(v)) THEN file[Release(v)].val ELSE Approved(v, m, clock)
<1>1. /\ NoGap /\ file' = file /\ v \in Versions /\ r.kind = "approval" /\ r.previous = Previous
      /\ cmd' = [op |-> "publish", pc |-> "install", f |-> Release(v), x |-> r, next |-> "publish", now |-> clock]
  BY NextVersion DEF PublishNext, Starts, Install
<1>2. Formed(r, v)
  <2>1. CASE Readable(Release(v)) /\ Signs(v)
    BY <1>1, <2>1 DEF FilesInv, VersionFiles
  <2>2. CASE ~(Readable(Release(v)) /\ Signs(v))
    <3>1. r = Approved(v, m, clock)
      BY <2>2
    <3>2. r.version = v /\ r.targets.version = v /\ r.root = CurrentRoot
      BY <3>1 DEF Approved
    <3> QED BY <1>1, <3>2, RootHasKey DEF Formed
  <2> QED BY <2>1, <2>2
<1>3. Reserved(r, v)
  BY <1>1 DEF Reserved
<1> HIDE DEF r
<1>4. Fits(Release(v), r, "publish")
  BY <1>1, <1>2, <1>3 DEF Fits
<1>5. PICK f \in Files : f = Release(v)
  BY <1>1, FilesAre
<1>6. PICK x : x = r
  OBVIOUS
<1> QED BY <1>1, <1>4, <1>5, <1>6, Installs, SameJournal

LEMMA RenewFits ==
  ASSUME FilesInv, Renew
  PROVE  FilesInv' /\ CmdInv' /\ TodoInv'
<1> DEFINE v == Next1
<1>1. NoGap /\ cmd = Idle /\ Latest > 0 /\ v > 1
  BY NextVersion DEF Renew, RenewResumes, RenewFinishes, RenewTooLate, RenewRepeats, RenewBegins, Starts
<1>2. \A f : ~Exists(f) => ~Readable(f)
  BY CommittedReadable
<1>3. CASE RenewResumes
  <2>1. /\ file' = file /\ v \in Versions /\ Readable(Apply(v)) /\ ~Readable(Intent(v))
        /\ cmd' = [op |-> "renew", pc |-> "install", f |-> Apply(v), x |-> file[Apply(v)].val,
                   next |-> "resume", now |-> clock]
    BY <1>2, <1>3, NextVersion DEF RenewResumes, Install
  <2>2. Rooted(file[Apply(v)].val.rotation)
    BY <2>1 DEF FilesInv, VersionFiles
  <2>3. Fits(Apply(v), file[Apply(v)].val, "resume")
    BY <1>1, <2>1, <2>2 DEF Fits
  <2>4. PICK f \in Files : f = Apply(v)
    BY <2>1, FilesAre
  <2>5. PICK x : x = file[Apply(v)].val
    OBVIOUS
  <2> QED BY <1>1, <2>1, <2>3, <2>4, <2>5, Installs, SameJournal
<1>4. CASE RenewFinishes \/ RenewBegins
  <2>1. PICK x : /\ file' = file /\ v \in Versions /\ ~Readable(Apply(v))
                 /\ cmd' = [op |-> "renew", pc |-> "install", f |-> Intent(v), x |-> x,
                            next |-> "renewal", now |-> clock]
    BY <1>2, <1>4, NextVersion DEF RenewFinishes, RenewBegins, Unreserved, Install
  <2>2. Fits(Intent(v), x, "renewal")
    BY <1>1, <2>1 DEF Fits
  <2>3. PICK f \in Files : f = Intent(v)
    BY <2>1, FilesAre
  <2> QED BY <1>1, <2>1, <2>2, <2>3, Installs, SameJournal
<1>5. CASE RenewTooLate
  <2>1. v \in Versions /\ ~Readable(Intent(v)) /\ file' = Removed(Intent(v)) /\ cmd' = Idle
    BY <1>1, <1>5, NextVersion DEF RenewTooLate, Unreserved
  <2>2. PICK f \in Files : f = Intent(v)
    BY <2>1, FilesAre
  <2>3. FilesInv'
    BY <2>1, <2>2, RemoveFacts, FilesKept, FilesAre DEF FilesInv
  <2> QED BY <2>1, <2>3, CommandEnds
<1>6. CASE RenewRepeats
  BY <1>1, <1>6, StartsPublishing, SameJournal DEF RenewRepeats, Publishes
<1> QED BY <1>3, <1>4, <1>5, <1>6 DEF Renew

LEMMA PrepareFits ==
  ASSUME FilesInv, NEW role \in Roles, PrepareNew(role) \/ PrepareAgain(role)
  PROVE  FilesInv' /\ CmdInv' /\ TodoInv'
<1>1. /\ NoGap /\ role \in AllRoles /\ file' = file
      /\ role = "online" => ~Exists(Key)
      /\ Readable(RotationIntent) => file[RotationIntent].val.role = role
  BY OmegaAssumption DEF PrepareNew, PrepareAgain, Prepares, Starts, AllRoles
<1>2. PICK x : /\ x.role = role
               /\ cmd' = [op |-> "rotate", pc |-> "install", f |-> FirstFile(role), x |-> x,
                          next |-> AfterFirst(role), now |-> clock]
  <2>1. CASE PrepareNew(role)
    <3>1. PICK x : /\ x = [kind |-> "rotation", role |-> role, key |-> keys + 1, created |-> clock]
                   /\ cmd' = [op |-> "rotate", pc |-> "install", f |-> FirstFile(role), x |-> x,
                              next |-> AfterFirst(role), now |-> clock]
      BY <2>1 DEF PrepareNew, Install
    <3> QED BY <3>1
  <2>2. CASE PrepareAgain(role)
    <3>1. file[FirstFile(role)].val.role = role
      BY <2>2, FirstFiles DEF PrepareAgain, Prepares
    <3> QED BY <2>2, <3>1 DEF PrepareAgain, Install
  <2> QED BY <2>1, <2>2
<1>3. Fits(FirstFile(role), x, AfterFirst(role))
  <2>1. CASE role = "online"
    BY <1>1, <1>2, <2>1 DEF Fits, FirstFile, AfterFirst
  <2>2. CASE role # "online"
    <3>1. ~OnlineIntent
      BY <1>1, <2>2 DEF OnlineIntent
    <3>2. x.role \in {"targets", "root"}
      BY <1>1, <1>2, <2>2 DEF AllRoles
    <3> QED BY <2>2, <3>1, <3>2 DEF Fits, FirstFile, AfterFirst
  <2> QED BY <2>1, <2>2
<1>4. PICK f \in Files : f = FirstFile(role)
  BY FirstFiles
<1>5. PICK n : n = AfterFirst(role)
  OBVIOUS
<1> QED BY <1>1, <1>2, <1>3, <1>4, <1>5, Installs, SameJournal

LEMMA ApplyFits ==
  ASSUME FilesInv, ApplyReserves \/ ApplyTooLate \/ ApplyAgain
  PROVE  FilesInv' /\ CmdInv' /\ TodoInv'
<1> DEFINE v == Next1
<1>1. NoGap /\ cmd = Idle /\ Latest > 0 /\ v > 1 /\ Committed(Rotation)
  BY NextVersion DEF ApplyReserves, ApplyTooLate, ApplyAgain, Applies, Starts
<1>2. CASE ApplyReserves
  <2>1. PICK x : /\ file' = file /\ v \in Versions
                 /\ x = IF Readable(Apply(v)) THEN file[Apply(v)].val
                        ELSE [kind |-> "apply", rotation |-> file[Rotation].val, created |-> clock, previous |-> Previous]
                 /\ ~Readable(Apply(v)) => ~Exists(Intent(v))
                 /\ cmd' = [op |-> "rotate", pc |-> "install", f |-> Apply(v), x |-> x,
                            next |-> "handoff", now |-> clock]
    BY <1>2, NextVersion DEF ApplyReserves, Install
  <2>2. ~Readable(Intent(v))
    BY <2>1, CommittedReadable DEF FilesInv, VersionFiles
  <2>3. Rooted(x.rotation)
    <3>1. CASE Readable(Apply(v))
      BY <2>1, <3>1 DEF FilesInv, VersionFiles
    <3>2. CASE ~Readable(Apply(v))
      <4>1. x.rotation = file[Rotation].val
        BY <2>1, <3>2
      <4> QED BY <1>1, <4>1, CommittedReadable DEF FilesInv, RotationFiles
    <3> QED BY <3>1, <3>2
  <2>4. Fits(Apply(v), x, "handoff")
    BY <1>1, <2>1, <2>2, <2>3 DEF Fits
  <2>5. PICK f \in Files : f = Apply(v)
    BY <2>1, FilesAre
  <2> QED BY <1>1, <2>1, <2>4, <2>5, Installs, SameJournal
<1>3. CASE ApplyTooLate
  <2>1. v \in Versions /\ ~Readable(Apply(v)) /\ file' = Removed(Apply(v)) /\ cmd' = Idle
    BY <1>1, <1>3, NextVersion DEF ApplyTooLate, Readable
  <2>2. PICK f \in Files : f = Apply(v)
    BY <2>1, FilesAre
  <2>3. FilesInv'
    BY <2>1, <2>2, RemoveFacts, FilesKept, FilesAre DEF FilesInv
  <2> QED BY <2>1, <2>3, CommandEnds
<1>4. CASE ApplyAgain
  BY <1>1, <1>4, StartsPublishing, SameJournal DEF ApplyAgain, Publishes
<1> QED BY <1>2, <1>3, <1>4

-----------------------------------------------------------------------------
(* How they go on.                                                          *)

\* What every step of a running command starts from.
JournalInv == FilesInv /\ CmdInv

Keeps == FilesInv' /\ CmdInv' /\ TodoInv'

Long(c) == c = [op |-> c.op, pc |-> c.pc, f |-> c.f, x |-> c.x, next |-> c.next, now |-> c.now]

LEMMA LongIs == ASSUME CmdInv, cmd.pc \in LongPcs PROVE Long(cmd) /\ NoGap
BY DEF CmdInv, Long, LongPcs

LEMMA GoesOnFits ==
  ASSUME JournalInv, cmd.pc \in LongPcs, file' = file, NEW f \in Files, NEW x, NEW next,
         GoesOn(f, x, next), Fits(f, x, next)
  PROVE  Keeps
<1>1. Long(cmd) /\ NoGap /\ FilesInv'
  BY LongIs, SameJournal DEF JournalInv
<1>2. CASE cmd' = Idle
  BY <1>1, <1>2, CommandEnds DEF Keeps
<1>3. CASE cmd' = [cmd EXCEPT !.pc = "install", !.f = f, !.x = x, !.next = next]
  <2>1. PICK o, p, g, y, n, t : cmd = [op |-> o, pc |-> p, f |-> g, x |-> y, next |-> n, now |-> t]
    BY <1>1 DEF Long
  <2>2. cmd' = [op |-> o, pc |-> "install", f |-> f, x |-> x, next |-> next, now |-> t]
    BY <1>3, <2>1
  <2> QED BY <1>1, <2>2, Installs DEF Keeps, JournalInv
<1> QED BY <1>2, <1>3 DEF GoesOn

\* A step of a running command that changes only where it stands.
LEMMA Proceeds ==
  ASSUME JournalInv, cmd.pc \in LongPcs, NEW p \in LongPcs, cmd' = [cmd EXCEPT !.pc = p]
  PROVE  /\ cmd'.pc = p /\ cmd'.f = cmd.f /\ cmd'.x = cmd.x /\ cmd'.next = cmd.next /\ Long(cmd')
<1>1. PICK o, q, g, y, n, t : cmd = [op |-> o, pc |-> q, f |-> g, x |-> y, next |-> n, now |-> t]
  BY LongIs DEF Long, JournalInv
<1>2. cmd' = [op |-> o, pc |-> p, f |-> g, x |-> y, next |-> n, now |-> t]
  BY <1>1
<1> QED BY <1>1, <1>2 DEF Long

LEMMA WriteLinkKeep ==
  ASSUME JournalInv, TodoInv, Write \/ Link
  PROVE  Keeps
<1> DEFINE f == cmd.f
           x == cmd.x
           next == cmd.next
<1>1. f \in Files /\ Fits(f, x, next) /\ NoGap /\ cmd' = cmd /\ cmd.pc = "install" /\ Long(cmd)
  BY LongIs DEF JournalInv, CmdInv, Write, Link, LongPcs
<1> HIDE DEF f, x, next
<1>2. FilesInv' /\ NoGap' /\ Fits(f, x, next)'
  <2>0. \A g \in Files : file[g] = [st |-> file[g].st, val |-> file[g].val] /\ DOMAIN file = Files
    BY DEF JournalInv, FilesInv, FileTypes
  <2>g. PICK g \in Files : g = f
    BY <1>1
  <2>y. PICK y, n : y = x /\ n = next
    OBVIOUS
  <2>2. CASE Write
    <3>1. ~Committed(g) /\ Writes(g, y)
      BY <2>0, <2>g, <2>y, <2>2 DEF Write, Writes, f, x
    <3>2. FilesInv' /\ NoGap' /\ Fits(g, y, n)'
      BY <1>1, <2>g, <2>y, <3>1, WriteFiles, FitsWrite DEF JournalInv
    <3> QED BY <1>1, <2>g, <2>y, <3>2 DEF Fits, f, x, next
  <2>3. CASE Link
    <3>1. file[g] = [st |-> "pending", val |-> y] /\ file' = [file EXCEPT ![g].st = "linked"]
      BY <2>g, <2>y, <2>3 DEF Link, f, x
    <3>2. ~Committed(g) /\ Links(g, y)
      BY <2>0, <3>1 DEF Links, Committed
    <3>3. FilesInv' /\ NoGap' /\ Fits(g, y, n)'
      BY <1>1, <2>g, <2>y, <3>2, LinkFiles DEF JournalInv
    <3> QED BY <1>1, <2>g, <2>y, <3>3 DEF Fits, f, x, next
  <2> QED BY <2>2, <2>3 DEF Write, Link
<1>3. Fits(cmd.f, cmd.x, cmd.next)'
  BY <1>1, <1>2 DEF f, x, next
<1>4. CmdInv'
  BY <1>1, <1>2, <1>3 DEF CmdInv, LongPcs, OtherPcs, Long, f
<1>5. TodoInv'
  BY <1>1 DEF TodoInv
<1> QED BY <1>2, <1>4, <1>5 DEF Keeps

LEMMA SyncKeeps ==
  ASSUME JournalInv, Sync
  PROVE  Keeps
<1>1. CASE cmd' = Idle /\ file' = file
  BY <1>1, CommandEnds, SameJournal DEF Keeps, JournalInv
<1>2. CASE Same(cmd.f, cmd.x) /\ file' = SyncedDir(cmd.f) /\ cmd' = [cmd EXCEPT !.pc = cmd.next]
  <2>f. PICK f \in Files : f = cmd.f
    BY DEF JournalInv, CmdInv, Sync
  <2>x. PICK x, next : x = cmd.x /\ next = cmd.next
    OBVIOUS
  <2>2. Fits(f, x, next) /\ NoGap /\ cmd.pc = "install" /\ Committed(f) /\ file[f].val = x
        /\ cmd.pc \in LongPcs
    BY <1>2, <2>f, <2>x DEF JournalInv, CmdInv, Sync, Same, LongPcs
  <2>3. /\ NothingNew /\ Final(f)'
        /\ \A g \in Files : (Committed(g)' <=> Committed(g)) /\ file'[g].val = file[g].val
    BY <1>2, <2>f, <2>x, <2>2, SyncFacts DEF JournalInv, FilesInv
  <2>4. FilesInv' /\ FinalKept
    BY <2>3, FilesKept, FilesAre DEF JournalInv, NothingNew
  <2>5. Latest' = Latest /\ NoGap' /\ Next1' = Next1
    BY <2>2, <2>3, SamePrevious, FilesAre
  <2>6. /\ cmd'.pc = next /\ cmd'.x = x
        /\ next \in LongPcs => Long(cmd')
    <3>1. PICK o, q, g, y, n, t : cmd = [op |-> o, pc |-> q, f |-> g, x |-> y, next |-> n, now |-> t]
      BY <2>2, LongIs DEF Long, JournalInv
    <3>2. cmd' = [op |-> o, pc |-> n, f |-> g, x |-> y, next |-> n, now |-> t]
      BY <1>2, <3>1
    <3> QED BY <2>f, <2>x, <3>1, <3>2 DEF Long
  <2>7. \A g \in Files : Final(g) => Final(g)' /\ file'[g].val = file[g].val
    BY <2>4 DEF FinalKept, Final
  <2>8. CASE f = Key /\ next = "handover" /\ x.role \in {"targets", "root"}
    <3>1. Final(Key)' /\ file'[Key].val = cmd'.x
      BY <2>2, <2>3, <2>6, <2>8
    <3> QED BY <2>4, <2>5, <2>6, <2>8, <3>1 DEF CmdInv, TodoInv, LongPcs, OtherPcs, Long, Keeps
  <2>9. CASE f = RotationIntent /\ next = "root" /\ x.role \in AllRoles
               /\ IF x.role = "online" THEN ~Exists(Key) ELSE Final(Key) /\ file[Key].val = x
    <3>1. Rooted(x)'
      <4>1. CASE x.role = "online"
        BY <2>2, <2>3, <2>9, <4>1 DEF Rooted, FirstFile
      <4>2. CASE x.role # "online"
        BY <2>7, <2>9, <4>2, FilesAre DEF Rooted, FirstFile
      <4> QED BY <4>1, <4>2
    <3>2. Rooted(cmd.x)'
      BY <2>6, <3>1 DEF Rooted
    <3> QED BY <2>4, <2>5, <2>6, <2>9, <3>2 DEF CmdInv, TodoInv, LongPcs, OtherPcs, Long, Keeps
  <2>10. CASE f = Rotation /\ next = "done"
    BY <2>4, <2>5, <2>6, <2>10 DEF CmdInv, TodoInv, LongPcs, OtherPcs, Long, Keeps
  <2>11. ASSUME NEW v \in Versions, f = Intent(v), next = "renewal", v = Next1, v > 1
         PROVE  Keeps
    <3>1. Final(Intent(Next1))' /\ file'[Intent(Next1)'].val = cmd'.x /\ Next1' \in Versions /\ Next1' > 1
      BY <2>2, <2>3, <2>5, <2>6, <2>11 DEF Final, Intent
    <3> QED BY <2>4, <2>5, <2>6, <2>11, <3>1 DEF CmdInv, TodoInv, LongPcs, OtherPcs, Long, Keeps
  <2>12. ASSUME NEW v \in Versions, f = Apply(v), next \in {"handoff", "resume"}, v = Next1, v > 1
         PROVE  Keeps
    <3>1. Final(Apply(Next1))' /\ file'[Apply(Next1)'].val = cmd'.x /\ Next1' \in Versions /\ Next1' > 1
      BY <2>2, <2>3, <2>5, <2>6, <2>12 DEF Final, Apply
    <3> QED BY <2>4, <2>5, <2>6, <2>12, <3>1 DEF CmdInv, TodoInv, LongPcs, OtherPcs, Long, Keeps
  <2>13. ASSUME NEW v \in Versions, f = Handoff(v), next \in {"resume", "sign"}, v = Next1, v > 1, Final(Apply(v))
         PROVE  Keeps
    <3>1. Final(Apply(Next1))' /\ Next1' \in Versions /\ Next1' > 1
      BY <2>5, <2>7, <2>13, FilesAre DEF Final, Apply
    <3>2. Readable(Handoff(Next1))'
      BY <2>3, <2>5, <2>13 DEF Final, Readable, Handoff
    <3> QED BY <2>4, <2>5, <2>6, <2>13, <3>1, <3>2 DEF CmdInv, TodoInv, LongPcs, OtherPcs, Long, Keeps
  <2>14. ASSUME NEW v \in Versions, f = Release(v), next = "publish" PROVE Keeps
    <3>1. v <= Latest /\ v \in Nat /\ v >= 1 /\ Latest \in Nat
      BY <2>2, <2>14, Gapless, VersionsAre, LatestIs
    <3>2. Latest' > 0
      BY <2>5, <3>1
    <3> QED BY <2>4, <2>5, <2>6, <2>14, <3>2 DEF CmdInv, TodoInv, LongPcs, OtherPcs, Keeps
  <2> QED BY <2>2, <2>8, <2>9, <2>10, <2>11, <2>12, <2>13, <2>14 DEF Fits
<1> QED BY <1>1, <1>2 DEF Sync

-----------------------------------------------------------------------------
(* What they sign.                                                          *)

LEMMA PublishAgainKeeps ==
  ASSUME FilesInv, NEW m, PublishAgain(m)
  PROVE  Keeps
BY StartsPublishing, SameJournal DEF PublishAgain, Starts, Publishes, Keeps

\* The next release, if it carries out a reservation of its version.
LEMMA SignsNext ==
  ASSUME JournalInv, cmd.pc \in LongPcs, file' = file, Next1 \in Versions, Next1 > 1, NEW r,
         GoesOn(Release(Next1), r, "publish"),
         r.version = Next1, r.previous = Previous, Reserved(r, Next1),
         r.targets.version = Next1 \/ r.targets = Previous.targets,
         r.root = Nothing \/ Rooted(r.root)
  PROVE  Keeps
<1>1. PICK v \in Versions, f \in Files : v = Next1 /\ f = Release(v)
  BY FilesAre
<1>2. Formed(r, v)
  BY <1>1 DEF Formed
<1>3. Fits(f, r, "publish")
  BY <1>1, <1>2 DEF Fits
<1> QED BY <1>1, <1>3, GoesOnFits

LEMMA SignRenewalKeeps ==
  ASSUME JournalInv, SignRenewal
  PROVE  Keeps
<1>1. /\ cmd.pc \in LongPcs /\ NoGap /\ file' = file /\ Next1 \in Versions /\ Next1 > 1
      /\ Final(Intent(Next1)) /\ file[Intent(Next1)].val = cmd.x
      /\ GoesOn(Release(Next1), Renewed(Next1, cmd.x.created), "publish")
  BY LongIs DEF SignRenewal, JournalInv, CmdInv, LongPcs
<1>2. Latest > 0 /\ History[Latest] = Previous
  BY <1>1, NextVersion, HistoryIs
<1>3. PICK r : r = Renewed(Next1, cmd.x.created)
  OBVIOUS
<1>4. /\ r.kind = "renewal" /\ r.version = Next1 /\ r.previous = Previous /\ r.created = cmd.x.created
      /\ r.root = CurrentRoot /\ r.targets = Previous.targets
  BY <1>2, <1>3 DEF Renewed
<1>5. Reserved(r, Next1)
  BY <1>1, <1>4 DEF Reserved
<1>6. r.root = Nothing \/ Rooted(r.root)
  BY <1>1, <1>4, RootHasKey DEF JournalInv
<1> QED BY <1>1, <1>3, <1>4, <1>5, <1>6, SignsNext

LEMMA HandoverKeeps ==
  ASSUME JournalInv, Handover
  PROVE  Keeps
<1>1. PICK o, p, g, x, n, t : cmd = [op |-> o, pc |-> p, f |-> g, x |-> x, next |-> n, now |-> t]
  BY LongIs DEF Handover, JournalInv, LongPcs, Long
<1>2. /\ NoGap /\ file' = file /\ Final(Key) /\ file[Key].val = x /\ x.role \in {"targets", "root"}
      /\ cmd' = [op |-> o, pc |-> "install", f |-> RotationIntent, x |-> x, next |-> "root", now |-> t]
  BY <1>1, LongIs DEF Handover, JournalInv, CmdInv, LongPcs
<1>3. Fits(RotationIntent, x, "root")
  BY <1>2 DEF Fits, AllRoles
<1>4. PICK f \in Files : f = RotationIntent
  BY FilesAre
<1> QED BY <1>2, <1>3, <1>4, Installs, SameJournal DEF JournalInv, Keeps

LEMMA SignRootKeeps ==
  ASSUME JournalInv, SignRoot
  PROVE  Keeps
<1>1. PICK f \in Files : f = Rotation
  BY FilesAre
<1>0. PICK x : x = cmd.x
  OBVIOUS
<1>2. cmd.pc \in LongPcs /\ file' = file /\ Rooted(x) /\ GoesOn(f, x, "done")
  BY <1>0, <1>1 DEF SignRoot, JournalInv, CmdInv, LongPcs
<1>3. Fits(f, x, "done")
  BY <1>1, <1>2 DEF Fits
<1> QED BY <1>2, <1>3, GoesOnFits

LEMMA DoneKeeps ==
  ASSUME JournalInv, Done
  PROVE  Keeps
BY CommandEnds, SameJournal DEF Done, JournalInv, Keeps

LEMMA SignHandoffKeeps ==
  ASSUME JournalInv, SignHandoff
  PROVE  Keeps
<1>1. PICK o, p, g, a, n, t : cmd = [op |-> o, pc |-> p, f |-> g, x |-> a, next |-> n, now |-> t]
  BY LongIs DEF SignHandoff, JournalInv, LongPcs, Long
<1>2. PICK v \in Versions : v = Next1
  BY DEF SignHandoff, JournalInv, CmdInv
<1>3. NoGap /\ file' = file /\ v > 1 /\ Final(Apply(v)) /\ cmd.pc \in LongPcs /\ cmd.pc = "handoff"
      /\ file[Apply(v)].val = cmd.x
  BY <1>2, LongIs DEF SignHandoff, JournalInv, CmdInv, LongPcs
<1>4. CASE NeedsHandoff(cmd.x.rotation)
  <2>1. PICK x : x = IF Readable(Handoff(v)) THEN file[Handoff(v)].val
                     ELSE RotatedTargets(v, cmd.x.rotation, cmd.x.created)
    OBVIOUS
  <2>2. cmd' = [cmd EXCEPT !.pc = "install", !.f = Handoff(v), !.next = "resume", !.x = x]
    BY <1>2, <1>4, <2>1 DEF SignHandoff
  <2>3. cmd' = [op |-> o, pc |-> "install", f |-> Handoff(v), x |-> x, next |-> "resume", now |-> t]
    BY <1>1, <2>2
  <2>4. x.version = v
    BY <2>1 DEF RotatedTargets, JournalInv, FilesInv, VersionFiles
  <2>5. Fits(Handoff(v), x, "resume")
    BY <1>2, <1>3, <2>4 DEF Fits
  <2>6. PICK f \in Files : f = Handoff(v)
    BY FilesAre
  <2> QED BY <1>3, <2>3, <2>5, <2>6, Installs, SameJournal DEF JournalInv, Keeps
<1>5. CASE ~NeedsHandoff(cmd.x.rotation)
  <2>1. cmd' = [cmd EXCEPT !.pc = "resume"]
    BY <1>5 DEF SignHandoff
  <2>2. cmd'.pc = "resume" /\ Long(cmd')
    BY <1>3, <2>1, Proceeds DEF LongPcs
  <2>3. FilesInv' /\ NoGap' /\ Next1' = v /\ Final(Apply(v))'
    BY <1>2, <1>3, SameJournal DEF JournalInv
  <2>4. Final(Apply(Next1))'
    BY <2>3 DEF Final, Apply
  <2> QED BY <1>2, <1>3, <2>2, <2>3, <2>4 DEF CmdInv, TodoInv, LongPcs, OtherPcs, Long, Keeps
<1> QED BY <1>4, <1>5

LEMMA ResumeKeeps ==
  ASSUME JournalInv, Resume
  PROVE  Keeps
<1>1. PICK o, p, g, a, n, t : cmd = [op |-> o, pc |-> p, f |-> g, x |-> a, next |-> n, now |-> t]
  BY LongIs DEF Resume, JournalInv, LongPcs, Long
<1>2. PICK v \in Versions : v = Next1
  BY DEF Resume, JournalInv, CmdInv
<1>3. NoGap /\ file' = file /\ v > 1 /\ Final(Apply(v)) /\ cmd.pc \in LongPcs
  BY <1>2, LongIs DEF Resume, JournalInv, CmdInv, LongPcs
<1>4. CASE ~NeedsHandoff(file[Apply(v)].val.rotation)
  <2>1. cmd' = [cmd EXCEPT !.pc = "sign"]
    BY <1>2, <1>4 DEF Resume
  <2>2. cmd'.pc = "sign" /\ Long(cmd')
    BY <1>3, <2>1, Proceeds DEF LongPcs
  <2>3. FilesInv' /\ NoGap' /\ Next1' = v /\ Final(Apply(v))'
    BY <1>2, <1>3, SameJournal DEF JournalInv
  <2>4. Final(Apply(Next1))' /\ ~NeedsHandoff(file[Apply(Next1)].val.rotation)'
    BY <1>3, <1>4, <2>3 DEF Final, Apply, NeedsHandoff
  <2> QED BY <1>2, <1>3, <2>2, <2>3, <2>4 DEF CmdInv, TodoInv, LongPcs, OtherPcs, Long, Keeps
<1>5. CASE NeedsHandoff(file[Apply(v)].val.rotation) /\ Readable(Handoff(v))
  <2>1. PICK x : x = file[Handoff(v)].val
    OBVIOUS
  <2>2. cmd' = [cmd EXCEPT !.pc = "install", !.f = Handoff(v), !.x = x, !.next = "sign"]
    BY <1>2, <1>5, <2>1 DEF Resume
  <2>3. cmd' = [op |-> o, pc |-> "install", f |-> Handoff(v), x |-> x, next |-> "sign", now |-> t]
    BY <1>1, <2>2
  <2>4. x.version = v
    BY <1>5, <2>1 DEF JournalInv, FilesInv, VersionFiles
  <2>5. Fits(Handoff(v), x, "sign")
    BY <1>2, <1>3, <2>4 DEF Fits
  <2>6. PICK f \in Files : f = Handoff(v)
    BY FilesAre
  <2> QED BY <1>3, <2>3, <2>5, <2>6, Installs, SameJournal DEF JournalInv, Keeps
<1>6. CASE NeedsHandoff(file[Apply(v)].val.rotation) /\ ~Readable(Handoff(v))
  BY <1>2, <1>3, <1>6, CommandEnds, SameJournal DEF Resume, JournalInv, Keeps
<1> QED BY <1>4, <1>5, <1>6

LEMMA SignRotatedKeeps ==
  ASSUME JournalInv, SignRotated
  PROVE  Keeps
<1>1. PICK v \in Versions : v = Next1
  BY DEF SignRotated, JournalInv, CmdInv
<1>2. PICK a, x : a = file[Apply(v)].val /\ x = a.rotation
  OBVIOUS
<1>3. /\ cmd.pc \in LongPcs /\ NoGap /\ file' = file /\ v > 1 /\ Final(Apply(v)) /\ Readable(Apply(v))
      /\ GoesOn(Release(v), Rotated(v, x, a.created), "publish")
      /\ NeedsHandoff(x) => Readable(Handoff(v))
  BY <1>1, <1>2, LongIs, CommittedReadable DEF SignRotated, JournalInv, CmdInv, LongPcs
<1>4. Latest > 0 /\ History[Latest] = Previous
  BY <1>1, <1>3, NextVersion, HistoryIs
<1>5. Rooted(x)
  BY <1>2, <1>3 DEF JournalInv, FilesInv, VersionFiles
<1>6. x.role = "online" \/ NeedsHandoff(x)
  BY <1>5 DEF Rooted, AllRoles, NeedsHandoff
<1>7. PICK r : r = Rotated(v, x, a.created)
  OBVIOUS
<1>8. /\ r.version = v /\ r.previous = Previous /\ r.created = a.created /\ r.root = x
      /\ r.targets = IF x.role = "online" THEN Previous.targets ELSE file[Handoff(v)].val
  BY <1>4, <1>7 DEF Rotated
<1>9. r.targets.version = v \/ r.targets = Previous.targets
  BY <1>3, <1>6, <1>8 DEF JournalInv, FilesInv, VersionFiles
<1>10. Reserved(r, v)
  BY <1>2, <1>3, <1>8 DEF Reserved
<1> QED BY <1>1, <1>3, <1>5, <1>7, <1>8, <1>9, <1>10, SignsNext

-----------------------------------------------------------------------------
(* How they publish.                                                        *)

TargetsObject(r) == [name |-> <<"targets", r.targets.version>>, data |-> r.targets]
SnapshotObject(r) == [name |-> <<"snapshot", r.version>>, data |-> r]
RootObject(r) == [name |-> <<"root", 2>>, data |-> r.root]

LEMMA ObjectsAre ==
  ASSUME NEW r
  PROVE  /\ Objects(r) \in Seq(ObjectSet(r))
         /\ ObjectSet(r) = {TargetsObject(r), SnapshotObject(r)}
                             \cup (IF r.root = Nothing THEN {} ELSE {RootObject(r)})
<1>1. PICK a, b, c : a = TargetsObject(r) /\ b = SnapshotObject(r) /\ c = RootObject(r)
  OBVIOUS
<1>2. Objects(r) = <<a, b>> \o (IF r.root = Nothing THEN <<>> ELSE <<c>>)
  BY <1>1 DEF Objects, TargetsObject, SnapshotObject, RootObject
<1>3. CASE r.root = Nothing
  <2>1. Objects(r) = <<a, b>>
    BY <1>2, <1>3
  <2>2. ObjectSet(r) = {a, b}
    BY <2>1 DEF ObjectSet
  <2> QED BY <1>1, <1>3, <2>1, <2>2
<1>4. CASE r.root # Nothing
  <2>1. PICK s, t, u : s = <<a, b>> /\ t = <<c>> /\ u = Objects(r)
    OBVIOUS
  <2>2. s \in Seq({a, b, c}) /\ t \in Seq({a, b, c}) /\ u = s \o t
    BY <1>2, <1>4, <2>1
  <2>3. u \in Seq({a, b, c}) /\ Len(u) = 3 /\ u[1] = a /\ u[2] = b /\ u[3] = c
    BY <2>1, <2>2
  <2>4. ObjectSet(r) = {a, b, c}
    BY <2>1, <2>3 DEF ObjectSet
  <2> QED BY <1>1, <1>4, <2>1, <2>3, <2>4
<1> QED BY <1>3, <1>4

\* A command that publishes has the latest release before it.
LEMMA Publishing ==
  ASSUME JournalInv, cmd.pc \in OtherPcs \ {"idle"}
  PROVE  /\ NoGap /\ Latest > 0 /\ Latest \in Versions /\ History[Latest] = Newest
         /\ Release(Latest) \in Files /\ Committed(Release(Latest))
<1>1. NoGap /\ Latest > 0
  BY DEF JournalInv, CmdInv, OtherPcs
<1>2. Latest \in Versions /\ History[Latest] = Newest
  BY <1>1, HistoryIs DEF Newest
<1> QED BY <1>1, <1>2, Gapless, LatestIs, FilesAre

LEMMA SameNewest ==
  ASSUME file' = file
  PROVE  /\ Newest' = Newest /\ ObjectSet(Newest)' = ObjectSet(Newest)
         /\ Final(Release(Latest))' <=> Final(Release(Latest))
<1>1. Latest' = Latest
  BY SameJournal
<1>2. Newest' = Newest
  BY <1>1 DEF Newest, Release
<1>3. ObjectSet(Newest)' = ObjectSet(Newest)
  BY <1>2 DEF ObjectSet, Objects
<1> QED BY <1>1, <1>2, <1>3 DEF Final, Release

\* A step that publishes, but leaves the journal alone.
LEMMA StaysPublishing ==
  ASSUME JournalInv, cmd.pc \in OtherPcs \ {"idle"}, cmd'.pc \in OtherPcs \ {"idle"}, file' = file
  PROVE  FilesInv' /\ CmdInv'
BY Publishing, SameJournal DEF JournalInv, CmdInv, LongPcs, OtherPcs

LEMMA PublishSyncKeeps ==
  ASSUME JournalInv, PublishSync
  PROVE  Keeps
<1>1. /\ NoGap /\ Latest > 0 /\ Latest \in Versions /\ History[Latest] = Newest
      /\ Release(Latest) \in Files /\ Committed(Release(Latest))
  BY Publishing DEF PublishSync, OtherPcs
<1>2. PICK f \in Files : f = Release(Latest)
  BY <1>1
<1>3. PICK r : r = Newest
  OBVIOUS
<1>4. /\ NothingNew /\ Final(f)'
      /\ \A g \in Files : (Committed(g)' <=> Committed(g)) /\ file'[g].val = file[g].val
  BY <1>1, <1>2, SyncFacts DEF PublishSync, JournalInv, FilesInv
<1>5. FilesInv'
  BY <1>4, FilesKept, FilesAre DEF JournalInv
<1>6. Latest' = Latest /\ NoGap'
  BY <1>1, <1>4, SamePrevious, FilesAre
<1>7. Newest' = r /\ Final(Release(Latest))'
  BY <1>2, <1>3, <1>4, <1>6 DEF Newest, Release, Final
<1>8. ObjectSet(Newest)' = ObjectSet(r)
  BY <1>7 DEF ObjectSet, Objects
<1>9. PICK t : t = Objects(r)
  OBVIOUS
<1>10. t \in Seq(ObjectSet(r)) /\ ObjectSet(r) = {t[i] : i \in 1 .. Len(t)}
  BY <1>9, ObjectsAre DEF ObjectSet
<1>11. PICK o, n : cmd' = [op |-> o, pc |-> "check", now |-> n, todo |-> t]
  BY <1>1, <1>3, <1>9 DEF PublishSync
<1>12. CmdInv'
  BY <1>1, <1>6, <1>11 DEF CmdInv, LongPcs, OtherPcs
<1>13. TodoInv'
  BY <1>7, <1>8, <1>10, <1>11 DEF TodoInv
<1> QED BY <1>5, <1>12, <1>13 DEF Keeps

LEMMA CheckKeeps ==
  ASSUME JournalInv, TodoInv, Check
  PROVE  Keeps
<1>1. PICK o, p, n, t : cmd = [op |-> o, pc |-> p, now |-> n, todo |-> t]
  BY DEF Check, TodoInv
<1>2. cmd' = [op |-> o, pc |-> "objects", now |-> n, todo |-> t] /\ file' = file /\ durable' = durable
  BY <1>1 DEF Check, Quiet
<1>3. FilesInv' /\ CmdInv'
  BY <1>1, <1>2, StaysPublishing DEF Check, OtherPcs
<1>4. TodoInv'
  BY <1>1, <1>2, SameNewest DEF TodoInv, Check
<1> QED BY <1>3, <1>4 DEF Keeps

LEMMA WriteObjectKeeps ==
  ASSUME JournalInv, TodoInv, WriteObject
  PROVE  Keeps
<1>1. PICK o, p, n, t : cmd = [op |-> o, pc |-> p, now |-> n, todo |-> t]
  BY DEF WriteObject, TodoInv
<1>2. PICK S : S = ObjectSet(Newest)
  OBVIOUS
<1>3. /\ p = "objects" /\ t # <<>> /\ t \in Seq(S) /\ file' = file /\ Final(Release(Latest))
      /\ \A x \in S : x \in durable \/ \E i \in 1 .. Len(t) : t[i] = x
  BY <1>1, <1>2 DEF WriteObject, TodoInv
<1>4. ObjectSet(Newest)' = S /\ Final(Release(Latest))'
  BY <1>2, <1>3, SameNewest
<1>5. CASE durable' = durable /\ cmd' = cmd
  <2>1. FilesInv' /\ CmdInv'
    BY <1>1, <1>3, <1>5, StaysPublishing DEF OtherPcs
  <2>2. TodoInv'
    BY <1>1, <1>3, <1>4, <1>5 DEF TodoInv
  <2> QED BY <2>1, <2>2 DEF Keeps
<1>6. CASE durable' = Synced(Head(cmd.todo)) /\ cmd' = [cmd EXCEPT !.todo = Tail(@)]
  <2>1. PICK u : u = Tail(t)
    OBVIOUS
  <2>2. cmd' = [op |-> o, pc |-> p, now |-> n, todo |-> u]
    BY <1>1, <1>6, <2>1
  <2>3. /\ u \in Seq(S) /\ durable' = durable \cup {t[1]} /\ Len(t) \in Nat /\ Len(u) = Len(t) - 1
        /\ \A i \in 1 .. Len(u) : u[i] = t[i + 1]
    BY <1>1, <1>3, <1>6, <2>1 DEF Synced
  <2>4. \A x \in S : x \in durable' \/ \E i \in 1 .. Len(u) : u[i] = x
    <3> SUFFICES ASSUME NEW x \in S, x \notin durable' PROVE \E i \in 1 .. Len(u) : u[i] = x
      OBVIOUS
    <3>1. PICK i \in 1 .. Len(t) : t[i] = x
      BY <1>3, <2>3
    <3>2. i # 1
      BY <2>3, <3>1
    <3>3. i - 1 \in 1 .. Len(u) /\ u[i - 1] = x
      BY <2>3, <3>1, <3>2
    <3> QED BY <3>3
  <2>5. FilesInv' /\ CmdInv'
    BY <1>1, <1>3, <2>2, StaysPublishing DEF OtherPcs
  <2>6. TodoInv'
    BY <1>3, <1>4, <2>2, <2>3, <2>4 DEF TodoInv
  <2> QED BY <2>5, <2>6 DEF Keeps
<1> QED BY <1>5, <1>6 DEF WriteObject

LEMMA TimestampKeeps ==
  ASSUME JournalInv, TodoInv, ObjectsReady \/ WriteTimestamp \/ SyncTimestamp
  PROVE  Keeps
<1>1. /\ file' = file /\ durable' = durable /\ cmd.pc \in OtherPcs \ {"idle"}
      /\ cmd'.pc \in {"timestamp", "settle", "verify"}
      /\ cmd' = [op |-> cmd'.op, pc |-> cmd'.pc, now |-> cmd'.now]
  <2>1. CASE ObjectsReady
    BY <2>1 DEF ObjectsReady, Quiet, OtherPcs
  <2>2. CASE WriteTimestamp \/ SyncTimestamp
    <3>1. PICK o, p, n : cmd = [op |-> o, pc |-> p, now |-> n]
      BY <2>2 DEF WriteTimestamp, SyncTimestamp, TodoInv
    <3> QED BY <2>2, <3>1 DEF WriteTimestamp, SyncTimestamp, OtherPcs
  <2> QED BY <2>1, <2>2
<1>2. FilesInv' /\ CmdInv'
  BY <1>1, StaysPublishing DEF OtherPcs
<1>3. cmd'.pc = "timestamp" => ObjectSet(Newest) \subseteq durable
  <2>1. CASE ObjectsReady
    BY <2>1 DEF ObjectsReady, TodoInv
  <2>2. CASE WriteTimestamp \/ SyncTimestamp
    <3>1. PICK o, p, n : cmd = [op |-> o, pc |-> p, now |-> n]
      BY <2>2 DEF WriteTimestamp, SyncTimestamp, TodoInv
    <3> QED BY <2>2, <3>1 DEF WriteTimestamp, SyncTimestamp
  <2> QED BY <2>1, <2>2
<1>4. TodoInv'
  BY <1>1, <1>3, SameNewest DEF TodoInv
<1> QED BY <1>2, <1>4 DEF Keeps

\* Nothing the command depends on changed.
LEMMA SameAgain ==
  ASSUME JournalInv, TodoInv, cmd' = cmd, file' = file, durable' = durable
  PROVE  FilesInv' /\ CmdInv' /\ TodoInv'
<1>1. CmdInv'
  <2>1. PICK f, x, next : f = cmd.f /\ x = cmd.x /\ next = cmd.next
    OBVIOUS
  <2>2. /\ Latest' = Latest /\ (NoGap' <=> NoGap) /\ Next1' = Next1
        /\ Fits(f, x, next)' <=> Fits(f, x, next)
        /\ Rooted(x)' <=> Rooted(x)
    BY SameJournal
  <2>3. Fits(cmd.f, cmd.x, cmd.next)' <=> Fits(cmd.f, cmd.x, cmd.next)
    BY <2>1, <2>2 DEF Fits
  <2>4. Rooted(cmd.x)' <=> Rooted(cmd.x)
    BY <2>1, <2>2 DEF Rooted
  <2>5. /\ Final(Intent(Next1))' <=> Final(Intent(Next1))
        /\ Final(Apply(Next1))' <=> Final(Apply(Next1))
        /\ Final(Key)' <=> Final(Key)
        /\ Readable(Handoff(Next1))' <=> Readable(Handoff(Next1))
        /\ file[Intent(Next1)].val' = file[Intent(Next1)].val
        /\ file[Apply(Next1)].val' = file[Apply(Next1)].val
        /\ file[Key].val' = file[Key].val
    BY <2>2 DEF Final, Readable, Intent, Apply, Handoff
  <2>6. NeedsHandoff(file[Apply(Next1)].val.rotation)' <=> NeedsHandoff(file[Apply(Next1)].val.rotation)
    BY <2>5 DEF NeedsHandoff
  <2> QED BY <2>2, <2>3, <2>4, <2>5, <2>6 DEF JournalInv, CmdInv
<1>2. TodoInv'
  BY SameNewest DEF TodoInv
<1> QED BY <1>1, <1>2, SameJournal DEF JournalInv

\* The command ends, or time passes.
LEMMA EndsKeep ==
  ASSUME JournalInv, TodoInv, Verify \/ Refused \/ VerifyFails \/ Tick
  PROVE  Keeps
<1>1. CASE Verify \/ Refused \/ VerifyFails
  <2>1. cmd' = Idle /\ file' = file
    BY <1>1 DEF Verify, Refused, VerifyFails, Fails
  <2> QED BY <2>1, CommandEnds, SameJournal DEF JournalInv, Keeps
<1>2. CASE Tick
  <2>1. cmd' = cmd /\ file' = file /\ durable' = durable
    BY <1>2 DEF Tick
  <2> QED BY <2>1, SameAgain DEF Keeps
<1> QED BY <1>1, <1>2

LEMMA CrashKeeps ==
  ASSUME JournalInv, Kill \/ PowerLoss
  PROVE  Keeps
<1>1. cmd' = Idle
  BY DEF Kill, PowerLoss
<1>2. file' = file \/ (NothingNew /\ \A g \in Files : Committed(g)' => Committed(g))
  <2>1. CASE PowerLoss
    BY <2>1, PowerLossFacts DEF JournalInv, FilesInv
  <2>2. CASE Kill /\ file' # file
    <3>1. PICK f \in Files : f = cmd.f
      BY <2>2 DEF Kill, JournalInv, CmdInv
    <3>2. ~Committed(f) /\ file' = [file EXCEPT ![f] = [st |-> "torn", val |-> Nothing]] /\ Fits(cmd.f, cmd.x, cmd.next)
      BY <2>2, <3>1 DEF Kill, JournalInv, CmdInv
    <3>3. f = Key => ~OnlineIntent
      BY <3>1, <3>2, FileNames DEF Fits
    <3> QED BY <3>2, <3>3, TornFacts DEF JournalInv, FilesInv
  <2> QED BY <2>1, <2>2
<1>3. FilesInv'
  BY <1>2, FilesKept, FilesAre, SameJournal DEF JournalInv
<1> QED BY <1>1, <1>3, CommandEnds DEF Keeps

-----------------------------------------------------------------------------
(* What is durable and what is public, step by step.                        *)

\* No step changes a durable record.
LEMMA FinalStays ==
  ASSUME JournalInv, Next
  PROVE  FinalKept
<1>1. file' = file => FinalKept
  BY DEF FinalKept
<1>2. CASE Write \/ Link
  <2>1. PICK f \in Files : f = cmd.f
    BY <1>2 DEF Write, Link, JournalInv, CmdInv
  <2>2. ~Committed(f)
    BY <1>2, <2>1 DEF Write, Link, Committed
  <2>3. \A g \in Files : g # f => file'[g] = file[g]
    BY <1>2, <2>1 DEF Write, Link, JournalInv, FilesInv, FileTypes
  <2> QED BY <2>2, <2>3, CommittedReadable DEF FinalKept
<1>3. CASE Sync
  BY <1>1, <1>3, SyncFacts DEF Sync, JournalInv, CmdInv, FilesInv, NothingNew
<1>4. CASE PublishSync
  <2>1. PICK f \in Files : f = Release(Latest)
    BY <1>4, Publishing DEF PublishSync, OtherPcs
  <2> QED BY <1>4, <2>1, SyncFacts DEF PublishSync, JournalInv, FilesInv, NothingNew
<1>5. CASE RenewTooLate \/ ApplyTooLate
  <2>1. PICK v \in Versions : v = Next1
    BY <1>5, NextVersion DEF RenewTooLate, ApplyTooLate
  <2>2. PICK f \in Files : f = IF RenewTooLate THEN Intent(v) ELSE Apply(v)
    BY FilesAre
  <2>3. ~Readable(f) /\ file' = Removed(f)
    BY <1>5, <2>1, <2>2 DEF RenewTooLate, ApplyTooLate, Unreserved, Readable
  <2> QED BY <2>3, RemoveFacts DEF JournalInv, FilesInv, NothingNew
<1>6. CASE Kill
  <2>1. ASSUME NEW f \in Files, ~Committed(f), file' = [file EXCEPT ![f] = [st |-> "torn", val |-> Nothing]]
        PROVE  FinalKept
    BY <2>1, CommittedReadable DEF FinalKept
  <2> QED BY <1>1, <1>6, <2>1 DEF Kill, JournalInv, CmdInv
<1>7. CASE PowerLoss
  BY <1>7, PowerLossFacts DEF JournalInv, FilesInv, NothingNew
<1>8. CASE Publish
  BY <1>1, <1>8 DEF Publish, PublishNext, PublishAgain
<1>9. CASE Renew
  BY <1>1, <1>5, <1>9 DEF Renew, RenewResumes, RenewFinishes, RenewRepeats, RenewBegins
<1>10. CASE Rotate
  BY <1>1, <1>5, <1>10 DEF Rotate, PrepareNew, PrepareAgain, ApplyReserves, ApplyAgain
<1>11. CASE Step \/ VerifyFails \/ Tick
  BY <1>1, <1>2, <1>3, <1>4, <1>11
     DEF Step, SignRenewal, Handover, SignRoot, Done, SignHandoff, Resume, SignRotated, Check, WriteObject,
         ObjectsReady, WriteTimestamp, SyncTimestamp, Verify, Refused, VerifyFails, Fails, Tick
<1> QED BY <1>6, <1>7, <1>8, <1>9, <1>10, <1>11 DEF Next

LEMMA NextKeeps ==
  ASSUME JournalInv, TodoInv, Next
  PROVE  Keeps
<1>1. CASE Publish
  BY <1>1, PublishNextFits, PublishAgainKeeps DEF Publish, JournalInv, Keeps
<1>2. CASE Renew
  BY <1>2, RenewFits DEF JournalInv, Keeps
<1>3. CASE Rotate
  BY <1>3, PrepareFits, ApplyFits DEF Rotate, JournalInv, Keeps
<1>4. CASE Step
  BY <1>4, WriteLinkKeep, SyncKeeps, SignRenewalKeeps, HandoverKeeps, SignRootKeeps, DoneKeeps,
     SignHandoffKeeps, ResumeKeeps, SignRotatedKeeps, PublishSyncKeeps, CheckKeeps, WriteObjectKeeps,
     TimestampKeeps, EndsKeep DEF Step
<1> QED BY <1>1, <1>2, <1>3, <1>4, EndsKeep, CrashKeeps DEF Next

\* Who writes the public repository.
LEMMA PublicChanges ==
  ASSUME Next
  PROVE  WriteObject \/ WriteTimestamp \/ SyncTimestamp \/ PowerLoss
         \/ UNCHANGED <<objects, durable, timestamp, timestampDurable, exposed>>
<1>1. CASE Publish
  BY <1>1 DEF Publish, PublishNext, PublishAgain, Quiet
<1>2. CASE Renew
  BY <1>2 DEF Renew, RenewResumes, RenewFinishes, RenewTooLate, RenewRepeats, RenewBegins, Quiet
<1>3. CASE Rotate
  BY <1>3 DEF Rotate, PrepareNew, PrepareAgain, ApplyReserves, ApplyTooLate, ApplyAgain, Quiet
<1>4. CASE Step
  BY <1>4 DEF Step, Write, Link, Sync, SignRenewal, Handover, SignRoot, Done, SignHandoff, Resume, SignRotated,
              PublishSync, Check, ObjectsReady, Verify, Refused, Fails, Quiet
<1>5. CASE VerifyFails \/ Tick \/ Kill
  BY <1>5 DEF VerifyFails, Fails, Tick, Kill, Quiet
<1> QED BY <1>1, <1>2, <1>3, <1>4, <1>5 DEF Next

\* What was public still belongs to a durable release.
Belonging(o) == \E v \in Versions : Final(Release(v)) /\ o \in ObjectSet(file[Release(v)].val)

LEMMA BelongingKept ==
  ASSUME FinalKept, NEW o, Belonging(o)
  PROVE  Belonging(o)'
<1>1. PICK v \in Versions : Final(Release(v)) /\ o \in ObjectSet(file[Release(v)].val)
  BY DEF Belonging
<1>2. PICK f \in Files : f = Release(v)
  BY FilesAre
<1>3. file'[f] = file[f] /\ Final(f)'
  BY <1>1, <1>2 DEF FinalKept, Final
<1>4. o \in ObjectSet(file[Release(v)].val)'
  BY <1>1, <1>2, <1>3 DEF ObjectSet, Objects
<1> QED BY <1>2, <1>3, <1>4 DEF Belonging

LEMMA CoveredKept ==
  ASSUME durable \subseteq durable', NEW t, Covered(t)
  PROVE  Covered(t)'
<1>1. ObjectSet(t)' = ObjectSet(t)
  BY DEF ObjectSet, Objects
<1> QED BY <1>1 DEF Covered

LEMMA TimestampsCovered ==
  ASSUME NEW t, NEW d, Covered(t)', Covered(d)', timestamp' = t, timestampDurable' = d
  PROVE  Covered(timestamp)' /\ Covered(timestampDurable)'
<1>1. ObjectSet(timestamp)' = ObjectSet(t)'
  BY DEF ObjectSet, Objects
<1>2. ObjectSet(timestampDurable)' = ObjectSet(d)'
  BY DEF ObjectSet, Objects
<1> QED BY <1>1, <1>2 DEF Covered

LEMMA PublicKeeps ==
  ASSUME JournalInv, TodoInv, PublicInv, Next
  PROVE  PublicInv'
<1>1. FinalKept
  BY FinalStays
<1>2. \A o \in exposed : Belonging(o)'
  BY <1>1, BelongingKept DEF PublicInv, Belonging
<1>3. PICK t, d : t = timestamp /\ d = timestampDurable
  OBVIOUS
<1>4. Covered(t) /\ Covered(d)
  BY <1>3 DEF PublicInv
<1>5. ASSUME durable \subseteq durable', timestamp' \in {t, d}, timestampDurable' \in {t, d}
      PROVE  Covered(timestamp)' /\ Covered(timestampDurable)'
  <2>1. Covered(t)' /\ Covered(d)'
    BY <1>4, <1>5, CoveredKept
  <2> QED BY <1>5, <2>1, TimestampsCovered
<1>6. CASE UNCHANGED <<objects, durable, timestamp, timestampDurable, exposed>>
  BY <1>2, <1>3, <1>5, <1>6 DEF PublicInv, Belonging
<1>7. CASE WriteObject
  <2>1. PICK x : x = Head(cmd.todo)
    OBVIOUS
  <2>2. UNCHANGED <<timestamp, timestampDurable>>
    BY <1>7 DEF WriteObject
  <2>3. x \in ObjectSet(Newest) /\ Final(Release(Latest)) /\ Latest \in Versions
    <3>1. cmd.todo \in Seq(ObjectSet(Newest)) /\ cmd.todo # <<>> /\ Final(Release(Latest))
      BY <1>7 DEF WriteObject, TodoInv
    <3>2. Head(cmd.todo) \in ObjectSet(Newest)
      BY <3>1
    <3> QED BY <1>7, <2>1, <3>1, <3>2, Publishing DEF WriteObject, OtherPcs
  <2>4. Belonging(x)
    BY <2>3 DEF Belonging, Newest
  <2>5. Belonging(x)'
    BY <1>1, <2>4, BelongingKept
  <2>6. CASE objects' = objects \cup {x} /\ exposed' = exposed \cup {x} /\ durable' = durable
    <3>1. Covered(timestamp)' /\ Covered(timestampDurable)'
      BY <1>3, <1>5, <2>2, <2>6
    <3> QED BY <1>2, <2>5, <2>6, <3>1 DEF PublicInv, Belonging
  <2>7. CASE x \in objects /\ durable' = durable \cup {x} /\ objects' = objects /\ exposed' = exposed
    <3>1. Covered(timestamp)' /\ Covered(timestampDurable)'
      BY <1>3, <1>5, <2>2, <2>7
    <3> QED BY <1>2, <2>7, <3>1 DEF PublicInv, Belonging
  <2> QED BY <1>7, <2>1, <2>6, <2>7 DEF WriteObject, Synced
<1>8. CASE WriteTimestamp
  <2>1. PICK r : r = Newest
    OBVIOUS
  <2>2. timestamp' = r /\ UNCHANGED <<objects, durable, timestampDurable, exposed>> /\ ObjectSet(r) \subseteq durable
    BY <1>8, <2>1, Publishing DEF WriteTimestamp, TodoInv, OtherPcs
  <2>3. Covered(r) /\ durable \subseteq durable'
    BY <2>2 DEF Covered
  <2>4. Covered(r)' /\ Covered(d)'
    BY <1>4, <2>3, CoveredKept
  <2>5. Covered(timestamp)' /\ Covered(timestampDurable)'
    BY <1>3, <2>2, <2>4, TimestampsCovered
  <2> QED BY <1>2, <2>2, <2>5 DEF PublicInv, Belonging
<1>9. CASE SyncTimestamp
  <2>1. UNCHANGED <<objects, durable, timestamp, exposed>> /\ timestampDurable' = timestamp
    BY <1>9 DEF SyncTimestamp
  <2>2. Covered(timestamp)' /\ Covered(timestampDurable)'
    BY <1>3, <1>5, <2>1
  <2> QED BY <1>2, <2>1, <2>2 DEF PublicInv, Belonging
<1>10. CASE PowerLoss
  <2>1. /\ objects' \subseteq objects /\ durable \subseteq objects' /\ durable' = objects' /\ exposed' = exposed
        /\ timestamp' \in {timestamp, timestampDurable} /\ timestampDurable' = timestamp'
    BY <1>10 DEF PowerLoss, PublicInv
  <2>2. Covered(timestamp)' /\ Covered(timestampDurable)'
    BY <1>3, <1>5, <2>1
  <2> QED BY <1>2, <2>1, <2>2 DEF PublicInv, Belonging
<1> QED BY <1>6, <1>7, <1>8, <1>9, <1>10, PublicChanges

-----------------------------------------------------------------------------
(* The invariant.                                                           *)

OmegaInv == JournalInv /\ TodoInv /\ PublicInv

LEMMA OmegaInit == Init => OmegaInv
<1> SUFFICES ASSUME Init PROVE OmegaInv
  OBVIOUS
<1>1. cmd.pc = "idle"
  BY DEF Init, Idle
<1>2. CmdInv /\ TodoInv
  BY <1>1 DEF CmdInv, TodoInv, LongPcs, OtherPcs
<1>3. \A f \in Files : file[f].st = "none" /\ file[f] = [st |-> "none", val |-> Nothing]
  BY DEF Init
<1>4. FileTypes
  BY <1>3 DEF Init, FileTypes, Stages
<1>5. \A f \in Files : ~Readable(f) /\ ~Committed(f)
  BY <1>3 DEF Readable, Committed
<1>6. RotationFiles /\ (\A v \in Versions : VersionFiles(v)) /\ TargetsUnique
  BY <1>5, FilesAre DEF RotationFiles, OnlineIntent, VersionFiles, TargetsUnique
<1>7. PublicInv
  BY DEF Init, PublicInv, Covered
<1> QED BY <1>2, <1>4, <1>6, <1>7 DEF OmegaInv, JournalInv, FilesInv

LEMMA OmegaStep == OmegaInv /\ [Next]_vars => OmegaInv'
<1> SUFFICES ASSUME OmegaInv, [Next]_vars PROVE OmegaInv'
  OBVIOUS
<1>1. CASE Next
  BY <1>1, NextKeeps, PublicKeeps DEF OmegaInv, JournalInv, Keeps
<1>2. CASE UNCHANGED vars
  <2>1. UNCHANGED <<file, objects, durable, timestamp, timestampDurable, cmd, exposed>>
    BY <1>2 DEF vars
  <2>2. FilesInv' /\ CmdInv' /\ TodoInv'
    BY <2>1, SameAgain DEF OmegaInv, JournalInv
  <2>3. FinalKept
    BY <2>1 DEF FinalKept
  <2>4. PICK t, d : t = timestamp /\ d = timestampDurable
    OBVIOUS
  <2>5. Covered(t)' /\ Covered(d)'
    BY <2>1, <2>4, CoveredKept DEF OmegaInv, PublicInv
  <2>6. Covered(timestamp)' /\ Covered(timestampDurable)'
    BY <2>1, <2>4, <2>5, TimestampsCovered
  <2>7. \A o \in exposed : Belonging(o)'
    BY <2>3, BelongingKept DEF OmegaInv, PublicInv, Belonging
  <2>8. PublicInv'
    BY <2>1, <2>6, <2>7 DEF OmegaInv, PublicInv, Belonging
  <2> QED BY <2>2, <2>8 DEF OmegaInv, JournalInv
<1> QED BY <1>1, <1>2

LEMMA OmegaAlways == Spec => []OmegaInv
BY OmegaInit, OmegaStep, PTL DEF Spec

-----------------------------------------------------------------------------
(* The theorems.                                                            *)

LEMMA LeadsFollows == OmegaInv => JournalLeads
<1> SUFFICES ASSUME OmegaInv, NEW o \in objects
             PROVE  \E v \in Versions : file[Release(v)].st = "final" /\ Belongs(o, file[Release(v)].val)
  BY DEF JournalLeads
<1>1. PICK v \in Versions : Final(Release(v)) /\ o \in ObjectSet(file[Release(v)].val)
  BY DEF OmegaInv, PublicInv
<1>2. Belongs(o, file[Release(v)].val)
  BY <1>1 DEF ObjectSet, Belongs
<1> QED BY <1>1, <1>2 DEF Final

\* JournalLeads: a command makes the record of a release durable before it
\* links the first of its objects (publishPrepared), and no crash undoes a
\* durable record, so no crash leaves a repository ahead of its journal.
THEOREM JournalAlwaysLeads == Spec => []JournalLeads
BY OmegaAlways, LeadsFollows, PTL

LEMMA CompleteFollows == OmegaInv => RepositoryComplete
<1> SUFFICES ASSUME OmegaInv PROVE RepositoryComplete
  OBVIOUS
<1>1. ASSUME NEW t, Covered(t), t # Nothing
      PROVE  \A i \in 1 .. Len(Objects(t)) : Objects(t)[i] \in durable /\ Objects(t)[i] \in objects
  BY <1>1 DEF Covered, ObjectSet, OmegaInv, PublicInv
<1> QED BY <1>1 DEF OmegaInv, PublicInv, RepositoryComplete

\* RepositoryComplete: the timestamp is written last and only over objects
\* that are synced (publishPrepared, writeObject), so what it leads a client to
\* is there, whatever a kill or a power loss undoes.
THEOREM RepositoryAlwaysComplete == Spec => []RepositoryComplete
BY OmegaAlways, CompleteFollows, PTL

LEMMA OnceFollows == OmegaInv => NeverTwice
<1> SUFFICES ASSUME OmegaInv, NEW o \in exposed, NEW p \in exposed, o.name = p.name PROVE o = p
  BY DEF NeverTwice
<1>1. PICK v \in Versions : Final(Release(v)) /\ o \in ObjectSet(file[Release(v)].val)
  BY DEF OmegaInv, PublicInv
<1>2. PICK w \in Versions : Final(Release(w)) /\ p \in ObjectSet(file[Release(w)].val)
  BY DEF OmegaInv, PublicInv
<1>3. PICK r, s : r = file[Release(v)].val /\ s = file[Release(w)].val
  OBVIOUS
<1>4. Committed(Release(v)) /\ Committed(Release(w)) /\ Readable(Release(v)) /\ Readable(Release(w)) /\ FilesInv
  BY <1>1, <1>2, CommittedReadable DEF OmegaInv, JournalInv
<1>5. Formed(r, v) /\ Formed(s, w)
  BY <1>3, <1>4 DEF FilesInv, VersionFiles
<1>6. /\ o \in {TargetsObject(r), SnapshotObject(r)} \cup (IF r.root = Nothing THEN {} ELSE {RootObject(r)})
      /\ p \in {TargetsObject(s), SnapshotObject(s)} \cup (IF s.root = Nothing THEN {} ELSE {RootObject(s)})
  BY <1>1, <1>2, <1>3, ObjectsAre
<1>7. CASE o = TargetsObject(r) /\ p = TargetsObject(s)
  <2>1. r.targets.version = s.targets.version
    BY <1>7 DEF TargetsObject
  <2>2. r.targets = s.targets
    BY <1>3, <1>4, <2>1 DEF FilesInv, TargetsUnique, TargetsOf
  <2> QED BY <1>7, <2>1, <2>2 DEF TargetsObject
<1>8. CASE o = SnapshotObject(r) /\ p = SnapshotObject(s)
  <2>1. v = w
    BY <1>5, <1>8 DEF Formed, SnapshotObject
  <2> QED BY <1>3, <1>8, <2>1 DEF SnapshotObject
<1>9. CASE o = RootObject(r) /\ p = RootObject(s) /\ r.root # Nothing /\ s.root # Nothing
  <2>1. PICK x, y : x = r.root /\ y = s.root
    OBVIOUS
  <2>2. Rooted(x) /\ Rooted(y)
    BY <1>5, <1>9, <2>1 DEF Formed
  <2>3. x = y
    BY <1>4, <2>2, RootedOnce
  <2> QED BY <1>9, <2>1, <2>3 DEF RootObject
<1>10. /\ TargetsObject(r).name[1] = "targets" /\ SnapshotObject(r).name[1] = "snapshot" /\ RootObject(r).name[1] = "root"
       /\ TargetsObject(s).name[1] = "targets" /\ SnapshotObject(s).name[1] = "snapshot" /\ RootObject(s).name[1] = "root"
  BY DEF TargetsObject, SnapshotObject, RootObject
<1> QED BY <1>6, <1>7, <1>8, <1>9, <1>10

\* NeverTwice: a name that was ever public keeps its content: snapshots carry
\* their release's version, a targets number is given to one manifest, and one
\* rotation makes one root (prepareRelease, prepareRotation, writeObject).
THEOREM NumbersUsedOnce == Spec => []NeverTwice
BY OmegaAlways, OnceFollows, PTL

LEMMA ReservationFollows == OmegaInv => ReservationKept
BY DEF OmegaInv, JournalInv, FilesInv, VersionFiles, Reserved, Final, ReservationKept

\* ReservationKept: a renewal or a rotation is signed only from its durable
\* intent or reservation, at the time that names, and a version never has both
\* (runRenewal, resumeRotationApply).
THEOREM ReservationsKept == Spec => []ReservationKept
BY OmegaAlways, ReservationFollows, PTL

LEMMA KeyFollows == OmegaInv => RootKeyHeld
BY DEF OmegaInv, JournalInv, FilesInv, RotationFiles, Rooted, Final, RootKeyHeld

\* RootKeyHeld: before a root is signed for a new key, the key's private half
\* is durable, in the intent or in the offline home (prepareRotation,
\* prepareRootRotation), and it stays.
THEOREM RootKeysHeld == Spec => []RootKeyHeld
BY OmegaAlways, KeyFollows, PTL

\* A record that is durable is never changed or removed: install refuses to
\* replace one, and what is withdrawn is only a torn file (store.install,
\* runRenewal).
THEOREM DurableRecordsKept == Spec => [][FinalKept]_vars
<1>1. OmegaInv /\ [Next]_vars => [FinalKept]_vars
  BY FinalStays DEF OmegaInv
<1> QED BY <1>1, OmegaAlways, PTL DEF Spec
=============================================================================
