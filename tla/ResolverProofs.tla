--------------------------- MODULE ResolverProofs ---------------------------
(***************************************************************************)
(* Proofs about the builds of Resolver, for any packs, manifests and       *)
(* number of builds: a locked dependency stays, what a build resolves fits *)
(* what it was asked for, the linker agrees, and dao.lock holds the whole  *)
(* result of a build that resolved everything unless saves met.            *)
(*                                                                         *)
(* A build writes to its lockfile while it resolves.  What keeps that from *)
(* disturbing earlier or later dependencies is that a manifest names each  *)
(* dependency once: an entry is the one the build started from until its   *)
(* dependency is resolved, and the resolution's afterwards.                *)
(***************************************************************************)
EXTENDS Resolver, FiniteSetTheorems, TLAPS

\* SavedFile numbers its inodes so that there is always one left for a new file.
LEMMA InodesFacts ==
  /\ Inodes \subseteq Nat /\ Absent \notin Inodes /\ 0 \in Inodes
  /\ IsFiniteSet(Inodes) /\ Cardinality(Inodes) = Cardinality(Savers) + 3
<1>1. Cardinality(Savers) \in Nat
      BY SavedFileAssumption, FS_CardinalityType
<1>2. IsFiniteSet(Inodes) /\ Cardinality(Inodes) = Cardinality(Savers) + 3
      BY <1>1, FS_Interval DEF Inodes
<1> QED
    BY <1>1, <1>2, SavedFileAssumption DEF Inodes

\* A new file gets an inode that nothing refers to: the names and the open files
\* refer to fewer than there are.
LEMMA NewInodeFree == NewInode \in Inodes /\ Free(NewInode)
<1> DEFINE opened == {fd[s] : s \in Savers}
           refs == (opened \cup {file}) \cup {tmp}
<1>1. IsFiniteSet(opened) /\ Cardinality(opened) <= Cardinality(Savers)
  <2> DEFINE f == [s \in Savers |-> fd[s]]
  <2>1. f \in Surjection(Savers, opened)
        BY DEF Surjection
  <2> QED
      BY <2>1, SavedFileAssumption, FS_Surjection
<1>2. IsFiniteSet(refs) /\ Cardinality(refs) <= Cardinality(Savers) + 2
  <2> HIDE DEF opened
  <2>1. /\ Cardinality(opened) \in Nat /\ Cardinality(Savers) \in Nat
        BY <1>1, SavedFileAssumption, FS_CardinalityType
  <2>2. /\ IsFiniteSet(opened \cup {file})
        /\ Cardinality(opened \cup {file}) <= Cardinality(Savers) + 1
        /\ Cardinality(opened \cup {file}) \in Nat
        BY <1>1, <2>1, FS_AddElement, FS_CardinalityType
  <2> QED
      BY <2>1, <2>2, FS_AddElement
<1>3. ~ (Inodes \subseteq refs)
  <2> HIDE DEF refs
  <2>1. Cardinality(Savers) \in Nat
        BY SavedFileAssumption, FS_CardinalityType
  <2>2. Inodes \subseteq refs => Cardinality(Inodes) <= Cardinality(refs)
        BY <1>2, FS_Subset
  <2>3. Cardinality(refs) \in Nat
        BY <1>2, FS_CardinalityType
  <2> QED
      BY <1>2, <2>1, <2>2, <2>3, InodesFacts
<1> QED
    BY <1>3 DEF Free, NewInode

-----------------------------------------------------------------------------
(* The inductive invariant *)

\* A lockfile entry says of its pack what the pack's manifest says.
Honest(l) ==
  \A n \in PkgNames : l[n] # None =>
    NameOf[l[n].impl] = n /\ VersionOf[l[n].impl] = l[n].version /\ IfaceOf[l[n].impl] = l[n].iface

FileTypes ==
  /\ file \in Inodes \cup {Absent} /\ tmp \in Inodes \cup {Absent}
  /\ data \in [Inodes -> Locks \cup {Broken}]
  /\ fd \in [Builds -> Inodes \cup {Absent}]

\* Every text that parses is an honest lockfile.
FilesHonest ==
  /\ FileTypes
  /\ \A i \in Inodes : data[i] = Broken \/ Honest(data[i])
  /\ published \subseteq Locks

LinksHonest ==
  /\ links \in [PkgNames \X Versions -> Packs \cup {None}]
  /\ \A n \in PkgNames, v \in Versions : links[<<n, v>>] # None =>
       NameOf[links[<<n, v>>]] = n /\ VersionOf[links[<<n, v>>]] = v

BuildTypes ==
  /\ phase \in [Builds -> Phases]
  /\ manifest \in [Builds -> Manifests \cup {<<>>}]
  /\ lock \in [Builds -> Locks] /\ started_from \in [Builds -> Locks]
  /\ picked \in [Builds -> (Versions \X Packs) \cup {None}]
  /\ out \in [Builds -> Seq(Resolutions)]

Idle(b) == phase[b] = "off" => out[b] = <<>> /\ picked[b] = None

\* The pack chosen is the one a resolution of the next dependency may take.
PickedFits(b) ==
  picked[b] # None =>
    /\ phase[b] = "resolve" /\ Len(out[b]) < Len(manifest[b]) /\ ~ Locked(b)
    /\ NameOf[picked[b][2]] = Dep(b).name /\ VersionOf[picked[b][2]] = picked[b][1]
    /\ InRange(picked[b][1], Dep(b))
    /\ Pinned(Dep(b)) => IfaceOf[picked[b][2]] = Dep(b).pin

\* The entries of the dependencies still to come are those it started from.
Ahead(b) ==
  \A i \in Len(out[b]) + 1 .. Len(manifest[b]) :
    lock[b][manifest[b][i].name] = started_from[b][manifest[b][i].name]

Stays(b) ==
  \A i \in 1..Len(out[b]) :
    LET d == manifest[b][i]
        e == started_from[b][d.name]
    IN  (~ Pinned(d) /\ e # None /\ InRange(e.version, d)) => out[b][i].impl = e.impl

Fits(b) ==
  \A i \in 1..Len(out[b]) :
    LET d == manifest[b][i]
        r == out[b][i]
        e == lock[b][d.name]
    IN  /\ NameOf[r.impl] = d.name /\ VersionOf[r.impl] = r.version
        /\ InRange(r.version, d)
        /\ Pinned(d) => IfaceOf[r.impl] = d.pin
        /\ e # None /\ e.impl = r.impl /\ e.version = r.version
        /\ e.iface = IfaceOf[r.impl]

BuildInv(b) ==
  /\ Idle(b)
  /\ Len(out[b]) <= Len(manifest[b])
  /\ Honest(lock[b])
  /\ phase[b] \in {"open", "write", "rename"} => lock[b] \in published
  /\ PickedFits(b)
  /\ Ahead(b)
  /\ Stays(b)
  /\ Fits(b)

IInv ==
  /\ FilesHonest
  /\ LinksHonest
  /\ BuildTypes
  /\ \A b \in Builds : BuildInv(b)

-----------------------------------------------------------------------------
LEMMA NoLockFacts == NoLock \in Locks /\ Honest(NoLock) /\ Blank = NoLock
BY ResolverAssumption DEF NoLock, Locks, Honest

LEMMA ContentHonest ==
  ASSUME FilesHonest, Content # Broken
  PROVE  Content \in Locks /\ Honest(Content)
BY NoLockFacts DEF FilesHonest, FileTypes, Content

LEMMA ManifestFacts ==
  ASSUME BuildTypes, NEW b \in Builds
  PROVE  /\ manifest[b] \in Seq(Deps)
         /\ \A i, j \in DOMAIN manifest[b] :
              manifest[b][i].name = manifest[b][j].name => i = j
<1>1. IsManifest(<<>>)
      BY DEF IsManifest
<1>2. IsManifest(manifest[b])
      BY <1>1, ResolverAssumption DEF BuildTypes
<1> QED
    BY <1>2 DEF IsManifest

\* A build that has not begun, or has ended.
LEMMA FreshBuild ==
  ASSUME NEW b \in Builds, out[b] = <<>>, picked[b] = None, Honest(lock[b]), BuildTypes,
         phase[b] \in {"off", "resolve"}, lock[b] = started_from[b]
  PROVE  BuildInv(b)
<1>1. Len(out[b]) = 0 /\ Len(manifest[b]) \in Nat
      BY ManifestFacts
<1> QED
    BY <1>1 DEF BuildInv, Idle, PickedFits, Ahead, Stays, Fits

LEMMA InitIInv == Init => IInv
<1> SUFFICES ASSUME Init PROVE IInv
    OBVIOUS
<1>1. FilesHonest
  <2>1. file = Absent /\ data = [i \in Inodes |-> Blank] /\ tmp = Absent
        BY InodesFacts DEF Init, FileInit
  <2> QED
      BY <2>1, NoLockFacts DEF Init, FileInit, FilesHonest, FileTypes, Builds
<1>2. LinksHonest /\ BuildTypes
      BY NoLockFacts DEF Init, LinksHonest, BuildTypes, Phases
<1>3. \A b \in Builds : BuildInv(b)
      BY <1>2, NoLockFacts, FreshBuild DEF Init
<1> QED
    BY <1>1, <1>2, <1>3 DEF IInv

-----------------------------------------------------------------------------
(* The steps *)

\* What a build does to the files keeps them honest.
LEMMA FileStepKeeps ==
  ASSUME IInv, NEW b \in Builds, published' = published,
         \/ OpenTmp(b)
         \/ WriteTmp(b, lock[b])
         \/ RenameTmp(b, lock[b])
         \/ RenameFails(b)
         \/ Abandon(b)
  PROVE  FilesHonest'
<1>1. FilesHonest /\ Honest(lock[b]) /\ lock[b] \in Locks
      BY DEF IInv, BuildInv, BuildTypes
<1>2. CASE OpenTmp(b)
  <2> DEFINE i == IF tmp = Absent THEN NewInode ELSE tmp
  <2>1. i \in Inodes
        BY <1>1, NewInodeFree DEF FilesHonest, FileTypes
  <2>2. /\ tmp' = i /\ data' = [data EXCEPT ![i] = Blank] /\ fd' = [fd EXCEPT ![b] = i]
        /\ UNCHANGED file
        BY <1>2 DEF OpenTmp
  <2> HIDE DEF i
  <2> QED
      BY <1>1, <2>1, <2>2, NoLockFacts DEF FilesHonest, FileTypes
<1>3. CASE WriteTmp(b, lock[b])
  <2>1. PICK c \in {lock[b], Broken} : data' = [data EXCEPT ![fd[b]] = c]
        BY <1>3 DEF WriteTmp
  <2>2. fd' = [fd EXCEPT ![b] = Absent] /\ UNCHANGED <<file, tmp>>
        BY <1>3 DEF WriteTmp
  <2> QED
      BY <1>1, <2>1, <2>2 DEF FilesHonest, FileTypes
<1>4. CASE RenameTmp(b, lock[b]) \/ RenameFails(b)
  <2>1. PICK refs : data' = Kept(data, refs)
        BY <1>4 DEF RenameTmp, RenameFails
  <2>2. /\ file' \in {file, tmp} /\ tmp' = Absent /\ fd' = fd
        BY <1>4 DEF RenameTmp, RenameFails
  <2> QED
      BY <1>1, <2>1, <2>2, NoLockFacts DEF FilesHonest, FileTypes, Kept
<1>5. CASE Abandon(b)
      BY <1>1, <1>5 DEF FilesHonest, FileTypes, Abandon
<1> QED
    BY <1>2, <1>3, <1>4, <1>5

\* The builds other than b are as they were.
Others(b) ==
  \A o \in Builds \ {b} :
    /\ phase'[o] = phase[o] /\ manifest'[o] = manifest[o] /\ lock'[o] = lock[o]
    /\ picked'[o] = picked[o] /\ out'[o] = out[o] /\ started_from'[o] = started_from[o]

LEMMA OthersKeep ==
  ASSUME IInv, NEW b \in Builds, Others(b), published \subseteq published'
  PROVE  \A o \in Builds \ {b} : BuildInv(o)'
<1> SUFFICES ASSUME NEW o \in Builds \ {b} PROVE BuildInv(o)'
    OBVIOUS
<1>1. /\ phase'[o] = phase[o] /\ manifest'[o] = manifest[o] /\ lock'[o] = lock[o]
      /\ picked'[o] = picked[o] /\ out'[o] = out[o] /\ started_from'[o] = started_from[o]
      BY DEF Others
<1>2. BuildInv(o)
      BY DEF IInv
<1>3. Idle(o)' /\ Honest(lock[o])' /\ Len(out'[o]) <= Len(manifest'[o])
      BY <1>1, <1>2 DEF BuildInv, Idle, Honest
<1>4. phase'[o] \in {"open", "write", "rename"} => lock'[o] \in published'
      BY <1>1, <1>2 DEF BuildInv
<1>5. PickedFits(o)'
      BY <1>1, <1>2 DEF BuildInv, PickedFits, Locked, Dep
<1>6. Ahead(o)' /\ Stays(o)' /\ Fits(o)'
      BY <1>1, <1>2 DEF BuildInv, Ahead, Stays, Fits
<1> QED
    BY <1>3, <1>4, <1>5, <1>6 DEF BuildInv

\* A build ends.
LEMMA ResetKeeps ==
  ASSUME IInv, NEW b \in Builds, Reset(b), UNCHANGED <<links, published>>, FilesHonest'
  PROVE  IInv'
<1>1. BuildTypes'
      BY NoLockFacts DEF IInv, BuildTypes, Reset, Phases
<1>2. LinksHonest'
      BY DEF IInv, LinksHonest
<1>3. Others(b)
      BY DEF IInv, BuildTypes, Reset, Others
<1>4. /\ out'[b] = <<>> /\ picked'[b] = None /\ lock'[b] = NoLock /\ phase'[b] = "off"
      /\ started_from'[b] = NoLock
      BY DEF IInv, BuildTypes, Reset
<1>5. BuildInv(b)'
  <2>1. Honest(lock'[b]) /\ lock'[b] = started_from'[b]
        BY <1>4, NoLockFacts
  <2>2. phase'[b] \in {"off", "resolve"}
        BY <1>4
  <2>3. Len(out'[b]) = 0 /\ manifest'[b] \in Seq(Deps)
        BY <1>1, <1>4, ManifestFacts, ResolverAssumption DEF BuildTypes, IsManifest
  <2> QED
      BY <1>4, <2>1, <2>2, <2>3 DEF BuildInv, Idle, PickedFits, Ahead, Stays, Fits, Honest
<1> QED
    BY <1>1, <1>2, <1>3, <1>5, OthersKeep DEF IInv

LEMMA EndKeeps ==
  ASSUME IInv, NEW b \in Builds,
         \/ Kill(b) \/ LockedMissing(b) \/ NoChoice(b) \/ RecordFails(b)
         \/ RenameLock(b) \/ SaveFails(b)
  PROVE  IInv'
<1>1. Reset(b) /\ UNCHANGED <<links, published>>
      BY DEF Kill, LockedMissing, NoChoice, RecordFails, RenameLock, SaveFails, storeVars
<1>2. FilesHonest'
  <2>1. CASE UNCHANGED <<file, tmp, data, fd>>
        BY <1>1, <2>1 DEF IInv, FilesHonest, FileTypes
  <2>2. CASE RenameTmp(b, lock[b]) \/ RenameFails(b) \/ Abandon(b)
        BY <1>1, <2>2, FileStepKeeps
  <2> QED
      BY <2>1, <2>2 DEF Kill, LockedMissing, NoChoice, RecordFails, RenameLock, SaveFails, fileVars,
         inodeVars
<1> QED
    BY <1>1, <1>2, ResetKeeps

\* The surroundings change the store and the file.
LEMMA StoreKeeps ==
  ASSUME IInv,
         \/ \E p \in Packs : Install(p) \/ Collect(p) \/ Damage(p)
         \/ DeleteLock \/ BreakLock
  PROVE  IInv'
<1>1. UNCHANGED <<phase, manifest, lock, picked, out, started_from, published>>
      BY DEF Install, Collect, Damage, DeleteLock, BreakLock, buildVars
<1>2. BuildTypes'
      BY <1>1 DEF IInv, BuildTypes
<1>3. \A b \in Builds : BuildInv(b)'
  <2> SUFFICES ASSUME NEW b \in Builds PROVE BuildInv(b)'
      OBVIOUS
  <2>1. BuildInv(b)
        BY DEF IInv
  <2> QED
      BY <1>1, <2>1 DEF BuildInv, Idle, Honest, PickedFits, Locked, Dep, Ahead, Stays, Fits
<1>4. LinksHonest'
  <2>1. CASE UNCHANGED links
        BY <2>1 DEF IInv, LinksHonest
  <2>2. ASSUME NEW p \in Packs, Install(p) PROVE LinksHonest'
    <3>1. links' = [links EXCEPT ![<<NameOf[p], VersionOf[p]>>] = p]
          BY <2>2 DEF Install
    <3> QED
        BY <3>1, PackagesAssumption DEF IInv, LinksHonest
  <2>3. ASSUME NEW p \in Packs, Collect(p) PROVE LinksHonest'
    <3>1. CASE links' = [k \in DOMAIN links |-> IF links[k] = p THEN None ELSE links[k]]
          BY <3>1 DEF IInv, LinksHonest
    <3> QED
        BY <2>1, <2>3, <3>1 DEF Collect
  <2> QED
      BY <2>1, <2>2, <2>3 DEF Damage, DeleteLock, BreakLock, storeVars
<1>5. FilesHonest'
  <2>1. CASE UNCHANGED <<file, tmp, data, fd>>
        BY <1>1, <2>1 DEF IInv, FilesHonest, FileTypes
  <2>2. CASE Delete
        BY <1>1, <2>2, NoLockFacts DEF IInv, FilesHonest, FileTypes, Delete, Kept
  <2>3. CASE Replace(Broken)
    <3>1. PICK refs : data' = [Kept(data, refs) EXCEPT ![NewInode] = Broken]
          BY <2>3 DEF Replace
    <3>2. file' = NewInode /\ UNCHANGED <<tmp, fd>>
          BY <2>3 DEF Replace
    <3> QED
        BY <1>1, <3>1, <3>2, NewInodeFree, NoLockFacts DEF IInv, FilesHonest, FileTypes, Kept
  <2> QED
      BY <2>1, <2>2, <2>3 DEF Install, Collect, Damage, DeleteLock, BreakLock, fileVars, inodeVars
<1> QED
    BY <1>2, <1>3, <1>4, <1>5 DEF IInv

LEMMA BeginKeeps ==
  ASSUME IInv, NEW b \in Builds, NEW m \in Manifests, Begin(b, m)
  PROVE  IInv'
<1>1. Content \in Locks /\ Honest(Content)
      BY ContentHonest DEF IInv, Begin
<1>2. /\ phase[b] = "off" /\ phase' = [phase EXCEPT ![b] = "resolve"]
      /\ manifest' = [manifest EXCEPT ![b] = m] /\ lock' = [lock EXCEPT ![b] = Content]
      /\ started_from' = [started_from EXCEPT ![b] = Content]
      /\ UNCHANGED <<file, tmp, data, fd, links, picked, out, published>>
      BY DEF Begin, fileVars, inodeVars, storeVars
<1>3. BuildTypes' /\ LinksHonest' /\ FilesHonest'
      BY <1>1, <1>2 DEF IInv, BuildTypes, LinksHonest, FilesHonest, FileTypes, Phases
<1>4. Others(b)
      BY <1>2 DEF IInv, BuildTypes, Others
<1>5. /\ out'[b] = <<>> /\ picked'[b] = None
      /\ phase'[b] = "resolve" /\ lock'[b] = Content /\ started_from'[b] = Content
      BY <1>2 DEF IInv, BuildTypes, BuildInv, Idle
<1>6. BuildInv(b)'
  <2>1. Len(out'[b]) = 0 /\ manifest'[b] \in Seq(Deps)
        BY <1>2, <1>3, <1>5, ResolverAssumption DEF IInv, BuildTypes, IsManifest
  <2> QED
      BY <1>1, <1>5, <2>1 DEF BuildInv, Idle, PickedFits, Ahead, Stays, Fits, Honest
<1> QED
    BY <1>2, <1>3, <1>4, <1>6, OthersKeep DEF IInv

\* Everything resolved: the lockfile is one that may be published.
LEMMA FinishKeeps ==
  ASSUME IInv, NEW b \in Builds, Finish(b)
  PROVE  IInv'
<1>1. /\ phase' = [phase EXCEPT ![b] = "open"] /\ published' = published \cup {lock[b]}
      /\ Len(out[b]) = Len(manifest[b])
      /\ UNCHANGED <<file, tmp, data, fd, links, manifest, lock, picked, out, started_from>>
      BY DEF Finish, StartSave, inodeVars, storeVars
<1>2. BuildInv(b) /\ lock[b] \in Locks
      BY DEF IInv, BuildTypes
<1>3. BuildTypes' /\ LinksHonest'
      BY <1>1 DEF IInv, BuildTypes, LinksHonest, Phases
<1>4. FilesHonest'
      BY <1>1, <1>2 DEF IInv, FilesHonest, FileTypes, BuildInv, Honest
<1>5. Others(b) /\ phase'[b] = "open"
      BY <1>1 DEF IInv, BuildTypes, Others
<1>6. BuildInv(b)'
  <2>1. picked[b] = None
        BY <1>1, <1>2, ManifestFacts DEF IInv, BuildTypes, BuildInv, PickedFits
  <2> QED
      BY <1>1, <1>2, <1>5, <2>1 DEF BuildInv, Idle, Honest, PickedFits, Ahead, Stays, Fits
<1> QED
    BY <1>1, <1>3, <1>4, <1>5, <1>6, OthersKeep DEF IInv

LEMMA SaveStepKeeps ==
  ASSUME IInv, NEW b \in Builds, OpenLock(b) \/ WriteLock(b)
  PROVE  IInv'
<1>1. /\ phase[b] \in {"open", "write"}
      /\ \E p \in {"write", "rename"} : phase' = [phase EXCEPT ![b] = p]
      /\ UNCHANGED <<links, manifest, lock, picked, out, started_from, published>>
      BY DEF OpenLock, WriteLock, storeVars
<1>2. BuildInv(b)
      BY DEF IInv
<1>3. lock[b] \in published
      BY <1>1, <1>2 DEF BuildInv
<1>4. FilesHonest'
      BY <1>1, <1>3, FileStepKeeps DEF OpenLock, WriteLock
<1>5. BuildTypes' /\ LinksHonest' /\ Others(b)
      BY <1>1 DEF IInv, BuildTypes, LinksHonest, Phases, Others
<1>6. BuildInv(b)'
  <2>1. picked[b] = None /\ phase'[b] \in {"write", "rename"}
        BY <1>1, <1>2 DEF BuildInv, PickedFits, IInv, BuildTypes
  <2> QED
      BY <1>1, <1>2, <1>3, <2>1 DEF BuildInv, Idle, Honest, PickedFits, Ahead, Stays, Fits
<1> QED
    BY <1>1, <1>4, <1>5, <1>6, OthersKeep DEF IInv

\* The dependency to resolve next.
LEMMA DepFacts ==
  ASSUME IInv, NEW b \in Builds, Len(out[b]) < Len(manifest[b])
  PROVE  /\ Len(out[b]) \in Nat /\ Len(manifest[b]) \in Nat
         /\ Len(out[b]) + 1 \in 1..Len(manifest[b])
         /\ Dep(b) \in Deps /\ Dep(b).name \in PkgNames
<1>1. /\ manifest[b] \in Seq(Deps) /\ out[b] \in Seq(Resolutions)
      BY ManifestFacts DEF IInv, BuildTypes
<1>2. Len(out[b]) \in Nat /\ Len(manifest[b]) \in Nat /\ Len(out[b]) + 1 \in 1..Len(manifest[b])
      BY <1>1
<1>3. Dep(b) \in Deps
      BY <1>1, <1>2 DEF Dep
<1> QED
    BY <1>2, <1>3 DEF Deps

LEMMA ChooseKeeps ==
  ASSUME IInv, NEW b \in Builds, Choose(b)
  PROVE  IInv'
<1> DEFINE d == Dep(b)
<1>1. /\ phase[b] = "resolve" /\ Len(out[b]) < Len(manifest[b]) /\ ~ Locked(b)
      /\ UNCHANGED <<file, tmp, data, fd, links, phase, manifest, lock, out, started_from, published>>
      BY DEF Choose, Pending, fileVars, inodeVars, storeVars
<1>2. PICK c \in Choices(d) : picked' = [picked EXCEPT ![b] = c]
      BY DEF Choose
<1>3. BuildInv(b)
      BY DEF IInv
<1>4. /\ c \in Versions \X Packs /\ links[<<d.name, c[1]>>] = c[2]
      /\ InRange(c[1], d) /\ (Pinned(d) => IfaceOf[c[2]] = d.pin)
      BY DEF Choices
<1>5. d.name \in PkgNames /\ c[1] \in Versions /\ c[2] # None
      BY <1>1, <1>4, DepFacts, PackagesAssumption
<1>6. NameOf[c[2]] = d.name /\ VersionOf[c[2]] = c[1]
      BY <1>4, <1>5 DEF IInv, LinksHonest
<1>7. BuildTypes' /\ LinksHonest' /\ FilesHonest' /\ Others(b)
      BY <1>1, <1>2, <1>4 DEF IInv, BuildTypes, LinksHonest, FilesHonest, FileTypes, Others
<1>8. picked'[b] = c
      BY <1>2 DEF IInv, BuildTypes
<1>9. PickedFits(b)'
      BY <1>1, <1>4, <1>6, <1>8 DEF PickedFits, Locked, Dep
<1>10. BuildInv(b)'
      BY <1>1, <1>3, <1>9 DEF BuildInv, Idle, Honest, Ahead, Stays, Fits
<1> QED
    BY <1>1, <1>7, <1>10, OthersKeep DEF IInv

LEMMA ResolveLockedKeeps ==
  ASSUME IInv, NEW b \in Builds, ResolveLocked(b)
  PROVE  IInv'
<1> DEFINE d == Dep(b)
           e == lock[b][d.name]
           r == [version |-> e.version, impl |-> e.impl, origin |-> "lockfile"]
           n == Len(out[b]) + 1
<1>1. /\ phase[b] = "resolve" /\ Len(out[b]) < Len(manifest[b]) /\ picked[b] = None
      /\ ~ Pinned(d) /\ e # None /\ InRange(e.version, d)
      /\ out' = [out EXCEPT ![b] = Append(@, r)]
      /\ UNCHANGED <<file, tmp, data, fd, links, phase, manifest, lock, picked, started_from,
                     published>>
      BY DEF ResolveLocked, Resolved, Locked, Pending, fileVars, inodeVars, storeVars
<1>2. BuildInv(b) /\ out[b] \in Seq(Resolutions) /\ lock[b] \in Locks /\ manifest[b] \in Seq(Deps)
      BY ManifestFacts DEF IInv, BuildTypes
<1>3. /\ n \in 1..Len(manifest[b]) /\ d = manifest[b][n] /\ d.name \in PkgNames
      /\ Len(out[b]) \in Nat /\ Len(manifest[b]) \in Nat
      BY <1>1, DepFacts DEF Dep
<1>4. e \in Entries
      BY <1>1, <1>2, <1>3 DEF Locks
<1>5. r \in Resolutions
      BY <1>4 DEF Entries, Resolutions
<1> HIDE DEF r
<1>6. /\ out'[b] = Append(out[b], r) /\ Len(out'[b]) = n /\ out'[b][n] = r
      /\ \A i \in 1..Len(out[b]) : out'[b][i] = out[b][i]
      BY <1>1, <1>2, <1>5 DEF IInv, BuildTypes
<1>7. BuildTypes' /\ LinksHonest' /\ FilesHonest' /\ Others(b)
      BY <1>1, <1>2, <1>5 DEF IInv, BuildTypes, LinksHonest, FilesHonest, FileTypes, Others
<1>8. Ahead(b)'
      BY <1>1, <1>2, <1>6 DEF BuildInv, Ahead
<1>9. r.impl = e.impl /\ r.version = e.version
      BY DEF r
<1>10. Stays(b)'
  <2>1. e = started_from[b][d.name]
        BY <1>2, <1>3 DEF BuildInv, Ahead
  <2>2. \A i \in 1..n : i = n \/ i \in 1..Len(out[b])
        BY <1>2
  <2> QED
      BY <1>1, <1>2, <1>3, <1>6, <1>9, <2>1, <2>2 DEF BuildInv, Stays
<1>11. Fits(b)'
  <2>1. NameOf[e.impl] = d.name /\ VersionOf[e.impl] = e.version /\ e.iface = IfaceOf[e.impl]
        BY <1>1, <1>2, <1>3 DEF BuildInv, Honest
  <2>2. \A i \in 1..n : i = n \/ i \in 1..Len(out[b])
        BY <1>3
  <2>3. UNCHANGED <<manifest, lock>>
        BY <1>1
  <2> SUFFICES ASSUME NEW i \in 1..n
               PROVE  LET f == manifest[b][i]
                          q == out'[b][i]
                          g == lock[b][f.name]
                      IN  /\ NameOf[q.impl] = f.name /\ VersionOf[q.impl] = q.version
                          /\ InRange(q.version, f)
                          /\ Pinned(f) => IfaceOf[q.impl] = f.pin
                          /\ g # None /\ g.impl = q.impl /\ g.version = q.version
                          /\ g.iface = IfaceOf[q.impl]
      BY <1>6, <2>3 DEF Fits
  <2>4. CASE i = n
        BY <2>4, <1>1, <1>3, <1>6, <1>9, <2>1
  <2>5. CASE i \in 1..Len(out[b])
        BY <2>5, <1>2, <1>6 DEF BuildInv, Fits
  <2> QED
      BY <2>2, <2>4, <2>5
<1>12. BuildInv(b)'
  <2>1. Idle(b)' /\ PickedFits(b)'
        BY <1>1 DEF Idle, PickedFits
  <2>2. Len(out'[b]) <= Len(manifest'[b])
        BY <1>1, <1>3, <1>6
  <2>3. Honest(lock[b])'
        BY <1>1, <1>2 DEF BuildInv, Honest
  <2> QED
      BY <1>1, <1>8, <1>10, <1>11, <2>1, <2>2, <2>3 DEF BuildInv
<1> QED
    BY <1>1, <1>7, <1>12, OthersKeep DEF IInv

LEMMA RecordKeeps ==
  ASSUME IInv, NEW b \in Builds, Record(b)
  PROVE  IInv'
<1> DEFINE d == Dep(b)
           v == picked[b][1]
           p == picked[b][2]
           entry == [version |-> v, iface |-> IfaceOf[p], impl |-> p]
           n == Len(out[b]) + 1
<1>1. PICK origin \in {"ifacepin", "fresh"} :
        /\ picked[b] # None
        /\ lock' = [lock EXCEPT ![b][d.name] = entry]
        /\ picked' = [picked EXCEPT ![b] = None]
        /\ out' = [out EXCEPT ![b] = Append(@, [version |-> v, impl |-> p, origin |-> origin])]
        /\ UNCHANGED <<file, tmp, data, fd, links, phase, manifest, started_from, published>>
      BY DEF Record, Resolved, fileVars, inodeVars, storeVars
<1> DEFINE r == [version |-> v, impl |-> p, origin |-> origin]
<1>2. BuildInv(b) /\ out[b] \in Seq(Resolutions) /\ lock[b] \in Locks /\ picked[b] \in Versions \X Packs
      BY <1>1 DEF IInv, BuildTypes
<1>3. /\ phase[b] = "resolve" /\ Len(out[b]) < Len(manifest[b]) /\ ~ Locked(b)
      /\ NameOf[p] = d.name /\ VersionOf[p] = v /\ InRange(v, d)
      /\ Pinned(d) => IfaceOf[p] = d.pin
      BY <1>1, <1>2 DEF BuildInv, PickedFits
<1>4. /\ n \in 1..Len(manifest[b]) /\ d = manifest[b][n] /\ d.name \in PkgNames
      /\ Len(out[b]) \in Nat /\ Len(manifest[b]) \in Nat
      BY <1>3, DepFacts DEF Dep
<1>5. v \in Versions /\ p \in Packs
      BY <1>2
<1>6. entry \in Entries /\ r \in Resolutions /\ entry # None
  <2>1. entry \in Entries /\ r \in Resolutions
        BY <1>5 DEF Entries, Resolutions
  <2> QED
      BY <2>1, ResolverAssumption
<1>7. /\ entry.version = v /\ entry.iface = IfaceOf[p] /\ entry.impl = p
      /\ r.version = v /\ r.impl = p
      OBVIOUS
<1> HIDE DEF entry, r
<1>8. /\ lock'[b][d.name] = entry
      /\ \A m \in PkgNames \ {d.name} : lock'[b][m] = lock[b][m]
      BY <1>1, <1>2, <1>4 DEF IInv, BuildTypes, Locks
<1>9. /\ Len(out'[b]) = n /\ out'[b][n] = r
      /\ \A i \in 1..Len(out[b]) : out'[b][i] = out[b][i]
  <2>1. out'[b] = Append(out[b], r)
        BY <1>1 DEF IInv, BuildTypes, r
  <2> QED
      BY <2>1, <1>2, <1>6
<1>10. BuildTypes' /\ LinksHonest' /\ FilesHonest' /\ Others(b)
  <2>1. lock' \in [Builds -> Locks]
        BY <1>1, <1>2, <1>4, <1>6 DEF IInv, BuildTypes, Locks
  <2>2. out' \in [Builds -> Seq(Resolutions)]
    <3>1. out' = [out EXCEPT ![b] = Append(@, r)]
          BY <1>1 DEF r
    <3> QED
        BY <3>1, <1>2, <1>6 DEF IInv, BuildTypes
  <2>3. picked' \in [Builds -> (Versions \X Packs) \cup {None}]
        BY <1>1 DEF IInv, BuildTypes
  <2> QED
      BY <1>1, <2>1, <2>2, <2>3 DEF IInv, BuildTypes, LinksHonest, FilesHonest, FileTypes, Others
\* The dependencies before and after have other names.
<1>11. ASSUME NEW i \in 1..Len(manifest[b]), i # n
       PROVE  lock'[b][manifest[b][i].name] = lock[b][manifest[b][i].name]
  <2>1. /\ manifest[b] \in Seq(Deps) /\ manifest[b][i] \in Deps
        /\ manifest[b][i].name # d.name
        BY <1>4, <1>11, ManifestFacts DEF IInv
  <2>2. manifest[b][i].name \in PkgNames
        BY <2>1 DEF Deps
  <2> QED
      BY <1>8, <2>1, <2>2
<1>12. Ahead(b)'
  <2> SUFFICES ASSUME NEW i \in n + 1..Len(manifest[b])
               PROVE  lock'[b][manifest[b][i].name] = started_from[b][manifest[b][i].name]
      BY <1>1, <1>9 DEF Ahead
  <2>1. i \in n..Len(manifest[b]) /\ i # n /\ i \in 1..Len(manifest[b])
        BY <1>4
  <2> QED
      BY <1>2, <1>11, <2>1 DEF BuildInv, Ahead
<1>13. \A i \in 1..n : i = n \/ i \in 1..Len(out[b])
      BY <1>4
<1>14. Stays(b)'
  <2>1. lock[b][d.name] = started_from[b][d.name]
        BY <1>2, <1>4 DEF BuildInv, Ahead
  <2>2. ~ (~ Pinned(d) /\ started_from[b][d.name] # None /\ InRange(started_from[b][d.name].version, d))
        BY <1>3, <2>1 DEF Locked
  <2>3. UNCHANGED <<manifest, started_from>>
        BY <1>1
  <2> SUFFICES ASSUME NEW i \in 1..n
               PROVE  LET f == manifest[b][i]
                          e == started_from[b][f.name]
                      IN  (~ Pinned(f) /\ e # None /\ InRange(e.version, f)) => out'[b][i].impl = e.impl
      BY <1>9, <2>3 DEF Stays
  <2>4. CASE i = n
        BY <2>4, <2>2, <1>4
  <2>5. CASE i \in 1..Len(out[b])
        BY <2>5, <1>2, <1>9 DEF BuildInv, Stays
  <2> QED
      BY <2>4, <2>5, <1>13
<1>15. Fits(b)'
  <2>1. UNCHANGED manifest
        BY <1>1
  <2> SUFFICES ASSUME NEW i \in 1..n
               PROVE  LET f == manifest[b][i]
                          q == out'[b][i]
                          g == lock'[b][f.name]
                      IN  /\ NameOf[q.impl] = f.name /\ VersionOf[q.impl] = q.version
                          /\ InRange(q.version, f)
                          /\ Pinned(f) => IfaceOf[q.impl] = f.pin
                          /\ g # None /\ g.impl = q.impl /\ g.version = q.version
                          /\ g.iface = IfaceOf[q.impl]
      BY <1>9, <2>1 DEF Fits
  <2>2. CASE i = n
        BY <2>2, <1>3, <1>4, <1>6, <1>7, <1>8, <1>9
  <2>3. CASE i \in 1..Len(out[b])
    <3>1. i \in 1..Len(manifest[b]) /\ i # n
          BY <2>3, <1>4
    <3> QED
        BY <2>3, <3>1, <1>2, <1>9, <1>11 DEF BuildInv, Fits
  <2> QED
      BY <2>2, <2>3, <1>13
<1>16. BuildInv(b)'
  <2>1. picked'[b] = None /\ phase'[b] = "resolve"
        BY <1>1, <1>3 DEF IInv, BuildTypes
  <2>2. Idle(b)' /\ PickedFits(b)'
        BY <2>1 DEF Idle, PickedFits
  <2>3. Len(out'[b]) <= Len(manifest'[b])
        BY <1>1, <1>4, <1>9
  <2>4. Honest(lock[b])'
        BY <1>2, <1>3, <1>7, <1>8 DEF BuildInv, Honest
  <2> QED
      BY <1>12, <1>14, <1>15, <2>1, <2>2, <2>3, <2>4 DEF BuildInv
<1> QED
    BY <1>1, <1>10, <1>16, OthersKeep DEF IInv

-----------------------------------------------------------------------------
LEMMA NextIInv == IInv /\ [Next]_vars => IInv'
<1> SUFFICES ASSUME IInv, [Next]_vars PROVE IInv'
    OBVIOUS
<1>1. CASE UNCHANGED vars
  <2>1. /\ UNCHANGED <<file, tmp, data, fd, links, published>>
        /\ UNCHANGED <<phase, manifest, lock, picked, out, started_from>>
        BY <1>1 DEF vars, fileVars, inodeVars, storeVars, buildVars
  <2>2. \A b \in Builds : BuildInv(b)'
    <3> SUFFICES ASSUME NEW b \in Builds PROVE BuildInv(b)'
        OBVIOUS
    <3>1. BuildInv(b)
          BY DEF IInv
    <3> QED
        BY <2>1, <3>1 DEF BuildInv, Idle, Honest, PickedFits, Locked, Dep, Ahead, Stays, Fits
  <2> QED
      BY <2>1, <2>2 DEF IInv, FilesHonest, FileTypes, LinksHonest, BuildTypes
<1>2. CASE \/ \E p \in Packs : Install(p) \/ Collect(p) \/ Damage(p)
           \/ DeleteLock \/ BreakLock
      BY <1>2, StoreKeeps
<1>3. ASSUME NEW b \in Builds, NEW m \in Manifests, Begin(b, m) PROVE IInv'
      BY <1>3, BeginKeeps
<1>4. ASSUME NEW b \in Builds,
             \/ Kill(b) \/ LockedMissing(b) \/ NoChoice(b) \/ RecordFails(b)
             \/ RenameLock(b) \/ SaveFails(b)
      PROVE  IInv'
      BY <1>4, EndKeeps
<1>5. ASSUME NEW b \in Builds, ResolveLocked(b) \/ Choose(b) \/ Record(b) PROVE IInv'
      BY <1>5, ResolveLockedKeeps, ChooseKeeps, RecordKeeps
<1>6. ASSUME NEW b \in Builds, Finish(b) \/ OpenLock(b) \/ WriteLock(b) PROVE IInv'
      BY <1>6, FinishKeeps, SaveStepKeeps
<1> QED
    BY <1>1, <1>2, <1>3, <1>4, <1>5, <1>6 DEF Next

LEMMA SpecIInv == Spec => []IInv
BY InitIInv, NextIInv, PTL DEF Spec

\* A dependency that was locked in range resolves to the locked pack, whatever
\* else the build resolves and others do to the store meanwhile.
THEOREM SpecLockedStays == Spec => []LockedStays
<1>1. IInv => LockedStays
      BY DEF IInv, BuildInv, Stays, LockedStays
<1> QED
    BY <1>1, SpecIInv, PTL

\* What a build resolved is of the name, range and interface asked for, and its
\* lockfile goes on saying so.
THEOREM SpecResolvedFits == Spec => []ResolvedFits
<1>1. IInv => ResolvedFits
      BY DEF IInv, BuildInv, Fits, ResolvedFits
<1> QED
    BY <1>1, SpecIInv, PTL

-----------------------------------------------------------------------------
(* The linker, given what a build resolved *)

LEMMA LinkerFollows == IInv => LinkerAgrees
<1> SUFFICES ASSUME IInv, NEW b \in Builds, NEW i \in DOMAIN out[b]
             PROVE  LET chosen == {out[b][j].impl : j \in DOMAIN out[b]}
                    IN  /\ LinkFailure(manifest[b][i], chosen) = "none"
                        /\ Selected(manifest[b][i], chosen) = {out[b][i].impl}
                        /\ LinkWarning(manifest[b][i], out[b][i].impl) # "pin_mismatch"
    BY DEF LinkerAgrees
<1> DEFINE chosen == {out[b][j].impl : j \in DOMAIN out[b]}
           d == manifest[b][i]
           p == out[b][i].impl
<1>1. /\ out[b] \in Seq(Resolutions) /\ manifest[b] \in Seq(Deps)
      /\ Len(out[b]) <= Len(manifest[b])
      BY ManifestFacts DEF IInv, BuildTypes, BuildInv
<1>2. DOMAIN out[b] = 1..Len(out[b]) /\ DOMAIN out[b] \subseteq DOMAIN manifest[b]
      BY <1>1
<1>3. \A j \in DOMAIN out[b] : NameOf[out[b][j].impl] = manifest[b][j].name
      BY <1>2 DEF IInv, BuildInv, Fits
<1>4. /\ NameOf[p] = d.name /\ InRange(VersionOf[p], d) /\ (Pinned(d) => IfaceOf[p] = d.pin)
      /\ p \in Packs /\ VersionOf[p] \in Nat /\ d \in Deps
  <2>1. out[b][i] \in Resolutions /\ d \in Deps
        BY <1>1, <1>2
  <2>2. p \in Packs
        BY <2>1 DEF Resolutions
  <2> QED
      BY <1>2, <2>1, <2>2, PackagesAssumption DEF IInv, BuildInv, Fits
\* Names are distinct: the pack resolved is the only candidate.
<1>5. Candidates(d, chosen) = {p}
  <2>1. ASSUME NEW q \in chosen, NameOf[q] = d.name PROVE q = p
    <3>1. PICK j \in DOMAIN out[b] : q = out[b][j].impl
          OBVIOUS
    <3>2. manifest[b][j].name = manifest[b][i].name
          BY <1>3, <2>1, <3>1
    <3>3. j = i
          BY <1>2, <3>2, ManifestFacts DEF IInv
    <3> QED
        BY <3>1, <3>3
  <2> QED
      BY <1>4, <2>1 DEF Candidates
<1> HIDE DEF chosen, d, p
<1>6. VersionClass(VersionOf[p], d) = "in_range"
  <2>1. d.min \in Nat /\ d.max \in Nat
        BY <1>4 DEF Deps
  <2> QED
      BY <1>4, <2>1 DEF VersionClass, InRange
<1>7. OfClass(d, chosen, "in_range") = {p}
      BY <1>5, <1>6 DEF OfClass
<1>8. LinkFailure(d, chosen) = "none" /\ Selected(d, chosen) = {p}
      BY <1>4, <1>5, <1>7 DEF LinkFailure, Selected
<1>9. LinkWarning(d, p) # "pin_mismatch"
      BY <1>4 DEF LinkWarning, Pinned
<1> QED
    BY <1>8, <1>9 DEF chosen, d, p

\* resolver.rs and linker.rs never disagree on what a build resolved.
THEOREM SpecLinkerAgrees == Spec => []LinkerAgrees
BY SpecIInv, LinkerFollows, PTL

-----------------------------------------------------------------------------
(* dao.lock.  A build that saves and has met no other since it began has the *)
(* sibling to itself; while it is known what the file should say, nobody has *)
(* it open.                                                                  *)

\* The two names are apart.
Apart == tmp # Absent => tmp # file

\* A build has something open just while it writes.
Opened == \A b \in Builds : fd[b] # Absent <=> phase[b] = "write"

\* The save that has met no other is the only one, and what it will publish is
\* the lockfile it was given.
LoneSave(b) ==
  /\ Saving(b) /\ \A o \in Builds \ {b} : ~ Saving(o)
  /\ phase[b] = "write" => fd[b] = tmp /\ tmp # Absent /\ data[tmp] = Blank
  /\ phase[b] = "rename" => tmp # Absent /\ data[tmp] = lock[b]

Lone == lone # Absent => lone \in Builds /\ LoneSave(lone)

\* While it is known what the file should say, it says so and stays so.
Settled ==
  due # Absent => /\ Content = due
                  /\ NeverHalfWritten
                  /\ file # Absent => due \in published \cup {Broken}

FileInv == Apart /\ Opened /\ Lone /\ Settled

LEMMA NoSaverAbsent == \A b \in Builds : b # Absent
BY SavedFileAssumption DEF Builds

LEMMA InitFileInv == Init => FileInv
BY DEF Init, FileInit, FileInv, Apart, Opened, Lone, Settled, NeverHalfWritten, Content, Builds

\* The other builds' part in saving is as it was.
Aside(b) ==
  \A o \in Builds \ {b} :
    phase'[o] = phase[o] /\ lock'[o] = lock[o] /\ fd'[o] = fd[o]

\* What is in the file stays there, and nobody opens it.
LEMMA SameFileKeeps ==
  ASSUME Settled, Content' = Content, UNCHANGED <<file, due>>,
         published \subseteq published', NeverHalfWritten => NeverHalfWritten'
  PROVE  Settled'
BY DEF Settled

\* A build that saves is alone, or nobody is.
LEMMA LoneOrNobody ==
  ASSUME FileInv, NEW b \in Builds, Saving(b)
  PROVE  /\ lone = b \/ lone = Absent
         /\ lone = b => \A o \in Builds \ {b} : ~ Saving(o) /\ fd[o] = Absent
BY NoSaverAbsent DEF FileInv, Lone, LoneSave, Opened, Saving

\* A step of a build that touches neither name and is not saving afterwards.
LEMMA LeaveKeeps ==
  ASSUME IInv, FileInv, NEW b \in Builds, Aside(b), ~ Saving(b)', fd'[b] = Absent,
         UNCHANGED <<file, tmp, data, due, published>>,
         EndSave(b) \/ (~ Saving(b) /\ UNCHANGED lone)
  PROVE  FileInv'
<1>1. Apart' /\ Content' = Content
      BY DEF FileInv, Apart, Content
<1>2. Opened'
      BY DEF FileInv, Opened, Aside, Saving
<1>3. NeverHalfWritten => NeverHalfWritten'
  <2> SUFFICES ASSUME NeverHalfWritten, NEW o \in Builds, fd'[o] # Absent
               PROVE  fd'[o] # file
      BY DEF NeverHalfWritten, Builds
  <2>1. o # b /\ fd'[o] = fd[o]
        BY DEF Aside
  <2> QED
      BY <2>1 DEF NeverHalfWritten, Builds
<1>4. Settled'
      BY <1>1, <1>3, SameFileKeeps DEF FileInv
<1>5. Lone'
  <2>1. CASE lone = b \/ lone = Absent
    <3>1. lone' = Absent
          BY <2>1, NoSaverAbsent DEF EndSave, FileInv, Lone, LoneSave
    <3> QED
        BY <3>1 DEF Lone
  <2>2. CASE lone # b /\ lone # Absent
    <3>1. lone \in Builds \ {b} /\ LoneSave(lone) /\ lone' = lone
          BY <2>2 DEF FileInv, Lone, EndSave
    <3>2. /\ phase'[lone] = phase[lone] /\ lock'[lone] = lock[lone] /\ fd'[lone] = fd[lone]
          /\ \A o \in Builds \ {b} : Saving(o)' = Saving(o)
          BY <3>1 DEF Aside, Saving
    <3>3. LoneSave(lone)'
          BY <1>1, <3>1, <3>2 DEF LoneSave, Saving
    <3> QED
        BY <3>1, <3>3 DEF Lone
  <2> QED
      BY <2>1, <2>2
<1> QED
    BY <1>1, <1>2, <1>4, <1>5 DEF FileInv

\* A build that begins, resolves, ends or gives up leaves the file alone.
LEMMA ResolvingKeepsFile ==
  ASSUME IInv, FileInv, NEW b \in Builds,
         \/ \E m \in Manifests : Begin(b, m)
         \/ Kill(b) \/ ResolveLocked(b) \/ LockedMissing(b) \/ Choose(b) \/ NoChoice(b)
         \/ Record(b) \/ RecordFails(b)
         \/ phase[b] \in {"open", "write"} /\ SaveFails(b)
  PROVE  FileInv'
<1>1. /\ \/ fd' = [fd EXCEPT ![b] = Absent] /\ EndSave(b)
         \/ UNCHANGED <<fd, lone>> /\ phase[b] \in {"off", "resolve"}
      /\ UNCHANGED <<file, tmp, data, due, published>>
  <2>1. CASE picked[b] # None
    <3>1. phase[b] = "resolve"
          BY <2>1 DEF IInv, BuildInv, PickedFits
    <3> QED
        BY <3>1 DEF Begin, Kill, ResolveLocked, LockedMissing, Choose, NoChoice, Record,
           RecordFails, SaveFails, Resolved, Pending, Abandon, fileVars, inodeVars
  <2>2. CASE picked[b] = None
        BY <2>2 DEF Begin, Kill, ResolveLocked, LockedMissing, Choose, NoChoice, Record,
           RecordFails, SaveFails, Resolved, Pending, Abandon, fileVars, inodeVars
  <2> QED
      BY <2>1, <2>2
<1>2. fd'[b] = Absent /\ \A o \in Builds \ {b} : fd'[o] = fd[o]
      BY <1>1 DEF IInv, FilesHonest, FileTypes, FileInv, Opened
<1>3. ~ Saving(b)'
  <2>1. \/ UNCHANGED phase /\ phase[b] = "resolve"
        \/ \E p \in {"off", "resolve"} : phase' = [phase EXCEPT ![b] = p]
        BY DEF Begin, Kill, ResolveLocked, LockedMissing, Choose, NoChoice, Record, RecordFails,
           SaveFails, Resolved, Pending, Reset, IInv, BuildInv, PickedFits
  <2> QED
      BY <2>1 DEF IInv, BuildTypes, Saving
<1>4. Aside(b)
  <2>1. \A o \in Builds \ {b} : phase'[o] = phase[o]
        BY DEF Begin, Kill, ResolveLocked, LockedMissing, Choose, NoChoice, Record, RecordFails,
           SaveFails, Resolved, Reset, IInv, BuildTypes
  <2>2. \A o \in Builds \ {b} : lock'[o] = lock[o]
        BY DEF Begin, Kill, ResolveLocked, LockedMissing, Choose, NoChoice, Record, RecordFails,
           SaveFails, Resolved, Reset, IInv, BuildTypes
  <2> QED
      BY <1>2, <2>1, <2>2 DEF Aside
<1>5. EndSave(b) \/ (~ Saving(b) /\ UNCHANGED lone)
      BY <1>1 DEF Saving
<1> QED
    BY <1>1, <1>2, <1>3, <1>4, <1>5, LeaveKeeps

\* A save begins, and if there is another neither is alone.
LEMMA FinishKeepsFile ==
  ASSUME IInv, FileInv, NEW b \in Builds, Finish(b)
  PROVE  FileInv'
<1>1. /\ phase[b] = "resolve" /\ phase' = [phase EXCEPT ![b] = "open"]
      /\ published \subseteq published'
      /\ lone' = IF Underway = {} THEN b ELSE Absent
      /\ UNCHANGED <<file, tmp, data, fd, due, lock>>
      BY DEF Finish, StartSave, inodeVars
<1>2. Apart' /\ Content' = Content
      BY <1>1 DEF FileInv, Apart, Content
<1>3. phase'[b] = "open" /\ \A o \in Builds \ {b} : phase'[o] = phase[o]
      BY <1>1 DEF IInv, BuildTypes
<1>4. Opened'
      BY <1>1, <1>3 DEF FileInv, Opened
<1>5. Settled'
      BY <1>1, <1>2, SameFileKeeps DEF FileInv, NeverHalfWritten
<1>6. Lone'
  <2>1. CASE Underway = {}
    <3>1. Saving(b)' /\ \A o \in Builds \ {b} : ~ Saving(o)'
          BY <2>1, <1>3 DEF Underway, Saving
    <3> QED
        BY <2>1, <3>1, <1>1, <1>3 DEF Lone, LoneSave
  <2>2. CASE Underway # {}
        BY <2>2, <1>1 DEF Lone
  <2> QED
      BY <2>1, <2>2
<1> QED
    BY <1>2, <1>4, <1>5, <1>6 DEF FileInv

LEMMA OpenKeepsFile ==
  ASSUME IInv, FileInv, NEW b \in Builds, OpenLock(b)
  PROVE  FileInv'
<1> DEFINE i == IF tmp = Absent THEN NewInode ELSE tmp
<1>1. Saving(b)
      BY DEF OpenLock, Saving
<1>2. i \in Inodes /\ i # file /\ i # Absent
      BY NewInodeFree, InodesFacts DEF IInv, FilesHonest, FileTypes, FileInv, Apart, Free
<1>3. /\ tmp' = i /\ data' = [data EXCEPT ![i] = Blank] /\ fd' = [fd EXCEPT ![b] = i]
      /\ phase' = [phase EXCEPT ![b] = "write"]
      /\ UNCHANGED <<file, lone, due, lock, published>>
      BY DEF OpenLock, OpenTmp
<1> HIDE DEF i
<1>4. Content' = Content
      BY <1>2, <1>3 DEF IInv, FilesHonest, FileTypes, Content
<1>5. Apart'
      BY <1>2, <1>3 DEF Apart
<1>6. /\ phase'[b] = "write" /\ fd'[b] = i /\ data'[i] = Blank
      /\ \A o \in Builds \ {b} : phase'[o] = phase[o] /\ fd'[o] = fd[o]
      BY <1>2, <1>3 DEF IInv, FilesHonest, FileTypes, BuildTypes
<1>7. Opened'
      BY <1>2, <1>6 DEF FileInv, Opened
<1>8. Settled'
  <2>1. NeverHalfWritten => NeverHalfWritten'
        BY <1>2, <1>3, <1>6 DEF NeverHalfWritten, Builds
  <2> QED
      BY <2>1, <1>3, <1>4, SameFileKeeps DEF FileInv
<1>9. Lone'
  <2>1. CASE lone = b
        BY <2>1, <1>1, <1>2, <1>3, <1>6, NoSaverAbsent DEF FileInv, Lone, LoneSave, Saving
  <2>2. CASE lone = Absent
        BY <2>2, <1>3 DEF Lone
  <2> QED
      BY <2>1, <2>2, <1>1, LoneOrNobody
<1> QED
    BY <1>5, <1>7, <1>8, <1>9 DEF FileInv

LEMMA WriteKeepsFile ==
  ASSUME IInv, FileInv, NEW b \in Builds, WriteLock(b)
  PROVE  FileInv'
<1>1. Saving(b) /\ fd[b] \in Inodes /\ fd[b] # Absent
      BY DEF WriteLock, Saving, FileInv, Opened, IInv, FilesHonest, FileTypes
<1>2. PICK c \in {lock[b], Broken} :
        /\ data' = [data EXCEPT ![fd[b]] = c]
        /\ data[fd[b]] = Blank => c = lock[b]
      BY DEF WriteLock, WriteTmp
<1>3. /\ fd' = [fd EXCEPT ![b] = Absent]
      /\ phase' = [phase EXCEPT ![b] = "rename"]
      /\ UNCHANGED <<file, tmp, lone, due, lock, published>>
      BY DEF WriteLock, WriteTmp
<1>4. Apart'
      BY <1>3 DEF FileInv, Apart
<1>5. /\ phase'[b] = "rename" /\ fd'[b] = Absent /\ data'[fd[b]] = c
      /\ \A o \in Builds \ {b} : phase'[o] = phase[o] /\ fd'[o] = fd[o]
      BY <1>1, <1>2, <1>3 DEF IInv, FilesHonest, FileTypes, BuildTypes
<1>6. Opened'
      BY <1>5 DEF FileInv, Opened
<1>7. fd[b] # file => Content' = Content
      BY <1>1, <1>2, <1>3 DEF IInv, FilesHonest, FileTypes, Content
<1>8. NeverHalfWritten => fd[b] # file /\ NeverHalfWritten'
      BY <1>1, <1>3, <1>5 DEF NeverHalfWritten, Builds
<1>9. Settled'
      BY <1>3, <1>7, <1>8 DEF FileInv, Settled
<1>10. Lone'
  <2>1. CASE lone = b
    <3>1. LoneSave(b) /\ fd[b] = tmp /\ tmp # Absent /\ data[tmp] = Blank
          BY <2>1, NoSaverAbsent DEF FileInv, Lone, LoneSave, WriteLock
    <3>2. data'[tmp] = lock[b]
          BY <3>1, <1>2, <1>5
    <3> QED
        BY <2>1, <3>1, <3>2, <1>3, <1>5 DEF Lone, LoneSave, Saving
  <2>2. CASE lone = Absent
        BY <2>2, <1>3 DEF Lone
  <2> QED
      BY <2>1, <2>2, <1>1, LoneOrNobody
<1> QED
    BY <1>4, <1>6, <1>9, <1>10 DEF FileInv

\* A save that comes to its rename leaves nobody alone.
LEMMA EndOfSave ==
  ASSUME IInv, FileInv, NEW b \in Builds, phase[b] = "rename", EndSave(b), Reset(b),
         UNCHANGED fd
  PROVE  lone' = Absent /\ Lone' /\ Opened'
<1>1. lone' = Absent
      BY LoneOrNobody DEF Saving, EndSave
<1>2. Opened'
      BY DEF FileInv, Opened, IInv, BuildTypes, Reset
<1> QED
    BY <1>1, <1>2 DEF Lone

\* What no name and no open file refers to is gone; the rest is as it was.
LEMMA KeptFacts ==
  ASSUME NEW refs
  PROVE  \A i \in Inodes \cap refs : Kept(data, refs)[i] = data[i]
BY DEF Kept

\* A save that was alone publishes its lockfile.
LEMMA RenameKeepsFile ==
  ASSUME IInv, FileInv, NEW b \in Builds, RenameLock(b)
  PROVE  FileInv'
<1>1. phase[b] = "rename" /\ Saving(b) /\ tmp \in Inodes /\ tmp # Absent
      BY DEF RenameLock, RenameTmp, Saving, IInv, FilesHonest, FileTypes
<1>2. /\ file' = tmp /\ tmp' = Absent
      /\ data' = Kept(data, {tmp} \cup {fd[o] : o \in Savers})
      /\ due' = IF lone = b THEN lock[b] ELSE Absent
      /\ EndSave(b) /\ Reset(b)
      /\ UNCHANGED <<fd, published>>
      BY DEF RenameLock, RenameTmp
<1>3. Apart'
      BY <1>2 DEF Apart
<1>4. Lone' /\ Opened'
      BY <1>1, <1>2, EndOfSave
<1>5. Content' = data[tmp]
      BY <1>1, <1>2, KeptFacts DEF Content
<1>6. Settled'
  <2>1. CASE lone = b
    <3>1. data[tmp] = lock[b] /\ lock[b] \in published
          BY <2>1, <1>1, NoSaverAbsent DEF FileInv, Lone, LoneSave, IInv, BuildInv
    <3>2. \A o \in Builds : fd[o] = Absent
          BY <2>1, <1>1, LoneOrNobody DEF FileInv, Opened
    <3> QED
        BY <2>1, <3>1, <3>2, <1>2, <1>5 DEF Settled, NeverHalfWritten, Builds
  <2>2. CASE lone # b
        BY <2>2, <1>2 DEF Settled
  <2> QED
      BY <2>1, <2>2
<1> QED
    BY <1>3, <1>4, <1>6 DEF FileInv

LEMMA RenameFailsKeepsFile ==
  ASSUME IInv, FileInv, NEW b \in Builds, phase[b] = "rename", SaveFails(b)
  PROVE  FileInv'
<1>1. /\ tmp' = Absent /\ data' = Kept(data, {file} \cup {fd[o] : o \in Savers})
      /\ EndSave(b) /\ Reset(b)
      /\ UNCHANGED <<file, fd, due, published>>
      BY DEF SaveFails, RenameFails
<1>2. Apart'
      BY <1>1 DEF Apart
<1>3. Content' = Content
      BY <1>1, KeptFacts DEF IInv, FilesHonest, FileTypes, Content
<1>4. Settled'
      BY <1>1, <1>3, SameFileKeeps DEF FileInv, NeverHalfWritten
<1>5. Lone' /\ Opened'
      BY <1>1, EndOfSave
<1> QED
    BY <1>2, <1>4, <1>5 DEF FileInv

\* The user deletes the file or leaves it broken; a save under way goes on.
LEMMA UserKeepsFile ==
  ASSUME IInv, FileInv, DeleteLock \/ BreakLock
  PROVE  FileInv'
<1>1. /\ lone' = Absent
      /\ UNCHANGED <<tmp, fd, phase, published>>
      BY DEF DeleteLock, BreakLock, Delete, Replace, buildVars
<1>2. Opened' /\ Lone'
      BY <1>1 DEF FileInv, Opened, Lone
<1>3. CASE DeleteLock
  <2>1. file' = Absent /\ due' = Blank
        BY <1>3 DEF DeleteLock, Delete
  <2> QED
      BY <1>1, <1>2, <2>1 DEF FileInv, Apart, Settled, Content, NeverHalfWritten
<1>4. CASE BreakLock
  <2>1. /\ file' = NewInode /\ due' = Broken
        /\ data' = [Kept(data, {tmp} \cup {fd[b] : b \in Savers}) EXCEPT ![NewInode] = Broken]
        BY <1>4 DEF BreakLock, Replace
  <2>2. NewInode \in Inodes /\ NewInode # tmp /\ \A b \in Builds : fd[b] # NewInode
        BY NewInodeFree DEF Free, Builds
  <2>3. Content' = Broken
        BY <2>1, <2>2, InodesFacts DEF Content, Kept
  <2> QED
      BY <1>1, <1>2, <2>1, <2>2, <2>3 DEF FileInv, Apart, Settled, NeverHalfWritten, Builds
<1> QED
    BY <1>3, <1>4

LEMMA NextFileInv == IInv /\ FileInv /\ [Next]_vars => FileInv'
<1> SUFFICES ASSUME IInv, FileInv, [Next]_vars PROVE FileInv'
    OBVIOUS
<1>1. CASE UNCHANGED vars \/ \E p \in Packs : Install(p) \/ Collect(p) \/ Damage(p)
  <2>1. UNCHANGED <<file, tmp, data, fd, lone, due, phase, lock, published>>
        BY <1>1 DEF vars, Install, Collect, Damage, fileVars, inodeVars, buildVars
  <2> QED
      BY <2>1 DEF FileInv, Apart, Opened, Lone, LoneSave, Settled, NeverHalfWritten, Saving, Content
<1>2. CASE DeleteLock \/ BreakLock
      BY <1>2, UserKeepsFile
<1>3. ASSUME NEW b \in Builds,
             \/ \E m \in Manifests : Begin(b, m)
             \/ Kill(b) \/ ResolveLocked(b) \/ LockedMissing(b) \/ Choose(b) \/ NoChoice(b)
             \/ Record(b) \/ RecordFails(b)
      PROVE  FileInv'
      BY <1>3, ResolvingKeepsFile
<1>4. ASSUME NEW b \in Builds, Finish(b) \/ OpenLock(b) \/ WriteLock(b) \/ RenameLock(b)
      PROVE  FileInv'
      BY <1>4, FinishKeepsFile, OpenKeepsFile, WriteKeepsFile, RenameKeepsFile
<1>5. ASSUME NEW b \in Builds, SaveFails(b) PROVE FileInv'
  <2>1. phase[b] \in {"open", "write"} \/ phase[b] = "rename"
        BY <1>5 DEF SaveFails
  <2> QED
      BY <1>5, <2>1, ResolvingKeepsFile, RenameFailsKeepsFile
<1> QED
    BY <1>1, <1>2, <1>3, <1>4, <1>5 DEF Next

LEMMA SpecFileInv == Spec => []FileInv
<1>1. Init => IInv /\ FileInv
      BY InitIInv, InitFileInv
<1>2. IInv /\ FileInv /\ [Next]_vars => IInv' /\ FileInv'
      BY NextIInv, NextFileInv
<1> QED
    BY <1>1, <1>2, PTL DEF Spec

\* Unless the last save met another, dao.lock holds the whole of what one build
\* resolved in full, whatever failed, killed or meeting saves left behind.
THEOREM SpecWholeLocks == Spec => []WholeLocks
<1>1. FileInv => WholeLocks
      BY DEF FileInv, Settled, WholeLocks, Whole
<1> QED
    BY <1>1, SpecFileInv, PTL

-----------------------------------------------------------------------------
(* The store *)

\* What others do to the store and how often, which IInv says nothing of.
StoreTypes ==
  /\ installed \subseteq Packs /\ unreadable \subseteq installed
  /\ changes \in 0..MaxChanges /\ begun \in 0..MaxBuilds

\* What a step does to the packs that are installed.
StoreStep ==
  \/ UNCHANGED <<installed, unreadable>>
  \/ \E p \in Packs :
       \/ installed' = installed \cup {p} /\ unreadable' = unreadable \ {p}
       \/ installed' = installed \ {p} /\ unreadable' = unreadable \ {p}
       \/ p \in installed /\ UNCHANGED installed /\ unreadable' = unreadable \cup {p}

LEMMA NextStoreTypes == StoreTypes /\ [Next]_vars => StoreTypes'
<1> SUFFICES ASSUME StoreTypes, [Next]_vars PROVE StoreTypes'
    OBVIOUS
<1>0. begun' \in 0..MaxBuilds
  <2>1. UNCHANGED begun \/ (begun < MaxBuilds /\ begun' = begun + 1)
        BY DEF Next, vars, Install, Collect, Damage, DeleteLock, BreakLock, Change, Begin, Kill,
           ResolveLocked, LockedMissing, Choose, NoChoice, Record, RecordFails, Finish, OpenLock,
           WriteLock, RenameLock, SaveFails, Resolved
  <2> QED
      BY <2>1, ResolverAssumption DEF StoreTypes
<1>1. CASE UNCHANGED <<installed, unreadable, changes>>
      BY <1>1, <1>0 DEF StoreTypes
<1>2. CASE Change
  <2>1. changes' \in 0..MaxChanges
        BY <1>2, ResolverAssumption DEF StoreTypes, Change
  <2>2. StoreStep
    <3>1. ASSUME NEW p \in Packs, Install(p) \/ Collect(p) \/ Damage(p) PROVE StoreStep
          BY <3>1 DEF Install, Collect, Damage, StoreStep
    <3>2. CASE DeleteLock \/ BreakLock
          BY <3>2 DEF DeleteLock, BreakLock, storeVars, StoreStep
    <3>3. CASE UNCHANGED vars
          BY <3>3 DEF vars, storeVars, StoreStep
    <3>4. ASSUME NEW b \in Builds,
                 \/ \E m \in Manifests : Begin(b, m)
                 \/ Kill(b) \/ ResolveLocked(b) \/ LockedMissing(b) \/ Choose(b)
                 \/ NoChoice(b) \/ Record(b) \/ RecordFails(b) \/ Finish(b)
                 \/ OpenLock(b) \/ WriteLock(b) \/ RenameLock(b) \/ SaveFails(b)
          PROVE  StoreStep
          BY <3>4 DEF Begin, Kill, ResolveLocked, LockedMissing, Choose, NoChoice, Record,
             RecordFails, Finish, OpenLock, WriteLock, RenameLock, SaveFails, Resolved, storeVars,
             StoreStep
    <3> QED
        BY <3>1, <3>2, <3>3, <3>4 DEF Next
  <2> QED
      BY <2>1, <2>2, <1>0 DEF StoreTypes, StoreStep
<1>3. CASE ~Change /\ ~UNCHANGED <<installed, unreadable, changes>>
  <2>1. ASSUME NEW p \in Packs PROVE ~(Install(p) \/ Collect(p) \/ Damage(p))
        BY <1>3 DEF Install, Collect, Damage
  <2>2. ~ (DeleteLock \/ BreakLock)
        BY <1>3 DEF DeleteLock, BreakLock
  <2>3. ~UNCHANGED vars
        BY <1>3 DEF vars, storeVars
  <2>4. ASSUME NEW b \in Builds,
               \/ \E m \in Manifests : Begin(b, m)
               \/ Kill(b) \/ ResolveLocked(b) \/ LockedMissing(b) \/ Choose(b)
               \/ NoChoice(b) \/ Record(b) \/ RecordFails(b) \/ Finish(b)
               \/ OpenLock(b) \/ WriteLock(b) \/ RenameLock(b) \/ SaveFails(b)
        PROVE  FALSE
        BY <1>3, <2>4 DEF Begin, Kill, ResolveLocked, LockedMissing, Choose, NoChoice, Record,
           RecordFails, Finish, OpenLock, WriteLock, RenameLock, SaveFails, Resolved, storeVars
  <2> QED
      BY <2>1, <2>2, <2>3, <2>4 DEF Next
<1> QED
    BY <1>1, <1>2, <1>3

\* The variables of the builds, the store and the lockfile keep their types.
THEOREM SpecTypeOK == Spec => []TypeOK
<1>1. Init => StoreTypes
      BY ResolverAssumption DEF Init, StoreTypes
<1>2. Spec => []StoreTypes
      BY <1>1, NextStoreTypes, PTL DEF Spec
<1>3. IInv /\ FileInv => /\ lone \in Builds \cup {Absent}
                         /\ due \in Locks \cup {Broken, Absent}
  <2> SUFFICES ASSUME IInv, FileInv, due # Absent PROVE due \in Locks \cup {Broken}
      BY DEF FileInv, Lone
  <2>1. due = Content
        BY DEF FileInv, Settled
  <2> QED
      BY <2>1, NoLockFacts DEF IInv, FilesHonest, FileTypes, Content
<1>4. IInv /\ FileInv /\ StoreTypes => TypeOK
      BY <1>3 DEF IInv, FilesHonest, FileTypes, LinksHonest, BuildTypes, StoreTypes, TypeOK
<1> QED
    BY <1>2, <1>4, SpecIInv, SpecFileInv, PTL
=============================================================================
