--------------------------- MODULE PackStoreProofs ---------------------------
(***************************************************************************)
(* Theorems about PackStore, for every set of packs, however they share    *)
(* modules and terms, any number of installers and projects and any bound  *)
(* on the kills: the types are right and a collection takes nothing from a *)
(* project; and as long as the collector is not killed within a            *)
(* remove_dir_all, no directory is ever seen in part, an install that      *)
(* returns has put the whole pack in place, names lead to whole packs, and *)
(* a collection leaves nothing behind.                                     *)
(***************************************************************************)
EXTENDS PackStore, SequenceTheorems, TLAPS

FileNames == {"pack", "manifest", "index", "iface"}

-----------------------------------------------------------------------------
(* What the operators return *)

\* A pack's targets are its own directory, then the parts of its manifest.
LEMMA TargetsOf ==
  ASSUME NEW p \in Packs
  PROVE  /\ Targets(p) \in Seq(Dirs)
         /\ Targets(p)[1] = p
         /\ \A k \in DOMAIN Targets(p) : k # 1 => Targets(p)[k] \in Mods \cup Terms
         /\ DOMAIN Targets(p) = 1 .. Len(Targets(p))
<1>1. Parts[p] \in Seq(Mods \cup Terms) /\ <<p>> \in Seq(Dirs) /\ Parts[p] \in Seq(Dirs)
  BY StoreAssumption DEF Dirs
<1>2. /\ <<p>> \o Parts[p] \in Seq(Dirs)
      /\ Len(<<p>> \o Parts[p]) = 1 + Len(Parts[p])
      /\ \A k \in 1 .. 1 + Len(Parts[p]) :
           (<<p>> \o Parts[p])[k] = IF k <= 1 THEN <<p>>[k] ELSE Parts[p][k - 1]
  BY <1>1, ConcatProperties
<1>3. \A k \in 2 .. 1 + Len(Parts[p]) : Parts[p][k - 1] \in Mods \cup Terms
  BY <1>1
<1> QED
  BY <1>1, <1>2, <1>3 DEF Targets

\* A file list is not empty, names known files only, and lists each once.
LEMMA FilesOf ==
  ASSUME NEW d
  PROVE  /\ FileList(d) \in Seq(FileNames)
         /\ DOMAIN FileList(d) = 1 .. Len(FileList(d))
         /\ Len(FileList(d)) \in {1, 2}
         /\ Files(d) \in SUBSET FileNames
         /\ Files(d) # {}
<1>1. CASE d \in Packs
  BY <1>1 DEF FileList, Files, FileNames
<1>2. CASE d \notin Packs /\ d \in Mods
  BY <1>2 DEF FileList, Files, FileNames
<1>3. CASE d \notin Packs /\ d \notin Mods
  BY <1>3 DEF FileList, Files, FileNames
<1> QED
  BY <1>1, <1>2, <1>3

\* The parts of a rooted pack are modules and terms; rooted packs are packs.
LEMMA MarksAreTyped ==
  ASSUME TypeOK
  PROVE  /\ Rooted \subseteq Packs
         /\ UNION {DirsOf(p) \ {p} : p \in {q \in Rooted : HasManifest(q) /\ q \notin damaged}}
              \subseteq Mods \cup Terms
<1>1. Rooted \subseteq Packs
  BY DEF TypeOK, Rooted
<1>2. \A p \in Packs : DirsOf(p) \ {p} \subseteq Mods \cup Terms
  BY TargetsOf DEF DirsOf
<1> QED
  BY <1>1, <1>2

-----------------------------------------------------------------------------
(* Types *)

\* Every step of an installer keeps the types.
LEMMA TypeInstall ==
  ASSUME TypeOK, Install
  PROVE  TypeOK'
<1> USE DEF disk, installing, collecting, history
<1>1. PICK i \in Installers : \/ \E p \in Packs : Start(i, p)
                              \/ Skip(i) \/ Stage(i) \/ Write(i) \/ Rename(i)
                              \/ LinkName(i) \/ InstallFails(i) \/ Kill(i)
  BY DEF Install
<1>2. CASE \E p \in Packs : Start(i, p)
  BY <1>1, <1>2 DEF Start, TypeOK
<1>3. CASE Skip(i)
  BY <1>1, <1>3 DEF Skip, Advance, TypeOK
<1>4. CASE Stage(i)
  BY <1>1, <1>4 DEF Stage, TypeOK
<1>5. CASE Write(i)
  <2>1. PICK k \in DOMAIN FileList(Target(i)) :
          /\ staged[i] = {FileList(Target(i))[n] : n \in 1 .. (k - 1)}
          /\ staged' = [staged EXCEPT ![i] = @ \cup {FileList(Target(i))[k]}]
          /\ pc' = [pc EXCEPT ![i] = IF k = Len(FileList(Target(i))) THEN "rename" ELSE "write"]
    BY <1>5 DEF Write
  <2>2. {FileList(Target(i))[n] : n \in 1 .. (k - 1)} \cup {FileList(Target(i))[k]} \subseteq FileNames
    <3>1. DOMAIN FileList(Target(i)) = 1 .. Len(FileList(Target(i)))
      BY FilesOf
    <3>2. Len(FileList(Target(i))) \in Nat
      BY FilesOf
    <3>3. \A n \in 1 .. Len(FileList(Target(i))) : FileList(Target(i))[n] \in FileNames
      BY FilesOf, <3>1
    <3> QED
      BY <3>1, <3>2, <3>3
  <2>3. staged' \in [Installers -> {Absent} \cup SUBSET FileNames]
    BY <2>1, <2>2, <1>1 DEF TypeOK, FileNames
  <2> QED
    BY <1>1, <1>5, <2>1, <2>3 DEF Write, TypeOK, FileNames
<1>6. CASE Rename(i)
  <2>1. store' \in [Dirs -> {Absent} \cup SUBSET FileNames]
    BY <1>1, <1>6 DEF Rename, TypeOK, FileNames
  <2> QED
    BY <1>1, <1>6, <2>1 DEF Rename, Advance, TypeOK, FileNames
<1>7. CASE LinkName(i)
  <2>1. links' \in [Names -> Packs \cup {Absent}]
    BY <1>1, <1>7 DEF LinkName, TypeOK
  <2> QED
    BY <1>1, <1>7, <2>1 DEF LinkName, Forget, TypeOK
<1>8. CASE Kill(i)
  BY <1>1, <1>8, StoreAssumption DEF Kill, Forget, TypeOK
<1>9. CASE InstallFails(i)
  BY <1>1, <1>9, StoreAssumption DEF InstallFails, Forget, TypeOK
<1> QED
  BY <1>1, <1>2, <1>3, <1>4, <1>5, <1>6, <1>7, <1>8, <1>9

\* Every step of a project, of the compiler or of a disk fault does.
LEMMA TypeEnvironment ==
  ASSUME TypeOK, Environment
  PROVE  TypeOK'
<1> USE DEF disk, installing, collecting, history
<1>1. CASE \E j \in Projects : RemoveRoot(j)
  BY <1>1 DEF RemoveRoot, TypeOK
<1>2. CASE \E j \in Projects : DamageRoot(j)
  BY <1>2, StoreAssumption DEF DamageRoot, TypeOK
<1>3. CASE \E j \in Projects : \E s \in SUBSET Packs : AddRoot(j, s)
  BY <1>3 DEF AddRoot, TypeOK
<1>4. CASE \E m \in Compiled : CacheModule(m)
  BY <1>4, StoreAssumption DEF CacheModule, TypeOK
<1>5. CASE \E p \in Packs : DamageManifest(p)
  BY <1>5, StoreAssumption DEF DamageManifest, TypeOK
<1> QED
  BY <1>1, <1>2, <1>3, <1>4, <1>5 DEF Environment

\* Every step of the collector does.
LEMMA TypeCollect ==
  ASSUME TypeOK, Collect
  PROVE  TypeOK'
<1> USE DEF disk, installing, collecting, history
<1>1. CASE MarkFails
  BY <1>1 DEF MarkFails, TypeOK
<1>2. CASE Mark
  BY <1>2, MarksAreTyped DEF Mark, TypeOK, Sweeping
<1>3. CASE WipeTmp
  BY <1>3 DEF WipeTmp, TypeOK
<1>4. CASE PhaseDone
  <2>1. gc' \in Sweeping \cup {"idle"}
    BY <1>4 DEF PhaseDone, Sweeping
  <2>2. live' \subseteq Packs /\ kept' \subseteq Mods \cup Terms /\ careful' \in BOOLEAN
    BY <1>4 DEF PhaseDone, ForgetMarks, TypeOK
  <2> QED
    BY <1>4, <2>1, <2>2 DEF PhaseDone, TypeOK
<1>5. CASE KillCollector
  <2>1. crashes' \in 0 .. MaxCrashes
    BY <1>5, StoreAssumption DEF KillCollector, TypeOK
  <2>2. live' \subseteq Packs /\ kept' \subseteq Mods \cup Terms /\ careful' \in BOOLEAN
    BY <1>5 DEF KillCollector, ForgetMarks, TypeOK
  <2> QED
    BY <1>5, <2>1, <2>2 DEF KillCollector, TypeOK
<1>6. CASE \E d \in Dirs : Unlink(d)
  <2>1. PICK d \in Dirs : Unlink(d)
    BY <1>6
  <2>2. store[d] # Absent
    BY <2>1 DEF Unlink, Doomed
  <2>3. store' \in [Dirs -> {Absent} \cup SUBSET FileNames]
    BY <2>1, <2>2 DEF Unlink, TypeOK, FileNames
  <2> QED
    BY <2>1, <2>3 DEF Unlink, TypeOK, FileNames
<1>7. CASE \E d \in Dirs : RmDir(d)
  BY <1>7 DEF RmDir, TypeOK
<1>8. CASE \E m \in Mods : SweepJit(m)
  BY <1>8 DEF SweepJit, TypeOK
<1>9. CASE \E n \in Names : SweepLink(n)
  BY <1>9 DEF SweepLink, TypeOK
<1> QED
  BY <1>1, <1>2, <1>3, <1>4, <1>5, <1>6, <1>7, <1>8, <1>9 DEF Collect

\* An empty store has the types.
LEMMA TypeCorrectAtFirst == Init => TypeOK
<1> SUFFICES ASSUME Init PROVE TypeOK
  OBVIOUS
<1>1. /\ store \in [Dirs -> {Absent} \cup SUBSET FileNames]
      /\ staged \in [Installers -> {Absent} \cup SUBSET FileNames]
  BY DEF Init
<1>2. /\ links \in [Names -> Packs \cup {Absent}]
      /\ roots \in [Projects -> {Absent, Malformed} \cup SUBSET Packs]
  BY DEF Init
<1>3. /\ pc \in [Installers -> {"idle", "check", "write", "rename"}]
      /\ job \in [Installers -> Packs \cup {Absent}]
      /\ at \in [Installers -> Nat \ {0}]
  BY DEF Init
<1>4. crashes \in 0 .. MaxCrashes /\ damages \in 0 .. MaxDamage
  BY StoreAssumption DEF Init
<1> QED
  BY <1>1, <1>2, <1>3, <1>4 DEF Init, TypeOK, FileNames

\* Every step keeps the types.
LEMMA TypeKept ==
  ASSUME TypeOK, [Next]_vars
  PROVE  TypeOK'
<1>1. CASE UNCHANGED vars
  BY <1>1 DEF vars, disk, installing, collecting, history, TypeOK
<1> QED
  BY <1>1, TypeInstall, TypeEnvironment, TypeCollect DEF Next

\* The variables keep their types, whatever dies or is damaged when.
THEOREM TypeCorrect == Spec => []TypeOK
<1>1. TypeOK /\ [Next]_vars => TypeOK'
  BY TypeKept
<1> QED
  BY <1>1, TypeCorrectAtFirst, PTL DEF Spec

-----------------------------------------------------------------------------
(***************************************************************************)
(* The inductive invariant.  WholeOrAbsent lets an installer take what is  *)
(* there for installed, but it is kept only because installs and the       *)
(* collector exclude each other and because the collector always finishes  *)
(* the directory it has begun to remove; ReturnsComplete needs in addition *)
(* that everything an install has already passed is still there.           *)
(***************************************************************************)
Exclusive == gc # "idle" => Quiet

RemovingDoomed == removing # Absent => removing \in Doomed

InProgress(i) ==
  /\ pc[i] = "idle" => at[i] = 1
  /\ pc[i] # "idle" =>
       /\ job[i] \in Packs
       /\ at[i] \in 1 .. Len(Targets(job[i])) + 1
       /\ \A k \in 1 .. (at[i] - 1) : Whole(Targets(job[i])[k])
  /\ pc[i] \in {"write", "rename"} => at[i] \in DOMAIN Targets(job[i])
  /\ pc[i] = "rename" => staged[i] = Files(Target(i))

Inductive ==
  /\ TypeOK
  /\ Exclusive
  /\ RemovingDoomed
  /\ WholeOrAbsent
  /\ \A i \in Installers : InProgress(i)

\* While an install is under way nothing is being swept, so that every
\* directory is there in full or not there.
LEMMA InstallSeesWhole ==
  ASSUME Inductive, NEW i \in Installers, pc[i] # "idle"
  PROVE  /\ gc = "idle" /\ removing = Absent /\ Doomed = {}
         /\ \A d \in Dirs : store[d] = Absent \/ Whole(d)
<1>1. gc = "idle"
  BY DEF Inductive, Exclusive, Quiet
<1>2. Doomed = {}
  BY <1>1 DEF Doomed
<1>3. removing = Absent
  BY <1>2 DEF Inductive, RemovingDoomed
<1> QED
  BY <1>1, <1>2, <1>3, StoreAssumption DEF Inductive, WholeOrAbsent

\* A step that lets an installer alone and takes no whole directory apart
\* keeps its progress.
LEMMA ProgressKept ==
  ASSUME TypeOK, NEW j \in Installers, InProgress(j),
         pc'[j] = pc[j], job'[j] = job[j], at'[j] = at[j], staged'[j] = staged[j],
         \A d \in Dirs : Whole(d) => Whole(d)'
  PROVE  InProgress(j)'
<1>1. Target(j)' = Target(j)
  BY DEF Target
<1>2. ASSUME pc[j] # "idle", NEW k \in 1 .. (at[j] - 1) PROVE Whole(Targets(job[j])[k])'
  <2>1. job[j] \in Packs /\ k \in DOMAIN Targets(job[j])
    BY <1>2, TargetsOf DEF InProgress, TypeOK
  <2>2. Targets(job[j])[k] \in Dirs
    BY <2>1, TargetsOf
  <2> QED
    BY <1>2, <2>2 DEF InProgress
<1> QED
  BY <1>1, <1>2 DEF InProgress, Whole

\* What the invariant speaks of apart from the types.
Watched == <<store, pc, job, at, staged, gc, live, kept, removing>>

\* A step that touches nothing the invariant speaks of keeps it.
LEMMA Unwatched ==
  ASSUME Inductive, TypeOK', UNCHANGED Watched
  PROVE  Inductive'
<1>1. \A j \in Installers : InProgress(j)'
  BY ProgressKept DEF Inductive, Watched, Whole
<1>2. Doomed' = Doomed
  BY DEF Watched, Doomed
<1> QED
  BY <1>1, <1>2
  DEF Inductive, Watched, Exclusive, Quiet, RemovingDoomed, WholeOrAbsent, Whole

-----------------------------------------------------------------------------
(* Every step keeps the invariant *)

\* One installer moves while the collector is idle: it is enough that whole
\* directories stay whole, that none is left in part, and that the one that
\* moved is where its own progress says.
LEMMA InstallerMoves ==
  ASSUME Inductive, TypeOK', NEW i \in Installers,
         gc = "idle", removing = Absent, UNCHANGED <<gc, removing>>,
         \A d \in Dirs : Whole(d) => Whole(d)',
         \A d \in Dirs : (store[d] = Absent \/ Whole(d))',
         \A j \in Installers \ {i} : /\ pc'[j] = pc[j] /\ job'[j] = job[j]
                                     /\ at'[j] = at[j] /\ staged'[j] = staged[j],
         InProgress(i)'
  PROVE  Inductive'
<1>1. \A j \in Installers : InProgress(j)'
  BY ProgressKept DEF Inductive
<1> QED
  BY <1>1 DEF Inductive, Exclusive, RemovingDoomed, WholeOrAbsent

\* The steps of an installer keep directories whole or absent.
LEMMA InductiveInstall ==
  ASSUME Inductive, TypeOK', Install
  PROVE  Inductive'
<1> USE DEF disk, installing, collecting, history
<1>1. PICK i \in Installers : \/ \E p \in Packs : Start(i, p)
                              \/ Skip(i) \/ Stage(i) \/ Write(i) \/ Rename(i)
                              \/ LinkName(i) \/ InstallFails(i) \/ Kill(i)
  BY DEF Install
<1>2. TypeOK /\ InProgress(i)
  BY DEF Inductive
<1>3. CASE \E p \in Packs : Start(i, p)
  <2>1. PICK p \in Packs : Start(i, p)
    BY <1>3
  <2>2. gc = "idle" /\ removing = Absent
    BY <2>1 DEF Start, Inductive, RemovingDoomed, Doomed
  <2>3. \A d \in Dirs : store[d] = Absent \/ Whole(d)
    BY <2>2, StoreAssumption DEF Inductive, WholeOrAbsent
  <2>4. pc'[i] = "check" /\ job'[i] = p /\ at'[i] = 1
    BY <1>2, <2>1 DEF Start, InProgress, TypeOK
  <2>5. Len(Targets(p)) \in Nat
    BY TargetsOf
  <2>6. InProgress(i)'
    BY <2>4, <2>5 DEF InProgress
  <2> QED
    BY <2>1, <2>2, <2>3, <2>6, <1>2, InstallerMoves DEF Start, Whole, TypeOK
<1>4. CASE pc[i] # "idle" /\ Skip(i)
  <2>1. job[i] \in Packs /\ at[i] \in 1 .. Len(Targets(job[i])) /\ Target(i) \in Dirs
    BY <1>2, <1>4, TargetsOf DEF Skip, InProgress, TypeOK, Target
  <2>2. Whole(Target(i))
    BY <1>4, <2>1, InstallSeesWhole DEF Skip
  <2>3. at'[i] = at[i] + 1 /\ pc'[i] = "check" /\ job'[i] = job[i]
    BY <1>2, <1>4 DEF Skip, Advance, TypeOK
  <2>4. \A k \in 1 .. at[i] : Whole(Targets(job[i])[k])
    BY <1>2, <1>4, <2>1, <2>2 DEF InProgress, Target
  <2>5. at'[i] \in 1 .. Len(Targets(job[i])) + 1 /\ 1 .. (at'[i] - 1) = 1 .. at[i]
    BY <2>1, <2>3, TargetsOf
  <2>6. InProgress(i)'
    BY <1>4, <2>1, <2>3, <2>4, <2>5 DEF InProgress, Whole, Skip
  <2> QED
    BY <1>2, <1>4, <2>6, InstallerMoves, InstallSeesWhole DEF Skip, Advance, Whole, TypeOK
<1>5. CASE pc[i] # "idle" /\ Stage(i)
  <2>1. InProgress(i)'
    BY <1>2, <1>5 DEF Stage, InProgress, Whole, TypeOK
  <2> QED
    BY <1>2, <1>5, <2>1, InstallerMoves, InstallSeesWhole DEF Stage, Whole, TypeOK
<1>6. CASE pc[i] # "idle" /\ Write(i)
  <2>1. PICK k \in DOMAIN FileList(Target(i)) :
          /\ staged[i] = {FileList(Target(i))[n] : n \in 1 .. (k - 1)}
          /\ staged' = [staged EXCEPT ![i] = @ \cup {FileList(Target(i))[k]}]
          /\ pc' = [pc EXCEPT ![i] = IF k = Len(FileList(Target(i))) THEN "rename" ELSE "write"]
    BY <1>6 DEF Write
  <2>2. pc'[i] \in {"write", "rename"} /\ (pc'[i] = "rename" => k = Len(FileList(Target(i))))
    BY <1>2, <2>1 DEF TypeOK
  <2>3. pc'[i] = "rename" => staged'[i] = Files(Target(i))
    <3>1. DOMAIN FileList(Target(i)) = 1 .. Len(FileList(Target(i)))
      BY FilesOf
    <3>2. Len(FileList(Target(i))) \in {1, 2}
      BY FilesOf
    <3>3. staged'[i] = {FileList(Target(i))[n] : n \in 1 .. (k - 1)} \cup {FileList(Target(i))[k]}
      BY <1>2, <2>1 DEF TypeOK
    <3> QED
      BY <2>2, <3>1, <3>2, <3>3 DEF Files
  <2>4. job' = job /\ at' = at /\ store' = store /\ Target(i)' = Target(i)
    BY <1>6 DEF Write, Target
  <2>5. InProgress(i)'
    BY <1>2, <1>6, <2>2, <2>3, <2>4 DEF Write, InProgress, Whole
  <2> QED
    BY <1>2, <1>6, <2>1, <2>5, InstallerMoves, InstallSeesWhole DEF Write, Whole, TypeOK
<1>7. CASE pc[i] # "idle" /\ Rename(i)
  <2>1. job[i] \in Packs /\ at[i] \in 1 .. Len(Targets(job[i])) /\ Target(i) \in Dirs
        /\ staged[i] = Files(Target(i))
    BY <1>2, <1>7, TargetsOf DEF Rename, InProgress, TypeOK, Target
  <2>2. \A d \in Dirs : store[d] = Absent \/ Whole(d)
    BY <1>7, InstallSeesWhole
  <2>3. /\ store'[Target(i)] = Files(Target(i))
        /\ \A d \in Dirs \ {Target(i)} : store'[d] = store[d]
    <3>1. CASE store[Target(i)] = Absent
      BY <1>2, <1>7, <2>1, <3>1 DEF Rename, TypeOK
    <3>2. CASE store[Target(i)] # Absent
      <4>1. store[Target(i)] = Files(Target(i)) /\ store[Target(i)] # {}
        BY <2>1, <2>2, <3>2, FilesOf DEF Whole
      <4> QED
        BY <1>7, <4>1, <3>2 DEF Rename
    <3> QED
      BY <3>1, <3>2
  <2>4. \A d \in Dirs : Whole(d) => Whole(d)'
    BY <2>3 DEF Whole
  <2>5. \A d \in Dirs : (store[d] = Absent \/ Whole(d))'
    BY <2>2, <2>3 DEF Whole
  <2>6. at'[i] = at[i] + 1 /\ pc'[i] = "check" /\ job'[i] = job[i]
    BY <1>2, <1>7 DEF Rename, Advance, TypeOK
  <2>7. \A k \in 1 .. at[i] : store'[Targets(job[i])[k]] = Files(Targets(job[i])[k])
    <3>1. \A k \in 1 .. at[i] : Targets(job[i])[k] \in Dirs
      BY <2>1, TargetsOf
    <3>2. \A k \in 1 .. (at[i] - 1) : Whole(Targets(job[i])[k])
      BY <1>2, <1>7 DEF InProgress
    <3>3. store'[Targets(job[i])[at[i]]] = Files(Targets(job[i])[at[i]])
      BY <2>3 DEF Target
    <3>4. \A k \in 1 .. at[i] : k = at[i] \/ k \in 1 .. (at[i] - 1)
      BY <2>1
    <3> QED
      BY <2>4, <3>1, <3>2, <3>3, <3>4 DEF Whole
  <2>8. at'[i] \in 1 .. Len(Targets(job[i])) + 1 /\ 1 .. (at'[i] - 1) = 1 .. at[i]
    BY <2>1, <2>6, TargetsOf
  <2>9. InProgress(i)'
    BY <2>1, <2>6, <2>7, <2>8 DEF InProgress, Whole
  <2> QED
    BY <1>2, <1>7, <2>4, <2>5, <2>9, InstallerMoves, InstallSeesWhole DEF Rename, Advance, TypeOK
<1>8. CASE pc[i] # "idle" /\ LinkName(i)
  <2>1. InProgress(i)'
    BY <1>2, <1>8 DEF LinkName, Forget, InProgress, TypeOK
  <2> QED
    BY <1>2, <1>8, <2>1, InstallerMoves, InstallSeesWhole DEF LinkName, Forget, Whole, TypeOK
<1>9. CASE pc[i] # "idle" /\ Kill(i)
  <2>1. InProgress(i)'
    BY <1>2, <1>9 DEF Kill, Forget, InProgress, TypeOK
  <2> QED
    BY <1>2, <1>9, <2>1, InstallerMoves, InstallSeesWhole DEF Kill, Forget, Whole, TypeOK
<1>10. CASE pc[i] # "idle" /\ InstallFails(i)
  <2>1. InProgress(i)'
    BY <1>2, <1>10 DEF InstallFails, Forget, InProgress, TypeOK
  <2> QED
    BY <1>2, <1>10, <2>1, InstallerMoves, InstallSeesWhole DEF InstallFails, Forget, Whole, TypeOK
<1> QED
  BY <1>1, <1>3, <1>4, <1>5, <1>6, <1>7, <1>8, <1>9, <1>10
  DEF Skip, Stage, Write, Rename, LinkName, InstallFails, Kill

\* Roots, links and damage do not touch the directories.
LEMMA InductiveEnvironment ==
  ASSUME Inductive, TypeOK', Environment
  PROVE  Inductive'
<1> USE DEF disk, installing, collecting, history, Watched
<1>1. UNCHANGED Watched
  BY DEF Environment, RemoveRoot, DamageRoot, AddRoot, CacheModule, DamageManifest
<1> QED
  BY <1>1, Unwatched

\* While the collector runs no install is under way, so nothing but its own
\* removals is at stake.
LEMMA InductiveCollect ==
  ASSUME ~TornRemovals, Inductive, TypeOK', Collect
  PROVE  Inductive'
<1> USE DEF disk, installing, collecting, history, Watched
<1>1. CASE MarkFails \/ WipeTmp \/ (\E m \in Mods : SweepJit(m)) \/ (\E n \in Names : SweepLink(n))
  <2>1. UNCHANGED Watched
    BY <1>1 DEF MarkFails, WipeTmp, SweepJit, SweepLink
  <2> QED
    BY <2>1, Unwatched
<1>2. ASSUME UNCHANGED <<store, pc, job, at, staged>>
      PROVE  \A j \in Installers : InProgress(j)'
  BY <1>2, ProgressKept DEF Inductive, Whole
<1>3. CASE Mark
  <2>1. removing = Absent
    BY <1>3 DEF Mark, Inductive, RemovingDoomed, Doomed
  <2>2. (WholeOrAbsent /\ RemovingDoomed)'
    BY <1>3, <2>1 DEF Mark, Inductive, WholeOrAbsent, RemovingDoomed, Whole
  <2>3. Exclusive'
    BY <1>3 DEF Mark, Exclusive, Quiet
  <2> QED
    BY <1>2, <1>3, <2>2, <2>3 DEF Mark, Inductive
<1>4. CASE PhaseDone
  <2>1. removing = Absent
    BY <1>4 DEF PhaseDone, Swept, Inductive, RemovingDoomed
  <2>2. (WholeOrAbsent /\ RemovingDoomed)'
    BY <1>4, <2>1 DEF PhaseDone, Inductive, WholeOrAbsent, RemovingDoomed, Whole
  <2>3. Exclusive'
    BY <1>4 DEF PhaseDone, Inductive, Exclusive, Quiet, Sweeping
  <2> QED
    BY <1>2, <1>4, <2>2, <2>3 DEF PhaseDone, Inductive
<1>5. CASE KillCollector
  <2>1. removing = Absent
    BY <1>5 DEF KillCollector
  <2>2. (WholeOrAbsent /\ RemovingDoomed /\ Exclusive)'
    BY <1>5, <2>1
    DEF KillCollector, Inductive, WholeOrAbsent, RemovingDoomed, Exclusive, Whole
  <2> QED
    BY <1>2, <1>5, <2>2 DEF KillCollector, Inductive
\* With no install under way, its progress does not depend on the store.
<1>6. ASSUME UNCHANGED <<pc, job, at, staged, gc>>, gc # "idle"
      PROVE  Exclusive' /\ \A j \in Installers : InProgress(j)'
  BY <1>6 DEF Inductive, Exclusive, Quiet, InProgress
<1>7. CASE \E d \in Dirs : Unlink(d)
  <2>1. PICK d \in Dirs : Unlink(d)
    BY <1>7
  <2>2. gc # "idle" /\ store[d] # Absent
    BY <2>1 DEF Unlink, Doomed
  <2>3. store'[d] # Absent /\ \A e \in Dirs \ {d} : store'[e] = store[e]
    <3>1. PICK f \in store[d] : store' = [store EXCEPT ![d] = @ \ {f}]
      BY <2>1 DEF Unlink
    <3>2. store[d] \ {f} \in SUBSET FileNames /\ store'[d] = store[d] \ {f}
      BY <2>2, <3>1 DEF Inductive, TypeOK, FileNames
    <3>3. \A files \in SUBSET FileNames : files # Absent
      BY StoreAssumption DEF FileNames
    <3>4. store'[d] # Absent
      BY <3>2, <3>3
    <3>5. \A e \in Dirs \ {d} : store'[e] = store[e]
      BY <3>1 DEF Inductive, TypeOK
    <3> QED
      BY <3>4, <3>5
  <2>4. d \in Doomed'
    BY <2>1, <2>3 DEF Unlink, Doomed
  <2>5. (WholeOrAbsent /\ RemovingDoomed)'
    BY <2>1, <2>3, <2>4, StoreAssumption
    DEF Unlink, Inductive, WholeOrAbsent, RemovingDoomed, Whole
  <2> QED
    BY <1>6, <2>1, <2>2, <2>5 DEF Unlink, Inductive
<1>8. CASE \E d \in Dirs : RmDir(d)
  <2>1. PICK d \in Dirs : RmDir(d)
    BY <1>8
  <2>2. gc # "idle"
    BY <2>1 DEF RmDir, Doomed
  <2>3. store'[d] = Absent /\ \A e \in Dirs \ {d} : store'[e] = store[e]
    BY <2>1 DEF RmDir, Inductive, TypeOK
  <2>4. (WholeOrAbsent /\ RemovingDoomed)'
    BY <2>1, <2>3, StoreAssumption
    DEF RmDir, Inductive, WholeOrAbsent, RemovingDoomed, Whole
  <2> QED
    BY <1>6, <2>1, <2>2, <2>4 DEF RmDir, Inductive
<1> QED
  BY <1>1, <1>3, <1>4, <1>5, <1>7, <1>8 DEF Collect

\* Unless the collector dies within a remove_dir_all, directories are whole or
\* absent, and those an installer has passed are there.
THEOREM InductiveHolds ==
  ASSUME ~TornRemovals
  PROVE  Spec => []Inductive
<1>1. Init => Inductive
  <2> SUFFICES ASSUME Init PROVE Inductive
    OBVIOUS
  <2>1. TypeOK
    BY TypeCorrectAtFirst
  <2>2. \A i \in Installers : InProgress(i)
    BY DEF Init, InProgress
  <2> QED
    BY <2>1, <2>2 DEF Init, Inductive, Exclusive, RemovingDoomed, WholeOrAbsent
<1>2. Inductive /\ [Next]_vars => Inductive'
  <2> SUFFICES ASSUME Inductive, [Next]_vars PROVE Inductive'
    OBVIOUS
  <2>1. TypeOK'
    BY TypeKept DEF Inductive
  <2>2. CASE UNCHANGED vars
    BY <2>1, <2>2, Unwatched DEF vars, disk, installing, collecting, Watched
  <2> QED
    BY <2>1, <2>2, InductiveInstall, InductiveEnvironment, InductiveCollect DEF Next
<1> QED
  BY <1>1, <1>2, PTL DEF Spec

\* Unless the collector dies within a remove_dir_all, a directory is there
\* with all its files or not at all, or is the one being removed.
THEOREM AtomicDirectories ==
  ASSUME ~TornRemovals
  PROVE  Spec => []WholeOrAbsent
<1>1. Inductive => WholeOrAbsent
  BY DEF Inductive
<1> QED
  BY <1>1, InductiveHolds, PTL

\* An installer that has passed all its targets has them all whole.
LEMMA ReturnsWhole ==
  ASSUME Inductive, NEW i \in Installers, pc[i] = "check", at[i] \notin DOMAIN Targets(job[i])
  PROVE  Complete(job[i])
<1>1. /\ job[i] \in Packs
      /\ at[i] \in 1 .. Len(Targets(job[i])) + 1
      /\ \A k \in 1 .. (at[i] - 1) : Whole(Targets(job[i])[k])
  BY DEF Inductive, InProgress
<1>2. DOMAIN Targets(job[i]) = 1 .. Len(Targets(job[i])) /\ Len(Targets(job[i])) \in Nat
  BY <1>1, TargetsOf
<1>3. at[i] = Len(Targets(job[i])) + 1
  BY <1>1, <1>2
<1> QED
  BY <1>1, <1>2, <1>3 DEF Complete, DirsOf

\* Unless the collector dies within a remove_dir_all, an install that is
\* about to return Ok has the whole pack in the store, whatever it skipped
\* and whichever races it lost.
THEOREM InstallsReturnComplete ==
  ASSUME ~TornRemovals
  PROVE  Spec => []ReturnsComplete
<1>1. Inductive => ReturnsComplete
  BY ReturnsWhole DEF ReturnsComplete
<1> QED
  BY <1>1, InductiveHolds, PTL

-----------------------------------------------------------------------------
(***************************************************************************)
(* What the collector leaves alone, killed or not.  Its marks are made     *)
(* once and trusted until the end, which is right because no root and no   *)
(* directory it has not looked at can appear meanwhile.                    *)
(***************************************************************************)
MarksCover ==
  gc # "idle" =>
    /\ live = Rooted
    /\ careful => gc \in {"pkg", "names", "tmp"}
    /\ ~careful => \A p \in Rooted : HasManifest(p) => DirsOf(p) \ {p} \subseteq kept

Marked == TypeOK /\ Exclusive /\ MarksCover

\* Every step keeps the marks covering what the roots reach.
LEMMA MarkedKept ==
  ASSUME Marked, [Next]_vars
  PROVE  Marked'
<1> USE DEF disk, installing, collecting, history
<1>1. TypeOK'
  BY TypeKept DEF Marked
<1>2. CASE UNCHANGED vars
  BY <1>1, <1>2 DEF vars, Marked, Exclusive, Quiet, MarksCover, Rooted, HasManifest
<1>3. CASE Install
  <2>1. gc = "idle" /\ gc' = "idle"
    BY <1>3 DEF Install, Marked, Exclusive, Quiet, Start, Skip, Stage, Write, Rename, LinkName, InstallFails, Kill
  <2> QED
    BY <1>1, <2>1 DEF Marked, Exclusive, MarksCover
<1>4. CASE Environment
  <2>1. gc = "idle" /\ gc' = "idle"
    BY <1>4 DEF Environment, RemoveRoot, DamageRoot, AddRoot, CacheModule, DamageManifest
  <2> QED
    BY <1>1, <2>1 DEF Marked, Exclusive, MarksCover
<1>5. CASE Collect
  <2>1. CASE Mark
    BY <1>1, <2>1 DEF Mark, Marked, Exclusive, Quiet, MarksCover, Rooted, HasManifest
  <2>2. CASE PhaseDone
    <3>1. gc' # "idle" => UNCHANGED <<live, kept, careful>>
      BY <2>2 DEF PhaseDone, ForgetMarks
    <3>2. gc' # "idle" /\ careful => gc' \in {"pkg", "names", "tmp"}
      BY <2>2 DEF PhaseDone, Marked, MarksCover, Sweeping
    <3>3. gc # "idle"
      BY <2>2 DEF PhaseDone, Sweeping
    <3>4. UNCHANGED <<roots, store, pc>>
      BY <2>2 DEF PhaseDone
    <3> QED
      BY <1>1, <3>1, <3>2, <3>3, <3>4
      DEF Marked, Exclusive, Quiet, MarksCover, Rooted, HasManifest
  <2>3. CASE MarkFails \/ WipeTmp \/ (\E m \in Mods : SweepJit(m)) \/ (\E n \in Names : SweepLink(n))
    BY <1>1, <2>3
    DEF MarkFails, WipeTmp, SweepJit, SweepLink, Marked, Exclusive, Quiet, MarksCover, Rooted, HasManifest
  <2>4. CASE KillCollector
    BY <1>1, <2>4 DEF KillCollector, Marked, Exclusive, MarksCover
  <2>5. CASE \E d \in Dirs : Unlink(d) \/ RmDir(d)
    <3>1. PICK d \in Dirs : Unlink(d) \/ RmDir(d)
      BY <2>5
    <3>2. UNCHANGED <<roots, pc, gc, live, kept, careful>>
      BY <3>1 DEF Unlink, RmDir
    <3>3. \A p \in Packs : HasManifest(p)' => HasManifest(p)
      <4>1. CASE Unlink(d)
        <5>1. PICK f \in store[d] : store' = [store EXCEPT ![d] = @ \ {f}]
          BY <4>1 DEF Unlink
        <5>2. store[d] # Absent
          BY <4>1 DEF Unlink, Doomed
        <5> QED
          BY <5>1, <5>2 DEF HasManifest, Marked, TypeOK, Dirs
      <4>2. CASE RmDir(d)
        BY <4>2 DEF RmDir, HasManifest, Marked, TypeOK, Dirs
      <4> QED
        BY <3>1, <4>1, <4>2
    <3>4. Rooted \subseteq Packs /\ Rooted' = Rooted
      BY <3>2, MarksAreTyped DEF Marked, Rooted
    <3> QED
      BY <1>1, <3>2, <3>3, <3>4 DEF Marked, Exclusive, Quiet, MarksCover
  <2> QED
    BY <1>5, <2>1, <2>2, <2>3, <2>4, <2>5 DEF Collect
<1> QED
  BY <1>2, <1>3, <1>4, <1>5 DEF Next

\* The only step that takes a file away from a directory picks one that no
\* rooted pack with a manifest needs.
LEMMA DoomedNotNeeded ==
  ASSUME Marked, NEW p \in Rooted, HasManifest(p), NEW d \in DirsOf(p)
  PROVE  d \notin Doomed
<1>1. p \in Packs
  BY MarksAreTyped DEF Marked
<1>2. d = p \/ d \in Mods \cup Terms
  BY <1>1, TargetsOf DEF DirsOf
<1>3. CASE gc = "pkg"
  BY <1>1, <1>2, <1>3, StoreAssumption DEF Doomed, Marked, MarksCover
<1>4. CASE gc \in {"mod", "term"}
  <2>1. DirsOf(p) \ {p} \subseteq kept
    BY <1>4 DEF Marked, MarksCover
  <2> QED
    BY <1>1, <1>2, <1>4, <2>1, StoreAssumption DEF Doomed
<1>5. CASE gc \notin {"pkg", "mod", "term"}
  BY <1>5 DEF Doomed
<1> QED
  BY <1>3, <1>4, <1>5

\* A whole directory stays whole unless the collector has it in hand.
LEMMA WholeKept ==
  ASSUME TypeOK, [Next]_vars, NEW d \in Dirs, Whole(d), d \notin Doomed
  PROVE  Whole(d)'
<1> USE DEF disk, installing, collecting, history
<1>1. store[d] # Absent /\ store[d] # {}
  <2>1. \A files \in SUBSET FileNames : files # Absent
    BY StoreAssumption DEF FileNames
  <2> QED
    BY <2>1, FilesOf DEF Whole
<1>2. CASE \E i \in Installers : Rename(i)
  BY <1>1, <1>2 DEF Rename, TypeOK, Whole
<1>3. CASE \E e \in Dirs : Unlink(e)
  BY <1>3 DEF Unlink, TypeOK, Whole
<1>4. CASE \E e \in Dirs : RmDir(e)
  BY <1>1, <1>4 DEF RmDir, TypeOK, Whole
<1>5. CASE UNCHANGED store
  BY <1>5 DEF Whole
<1>6. \/ UNCHANGED store
      \/ \E i \in Installers : Rename(i)
      \/ \E e \in Dirs : Unlink(e) \/ RmDir(e)
  BY DEF vars, Next, Install, Environment, Collect, Start, Skip, Stage, Write, LinkName, InstallFails, Kill,
         RemoveRoot, DamageRoot, AddRoot, CacheModule, DamageManifest,
         MarkFails, Mark, WipeTmp, PhaseDone, KillCollector, SweepJit, SweepLink
<1> QED
  BY <1>2, <1>3, <1>4, <1>5, <1>6

\* The marks are good in every state.
LEMMA MarkedHolds == Spec => []Marked
<1>1. Init => Marked
  BY TypeCorrectAtFirst DEF Init, Marked, Exclusive, MarksCover
<1> QED
  BY <1>1, MarkedKept, PTL DEF Spec

\* The collector takes nothing from a project: of a rooted pack whose
\* manifest file is there, readable or not, every directory in the store
\* stays in it, whoever is killed and wherever.
THEOREM RootedPacksSurvive == Spec => RootedSurvive
<1>1. ASSUME Marked, [Next]_vars, NEW p \in Rooted, HasManifest(p), NEW d \in DirsOf(p), Whole(d)
      PROVE  Whole(d)'
  <2>1. d \in Dirs
    BY <1>1, MarksAreTyped, TargetsOf DEF Marked, DirsOf
  <2> QED
    BY <1>1, <2>1, WholeKept, DoomedNotNeeded DEF Marked
<1>2. Marked /\ [Next]_vars => [\A p \in Rooted : HasManifest(p) =>
                                   \A d \in DirsOf(p) : Whole(d) => Whole(d)']_vars
  BY <1>1
<1> QED
  BY <1>2, MarkedHolds, PTL DEF Spec, RootedSurvive

-----------------------------------------------------------------------------
(***************************************************************************)
(* What a collection achieves.  What a phase has swept stays swept, because*)
(* nothing is installed or linked meanwhile, and what is kept is needed by *)
(* a pack that is rooted and whole, because such packs are not swept.      *)
(***************************************************************************)
\* A link that is followed, or that the collector is to keep, leads to a whole pack.
LinksWhole ==
  ~gc_killed =>
    \A n \in Names : links[n] # Absent /\ (gc = "idle" \/ links[n] \in live) =>
      Complete(links[n])

\* What the phases that are over have left.
PacksSwept == gc \in Sweeping \ {"pkg"} => \A p \in Packs : store[p] # Absent => p \in live

LinksSwept == gc = "tmp" => \A n \in Names : links[n] # Absent => links[n] \in live

PartsSwept ==
  ~careful =>
    /\ gc \in {"term", "jit", "names", "tmp"} => \A m \in Mods : store[m] # Absent => m \in kept
    /\ gc \in {"jit", "names", "tmp"} => \A t \in Terms : store[t] # Absent => t \in kept
    /\ gc \in {"names", "tmp"} => jit \subseteq kept

\* What is kept a rooted pack needs that is still whole.
KeptUsed ==
  gc # "idle" => \A d \in kept : \E p \in Rooted : Whole(p) /\ d \in DirsOf(p)

SweptSoFar == PacksSwept /\ LinksSwept /\ PartsSwept /\ KeptUsed

\* Only three steps touch the marks, and only an install sets a link.
LEMMA StepShape ==
  ASSUME TypeOK, [Next]_vars
  PROVE  /\ UNCHANGED <<gc, live, kept, careful, gc_killed>> \/ Mark \/ PhaseDone \/ KillCollector
         /\ (\E i \in Installers : LinkName(i)) \/ \A n \in Names : links'[n] \in {links[n], Absent}
<1> USE DEF disk, installing, collecting, history
<1>1. CASE Install \/ Environment \/ UNCHANGED vars
  BY <1>1 DEF vars, Install, Environment, Start, Skip, Stage, Write, Rename, LinkName, InstallFails, Kill,
              RemoveRoot, DamageRoot, AddRoot, CacheModule, DamageManifest
<1>2. CASE \E n \in Names : SweepLink(n)
  BY <1>2 DEF SweepLink, TypeOK
<1>3. CASE Collect /\ ~ \E n \in Names : SweepLink(n)
  BY <1>3 DEF Collect, MarkFails, Mark, WipeTmp, PhaseDone, KillCollector, Unlink, RmDir, SweepJit
<1> QED
  BY <1>1, <1>2, <1>3 DEF Next

\* A pack that is whole and rooted, or that nobody is collecting, stays whole.
LEMMA CompleteKept ==
  ASSUME Marked, [Next]_vars, NEW p \in Packs, Complete(p), gc = "idle" \/ p \in Rooted
  PROVE  Complete(p)'
<1> SUFFICES ASSUME NEW d \in DirsOf(p) PROVE Whole(d)'
  BY DEF Complete
<1>1. d \in Dirs /\ p \in DirsOf(p)
  BY TargetsOf DEF DirsOf, TypeOK, Dirs, Targets
<1>2. HasManifest(p)
  <2>1. store[p] = {"pack", "manifest"}
    BY <1>1 DEF Complete, Whole, Files, FileList
  <2>2. \A files \in SUBSET FileNames : files # Absent
    BY StoreAssumption DEF FileNames
  <2> QED
    BY <2>1, <2>2 DEF HasManifest, FileNames
<1>3. d \notin Doomed
  BY <1>2, DoomedNotNeeded DEF Doomed
<1> QED
  BY <1>1, <1>3, WholeKept DEF Complete, Marked

\* No step breaks a link: whole packs are linked, and they are kept or unlinked.
LEMMA LinksKept ==
  ASSUME Inductive, Marked, LinksWhole, LinksSwept, [Next]_vars
  PROVE  LinksWhole'
<1> USE DEF disk, installing, collecting, history
<1> SUFFICES ASSUME ~gc_killed', NEW n \in Names, links'[n] # Absent,
                    gc' = "idle" \/ links'[n] \in live'
             PROVE  Complete(links[n])'
  BY DEF LinksWhole
<1>1. TypeOK /\ ~gc_killed
  <2> USE DEF Marked
  <2>1. UNCHANGED gc_killed \/ Mark \/ PhaseDone \/ KillCollector
    BY StepShape
  <2>2. Mark \/ PhaseDone => UNCHANGED gc_killed
    BY DEF Mark, PhaseDone
  <2>3. KillCollector => gc_killed'
    BY DEF KillCollector
  <2> QED
    BY <2>1, <2>2, <2>3
<1>2. CASE links'[n] = links[n]
  <2>1. gc = "idle" \/ links[n] \in live
    <3>1. CASE UNCHANGED <<gc, live>>
      BY <1>2, <3>1
    <3>2. CASE Mark
      BY <3>2 DEF Mark
    <3>3. CASE PhaseDone
      BY <1>2, <3>3 DEF PhaseDone, ForgetMarks, Sweeping, LinksSwept
    <3> QED
      <4>1. ~KillCollector
        BY DEF KillCollector
      <4> QED
        BY <1>1, <3>1, <3>2, <3>3, <4>1, StepShape
  <2>2. links[n] \in Packs /\ Complete(links[n])
    BY <1>1, <1>2, <2>1 DEF LinksWhole, TypeOK
  <2>3. PICK p \in Packs : p = links[n]
    BY <2>2
  <2>4. gc = "idle" \/ p \in Rooted
    BY <2>1, <2>3 DEF Marked, MarksCover
  <2>5. Complete(p)'
    BY <2>2, <2>3, <2>4, CompleteKept
  <2> QED
    BY <1>2, <2>3, <2>5
<1>3. CASE links'[n] # links[n]
  <2>1. PICK i \in Installers : LinkName(i)
    BY <1>1, <1>3, StepShape
  <2>2. links'[n] = job[i] /\ UNCHANGED store
    BY <1>1, <1>3, <2>1 DEF LinkName, TypeOK
  <2>3. Complete(job[i])
    BY <2>1, ReturnsWhole DEF LinkName, ReturnsComplete
  <2> QED
    BY <2>2, <2>3 DEF Complete, Whole
<1> QED
  BY <1>2, <1>3

\* A phase sweeps all that is doomed, and nothing comes back before the end.
LEMMA SweptSoFarKept ==
  ASSUME Inductive, Marked, SweptSoFar, [Next]_vars
  PROVE  SweptSoFar'
<1> USE DEF disk, installing, collecting, history
<1>1. CASE gc' = "idle"
  BY <1>1 DEF SweptSoFar, PacksSwept, LinksSwept, PartsSwept, KeptUsed, Sweeping
<1>2. CASE Mark
  <2>1. /\ gc = "idle" /\ gc' = "pkg" /\ UNCHANGED <<store, roots>>
        /\ kept' = UNION {DirsOf(p) \ {p} : p \in {q \in Rooted : HasManifest(q) /\ q \notin damaged}}
    BY <1>2 DEF Mark
  <2>2. \A p \in Rooted : HasManifest(p) => Whole(p)
    <3>1. removing = Absent /\ Rooted \subseteq Packs /\ Absent \notin Packs
      BY <2>1, MarksAreTyped, StoreAssumption DEF Inductive, RemovingDoomed, Doomed, Dirs
    <3> QED
      BY <3>1 DEF Inductive, WholeOrAbsent, HasManifest, Dirs
  <2>3. KeptUsed'
    BY <2>1, <2>2 DEF KeptUsed, Rooted, Whole
  <2> QED
    BY <2>1, <2>3 DEF SweptSoFar, PacksSwept, LinksSwept, PartsSwept
<1>3. CASE PhaseDone /\ gc' # "idle"
  <2>1. /\ UNCHANGED <<store, roots, links, jit, live, kept, careful>>
        /\ gc \in Sweeping /\ Swept
    BY <1>3 DEF PhaseDone, ForgetMarks
  <2>2. /\ gc = "pkg"  => gc' = IF careful THEN "names" ELSE "mod"
        /\ gc = "mod"  => gc' = "term"
        /\ gc = "term" => gc' = "jit"
        /\ gc = "jit"  => gc' = "names"
        /\ gc = "names" => gc' = "tmp"
        /\ gc # "tmp"
    BY <1>3 DEF PhaseDone
  <2>3. PacksSwept'
    BY <2>1, <2>2 DEF SweptSoFar, PacksSwept, Swept, Doomed, Sweeping
  <2>4. LinksSwept'
    BY <2>1, <2>2 DEF SweptSoFar, LinksSwept, Swept, Sweeping
  <2>5. PartsSwept'
    <3>1. (gc = "mod" => \A m \in Mods : store[m] # Absent => m \in kept)
      BY <2>1 DEF Swept, Doomed
    <3>2. (gc = "term" => \A t \in Terms : store[t] # Absent => t \in kept)
      BY <2>1 DEF Swept, Doomed
    <3>3. (gc = "jit" => jit \subseteq kept)
      BY <2>1 DEF Swept
    <3> QED
      BY <2>1, <2>2, <3>1, <3>2, <3>3 DEF SweptSoFar, PartsSwept, Sweeping
  <2>6. KeptUsed'
    BY <2>1, <2>2 DEF SweptSoFar, KeptUsed, Rooted, Whole, Sweeping
  <2> QED
    BY <2>3, <2>4, <2>5, <2>6 DEF SweptSoFar
<1>4. ASSUME gc # "idle", UNCHANGED <<gc, live, kept, careful, roots>>, jit' \subseteq jit,
             \A n \in Names : links'[n] \in {links[n], Absent},
             \A d \in Dirs : store'[d] # Absent => store[d] # Absent
      PROVE  SweptSoFar'
  <2>1. ASSUME NEW p \in Rooted, Whole(p) PROVE Whole(p)'
    <3>1. p \in Packs /\ p \in DirsOf(p) /\ p \in Dirs
      BY MarksAreTyped, TargetsOf DEF Marked, DirsOf, Dirs, Targets
    <3>2. HasManifest(p)
      <4>1. store[p] = {"pack", "manifest"}
        BY <2>1, <3>1 DEF Whole, Files, FileList
      <4>2. \A files \in SUBSET FileNames : files # Absent
        BY StoreAssumption DEF FileNames
      <4> QED
        BY <4>1, <4>2 DEF HasManifest, FileNames
    <3> QED
      BY <2>1, <3>1, <3>2, WholeKept, DoomedNotNeeded DEF Marked
  <2>2. KeptUsed'
    BY <1>4, <2>1 DEF SweptSoFar, KeptUsed, Rooted
  <2> QED
    BY <1>4, <2>2 DEF SweptSoFar, PacksSwept, LinksSwept, PartsSwept, Dirs
<1>5. CASE gc' # "idle" /\ ~Mark /\ ~PhaseDone
  <2>1. CASE UNCHANGED vars
    BY <1>4, <1>5, <2>1 DEF vars
  <2>2. ~Install /\ ~Environment
    BY <1>5 DEF Install, Environment, Start, Skip, Stage, Write, Rename, LinkName, InstallFails, Kill,
                RemoveRoot, DamageRoot, AddRoot, CacheModule, DamageManifest, Inductive, Exclusive, Quiet
  <2>3. CASE MarkFails \/ KillCollector
    BY <1>5, <2>3 DEF MarkFails, KillCollector
  <2>4. CASE WipeTmp \/ (\E m \in Mods : SweepJit(m)) \/ (\E n \in Names : SweepLink(n))
    BY <1>4, <2>4 DEF WipeTmp, SweepJit, SweepLink, Marked, TypeOK
  <2>5. CASE \E d \in Dirs : Unlink(d) \/ RmDir(d)
    <3>1. PICK d \in Dirs : Unlink(d) \/ RmDir(d)
      BY <2>5
    <3>2. gc # "idle" /\ store[d] # Absent /\ \A e \in Dirs \ {d} : store'[e] = store[e]
      BY <3>1 DEF Unlink, RmDir, Doomed, Marked, TypeOK
    <3> QED
      BY <1>4, <3>1, <3>2 DEF Unlink, RmDir
  <2> QED
    BY <1>5, <2>1, <2>2, <2>3, <2>4, <2>5 DEF Next, Collect
<1> QED
  BY <1>1, <1>2, <1>3, <1>5

\* The four invariants together.
LEMMA CollectionHolds ==
  ASSUME ~TornRemovals
  PROVE  Spec => [](Inductive /\ Marked /\ LinksWhole /\ SweptSoFar)
<1>1. Init => LinksWhole /\ SweptSoFar
  BY DEF Init, LinksWhole, SweptSoFar, PacksSwept, LinksSwept, PartsSwept, KeptUsed, Sweeping
<1>2. Inductive /\ Marked /\ LinksWhole /\ SweptSoFar /\ [Next]_vars => LinksWhole' /\ SweptSoFar'
  BY LinksKept, SweptSoFarKept DEF SweptSoFar
<1> QED
  BY <1>1, <1>2, InductiveHolds, MarkedHolds, PTL DEF Spec

\* Unless a collector was killed, a name resolves to a pack that is all there.
THEOREM LinkedPacksComplete ==
  ASSUME ~TornRemovals
  PROVE  Spec => []LinkedComplete
<1>1. LinksWhole => LinkedComplete
  BY DEF LinksWhole, LinkedComplete
<1> QED
  BY <1>1, CollectionHolds, PTL

\* Every way out of an install but being killed removes its staging directory.
LEMMA OrphansAreKills == Spec => [](orphans <= crashes)
<1>1. Init => orphans <= crashes
  BY DEF Init
<1>2. TypeOK /\ orphans <= crashes /\ [Next]_vars => (orphans <= crashes)'
  <2> USE DEF disk, installing, collecting, history
  <2> SUFFICES ASSUME TypeOK, orphans <= crashes, [Next]_vars PROVE (orphans <= crashes)'
    OBVIOUS
  <2>1. orphans \in Nat /\ crashes \in Nat
    BY StoreAssumption DEF TypeOK
  <2>2. \/ UNCHANGED <<orphans, crashes>>
        \/ orphans' \in {orphans, orphans + 1} /\ crashes' = crashes + 1
        \/ orphans' = orphans - 1 /\ crashes' = crashes
    BY DEF vars, Next, Install, Environment, Collect, Start, Skip, Stage, Write, Rename, LinkName, InstallFails, Kill,
           RemoveRoot, DamageRoot, AddRoot, CacheModule, DamageManifest,
           MarkFails, Mark, WipeTmp, PhaseDone, KillCollector, Unlink, RmDir, SweepJit, SweepLink
  <2> QED
    BY <2>1, <2>2
<1> QED
  BY <1>1, <1>2, TypeCorrect, PTL DEF Spec

\* A collection that is about to return has left nothing that no root reaches.
THEOREM CollectionLeavesNothing ==
  ASSUME ~TornRemovals
  PROVE  Spec => []CollectedAll
<1>1. Marked /\ SweptSoFar /\ orphans <= crashes => CollectedAll
  <2> SUFFICES ASSUME Marked, SweptSoFar, gc = "tmp"
               PROVE  /\ \A p \in Packs : store[p] # Absent => p \in Rooted
                      /\ \A n \in Names : links[n] # Absent => links[n] \in Rooted
                      /\ ~careful =>
                           LET used == UNION {DirsOf(p) : p \in {q \in Rooted : Whole(q)}}
                           IN /\ \A d \in Mods \cup Terms : store[d] # Absent => d \in used
                              /\ jit \subseteq used
    BY DEF CollectedAll
  <2>1. live = Rooted
    BY DEF Marked, MarksCover
  <2>2. \A d \in kept : d \in UNION {DirsOf(p) : p \in {q \in Rooted : Whole(q)}}
    BY DEF SweptSoFar, KeptUsed
  <2> QED
    BY <2>1, <2>2 DEF SweptSoFar, PacksSwept, LinksSwept, PartsSwept, Sweeping
<1> QED
  BY <1>1, CollectionHolds, OrphansAreKills, PTL
=============================================================================
