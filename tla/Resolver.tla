------------------------------ MODULE Resolver ------------------------------
(***************************************************************************)
(* Builds that resolve their dependencies (crates/triet-pack/src/          *)
(* resolver.rs) against a store that others install to, collect and damage *)
(* meanwhile, and keep the result in dao.lock (lockfile.rs).               *)
(*                                                                         *)
(* A build loads the lockfile, resolves dependency after dependency and    *)
(* saves the lockfile if all of them resolved.                             *)
(***************************************************************************)
EXTENDS Packages, SavedFile, Sequences

CONSTANTS
  Manifests,   \* the dependencies a project may declare, in order
  MaxBuilds,   \* BOUND on the builds that begin
  MaxChanges   \* BOUND on what others do to the store and the lockfile

Builds == Savers
Phases == {"off", "resolve", "open", "write", "rename"}

Entries == [version : Versions, iface : {IfaceOf[p] : p \in Packs}, impl : Packs]
Locks   == [PkgNames -> Entries \cup {None}]
NoLock  == [n \in PkgNames |-> None]

\* PackageManifest::parse refuses two dependencies of one name.
IsManifest(m) ==
  /\ m \in Seq(Deps)
  /\ \A i, j \in DOMAIN m : m[i].name = m[j].name => i = j

ASSUME ResolverAssumption ==
  /\ Blank = NoLock
  /\ Broken \notin Locks /\ None \notin Entries
  /\ \A m \in Manifests : IsManifest(m)
  /\ MaxBuilds \in Nat /\ MaxChanges \in Nat

VARIABLES
  installed,   \* packs in the store
  unreadable,  \* packs whose manifest cannot be read
  links,       \* name and version -> the pack linked there, or None
  changes, begun,
  phase,       \* build -> what it does next
  manifest,    \* build -> the dependencies it resolves
  lock,        \* build -> its lockfile, in memory
  picked,      \* build -> the version and pack chosen for the next dependency
  out,         \* build -> the resolutions so far
  started_from,\* HISTORY build -> the lockfile it loaded
  published    \* HISTORY the lockfiles of builds that resolved everything

storeVars == <<installed, unreadable, links>>
buildVars == <<phase, manifest, lock, picked, out, started_from>>
vars      == <<fileVars, storeVars, changes, begun, buildVars, published>>

Saving(b) == phase[b] \in {"open", "write", "rename"}
Underway  == {b \in Builds : Saving(b)}

Init ==
  /\ FileInit({})
  /\ installed = {} /\ unreadable = {} /\ changes = 0 /\ begun = 0
  /\ links = [k \in PkgNames \X Versions |-> None]
  /\ phase = [b \in Builds |-> "off"]
  /\ manifest = [b \in Builds |-> <<>>]
  /\ lock = [b \in Builds |-> NoLock]
  /\ picked = [b \in Builds |-> None]
  /\ out = [b \in Builds |-> <<>>]
  /\ started_from = [b \in Builds |-> NoLock]
  /\ published = {}

-----------------------------------------------------------------------------
(* The surroundings *)

Change == changes < MaxChanges /\ changes' = changes + 1 /\ UNCHANGED begun

\* install_pack, which links the pack's own name and version to it.
Install(p) ==
  /\ Change
  /\ installed' = installed \cup {p}
  /\ unreadable' = unreadable \ {p}
  /\ links' = [links EXCEPT ![<<NameOf[p], VersionOf[p]>>] = p]
  /\ UNCHANGED <<fileVars, buildVars, published>>

\* A collection takes the pack and the links to it; killed before it gets to
\* the links it leaves them dangling.
Collect(p) ==
  /\ Change
  /\ p \in installed
  /\ installed' = installed \ {p}
  /\ unreadable' = unreadable \ {p}
  /\ \/ UNCHANGED links
     \/ links' = [k \in DOMAIN links |-> IF links[k] = p THEN None ELSE links[k]]
  /\ UNCHANGED <<fileVars, buildVars, published>>

Damage(p) ==
  /\ Change
  /\ p \in installed \ unreadable
  /\ unreadable' = unreadable \cup {p}
  /\ UNCHANGED <<fileVars, installed, links, buildVars, published>>

\* The user deletes dao.lock, or leaves it broken.
DeleteLock ==
  /\ Change
  /\ Delete
  /\ UNCHANGED <<storeVars, buildVars, published>>

BreakLock ==
  /\ Change
  /\ Replace(Broken)
  /\ UNCHANGED <<storeVars, buildVars, published>>

-----------------------------------------------------------------------------
(* A build *)

Begin(b, m) ==
  /\ phase[b] = "off"
  /\ begun < MaxBuilds /\ begun' = begun + 1
  /\ Content # Broken
  /\ phase' = [phase EXCEPT ![b] = "resolve"]
  /\ manifest' = [manifest EXCEPT ![b] = m]
  /\ lock' = [lock EXCEPT ![b] = Content]
  /\ started_from' = [started_from EXCEPT ![b] = Content]
  /\ UNCHANGED <<fileVars, storeVars, changes, picked, out, published>>

\* It ends, in success, failure or a kill, and what it had in memory is lost.
Reset(b) ==
  /\ phase' = [phase EXCEPT ![b] = "off"]
  /\ manifest' = [manifest EXCEPT ![b] = <<>>]
  /\ lock' = [lock EXCEPT ![b] = NoLock]
  /\ picked' = [picked EXCEPT ![b] = None]
  /\ out' = [out EXCEPT ![b] = <<>>]
  /\ started_from' = [started_from EXCEPT ![b] = NoLock]

Kill(b) ==
  /\ phase[b] # "off"
  /\ Reset(b)
  /\ Abandon(b)
  /\ UNCHANGED <<storeVars, changes, begun, published>>

Pending(b) == phase[b] = "resolve" /\ picked[b] = None /\ Len(out[b]) < Len(manifest[b])
Dep(b)     == manifest[b][Len(out[b]) + 1]
Pinned(d)  == d.pin # None

\* Seeded defect: a locked pack the store has lost is resolved anew.
LockedIfInstalled(b) ==
  LET e == lock[b][Dep(b).name]
  IN  /\ ~ Pinned(Dep(b)) /\ e # None
      /\ InRange(e.version, Dep(b)) /\ e.impl \in installed

\* resolve_one goes by the lockfile unless the dependency pins an interface or
\* the entry is out of range.
Locked(b) ==
  LET e == lock[b][Dep(b).name]
  IN  ~ Pinned(Dep(b)) /\ e # None /\ InRange(e.version, Dep(b))

Resolved(b, version, impl, origin) ==
  /\ out' = [out EXCEPT ![b] = Append(@, [version |-> version, impl |-> impl,
                                          origin |-> origin])]
  /\ UNCHANGED <<fileVars, storeVars, changes, begun, phase, manifest, started_from,
                 published>>

ResolveLocked(b) ==
  LET e == lock[b][Dep(b).name]
  IN  /\ Pending(b)
      /\ Locked(b)
      /\ e.impl \in installed
      /\ Resolved(b, e.version, e.impl, "lockfile")
      /\ UNCHANGED <<lock, picked>>

\* E2381: the store has lost the locked pack.
LockedMissing(b) ==
  /\ Pending(b)
  /\ Locked(b)
  /\ lock[b][Dep(b).name].impl \notin installed
  /\ Reset(b)
  /\ UNCHANGED <<fileVars, storeVars, changes, begun, published>>

Readable == installed \ unreadable

\* The linked versions in range whose interface is the pinned one.
Choices(d) ==
  {c \in Versions \X Packs :
     /\ links[<<d.name, c[1]>>] = c[2]
     /\ InRange(c[1], d)
     /\ Pinned(d) => c[2] \in Readable /\ IfaceOf[c[2]] = d.pin}

Choose(b) ==
  /\ Pending(b)
  /\ ~ Locked(b)
  /\ \E c \in Choices(Dep(b)) :
       /\ \A o \in Choices(Dep(b)) : o[1] <= c[1]
       /\ picked' = [picked EXCEPT ![b] = c]
  /\ UNCHANGED <<fileVars, storeVars, changes, begun, phase, manifest, lock, out,
                 started_from, published>>

\* Seeded defect: the lockfile is saved although a dependency did not resolve.
NoChoiceSaving(b) ==
  /\ Pending(b)
  /\ ~ Locked(b)
  /\ Choices(Dep(b)) = {}
  /\ phase' = [phase EXCEPT ![b] = "open"]
  /\ StartSave(b, Underway)
  /\ UNCHANGED <<storeVars, changes, begun, manifest, lock, picked, out, started_from,
                 published>>

\* E2380 and E2382.
NoChoice(b) ==
  /\ Pending(b)
  /\ ~ Locked(b)
  /\ Choices(Dep(b)) = {}
  /\ Reset(b)
  /\ UNCHANGED <<fileVars, storeVars, changes, begun, published>>

\* Seeded defect: an entry the lockfile has is kept.
RecordIfNew(b) ==
  LET v == picked[b][1]
      p == picked[b][2]
  IN  /\ picked[b] # None
      /\ p \in Readable
      /\ lock' = [lock EXCEPT ![b][Dep(b).name] = IF @ # None THEN @ ELSE
                    [version |-> v, iface |-> IfaceOf[p], impl |-> p]]
      /\ picked' = [picked EXCEPT ![b] = None]
      /\ Resolved(b, v, p, IF Pinned(Dep(b)) THEN "ifacepin" ELSE "fresh")

\* read_iface_hash, and the entry replaces the one the name had.
Record(b) ==
  LET v == picked[b][1]
      p == picked[b][2]
  IN  /\ picked[b] # None
      /\ p \in Readable
      /\ lock' = [lock EXCEPT ![b][Dep(b).name] =
                    [version |-> v, iface |-> IfaceOf[p], impl |-> p]]
      /\ picked' = [picked EXCEPT ![b] = None]
      /\ Resolved(b, v, p, IF Pinned(Dep(b)) THEN "ifacepin" ELSE "fresh")

RecordFails(b) ==
  /\ picked[b] # None
  /\ picked[b][2] \notin Readable
  /\ Reset(b)
  /\ UNCHANGED <<fileVars, storeVars, changes, begun, published>>

\* Everything resolved: the caller takes the lockfile and saves it.
Finish(b) ==
  /\ phase[b] = "resolve"
  /\ Len(out[b]) = Len(manifest[b])
  /\ phase' = [phase EXCEPT ![b] = "open"]
  /\ published' = published \cup {lock[b]}
  /\ StartSave(b, Underway)
  /\ UNCHANGED <<storeVars, changes, begun, manifest, lock, picked, out, started_from>>

OpenLock(b) ==
  /\ phase[b] = "open"
  /\ OpenTmp(b)
  /\ phase' = [phase EXCEPT ![b] = "write"]
  /\ UNCHANGED <<storeVars, changes, begun, manifest, lock, picked, out, started_from, published>>

WriteLock(b) ==
  /\ phase[b] = "write"
  /\ WriteTmp(b, lock[b])
  /\ phase' = [phase EXCEPT ![b] = "rename"]
  /\ UNCHANGED <<storeVars, changes, begun, manifest, lock, picked, out, started_from, published>>

RenameLock(b) ==
  /\ phase[b] = "rename"
  /\ RenameTmp(b, lock[b])
  /\ Reset(b)
  /\ UNCHANGED <<storeVars, changes, begun, published>>

SaveFails(b) ==
  /\ \/ phase[b] \in {"open", "write"} /\ Abandon(b)
     \/ phase[b] = "rename" /\ RenameFails(b)
  /\ Reset(b)
  /\ UNCHANGED <<storeVars, changes, begun, published>>

-----------------------------------------------------------------------------
Next ==
  \/ \E p \in Packs : Install(p) \/ Collect(p) \/ Damage(p)
  \/ DeleteLock \/ BreakLock
  \/ \E b \in Builds :
       \/ \E m \in Manifests : Begin(b, m)
       \/ Kill(b) \/ ResolveLocked(b) \/ LockedMissing(b) \/ Choose(b) \/ NoChoice(b)
       \/ Record(b) \/ RecordFails(b) \/ Finish(b) \/ OpenLock(b) \/ WriteLock(b)
       \/ RenameLock(b) \/ SaveFails(b)

Spec == Init /\ [][Next]_vars

-----------------------------------------------------------------------------
(* Properties *)

Resolutions == [version : Versions, impl : Packs, origin : {"lockfile", "ifacepin", "fresh"}]

\* The variables hold what they are said to hold.
TypeOK ==
  /\ installed \subseteq Packs /\ unreadable \subseteq installed
  /\ links \in [PkgNames \X Versions -> Packs \cup {None}]
  /\ changes \in 0..MaxChanges /\ begun \in 0..MaxBuilds
  /\ phase \in [Builds -> Phases]
  /\ manifest \in [Builds -> Manifests \cup {<<>>}]
  /\ lock \in [Builds -> Locks] /\ started_from \in [Builds -> Locks]
  /\ picked \in [Builds -> (Versions \X Packs) \cup {None}]
  /\ out \in [Builds -> Seq(Resolutions)]
  /\ published \subseteq Locks
  /\ lone \in Builds \cup {Absent} /\ due \in Locks \cup {Broken, Absent}
  /\ file \in Inodes \cup {Absent} /\ tmp \in Inodes \cup {Absent}
  /\ data \in [Inodes -> Locks \cup {Broken}]
  /\ fd \in [Builds -> Inodes \cup {Absent}]

\* "Authoritative": a dependency the lockfile had in range when the build
\* started resolves to the very pack named there or not at all, whatever is
\* installed, collected or damaged in between and whatever else is resolved.
LockedStays ==
  \A b \in Builds : \A i \in 1..Len(out[b]) :
    LET d == manifest[b][i]
        e == started_from[b][d.name]
    IN  (~ Pinned(d) /\ e # None /\ InRange(e.version, d)) => out[b][i].impl = e.impl

\* Every resolution is of the name asked for, in range and of the pinned
\* interface, and the lockfile to be saved says the same of it, also after
\* the dependencies resolved later.
ResolvedFits ==
  \A b \in Builds : \A i \in 1..Len(out[b]) :
    LET d == manifest[b][i]
        r == out[b][i]
        e == lock[b][d.name]
    IN  /\ NameOf[r.impl] = d.name /\ VersionOf[r.impl] = r.version
        /\ InRange(r.version, d)
        /\ Pinned(d) => IfaceOf[r.impl] = d.pin
        /\ e # None /\ e.impl = r.impl /\ e.version = r.version
        /\ e.iface = IfaceOf[r.impl]

\* resolver.rs and linker.rs decide ranges and pins each on their own: given
\* what a build resolved, the linker finds no error, selects the same packs
\* and sees no pin disregarded.
LinkerAgrees ==
  \A b \in Builds :
    LET chosen == {out[b][i].impl : i \in DOMAIN out[b]}
    IN  phase[b] = "open" =>
          \A i \in DOMAIN out[b] :
            /\ LinkFailure(manifest[b][i], chosen) = "none"
            /\ Selected(manifest[b][i], chosen) = {out[b][i].impl}
            /\ LinkWarning(manifest[b][i], out[b][i].impl) # "pin_mismatch"

\* "The lockfile is updated after successful resolution": the dao.lock found on
\* disk is the whole text of the last save, and that is what one build resolved in
\* full, never the part of one that failed; unless saves met, or the user broke
\* or deleted it.
WholeLocks ==
  /\ Whole
  /\ due # Absent /\ file # Absent => due \in published \cup {Broken}
=============================================================================
