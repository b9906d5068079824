------------------------------ MODULE PackStore ------------------------------
(***************************************************************************)
(* The content-addressed package store of crates/triet-pack/src/store.rs,  *)
(* one action per file-system step.  Installers put a pack's directories   *)
(* in place one after the other, each staged under tmp/ and renamed; the   *)
(* collector marks from the roots and sweeps directory by directory; any   *)
(* process may be killed between two steps.                                *)
(*                                                                         *)
(* A directory is named by the hash of what it holds, so a hash stands for *)
(* its content: a pack, a module or a term is a model value, and a         *)
(* directory is the set of its files that are there.                       *)
(***************************************************************************)
EXTENDS Naturals, Sequences, FiniteSets

CONSTANTS
  Packs, Mods, Terms,  \* hashes at the three levels of the store
  Parts,               \* pack -> the modules and terms of its manifest, in order
  NameOf,              \* pack -> the name and version it is linked under
  Installers,          \* threads that run install_pack
  Projects,            \* owners of roots/<project>.root
  Compiled,            \* the modules that get an entry in the AOT cache
  MaxCrashes,          \* BOUND on the number of kills
  MaxDamage,           \* BOUND on the faults: files damaged from outside, failing installs
  TornRemovals,        \* may the collector be killed within a remove_dir_all?
  Absent, Malformed    \* no such file or directory; a root file that does not parse

Dirs  == Packs \cup Mods \cup Terms
Names == {NameOf[p] : p \in Packs}

\* The directories install_pack puts in place, in the order in which it does.
Targets(p)    == <<p>> \o Parts[p]
DirsOf(p)     == {Targets(p)[k] : k \in DOMAIN Targets(p)}

\* The files of a directory, in the order in which they are written.
FileList(d) == IF d \in Packs THEN <<"pack", "manifest">>
               ELSE IF d \in Mods THEN <<"index">> ELSE <<"iface">>
Files(d)    == {FileList(d)[k] : k \in DOMAIN FileList(d)}

ASSUME StoreAssumption ==
  /\ \A p \in Packs : Parts[p] \in Seq(Mods \cup Terms)
  /\ Packs \cap Mods = {} /\ Packs \cap Terms = {} /\ Mods \cap Terms = {}
  /\ Absent \notin Dirs
  /\ Absent # Malformed
  /\ \A s \in SUBSET Packs : s \notin {Absent, Malformed}
  /\ \A s \in SUBSET {"pack", "manifest", "index", "iface"} : s # Absent
  /\ Compiled \subseteq Mods
  /\ TornRemovals \in BOOLEAN
  /\ MaxCrashes \in Nat /\ MaxDamage \in Nat

VARIABLES
  store,     \* directory -> the files in it, or Absent
  damaged,   \* packs whose manifest.bin on disk does not parse
  jit,       \* modules with an entry under jit/<triple>/
  links,     \* names/<pkg>/<semver>.link: name -> pack or Absent
  roots,     \* roots/<project>.root: project -> packs, Absent or Malformed
  orphans,   \* staging directories left in tmp/ by a killed process
  pc,        \* installer -> "idle", "check", "write" or "rename"
  job,       \* installer -> the pack it installs, or Absent
  at,        \* installer -> position in Targets(job)
  staged,    \* installer -> files written to its staging directory, or Absent
  gc,        \* "idle", or what the collector is sweeping
  live,      \* packs the collector marked
  kept,      \* modules and terms it marked
  careful,   \* did a marked pack have a manifest that does not parse?
  removing,  \* the directory a remove_dir_all is taking apart, or Absent
  failed,    \* did the last collection return an error?
  crashes,   \* kills so far
  gc_killed, \* was the collector ever among them?
  damages    \* faults so far

disk       == <<store, damaged, jit, links, roots, orphans>>
installing == <<pc, job, at, staged>>
collecting == <<gc, live, kept, careful, removing, failed>>
history    == <<crashes, gc_killed, damages>>
vars       == <<disk, installing, collecting, history>>

Sweeping == {"pkg", "mod", "term", "jit", "names", "tmp"}
Whole(d)    == store[d] = Files(d)
Complete(p) == \A d \in DirsOf(p) : Whole(d)

\* The packs some project references, as list_roots reads them.
Rooted == UNION {roots[j] : j \in {k \in Projects : roots[k] \notin {Absent, Malformed}}}

\* The caller's duty (gc: "caller should ensure exclusivity"; ADR-0015
\* section 8): nothing else touches the store while the collector runs.
Quiet == \A i \in Installers : pc[i] = "idle"

-----------------------------------------------------------------------------
Init ==
  /\ store = [d \in Dirs |-> Absent]
  /\ damaged = {} /\ jit = {}
  /\ links = [n \in Names |-> Absent]
  /\ roots = [j \in Projects |-> Absent]
  /\ orphans = 0
  /\ pc = [i \in Installers |-> "idle"]
  /\ job = [i \in Installers |-> Absent]
  /\ at = [i \in Installers |-> 1]
  /\ staged = [i \in Installers |-> Absent]
  /\ gc = "idle" /\ live = {} /\ kept = {} /\ careful = FALSE
  /\ removing = Absent /\ failed = FALSE
  /\ crashes = 0 /\ gc_killed = FALSE /\ damages = 0

-----------------------------------------------------------------------------
(* install_pack *)

Start(i, p) ==
  /\ gc = "idle"
  /\ pc[i] = "idle"
  /\ pc' = [pc EXCEPT ![i] = "check"]
  /\ job' = [job EXCEPT ![i] = p]
  /\ UNCHANGED <<disk, at, staged, collecting, history>>

Target(i) == Targets(job[i])[at[i]]
Advance(i) == at' = [at EXCEPT ![i] = @ + 1]

\* The call is over, and its locals with it.
Forget(i) ==
  /\ pc' = [pc EXCEPT ![i] = "idle"]
  /\ job' = [job EXCEPT ![i] = Absent]
  /\ at' = [at EXCEPT ![i] = 1]

\* Seeded defect: a pack that is there is taken to be there with its parts.
SkipRest(i) ==
  /\ pc[i] = "check"
  /\ at[i] \in DOMAIN Targets(job[i])
  /\ store[Target(i)] # Absent
  /\ at' = [at EXCEPT ![i] = IF Target(i) \in Packs THEN Len(Targets(job[i])) + 1 ELSE @ + 1]
  /\ UNCHANGED <<disk, pc, job, staged, collecting, history>>

\* The target directory exists: its hash is installed, go on to the next.
Skip(i) ==
  /\ pc[i] = "check"
  /\ at[i] \in DOMAIN Targets(job[i])
  /\ store[Target(i)] # Absent
  /\ Advance(i)
  /\ UNCHANGED <<disk, pc, job, staged, collecting, history>>

\* It does not: make a fresh staging directory.
Stage(i) ==
  /\ pc[i] = "check"
  /\ at[i] \in DOMAIN Targets(job[i])
  /\ store[Target(i)] = Absent
  /\ pc' = [pc EXCEPT ![i] = "write"]
  /\ staged' = [staged EXCEPT ![i] = {}]
  /\ UNCHANGED <<disk, job, at, collecting, history>>

\* write_file: create, write and sync the next file of the directory.
Write(i) ==
  /\ pc[i] = "write"
  /\ \E k \in DOMAIN FileList(Target(i)) :
       /\ staged[i] = {FileList(Target(i))[n] : n \in 1 .. (k - 1)}
       /\ staged' = [staged EXCEPT ![i] = @ \cup {FileList(Target(i))[k]}]
       /\ pc' = [pc EXCEPT ![i] = IF k = Len(FileList(Target(i))) THEN "rename" ELSE "write"]
  /\ UNCHANGED <<disk, job, at, collecting, history>>

\* rename puts the staged directory in place of nothing or of an empty one.  If
\* it fails, for whatever reason, and the target exists, the race is lost: the
\* staging directory is dropped and the install goes on as if it had won.
Rename(i) ==
  /\ pc[i] = "rename"
  /\ \/ /\ store[Target(i)] \in {Absent, {}}
        /\ store' = [store EXCEPT ![Target(i)] = staged[i]]
     \/ /\ store[Target(i)] # Absent
        /\ store' = store
  /\ staged' = [staged EXCEPT ![i] = Absent]
  /\ pc' = [pc EXCEPT ![i] = "check"]
  /\ Advance(i)
  /\ UNCHANGED <<damaged, jit, links, roots, orphans, job, collecting, history>>

\* Every directory is in place: link the name and return.
LinkName(i) ==
  /\ pc[i] = "check"
  /\ at[i] \notin DOMAIN Targets(job[i])
  /\ links' = [links EXCEPT ![NameOf[job[i]]] = job[i]]
  /\ Forget(i)
  /\ UNCHANGED <<store, damaged, jit, roots, orphans, staged, collecting, history>>

\* A directory cannot be made, a file not written, or the rename fails with
\* nothing at the target: what was staged is dropped, and install_pack returns
\* the error before it links the name.
InstallFails(i) ==
  /\ \/ pc[i] = "write"
     \/ /\ pc[i] \in {"check", "rename"}
        /\ at[i] \in DOMAIN Targets(job[i]) => store[Target(i)] = Absent
  /\ damages < MaxDamage
  /\ damages' = damages + 1
  /\ staged' = [staged EXCEPT ![i] = Absent]
  /\ Forget(i)
  /\ UNCHANGED <<disk, collecting, crashes, gc_killed>>

\* The process dies; what it staged stays in tmp/.
Kill(i) ==
  /\ pc[i] # "idle"
  /\ crashes < MaxCrashes
  /\ crashes' = crashes + 1
  /\ orphans' = IF staged[i] = Absent THEN orphans ELSE orphans + 1
  /\ staged' = [staged EXCEPT ![i] = Absent]
  /\ Forget(i)
  /\ UNCHANGED <<store, damaged, jit, links, roots, collecting, gc_killed, damages>>

-----------------------------------------------------------------------------
(* Roots, the AOT cache, and damage done from outside *)

\* add_root: the file is written aside and renamed, so it changes in one step.
AddRoot(j, packs) ==
  /\ gc = "idle"
  /\ roots' = [roots EXCEPT ![j] = packs]
  /\ UNCHANGED <<store, damaged, jit, links, orphans, installing, collecting, history>>

RemoveRoot(j) ==
  /\ gc = "idle"
  /\ roots' = [roots EXCEPT ![j] = Absent]
  /\ UNCHANGED <<store, damaged, jit, links, orphans, installing, collecting, history>>

\* install_aot_cache as a whole; it does not ask whether the module exists.
CacheModule(m) ==
  /\ gc = "idle"
  /\ jit' = jit \cup {m}
  /\ UNCHANGED <<store, damaged, links, roots, orphans, installing, collecting, history>>

\* A disk fault or a hand edit: a file is there but no longer parses.
DamageManifest(p) ==
  /\ damages < MaxDamage
  /\ gc = "idle" /\ Whole(p) /\ p \notin damaged
  /\ damaged' = damaged \cup {p}
  /\ damages' = damages + 1
  /\ UNCHANGED <<store, jit, links, roots, orphans, installing, collecting, crashes, gc_killed>>

DamageRoot(j) ==
  /\ damages < MaxDamage
  /\ gc = "idle" /\ roots[j] # Absent
  /\ roots' = [roots EXCEPT ![j] = Malformed]
  /\ damages' = damages + 1
  /\ UNCHANGED <<store, damaged, jit, links, orphans, installing, collecting, crashes, gc_killed>>

-----------------------------------------------------------------------------
(* gc *)

HasManifest(p) == store[p] # Absent /\ "manifest" \in store[p]

\* list_roots returns an error for a root that does not parse, and gc with it.
MarkFails ==
  /\ gc = "idle" /\ Quiet
  /\ \E j \in Projects : roots[j] = Malformed
  /\ failed' = TRUE
  /\ UNCHANGED <<disk, installing, gc, live, kept, careful, removing, history>>

\* Seeded defect: a manifest that does not parse is passed over.
MarkSilently ==
  /\ gc = "idle" /\ Quiet
  /\ \A j \in Projects : roots[j] # Malformed
  /\ live' = Rooted
  /\ kept' = UNION {DirsOf(p) \ {p} : p \in {q \in Rooted : HasManifest(q) /\ q \notin damaged}}
  /\ careful' = FALSE
  /\ failed' = FALSE
  /\ gc' = "pkg"
  /\ UNCHANGED <<disk, installing, removing, history>>

\* The mark phase: every rooted pack is live, and what its manifest lists is
\* kept; a pack that is not there lists nothing.
Mark ==
  /\ gc = "idle" /\ Quiet
  /\ \A j \in Projects : roots[j] # Malformed
  /\ live' = Rooted
  /\ kept' = UNION {DirsOf(p) \ {p} : p \in {q \in Rooted : HasManifest(q) /\ q \notin damaged}}
  /\ careful' = (\E p \in Rooted : HasManifest(p) /\ p \in damaged)
  /\ failed' = FALSE
  /\ gc' = "pkg"
  /\ UNCHANGED <<disk, installing, removing, history>>

\* What the current phase sweeps.
Doomed ==
  CASE gc = "pkg"  -> {p \in Packs : store[p] # Absent /\ p \notin live}
    [] gc = "mod"  -> {m \in Mods : store[m] # Absent /\ m \notin kept}
    [] gc = "term" -> {t \in Terms : store[t] # Absent /\ t \notin kept}
    [] OTHER       -> {}

\* remove_dir_all: the files of a doomed directory one by one ...
Unlink(d) ==
  /\ d \in Doomed
  /\ removing \in {Absent, d}
  /\ removing' = d
  /\ \E f \in store[d] : store' = [store EXCEPT ![d] = @ \ {f}]
  /\ UNCHANGED <<damaged, jit, links, roots, orphans, installing,
                 gc, live, kept, careful, failed, history>>

\* ... then the directory.
RmDir(d) ==
  /\ d \in Doomed
  /\ removing \in {Absent, d}
  /\ store[d] = {}
  /\ store' = [store EXCEPT ![d] = Absent]
  /\ damaged' = damaged \ {d}
  /\ removing' = Absent
  /\ UNCHANGED <<jit, links, roots, orphans, installing,
                 gc, live, kept, careful, failed, history>>

SweepJit(m) ==
  /\ gc = "jit"
  /\ m \in jit \ kept
  /\ jit' = jit \ {m}
  /\ UNCHANGED <<store, damaged, links, roots, orphans, installing, collecting, history>>

SweepLink(n) ==
  /\ gc = "names"
  /\ links[n] \notin live \cup {Absent}
  /\ links' = [links EXCEPT ![n] = Absent]
  /\ UNCHANGED <<store, damaged, jit, roots, orphans, installing, collecting, history>>

WipeTmp ==
  /\ gc = "tmp"
  /\ orphans > 0
  /\ orphans' = orphans - 1
  /\ UNCHANGED <<store, damaged, jit, links, roots, installing, collecting, history>>

\* The phase has nothing left to remove.
Swept == /\ Doomed = {}
         /\ gc = "jit" => jit \subseteq kept
         /\ gc = "names" => \A n \in Names : links[n] \in live \cup {Absent}
         /\ gc = "tmp" => orphans = 0

\* When the collection ends, what it marked is forgotten.
ForgetMarks ==
  IF gc' = "idle" THEN live' = {} /\ kept' = {} /\ careful' = FALSE
                  ELSE UNCHANGED <<live, kept, careful>>

\* Seeded defect: the careful mode skips the sweep of the name links too.
PhaseDoneNoNames ==
  /\ gc \in Sweeping /\ Swept
  /\ gc' = CASE gc = "pkg"   -> IF careful THEN "tmp" ELSE "mod"
             [] gc = "mod"   -> "term"
             [] gc = "term"  -> "jit"
             [] gc = "jit"   -> "names"
             [] gc = "names" -> "tmp"
             [] gc = "tmp"   -> "idle"
  /\ ForgetMarks
  /\ UNCHANGED <<disk, installing, removing, failed, history>>

\* Seeded defect: the cache of compiled modules is not swept.
PhaseDoneNoJit ==
  /\ gc \in Sweeping /\ Swept
  /\ gc' = CASE gc = "pkg"   -> IF careful THEN "names" ELSE "mod"
             [] gc = "mod"   -> "term"
             [] gc = "term"  -> "names"
             [] gc = "names" -> "tmp"
             [] gc = "tmp"   -> "idle"
  /\ ForgetMarks
  /\ UNCHANGED <<disk, installing, removing, failed, history>>

\* On to the next phase.  If a live pack's manifest did not parse, nothing
\* that it may reference is swept.
PhaseDone ==
  /\ gc \in Sweeping /\ Swept
  /\ gc' = CASE gc = "pkg"   -> IF careful THEN "names" ELSE "mod"
             [] gc = "mod"   -> "term"
             [] gc = "term"  -> "jit"
             [] gc = "jit"   -> "names"
             [] gc = "names" -> "tmp"
             [] gc = "tmp"   -> "idle"
  /\ ForgetMarks
  /\ UNCHANGED <<disk, installing, removing, failed, history>>

\* The collector dies.  BOUND: within a remove_dir_all only if TornRemovals.
KillCollector ==
  /\ gc # "idle"
  /\ TornRemovals \/ removing = Absent
  /\ crashes < MaxCrashes
  /\ crashes' = crashes + 1
  /\ gc_killed' = TRUE
  /\ gc' = "idle" /\ removing' = Absent
  /\ ForgetMarks
  /\ UNCHANGED <<disk, installing, failed, damages>>

-----------------------------------------------------------------------------
Install == \E i \in Installers :
  \/ \E p \in Packs : Start(i, p)
  \/ Skip(i) \/ Stage(i) \/ Write(i) \/ Rename(i) \/ LinkName(i)
  \/ InstallFails(i) \/ Kill(i)

Environment ==
  \/ \E j \in Projects : RemoveRoot(j) \/ DamageRoot(j) \/ \E s \in SUBSET Packs : AddRoot(j, s)
  \/ \E m \in Compiled : CacheModule(m)
  \/ \E p \in Packs : DamageManifest(p)

Collect ==
  \/ MarkFails \/ Mark \/ WipeTmp \/ PhaseDone \/ KillCollector
  \/ \E d \in Dirs : Unlink(d) \/ RmDir(d)
  \/ \E m \in Mods : SweepJit(m)
  \/ \E n \in Names : SweepLink(n)

Next == Install \/ Environment \/ Collect

Spec == Init /\ [][Next]_vars

-----------------------------------------------------------------------------
(* Properties *)

\* Types of the variables.
TypeOK ==
  /\ store \in [Dirs -> {Absent} \cup SUBSET {"pack", "manifest", "index", "iface"}]
  /\ damaged \subseteq Packs /\ jit \subseteq Mods
  /\ links \in [Names -> Packs \cup {Absent}]
  /\ roots \in [Projects -> {Absent, Malformed} \cup SUBSET Packs]
  /\ orphans \in Nat
  /\ pc \in [Installers -> {"idle", "check", "write", "rename"}]
  /\ job \in [Installers -> Packs \cup {Absent}]
  /\ at \in [Installers -> Nat \ {0}]
  /\ staged \in [Installers -> {Absent} \cup SUBSET {"pack", "manifest", "index", "iface"}]
  /\ gc \in Sweeping \cup {"idle"}
  /\ live \subseteq Packs /\ kept \subseteq Mods \cup Terms
  /\ removing \in Dirs \cup {Absent}
  /\ careful \in BOOLEAN /\ failed \in BOOLEAN /\ gc_killed \in BOOLEAN
  /\ crashes \in 0 .. MaxCrashes /\ damages \in 0 .. MaxDamage

\* A directory appears under its hash with all its files or not at all
\* (ADR-0015 section 8, "either a fully-written file or an absent one"),
\* whoever installs it and whoever dies meanwhile; only the collector's own
\* removal takes it apart.
WholeOrAbsent ==
  \A d \in Dirs : store[d] = Absent \/ Whole(d) \/ d = removing

\* install_pack returns Ok only if the pack and every module and term of its
\* manifest are in the store, whatever it skipped because it was there
\* already, lost races included: "skipped" must mean "installed".
ReturnsComplete ==
  \A i \in Installers :
    pc[i] = "check" /\ at[i] \notin DOMAIN Targets(job[i]) => Complete(job[i])

\* The collector takes nothing from a project: as long as a pack is rooted
\* and its manifest file is there, readable or not, the directories it needs
\* that are in the store stay in it.
RootedSurvive ==
  [][\A p \in Rooted : HasManifest(p) =>
       \A d \in DirsOf(p) : Whole(d) => Whole(d)']_vars

\* A name resolves to a pack that is all there, between collections, unless
\* a collection was cut short between sweeping packs and their links.
LinkedComplete ==
  gc = "idle" /\ ~gc_killed =>
    \A n \in Names : links[n] # Absent => Complete(links[n])

\* When a collection is about to return, nothing is left that no root
\* reaches: no pack, no link, no staging directory, and, unless a manifest
\* did not parse, no module, term or compiled module either.  Between the
\* collections only a process that was killed leaves a staging directory
\* behind: every way out of an install cleans up after itself.
CollectedAll ==
  /\ orphans <= crashes
  /\ gc = "tmp" /\ orphans = 0 =>
       /\ \A p \in Packs : store[p] # Absent => p \in Rooted
       /\ \A n \in Names : links[n] # Absent => links[n] \in Rooted
       /\ ~careful =>
            LET used == UNION {DirsOf(p) : p \in {q \in Rooted : Whole(q)}}
            IN /\ \A d \in Mods \cup Terms : store[d] # Absent => d \in used
               /\ jit \subseteq used
=============================================================================
