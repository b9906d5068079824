# Triet: verification project

TLA+ models of the parts of the Triet compiler, runtime and package store whose
correctness depends on the order of many steps, TLC configurations that check
them on small instances, and TLAPS proofs of what holds for every instance.
Paths are relative to `src/` (the repository).

## 1. The system

The driver (`crates/triet-driver/src/main.rs:43-127`) runs the passes of the
compiler one after the other and stops at the first that reports errors:

    source -> lexer -> parser -> typecheck -> lower -> MIR -> verify
           -> borrowck (liveness + checker) -> jit -> run

Beside it stand the module loader and name resolver (`triet-modules`), the
number and logic libraries (`triet-core`, `triet-logic`) and the package tools
(`triet-pack`: store, resolver, lockfile, policy, capability resolver, prompt).

| Component | State it keeps | Operations | What is hard about it | What makes it correct |
|---|---|---|---|---|
| MIR (`triet-mir`) | bodies: blocks of statements, a terminator each, types of locals | build, verify, read by the passes below | – | edges lead to blocks that exist |
| Liveness (`triet-borrowck/liveness.rs`) | `live_in`, `live_out`, a changed flag | `compute`, `is_live_after` | a fixpoint over cyclic graphs, updated in place | ends; equals liveness over paths; a loan is never dropped before the last read |
| Borrow checker (`triet-borrowck/checker.rs`) | worklist, entry and exit states of the blocks (owner states, moved paths, loans), errors | `check_body`: pop, merge, walk, queue | joins and loops; a block walked several times with different states; errors kept from early walks | reaches a fixpoint; an accepted program reads nothing moved, dangling or aliased |
| JIT and runtime (`triet-jit`) | heap objects of the program; the HashMap: capacity, length, slots | shims called by compiled code | probing, tombstones, growth, ownership of keys and values | a finite map; nothing leaks or is freed twice; every call returns |
| Package store (`triet-pack/store.rs`) | `pkg/ mod/ term/ jit/ names/ roots/ tmp/` on disk | `install_pack`, `link_name`, `add_root`, `remove_root`, `gc`, `install_aot_cache` | several processes, kills between two file-system calls, damaged files | a returned install is complete; what is rooted survives; a collection leaves no garbage |
| Resolver, lockfile, linker | lock entries in memory, `dao.lock` on disk | `resolve`, `find`, `upsert`, `save`, `load`, `plan_link` | the store changes between two reads of it; partial failure; builds that die | what is locked is used or reported; a lockfile is whole and what one build resolved in full, unless saves met; the linker decides as the resolver did |
| Policy, capability resolver, prompt | rules, decision cache, `dao.policy` on disk | `check_link_capabilities`, `resolve_deferrals`, `prompt`, `write_permanent`, `save` | a cached decision replayed for another origin; a lost update; a failed prompt | a capability is granted only by a rule or the user; what the user said stands |
| Module loader, cycle detector, name resolver | the stack of files being loaded, the modules, colours, bindings | `load_program`, `detect_cycles`, `resolve_names` | files that declare each other; several search directories; imports that read names still being bound | a file is loaded inside itself never; a cycle is reported iff there is one; nothing private leaves its module |
| Balanced ternary, Trilean | – | arithmetic, connectives | the ends of the range | the compiled operators agree with the libraries |
| Type checker | scopes; types of expressions | rules for expressions | refinement and nullability, rule by rule | a value is of the type the checker gave its expression |
| Lowering (`triet-lower`) | blocks, names, owned locals, scopes, loops | one function per construct | jumps out of nested scopes, values that outlive their scope | each heap object is freed once on every path |
| Lexer, parser, syntax, driver | – | pure functions, I/O | – | not modelled, see section 8 |

Liveness and the checker share the body and its graph: the checker asks
`is_live_after` at each position to decide which loans end. The lowering decides
which bodies the checker ever sees; the compiled program relies on its verdict,
and its heap objects, HashMap included, on the moves and drops in the body, which the
lowering places and the JIT carries out: `Drops` runs what `Lowering` emits. The
types of expressions decide how the JIT compiles an operator: `Scalars` types,
lowers and evaluates. The resolver and the linker read the store, which several
processes share through the file system alone; `dao.policy` and `dao.lock` are
files replaced as a whole in the same way (`SavedFile`).

## 2. Plan

Order of work, most important behaviour first; what is marked done is in this
directory.

1. **MIR, liveness, borrow checker** (done): the soundness of the language
   rests on them.
2. **Package store** (done but for `install_aot_cache`'s own steps): shared by
   processes that can die.
3. **HashMap of the runtime** (done) against an abstract map.
4. **Policy, resolver and lockfile** (done): decisions that are remembered in
   files several processes replace.
5. **Lowering and compiled code of heap values** (done for strings and records:
   scopes, branches, loops, jumps, returns, calls): who frees what.
6. **Loader, cycles, names** (done).
7. **Scalar types, operators and numbers** (done): types against values.
8. `AotCache`: the three file-system steps of `install_aot_cache` and the two of
   `atomic_write_file` with several writers and kills.
9. More of the lowering: fields and aggregates, outcomes, patterns, `for`, the
   String and Vector shims.

## 3. Modules

| Module | Models | Extends |
|---|---|---|
| `Mir` | bodies, places, types, reads and writes of a statement, edges of the graph | – |
| `LivePaths` | `is_live_after`, and the reference: liveness over the paths of the graph | `Mir` |
| `Liveness` | `LivenessResult::compute`, one action per block of a sweep | `LivePaths` |
| `Ownership` | `places_conflict`, `BlockState::merge`, `process_block` as an operator on states | `LivePaths` |
| `BorrowCheck` | the worklist of `check_body_with` | `Ownership` |
| `BorrowRun` | runs of the bodies the checker accepts: what its verdict promises | `BorrowCheck` |
| `PackStore` | `install_pack`, roots, links, `gc`, kills, damage | – |
| `HashMap` | the `__triet_hashmap_*` shims and their call sites, probe by probe | – |
| `AbstractMap` | a finite map whose operations are called and return | – |
| `SavedFile` | a file saved by writing a sibling of fixed name and renaming it, inode by inode | – |
| `Capabilities` | `check_link_capabilities`, `build_deferrals` | – |
| `Policy` | rules, `CapabilityResolver`, the prompt, `write_permanent`, several sessions | `Capabilities`, `SavedFile` |
| `Packages` | version ranges of the resolver and of the linker, `plan_link` | – |
| `Resolver` | `resolve` dependency by dependency, the lockfile, the store around them | `Packages`, `SavedFile` |
| `ModulePaths` | paths, search directories, expansion of `self` and `super` | – |
| `Modules` | loader, cycle detector, name resolution | `ModulePaths` |
| `Lowering` | the lowering context and the constructs that bind, move, nest, jump | – |
| `Drops` | the lowered function compiled and run: slots, heap, frees | `Lowering` |
| `Ternary` | the libraries' arithmetic and both logics | – |
| `Scalars` | scalar expressions: type rules, lowering, machine code | instance of `Ternary` |
| `MC*` | the instances TLC checks | the module they are named after |
| `RuntimeProofs` | TLAPS proofs about what compiled programs compute with | `HashMap`, `Scalars`, `TLAPS` |
| the other `*Proofs` | TLAPS proofs | the module they are named after, `TLAPS` |

### Liveness

`compute` (`liveness.rs:72-115`) repeats sweeps over all blocks until one
changes nothing. `next` is the block of the sweep, `changed` its flag, `done`
the return. `SweepBlock` recomputes one block in place: successors' entries are
read as they are now, which is why order matters. `EndSweep` starts the next
sweep or returns. A map entry that is absent is an empty set: the code reads
both the same way.

`LivePaths` says what liveness is without sets that grow: a local is live if
some path from here reads it before writing it. `ExactWhenDone` compares.

### Borrow checker

A state of a block (`BlockState`) is a record of owner states, moved field
paths and loans. `Ownership` translates `merge` and `process_block` to operators
from state to state and errors, statement by statement in the order of the
code: the checks of the sources, the checks and effects of the statement, then
the end of the loans whose reference is dead (`EndLoans`, which asks
`IsLiveAfter`). Errors keep their code, not their wording; the local a diagnostic
names is dropped.

`BorrowCheck` has the entry block walked first (`WalkEntry`), blocks popped and
either skipped because the merged state is the stored one (`SkipBlock`) or
walked (`WalkBlock`), and successors queued one at a time (`QueueSuccessor`).
Liveness is taken as computed (`LivenessProofs` and the run `liveness` are about
that). The call's result local counts as `Owned`, whatever it was.

`BorrowRun` is the yardstick, not a translation: it executes an accepted body
along every path and keeps for each local whether its value is here, and for
each reference the place it points to and whether something happened to that
place ("ended", "moved", "mutated", "aliased", "passed", "field"). It knows no
loans. An accepted body must never read what is gone. A local written as a whole
forgets what it pointed to. References to objects lent by the caller of the
function, references kept in fields and the results of strong borrows (which own
what they point to) are not followed. Definite initialisation is
the type checker's and the lowering's; field stores are refused by the parser
(E0007), so no body has one.

`Traceable` and `RefsKept` say of which bodies the checker can know where
references lead. It goes through a reference by way of the first loan that fits,
and so must find the same place by whichever it takes (`BorrowTraced` for a
borrow through a reference, `CallTraced` for the arguments of a call); and it
lets go of a reference's loan at its drop, so no path may read the reference
after that.

The shapes of body the checker misjudges have runs, configurations and findings of
their own (sections 4 and 7); `NoUseAfterMove`, `NoDanglingRead` and `NoAliasedRead` are
about the blocks the checker did walk (`Vetted`), and `borrow_check` leaves out
the shapes of `borrow_join`.

### Package store

One action per file-system step: a target directory is checked (`Skip`, `Stage`),
written file by file (`Write`), renamed (`Rename`: the loser of a race removes
its staging directory, as does whoever's rename fails otherwise while the target
is there), and the pack linked (`LinkName`). `InstallFails` is every I/O error on
the way: what was staged is dropped and the error returned. The collector marks in
one step (`Mark`; it runs alone) and then unlinks file by file (`Unlink`,
`RmDir`), phase by phase. `Kill` and `KillCollector` end a process between two
steps; `DamageManifest` and `DamageRoot` are the outside world. A hash stands for
its content. The order of `read_dir` is any order.

What the model takes as given, as the code's documentation does: no installer
runs while the collector does (`store.rs:415`, ADR-0015 section 8); no lock
provides it. There is one target triple; `install_aot_cache` is one step.

### HashMap

A slot is `Empty`, a key or `Tomb` (state bytes 0, 1, 2). A call from the
program (`CallInsert`, `CallLookup`, `CallDrain`) puts `probe` at the key's home;
`Probe` goes on to the next slot; a hit or an empty slot ends the operation.
An insert into a table three quarters full first moves the entries, one action
per slot of the old buffer, to a table of twice the size. What the compiled call
sites do is part of the actions: freeing the redundant key after an update and
the resident key after a removal. `DropMap` is the drop glue. `key_live` counts
allocations per key content, `held` the values.

`get` stands for `get`, `get_ref` and `get_copy`, which search alike. The bytes
left in a slot that is not occupied are `Null`: no code reads them. The value
that equals the null sentinel, for which `insert` aborts, is never inserted, and
memory does not run out.

Seen from outside, a table is the function `Content`: what is in the slots and,
during a rehash, what waits in the old buffer. `ImplementsMap` is
`AbstractMap`'s specification under that mapping: each operation takes effect in
its last step, and probing, growing and the turns of the rehash are stutters.

### Saved files

`SavedFile` keeps names and inodes apart, because a process that holds an open
file goes on writing to it after someone else has renamed it: that is how a
fixed temporary name goes wrong. `OpenTmp` creates or truncates the sibling,
`WriteTmp` writes it, `RenameTmp` moves what the name refers to *by then*. A text
written over another's is taken either to replace it or not to parse.
`Policy` and `Resolver` extend it with `Savers` as their processes.

The code has no lock on these files, and the models have none: any number of
processes save at once. Two saves that meet can publish half a text and lose an
update; that is refuted by configurations of their own (`NeverHalfWritten` and
`SavesOneRule`, section 4) and not excluded from the runs. What the runs check is
what is left of "atomically" (`policy.rs:512`, `lockfile.rs:259`). Two histories
say it: `lone` is the saver that has met no other save and no edit by hand since
it began (`StartSave`, `EndSave`), `due` the text last meant for the file, or
`Absent` if savers met. `Whole` then says that a save alone publishes its own text
and that nothing else changes what the file says: not a save that failed or was
killed before, in whose leftover sibling it writes, nor one that began since.

### Policy

A session is a process: it reads `dao.policy` once (`Boot`), has the link check
pass, resolves the deferrals of its packages and then what its program requests.
`CacheHit`, `Decide`, `NoTerminal` and `Ask` are the outcomes of
`CapabilityResolver::resolve` in the code's order: cache, rule, default, prompt.
A permanent answer goes through `LoadPolicy`, `OpenPolicy`, `WritePolicy` and
`RenamePolicy`, and every failure on the way turns it into an answer for the
session. `End` is exit and kill alike; `Edit` is the user's editor. `told` and
`said` are histories: what `resolve` returned and what the user answered.

Two sessions may save at once, from `LoadPolicy` to `RenamePolicy`. `latest` is the
history of the permanent answers whose saves met no other; `Remembered` says that
the file still has them, and `PublishedWhole` is `Whole` above. What two saves that
meet do break is `SavesOneRule` (the update of one is lost) and `NeverHalfWritten`,
which `PolicyRace.cfg` refutes. `OneAnswer` demands that the decision taken for one
origin is replayed for another, as the doc of `resolve` does
(`capability_resolver.rs:252`).

### Resolver, lockfile and linker

A build loads `dao.lock` (`Begin`), resolves one dependency per step
(`ResolveLocked`, or `Choose` among the links and, one read of the store later,
`Record`), and saves the lockfile only if all resolved (`Finish`, `OpenLock`,
`WriteLock`, `RenameLock`). Each error has an action that ends the build:
`LockedMissing` (E2381), `NoChoice` (E2380, E2382), `RecordFails`, `SaveFails`.
Between any two steps packs are installed, collected, damaged and relinked
(`MaxChanges`), and `dao.lock` is deleted or left broken by hand (`DeleteLock`,
`BreakLock`). Several builds run at once. `Choose` is one step although the code
lists the versions first and then reads the manifest of each (`resolver.rs:200`).
`Packages` has the linker's `classify_version` and `plan_link` as
operators, which `LinkerAgrees` confronts with what a build has resolved.

### Modules

A load is one sequential call in three phases; every declaration of every file
is a step. `frames` is the recursion of `process_items`, `loading` the set that
guards it, and the search chain of a module says where its children are looked
for. The import graph is searched edge by edge with the colours of `cycle.rs`
(`StartSearch`, `Descend`, `BackEdge`, `Explored`, `Leave`); then imports bind one
name after the other (`Import`). An error of the first two phases ends the load
before the third. Texts are sequences of declarations.

### Lowering and drops

A behaviour of `Drops` chooses a program while it lowers it: each step of
`Lowering` lowers one construct the type checker admits there (`let`, assignment,
use, call, `if`, `while`, `loop`, block, `?:`, `break`, `continue`, `return`) and
changes the context as the code does: blocks, owned locals, scope snapshots,
names, loop targets. Then `Compile` and one step per block run the MIR with every
outcome of the conditions, each object of the heap with an identity: what a slot
holds, what the borrow checker takes for initialised, what was freed and what
was overwritten. The entry zeroes the slots of strings only; the slot of a record
starts with any word (`Compile`), so that a drop of one never filled is a free of
what is not there.

The plain instance leaves out four forms (`Forms`) with which the code is known
to go wrong: a shadowed name, a default that calls on a literal, `x = x`, a
record as the value of a block (section 7). No construct follows a jump in its
own block: the code lowers it into blocks nothing leads to.

### Scalars

An expression is built bottom-up on a stack; an entry has the type the checker
gave it, whether lowering made its local nullable, and the word it evaluates to
(or `Trap`). `Typed`, `ResultType`, `Matches` and `Unified` are the checker's
rules; `Execute` is the machine code of an operator, the 64-bit wrap-around of
the carrier included; `PowLoop` is a turn of `__triet_pow`. `Ternary` is what
`triet-core` and `triet-logic` define, written from their source separately, and
`AgreesWithCore` compares. Tryte, Integer and Long differ in their range.

## 4. Runs

| Run | Instance | Result | What it shows |
|---|---|---|---|
| `liveness` | 1250 bodies on 5 graphs | holds, 22 135 states | the sweeps end and give exactly path liveness; `is_live_after` misses no read |
| `borrow_check` | 2640 bodies: diamonds, loops, calls | holds, 36 122 states | fixpoint, errors kept, the verdict is that of the final states; accepted bodies read nothing that is gone |
| `borrow_skip` | functions without parameters that start with a loop | violated | reachable blocks are never walked |
| `pack_store` | 2 packs sharing parts, 2 installers, 1 project, 2 kills, 1 fault | holds, 1 726 903 states | complete installs, complete links, nothing rooted lost, no garbage and no staging left |
| `hash_map` | 4 keys, 2 values, tables of 4 and 8 slots | holds, 805 675 states | the table implements a map; keys freed once; a call returns if there is an empty slot |
| `hash_map_full` | the same | violated | a call on a table without an empty slot never returns |
| `policy` | 2 sessions, 1 path, 2 packages, 4 trees, 3 policies, 2 permanent answers | holds, 1 183 103 states | one answer per question; no grant without a rule or the user; the user's word stands; answers and texts of saves that met no other stay |
| `resolve` | 2 builds at once, 3 in all, 3 manifests, 4 packs of 2 packages, 3 changes of the store or of `dao.lock` | holds, 853 505 states | what is locked is used or reported; resolutions fit and describe one pack; the linker agrees; a lockfile whose saver met no other is whole |
| `modules` | 17 roots, 3 files that may be absent, of 7 or 4 texts | holds, 148 931 states | no file inside itself; cycles exactly; nothing private leaves; bindings independent of order; the load ends |
| `drops` | every program of 3 constructs over 2 variables, strings and records | holds, 1 565 570 states | each object freed once on every path, nothing read after that, nothing left behind |
| `drops_default` | programs of 2 constructs with a `?:` default that calls on a literal | violated | the default's temporary is freed again on the path without it |
| `scalars` | every expression of 2 operands, or a branch of 3 | holds, 65 642 states | types are sound; operators agree with the libraries; powers exact; overflow variants right |

Further configurations show what the findings of section 7 say without a run of
their own in PROJECT.json; each is violated when run with
`tlc -config X.cfg` on the module named:

| Configuration | Module | Violated |
|---|---|---|
| `BorrowPass.cfg` | `MCBorrow` | `NoReadAfterPass`; with that invariant named instead, `NoReadAfterFieldMove` |
| `BorrowJoin.cfg` | `MCBorrow` | `NoDanglingRead`; also with `Bodies <- TailBodies` and with `Bodies <- CopyBodies` |
| `PackTorn.cfg` | `MCPackStore` | `ReturnsComplete` |
| `HashLeak.cfg` | `MCHashMap` | `ValuesOwned` |
| `PolicyRace.cfg` | `MCPolicy` | `NeverHalfWritten`; with `PROPERTY SavesOneRule` named instead, that |
| `MCResolver.cfg` with that invariant instead | `MCResolver` | `NeverHalfWritten` |
| `ModulesPrivate.cfg` | `MCModules` | `NoPrivateImport` |
| `NamesShadow.cfg` | `MCDrops` | `NamesLexical` |
| `ScalarsNarrow.cfg` | `MCScalars` | `TryteInRange` |

`BorrowFollow.cfg` of `MCBorrow` holds (38 596 states): of all bodies of these
configurations, those that are `Traceable` and `RefsKept` read nothing that dangles
or is an alias, and the accepted bodies of `borrow_check` are both.

Bounds, and why they are enough to see the interesting cases:

- *Bodies*: four blocks give a join, a loop with code in header and body, a
  nested loop with a shared header and an unreachable block; three or seven
  locals give an owner, a field of it, a second owner, two references and a
  scalar. Each block is filled from a menu of the statement sequences the
  lowering emits.
- *Store*: two installers and two packs that share a module give every race for
  a directory; `MaxCrashes` = 2 kills an installer and the collector, or the
  collector twice; `MaxDamage` = 1 damages one manifest or root, or makes one
  install fail. Installers and
  parts are symmetric; the run has no liveness property.
- *HashMap*: four keys exceed the first table (three entries of four slots), so
  it grows; two keys share a home at both capacities, a third only in the small
  table; the fourth has a negative hash and sits in the last slot, so probes
  wrap round. Only one key gets a second value (`Inserts`). The body of a drain
  loop neither inserts into the map nor drains it again. `MaxHeld` bounds the
  heap values handed over in `HashLeak.cfg`.
- *Policy*: two sessions give every race for the file and for the cache; two
  permanent answers (`MaxAnswers`) are two saves that meet, or one after another;
  one edit by hand lets a policy that no longer parses meet an answer on its way.
  The trees are two the root defers in or leaves to a package (`asks` is what
  their programs request), one it refuses in and one without a claim of the
  root's.
- *Resolver*: versions 10 and 11 with ranges that end on them reach both ends of
  a range; of three packs of one name two share an interface and two a version.
  Three changes suffice to install, collect or relink a pack under a build; two
  builds at once meet at the sibling, and the third (`MaxBuilds` = 3) loads what
  they left.
- *Modules*: `a.tri`, `b.tri` and `a/b.tri` let `b` be found in two directories,
  and each text declares or imports the other modules; a longer cycle differs
  from a short one in the number of colours only.
- *Drops*: three constructs nested three deep, in a loop or not, put a jump or a
  return inside a scope inside a branch or a loop; four objects are more than a
  path of such a program holds at a time, and a path that needs a fifth stops.
  A wider instance (four constructs, strings only, 13.5 million states) also
  held.
- *Scalars*: `Max` = 13 (three trits), `TryteMax` = 4, words of seven bits
  (`Bound` = 64), so that the product of two Integers (169) overflows the carrier
  and wraps back into range, as in 27 trits and 64 bits. Long literals are 40 and
  63. Two operands show an operator; a third is the last arm of an `if`.

`CHECK_DEADLOCK FALSE` appears where the system stops: an analysis that has
returned, a run that has ended. Every property of a passing run is violated by a
seeded defect of the mapped definition (`mutants` in PROJECT.json); the defects
stand above the definitions they replace, marked "Seeded defect".
`CHECK_DEADLOCK FALSE` of `scalars` is for expressions whose arms have no common
type: the compiler rejects them.

## 5. Fairness

`Liveness!FairSpec`, `BorrowRun!RunSpec`, `HashMap!FairSpec` and `Modules!Spec`
have weak fairness on the steps of a loop or a recursion that a single thread
executes: nothing in the code can suspend it. The program that calls the HashMap is under no obligation
to call anything (fairness is on `Work`, not on `Client`). The
specifications of the store, the policy and the resolver have no fairness: their
processes may stop at any point. A program of `Drops` need not end.

## 6. Proofs

All theorems hold for every value of the constants under the named assumptions
of the modules: `BodiesAssumption` (an entry block, edges that lead to blocks,
statements in a row) and `FieldTypeAssumption` of `Mir`, `EntryAssumption` of
`BorrowCheck` (no edge leads back to the entry block, which the lowering
guarantees), `StorageAssumption` of `BorrowRun` (below), `StoreAssumption` of
`PackStore`, `MapAssumption` of `HashMap`, `SavedFileAssumption`,
`PolicyAssumption`, `PackagesAssumption`, `ResolverAssumption` (a manifest names a
dependency once, which its parser guarantees), `ProjectsAssumption` of `Modules`
(what the parser makes of a declaration: a use has a path, and names are
identifiers, so no file declares a child called `self` or `super`),
`LoweringAssumption`, `ObjectsAssumption` of `Drops` (addresses are not zero) and
`RangesFit` and `AllTritsSet` of `Scalars` (twice Integer's range fits the word;
Integer's largest number has all its trits set).

- **LivenessProofs.** `Inductive` is `Shape` and four parts: the sets of each
  block are contained in what the equations give from the current sets
  (`AtMost`), so that a visit only grows them, which is `SetsOnlyGrow`; while
  `changed` is down, every block the sweep has passed is solved (`SolvedSoFar`),
  so that all are when it ends (`EndedSolved`); and the sets lie below every
  solution (`Least`). On return they are therefore the least one
  (`ReturnsLeastSolution`). Liveness over paths is a solution, and it lies below
  every other: follow a path that reads a local from its end back to its start.
  So the sets returned are exactly the locals some path reads first
  (`ExactLiveness`).
- **BorrowCheckProofs.** `Inductive` says that the entry block is never queued
  (`EntryNotQueued`), that its successors wait at first (`QueuedFirst`), that every
  other block is waiting, in the queue or among the successors being pushed, or has
  the merge of its predecessors as its stored entry state (`Settled`), and that the
  stored exit of a block walked, and the errors it adds, are those of walking that
  entry state (`WalkedLast`). With nothing waiting that is `ReachesFixpoint` and
  `LosesNoError`; `QueuesOnce` is a separate invariant that needs only the types.
  `AcceptedReadsNothingMoved` is the soundness of moves: what an accepted body
  reads, on any path, was not moved away before. The invariant (`RunInv`) has the
  run and the checker's state at the same position agree (`Agrees`): a local
  that is gone was taken since it was last renewed and is `Moved` for the checker,
  or its storage may have ended; a part that is gone is among the moved paths. A
  statement the checker says nothing about keeps that, and what it reads is
  there, or it would be E2420 (`OverlapFound`); along an edge the merge of the
  predecessors keeps it (`MergeCarries`), since with nothing waiting each block
  was walked from that merge, and an accepted body has no error in a block
  walked. It says so for the bodies of which every reachable block was walked
  (`Vetted`); `borrow_skip` shows that the checker does not always do so.
  `StorageAssumption` is what the theorem needs of the lowering:
  names lead to locals (the verifier's `check_local`,
  `triet-mir/src/lib.rs:2353`), a call returns to one block (`lib.rs:843`), no
  local is read whose storage has ended (the lowering emits no `StorageDead`), and a
  part of a value is filled only while the rest is there. Without the last the
  theorem is false: the checker marks the whole local `Owned` when one of its
  fields is assigned. It holds because the parser admits only names as targets
  (`triet-parser/src/stmt.rs:290`) and the lowering fills fields only of what it
  has just laid out (`triet-lower/src/lib.rs:680`, 1925, 5234); a reference has no
  parts to fill.
  `FollowedReferencesNeverDangle` and `MutableReferencesAreExclusive` are the
  soundness of borrows, for the bodies that are `Traceable` and `RefsKept` (and
  `Vetted`). Both hypotheses speak of the checker's final states alone, not of a
  run, and neither can be left out: `TailBodies` keeps the first and not the
  second, `JoinBodies` and `CopyBodies` the second and not the first, and all
  three have accepted bodies that dangle. The invariant (`RefsFollowed`) says that
  a reference some path still reads is covered (`Tracked`): the checker holds a
  loan of the place it points to, or of a place around it, in the form the
  reference was made with. A statement that would end, move or change that place
  meets the loan and is refused, since the loan is kept while the reference is
  live; one that makes a second reference to it is either refused, or both are
  shared. What the checker asks of liveness (`IsLiveAfter`) is more than what paths
  read; that liveness goes over edges is cited from `LivenessProofs`, which
  `BorrowCheckProofs` takes as an instance. A merge keeps the loans of all its
  predecessors, so the covering survives joins and loops. That accepted bodies do
  meet the hypotheses, `BorrowFollow.cfg` shows for those of `borrow_check`.
- **PackStoreProofs.** `InstallsReturnComplete`: a directory that exists is whole
  unless it is being removed, only the collector removes, and it excludes
  installers; so the targets an installer has passed stay whole until it returns.
  It needs `~TornRemovals`, and `PackTorn.cfg` shows why. `RootedPacksSurvive`: the
  marks cover what the roots reach, or the collector is careful; it needs no
  such hypothesis. `LinkedPacksComplete` and `CollectionLeavesNothing` add what a
  collection has done so far: what the phases that are over have swept stays swept
  (`SweptSoFar`), what is kept a whole rooted pack needs (`KeptUsed`), and a link
  the collector is to keep leads to a whole pack (`LinksWhole`).
- **RuntimeProofs**, hash maps. `IInv` adds to the types what a search knows: no slot it
  passed is empty or holds its key (`Searched`), so at an empty slot the key is
  nowhere (`SearchEnds`), and placing it there neither duplicates it
  (`NoKeyTwice`) nor cuts it off from its home (`EntriesFindable`). Keys waiting
  in the old buffer are distinct from each other and from those already moved.
  Nothing is left behind a drain cursor. `TableIsAMap` proves the refinement of
  `AbstractMap`: the content follows the table (`Tracks`), so each step
  changes it as the map's operation does, or not at all. `OneAllocationEach`
  counts: an allocation of a key is behind an entry or on its way into an insert,
  an entry is in the table or still to be moved (`Accounted`), and since no key is
  twice in the table a removal or the end of the map frees each once.
- **PolicyProofs.** Answers returned at different times agree because every
  answer returned, and every answer of the user not still on its way to the file,
  is the cached one (`ToldCached`, `SaidCached`), and a question is put only
  while its entry is empty (`QuestionOpen`). A second invariant, `FileInv`, is
  about the file, for any number of sessions that save at once. While a save has
  met no other (`lone`) nobody else is saving and what it is about to publish is
  the file as it stands with one answer changed (`LoneSave`; there is always an
  inode to write it to, `NewInodeFree`, a pigeonhole argument over names and open
  files). Once a save has been published that way, nobody holds the file's inode
  open (`Settled`, `Answered`): whoever began later writes to the sibling, and
  whoever wrote then would have been met. So `SpecPublishedWhole` and
  `SpecRemembered`. A third, `RootInv`, keeps what is left to resolve, being asked
  and granted within the tree's deferrals: `SpecRootDecides`.
- **ResolverProofs.** An entry of any text that parses says of its pack what the
  pack's manifest says (`FilesHonest`), although links and installed packs change under the
  builds (`LinksHonest`); what a build has in memory is its first lockfile with
  the entries of the dependencies before `out`'s end replaced (`BuildInv`). From
  that follow three properties of the run; `SpecLinkerAgrees` also needs that the two
  range tests are the same function. `SpecWholeLocks` has an invariant of its own
  (`FileInv`), the one of the policy file with the builds' lockfiles in the place of
  policies: what a build that met no other is about to publish is among what
  builds resolved in full.
- **ModulesProofs.** One invariant per phase. `LoaderInv`: the modules are a tree
  whose paths grow by one name (`Tree`), the frames are the chain of texts being
  read (`Stack`, `Nested`), and each external declaration already read has its
  child, is what the frame above reads, or leads back to a file being loaded
  (`Accounted`); with no frame left that is `DeclaredAreLoaded`. `SearchInv`: the
  trail is a path of gray modules, an edge explored leads to a black module or to
  the next of the trail, and while no cycle is reported the black modules are
  closed under imports and no path leads from one of them back to it; so
  `CyclesFound` holds in both directions. `NamesInv`: what a scope binds is its own or what an
  import taken resolves to, and each import taken is bound or reported; so
  `BindingsDeclared` and `PrivateStaysHome`. `TypeCorrect` adds that error codes
  are those the phases report (`Coded`).
- **RuntimeProofs**, scalars. `Stacked` says of every operand that its word is null
  only under a nullable type and otherwise in what its type admits; the rules
  preserve it one lemma per operator family. That is why quotients need no range
  check (`QuotientFacts`), and from it `Execute` and `Arithmetic` or `Connective`
  agree on all operands that occur.
  *Powers.* `PowerInv` says of a running `__triet_pow` that the power wanted is the
  result so far times a power of the factor it has come to (`PowerKept`); a turn of
  the loop keeps that (`TurnKeepsPower`), and when a product leaves the range, so
  does the power: the factors left are not zero, so no later one brings it back
  (`TurnOverflows`). Hence the early abort is the abort of multiplying out.
  *Overflow.* A range of all trits is as wide as a weight, and that weight is a
  multiple of each lower trit's (`WeightDivides`), so wrapping by it leaves the low
  trits as they are (`SameTrits`, `WrappedFacts`).
  The provers here have no induction rule for a formula, but the standard theorem
  that a well-founded order has least elements gives one for sets of numbers:
  `AllNaturals`. With it `Iterates` builds the sequence a step repeated from a start
  yields, which shows that the recursive functions `Weight`, `MultipliedOut` and
  `Powers` solve their equations.
- **DropsProofs.** Memory safety of what is compiled, for programs of any length
  and nesting and any number of objects (the run has three constructs). The
  theorems assume `Forms = {}`: with the four special forms they are false, as
  section 7 says.
  *Running.* What is known of a local at a point of a body is one of five things
  (`Statuses`): its slot is zero; it is held, that is zero or the address of a
  live object no other slot has; it is stale; held or stale; or a record just
  moved, whose address another slot has too. `Step` says which statements may
  come where, and what is known after them: a drop or a move only of what is held,
  a deinit only of what owns nothing. A body is `Complete` if what is known at the
  start of its blocks solves these equations along all edges, and at a return
  nothing but the value returned is held. Then no step of a run leaves what is
  known (`ExecuteFine`, `StopFine`), which is why nothing is freed twice, nothing
  freed is read and nothing is left behind.
  *Lowering.* That lowering yields such a body is shown construct by construct.
  `Books` relates the four stacks the context keeps to the constructs that are
  open: the scopes own different locals, the loop targets are those of the open
  loops, the names are those bound around, each construct waits for blocks of its
  own. `Lowered` adds that there is a solution so far in which, at the current
  block, exactly the owned locals are held, and where a construct ends, exactly
  those around it. Opening a construct extends the solution to the blocks it
  makes; a `break`, a `continue`, a `return` and the end of a scope drop what the
  target does not own, no more and no less; what follows a jump is a block nothing
  leads to, where anything may be known. At the end, counting edges, the blocks
  control can reach are those whose terminator is set (`DropsTypes`).
  `DropsInv` joins the two: a body is well lowered so far (`Going`) and has not
  started, or it is complete and its memory is as known (`BodyRuns`).

Model-checked only:

- termination (`Converges`, `ReturnsIfRoom`, `Terminates`), since liveness under
  fairness is out of the prover's reach;
- `VerdictIsFinal`: true of the bodies of `borrow_check`, false for arbitrary
  ones. A borrow through a reference is anchored on the reference itself while the
  reference has no loan, and on what it borrows once it has one, so a larger
  state may report less: a loop that reborrows through a parameter, then borrows
  the parameter mutably and at its end assigns it another reference is refused
  with E2440 on the first walk, and its final states report nothing;
- `NoDanglingRead` and `NoAliasedRead` without hypotheses: false for arbitrary
  bodies (`BorrowJoin.cfg`), true for those of `borrow_check`;
- `Drops` with one of the four forms, which is refuted.

## 7. Findings

Where the code does not do what the repository says of it. The first three have
runs in PROJECT.json, which quotes the line contradicted; the others are shown by
the configurations listed in section 4, or by reading.

| Shown by | Code | What |
|---|---|---|
| `borrow_skip` | `triet-borrowck/src/checker.rs:571` | a block whose merged state equals the default stored for every block is skipped, although it was never walked |
| `hash_map_full` | `triet-jit/src/mir_lower.rs:6976` | tombstones are neither counted nor reused; probing a full table does not end |
| `drops_default` | `triet-lower/src/lib.rs:4779` | the default of a `?:` has no scope of its own: its temporaries are dropped on the path that never made them, in a loop a second time |
| `BorrowPass.cfg` | `triet-borrowck/src/checker.rs:1352` | arguments are moved without a look at the loans: an owner is passed on while a reference to it is live |
| `BorrowPass.cfg`, the other invariant | `triet-borrowck/src/checker.rs:838` | a field is moved without a look at the loans |
| `BorrowJoin.cfg` | `triet-borrowck/src/checker.rs:710` | the first of several loans stands for all: a reference with two possible owners dangles |
| `BorrowJoin.cfg` with `TailBodies` | `triet-lower/src/lib.rs:2306` | a named reference at the tail of a block (`let q = { let w = ..; let r = &0 w; r }`), or returned, dangles unnoticed: `push_owned` registers it like an owner, `pop_scope` drops references first (lib.rs:638-646), and the checker forgets a loan at the drop of its reference; the comment at lib.rs:4595 says a reference is not dropped by `pop_scope`, and ADR-0063 section 3 that such a read is always E2450 |
| `BorrowJoin.cfg` with `CopyBodies` | `triet-borrowck/src/checker.rs:1256` | the result of a shim given a reference that was itself copied or returned is anchored on that reference, not on the place behind it, which is then free to go |
| `PackTorn.cfg` | `triet-pack/src/store.rs:157` | a directory that exists counts as complete, also when a kill inside `remove_dir_all` left part of it |
| `HashLeak.cfg` | `triet-jit/src/mir_lower.rs:6928` | an update overwrites a value that owns memory |
| `PolicyRace.cfg` | `triet-pack/src/policy.rs:525`, `lockfile.rs:272` | two processes that save at once share one temporary file: what is still being written is published, although the docs (`policy.rs:512`, `lockfile.rs:259`) say "atomically" |
| `PolicyRace.cfg` with `SavesOneRule` | `triet-pack/src/tty_prompt.rs:497` | load-modify-save without a lock: of two permanent answers saved at once one is lost |
| `ModulesPrivate.cfg` | `triet-modules/src/resolver.rs:246` | a module imported as a whole is bound as the item of its own name inside it, which may be private; the comment at `resolver.rs:17` excludes that |
| `NamesShadow.cfg` | `triet-lower/src/lib.rs:2304` | names live in one map for the function: after a block that shadows a name, the outer one denotes the inner local, against SPEC.md:722 |
| `ScalarsNarrow.cfg` | `triet-jit/src/mir_lower.rs:5435` | Tryte arithmetic is checked against Integer's range, against SPEC.md:282 and 542 |

Smaller divergences, seen while translating and followed by the models:

- The doc of `is_live_after` (`liveness.rs:119-121`) excludes locals of
  `live_out` that the rest of the block overwrites; the code counts them as live,
  which only makes loans longer.
- One malformed root aborts a collection (`store.rs:431`, `MarkFails`), although
  the doc at 419-421 says it is skipped.
- `triet-pack/src/types.rs:209-211` says the linker refuses a pinned interface
  that differs; the linker warns.
- Imports that start with `super` or `self` are no edges of the import graph, so
  cycles through them are not reported (`docs/decisions/0005-module-system.md:100`
  and 184 forbid all); `CyclesFound` is about the edges the detector builds.
- A `module` declaration that leads back to a file being loaded is dropped without
  an error, though `loader.rs:79` says "The cycle is still reported".
- Child modules are imported without a visibility check. Of two modules of one
  path the cycle index takes the last and the resolver the first. A declaration
  `module foo` beside `use khi::foo` is reported as a duplicate (E2108).
- Assignment does not free the value it overwrites, nor do `while` conditions
  their temporaries or calls a result nobody binds (`AllFreed` says so of what is
  overwritten). A record that is the value of a block is not tombstoned, though
  `triet-lower/src/lib.rs:4594-4595` says it is; `x = x` on a String zeroes the only
  copy (`lib.rs:2403-2406`). Both are in `Forms`.
- `unknown == unknown` compares words and yields True (SPEC.md:679 says Unknown);
  equality on `T?` likewise does not propagate Unknown (ADR-0021:101).
- SPEC.md:552 says negation always succeeds; `-x` is lowered as `0 - x` with the
  range check, which never fires because the range is symmetric. Sums of two
  Longs may wrap without a trap (the comment at `mir_lower.rs:5434` knows).
- Division truncates, as `integer.rs:182-185` admits, where SPEC 3.2 says
  nearest; Trit + Trit is admitted where SPEC 3.3 excludes it.
- `if` takes the MIR type of its first arm, so `?:` and `!!` on an `if` whose
  second arm only is nullable are refused by the lowering (`IfElse` keeps it).

## 8. Not modelled

- *Lexer, parser, syntax tree, driver*: pure functions over text and trees, and
  I/O around the passes: tests reach them well and TLC does not.
- *Code generation through Cranelift, layouts, dispatch tables; the encodings and
  hashes of packs; the rendering of prompts and diagnostics*: transformations
  without states of their own.
- *Type checker*: calls, aggregates, generics, outcomes, references and patterns.
  What is modelled are the rules of scalar expressions and the scopes of names.
- *Lowering and compiled code*: fields and aggregates, patterns, outcomes, `for`,
  traits, references, and the String and Vector shims. The handoff of the
  HashMap's keys and values is part of `HashMap`.
- *Store*: the three steps of `install_aot_cache` (another process may remove a
  fresh entry) and the two of `atomic_write_file` (a kill leaves a hidden file
  beside the roots and links). A collection concurrent with installs, which the
  documentation excludes and no lock prevents.
- *Linker*: `plan_link` and `classify_version` only; the manifest's grammar and
  `check_cap_divergence` keep no state.
- *MIR*: builder, printer, layout tables and the verifier's checks other than
  that edges lead to blocks.
