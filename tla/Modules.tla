------------------------------ MODULE Modules ------------------------------
(***************************************************************************)
(* Loading a program (triet-modules): the loader walks the module          *)
(* declarations from the roots, file by file (loader.rs); the import graph *)
(* is searched for cycles (cycle.rs); then names are bound and imports     *)
(* resolved one after the other (resolver.rs).  Any error of the first two *)
(* passes ends the load before the third.                                  *)
(*                                                                         *)
(* Errors are a set of records [code, at]: which module, which path.       *)
(***************************************************************************)
EXTENDS ModulePaths, FiniteSetsExt, Functions

CONSTANTS
  Words,         \* the names that paths and declarations are made of
  Declarations,  \* the declarations that the texts are made of
  Projects,      \* [entry, files, text]: text when there is no main file
  StdChildren,   \* the modules the synthetic std root declares
  SysCandidates  \* the modules the synthetic sys root may declare

VARIABLES
  project,   \* the program on disk
  phase,     \* "load", "cycles", "names", "done"
  tops,      \* the roots not loaded yet
  frames,    \* the modules being loaded, innermost last
  loading,   \* the files on the loading stack
  modules,   \* ResolvedProgram::modules
  root,      \* ResolvedProgram::root
  errors,
  color,     \* the search for cycles: the colours of modules
  trail,     \* and its stack, with the edges left of each module
  requests,  \* the names still to import
  bindings   \* Module::bindings of each module

tree  == <<tops, frames, loading, modules, root>>
graph == <<color, trail>>
names == <<requests, bindings>>
vars  == <<project, phase, tree, errors, graph, names>>

Ids == 1 .. Len(modules)
NoFile == <<>>
Files == DOMAIN project.files

Error(code, at) == [code |-> code, at |-> at]

\* What the parser makes of a declaration: names are identifiers, so no path
\* keyword is one; a use has a path.
Identifiers == Words \ {"self", "super"}

IsDeclaration(d) ==
  \/ d.kind = "external" /\ d.name \in Identifiers
  \/ d.kind = "inline" /\ d.name \in Identifiers /\ d.items \in Seq(Declarations)
  \/ d.kind = "item" /\ d.name \in Identifiers
  \/ /\ d.kind = "use" /\ d.path \in Seq(Words) \ {<<>>}
     /\ d.group \in Seq([name : Words, alias : Words \cup {""}])

Texts == [readable : BOOLEAN, parses : BOOLEAN, items : Seq(Declarations)]

External(name) == [kind |-> "external", name |-> name]

IsProject(p) ==
  /\ p.text \in Texts
  /\ DOMAIN p.files \subseteq Seq(Words) \ {NoFile}
  /\ p.files \in [DOMAIN p.files -> Texts]
  /\ p.entry = "filesystem" => <<"main">> \in DOMAIN p.files

ASSUME ProjectsAssumption ==
  /\ {"std", "sys", "khi", "main"} \subseteq Words
  /\ \A d \in Declarations : IsDeclaration(d)
  /\ \A p \in Projects : IsProject(p)
  /\ StdChildren \in Seq(Words) /\ SysCandidates \in Seq(Words)
  /\ \A name \in ToSet(StdChildren) \cup ToSet(SysCandidates) : External(name) \in Declarations

----------------------------------------------------------------------------
(* The loader *)

Declare(children) ==
  [readable |-> TRUE, parses |-> TRUE,
   items |-> [i \in DOMAIN children |-> External(children[i])]]

Root(path, file, chain, text) ==
  [path |-> path, file |-> file, chain |-> chain, text |-> text]

\* sys declares only the children whose files exist, and is left out when
\* there are none.
SysChildren ==
  Picked(SysCandidates, {k \in DOMAIN SysCandidates : <<"std", "sys", SysCandidates[k]>> \in Files})

Stdlib ==
  <<Root(<<"std">>, NoFile, <<<<"std">>>>, Declare(StdChildren))>>
  \o (IF SysChildren = <<>> THEN <<>>
      ELSE <<Root(<<"sys">>, NoFile, <<<<"std", "sys">>>>, Declare(SysChildren))>>)

Main == <<"main">>

\* entry: "filesystem", "memory" or "memory_no_stdlib"; only the first has a
\* directory to find files in, and a file of its own.
Khi ==
  IF project.entry = "filesystem"
  THEN Root(<<"khi">>, Main, <<<<>>>>, project.files[Main])
  ELSE Root(<<"khi">>, NoFile, <<>>, project.text)

Init ==
  /\ project \in Projects
  /\ tops = (IF project.entry = "memory_no_stdlib" THEN <<>> ELSE Stdlib)
              \o <<Khi>>
  /\ IF project.entry = "filesystem" /\ ~project.files[Main].readable
     THEN phase = "done" /\ errors = {Error("E2106", <<"khi">>)}
     ELSE phase = "load" /\ errors = {}
  /\ frames = <<>> /\ loading = {} /\ modules = <<>> /\ root = 1
  /\ color = <<>> /\ trail = <<>> /\ requests = <<>> /\ bindings = <<>>

\* allocate_module, and the frame of load_from_source or load_inline: file is
\* on the loading stack until the frame closes.
Enter(path, file, chain, items, parent) ==
  /\ modules' = Append(modules,
       [path |-> path, file |-> file, items |-> <<>>, children |-> <<>>,
        parent |-> parent])
  /\ root' = IF parent = 0 THEN Len(modules) + 1 ELSE root
  /\ loading' = IF file = NoFile THEN loading ELSE loading \cup {file}

Frame(path, file, chain, items) ==
  [id |-> Len(modules) + 1, path |-> path, file |-> file, chain |-> chain,
   rest |-> items, kept |-> <<>>, children |-> <<>>]

LoadRoot ==
  /\ phase = "load" /\ frames = <<>> /\ tops # <<>>
  /\ tops' = Tail(tops)
  /\ LET top == Head(tops)
     IN  \/ /\ top.text.parses
            /\ Enter(top.path, top.file, top.chain, top.text.items, 0)
            /\ frames' = <<Frame(top.path, top.file, top.chain, top.text.items)>>
            /\ UNCHANGED errors
         \/ /\ ~top.text.parses
            /\ errors' = errors \cup {Error("E2105", top.path)}
            /\ UNCHANGED <<frames, loading, modules, root>>
  /\ UNCHANGED <<project, phase, graph, names>>

Working == phase = "load" /\ frames # <<>>
Inner == Last(frames)
Todo == Head(Inner.rest)
Rest == [Inner EXCEPT !.rest = Tail(@)]
ChildPath == Append(Inner.path, Todo.name)

\* An item that is no module stays in the module's own list.
Keep ==
  /\ Working /\ Inner.rest # <<>> /\ ~IsModule(Todo)
  /\ frames' = Append(Front(frames), [Rest EXCEPT !.kept = Append(@, Todo)])
  /\ UNCHANGED <<project, phase, tops, loading, modules, root, errors, graph, names>>

OpenInline ==
  /\ Working /\ Inner.rest # <<>> /\ Todo.kind = "inline"
  /\ LET chain == InlineChain(Inner.chain, Todo.name)
     IN  /\ Enter(ChildPath, NoFile, chain, Todo.items, Inner.id)
         /\ frames' = Front(frames)
                        \o <<Rest, Frame(ChildPath, NoFile, chain, Todo.items)>>
  /\ UNCHANGED <<project, phase, tops, errors, graph, names>>

Declaring == Working /\ Inner.rest # <<>> /\ Todo.kind = "external"
Slot == MatchedSlot(Files, Inner.chain, Todo.name)
File == MatchedFile(Files, Inner.chain[Slot], Todo.name)

Refuse(code) ==
  /\ frames' = Append(Front(frames), Rest)
  /\ errors' = errors \cup {Error(code, ChildPath)}
  /\ UNCHANGED <<project, phase, tops, loading, modules, root, graph, names>>

NotFound == Declaring /\ Slot = 0 /\ Refuse("E2101")

\* A file that is being loaded already: the declaration is dropped.
SkipLoading ==
  /\ Declaring /\ Slot # 0 /\ File \in loading
  /\ frames' = Append(Front(frames), Rest)
  /\ UNCHANGED <<project, phase, tops, loading, modules, root, errors, graph, names>>

Unloadable ==
  /\ Declaring /\ Slot # 0 /\ File \notin loading
  /\ \/ ~project.files[File].readable /\ Refuse("E2106")
     \/ /\ project.files[File].readable /\ ~project.files[File].parses
        /\ Refuse("E2105")

OpenFile ==
  LET text  == project.files[File]
      chain == ChildChain(Inner.chain, Slot, Todo.name)
  IN  /\ text.readable /\ text.parses
      /\ Enter(ChildPath, File, chain, text.items, Inner.id)
      /\ frames' = Front(frames)
                     \o <<Rest, Frame(ChildPath, File, chain, text.items)>>
      /\ UNCHANGED <<project, phase, tops, errors, graph, names>>

\* Seeded defect: only the declaring file itself is recognised as loading.
OpenUnlessSelf ==
  Declaring /\ Slot # 0 /\ File # Inner.file /\ OpenFile

OpenExternal ==
  Declaring /\ Slot # 0 /\ File \notin loading /\ OpenFile

\* Seeded defect: a file that ended stays on the loading stack, and the
\* next module that declares it goes without.
CloseKeepingFile ==
  /\ Working /\ Inner.rest = <<>>
  /\ modules' = [modules EXCEPT ![Inner.id].items = Inner.kept,
                                ![Inner.id].children = Inner.children]
  /\ frames' = IF Len(frames) = 1 THEN <<>>
               ELSE [Front(frames) EXCEPT ![Len(frames) - 1].children =
                                            Append(@, Inner.id)]
  /\ UNCHANGED <<project, phase, tops, loading, root, errors, graph, names>>

Close ==
  /\ Working /\ Inner.rest = <<>>
  /\ modules' = [modules EXCEPT ![Inner.id].items = Inner.kept,
                                ![Inner.id].children = Inner.children]
  /\ frames' = IF Len(frames) = 1 THEN <<>>
               ELSE [Front(frames) EXCEPT ![Len(frames) - 1].children =
                                            Append(@, Inner.id)]
  /\ loading' = loading \ {Inner.file}
  /\ UNCHANGED <<project, phase, tops, root, errors, graph, names>>

StartCycles ==
  /\ phase = "load" /\ frames = <<>> /\ tops = <<>>
  /\ phase' = "cycles"
  /\ color' = [i \in Ids |-> "white"]
  /\ UNCHANGED <<project, tree, errors, trail, names>>

----------------------------------------------------------------------------
(* Import cycles *)

WithPath(path) == {i \in Ids : modules[i].path = path}

\* The search's index keeps the last module of a path.
IndexOf(path) == IF WithPath(path) = {} THEN 0 ELSE Max(WithPath(path))

\* The module a use depends on, 0 for none.  The path is taken as written;
\* when it names no module its last segment is taken for an item.
ImportTarget(i, path) ==
  LET exact == IndexOf(path)
      outer == IF Len(path) > 1 THEN IndexOf(Front(path)) ELSE 0
  IN  IF IsReserved(path) THEN 0
      ELSE IF exact # 0 THEN exact
      ELSE IF outer = i THEN 0 ELSE outer

Edges(i) ==
  LET uses    == Uses(modules[i].items)
      targets == [u \in DOMAIN uses |-> ImportTarget(i, uses[u].path)]
  IN  Picked(targets, {u \in DOMAIN uses : targets[u] # 0})

Stop(i) == [at |-> i, edges |-> Edges(i)]

StartSearch ==
  /\ phase = "cycles" /\ trail = <<>>
  /\ \E i \in Ids :
       /\ color[i] = "white" /\ \A j \in 1 .. (i - 1) : color[j] # "white"
       /\ color' = [color EXCEPT ![i] = "gray"]
       /\ trail' = <<Stop(i)>>
  /\ UNCHANGED <<project, phase, tree, errors, names>>

Searching == phase = "cycles" /\ trail # <<>>
Here == Last(trail)
Ahead == Head(Here.edges)
Onward == Append(Front(trail), [Here EXCEPT !.edges = Tail(@)])

\* The part of the trail from the module found again, and that module.
Trace(i) ==
  LET stack == [k \in DOMAIN trail |-> trail[k].at]
  IN  Append(SubSeq(stack, SelectInSeq(stack, LAMBDA x : x = i), Len(stack)), i)

\* Seeded defect: two colours, visited or not.
DescendBlack ==
  /\ Searching /\ Here.edges # <<>> /\ color[Ahead] = "white"
  /\ color' = [color EXCEPT ![Ahead] = "black"]
  /\ trail' = Append(Onward, Stop(Ahead))
  /\ UNCHANGED <<project, phase, tree, errors, names>>

Descend ==
  /\ Searching /\ Here.edges # <<>> /\ color[Ahead] = "white"
  /\ color' = [color EXCEPT ![Ahead] = "gray"]
  /\ trail' = Append(Onward, Stop(Ahead))
  /\ UNCHANGED <<project, phase, tree, errors, names>>

BackEdge ==
  /\ Searching /\ Here.edges # <<>> /\ color[Ahead] = "gray"
  /\ errors' = errors \cup {Error("E2100", Trace(Ahead))}
  /\ trail' = Onward
  /\ UNCHANGED <<project, phase, tree, color, names>>

Explored ==
  /\ Searching /\ Here.edges # <<>> /\ color[Ahead] = "black"
  /\ trail' = Onward
  /\ UNCHANGED <<project, phase, tree, errors, color, names>>

\* Seeded defect: a module left is never coloured black.
LeaveWhite ==
  /\ Searching /\ Here.edges = <<>>
  /\ trail' = Front(trail)
  /\ color' = [color EXCEPT ![Here.at] = "white"]
  /\ UNCHANGED <<project, phase, tree, errors, names>>

Leave ==
  /\ Searching /\ Here.edges = <<>>
  /\ trail' = Front(trail)
  /\ color' = [color EXCEPT ![Here.at] = "black"]
  /\ UNCHANGED <<project, phase, tree, errors, names>>

----------------------------------------------------------------------------
(* Names *)

\* find_module: the first module of a path.
FindModule(path) == IF WithPath(path) = {} THEN 0 ELSE Min(WithPath(path))

Children(i) == {Last(modules[c].path) : c \in ToSet(modules[i].children)}

\* Every own item and child module, under its name.
OwnBindings(i) ==
  [name \in NamesOf(modules[i].items) \cup Children(i)
     |-> <<modules[i].path, name>>]

\* One request for each name a use binds; a use without a group asks for the
\* last segment of its path.
RequestsOf(i) ==
  LET uses == Uses(modules[i].items)
      asked(use) ==
        IF use.group = <<>>
        THEN <<[by |-> i, path |-> use.path, whole |-> TRUE,
                name |-> Last(use.path), alias |-> ""]>>
        ELSE [k \in DOMAIN use.group |->
                [by |-> i, path |-> use.path, whole |-> FALSE,
                 name |-> use.group[k].name, alias |-> use.group[k].alias]]
  IN  FlattenSeq([u \in DOMAIN uses |-> asked(uses[u])])

EndSearch ==
  /\ phase = "cycles" /\ trail = <<>>
  /\ \A i \in Ids : color[i] # "white"
  /\ IF errors # {}
     THEN phase' = "done" /\ UNCHANGED names
     ELSE /\ phase' = "names"
          /\ bindings' = [i \in Ids |-> OwnBindings(i)]
          /\ requests' = FlattenSeq([i \in Ids |-> RequestsOf(i)])
  /\ UNCHANGED <<project, tree, errors, graph>>

Binding(name, path, item) == [code |-> "bind", name |-> name, to |-> <<path, item>>]
Failure(code) == [code |-> code, name |-> "", to |-> <<>>]

\* Seeded defect: the visibility of a single imported item is not looked at.
ResolveWholeBlindly(r) ==
  LET target == Expand(r.path, modules[r.by].path)
      module == ParentPath(target)
      owner  == FindModule(module)
  IN  CASE FindModule(target) # 0 -> Binding(r.name, target, r.name)
        [] /\ FindModule(target) = 0 /\ Len(target) > 1 /\ owner # 0
           /\ Last(target) \in NamesOf(modules[owner].items) ->
             Binding(r.name, module, Last(target))
        [] /\ FindModule(target) = 0 /\ owner = 0 /\ IsReserved(module) ->
             Binding(r.name, module, Last(target))
        [] OTHER -> Failure("E2104")

\* `use a::b`: the module a::b, else the item b of a, else an ambient name.
ResolveWhole(r) ==
  LET target == Expand(r.path, modules[r.by].path)
      module == ParentPath(target)
      owner  == FindModule(module)
  IN  CASE FindModule(target) # 0 -> Binding(r.name, target, r.name)
        [] /\ FindModule(target) = 0 /\ Len(target) > 1 /\ owner # 0
           /\ Last(target) \in NamesOf(modules[owner].items) ->
             IF IsVisible(FindItem(modules[owner].items, Last(target)), r.by, owner)
             THEN Binding(r.name, module, Last(target))
             ELSE Failure("E2103")
        [] /\ FindModule(target) = 0 /\ owner = 0 /\ IsReserved(module) ->
             Binding(r.name, module, Last(target))
        [] OTHER -> Failure("E2104")

LocalName(r) == IF r.alias = "" THEN r.name ELSE r.alias

\* `use a::{b}`: the item b of a, else its child module, else the enum of a
\* with a variant b, which may not be renamed.
ResolveFrom(r) ==
  LET target == Expand(r.path, modules[r.by].path)
      owner  == FindModule(target)
      items  == modules[owner].items
  IN  CASE owner = 0 ->
             IF IsReserved(target) THEN Binding(LocalName(r), target, r.name)
             ELSE Failure("E2104")
        [] owner # 0 /\ r.name \in NamesOf(items) ->
             IF IsVisible(FindItem(items, r.name), r.by, owner)
             THEN Binding(LocalName(r), target, r.name)
             ELSE Failure("E2103")
        [] /\ owner # 0 /\ r.name \notin NamesOf(items)
           /\ FindModule(Append(target, r.name)) # 0 ->
             Binding(LocalName(r), target, r.name)
        [] /\ owner # 0 /\ r.name \notin NamesOf(items)
           /\ FindModule(Append(target, r.name)) = 0 /\ HasVariant(items, r.name) ->
             IF r.alias # "" THEN Failure("E2107")
             ELSE IF IsVisible(EnumOwning(items, r.name), r.by, owner)
             THEN Binding(r.name, target, EnumOwning(items, r.name).name)
             ELSE Failure("E2103")
        [] OTHER -> Failure("E2104")

Resolution(r) == IF r.whole THEN ResolveWhole(r) ELSE ResolveFrom(r)

\* A name bound to something else stays as it is: E2108.
Taken(i, answer) ==
  answer.name \in DOMAIN bindings[i] /\ bindings[i][answer.name] # answer.to

\* Seeded defect: the import made last wins.
ImportOverriding ==
  /\ phase = "names" /\ requests # <<>>
  /\ requests' = Tail(requests)
  /\ LET r == Head(requests)
         answer == Resolution(r)
     IN  \/ /\ answer.code = "bind"
            /\ bindings' = [bindings EXCEPT ![r.by] =
                 [n \in DOMAIN @ \cup {answer.name} |->
                    IF n = answer.name THEN answer.to ELSE @[n]]]
            /\ UNCHANGED errors
         \/ /\ answer.code # "bind"
            /\ errors' = errors \cup {Error(answer.code, <<r.by>> \o r.path)}
            /\ UNCHANGED bindings
  /\ UNCHANGED <<project, phase, tree, graph>>

Import ==
  /\ phase = "names" /\ requests # <<>>
  /\ requests' = Tail(requests)
  /\ LET r == Head(requests)
         answer == Resolution(r)
     IN  \/ /\ answer.code = "bind" /\ ~Taken(r.by, answer)
            /\ bindings' = [bindings EXCEPT ![r.by] =
                 [n \in DOMAIN @ \cup {answer.name} |->
                    IF n = answer.name THEN answer.to ELSE @[n]]]
            /\ UNCHANGED errors
         \/ /\ answer.code = "bind" /\ Taken(r.by, answer)
            /\ errors' = errors \cup {Error("E2108", <<r.by, answer.name>>)}
            /\ UNCHANGED bindings
         \/ /\ answer.code # "bind"
            /\ errors' = errors \cup {Error(answer.code, <<r.by>> \o r.path)}
            /\ UNCHANGED bindings
  /\ UNCHANGED <<project, phase, tree, graph>>

Finish ==
  /\ phase = "names" /\ requests = <<>>
  /\ phase' = "done"
  /\ UNCHANGED <<project, tree, errors, graph, names>>

----------------------------------------------------------------------------
Next ==
  \/ LoadRoot \/ Keep \/ OpenInline \/ NotFound \/ SkipLoading \/ Unloadable
  \/ OpenExternal \/ Close \/ StartCycles
  \/ StartSearch \/ Descend \/ BackEdge \/ Explored \/ Leave \/ EndSearch
  \/ Import \/ Finish

\* The load is one sequential call: it goes on while it can.
Spec == Init /\ [][Next]_vars /\ WF_vars(Next)

----------------------------------------------------------------------------
(* Properties *)

Codes == {"E2100", "E2101", "E2103", "E2104", "E2105", "E2106", "E2107", "E2108"}

\* However the declarations of the files lead back to each other, no file is
\* loaded inside itself (loader.rs: loading_files).
FilesNestOnce ==
  \A j, k \in DOMAIN frames :
    j # k /\ frames[j].file # NoFile => frames[j].file # frames[k].file

\* Modules, frames and bindings refer to modules that exist, a child is
\* declared under its parent's path, and the frames are of files that nest
\* (ResolvedProgram, LoaderState).
TypeOK ==
  /\ phase \in {"load", "cycles", "names", "done"}
  /\ loading \subseteq Files
  /\ \A i \in Ids :
       /\ modules[i].parent \in 0 .. (i - 1)
       /\ modules[i].parent # 0 =>
            Front(modules[i].path) = modules[modules[i].parent].path
       /\ ToSet(modules[i].children) \subseteq {c \in Ids : modules[c].parent = i}
  /\ \A f \in ToSet(frames) : f.id \in Ids
  /\ FilesNestOnce
  /\ \A e \in errors : e.code \in Codes
  /\ DOMAIN color \in {{}, Ids}
  /\ \A i \in DOMAIN color : color[i] \in {"white", "gray", "black"}
  /\ DOMAIN bindings \in {{}, Ids}

Ended == phase = "done" /\ errors = {}

\* Module i and the modules around it: the least set with i and with the
\* parents of its members.
Above(i) ==
  LET closed == {some \in SUBSET Ids : /\ i \in some
                                       /\ \A j \in some : modules[j].parent \in some \cup {0}}
  IN  {j \in Ids : \A some \in closed : j \in some}

\* A program that loads has every module its files declare, but those whose
\* file encloses the declaration (loader.rs: process_items, resolve_external).
DeclaredAreLoaded ==
  Ended =>
    \A i \in Ids : modules[i].file \in Files =>
      \A d \in ToSet(project.files[modules[i].file].items) :
        IsModule(d) =>
          \/ d.name \in Children(i)
          \/ \E j \in Above(i) : /\ modules[j].file # NoFile
                                 /\ Last(modules[j].file) = d.name

Imported(i, j) ==
  \E d \in ToSet(modules[i].items) : d.kind = "use" /\ ImportTarget(i, d.path) = j

\* Some modules each import one of them.
ImportCycle ==
  LET imports == [i \in Ids |-> {j \in Ids : Imported(i, j)}]
  IN  \E some \in (SUBSET Ids) \ {{}} : \A i \in some : imports[i] \cap some # {}

CycleErrors == {e \in errors : e.code = "E2100"}

\* The search reports a cycle exactly when some module imports itself
\* through others, and what it prints is such a cycle (cycle.rs: dfs).
CyclesFound ==
  phase \in {"names", "done"} /\ color # <<>> =>
    /\ CycleErrors # {} <=> ImportCycle
    /\ \A e \in CycleErrors :
         /\ Head(e.at) = Last(e.at)
         /\ \A k \in 1 .. (Len(e.at) - 1) : Imported(e.at[k], e.at[k + 1])

\* An item of another module is bound only if one of that name may be seen
\* there (two items, or two modules, may have one name).  A binding of module
\* m under m's own name is left to NoPrivateImport.
PrivateStaysHome ==
  \A i \in DOMAIN bindings : \A name \in DOMAIN bindings[i] :
    LET to == bindings[i][name]
        owner == FindModule(to[1])
    IN  /\ owner # 0 /\ to[1] # modules[i].path /\ to[2] # Last(to[1])
        /\ to[2] \in NamesOf(modules[owner].items)
        => \E d \in ToSet(modules[owner].items) :
             IsItem(d) /\ d.name = to[2] /\ d.visibility # "private"

\* The bindings of a program that loads do not depend on the order of its
\* imports: each name of a module means its own item or child, and each
\* import what it resolves to (resolver.rs: bind_import, resolve_names).
BindingsDeclared ==
  Ended =>
    \A i \in Ids :
      LET asked == {Resolution(r) : r \in ToSet(RequestsOf(i))}
      IN  /\ DOMAIN bindings[i] = DOMAIN OwnBindings(i) \cup {a.name : a \in asked}
          /\ \A n \in DOMAIN OwnBindings(i) : bindings[i][n] = OwnBindings(i)[n]
          /\ \A a \in asked : a.code = "bind" /\ bindings[i][a.name] = a.to

\* Whatever the files declare, the load ends (loader.rs: finish).
Terminates == <>(phase = "done")

----------------------------------------------------------------------------
(* What a comment says *)

\* "Private items cannot be imported from outside their defining module"
\* (resolver.rs:17), whatever the name they are bound through.
NoPrivateImport ==
  \A i \in DOMAIN bindings : \A name \in DOMAIN bindings[i] :
    LET to == bindings[i][name]
        owner == FindModule(to[1])
    IN  owner \notin {0, i} /\ to[2] \in NamesOf(modules[owner].items)
        => FindItem(modules[owner].items, to[2]).visibility # "private"
=============================================================================
