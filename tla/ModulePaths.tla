---------------------------- MODULE ModulePaths ----------------------------
(***************************************************************************)
(* Module paths, declarations and the directories a declaration is looked  *)
(* for in (triet-modules: path.rs, loader.rs, resolver.rs).                *)
(*                                                                         *)
(* A path, like a directory or a file, is a sequence of names; the empty   *)
(* one stands for no path, and the empty chain for no file system.  A text *)
(* is a record [readable, parses, items]; a declaration has a field kind:  *)
(*   "external", "inline"  a module, with its name (and items);            *)
(*   "item"                name, visibility and enum variants;             *)
(*   "use"                 path and group, a sequence of [name, alias].    *)
(***************************************************************************)
EXTENDS Integers, Sequences, SequencesExt, FiniteSets

Reserved == {"std", "sys", "dev", "usr", "core"}

IsReserved(path) == path # <<>> /\ Head(path) \in Reserved

ParentPath(path) == IF path = <<>> THEN path ELSE Front(path)

\* `khi` and bare paths stand as they are; `super` of a root does too.
Expand(path, importer) ==
  CASE Head(path) = "self" -> importer \o Tail(path)
    [] Head(path) = "super" /\ Len(importer) > 1 ->
         ParentPath(importer) \o Tail(path)
    [] OTHER -> path

----------------------------------------------------------------------------
\* The directories searched, nearest first.

InlineChain(chain, name) ==
  IF chain = <<>> THEN <<>> ELSE <<Append(Head(chain), name)>> \o chain

ChildChain(chain, slot, name) ==
  <<Append(chain[slot], name)>> \o SubSeq(chain, slot, Len(chain))

\* The two places of one directory: <dir>/<name>.tri, <dir>/<name>/<name>.tri.
Places(dir, name) == <<Append(dir, name), dir \o <<name, name>>>>

\* The slot whose directory holds the file of `name`, 0 when none does.
MatchedSlot(files, chain, name) ==
  SelectInSeq(chain, LAMBDA dir : ToSet(Places(dir, name)) \cap files # {})

MatchedFile(files, dir, name) ==
  LET places == Places(dir, name)
  IN  IF places[1] \in files THEN places[1] ELSE places[2]

----------------------------------------------------------------------------
\* What a module's items declare.  Inline and external modules never reach
\* the item list of a loaded module.

IsModule(d) == d.kind \in {"external", "inline"}

\* The elements of s at the positions of a set, in their order (a SelectSeq by
\* position, which the prover can look into).
Picked(s, at) ==
  LET upto[k \in 0 .. Len(s)] ==
        IF k = 0 THEN <<>>
        ELSE IF k \in at THEN Append(upto[k - 1], s[k]) ELSE upto[k - 1]
  IN  upto[Len(s)]

Uses(items) == Picked(items, {k \in DOMAIN items : items[k].kind = "use"})

\* The items proper, and what they are called.
IsItem(d) == d.kind = "item"
NamesOf(items) == {d.name : d \in {e \in ToSet(items) : IsItem(e)}}

\* The first item of that name; the first enum with that variant.
FindItem(items, name) ==
  items[SelectInSeq(items, LAMBDA d : IsItem(d) /\ d.name = name)]

HasVariant(items, name) ==
  \E d \in ToSet(items) : IsItem(d) /\ name \in d.variants

EnumOwning(items, name) ==
  items[SelectInSeq(items, LAMBDA d : IsItem(d) /\ name \in d.variants)]

IsVisible(item, importer, owner) ==
  item.visibility \in {"public", "package"} \/ importer = owner
=============================================================================
