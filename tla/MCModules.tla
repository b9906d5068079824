----------------------------- MODULE MCModules -----------------------------
(***************************************************************************)
(* Small programs: a root and the files a.tri, b.tri and a/b.tri, each     *)
(* absent or with one of a few texts, that declare and import each other.  *)
(***************************************************************************)
EXTENDS Modules, TLC

Text(items) == [readable |-> TRUE, parses |-> TRUE, items |-> items]
Unread   == [readable |-> FALSE, parses |-> TRUE, items |-> <<>>]
Unparsed == [readable |-> TRUE, parses |-> FALSE, items |-> <<>>]

Mod(name)          == [kind |-> "external", name |-> name]
Inline(name, body) == [kind |-> "inline", name |-> name, items |-> body]
Item(name, visibility) ==
  [kind |-> "item", name |-> name, visibility |-> visibility, variants |-> {}]
Enum(name, visibility, variant) ==
  [Item(name, visibility) EXCEPT !.variants = {variant}]
Use(path)         == [kind |-> "use", path |-> path, group |-> <<>>]
From(path, group) == [kind |-> "use", path |-> path, group |-> group]
As(name, alias)   == [name |-> name, alias |-> alias]

\* What a root may declare after its modules.
RootUses ==
  {<<>>,
   <<Use(<<"khi", "a", "x">>), Item("x", "public")>>,
   <<From(<<"khi", "a">>, <<As("x", ""), As("b", "c")>>), Use(<<"khi", "b", "x">>)>>,
   <<From(<<"khi", "a">>, <<As("v", "")>>), From(<<"khi", "b">>, <<As("v", "w")>>)>>,
   <<Use(<<"std", "io">>), Use(<<"sys", "gpio", "pin">>),
     From(<<"dev", "x">>, <<As("y", "z")>>)>>}

RootMods == {<<Mod("a")>>, <<Mod("a"), Mod("b")>>,
             <<Inline("a", <<Mod("b"), Item("x", "private")>>), Item("v", "private")>>}

RootTexts == {Text(m \o u) : m \in RootMods, u \in RootUses} \cup {Unread, Unparsed}

FileTexts ==
  {Text(<<Item("x", "public"), Item("a", "private")>>),
   Text(<<Item("x", "private"), Enum("e", "public", "v")>>),
   Text(<<Mod("b"), Enum("e", "private", "v"), Use(<<"khi", "b", "x">>)>>),
   Text(<<Mod("a"), Item("x", "package"), From(<<"khi", "a">>, <<As("x", "y")>>)>>),
   Text(<<Item("x", "package"), From(<<"super", "a">>, <<As("x", "y")>>)>>),
   Text(<<Item("x", "public"), Use(<<"khi", "a">>), Use(<<"self", "x">>)>>),
   Text(<<Item("x", "public"), From(<<"super", "b">>, <<As("x", "z")>>),
          Use(<<"khi", "b">>)>>)}

NestedTexts == {Text(<<Item("x", "public"), Mod("b"), Mod("main")>>),
                Text(<<Use(<<"super", "x">>), From(<<"khi", "b">>, <<As("x", "q")>>)>>),
                Unread, Unparsed}

Io == <<"std", "io">> :> Text(<<Item("println", "public")>>)
Sys == <<"std", "sys", "gpio">> :> Text(<<>>)

With(file, texts) == {<<>>} \cup {file :> t : t \in texts}

MCProjects ==
  {[entry |-> "filesystem", text |-> Unread,
    files |-> Io @@ <<"main">> :> t @@ a @@ b @@ c] :
     t \in RootTexts,
     a \in With(<<"a">>, FileTexts), b \in With(<<"b">>, FileTexts),
     c \in With(<<"a", "b">>, NestedTexts)}
  \cup
  {[entry |-> e, text |-> t, files |-> Io @@ Sys] :
     e \in {"memory", "memory_no_stdlib"}, t \in RootTexts \ {Unread}}

\* The declarations of the texts, and those inside an inline module.
MCDeclarations ==
  LET outer == UNION {ToSet(t.items) :
                        t \in RootTexts \cup FileTexts \cup NestedTexts \cup Range(Io)}
  IN  outer \cup UNION {ToSet(d.items) : d \in {e \in outer : e.kind = "inline"}}
        \cup {Mod("io"), Mod("gpio"), Mod("thread")}

MCWords == {"std", "sys", "dev", "khi", "self", "super", "main", "io", "gpio", "thread", "pin",
            "println", "a", "b", "c", "e", "q", "v", "w", "x", "y", "z"}

MCStdChildren == <<"io">>
MCSysCandidates == <<"gpio", "thread">>
=============================================================================
