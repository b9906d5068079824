-------------------------------- MODULE Drops --------------------------------
(***************************************************************************)
(* A lowered function, compiled and run (triet-jit): what each MIR         *)
(* statement does to the slots of the locals and to the heap.  A behaviour *)
(* first lowers a program (Lowering), then runs it from the entry, one     *)
(* block a step, with every outcome of a condition or of a nullable call.  *)
(* A path that reads a local the borrow checker does not take for          *)
(* initialised stops: that program is refused before it is compiled.       *)
(***************************************************************************)
EXTENDS Lowering

CONSTANT Objects  \* the heap objects, by the address they are allocated at

ASSUME ObjectsAssumption == Objects \subseteq Nat \ {0} /\ Objects # {}

VARIABLES
  at,     \* the block to run next; 0 before the program is compiled
  mem,    \* the memory: see Start
  halted  \* "" | "returned" | "refused" | "exhausted"

allVars == <<vars, at, mem, halted>>

Nothing == 0
Locals == DOMAIN ctx.kinds

(***************************************************************************)
(* slot: the object whose address a local's slot holds.  inited: the       *)
(* locals the borrow checker takes for initialised here.  live: the        *)
(* objects on the heap.  doubled: an object was freed that was not live.   *)
(* lost: the objects whose last address was overwritten while they were *)
(* live; an assignment does not free what it overwrites.  out: the object  *)
(* returned.  ok: FALSE once the path is one the borrow checker refuses;   *)
(* room: FALSE once it has used every object of the model.                 *)
(***************************************************************************)
Start(slot, live) ==
  [slot |-> slot, inited |-> {1}, live |-> live, doubled |-> FALSE,
   lost |-> {}, out |-> Nothing, ok |-> TRUE, room |-> TRUE]

Unused(m) == Objects \ (m.live \cup Range(m.slot) \cup {m.out})

Overwrite(m, l, o) ==
  [m EXCEPT !.slot[l] = o,
            !.lost = IF m.slot[l] \in m.live \ {o} /\ \A k \in Locals \ {l} : m.slot[k] # m.slot[l]
                     THEN @ \cup {m.slot[l]} ELSE @]

New(m, l) ==
  IF Unused(m) = {} THEN [m EXCEPT !.room = FALSE]
  ELSE LET o == CHOOSE o \in Unused(m) : TRUE
       IN [Overwrite(m, l, o) EXCEPT !.live = @ \cup {o}, !.inited = @ \cup {l},
                                     !.lost = @ \ {o}]

\* The shim frees nothing where the address is zero.
Free(m, o) ==
  IF o = Nothing THEN m
  ELSE [m EXCEPT !.live = @ \ {o}, !.doubled = @ \/ o \notin m.live]

\* Reads of a local the borrow checker refuses end the path.
Reading(m, l, after) == IF l \in m.inited THEN after ELSE [m EXCEPT !.ok = FALSE]

(***************************************************************************)
(* An assignment copies the slot.  It zeroes the source afterwards when    *)
(* the value is one word wide; a record is copied and its source kept.     *)
(***************************************************************************)
\* Seeded defect: only the tombstone that follows zeroes the source.
CopyOnly(m, d, s) ==
  [Overwrite(m, d, m.slot[s]) EXCEPT !.inited = (@ \ {s}) \cup {d}]

Copy(m, d, s) ==
  LET copied == [Overwrite(m, d, m.slot[s]) EXCEPT !.inited = (@ \ {s}) \cup {d}]
  IN IF ctx.kinds[s] = "string" THEN [copied EXCEPT !.slot[s] = Nothing] ELSE copied

\* A value the block returns is not dropped; a slot is not zeroed when what
\* it holds is freed.
Drop(m, l, values) ==
  IF Contains(values, l) THEN m
  ELSE Free([m EXCEPT !.inited = @ \ {l}], m.slot[l])

Run(m, s, values) ==
  CASE s.op = "Const"  -> New(m, s.dest)
    [] s.op = "Assign" -> Reading(m, s.source, Copy(m, s.dest, s.source))
    [] s.op = "Deinit" -> [m EXCEPT !.slot[s.local] = Nothing, !.inited = @ \ {s.local}]
    [] s.op = "Drop"   -> Drop(m, s.local, values)
    [] s.op = "Read"   -> Reading(m, s.local, m)

\* The statements of a block up to the first the path stops at.
RunBlock(m, block) ==
  LET values == IF block.term.op = "Return" THEN block.term.values ELSE <<>>
      ran[k \in 0 .. Len(block.stmts)] ==
        IF k = 0 THEN m
        ELSE LET acc == ran[k - 1]
             IN IF acc.ok /\ acc.room THEN Run(acc, block.stmts[k], values) ELSE acc
  IN ran[Len(block.stmts)]

-----------------------------------------------------------------------------
(***************************************************************************)
(* The entry zeroes the slots of strings; the slot of a record holds what  *)
(* the stack held, taken for an address of nothing live: to free it is a   *)
(* free of what is not there, whatever the word was.                       *)
(***************************************************************************)
Compile ==
  /\ done /\ at = 0
  /\ at' = Entry
  /\ LET o == CHOOSE o \in Objects : TRUE
     IN \E junk \in (Objects \cup {Nothing}) \ {o} :
          mem' = Start([l \in Locals |-> IF l = 1 THEN o
                                        ELSE IF ctx.kinds[l] = "record" THEN junk
                                        ELSE Nothing], {o})
  /\ UNCHANGED <<vars, halted>>

Block == ctx.blocks[at]
After == RunBlock(mem, Block)

Running == at # 0 /\ halted = ""

\* The path ends inside the block, or at a read of the terminator.
Stop ==
  /\ Running
  /\ \/ ~After.ok /\ halted' = "refused"
     \/ After.ok /\ ~After.room /\ halted' = "exhausted"
  /\ mem' = After
  /\ UNCHANGED <<vars, at>>

Continues(m, b) ==
  /\ mem' = m
  /\ at' = b
  /\ UNCHANGED <<vars, halted>>

Ends(m, how) ==
  /\ mem' = m
  /\ halted' = how
  /\ UNCHANGED <<vars, at>>

JumpOrBranch ==
  /\ Block.term.op \in {"Goto", "If"}
  /\ \E b \in Block.term.to : Continues(After, b)

\* The callee owns its argument and frees it; the caller's slot still holds
\* the address.
Call ==
  /\ Block.term.op = "Call"
  /\ IF Block.term.arg \in After.inited
     THEN \E b \in Block.term.to :
            Continues(Free([After EXCEPT !.inited = @ \ {Block.term.arg}],
                           After.slot[Block.term.arg]), b)
     ELSE Ends(After, "refused")

\* A nullable call answers an object or null.
CallMaybe ==
  /\ Block.term.op = "CallNullable"
  /\ \E b \in Block.term.to :
       \/ Continues(Overwrite(After, Block.term.dest, Nothing), b)
       \/ New(After, Block.term.dest).room /\ Continues(New(After, Block.term.dest), b)

TestNull ==
  /\ Block.term.op = "IfNull"
  /\ Continues(After, IF After.slot[Block.term.local] = Nothing THEN Block.term.null
                      ELSE Block.term.present)

ReturnFrom ==
  /\ Block.term.op = "Return"
  /\ IF Block.term.values = <<>> THEN Ends(After, "returned")
     ELSE LET l == Block.term.values[1]
          IN IF l \in After.inited THEN Ends([After EXCEPT !.out = After.slot[l]], "returned")
             ELSE Ends(After, "refused")

Execute ==
  /\ Running /\ After.ok /\ After.room
  /\ JumpOrBranch \/ Call \/ CallMaybe \/ TestNull \/ ReturnFrom

DropsInit == Init /\ at = 0 /\ mem = Start(<<>>, {}) /\ halted = ""

DropsNext ==
  \/ Lower /\ UNCHANGED <<at, mem, halted>>
  \/ Compile
  \/ Stop
  \/ Execute

Spec == DropsInit /\ [][DropsNext]_allVars

-----------------------------------------------------------------------------
\* The locals that are named, owned or initialised exist, slots hold objects
\* of the heap, and no block control can reach is left open.
TypeOK ==
  /\ ctx.cur \in DOMAIN ctx.blocks
  /\ Range(ctx.owned) \subseteq Locals
  /\ {ctx.names, env} \subseteq [Names -> Locals \cup {NoLocal}]
  /\ spent \in 0 .. MaxSource /\ done \in BOOLEAN
  /\ LiveBlocksEnd
  /\ at # 0 => /\ mem.slot \in [Locals -> Objects \cup {Nothing}]
               /\ mem.live \cup mem.lost \subseteq Objects
               /\ mem.inited \subseteq Locals

(***************************************************************************)
(* No object is freed twice, on any path of any program: the drops of the  *)
(* scopes, of the jumps and of the returns, the callees' frees and the     *)
(* zeroing of moved slots agree on who owns an object.                     *)
(***************************************************************************)
FreedOnce == ~mem.doubled

(***************************************************************************)
(* What the borrow checker takes for initialised holds an object that is   *)
(* live: a program it accepts never reads freed or zeroed memory.          *)
(***************************************************************************)
InitedIsLive == at # 0 /\ mem.ok => \A l \in mem.inited : mem.slot[l] \in mem.live

(***************************************************************************)
(* When the function returns, the object returned is alive, and every other*)
(* one is freed but those an assignment or the next turn of a loop has     *)
(* overwritten, on every way out of every scope.                           *)
(***************************************************************************)
AllFreed ==
  halted = "returned" =>
    /\ mem.live \subseteq mem.lost \cup {mem.out}
    /\ mem.out # Nothing => mem.out \in mem.live
=============================================================================
