------------------------------- MODULE Policy -------------------------------
(***************************************************************************)
(* Sessions that decide capabilities (crates/triet-pack/src/policy.rs,     *)
(* capability_resolver.rs, tty_prompt.rs) over one dao.policy file.        *)
(*                                                                         *)
(* A session reads the policy once, checks the claims of its packages,     *)
(* resolves what they defer and then what its program asks for.  A rule    *)
(* may say to ask the user, whose permanent answers go back to the file by *)
(* load, change and save.  Sessions are processes: their steps interleave  *)
(* and any of them may be killed.                                          *)
(***************************************************************************)
EXTENDS Capabilities, SavedFile

CONSTANTS
  Policies,   \* the policies found on disk or written by hand
  Trees,      \* the package trees sessions start with, and what their programs ask
  MaxEdits,   \* BOUND on the policies written by hand
  MaxAnswers, \* BOUND on the permanent answers
  None        \* no decision, no rule

Sessions == Savers
Origins  == {"lockfile", "fresh"}
Rulings  == {"grant", "deny", "abstain"}          \* +1, -1 and 0
Decision == Rulings \cup {"prompt"}
Pairs    == Caps \X Pkgs
Requests == [cap : Caps, pkg : Pkgs, origin : Origins, deferred : BOOLEAN]

\* A parsed policy: a rule for a path and an origin, or for any origin; a path
\* and an origin have one rule at most, and the default does not prompt.
PolicyRules == [rule    : [Caps \X (Origins \cup {"any"}) -> Decision \cup {None}],
                default : Rulings \cup {None}]

NoRules == [rule    |-> [k \in Caps \X (Origins \cup {"any"}) |-> None],
            default |-> None]

ASSUME PolicyAssumption ==
  /\ Blank = NoRules
  /\ Policies \subseteq PolicyRules \cup {Broken}
  /\ Broken \notin PolicyRules
  /\ \A t \in Trees : IsTree(t) /\ t.asks \subseteq Caps \X Pkgs \X Origins
  /\ MaxEdits \in Nat /\ MaxAnswers \in Nat
  /\ None \notin Decision

\* PolicyRules::find, effective_default and upsert_rule.
Find(p, c, o) == IF p.rule[<<c, o>>] # None THEN p.rule[<<c, o>>]
                 ELSE p.rule[<<c, "any">>]
EffectiveDefault(p) == IF p.default = None THEN "deny" ELSE p.default
Upsert(p, c, o, d)  == [p EXCEPT !.rule[<<c, o>>] = d]

VARIABLES
  phase,     \* session -> what it does next
  rules,     \* session -> the policy it read when it started
  tree,      \* session -> the packages it runs
  cache,     \* session -> capability and package -> decision or None
  todo,      \* session -> the deferrals left to resolve
  asking,    \* session -> the request it is deciding
  answer,    \* session -> the permanent decision on its way to the file
  next_file, \* session -> the policy it is about to save
  granted,   \* session -> the deferrals it granted
  told,      \* HISTORY session -> the decisions returned, with path and package
  said,      \* HISTORY session -> the user's answers, with path and package
  latest,    \* HISTORY path and origin -> the permanent answer saved last, or
             \* None if a later save met another or the file was edited
  edits, answers

session == <<phase, rules, tree, cache, todo, asking, answer, next_file, granted>>
history == <<told, said, latest>>
bounds  == <<edits, answers>>
vars    == <<fileVars, session, history, bounds>>

Phases == {"off", "ready", "prompt", "load", "open", "write", "rename"}
Saving(s) == phase[s] \in {"open", "write", "rename"}
Underway  == {s \in Sessions : Saving(s)}
NoRequest == [cap |-> None]

Init ==
  /\ FileInit(Policies)
  /\ phase = [s \in Sessions |-> "off"]
  /\ rules = [s \in Sessions |-> NoRules]
  /\ tree = [s \in Sessions |-> None]
  /\ cache = [s \in Sessions |-> [k \in Pairs |-> None]]
  /\ todo = [s \in Sessions |-> {}]
  /\ asking = [s \in Sessions |-> NoRequest]
  /\ answer = [s \in Sessions |-> None]
  /\ next_file = [s \in Sessions |-> NoRules]
  /\ granted = [s \in Sessions |-> {}]
  /\ told = [s \in Sessions |-> {}]
  /\ said = [s \in Sessions |-> {}]
  /\ latest = [k \in Caps \X Origins |-> None]
  /\ edits = 0 /\ answers = 0

-----------------------------------------------------------------------------
(* Starting and ending a session *)

\* The policy parses and the link check finds no error.
Boot(s, t) ==
  /\ phase[s] = "off"
  /\ Content # Broken
  /\ LinkErrors(t) = {}
  /\ phase' = [phase EXCEPT ![s] = "ready"]
  /\ rules' = [rules EXCEPT ![s] = Content]
  /\ tree' = [tree EXCEPT ![s] = t]
  /\ todo' = [todo EXCEPT ![s] = Deferrals(t)]
  /\ UNCHANGED <<fileVars, cache, asking, answer, next_file, granted, history, bounds>>

\* The process ends or is killed; what it had open is closed.
End(s) ==
  /\ phase[s] # "off"
  /\ phase' = [phase EXCEPT ![s] = "off"]
  /\ rules' = [rules EXCEPT ![s] = NoRules]
  /\ tree' = [tree EXCEPT ![s] = None]
  /\ cache' = [cache EXCEPT ![s] = [k \in Pairs |-> None]]
  /\ todo' = [todo EXCEPT ![s] = {}]
  /\ asking' = [asking EXCEPT ![s] = NoRequest]
  /\ answer' = [answer EXCEPT ![s] = None]
  /\ next_file' = [next_file EXCEPT ![s] = NoRules]
  /\ granted' = [granted EXCEPT ![s] = {}]
  /\ told' = [told EXCEPT ![s] = {}]
  /\ said' = [said EXCEPT ![s] = {}]
  /\ Abandon(s)
  /\ UNCHANGED <<latest, bounds>>

-----------------------------------------------------------------------------
(* CapabilityResolver::resolve and resolve_deferrals *)

Key(r) == <<r.cap, r.pkg>>

\* resolve returns the outcome; resolve_deferrals goes on to the next deferral.
Return(s, r, outcome) ==
  /\ told' = [told EXCEPT ![s] = @ \cup {<<Key(r), outcome>>}]
  /\ asking' = [asking EXCEPT ![s] = NoRequest]
  /\ IF r.deferred
     THEN /\ todo' = [todo EXCEPT ![s] = @ \ {Key(r)}]
          /\ granted' = [granted EXCEPT ![s] =
                           IF outcome = "grant" THEN @ \cup {Key(r)} ELSE @]
     ELSE UNCHANGED <<todo, granted>>

\* A fresh decision, of whatever kind, is cached for the path and the package.
Conclude(s, r, outcome) ==
  /\ cache' = [cache EXCEPT ![s][Key(r)] = outcome]
  /\ phase' = [phase EXCEPT ![s] = "ready"]
  /\ Return(s, r, outcome)

\* Deferrals are resolved first, and always as fresh.
Asks(s, r) ==
  /\ phase[s] = "ready"
  /\ IF todo[s] # {} THEN r.deferred /\ Key(r) \in todo[s] /\ r.origin = "fresh"
                     ELSE ~ r.deferred /\ <<r.cap, r.pkg, r.origin>> \in tree[s].asks

CacheHit(s, r) ==
  /\ Asks(s, r)
  /\ cache[s][Key(r)] # None
  /\ Return(s, r, cache[s][Key(r)])
  /\ UNCHANGED <<fileVars, phase, rules, tree, cache, answer, next_file, said,
                 latest, bounds>>

\* A rule that rules, or the default where there is no rule.
Static(p, r) == LET d == Find(p, r.cap, r.origin)
                IN  IF d = None THEN EffectiveDefault(p) ELSE d

\* Seeded defect: the rules are asked again although there is a decision.
DecideAgain(s, r) ==
  /\ Asks(s, r)
  /\ Static(rules[s], r) \in Rulings
  /\ Conclude(s, r, Static(rules[s], r))
  /\ UNCHANGED <<fileVars, rules, tree, answer, next_file, said, latest, bounds>>

Decide(s, r) ==
  /\ Asks(s, r)
  /\ cache[s][Key(r)] = None
  /\ Static(rules[s], r) \in Rulings
  /\ Conclude(s, r, Static(rules[s], r))
  /\ UNCHANGED <<fileVars, rules, tree, answer, next_file, said, latest, bounds>>

\* handle_prompt without a callback, and a prompt that cannot open the terminal.
NoTerminal(s, r) ==
  /\ Asks(s, r)
  /\ cache[s][Key(r)] = None
  /\ Static(rules[s], r) = "prompt"
  /\ Conclude(s, r, "deny")
  /\ UNCHANGED <<fileVars, rules, tree, answer, next_file, said, latest, bounds>>

-----------------------------------------------------------------------------
(* The prompt *)

\* DevTtyPrompt::prompt shows the question.  Help keys, other keys and the end
\* of the input show it again, which is no step here.
Ask(s, r) ==
  /\ Asks(s, r)
  /\ cache[s][Key(r)] = None
  /\ Static(rules[s], r) = "prompt"
  /\ phase' = [phase EXCEPT ![s] = "prompt"]
  /\ asking' = [asking EXCEPT ![s] = r]
  /\ UNCHANGED <<fileVars, rules, tree, cache, todo, answer, next_file, granted,
                 history, bounds>>

Said(s, d) == said' = [said EXCEPT ![s] = @ \cup {<<Key(asking[s]), d>>}]

\* g or d: for this session.
AnswerOnce(s, d) ==
  /\ phase[s] = "prompt"
  /\ Said(s, d)
  /\ Conclude(s, asking[s], d)
  /\ UNCHANGED <<fileVars, rules, tree, answer, next_file, latest, bounds>>

\* G or D: for this session and for the file.
AnswerPermanent(s, d) ==
  /\ phase[s] = "prompt"
  /\ answers < MaxAnswers
  /\ answers' = answers + 1
  /\ Said(s, d)
  /\ phase' = [phase EXCEPT ![s] = "load"]
  /\ answer' = [answer EXCEPT ![s] = d]
  /\ UNCHANGED <<fileVars, rules, tree, cache, todo, asking, next_file, granted,
                 told, latest, edits>>

\* Seeded defect: a prompt that fails grants.
PromptFailsOpen(s) ==
  /\ phase[s] = "prompt"
  /\ Conclude(s, asking[s], "grant")
  /\ UNCHANGED <<fileVars, rules, tree, answer, next_file, said, latest, bounds>>

\* Reading or writing the terminal fails: PromptCrash.
PromptFails(s) ==
  /\ phase[s] = "prompt"
  /\ Conclude(s, asking[s], "deny")
  /\ UNCHANGED <<fileVars, rules, tree, answer, next_file, said, latest, bounds>>

-----------------------------------------------------------------------------
(* write_permanent: load, change, save *)

Saved(s) ==
  /\ Conclude(s, asking[s], answer[s])
  /\ answer' = [answer EXCEPT ![s] = None]
  /\ next_file' = [next_file EXCEPT ![s] = NoRules]
  /\ UNCHANGED <<rules, tree, said, bounds>>

\* Seeded defect: the policy read at the start is changed and saved.
SaveOwnRules(s) ==
  /\ phase[s] = "load"
  /\ Content # Broken
  /\ next_file' = [next_file EXCEPT ![s] =
                     Upsert(rules[s], asking[s].cap, asking[s].origin, answer[s])]
  /\ phase' = [phase EXCEPT ![s] = "open"]
  /\ StartSave(s, Underway)
  /\ UNCHANGED <<rules, tree, cache, todo, asking, answer, granted, history, bounds>>

LoadPolicy(s) ==
  /\ phase[s] = "load"
  /\ Content # Broken
  /\ next_file' = [next_file EXCEPT ![s] =
                     Upsert(Content, asking[s].cap, asking[s].origin, answer[s])]
  /\ phase' = [phase EXCEPT ![s] = "open"]
  /\ StartSave(s, Underway)
  /\ UNCHANGED <<rules, tree, cache, todo, asking, answer, granted, history, bounds>>

\* Seeded defect: a policy that does not load is a prompt that failed.
LoadFailsAsCrash(s) ==
  /\ phase[s] = "load"
  /\ Content = Broken
  /\ Conclude(s, asking[s], "deny")
  /\ answer' = [answer EXCEPT ![s] = None]
  /\ UNCHANGED <<fileVars, rules, tree, next_file, said, latest, bounds>>

\* Every failure turns the answer into one for this session.
LoadFails(s) ==
  /\ phase[s] = "load"
  /\ Content = Broken
  /\ Saved(s)
  /\ UNCHANGED <<fileVars, latest>>

OpenPolicy(s) ==
  /\ phase[s] = "open"
  /\ OpenTmp(s)
  /\ phase' = [phase EXCEPT ![s] = "write"]
  /\ UNCHANGED <<rules, tree, cache, todo, asking, answer, next_file, granted,
                 history, bounds>>

WritePolicy(s) ==
  /\ phase[s] = "write"
  /\ WriteTmp(s, next_file[s])
  /\ phase' = [phase EXCEPT ![s] = "rename"]
  /\ UNCHANGED <<rules, tree, cache, todo, asking, answer, next_file, granted,
                 history, bounds>>

WriteFails(s) ==
  /\ phase[s] \in {"open", "write"}
  /\ Abandon(s)
  /\ Saved(s)
  /\ UNCHANGED latest

RenamePolicy(s) ==
  /\ phase[s] = "rename"
  /\ RenameTmp(s, next_file[s])
  /\ Saved(s)
  /\ latest' = [k \in DOMAIN latest |->
                  IF lone # s THEN None
                  ELSE IF k = <<asking[s].cap, asking[s].origin>> THEN answer[s]
                  ELSE latest[k]]

RenamePolicyFails(s) ==
  /\ phase[s] = "rename"
  /\ RenameFails(s)
  /\ Saved(s)
  /\ UNCHANGED latest

\* The user edits the policy by hand.
Edit(p) ==
  /\ edits < MaxEdits
  /\ Replace(p)
  /\ edits' = edits + 1
  /\ latest' = [k \in Caps \X Origins |-> None]
  /\ UNCHANGED <<session, told, said, answers>>

-----------------------------------------------------------------------------
Next ==
  \/ \E p \in Policies : Edit(p)
  \/ \E s \in Sessions :
       \/ \E t \in Trees : Boot(s, t)
       \/ End(s)
       \/ \E r \in Requests : \/ CacheHit(s, r) \/ Decide(s, r)
                              \/ NoTerminal(s, r) \/ Ask(s, r)
       \/ \E d \in {"grant", "deny"} : AnswerOnce(s, d) \/ AnswerPermanent(s, d)
       \/ PromptFails(s)
       \/ LoadPolicy(s) \/ LoadFails(s) \/ OpenPolicy(s) \/ WritePolicy(s)
       \/ WriteFails(s) \/ RenamePolicy(s) \/ RenamePolicyFails(s)

Spec == Init /\ [][Next]_vars

-----------------------------------------------------------------------------
(* Properties *)

\* The variables hold what they are said to hold.
TypeOK ==
  /\ file \in Inodes \cup {Absent} /\ tmp \in Inodes \cup {Absent}
  /\ lone \in Sessions \cup {Absent} /\ due \in PolicyRules \cup {Broken, Absent}
  /\ data \in [Inodes -> PolicyRules \cup {Broken}]
  /\ fd \in [Sessions -> Inodes \cup {Absent}]
  /\ phase \in [Sessions -> Phases]
  /\ rules \in [Sessions -> PolicyRules] /\ next_file \in [Sessions -> PolicyRules]
  /\ tree \in [Sessions -> Trees \cup {None}]
  /\ cache \in [Sessions -> [Pairs -> Rulings \cup {None}]]
  /\ todo \in [Sessions -> SUBSET Pairs] /\ granted \in [Sessions -> SUBSET Pairs]
  /\ asking \in [Sessions -> Requests \cup {NoRequest}]
  /\ answer \in [Sessions -> {"grant", "deny", None}]
  /\ latest \in [Caps \X Origins -> {"grant", "deny", None}]
  /\ edits \in 0..MaxEdits /\ answers \in 0..MaxAnswers

\* Within a session a capability is decided once for a package: whatever is
\* asked later, with whatever origin, and whatever becomes of the file, the
\* answer is the same (resolve, "idempotent on the same key").
OneAnswer ==
  \A s \in Sessions : \A x, y \in told[s] : x[1] = y[1] => x[2] = y[2]

\* A grant is always somebody's doing: for this very capability and package
\* either the user said so in this session, or the policy the session started
\* with has a rule or a default that grants.  A prompt that failed, a policy
\* that could not be written and another package's answer grant nothing.
GrantsJustified ==
  \A s \in Sessions : \A k \in Pairs : <<k, "grant">> \in told[s] =>
    \/ <<k, "grant">> \in said[s]
    \/ \E r \in Requests : Key(r) = k /\ Static(rules[s], r) = "grant"

\* The user is asked once for a capability and a package, and the answer is
\* what the session then goes by.
UserObeyed ==
  \A s \in Sessions : \A u \in said[s], x \in told[s] : u[1] = x[1] => u[2] = x[2]

\* The root package decides alone: a deferral is granted only for a path the
\* root itself claims as deferred and no package without a claim gets it.
RootDecides ==
  \A s \in Sessions : \A k \in granted[s] :
    /\ [cap |-> k[1], level |-> "defer"] \in tree[s].claims[tree[s].root]
    /\ \E l \in Levels : [cap |-> k[1], level |-> l] \in tree[s].claims[k[2]]

\* A permanent answer whose save met no other is what the file says until it is
\* answered again, the file is edited or two saves meet: a session that read the
\* policy long ago loses no answer saved since (write_permanent loads again), nor
\* does a save that fails or is killed at any point.
Remembered ==
  \A c \in Caps, o \in Origins : latest[<<c, o>>] # None =>
    Content # Broken /\ Content.rule[<<c, o>>] = latest[<<c, o>>]

\* PolicyRules::save: the policy found on disk is the text of the last edit or
\* of the last save, whole, unless that save met another.
PublishedWhole == Whole

-----------------------------------------------------------------------------
(* What two saves that meet break: no lock keeps them apart *)

\* A save changes the one rule that was answered and no other (tty_prompt.rs,
\* "load-modify-save").
SavesOneRule ==
  [][\A s \in Sessions : RenamePolicy(s) /\ Content # Broken =>
       /\ Content' # Broken
       /\ \A k \in Caps \X Origins : k # <<asking[s].cap, asking[s].origin>> =>
            Content'.rule[k] = Content.rule[k]]_vars
=============================================================================
