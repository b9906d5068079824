---------------------------- MODULE PolicyProofs ----------------------------
(***************************************************************************)
(* Proofs about the sessions of Policy: whatever the policies, the trees,  *)
(* the number of sessions and what becomes of the file, a session answers  *)
(* a question one way, grants nothing on its own account and goes by what  *)
(* the user said.                                                          *)
(*                                                                         *)
(* The three properties compare answers that were returned at different    *)
(* times.  What makes them inductive is the cache: every answer returned,  *)
(* and every answer of the user that is not still on its way to the file,  *)
(* is the cached one, and a question is only put while its entry is empty. *)
(***************************************************************************)
EXTENDS Policy, FiniteSetTheorems, TLAPS

\* SavedFile numbers its inodes so that there is always one left for a new file.
LEMMA InodesFacts ==
  /\ Inodes \subseteq Nat /\ Absent \notin Inodes /\ 0 \in Inodes
  /\ IsFiniteSet(Inodes) /\ Cardinality(Inodes) = Cardinality(Savers) + 3
<1>1. Cardinality(Savers) \in Nat
      BY SavedFileAssumption, FS_CardinalityType
<1>2. IsFiniteSet(Inodes) /\ Cardinality(Inodes) = Cardinality(Savers) + 3
      BY <1>1, FS_Interval DEF Inodes
<1> QED
    BY <1>1, <1>2, SavedFileAssumption DEF Inodes

\* A new file gets an inode that nothing refers to: the names and the open files
\* refer to fewer than there are.
LEMMA NewInodeFree == NewInode \in Inodes /\ Free(NewInode)
<1> DEFINE opened == {fd[s] : s \in Savers}
           refs == (opened \cup {file}) \cup {tmp}
<1>1. IsFiniteSet(opened) /\ Cardinality(opened) <= Cardinality(Savers)
  <2> DEFINE f == [s \in Savers |-> fd[s]]
  <2>1. f \in Surjection(Savers, opened)
        BY DEF Surjection
  <2> QED
      BY <2>1, SavedFileAssumption, FS_Surjection
<1>2. IsFiniteSet(refs) /\ Cardinality(refs) <= Cardinality(Savers) + 2
  <2> HIDE DEF opened
  <2>1. /\ Cardinality(opened) \in Nat /\ Cardinality(Savers) \in Nat
        BY <1>1, SavedFileAssumption, FS_CardinalityType
  <2>2. /\ IsFiniteSet(opened \cup {file})
        /\ Cardinality(opened \cup {file}) <= Cardinality(Savers) + 1
        /\ Cardinality(opened \cup {file}) \in Nat
        BY <1>1, <2>1, FS_AddElement, FS_CardinalityType
  <2> QED
      BY <2>1, <2>2, FS_AddElement
<1>3. ~ (Inodes \subseteq refs)
  <2> HIDE DEF refs
  <2>1. Cardinality(Savers) \in Nat
        BY SavedFileAssumption, FS_CardinalityType
  <2>2. Inodes \subseteq refs => Cardinality(Inodes) <= Cardinality(refs)
        BY <1>2, FS_Subset
  <2>3. Cardinality(refs) \in Nat
        BY <1>2, FS_CardinalityType
  <2> QED
      BY <1>2, <2>1, <2>2, <2>3, InodesFacts
<1> QED
    BY <1>3 DEF Free, NewInode

OnTheWay(s) == phase[s] \in {"load", "open", "write", "rename"}
Busy(s)     == phase[s] = "prompt" \/ OnTheWay(s)

\* The variables of a session are of their types.
SessionTypes ==
  /\ phase \in [Sessions -> Phases]
  /\ cache \in [Sessions -> [Pairs -> Rulings \cup {None}]]
  /\ \A f \in {rules, asking, answer, told, said} : DOMAIN f = Sessions

\* A question is open only while the cache has no answer to it.
QuestionOpen(s) ==
  Busy(s) => asking[s] \in Requests /\ cache[s][Key(asking[s])] = None

\* A permanent answer is one the user has given.
AnswerSaid(s) ==
  OnTheWay(s) => /\ answer[s] \in {"grant", "deny"}
                 /\ <<Key(asking[s]), answer[s]>> \in said[s]

\* Every answer that was returned is the cached one.
ToldCached(s) ==
  \A x \in told[s] : \E k \in Pairs : x = <<k, cache[s][k]>> /\ cache[s][k] # None

\* So is every answer of the user, but for the one on its way to the file.
SaidCached(s) ==
  \A u \in said[s] : \E k \in Pairs, d \in Rulings :
    /\ u = <<k, d>>
    /\ \/ cache[s][k] = d
       \/ OnTheWay(s) /\ k = Key(asking[s]) /\ d = answer[s]

RuledGrant(s, k) == \E r \in Requests : Key(r) = k /\ Static(rules[s], r) = "grant"

\* A grant in the cache is the user's or the policy's.
CachedJustified(s) ==
  \A k \in Pairs : cache[s][k] = "grant" => <<k, "grant">> \in said[s] \/ RuledGrant(s, k)

\* Before it starts a session has decided nothing.
Forgotten(s) ==
  phase[s] = "off" => told[s] = {} /\ said[s] = {} /\ \A k \in Pairs : cache[s][k] = None

SessionInv(s) ==
  /\ Forgotten(s)
  /\ QuestionOpen(s)
  /\ AnswerSaid(s)
  /\ ToldCached(s)
  /\ SaidCached(s)
  /\ CachedJustified(s)

IInv == SessionTypes /\ \A s \in Sessions : SessionInv(s)

-----------------------------------------------------------------------------
LEMMA NoneNoDecision == None \notin Rulings \cup {"prompt"}
BY PolicyAssumption DEF Decision

LEMMA KeyInPairs == \A r \in Requests : Key(r) \in Pairs
BY DEF Requests, Key, Pairs

LEMMA InitIInv == Init => IInv
<1> SUFFICES ASSUME Init PROVE IInv
    OBVIOUS
<1>1. SessionTypes
      BY DEF Init, SessionTypes, Phases
<1>2. ASSUME NEW s \in Sessions PROVE SessionInv(s)
      BY <1>2, NoneNoDecision DEF Init, SessionInv, Forgotten, QuestionOpen, AnswerSaid, ToldCached, SaidCached,
         CachedJustified, Busy, OnTheWay, Rulings
<1> QED
    BY <1>1, <1>2 DEF IInv

\* The other sessions are as they were when one takes a step.
Others(s) ==
  \A o \in Sessions \ {s} :
    /\ phase'[o] = phase[o] /\ rules'[o] = rules[o] /\ cache'[o] = cache[o]
    /\ asking'[o] = asking[o] /\ answer'[o] = answer[o]
    /\ told'[o] = told[o] /\ said'[o] = said[o]

LEMMA OthersKeep ==
  ASSUME IInv, NEW s \in Sessions, Others(s), SessionTypes', SessionInv(s)'
  PROVE  IInv'
<1>1. ASSUME NEW o \in Sessions \ {s} PROVE SessionInv(o)'
      BY <1>1 DEF IInv, Others, SessionInv, Forgotten, QuestionOpen, AnswerSaid, ToldCached, SaidCached,
         CachedJustified, RuledGrant, Busy, OnTheWay
<1> QED
    BY <1>1 DEF IInv

\* Concluding a question whose entry is empty.
LEMMA ConcludeKeeps ==
  ASSUME IInv, NEW s \in Sessions, NEW r \in Requests, NEW outcome \in Rulings,
         Conclude(s, r, outcome), UNCHANGED rules,
         DOMAIN answer' = Sessions,
         \A o \in Sessions \ {s} : answer'[o] = answer[o],
         cache[s][Key(r)] = None,
         OnTheWay(s) => r = asking[s] /\ outcome = answer[s],
         \/ UNCHANGED said
         \/ said' = [said EXCEPT ![s] = @ \cup {<<Key(r), outcome>>}],
         outcome = "grant" => \/ <<Key(r), "grant">> \in said'[s]
                              \/ RuledGrant(s, Key(r))
  PROVE  IInv'
<1> DEFINE k == Key(r)
<1>1. k \in Pairs
      BY KeyInPairs
<1>2. SessionTypes'
  <2>1. phase' \in [Sessions -> Phases]
        BY DEF IInv, SessionTypes, Conclude, Phases
  <2>2. cache' \in [Sessions -> [Pairs -> Rulings \cup {None}]]
        BY <1>1 DEF IInv, SessionTypes, Conclude
  <2> QED
      BY <2>1, <2>2 DEF IInv, SessionTypes, Conclude, Return
<1>3. Others(s)
      BY DEF IInv, SessionTypes, Conclude, Return, Others
<1>4. cache'[s][k] = outcome /\ \A j \in Pairs \ {k} : cache'[s][j] = cache[s][j]
      BY <1>1 DEF IInv, SessionTypes, Conclude
<1>5. phase'[s] = "ready" /\ said[s] \subseteq said'[s]
      BY DEF IInv, SessionTypes, Conclude
<1>6. SessionInv(s)'
  <2>1. Forgotten(s)' /\ QuestionOpen(s)' /\ AnswerSaid(s)'
        BY <1>5 DEF Forgotten, QuestionOpen, AnswerSaid, Busy, OnTheWay
  <2>2. told'[s] = told[s] \cup {<<k, outcome>>}
        BY DEF IInv, SessionTypes, Conclude, Return
  <2>3. ASSUME NEW x \in told'[s] PROVE \E j \in Pairs : x = <<j, cache'[s][j]>> /\ cache'[s][j] # None
    <3>1. CASE x = <<k, outcome>>
          BY <3>1, <1>1, <1>4, NoneNoDecision
    <3>2. CASE x \in told[s]
      <4>1. PICK j \in Pairs : x = <<j, cache[s][j]>> /\ cache[s][j] # None
            BY <3>2 DEF IInv, SessionInv, ToldCached
      <4> QED
          BY <4>1, <1>4
    <3> QED
        BY <2>2, <2>3, <3>1, <3>2
  <2>4. ASSUME NEW u \in said'[s]
        PROVE  \E j \in Pairs, d \in Rulings : u = <<j, d>> /\ cache'[s][j] = d
    <3>1. CASE u \in said[s]
      <4>1. PICK j \in Pairs, d \in Rulings :
              /\ u = <<j, d>>
              /\ \/ cache[s][j] = d
                 \/ OnTheWay(s) /\ j = Key(asking[s]) /\ d = answer[s]
            BY <3>1 DEF IInv, SessionInv, SaidCached
      <4>2. cache'[s][j] = d
            BY <4>1, <1>4, NoneNoDecision
      <4> QED
          BY <4>1, <4>2
    <3>2. CASE u = <<k, outcome>>
          BY <3>2, <1>1, <1>4
    <3>3. said'[s] \subseteq said[s] \cup {<<k, outcome>>}
          BY DEF IInv, SessionTypes
    <3> QED
        BY <2>4, <3>1, <3>2, <3>3
  <2>5. ASSUME NEW j \in Pairs, cache'[s][j] = "grant"
        PROVE  <<j, "grant">> \in said'[s] \/ RuledGrant(s, j)
        BY <2>5, <1>4, <1>5 DEF IInv, SessionInv, CachedJustified
  <2>6. \A j \in Pairs : RuledGrant(s, j)' <=> RuledGrant(s, j)
        BY DEF RuledGrant
  <2> QED
      BY <2>1, <2>3, <2>4, <2>5, <2>6 DEF SessionInv, ToldCached, SaidCached, CachedJustified
<1> QED
    BY <1>2, <1>3, <1>6, OthersKeep

-----------------------------------------------------------------------------
\* An answer from the cache.
LEMMA CacheHitKeeps ==
  ASSUME IInv, NEW s \in Sessions, NEW r \in Requests, CacheHit(s, r)
  PROVE  IInv'
<1>1. Key(r) \in Pairs
      BY KeyInPairs
<1>2. told' = [told EXCEPT ![s] = @ \cup {<<Key(r), cache[s][Key(r)]>>}]
      BY DEF CacheHit, Return
<1>3. phase[s] = "ready" /\ cache[s][Key(r)] # None
      BY DEF CacheHit, Asks
<1>4. SessionTypes' /\ Others(s)
      BY DEF IInv, SessionTypes, CacheHit, Return, Others
<1>5. SessionInv(s)'
  <2>1. told'[s] = told[s] \cup {<<Key(r), cache[s][Key(r)]>>}
        BY <1>2 DEF IInv, SessionTypes
  <2>2. ToldCached(s)'
        BY <1>1, <1>3, <2>1 DEF IInv, SessionInv, ToldCached, CacheHit
  <2>3. ~ Busy(s) /\ ~ Busy(s)'
        BY <1>3 DEF Busy, OnTheWay, CacheHit
  <2>4. Forgotten(s)' /\ QuestionOpen(s)' /\ AnswerSaid(s)'
        BY <1>3, <2>3 DEF Forgotten, QuestionOpen, AnswerSaid, Busy, CacheHit
  <2>5. SaidCached(s)' /\ CachedJustified(s)'
        BY <2>3 DEF IInv, SessionInv, SaidCached, CachedJustified, RuledGrant, CacheHit, Busy
  <2> QED
      BY <2>2, <2>4, <2>5 DEF SessionInv
<1> QED
    BY <1>4, <1>5, OthersKeep

\* A session starts or ends with nothing decided.
LEMMA ForgetKeeps ==
  ASSUME IInv, NEW s \in Sessions,
         (\E t \in Trees : Boot(s, t)) \/ End(s)
  PROVE  IInv'
<1>1. CASE \E t \in Trees : Boot(s, t)
  <2>1. SessionTypes' /\ Others(s)
        BY <1>1 DEF IInv, SessionTypes, Boot, Others, Phases, history
  <2>2. /\ phase'[s] = "ready" /\ told'[s] = {} /\ said'[s] = {}
        /\ \A k \in Pairs : cache'[s][k] = None
        BY <1>1 DEF IInv, SessionTypes, Boot, SessionInv, Forgotten, history
  <2>3. SessionInv(s)'
        BY <2>2, NoneNoDecision DEF SessionInv, Forgotten, QuestionOpen, AnswerSaid, ToldCached,
           SaidCached, CachedJustified, Busy, OnTheWay, Rulings
  <2> QED
      BY <2>1, <2>3, OthersKeep
<1>2. CASE End(s)
  <2>1. SessionTypes' /\ Others(s)
        BY <1>2 DEF IInv, SessionTypes, End, Others, Phases
  <2>2. /\ phase'[s] = "off" /\ told'[s] = {} /\ said'[s] = {}
        /\ \A k \in Pairs : cache'[s][k] = None
        BY <1>2 DEF IInv, SessionTypes, End
  <2>3. SessionInv(s)'
        BY <2>2, NoneNoDecision DEF SessionInv, Forgotten, QuestionOpen, AnswerSaid, ToldCached, SaidCached,
           CachedJustified, Busy, OnTheWay, Rulings
  <2> QED
      BY <2>1, <2>3, OthersKeep
<1> QED
    BY <1>1, <1>2

\* A step of a session that decides nothing and says nothing.
LEMMA WaitingKeeps ==
  ASSUME IInv, NEW s \in Sessions, NEW p \in Phases \ {"off"},
         phase' = [phase EXCEPT ![s] = p],
         UNCHANGED <<rules, cache, asking, answer, told, said>>,
         OnTheWay(s), p \in {"load", "open", "write", "rename"}
  PROVE  IInv'
<1>1. SessionTypes' /\ Others(s)
      BY DEF IInv, SessionTypes, Others
<1>2. OnTheWay(s)' /\ Busy(s) /\ phase'[s] # "off"
      BY DEF IInv, SessionTypes, OnTheWay, Busy
<1>3. SessionInv(s)'
      BY <1>2 DEF IInv, SessionInv, Forgotten, QuestionOpen, AnswerSaid, ToldCached, SaidCached,
         CachedJustified, RuledGrant
<1> QED
    BY <1>1, <1>3, OthersKeep

LEMMA AskKeeps ==
  ASSUME IInv, NEW s \in Sessions, NEW r \in Requests, Ask(s, r)
  PROVE  IInv'
<1>1. SessionTypes' /\ Others(s)
      BY DEF IInv, SessionTypes, Ask, Others, Phases, history
<1>2. phase'[s] = "prompt" /\ asking'[s] = r /\ cache[s][Key(r)] = None /\ phase[s] = "ready"
      BY DEF IInv, SessionTypes, Ask, Asks
<1>3. UNCHANGED <<rules, cache, told, said>> /\ ~ OnTheWay(s) /\ ~ OnTheWay(s)'
      BY <1>2 DEF Ask, history, OnTheWay
<1>4. Forgotten(s)' /\ QuestionOpen(s)' /\ AnswerSaid(s)'
      BY <1>2, <1>3 DEF Forgotten, QuestionOpen, AnswerSaid
<1>5. ToldCached(s)' /\ SaidCached(s)' /\ CachedJustified(s)'
      BY <1>3 DEF IInv, SessionInv, ToldCached, SaidCached, CachedJustified, RuledGrant
<1> QED
    BY <1>1, <1>4, <1>5, OthersKeep DEF SessionInv

LEMMA AnswerPermanentKeeps ==
  ASSUME IInv, NEW s \in Sessions, NEW d \in {"grant", "deny"}, AnswerPermanent(s, d)
  PROVE  IInv'
<1> DEFINE k == Key(asking[s])
<1>1. SessionTypes' /\ Others(s)
      BY DEF IInv, SessionTypes, AnswerPermanent, Said, Others, Phases
<1>2. asking[s] \in Requests /\ cache[s][k] = None /\ k \in Pairs /\ phase[s] = "prompt"
      BY KeyInPairs DEF IInv, SessionInv, QuestionOpen, Busy, AnswerPermanent
<1>3. /\ phase'[s] = "load" /\ answer'[s] = d /\ said'[s] = said[s] \cup {<<k, d>>}
      /\ UNCHANGED <<asking, cache, told, rules>>
      BY DEF IInv, SessionTypes, AnswerPermanent, Said
<1>4. Forgotten(s)' /\ QuestionOpen(s)' /\ AnswerSaid(s)' /\ ToldCached(s)'
      BY <1>2, <1>3 DEF IInv, SessionInv, Forgotten, QuestionOpen, AnswerSaid, ToldCached
<1>5. SaidCached(s)'
  <2>1. ASSUME NEW u \in said[s] PROVE \E j \in Pairs, e \in Rulings : u = <<j, e>> /\ cache[s][j] = e
        BY <2>1, <1>2 DEF IInv, SessionInv, SaidCached, OnTheWay
  <2>2. d \in Rulings /\ OnTheWay(s)'
        BY <1>3 DEF Rulings, OnTheWay
  <2> QED
      BY <1>2, <1>3, <2>1, <2>2 DEF SaidCached
<1>6. CachedJustified(s)'
      BY <1>3 DEF IInv, SessionInv, CachedJustified, RuledGrant
<1> QED
    BY <1>1, <1>4, <1>5, <1>6, OthersKeep DEF SessionInv

-----------------------------------------------------------------------------
\* The answers of a session that concludes what it was asked.
LEMMA SavedKeeps ==
  ASSUME IInv, NEW s \in Sessions, OnTheWay(s), Saved(s)
  PROVE  IInv'
<1>1. asking[s] \in Requests /\ cache[s][Key(asking[s])] = None
      BY DEF IInv, SessionInv, QuestionOpen, Busy
<1>2. answer[s] \in Rulings /\ <<Key(asking[s]), answer[s]>> \in said[s]
      BY DEF IInv, SessionInv, AnswerSaid, Rulings
<1>3. DOMAIN answer' = Sessions /\ \A o \in Sessions \ {s} : answer'[o] = answer[o]
      BY DEF IInv, SessionTypes, Saved
<1>4. UNCHANGED <<rules, said>> /\ Conclude(s, asking[s], answer[s])
      BY DEF Saved
<1> QED
    BY <1>1, <1>2, <1>3, <1>4, ConcludeKeeps

LEMMA PromptEndsKeep ==
  ASSUME IInv, NEW s \in Sessions,
         (\E d \in {"grant", "deny"} : AnswerOnce(s, d)) \/ PromptFails(s)
  PROVE  IInv'
<1>1. phase[s] = "prompt" /\ ~ OnTheWay(s) /\ UNCHANGED <<rules, answer>>
      BY DEF AnswerOnce, PromptFails, OnTheWay
<1>2. asking[s] \in Requests /\ cache[s][Key(asking[s])] = None
      BY <1>1 DEF IInv, SessionInv, QuestionOpen, Busy
<1>3. DOMAIN answer' = Sessions /\ \A o \in Sessions \ {s} : answer'[o] = answer[o]
      BY <1>1 DEF IInv, SessionTypes
<1>4. CASE PromptFails(s)
  <2>1. Conclude(s, asking[s], "deny") /\ UNCHANGED said
        BY <1>4 DEF PromptFails
  <2>2. "deny" \in Rulings
        BY DEF Rulings
  <2> QED
      BY <1>1, <1>2, <1>3, <2>1, <2>2, ConcludeKeeps
<1>5. ASSUME NEW d \in {"grant", "deny"}, AnswerOnce(s, d) PROVE IInv'
  <2>1. /\ Conclude(s, asking[s], d)
        /\ said' = [said EXCEPT ![s] = @ \cup {<<Key(asking[s]), d>>}]
        BY <1>5 DEF AnswerOnce, Said
  <2>2. d \in Rulings
        BY DEF Rulings
  <2>3. <<Key(asking[s]), d>> \in said'[s]
        BY <2>1 DEF IInv, SessionTypes
  <2> QED
      BY <1>1, <1>2, <1>3, <2>1, <2>2, <2>3, ConcludeKeeps
<1> QED
    BY <1>4, <1>5

\* A decision by the rules, or for want of a terminal.
LEMMA DecideKeeps ==
  ASSUME IInv, NEW s \in Sessions, NEW r \in Requests, Decide(s, r) \/ NoTerminal(s, r)
  PROVE  IInv'
<1>1. /\ ~ OnTheWay(s) /\ UNCHANGED <<rules, answer, said>>
      /\ cache[s][Key(r)] = None
      BY DEF Decide, NoTerminal, Asks, OnTheWay
<1>2. DOMAIN answer' = Sessions /\ \A o \in Sessions \ {s} : answer'[o] = answer[o]
      BY <1>1 DEF IInv, SessionTypes
<1>3. PICK outcome \in Rulings :
        /\ Conclude(s, r, outcome)
        /\ outcome = "grant" => Static(rules[s], r) = "grant"
      BY DEF Decide, NoTerminal, Rulings
<1>4. outcome = "grant" => RuledGrant(s, Key(r))
      BY <1>3 DEF RuledGrant
<1> QED
    BY <1>1, <1>2, <1>3, <1>4, ConcludeKeeps

-----------------------------------------------------------------------------
LEMMA NextIInv == IInv /\ [Next]_vars => IInv'
<1> SUFFICES ASSUME IInv, [Next]_vars PROVE IInv'
    OBVIOUS
<1>1. CASE UNCHANGED <<session, told, said>>
  <2>1. UNCHANGED <<phase, rules, cache, asking, answer, told, said>>
        BY <1>1 DEF session
  <2>2. ASSUME NEW s \in Sessions PROVE SessionInv(s)'
    <3>1. Forgotten(s)' /\ QuestionOpen(s)' /\ AnswerSaid(s)'
          BY <2>1 DEF IInv, SessionInv, Forgotten, QuestionOpen, AnswerSaid, Busy, OnTheWay
    <3>2. ToldCached(s)' /\ SaidCached(s)' /\ CachedJustified(s)'
          BY <2>1 DEF IInv, SessionInv, ToldCached, SaidCached, CachedJustified, RuledGrant, OnTheWay
    <3> QED
        BY <3>1, <3>2 DEF SessionInv
  <2>3. SessionTypes'
        BY <2>1 DEF IInv, SessionTypes
  <2> QED
      BY <2>2, <2>3 DEF IInv
<1>2. ASSUME NEW p \in Policies, Edit(p) PROVE IInv'
      BY <1>1, <1>2 DEF Edit
<1>3. ASSUME NEW s \in Sessions, (\E t \in Trees : Boot(s, t)) \/ End(s) PROVE IInv'
      BY <1>3, ForgetKeeps
<1>4. ASSUME NEW s \in Sessions, NEW r \in Requests,
             CacheHit(s, r) \/ Decide(s, r) \/ NoTerminal(s, r) \/ Ask(s, r)
      PROVE  IInv'
      BY <1>4, CacheHitKeeps, DecideKeeps, AskKeeps
<1>5. ASSUME NEW s \in Sessions, NEW d \in {"grant", "deny"},
             AnswerOnce(s, d) \/ AnswerPermanent(s, d)
      PROVE  IInv'
      BY <1>5, PromptEndsKeep, AnswerPermanentKeeps
<1>6. ASSUME NEW s \in Sessions, PromptFails(s) PROVE IInv'
      BY <1>6, PromptEndsKeep
<1>7. ASSUME NEW s \in Sessions, LoadPolicy(s) \/ OpenPolicy(s) \/ WritePolicy(s) PROVE IInv'
  <2>1. /\ OnTheWay(s) /\ UNCHANGED <<rules, cache, asking, answer, told, said>>
        /\ \E p \in {"open", "write", "rename"} : phase' = [phase EXCEPT ![s] = p]
        BY <1>7 DEF LoadPolicy, OpenPolicy, WritePolicy, OnTheWay, history
  <2> QED
      BY <2>1, WaitingKeeps DEF Phases
<1>8. ASSUME NEW s \in Sessions,
             LoadFails(s) \/ WriteFails(s) \/ RenamePolicy(s) \/ RenamePolicyFails(s)
      PROVE  IInv'
      BY <1>8, SavedKeeps DEF LoadFails, WriteFails, RenamePolicy, RenamePolicyFails, OnTheWay
<1> QED
    BY <1>1, <1>2, <1>3, <1>4, <1>5, <1>6, <1>7, <1>8 DEF Next, vars, history

-----------------------------------------------------------------------------
LEMMA SpecIInv == Spec => []IInv
BY InitIInv, NextIInv, PTL DEF Spec

\* Whatever is asked, in whatever order and with whatever origin, a session
\* never answers two ways for one capability and package.
THEOREM SpecOneAnswer == Spec => []OneAnswer
<1>1. IInv => OneAnswer
      BY DEF IInv, SessionInv, ToldCached, OneAnswer
<1> QED
    BY <1>1, SpecIInv, PTL

\* No failure and no other package's answer ever turns into a grant.
THEOREM SpecGrantsJustified == Spec => []GrantsJustified
<1>1. IInv => GrantsJustified
  <2> SUFFICES ASSUME IInv, NEW s \in Sessions, NEW k \in Pairs, <<k, "grant">> \in told[s]
               PROVE  <<k, "grant">> \in said[s] \/ RuledGrant(s, k)
      BY DEF GrantsJustified, RuledGrant
  <2>1. cache[s][k] = "grant"
        BY DEF IInv, SessionInv, ToldCached
  <2> QED
      BY <2>1 DEF IInv, SessionInv, CachedJustified
<1> QED
    BY <1>1, SpecIInv, PTL

\* What the user said is what the session goes by, also when the answer could
\* not be written to the file.
THEOREM SpecUserObeyed == Spec => []UserObeyed
<1>1. IInv => UserObeyed
  <2> SUFFICES ASSUME IInv, NEW s \in Sessions, NEW u \in said[s], NEW x \in told[s],
                      u[1] = x[1]
               PROVE  u[2] = x[2]
      BY DEF UserObeyed
  <2>1. PICK k \in Pairs : x = <<k, cache[s][k]>> /\ cache[s][k] # None
        BY DEF IInv, SessionInv, ToldCached
  <2>2. PICK j \in Pairs, d \in Rulings :
          /\ u = <<j, d>>
          /\ \/ cache[s][j] = d
             \/ OnTheWay(s) /\ j = Key(asking[s]) /\ d = answer[s]
        BY DEF IInv, SessionInv, SaidCached
  <2>3. OnTheWay(s) => cache[s][Key(asking[s])] = None
        BY DEF IInv, SessionInv, QuestionOpen, Busy
  <2> QED
      BY <2>1, <2>2, <2>3
<1> QED
    BY <1>1, SpecIInv, PTL

-----------------------------------------------------------------------------
(***************************************************************************)
(* The file.  Saves may meet and be killed as they like.  As long as a     *)
(* save has met no other, nobody else has anything open, and what it will  *)
(* publish is the file's content with its one change; and the file is not  *)
(* open to anybody unless saves have met.                                  *)
(***************************************************************************)
FileTypes ==
  /\ file \in Inodes \cup {Absent} /\ tmp \in Inodes \cup {Absent}
  /\ data \in [Inodes -> PolicyRules \cup {Broken}]
  /\ fd \in [Sessions -> Inodes \cup {Absent}]
  /\ next_file \in [Sessions -> PolicyRules]
  /\ latest \in [Caps \X Origins -> {"grant", "deny", None}]

\* The two names are apart.
Apart == tmp # Absent => tmp # file

\* A session has something open just while it writes.
Opened == \A s \in Sessions : fd[s] # Absent <=> phase[s] = "write"

\* The save that has met no other is the only one, and what it will publish is
\* the file with one rule changed.
LoneSave(s) ==
  /\ Saving(s) /\ \A o \in Sessions \ {s} : ~ Saving(o)
  /\ Content # Broken
  /\ next_file[s] = Upsert(Content, asking[s].cap, asking[s].origin, answer[s])
  /\ phase[s] = "write" => fd[s] = tmp /\ tmp # Absent /\ data[tmp] = Blank
  /\ phase[s] = "rename" => tmp # Absent /\ data[tmp] = next_file[s]

Lone == lone # Absent => lone \in Sessions /\ LoneSave(lone)

\* While it is known what the file should say, it says so and stays so.
Settled == due # Absent => Content = due /\ NeverHalfWritten

\* So does an answer that is to be remembered.
Answered ==
  \A k \in Caps \X Origins : latest[k] # None =>
    NeverHalfWritten /\ Content # Broken /\ Content.rule[k] = latest[k]

FileInv == FileTypes /\ Apart /\ Opened /\ Lone /\ Settled /\ Answered

LEMMA BlankIsPolicy == Blank \in PolicyRules
BY PolicyAssumption DEF NoRules, PolicyRules

LEMMA NoSaverAbsent == \A s \in Sessions : s # Absent
BY SavedFileAssumption DEF Sessions

LEMMA InitFileInv == Init => FileInv
<1> SUFFICES ASSUME Init PROVE FileInv
    OBVIOUS
<1>1. FileTypes
  <2>1. file \in Inodes \cup {Absent} /\ tmp = Absent /\ fd = [s \in Sessions |-> Absent]
        BY InodesFacts DEF Init, FileInit, Sessions
  <2>2. data \in [Inodes -> PolicyRules \cup {Broken}]
        BY BlankIsPolicy, PolicyAssumption DEF Init, FileInit
  <2>3. next_file \in [Sessions -> PolicyRules]
        BY BlankIsPolicy, PolicyAssumption DEF Init
  <2> QED
      BY <2>1, <2>2, <2>3 DEF FileTypes, Init
<1>2. Apart /\ Opened /\ Lone /\ Settled /\ Answered
      BY DEF Init, FileInit, Apart, Opened, Lone, Settled, Answered, NeverHalfWritten, Sessions
<1> QED
    BY <1>1, <1>2 DEF FileInv

\* The other sessions' part in saving is as it was.
Aside(s) ==
  \A o \in Sessions \ {s} :
    /\ phase'[o] = phase[o] /\ asking'[o] = asking[o] /\ answer'[o] = answer[o]
    /\ next_file'[o] = next_file[o] /\ fd'[o] = fd[o]

\* What is in the file stays there, and nobody opens it.
LEMMA SameFileKeeps ==
  ASSUME FileInv, Content' = Content, UNCHANGED <<file, due, latest>>,
         NeverHalfWritten => NeverHalfWritten'
  PROVE  Settled' /\ Answered'
BY DEF FileInv, Settled, Answered

\* A session that saves is alone, or nobody is.
LEMMA LoneOrNobody ==
  ASSUME FileInv, NEW s \in Sessions, Saving(s)
  PROVE  /\ lone = s \/ lone = Absent
         /\ lone = s => \A o \in Sessions \ {s} : ~ Saving(o) /\ fd[o] = Absent
BY NoSaverAbsent DEF FileInv, Lone, LoneSave, Opened, Saving

\* A step of a session that touches neither name and is not saving afterwards.
LEMMA LeaveKeeps ==
  ASSUME FileInv, NEW s \in Sessions, Aside(s), ~ Saving(s)', fd'[s] = Absent,
         UNCHANGED <<file, tmp, data, latest, due>>,
         EndSave(s) \/ (~ Saving(s) /\ UNCHANGED lone),
         fd' \in [Sessions -> Inodes \cup {Absent}],
         next_file' \in [Sessions -> PolicyRules]
  PROVE  FileInv'
<1>1. FileTypes' /\ Apart' /\ Content' = Content
      BY DEF FileInv, FileTypes, Apart, Content
<1>2. Opened'
      BY DEF FileInv, Opened, Aside, Saving
<1>3. NeverHalfWritten => NeverHalfWritten'
      BY DEF FileInv, Settled, NeverHalfWritten, Aside, Sessions
<1>4. Settled' /\ Answered'
      BY <1>1, <1>3, SameFileKeeps
<1>5. Lone'
  <2>1. CASE lone = s \/ lone = Absent
    <3>1. lone' = Absent
          BY <2>1, NoSaverAbsent DEF EndSave, FileInv, Lone, LoneSave
    <3> QED
        BY <3>1 DEF Lone
  <2>2. CASE lone # s /\ lone # Absent
    <3>1. lone \in Sessions \ {s} /\ LoneSave(lone) /\ lone' = lone
          BY <2>2 DEF FileInv, Lone, EndSave
    <3>2. /\ phase'[lone] = phase[lone] /\ asking'[lone] = asking[lone]
          /\ answer'[lone] = answer[lone] /\ next_file'[lone] = next_file[lone]
          /\ fd'[lone] = fd[lone]
          /\ \A o \in Sessions \ {s} : Saving(o)' = Saving(o)
          BY <3>1 DEF Aside, Saving
    <3>3. LoneSave(lone)'
          BY <1>1, <3>1, <3>2 DEF LoneSave, Saving, Upsert
    <3> QED
        BY <3>1, <3>3 DEF Lone
  <2> QED
      BY <2>1, <2>2
<1> QED
    BY <1>1, <1>2, <1>4, <1>5 DEF FileInv

\* A policy with one rule changed is a policy, and differs in that rule only.
LEMMA UpsertFacts ==
  ASSUME NEW p \in PolicyRules, NEW c \in Caps, NEW o \in Origins,
         NEW d \in {"grant", "deny"}
  PROVE  /\ Upsert(p, c, o, d) \in PolicyRules
         /\ Upsert(p, c, o, d).rule[<<c, o>>] = d
         /\ \A e \in Caps, q \in Origins : e # c \/ q # o =>
              Upsert(p, c, o, d).rule[<<e, q>>] = p.rule[<<e, q>>]
<1>1. d \in Decision /\ <<c, o>> \in Caps \X (Origins \cup {"any"})
      BY DEF Decision, Rulings
<1> QED
    BY <1>1 DEF Upsert, PolicyRules

LEMMA ContentType ==
  FileTypes => Content \in PolicyRules \cup {Broken}
BY BlankIsPolicy DEF FileTypes, Content

\* What a saving session was asked and answered is of the right type.
LEMMA SaverTypes ==
  ASSUME IInv, NEW s \in Sessions, OnTheWay(s)
  PROVE  asking[s].cap \in Caps /\ asking[s].origin \in Origins /\ answer[s] \in {"grant", "deny"}
BY DEF IInv, SessionInv, QuestionOpen, AnswerSaid, Busy, Requests

LEMMA LoadKeeps ==
  ASSUME IInv, FileInv, NEW s \in Sessions, LoadPolicy(s)
  PROVE  FileInv'
<1> DEFINE next == Upsert(Content, asking[s].cap, asking[s].origin, answer[s])
<1>1. OnTheWay(s) /\ ~ Saving(s) /\ phase[s] # "write"
      BY DEF LoadPolicy, OnTheWay, Saving
<1>2. Content \in PolicyRules /\ Content # Broken /\ next \in PolicyRules
      BY <1>1, ContentType, SaverTypes, UpsertFacts DEF FileInv, LoadPolicy
<1>3. /\ next_file' = [next_file EXCEPT ![s] = next]
      /\ phase' = [phase EXCEPT ![s] = "open"]
      /\ lone' = IF Underway = {} THEN s ELSE Absent
      /\ UNCHANGED <<file, tmp, data, fd, due, asking, answer, latest>>
      BY DEF LoadPolicy, StartSave, inodeVars, history
<1> HIDE DEF next
<1>4. FileTypes' /\ Apart' /\ Content' = Content
      BY <1>2, <1>3 DEF FileInv, FileTypes, Apart, Content
<1>5. phase'[s] = "open" /\ \A o \in Sessions \ {s} : phase'[o] = phase[o]
      BY <1>3 DEF IInv, SessionTypes
<1>6. Opened'
      BY <1>1, <1>3, <1>5 DEF FileInv, Opened
<1>7. Settled' /\ Answered'
      BY <1>3, <1>4, SameFileKeeps DEF FileInv, Settled, NeverHalfWritten
<1>8. Lone'
  <2>1. CASE Underway = {}
    <3>1. lone' = s /\ next_file'[s] = next /\ Saving(s)'
          BY <2>1, <1>3, <1>5 DEF FileInv, FileTypes, Saving
    <3>2. \A o \in Sessions \ {s} : ~ Saving(o)'
          BY <2>1, <1>5 DEF Underway, Saving
    <3>3. next' = next
          BY <1>3, <1>4 DEF next, Upsert
    <3>4. LoneSave(s)'
          BY <3>1, <3>2, <3>3, <1>2, <1>4, <1>5 DEF LoneSave, next
    <3> QED
        BY <3>1, <3>4 DEF Lone
  <2>2. CASE Underway # {}
        BY <2>2, <1>3 DEF Lone
  <2> QED
      BY <2>1, <2>2
<1> QED
    BY <1>4, <1>6, <1>7, <1>8 DEF FileInv

LEMMA OpenKeeps ==
  ASSUME IInv, FileInv, NEW s \in Sessions, OpenPolicy(s)
  PROVE  FileInv'
<1> DEFINE i == IF tmp = Absent THEN NewInode ELSE tmp
<1>1. Saving(s)
      BY DEF OpenPolicy, Saving
<1>2. i \in Inodes /\ i # file /\ i # Absent
      BY NewInodeFree, InodesFacts DEF FileInv, FileTypes, Apart, Free
<1>3. /\ tmp' = i /\ data' = [data EXCEPT ![i] = Blank] /\ fd' = [fd EXCEPT ![s] = i]
      /\ phase' = [phase EXCEPT ![s] = "write"]
      /\ UNCHANGED <<file, lone, due, asking, answer, next_file, latest>>
      BY DEF OpenPolicy, OpenTmp, history
<1> HIDE DEF i
<1>4. Content' = Content
      BY <1>2, <1>3 DEF FileInv, FileTypes, Content
<1>5. FileTypes' /\ Apart'
      BY <1>2, <1>3, BlankIsPolicy DEF FileInv, FileTypes, Apart
<1>6. /\ phase'[s] = "write" /\ fd'[s] = i /\ data'[i] = Blank
      /\ \A o \in Sessions \ {s} : phase'[o] = phase[o] /\ fd'[o] = fd[o]
      BY <1>2, <1>3 DEF FileInv, FileTypes, IInv, SessionTypes
<1>7. Opened'
      BY <1>2, <1>6 DEF FileInv, Opened
<1>8. Settled' /\ Answered'
  <2>1. NeverHalfWritten => NeverHalfWritten'
        BY <1>2, <1>3, <1>6 DEF FileInv, Settled, NeverHalfWritten, Sessions
  <2> QED
      BY <2>1, <1>3, <1>4, SameFileKeeps
<1>9. Lone'
  <2>1. CASE lone = s
        BY <2>1, <1>1, <1>2, <1>3, <1>4, <1>6, NoSaverAbsent DEF FileInv, Lone, LoneSave, Saving, Upsert
  <2>2. CASE lone = Absent
        BY <2>2, <1>3 DEF Lone
  <2> QED
      BY <2>1, <2>2, <1>1, LoneOrNobody
<1> QED
    BY <1>5, <1>7, <1>8, <1>9 DEF FileInv

LEMMA WriteKeeps ==
  ASSUME IInv, FileInv, NEW s \in Sessions, WritePolicy(s)
  PROVE  FileInv'
<1>1. Saving(s) /\ fd[s] \in Inodes /\ fd[s] # Absent
      BY DEF WritePolicy, Saving, FileInv, FileTypes, Opened
<1>2. PICK c \in {next_file[s], Broken} :
        /\ data' = [data EXCEPT ![fd[s]] = c]
        /\ data[fd[s]] = Blank => c = next_file[s]
      BY DEF WritePolicy, WriteTmp
<1>3. /\ fd' = [fd EXCEPT ![s] = Absent]
      /\ phase' = [phase EXCEPT ![s] = "rename"]
      /\ UNCHANGED <<file, tmp, lone, due, asking, answer, next_file, latest>>
      BY DEF WritePolicy, WriteTmp, history
<1>4. FileTypes' /\ Apart'
      BY <1>1, <1>2, <1>3 DEF FileInv, FileTypes, Apart
<1>5. /\ phase'[s] = "rename" /\ fd'[s] = Absent /\ data'[fd[s]] = c
      /\ \A o \in Sessions \ {s} : phase'[o] = phase[o] /\ fd'[o] = fd[o]
      BY <1>1, <1>2, <1>3 DEF FileInv, FileTypes, IInv, SessionTypes
<1>6. Opened'
      BY <1>5 DEF FileInv, Opened
<1>7. fd[s] # file => Content' = Content
      BY <1>1, <1>2, <1>3 DEF FileInv, FileTypes, Content
<1>8. NeverHalfWritten => fd[s] # file /\ NeverHalfWritten'
      BY <1>1, <1>3, <1>5 DEF NeverHalfWritten, Sessions
<1>9. Settled' /\ Answered'
      BY <1>3, <1>7, <1>8 DEF FileInv, Settled, Answered
<1>10. Lone'
  <2>1. CASE lone = s
    <3>1. LoneSave(s) /\ fd[s] = tmp /\ tmp # Absent /\ data[tmp] = Blank /\ tmp # file
          BY <2>1, NoSaverAbsent DEF FileInv, Lone, LoneSave, Apart, WritePolicy
    <3>2. data'[tmp] = next_file[s] /\ Content' = Content
          BY <3>1, <1>2, <1>5, <1>7
    <3> QED
        BY <2>1, <3>1, <3>2, <1>3, <1>5 DEF Lone, LoneSave, Saving, Upsert
  <2>2. CASE lone = Absent
        BY <2>2, <1>3 DEF Lone
  <2> QED
      BY <2>1, <2>2, <1>1, LoneOrNobody
<1> QED
    BY <1>4, <1>6, <1>9, <1>10 DEF FileInv

\* What no name and no open file refers to is gone; the rest is as it was.
LEMMA KeptFacts ==
  ASSUME FileTypes, NEW refs
  PROVE  /\ Kept(data, refs) \in [Inodes -> PolicyRules \cup {Broken}]
         /\ \A i \in Inodes \cap refs : Kept(data, refs)[i] = data[i]
BY BlankIsPolicy DEF FileTypes, Kept

\* A save that ends leaves nobody alone.
LEMMA EndOfSave ==
  ASSUME IInv, FileInv, NEW s \in Sessions, phase[s] = "rename", EndSave(s),
         UNCHANGED fd, phase' = [phase EXCEPT ![s] = "ready"]
  PROVE  lone' = Absent /\ Lone' /\ Opened'
<1>1. lone' = Absent
      BY LoneOrNobody DEF Saving, EndSave
<1>2. Opened'
      BY DEF FileInv, Opened, IInv, SessionTypes
<1> QED
    BY <1>1, <1>2 DEF Lone

LEMMA RenameKeeps ==
  ASSUME IInv, FileInv, NEW s \in Sessions, RenamePolicy(s)
  PROVE  FileInv'
<1> DEFINE k == <<asking[s].cap, asking[s].origin>>
           refs == {tmp} \cup {fd[o] : o \in Savers}
           next == Upsert(Content, asking[s].cap, asking[s].origin, answer[s])
<1>1. Saving(s) /\ OnTheWay(s) /\ phase[s] = "rename" /\ tmp \in Inodes
      BY DEF RenamePolicy, RenameTmp, Saving, OnTheWay, FileInv, FileTypes
<1>2. /\ file' = tmp /\ tmp' = Absent /\ data' = Kept(data, refs)
      /\ due' = IF lone = s THEN next_file[s] ELSE Absent
      /\ EndSave(s)
      /\ latest' = [j \in DOMAIN latest |->
                      IF lone # s THEN None ELSE IF j = k THEN answer[s] ELSE latest[j]]
      /\ next_file' = [next_file EXCEPT ![s] = NoRules]
      /\ phase' = [phase EXCEPT ![s] = "ready"]
      /\ UNCHANGED fd
      BY DEF RenamePolicy, RenameTmp, Saved, Conclude
<1>3. /\ asking[s].cap \in Caps /\ asking[s].origin \in Origins
      /\ answer[s] \in {"grant", "deny"}
      BY <1>1, SaverTypes
<1>4. FileTypes' /\ Apart'
      BY <1>1, <1>2, <1>3, KeptFacts, BlankIsPolicy, PolicyAssumption DEF FileInv, FileTypes, Apart
<1>5. Lone' /\ Opened'
      BY <1>1, <1>2, EndOfSave
<1>6. Content' = data[tmp]
      BY <1>1, <1>2, KeptFacts, InodesFacts DEF FileInv, Content
<1>7. CASE lone # s
      BY <1>7, <1>2, <1>4, <1>5 DEF FileInv, FileTypes, Settled, Answered
<1>8. CASE lone = s
  <2>1. /\ Content # Broken /\ next_file[s] = next /\ data[tmp] = next
        /\ \A o \in Sessions : fd[o] = Absent
        BY <1>8, <1>1, NoSaverAbsent, LoneOrNobody DEF FileInv, Lone, LoneSave, Opened
  <2>2. Content' = next /\ due' = next
        BY <2>1, <1>2, <1>6, <1>8
  <2>3. Settled' /\ NeverHalfWritten'
        BY <2>1, <2>2, <1>2 DEF Settled, NeverHalfWritten, Sessions
  <2>4. Content \in PolicyRules
        BY <2>1, ContentType DEF FileInv
  <2>5. next \in PolicyRules /\ next # Broken
        BY <2>4, <1>3, UpsertFacts, PolicyAssumption
  <2>6. ASSUME NEW j \in Caps \X Origins, latest'[j] # None
        PROVE  next.rule[j] = latest'[j]
    <3>1. latest'[j] = IF j = k THEN answer[s] ELSE latest[j]
          BY <1>2, <1>8 DEF FileInv, FileTypes
    <3>2. CASE j = k
      <4>1. next.rule[<<asking[s].cap, asking[s].origin>>] = answer[s]
            BY <1>3, <2>4 DEF Upsert, PolicyRules, Decision, Rulings
      <4> QED
          BY <4>1, <3>1, <3>2
    <3>3. CASE j # k
      <4>1. next.rule[j] = Content.rule[j]
            BY <3>3, <1>3, <2>4 DEF Upsert, PolicyRules, Decision, Rulings
      <4> QED
          BY <4>1, <3>1, <3>3, <2>6 DEF FileInv, Answered
    <3> QED
        BY <3>2, <3>3
  <2>7. Answered'
        BY <2>2, <2>3, <2>5, <2>6 DEF Answered
  <2> QED
      BY <1>4, <1>5, <2>3, <2>7 DEF FileInv
<1> QED
    BY <1>7, <1>8

LEMMA RenameFailsKeeps ==
  ASSUME IInv, FileInv, NEW s \in Sessions, RenamePolicyFails(s)
  PROVE  FileInv'
<1>1. Saving(s) /\ phase[s] = "rename"
      BY DEF RenamePolicyFails, Saving
<1>2. /\ tmp' = Absent /\ data' = Kept(data, {file} \cup {fd[o] : o \in Savers})
      /\ next_file' = [next_file EXCEPT ![s] = NoRules]
      /\ phase' = [phase EXCEPT ![s] = "ready"]
      /\ EndSave(s)
      /\ UNCHANGED <<file, fd, due, latest>>
      BY DEF RenamePolicyFails, RenameFails, Saved, Conclude
<1>3. FileTypes' /\ Apart'
      BY <1>2, KeptFacts, BlankIsPolicy, PolicyAssumption DEF FileInv, FileTypes, Apart
<1>4. Content' = Content
      BY <1>2, KeptFacts DEF FileInv, FileTypes, Content
<1>5. Settled' /\ Answered'
      BY <1>2, <1>4, SameFileKeeps DEF NeverHalfWritten
<1>6. Lone' /\ Opened'
      BY <1>1, <1>2, EndOfSave
<1> QED
    BY <1>3, <1>5, <1>6 DEF FileInv

LEMMA EditKeeps ==
  ASSUME IInv, FileInv, NEW p \in Policies, Edit(p)
  PROVE  FileInv'
<1>1. /\ file' = NewInode
      /\ data' = [Kept(data, {tmp} \cup {fd[s] : s \in Savers}) EXCEPT ![NewInode] = p]
      /\ lone' = Absent /\ due' = p
      /\ latest' = [k \in Caps \X Origins |-> None]
      /\ UNCHANGED <<tmp, fd, phase, next_file>>
      BY DEF Edit, Replace, session
<1>2. NewInode \in Inodes /\ NewInode # tmp /\ \A s \in Sessions : fd[s] # NewInode
      BY NewInodeFree DEF FileInv, Free, Sessions
<1>3. FileTypes' /\ Apart'
      BY <1>1, <1>2, KeptFacts, PolicyAssumption DEF FileInv, FileTypes, Apart
<1>4. Content' = p
      BY <1>1, <1>2, KeptFacts, InodesFacts DEF FileInv, FileTypes, Content
<1>5. Opened' /\ Lone' /\ Settled' /\ Answered'
      BY <1>1, <1>2, <1>4 DEF FileInv, Opened, Lone, Settled, Answered, NeverHalfWritten, Sessions
<1> QED
    BY <1>3, <1>5 DEF FileInv

-----------------------------------------------------------------------------
\* The steps before and after a save, and those that have nothing to do with one.
LEMMA SessionKeepsFile ==
  ASSUME IInv, FileInv, NEW s \in Sessions,
         \/ \E t \in Trees : Boot(s, t)
         \/ End(s)
         \/ \E r \in Requests : CacheHit(s, r) \/ Decide(s, r) \/ NoTerminal(s, r) \/ Ask(s, r)
         \/ \E d \in {"grant", "deny"} : AnswerOnce(s, d) \/ AnswerPermanent(s, d)
         \/ PromptFails(s)
  PROVE  FileInv'
<1>1. \/ fd' = [fd EXCEPT ![s] = Absent] /\ EndSave(s)
      \/ UNCHANGED <<fd, lone>> /\ ~ Saving(s)
      BY DEF Boot, End, CacheHit, Decide, NoTerminal, Ask, Asks, AnswerOnce, AnswerPermanent,
         PromptFails, Abandon, fileVars, inodeVars, Saving
<1>2. UNCHANGED <<file, tmp, data, latest, due>>
      BY DEF Boot, End, CacheHit, Decide, NoTerminal, Ask, AnswerOnce, AnswerPermanent,
         PromptFails, Abandon, fileVars, inodeVars, history
<1>3. next_file' \in [Sessions -> PolicyRules]
      BY BlankIsPolicy, PolicyAssumption
      DEF FileInv, FileTypes, Boot, End, CacheHit, Decide, NoTerminal, Ask, AnswerOnce,
          AnswerPermanent, PromptFails
<1>4. ~ Saving(s)'
  <2>1. \/ UNCHANGED phase /\ phase[s] = "ready"
        \/ \E p \in {"off", "ready", "prompt", "load"} : phase' = [phase EXCEPT ![s] = p]
        BY DEF Boot, End, CacheHit, Decide, NoTerminal, Ask, Asks, AnswerOnce, AnswerPermanent,
           PromptFails, Conclude
  <2> QED
      BY <2>1 DEF IInv, SessionTypes, Saving
<1>5. Aside(s)
  <2>1. \/ UNCHANGED next_file
        \/ next_file' = [next_file EXCEPT ![s] = NoRules]
        BY DEF Boot, End, CacheHit, Decide, NoTerminal, Ask, AnswerOnce, AnswerPermanent, PromptFails
  <2>2. \A o \in Sessions \ {s} : phase'[o] = phase[o]
        BY DEF IInv, SessionTypes, Boot, End, CacheHit, Decide, NoTerminal, Ask, AnswerOnce,
           AnswerPermanent, PromptFails, Conclude
  <2>3. \A o \in Sessions \ {s} : asking'[o] = asking[o]
        BY DEF IInv, SessionTypes, Boot, End, CacheHit, Decide, NoTerminal, Ask, AnswerOnce,
           AnswerPermanent, PromptFails, Conclude, Return
  <2>4. \A o \in Sessions \ {s} : answer'[o] = answer[o]
        BY DEF IInv, SessionTypes, Boot, End, CacheHit, Decide, NoTerminal, Ask, AnswerOnce,
           AnswerPermanent, PromptFails
  <2>5. \A o \in Sessions \ {s} : fd'[o] = fd[o]
        BY <1>1 DEF FileInv, FileTypes
  <2> QED
      BY <2>1, <2>2, <2>3, <2>4, <2>5 DEF FileInv, FileTypes, Aside
<1>6. fd'[s] = Absent /\ fd' \in [Sessions -> Inodes \cup {Absent}]
      BY <1>1 DEF FileInv, FileTypes, Opened, Saving
<1> QED
    BY <1>1, <1>2, <1>3, <1>4, <1>5, <1>6, LeaveKeeps

\* A save that gives up leaves the file alone.
LEMMA GiveUpKeeps ==
  ASSUME IInv, FileInv, NEW s \in Sessions, LoadFails(s) \/ WriteFails(s)
  PROVE  FileInv'
<1>1. /\ \/ fd' = [fd EXCEPT ![s] = Absent] /\ EndSave(s)
         \/ UNCHANGED <<fd, lone>> /\ ~ Saving(s)
      /\ UNCHANGED <<file, tmp, data, latest, due>>
      BY DEF LoadFails, WriteFails, Abandon, fileVars, inodeVars, Saving
<1>2. Saved(s)
      BY DEF LoadFails, WriteFails
<1>3. next_file' \in [Sessions -> PolicyRules]
      BY <1>2, BlankIsPolicy, PolicyAssumption DEF FileInv, FileTypes, Saved
<1>4. fd'[s] = Absent /\ fd' \in [Sessions -> Inodes \cup {Absent}]
      BY <1>1 DEF FileInv, FileTypes, Opened, Saving
<1>5. ~ Saving(s)' /\ Aside(s)
      BY <1>1, <1>2 DEF Saved, Conclude, Return, Saving, Aside, IInv, SessionTypes, FileInv, FileTypes
<1> QED
    BY <1>1, <1>3, <1>4, <1>5, LeaveKeeps

LEMMA NextFileInv == IInv /\ FileInv /\ [Next]_vars => FileInv'
<1> SUFFICES ASSUME IInv, FileInv, [Next]_vars PROVE FileInv'
    OBVIOUS
<1>1. CASE UNCHANGED vars
  <2>1. UNCHANGED <<file, tmp, data, fd, lone, due, phase, next_file, asking, answer, latest>>
        BY <1>1 DEF vars, fileVars, inodeVars, session, history
  <2> QED
      BY <2>1 DEF FileInv, FileTypes, Apart, Opened, Lone, LoneSave, Settled, Answered,
         NeverHalfWritten, Saving, Content, Upsert
<1>2. ASSUME NEW p \in Policies, Edit(p) PROVE FileInv'
      BY <1>2, EditKeeps
<1>3. ASSUME NEW s \in Sessions,
             \/ \E t \in Trees : Boot(s, t)
             \/ End(s)
             \/ \E r \in Requests : CacheHit(s, r) \/ Decide(s, r) \/ NoTerminal(s, r) \/ Ask(s, r)
             \/ \E d \in {"grant", "deny"} : AnswerOnce(s, d) \/ AnswerPermanent(s, d)
             \/ PromptFails(s)
      PROVE  FileInv'
      BY <1>3, SessionKeepsFile
<1>4. ASSUME NEW s \in Sessions, LoadPolicy(s) PROVE FileInv'
      BY <1>4, LoadKeeps
<1>5. ASSUME NEW s \in Sessions, OpenPolicy(s) \/ WritePolicy(s) PROVE FileInv'
      BY <1>5, OpenKeeps, WriteKeeps
<1>6. ASSUME NEW s \in Sessions, LoadFails(s) \/ WriteFails(s) PROVE FileInv'
      BY <1>6, GiveUpKeeps
<1>7. ASSUME NEW s \in Sessions, RenamePolicy(s) \/ RenamePolicyFails(s) PROVE FileInv'
      BY <1>7, RenameKeeps, RenameFailsKeeps
<1> QED
    BY <1>1, <1>2, <1>3, <1>4, <1>5, <1>6, <1>7 DEF Next

LEMMA SpecFileInv == Spec => []FileInv
<1>1. Init => IInv /\ FileInv
      BY InitIInv, InitFileInv
<1>2. IInv /\ FileInv /\ [Next]_vars => IInv' /\ FileInv'
      BY NextIInv, NextFileInv
<1> QED
    BY <1>1, <1>2, PTL DEF Spec

\* The policy on disk is whole unless the last save met another, whatever saves
\* that were killed, failed or met left behind.
THEOREM SpecPublishedWhole == Spec => []PublishedWhole
<1>1. FileInv => PublishedWhole
      BY DEF FileInv, Settled, PublishedWhole, Whole
<1> QED
    BY <1>1, SpecFileInv, PTL

\* And a permanent answer whose save met no other stays until saves meet or the
\* file is edited, whatever sessions answer to other questions, however old the
\* policy they started with, and wherever they are killed.
THEOREM SpecRemembered == Spec => []Remembered
<1>1. FileInv => Remembered
      BY DEF FileInv, Answered, Remembered
<1> QED
    BY <1>1, SpecFileInv, PTL

-----------------------------------------------------------------------------
(* The root package decides *)

\* A session resolves and grants only what its tree defers, and what it is
\* asking about as a deferral is still to be resolved.
Deferring(s) ==
  /\ todo[s] \subseteq Deferrals(tree[s]) /\ granted[s] \subseteq Deferrals(tree[s])
  /\ Busy(s) /\ asking[s].deferred => Key(asking[s]) \in todo[s]

Resolving(s) ==
  IF phase[s] = "off" THEN todo[s] = {} /\ granted[s] = {}
                      ELSE tree[s] \in Trees /\ Deferring(s)

RootInv ==
  /\ DOMAIN tree = Sessions /\ DOMAIN todo = Sessions /\ DOMAIN granted = Sessions
  /\ \A s \in Sessions : Resolving(s)

LEMMA InitRootInv == Init => RootInv
BY DEF Init, RootInv, Resolving

\* What a step of one session leaves alone in the others.
Elsewhere(s) ==
  \A o \in Sessions \ {s} :
    /\ phase'[o] = phase[o] /\ tree'[o] = tree[o] /\ asking'[o] = asking[o]
    /\ todo'[o] = todo[o] /\ granted'[o] = granted[o]

LEMMA ElsewhereKeeps ==
  ASSUME RootInv, NEW s \in Sessions, Elsewhere(s), Resolving(s)',
         DOMAIN tree' = Sessions, DOMAIN todo' = Sessions, DOMAIN granted' = Sessions
  PROVE  RootInv'
<1>1. ASSUME NEW o \in Sessions \ {s} PROVE Resolving(o)'
  BY <1>1 DEF RootInv, Elsewhere, Resolving, Deferring, Busy, OnTheWay
<1> QED
  BY <1>1 DEF RootInv

\* A deferral that is answered is struck off the list, and granted at most.
LEMMA ReturnKeepsRoot ==
  ASSUME SessionTypes, RootInv, NEW s \in Sessions, NEW r, NEW outcome,
         Return(s, r, outcome), UNCHANGED tree, phase[s] # "off",
         (UNCHANGED phase /\ phase[s] = "ready") \/ phase' = [phase EXCEPT ![s] = "ready"],
         r.deferred => Key(r) \in todo[s]
  PROVE  RootInv'
<1>1. Elsewhere(s) /\ DOMAIN todo' = Sessions /\ DOMAIN granted' = Sessions
  BY DEF SessionTypes, RootInv, Return, Elsewhere
<1>2. phase'[s] = "ready" /\ todo'[s] \subseteq todo[s]
  BY DEF SessionTypes, RootInv, Return
<1>3. granted'[s] \subseteq granted[s] \cup todo[s]
  BY DEF RootInv, Return
<1>4. Resolving(s)'
  BY <1>2, <1>3 DEF RootInv, Resolving, Deferring, Busy, OnTheWay
<1> QED
  BY <1>1, <1>4, ElsewhereKeeps DEF RootInv

\* A session that is asked in vain, or goes about its save.
LEMMA StayKeepsRoot ==
  ASSUME SessionTypes, RootInv, NEW s \in Sessions, Busy(s), Busy(s)',
         NEW p, phase' = [phase EXCEPT ![s] = p],
         UNCHANGED <<tree, todo, granted, asking>>
  PROVE  RootInv'
<1>1. Elsewhere(s)
  BY DEF SessionTypes, Elsewhere
<1>2. Resolving(s)'
  BY DEF RootInv, Resolving, Deferring, Busy, OnTheWay
<1> QED
  BY <1>1, <1>2, ElsewhereKeeps DEF RootInv

LEMMA SessionKeepsRoot ==
  ASSUME SessionTypes, RootInv, NEW s \in Sessions,
         (\E t \in Trees : Boot(s, t)) \/ End(s) \/ (\E r \in Requests : Ask(s, r))
  PROVE  RootInv'
<1>1. CASE \E t \in Trees : Boot(s, t)
  <2>1. PICK t \in Trees : Boot(s, t)
    BY <1>1
  <2>2. Elsewhere(s) /\ DOMAIN tree' = Sessions /\ DOMAIN todo' = Sessions /\ granted' = granted
    BY <2>1 DEF SessionTypes, RootInv, Boot, Elsewhere
  <2>3. phase'[s] = "ready" /\ tree'[s] = t /\ todo'[s] = Deferrals(t) /\ granted[s] = {}
    BY <2>1 DEF SessionTypes, RootInv, Resolving, Boot
  <2>4. Resolving(s)'
    BY <2>2, <2>3 DEF Resolving, Deferring, Busy, OnTheWay
  <2> QED
    BY <2>2, <2>4, ElsewhereKeeps DEF RootInv
<1>2. CASE End(s)
  <2>1. Elsewhere(s) /\ DOMAIN tree' = Sessions /\ DOMAIN todo' = Sessions /\ DOMAIN granted' = Sessions
    BY <1>2 DEF SessionTypes, RootInv, End, Elsewhere
  <2>2. Resolving(s)'
    BY <1>2 DEF SessionTypes, RootInv, End, Resolving
  <2> QED
    BY <2>1, <2>2, ElsewhereKeeps
<1>3. ASSUME NEW r \in Requests, Ask(s, r) PROVE RootInv'
  <2>1. Elsewhere(s) /\ UNCHANGED <<tree, todo, granted>>
    BY <1>3 DEF SessionTypes, Ask, Elsewhere
  <2>2. /\ phase[s] = "ready" /\ phase'[s] = "prompt" /\ asking'[s] = r
        /\ r.deferred => Key(r) \in todo[s]
    BY <1>3 DEF SessionTypes, Ask, Asks
  <2>3. Resolving(s)'
    BY <2>1, <2>2 DEF RootInv, Resolving, Deferring
  <2> QED
    BY <2>1, <2>3, ElsewhereKeeps DEF RootInv
<1> QED
  BY <1>1, <1>2, <1>3

\* The steps that return a decision.
LEMMA DecisionKeepsRoot ==
  ASSUME SessionTypes, RootInv, NEW s \in Sessions,
         \/ \E r \in Requests : CacheHit(s, r) \/ Decide(s, r) \/ NoTerminal(s, r)
         \/ \E d \in {"grant", "deny"} : AnswerOnce(s, d)
         \/ PromptFails(s) \/ LoadFails(s) \/ WriteFails(s)
         \/ RenamePolicy(s) \/ RenamePolicyFails(s)
  PROVE  RootInv'
<1>1. ASSUME NEW r \in Requests, CacheHit(s, r) \/ Decide(s, r) \/ NoTerminal(s, r)
      PROVE  RootInv'
  <2>1. /\ phase[s] = "ready" /\ UNCHANGED tree /\ (r.deferred => Key(r) \in todo[s])
        /\ UNCHANGED phase \/ phase' = [phase EXCEPT ![s] = "ready"]
    BY <1>1 DEF CacheHit, Decide, NoTerminal, Asks, Conclude
  <2>2. \E outcome : Return(s, r, outcome)
    BY <1>1 DEF CacheHit, Decide, NoTerminal, Conclude
  <2> QED
    BY <2>1, <2>2, ReturnKeepsRoot
<1>2. CASE ~ \E r \in Requests : CacheHit(s, r) \/ Decide(s, r) \/ NoTerminal(s, r)
  <2>1. /\ Busy(s) /\ UNCHANGED tree
        /\ \E outcome : Conclude(s, asking[s], outcome)
    BY <1>2 DEF AnswerOnce, PromptFails, LoadFails, WriteFails, RenamePolicy, RenamePolicyFails,
                Saved, Busy, OnTheWay
  <2>2. phase[s] # "off" /\ (asking[s].deferred => Key(asking[s]) \in todo[s])
    BY <2>1 DEF RootInv, Resolving, Deferring, Busy, OnTheWay
  <2>3. PICK outcome : Return(s, asking[s], outcome) /\ phase' = [phase EXCEPT ![s] = "ready"]
    BY <2>1 DEF Conclude
  <2> QED
    BY <2>1, <2>2, <2>3, ReturnKeepsRoot
<1> QED
  BY <1>1, <1>2

LEMMA NextRootInv == IInv /\ RootInv /\ [Next]_vars => RootInv'
<1> SUFFICES ASSUME SessionTypes, RootInv, [Next]_vars PROVE RootInv'
  BY DEF IInv
<1>1. CASE UNCHANGED vars \/ \E p \in Policies : Edit(p)
  <2>1. UNCHANGED <<phase, tree, asking, todo, granted>>
    BY <1>1 DEF vars, session, Edit
  <2> QED
    BY <2>1 DEF RootInv, Resolving, Deferring, Busy, OnTheWay
<1>2. ASSUME NEW s \in Sessions,
             \/ \E d \in {"grant", "deny"} : AnswerPermanent(s, d)
             \/ LoadPolicy(s) \/ OpenPolicy(s) \/ WritePolicy(s)
      PROVE  RootInv'
  <2>1. PICK p \in {"load", "open", "write", "rename"} : phase' = [phase EXCEPT ![s] = p]
    BY <1>2 DEF AnswerPermanent, LoadPolicy, OpenPolicy, WritePolicy
  <2>2. Busy(s) /\ UNCHANGED <<tree, todo, granted, asking>>
    BY <1>2 DEF AnswerPermanent, LoadPolicy, OpenPolicy, WritePolicy, Busy, OnTheWay
  <2>3. Busy(s)'
    BY <2>1 DEF SessionTypes, Busy, OnTheWay
  <2> QED
    BY <2>1, <2>2, <2>3, StayKeepsRoot
<1> QED
  BY <1>1, <1>2, SessionKeepsRoot, DecisionKeepsRoot DEF Next

\* What a tree defers its root claims as deferred, for a package that claims it.
LEMMA DeferralsClaimed ==
  ASSUME NEW t \in Trees, NEW k \in Deferrals(t)
  PROVE  /\ [cap |-> k[1], level |-> "defer"] \in t.claims[t.root]
         /\ \E l \in Levels : [cap |-> k[1], level |-> l] \in t.claims[k[2]]
<1>1. t.root \in Pkgs /\ t.claims \in [Pkgs -> SUBSET [cap : Caps, level : Levels]]
  BY PolicyAssumption DEF IsTree
<1>2. PICK a \in t.claims[t.root] : a.cap = k[1] /\ a.level = "defer"
  BY DEF Deferrals, RootLevel
<1>3. PICK b \in t.claims[k[2]] : k[2] \in Pkgs /\ b.cap = k[1]
  BY DEF Deferrals, Requesters
<1>4. a \in [cap : Caps, level : Levels] /\ b \in [cap : Caps, level : Levels]
  BY <1>1, <1>2, <1>3
<1>5. a = [cap |-> k[1], level |-> "defer"] /\ b = [cap |-> k[1], level |-> b.level]
  BY <1>2, <1>3, <1>4
<1> QED
  BY <1>2, <1>3, <1>4, <1>5

\* No session grants a deferral the root package did not declare, nor to a
\* package that claims nothing, in whatever order the answers come.
THEOREM SpecRootDecides == Spec => []RootDecides
<1>1. Init => IInv /\ RootInv
  BY InitIInv, InitRootInv
<1>2. IInv /\ RootInv /\ [Next]_vars => IInv' /\ RootInv'
  BY NextIInv, NextRootInv
<1>3. RootInv => RootDecides
  <2> SUFFICES ASSUME RootInv, NEW s \in Sessions, NEW k \in granted[s]
               PROVE  /\ [cap |-> k[1], level |-> "defer"] \in tree[s].claims[tree[s].root]
                      /\ \E l \in Levels : [cap |-> k[1], level |-> l] \in tree[s].claims[k[2]]
    BY DEF RootDecides
  <2>1. tree[s] \in Trees /\ k \in Deferrals(tree[s])
    BY DEF RootInv, Resolving, Deferring
  <2> QED
    BY <2>1, DeferralsClaimed
<1> QED
  BY <1>1, <1>2, <1>3, PTL DEF Spec
=============================================================================
