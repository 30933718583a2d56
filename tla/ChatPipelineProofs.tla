-------------------------- MODULE ChatPipelineProofs --------------------------
(***************************************************************************)
(* Proofs about ChatPipeline, for any sets of requests, processes, tenants *)
(* and questions, any similarity of questions, and any number of faults.   *)
(***************************************************************************)
EXTENDS ChatPipeline, SequenceTheorems, TLAPS

EventSeq == Seq({"sources", "token", "error", "done"})

\* What a cache entry holds: a finished request that used the cache, with an
\* answer that says something and was not rejected.
Sound(g) ==
    useCache[g] /\ kind[g] = "fact" /\ verdict[g] # "unfaithful" /\ pc[g] = "done"

\* Answers are judged once, and only sound ones travel: into an entry, and from
\* an entry into the reply of a request that is then over.
CacheInv ==
    /\ \A k \in Scope : entries[k] # None => Sound(entries[k])
    /\ \A r \in Requests :
        /\ pc[r] \notin SetSteps \cup {"done", "failed"} => verdict[r] = "none"
        /\ pc[r] \in SetSteps => kind[r] = "fact" /\ verdict[r] # "unfaithful"
        /\ lookup[r] = "hit" => pc[r] = "done" /\ answer[r] \in Requests /\ Sound(answer[r])

\* A lookup that has started over, and that Redis has not disturbed, finds the
\* index, or finds the flag taken back and makes the index.
HealInv ==
    \A r \in Requests :
        /\ pc[r] = "new" => again[r]
        /\ ~ again[r] /\ r \notin disturbed =>
            /\ pc[r] = "search" => indexed
            /\ pc[r] = "get" /\ ready[at[r]] => indexed

\* The inductive invariant.
IInv == TypeOK /\ CacheInv /\ HealInv /\ OutagesHeal

------------------------------------------------------------------------------
(* The helpers of the actions, by what they return.                        *)

\* The events of a request stay a sequence of events.
LEMMA YieldType ==
    ASSUME events \in [Requests -> EventSeq], NEW r \in Requests,
           NEW es \in EventSeq, Yield(r, es)
    PROVE  events' \in [Requests -> EventSeq]
<1>1. events[r] \o es \in EventSeq
  BY DEF EventSeq
<1> QED
  BY <1>1 DEF Yield

\* A canned reply ends the request and shows no answer.
LEMMA CannedType ==
    ASSUME events \in [Requests -> EventSeq], NEW r \in Requests,
           NEW es \in EventSeq, ReplyCanned(r, es)
    PROVE  events' \in [Requests -> EventSeq] /\ UNCHANGED <<answer, passed>>
           /\ pc' = [pc EXCEPT ![r] = "done"]
<1>1. es \o <<"done">> \in EventSeq
  BY DEF EventSeq
<1> QED
  BY <1>1, YieldType DEF ReplyCanned, Goto

\* A reply with an answer ends the request and names who wrote it.
LEMMA AnswerType ==
    ASSUME events \in [Requests -> EventSeq], NEW r \in Requests, NEW g,
           NEW es \in EventSeq, ReplyWith(r, g, es)
    PROVE  /\ events' \in [Requests -> EventSeq]
           /\ answer' = [answer EXCEPT ![r] = g]
           /\ passed' = [passed EXCEPT ![r] = TRUE]
           /\ pc' = [pc EXCEPT ![r] = "done"]
<1>1. es \o <<"done">> \in EventSeq
  BY DEF EventSeq
<1> QED
  BY <1>1, YieldType DEF ReplyWith, Goto

\* The sequences the actions pass on are sequences of events.
LEMMA Literals ==
    /\ <<>> \in EventSeq
    /\ <<"sources">> \in EventSeq /\ <<"token">> \in EventSeq /\ <<"error">> \in EventSeq
    /\ <<"sources", "token">> \in EventSeq
BY DEF EventSeq

\* The fault budget is never exceeded.
LEMMA FaultType == ASSUME TypeOK, Fault PROVE faults' \in 0..MaxFaults
BY ChatAssumption DEF Fault, TypeOK

\* The inductive invariant holds before the first request.
LEMMA InitInv == Init => IInv
<1> SUFFICES ASSUME Init PROVE IInv
  OBVIOUS
<1>1. TypeOK
  <2>1. faults \in 0..MaxFaults /\ prompt \in [Tenants -> 0..MaxPrompts]
    BY ChatAssumption DEF Init
  <2>2. events \in [Requests -> EventSeq]
    BY Literals DEF Init
  <2> QED
    BY <2>1, <2>2 DEF Init, TypeOK, Kinds, Verdicts, GetSteps, SetSteps, EventSeq
<1>2. CacheInv
  BY DEF Init, CacheInv, SetSteps
<1>3. HealInv /\ OutagesHeal
  BY DEF Init, HealInv, OutagesHeal, GetSteps
<1> QED
  BY <1>1, <1>2, <1>3 DEF IInv

------------------------------------------------------------------------------
(* Type correctness.                                                       *)

\* Every step keeps the types.
LEMMA TypeStep == TypeOK /\ [Next]_vars => TypeOK'
<1> SUFFICES ASSUME TypeOK, [Next]_vars PROVE TypeOK'
  OBVIOUS
<1> USE DEF Goto
<1>e. events \in [Requests -> EventSeq]
  BY DEF TypeOK, EventSeq
<1>0. ASSUME NEW r \in Requests, Assemble(r)
      PROVE  /\ at' \in [Requests -> Processes \cup {None}] /\ at'[r] \in Processes
             /\ scope' \in [Requests -> Scope \cup {None}] /\ scope'[r] \in Scope
             /\ \A q \in Requests \ {r} : at'[q] = at[q] /\ scope'[q] = scope[q]
             /\ UNCHANGED <<prompt, ready, indexed, entries, again, lookup, kind,
                            verdict, faults, disturbed>>
  <2>1. PICK p \in Processes : at' = [at EXCEPT ![r] = p]
    BY <1>0 DEF Assemble
  <2>2. PICK v \in 0..prompt[TenantOf[r]] :
          scope' = [scope EXCEPT ![r] =
                      [tenant |-> TenantOf[r], prompt |-> v, question |-> QuestionOf[r]]]
    BY <1>0 DEF Assemble
  <2>3. TenantOf[r] \in Tenants /\ QuestionOf[r] \in Questions
    BY ChatAssumption
  <2>4. prompt[TenantOf[r]] \in 0..MaxPrompts /\ v \in 0..MaxPrompts
    BY <2>3, ChatAssumption DEF TypeOK
  <2>5. [tenant |-> TenantOf[r], prompt |-> v, question |-> QuestionOf[r]] \in Scope
    BY <2>3, <2>4 DEF Scope
  <2> QED
    BY <1>0, <2>1, <2>2, <2>5 DEF Assemble, TypeOK, redisVars
<1>1. ASSUME NEW r \in Requests, Block(r) PROVE TypeOK'
  <2>1. events' \in [Requests -> EventSeq] /\ UNCHANGED <<answer, passed>>
        /\ pc' = [pc EXCEPT ![r] = "done"]
    BY <1>1, <1>e, Literals, CannedType DEF Block
  <2>2. Assemble(r) /\ UNCHANGED useCache
    BY <1>1 DEF Block
  <2> HIDE DEF Goto
  <2> QED
    BY <2>1, <2>2, <1>0 DEF TypeOK, EventSeq, GetSteps, SetSteps
<1>2. ASSUME NEW r \in Requests, Allow(r) PROVE TypeOK'
  <2>1. PICK use \in BOOLEAN :
          /\ useCache' = [useCache EXCEPT ![r] = use]
          /\ pc' = [pc EXCEPT ![r] = IF use THEN "get" ELSE "retrieve"]
    BY <1>2 DEF Allow
  <2>2. Assemble(r) /\ UNCHANGED <<answer, passed, events>>
    BY <1>2 DEF Allow, replyVars
  <2> QED
    BY <2>1, <2>2, <1>0 DEF TypeOK, GetSteps, SetSteps
<1>3. ASSUME NEW r \in Requests, PrepareGet(r) PROVE TypeOK'
  <2>1. /\ pc[r] \in GetSteps /\ \E l \in GetSteps : pc' = [pc EXCEPT ![r] = l]
        /\ ready' = ready \/ ready' = [ready EXCEPT ![at[r]] = TRUE]
        /\ indexed' \in {TRUE, indexed}
        /\ UNCHANGED <<prompt, entries, at, scope, useCache, again, lookup, kind, verdict,
                       replyVars, faults, disturbed>>
    BY <1>3 DEF PrepareGet, EnsureIndex, CreateIndex, SetReady, redisVars, GetSteps
  <2>2. ready' \in [Processes -> BOOLEAN] /\ indexed' \in BOOLEAN
    BY <2>1 DEF TypeOK
  <2>3. PICK l \in GetSteps : pc' = [pc EXCEPT ![r] = l]
    BY <2>1
  <2>4. pc' \in [Requests -> GetSteps \cup SetSteps \cup
                   {"new", "retrieve", "generate", "guard", "done", "failed"}]
    BY <2>3 DEF TypeOK
  <2>5. pc[r] # "new"
    BY <2>1 DEF GetSteps
  <2>6. \A q \in Requests : /\ pc'[q] # "new" => at[q] \in Processes /\ scope[q] \in Scope
                            /\ pc'[q] \in GetSteps \cup SetSteps => useCache[q]
    BY <2>1, <2>3, <2>5 DEF TypeOK
  <2> QED
    BY <2>1, <2>2, <2>4, <2>6 DEF TypeOK, replyVars
<1>4. ASSUME NEW r \in Requests, PrepareSet(r) PROVE TypeOK'
  <2>1. /\ pc[r] \in SetSteps /\ \E l \in SetSteps : pc' = [pc EXCEPT ![r] = l]
        /\ ready' = ready \/ ready' = [ready EXCEPT ![at[r]] = TRUE]
        /\ indexed' \in {TRUE, indexed}
        /\ UNCHANGED <<prompt, entries, at, scope, useCache, again, lookup, kind, verdict,
                       replyVars, faults, disturbed>>
    BY <1>4 DEF PrepareSet, EnsureIndex, CreateIndex, SetReady, redisVars, SetSteps
  <2>2. ready' \in [Processes -> BOOLEAN] /\ indexed' \in BOOLEAN
    BY <2>1 DEF TypeOK
  <2>3. PICK l \in SetSteps : pc' = [pc EXCEPT ![r] = l]
    BY <2>1
  <2>4. pc' \in [Requests -> GetSteps \cup SetSteps \cup
                   {"new", "retrieve", "generate", "guard", "done", "failed"}]
    BY <2>3 DEF TypeOK
  <2>5. pc[r] # "new"
    BY <2>1 DEF SetSteps
  <2>6. \A q \in Requests : /\ pc'[q] # "new" => at[q] \in Processes /\ scope[q] \in Scope
                            /\ pc'[q] \in GetSteps \cup SetSteps => useCache[q]
    BY <2>1, <2>3, <2>5 DEF TypeOK
  <2> QED
    BY <2>1, <2>2, <2>4, <2>6 DEF TypeOK, replyVars
<1>5. ASSUME NEW r \in Requests, Hit(r) PROVE TypeOK'
  <2>1. PICK n \in Nearest(scope[r]) : ReplyWith(r, entries[n], <<"sources", "token">>)
    BY <1>5 DEF Hit
  <2>2. n \in Scope /\ entries[n] \in Requests
    BY <1>5, <2>1 DEF Hit, Nearest, TypeOK, GetSteps
  <2>3. /\ events' \in [Requests -> EventSeq]
        /\ answer' = [answer EXCEPT ![r] = entries[n]]
        /\ passed' = [passed EXCEPT ![r] = TRUE]
        /\ pc' = [pc EXCEPT ![r] = "done"]
    BY <2>1, <1>e, Literals, AnswerType
  <2> QED
    BY <1>5, <2>2, <2>3 DEF Hit, TypeOK, EventSeq, redisVars, GetSteps, SetSteps
<1>6. ASSUME NEW r \in Requests, Miss(r) \/ NoSuchIndex(r) PROVE TypeOK'
  <2>1. /\ pc[r] = "search" /\ \E l \in {"retrieve", "get"} : pc' = [pc EXCEPT ![r] = l]
        /\ ready' = ready \/ ready' = [ready EXCEPT ![at[r]] = FALSE]
        /\ again' = again \/ again' = [again EXCEPT ![r] = FALSE]
        /\ \/ lookup' = lookup
           \/ \E l \in {"miss", "bypassed"} : lookup' = [lookup EXCEPT ![r] = l]
        /\ UNCHANGED <<prompt, indexed, entries, at, scope, useCache, kind, verdict, replyVars,
                       faults, disturbed>>
    BY <1>6 DEF Miss, NoSuchIndex, Bypass, SetReady, redisVars
  <2>2. /\ ready' \in [Processes -> BOOLEAN] /\ again' \in [Requests -> BOOLEAN]
        /\ lookup' \in [Requests -> {"none", "hit", "miss", "bypassed"}]
    <3>1. ready' \in [Processes -> BOOLEAN]
      BY <2>1 DEF TypeOK
    <3>2. again' \in [Requests -> BOOLEAN]
      BY <2>1 DEF TypeOK
    <3>3. lookup' \in [Requests -> {"none", "hit", "miss", "bypassed"}]
      BY <2>1 DEF TypeOK
    <3> QED
      BY <3>1, <3>2, <3>3
  <2>3. PICK l \in {"retrieve", "get"} : pc' = [pc EXCEPT ![r] = l]
    BY <2>1
  <2>4. pc' \in [Requests -> GetSteps \cup SetSteps \cup
                   {"new", "retrieve", "generate", "guard", "done", "failed"}]
    BY <2>3 DEF TypeOK, GetSteps
  <2>5. pc[r] # "new" /\ pc[r] \in GetSteps
    BY <2>1 DEF GetSteps
  <2>6. \A q \in Requests : /\ pc'[q] # "new" => at[q] \in Processes /\ scope[q] \in Scope
                            /\ pc'[q] \in GetSteps \cup SetSteps => useCache[q]
    BY <2>1, <2>3, <2>5 DEF TypeOK
  <2> QED
    BY <2>1, <2>2, <2>4, <2>6 DEF TypeOK, replyVars
<1>7. ASSUME NEW r \in Requests, GetFails(r) PROVE TypeOK'
  BY <1>7, FaultType DEF GetFails, Bypass, TypeOK, redisVars, replyVars, GetSteps, SetSteps
<1>8. ASSUME NEW r \in Requests, ReplyOwn(r), pc[r] # "new",
             UNCHANGED <<prompt, ready, indexed, at, scope, useCache, again, lookup, kind,
                         disturbed>>,
             entries' \in [Scope -> Requests \cup {None}],
             verdict' \in [Requests -> Verdicts], faults' \in 0..MaxFaults
      PROVE TypeOK'
  <2>1. /\ events' \in [Requests -> EventSeq]
        /\ answer' = [answer EXCEPT ![r] = r]
        /\ passed' = [passed EXCEPT ![r] = TRUE]
        /\ pc' = [pc EXCEPT ![r] = "done"]
    BY <1>8, <1>e, Literals, AnswerType DEF ReplyOwn
  <2> QED
    BY <1>8, <2>1 DEF TypeOK, EventSeq, GetSteps, SetSteps
<1>9. ASSUME NEW r \in Requests, Write(r) \/ SetFails(r) PROVE TypeOK'
  <2>1. CASE Write(r)
    BY <2>1, <1>8 DEF Write, TypeOK
  <2>2. CASE SetFails(r)
    BY <2>2, <1>8, FaultType DEF SetFails, SetSteps, TypeOK, redisVars
  <2> QED
    BY <1>9, <2>1, <2>2
<1>10. ASSUME NEW r \in Requests, Retrieve(r) PROVE TypeOK'
  <2>1. /\ events' \in [Requests -> EventSeq] /\ UNCHANGED <<answer, passed>>
        /\ \/ pc' = [pc EXCEPT ![r] = "done"]
           \/ pc' = [pc EXCEPT ![r] = "generate"]
    BY <1>10, <1>e, Literals, CannedType, YieldType DEF Retrieve
  <2> QED
    BY <1>10, <2>1 DEF Retrieve, TypeOK, EventSeq, redisVars, GetSteps, SetSteps
<1>11. ASSUME NEW r \in Requests, Token(r) PROVE TypeOK'
  <2>1. events' \in [Requests -> EventSeq]
    BY <1>11, <1>e, Literals, YieldType DEF Token
  <2> QED
    BY <1>11, <2>1 DEF Token, TypeOK, EventSeq, redisVars, GetSteps, SetSteps
<1>12. ASSUME NEW r \in Requests, Generate(r) PROVE TypeOK'
  BY <1>12 DEF Generate, TypeOK, redisVars, replyVars, GetSteps, SetSteps
<1>13. ASSUME NEW r \in Requests, BackendFails(r) PROVE TypeOK'
  <2>1. events' \in [Requests -> EventSeq] /\ faults' \in 0..MaxFaults
    BY <1>13, <1>e, Literals, YieldType, FaultType DEF BackendFails, Fail
  <2> QED
    BY <1>13, <2>1
    DEF BackendFails, Fail, TypeOK, EventSeq, redisVars, GetSteps, SetSteps
<1>14. ASSUME NEW r \in Requests, Accept(r) \/ GuardFailsOpen(r) PROVE TypeOK'
  <2>1. /\ verdict' \in [Requests -> Verdicts] /\ faults' \in 0..MaxFaults
        /\ Proceed(r)
        /\ UNCHANGED <<prompt, ready, indexed, entries, at, scope, useCache, again, lookup,
                       kind, disturbed>>
        /\ pc[r] = "guard"
    BY <1>14, FaultType DEF Accept, GuardFailsOpen, Judge, Checked, TypeOK, Verdicts, redisVars
  <2>2. CASE ReplyOwn(r)
    BY <2>1, <2>2, <1>8 DEF TypeOK
  <2>3. CASE useCache[r] /\ Goto(r, "set") /\ UNCHANGED replyVars
    <3>1. at[r] \in Processes /\ scope[r] \in Scope
      BY <2>1 DEF TypeOK
    <3> QED
      BY <2>1, <2>3, <3>1 DEF TypeOK, replyVars, GetSteps, SetSteps
  <2> QED
    BY <2>1, <2>2, <2>3 DEF Proceed
<1>15. ASSUME NEW r \in Requests, Reject(r) PROVE TypeOK'
  <2>1. events' \in [Requests -> EventSeq] /\ UNCHANGED <<answer, passed>>
        /\ pc' = [pc EXCEPT ![r] = "done"]
    BY <1>15, <1>e, Literals, CannedType DEF Reject
  <2> QED
    BY <1>15, <2>1
    DEF Reject, Judge, TypeOK, EventSeq, Verdicts, redisVars, GetSteps, SetSteps
<1>16. ASSUME NEW t \in Tenants, SetPrompt(t) PROVE TypeOK'
  BY <1>16, ChatAssumption DEF SetPrompt, TypeOK, redisVars, replyVars
<1>17. ASSUME NEW k \in Scope, Expire(k) PROVE TypeOK'
  BY <1>17 DEF Expire, TypeOK, replyVars
<1>18. ASSUME LoseIndex PROVE TypeOK'
  BY <1>18, FaultType DEF LoseIndex, TypeOK, replyVars
<1>19. CASE UNCHANGED vars
  BY <1>19 DEF vars, redisVars, replyVars, TypeOK
<1> QED
  BY <1>1, <1>2, <1>3, <1>4, <1>5, <1>6, <1>7, <1>9, <1>10, <1>11, <1>12, <1>13, <1>14,
     <1>15, <1>16, <1>17, <1>18, <1>19 DEF Next, Step

------------------------------------------------------------------------------
(* What the cache holds and replays.                                       *)

\* A step changes the requests' answers and verdicts for r alone.
AnswersOf(r) ==
    \A q \in Requests \ {r} :
        /\ pc'[q] = pc[q] /\ useCache'[q] = useCache[q] /\ kind'[q] = kind[q]
        /\ verdict'[q] = verdict[q] /\ lookup'[q] = lookup[q] /\ answer'[q] = answer[q]

\* Sound after a step; its argument is a request, of either state.
SoundNext(g) ==
    useCache'[g] /\ kind'[g] = "fact" /\ verdict'[g] # "unfaithful" /\ pc'[g] = "done"

\* What CacheInv says of the request r itself.
CacheInvOf(r) ==
    /\ pc[r] \notin SetSteps \cup {"done", "failed"} => verdict[r] = "none"
    /\ pc[r] \in SetSteps => kind[r] = "fact" /\ verdict[r] # "unfaithful"
    /\ lookup[r] = "hit" => pc[r] = "done" /\ answer[r] \in Requests /\ Sound(answer[r])

\* A request that is not done is in no entry and no replay, so that its own step
\* disturbs neither, and entries only expire or get a sound answer of its own.
LEMMA CacheFrame ==
    ASSUME TypeOK, CacheInv, NEW r \in Requests, pc[r] # "done", AnswersOf(r),
           \A k \in Scope : \/ entries'[k] \in {entries[k], None}
                            \/ entries'[k] = r /\ SoundNext(r),
           CacheInvOf(r)'
    PROVE  CacheInv'
<1>1. ASSUME NEW g \in Requests, Sound(g) PROVE SoundNext(g) /\ g # r
  BY <1>1 DEF Sound, SoundNext, AnswersOf
<1>2. ASSUME NEW k \in Scope, entries'[k] # None PROVE SoundNext(entries'[k])
  <2>1. CASE entries'[k] = entries[k]
    <3>1. entries[k] \in Requests /\ Sound(entries[k])
      BY <1>2, <2>1 DEF TypeOK, CacheInv
    <3> QED
      BY <2>1, <3>1, <1>1
  <2>2. CASE entries'[k] = r /\ SoundNext(r)
    BY <2>2
  <2> QED
    BY <1>2, <2>1, <2>2
<1>3. ASSUME NEW q \in Requests PROVE CacheInvOf(q)'
  <2>1. CASE q = r
    BY <2>1
  <2>2. CASE q # r
    <3>1. CacheInvOf(q)
      BY DEF CacheInv, CacheInvOf
    <3>2. ASSUME lookup[q] = "hit" PROVE SoundNext(answer'[q]) /\ answer'[q] \in Requests
      BY <3>1, <3>2, <2>2, <1>1 DEF CacheInvOf, AnswersOf
    <3> QED
      BY <3>1, <3>2, <2>2 DEF CacheInvOf, AnswersOf, Sound, SoundNext
  <2> QED
    BY <2>1, <2>2
<1> QED
  BY <1>2, <1>3 DEF CacheInv, CacheInvOf, Sound, SoundNext

\* Every step keeps what the cache holds, and the replays, sound.
LEMMA CacheStep == IInv /\ [Next]_vars => CacheInv'
<1> SUFFICES ASSUME IInv, [Next]_vars PROVE CacheInv'
  OBVIOUS
<1>0. TypeOK /\ CacheInv
  BY DEF IInv
<1> USE DEF Goto, redisVars, replyVars
<1>e. events \in [Requests -> EventSeq]
  BY <1>0 DEF TypeOK, EventSeq
<1>r. ASSUME NEW r \in Requests PROVE CacheInvOf(r)
  BY <1>0 DEF CacheInv, CacheInvOf
<1>own. ASSUME NEW r \in Requests, ReplyOwn(r)
        PROVE  answer' = [answer EXCEPT ![r] = r] /\ pc' = [pc EXCEPT ![r] = "done"]
  BY <1>own, <1>e, Literals, AnswerType DEF ReplyOwn
<1>1. ASSUME NEW r \in Requests, Block(r) PROVE CacheInv'
  <2>1. UNCHANGED <<answer, passed>> /\ pc' = [pc EXCEPT ![r] = "done"]
    BY <1>1, <1>e, Literals, CannedType DEF Block
  <2>2. UNCHANGED <<entries, useCache, lookup, kind, verdict>> /\ pc[r] = "new"
    BY <1>1 DEF Block, Assemble
  <2>3. AnswersOf(r) /\ CacheInvOf(r)'
    <3>1. AnswersOf(r)
      BY <2>1, <2>2, <1>0 DEF AnswersOf, TypeOK
    <3>2. CacheInvOf(r)'
      BY <2>1, <2>2, <1>r, <1>0 DEF CacheInvOf, SetSteps, TypeOK
    <3> QED
      BY <3>1, <3>2
  <2> QED
    BY <2>2, <2>3, <1>0, CacheFrame
<1>2. ASSUME NEW r \in Requests, Allow(r) PROVE CacheInv'
  <2>1. PICK use \in BOOLEAN :
          /\ useCache' = [useCache EXCEPT ![r] = use]
          /\ pc' = [pc EXCEPT ![r] = IF use THEN "get" ELSE "retrieve"]
    BY <1>2 DEF Allow
  <2>2. UNCHANGED <<entries, answer, lookup, kind, verdict>> /\ pc[r] = "new"
    BY <1>2 DEF Allow, Assemble
  <2>3. AnswersOf(r) /\ CacheInvOf(r)'
    <3>1. AnswersOf(r)
      BY <2>1, <2>2, <1>0 DEF AnswersOf, TypeOK
    <3>2. CacheInvOf(r)'
      BY <2>1, <2>2, <1>r, <1>0 DEF CacheInvOf, SetSteps, TypeOK
    <3> QED
      BY <3>1, <3>2
  <2> QED
    BY <2>2, <2>3, <1>0, CacheFrame
<1>3. ASSUME NEW r \in Requests, PrepareGet(r) \/ PrepareSet(r) PROVE CacheInv'
  <2>1. UNCHANGED <<entries, useCache, answer, lookup, kind, verdict>> /\ pc[r] # "done"
    BY <1>3 DEF PrepareGet, PrepareSet, EnsureIndex, CreateIndex
  <2>2. \/ /\ pc[r] \in GetSteps
           /\ \E label \in GetSteps : pc' = [pc EXCEPT ![r] = label]
        \/ /\ pc[r] \in SetSteps
           /\ \E label \in SetSteps : pc' = [pc EXCEPT ![r] = label]
    BY <1>3 DEF PrepareGet, PrepareSet, EnsureIndex, CreateIndex, GetSteps, SetSteps
  <2>3. AnswersOf(r) /\ CacheInvOf(r)'
    <3>1. AnswersOf(r)
      BY <2>1, <2>2, <1>0 DEF AnswersOf, TypeOK
    <3>2. CacheInvOf(r)'
      BY <2>1, <2>2, <1>r, <1>0 DEF CacheInvOf, GetSteps, SetSteps, TypeOK
    <3> QED
      BY <3>1, <3>2
  <2> QED
    BY <2>1, <2>3, <1>0, CacheFrame
<1>4. ASSUME NEW r \in Requests, Hit(r) PROVE CacheInv'
  <2>1. PICK n \in Nearest(scope[r]) : ReplyWith(r, entries[n], <<"sources", "token">>)
    BY <1>4 DEF Hit
  <2>2. n \in Scope /\ entries[n] \in Requests /\ Sound(entries[n])
    BY <1>4, <2>1, <1>0 DEF Hit, Nearest, TypeOK, CacheInv, GetSteps
  <2>3. answer' = [answer EXCEPT ![r] = entries[n]] /\ pc' = [pc EXCEPT ![r] = "done"]
    BY <2>1, <1>e, Literals, AnswerType
  <2>4. UNCHANGED <<entries, useCache, kind, verdict>> /\ pc[r] = "search"
        /\ lookup' = [lookup EXCEPT ![r] = "hit"]
    BY <1>4 DEF Hit
  <2>5. AnswersOf(r)
    BY <2>3, <2>4, <1>0 DEF AnswersOf, TypeOK
  <2>6. SoundNext(entries[n])
    BY <2>2, <2>4, <2>5 DEF Sound, SoundNext, AnswersOf
  <2>7. answer'[r] = entries[n] /\ pc'[r] = "done"
    BY <2>3, <1>0 DEF TypeOK
  <2>8. CacheInvOf(r)'
    BY <2>2, <2>6, <2>7 DEF CacheInvOf, Sound, SoundNext, SetSteps
  <2> QED
    BY <2>4, <2>5, <2>8, <1>0, CacheFrame
<1>5. ASSUME NEW r \in Requests, Miss(r) \/ NoSuchIndex(r) \/ GetFails(r) PROVE CacheInv'
  <2>1. UNCHANGED <<entries, useCache, answer, kind, verdict>> /\ pc[r] \in GetSteps
    BY <1>5 DEF Miss, NoSuchIndex, GetFails, Bypass, GetSteps
  <2>2. /\ pc' = [pc EXCEPT ![r] = "retrieve"] \/ pc' = [pc EXCEPT ![r] = "get"]
        /\ \/ lookup' = lookup
           \/ lookup' = [lookup EXCEPT ![r] = "miss"]
           \/ lookup' = [lookup EXCEPT ![r] = "bypassed"]
    BY <1>5 DEF Miss, NoSuchIndex, GetFails, Bypass
  <2>3. AnswersOf(r) /\ CacheInvOf(r)'
    <3>1. AnswersOf(r)
      BY <2>1, <2>2, <1>0 DEF AnswersOf, TypeOK
    <3>2. CacheInvOf(r)'
      BY <2>1, <2>2, <1>r, <1>0 DEF CacheInvOf, GetSteps, SetSteps, TypeOK
    <3> QED
      BY <3>1, <3>2
  <2> QED
    BY <2>1, <2>3, <1>0, CacheFrame DEF GetSteps
<1>6. ASSUME NEW r \in Requests, Write(r) PROVE CacheInv'
  <2>1. UNCHANGED <<useCache, kind, verdict, lookup>> /\ pc[r] = "write"
        /\ entries' = [entries EXCEPT ![scope[r]] = r]
        /\ answer' = [answer EXCEPT ![r] = r] /\ pc' = [pc EXCEPT ![r] = "done"]
    BY <1>6, <1>own DEF Write
  <2>2. useCache[r] /\ kind[r] = "fact" /\ verdict[r] # "unfaithful" /\ lookup[r] # "hit"
    BY <2>1, <1>0, <1>r DEF TypeOK, CacheInvOf, SetSteps
  <2>3. SoundNext(r) /\ AnswersOf(r) /\ CacheInvOf(r)'
    BY <2>1, <2>2, <1>0 DEF SoundNext, AnswersOf, CacheInvOf, SetSteps, TypeOK
  <2>4. \A k \in Scope : entries'[k] = entries[k] \/ entries'[k] = r
    BY <2>1, <1>0 DEF TypeOK
  <2> QED
    BY <2>1, <2>3, <2>4, <1>0, CacheFrame
<1>7. ASSUME NEW r \in Requests, SetFails(r) PROVE CacheInv'
  <2>1. UNCHANGED <<entries, useCache, kind, verdict, lookup>> /\ pc[r] \in SetSteps
        /\ answer' = [answer EXCEPT ![r] = r] /\ pc' = [pc EXCEPT ![r] = "done"]
    BY <1>7, <1>own DEF SetFails
  <2>2. AnswersOf(r) /\ CacheInvOf(r)'
    <3>1. AnswersOf(r)
      BY <2>1, <1>0 DEF AnswersOf, TypeOK
    <3>2. CacheInvOf(r)'
      BY <2>1, <1>r, <1>0 DEF CacheInvOf, SetSteps, TypeOK
    <3> QED
      BY <3>1, <3>2
  <2> QED
    BY <2>1, <2>2, <1>0, CacheFrame DEF SetSteps
<1>8. ASSUME NEW r \in Requests, Retrieve(r) \/ Token(r) \/ BackendFails(r) PROVE CacheInv'
  <2>1. UNCHANGED <<entries, useCache, kind, verdict, lookup, answer>>
        /\ pc[r] \in {"retrieve", "generate"}
    BY <1>8 DEF Retrieve, Token, BackendFails, Fail, ReplyCanned
  <2>2. \E label \in {"done", "failed", "generate"} : pc' = [pc EXCEPT ![r] = label]
    BY <1>8, <1>e, <1>0, Literals, CannedType
    DEF Retrieve, Token, BackendFails, Fail, ReplyCanned, TypeOK
  <2>3. AnswersOf(r) /\ CacheInvOf(r)'
    <3>1. AnswersOf(r)
      BY <2>1, <2>2, <1>0 DEF AnswersOf, TypeOK
    <3>2. CacheInvOf(r)'
      BY <2>1, <2>2, <1>r, <1>0 DEF CacheInvOf, SetSteps, TypeOK
    <3> QED
      BY <3>1, <3>2
  <2> QED
    BY <2>1, <2>3, <1>0, CacheFrame
<1>9. ASSUME NEW r \in Requests, Generate(r) PROVE CacheInv'
  <2>1. UNCHANGED <<entries, useCache, verdict, lookup, answer>> /\ pc[r] = "generate"
        /\ pc' = [pc EXCEPT ![r] = "guard"] /\ \E k : kind' = [kind EXCEPT ![r] = k]
    BY <1>9 DEF Generate
  <2>2. AnswersOf(r) /\ CacheInvOf(r)'
    <3>1. AnswersOf(r)
      BY <2>1, <1>0 DEF AnswersOf, TypeOK
    <3>2. CacheInvOf(r)'
      BY <2>1, <1>r, <1>0 DEF CacheInvOf, SetSteps, TypeOK
    <3> QED
      BY <3>1, <3>2
  <2> QED
    BY <2>1, <2>2, <1>0, CacheFrame
<1>10. ASSUME NEW r \in Requests, Accept(r) \/ GuardFailsOpen(r) PROVE CacheInv'
  <2>1. UNCHANGED <<entries, useCache, kind, lookup>> /\ pc[r] = "guard" /\ Proceed(r)
        /\ \/ verdict' = verdict
           \/ verdict' = [verdict EXCEPT ![r] = "faithful"]
           \/ verdict' = [verdict EXCEPT ![r] = "error"]
    BY <1>10 DEF Accept, GuardFailsOpen, Judge
  <2>2. \/ /\ answer' = [answer EXCEPT ![r] = r]
           /\ pc' = [pc EXCEPT ![r] = "done"]
        \/ /\ kind[r] = "fact" /\ UNCHANGED answer
           /\ pc' = [pc EXCEPT ![r] = "set"]
    BY <2>1, <1>own DEF Proceed, ShouldCache
  <2>3. verdict[r] = "none" /\ lookup[r] # "hit"
    BY <2>1, <1>r DEF CacheInvOf, SetSteps
  <2>4. AnswersOf(r) /\ CacheInvOf(r)'
    <3>1. AnswersOf(r)
      BY <2>1, <2>2, <2>3, <1>0 DEF AnswersOf, TypeOK
    <3>2. CacheInvOf(r)'
      BY <2>1, <2>2, <2>3, <1>0 DEF CacheInvOf, SetSteps, TypeOK
    <3> QED
      BY <3>1, <3>2
  <2> QED
    BY <2>1, <2>4, <1>0, CacheFrame
<1>11. ASSUME NEW r \in Requests, Reject(r) PROVE CacheInv'
  <2>1. UNCHANGED <<entries, useCache, kind, lookup, answer>> /\ pc[r] = "guard"
        /\ verdict' = [verdict EXCEPT ![r] = "unfaithful"]
        /\ pc' = [pc EXCEPT ![r] = "done"]
    BY <1>11 DEF Reject, Judge, ReplyCanned
  <2>2. AnswersOf(r) /\ CacheInvOf(r)'
    <3>1. AnswersOf(r)
      BY <2>1, <1>0 DEF AnswersOf, TypeOK
    <3>2. CacheInvOf(r)'
      BY <2>1, <1>r, <1>0 DEF CacheInvOf, SetSteps, TypeOK
    <3> QED
      BY <3>1, <3>2
  <2> QED
    BY <2>1, <2>2, <1>0, CacheFrame
<1>12. ASSUME UNCHANGED <<useCache, kind, verdict, pc, lookup, answer>>,
              \A k \in Scope : entries'[k] \in {entries[k], None}
       PROVE  CacheInv'
  BY <1>0, <1>12 DEF CacheInv, Sound
<1>13. ASSUME \/ \E t \in Tenants : SetPrompt(t)
              \/ \E k \in Scope : Expire(k)
              \/ LoseIndex
              \/ UNCHANGED vars
       PROVE  CacheInv'
  BY <1>0, <1>12, <1>13 DEF SetPrompt, Expire, LoseIndex, vars, TypeOK
<1> QED
  BY <1>1, <1>2, <1>3, <1>4, <1>5, <1>6, <1>7, <1>8, <1>9, <1>10, <1>11, <1>13
  DEF Next, Step

------------------------------------------------------------------------------
(* Lookups and the index.                                                  *)

\* What HealInv and OutagesHeal say of the request r itself.
HealInvOf(r) ==
    /\ pc[r] = "new" => again[r]
    /\ ~ again[r] /\ r \notin disturbed =>
        /\ pc[r] = "search" => indexed
        /\ pc[r] = "get" /\ ready[at[r]] => indexed
    /\ lookup[r] = "bypassed" => r \in disturbed

\* A step disturbs no other request's lookup when it leaves the index, and sets
\* the flag of a process only where there is one.
LEMMA HealFrame ==
    ASSUME TypeOK, HealInv, OutagesHeal, NEW r \in Requests,
           indexed => indexed', disturbed \subseteq disturbed',
           \A p \in Processes : ready'[p] => ready[p] \/ indexed',
           \A q \in Requests \ {r} : /\ pc'[q] = pc[q] /\ again'[q] = again[q]
                                      /\ at'[q] = at[q] /\ lookup'[q] = lookup[q],
           HealInvOf(r)'
    PROVE  HealInv' /\ OutagesHeal'
<1>1. ASSUME NEW q \in Requests \ {r} PROVE HealInvOf(q)'
  <2>1. HealInvOf(q)
    BY DEF HealInv, OutagesHeal, HealInvOf
  <2>2. pc[q] = "get" => at[q] \in Processes
    BY DEF TypeOK
  <2> QED
    BY <2>1, <2>2 DEF HealInvOf
<1> QED
  BY <1>1 DEF HealInv, OutagesHeal, HealInvOf

\* Every step keeps the lookups that nothing disturbed on their way to the index.
LEMMA HealStep == IInv /\ [Next]_vars => HealInv' /\ OutagesHeal'
<1> SUFFICES ASSUME IInv, [Next]_vars PROVE HealInv' /\ OutagesHeal'
  OBVIOUS
<1>0. TypeOK /\ HealInv /\ OutagesHeal
  BY DEF IInv
<1> USE DEF Goto, redisVars, replyVars
<1>r. ASSUME NEW r \in Requests PROVE HealInvOf(r)
  BY <1>0 DEF HealInv, OutagesHeal, HealInvOf
(* The steps that leave the cache alone, and never lead into a lookup.     *)
<1>1. ASSUME NEW r \in Requests, UNCHANGED <<ready, indexed, again, disturbed>>,
             \A q \in Requests \ {r} :
                pc'[q] = pc[q] /\ at'[q] = at[q] /\ lookup'[q] = lookup[q],
             pc'[r] \in {"new", "get"} => again[r],
             pc'[r] # "search",
             lookup'[r] = "bypassed" => lookup[r] = "bypassed"
      PROVE  HealInv' /\ OutagesHeal'
  <2>1. HealInvOf(r)'
    BY <1>1, <1>r DEF HealInvOf
  <2> QED
    BY <1>0, <1>1, <2>1, HealFrame
<1>2. ASSUME NEW r \in Requests, Block(r) \/ Allow(r) PROVE HealInv' /\ OutagesHeal'
  <2>1. UNCHANGED <<ready, indexed, again, disturbed, lookup>> /\ pc[r] = "new"
        /\ \E p : at' = [at EXCEPT ![r] = p]
        /\ \E label \in {"done", "get", "retrieve"} : pc' = [pc EXCEPT ![r] = label]
    BY <1>2 DEF Block, Allow, Assemble, ReplyCanned
  <2>2. again[r]
    BY <2>1, <1>r DEF HealInvOf
  <2> QED
    BY <2>1, <2>2, <1>0, <1>1 DEF TypeOK
<1>3. ASSUME NEW r \in Requests,
             Hit(r) \/ Miss(r) \/ Retrieve(r) \/ Token(r) \/ Generate(r) \/ BackendFails(r)
             \/ Accept(r) \/ GuardFailsOpen(r) \/ Reject(r) \/ Write(r) \/ SetFails(r)
      PROVE  HealInv' /\ OutagesHeal'
  <2>1. UNCHANGED <<ready, indexed, again, disturbed, at>>
    BY <1>3 DEF Hit, Miss, Retrieve, Token, Generate, BackendFails, Accept,
                GuardFailsOpen, Reject, Write, SetFails
  <2>2. /\ pc[r] \notin {"new", "get"}
        /\ \E label \in {"done", "failed", "retrieve", "generate", "guard", "set"} :
              pc' = [pc EXCEPT ![r] = label]
        /\ \/ lookup' = lookup
           \/ lookup' = [lookup EXCEPT ![r] = "hit"]
           \/ lookup' = [lookup EXCEPT ![r] = "miss"]
    BY <1>3, <1>0
    DEF Hit, Miss, Retrieve, Token, Generate, BackendFails, Fail, Accept, GuardFailsOpen,
        Reject, Write, SetFails, SetSteps, Proceed, ReplyOwn, ReplyWith, ReplyCanned, TypeOK
  <2>3. /\ pc'[r] \notin {"new", "get", "search"}
        /\ lookup'[r] = "bypassed" => lookup[r] = "bypassed"
        /\ \A q \in Requests \ {r} : pc'[q] = pc[q] /\ lookup'[q] = lookup[q]
    BY <2>2, <1>0 DEF TypeOK
  <2> QED
    BY <2>1, <2>3, <1>1
<1>4. ASSUME NEW r \in Requests, PrepareGet(r) \/ PrepareSet(r)
      PROVE  HealInv' /\ OutagesHeal'
  <2>1. UNCHANGED <<again, disturbed, at, lookup>>
    BY <1>4 DEF PrepareGet, PrepareSet, EnsureIndex, CreateIndex
  <2>2. at[r] \in Processes
    BY <1>4, <1>0 DEF PrepareGet, PrepareSet, EnsureIndex, CreateIndex, TypeOK
  <2>3. /\ \/ UNCHANGED ready
           \/ indexed' /\ ready' = [ready EXCEPT ![at[r]] = TRUE]
        /\ indexed => indexed'
    BY <1>4 DEF PrepareGet, PrepareSet, EnsureIndex, CreateIndex, SetReady
  <2>4. /\ pc[r] # "new"
        /\ \/ \E label \in {"getCreate", "setCreate", "write"} :
                pc' = [pc EXCEPT ![r] = label]
           \/ /\ pc' = [pc EXCEPT ![r] = "search"]
              /\ \/ indexed'
                 \/ pc[r] = "get" /\ ready[at[r]] /\ indexed' = indexed
    <3>1. CASE EnsureIndex(r, "get", "getCreate", "search")
      BY <3>1 DEF EnsureIndex
    <3>2. CASE EnsureIndex(r, "set", "setCreate", "write")
      BY <3>2 DEF EnsureIndex
    <3>3. CASE CreateIndex(r, "getCreate", "search") \/ CreateIndex(r, "setCreate", "write")
      BY <3>3 DEF CreateIndex
    <3> QED
      BY <1>4, <3>1, <3>2, <3>3 DEF PrepareGet, PrepareSet
  <2>5. HealInvOf(r)'
    <3>1. pc'[r] \notin {"new", "get"}
      BY <2>4, <1>0 DEF TypeOK
    <3>2. ASSUME pc'[r] = "search", ~ again[r], r \notin disturbed PROVE indexed'
      BY <2>4, <3>2, <1>0, <1>r DEF HealInvOf, TypeOK
    <3> QED
      BY <2>1, <3>1, <3>2, <1>r DEF HealInvOf
  <2> QED
    BY <2>1, <2>2, <2>3, <2>4, <2>5, <1>0, HealFrame DEF TypeOK
<1>5. ASSUME NEW r \in Requests, NoSuchIndex(r) PROVE HealInv' /\ OutagesHeal'
  <2>0. at[r] \in Processes
    BY <1>5, <1>0 DEF NoSuchIndex, TypeOK
  <2>1. UNCHANGED <<indexed, disturbed, at>> /\ pc[r] = "search" /\ ~ indexed
    BY <1>5 DEF NoSuchIndex
  <2>2. CASE again[r]
    <3>1. /\ ready' = [ready EXCEPT ![at[r]] = FALSE] /\ UNCHANGED lookup
          /\ again' = [again EXCEPT ![r] = FALSE] /\ pc' = [pc EXCEPT ![r] = "get"]
      BY <1>5, <2>2 DEF NoSuchIndex, SetReady
    <3>2. HealInvOf(r)'
      BY <2>0, <2>1, <3>1, <1>0, <1>r DEF HealInvOf, TypeOK
    <3> QED
      BY <2>1, <3>1, <3>2, <1>0, HealFrame DEF TypeOK
  <2>3. CASE ~ again[r]
    <3>1. r \in disturbed
      BY <2>1, <2>3, <1>r DEF HealInvOf
    <3>2. UNCHANGED <<ready, again>> /\ pc' = [pc EXCEPT ![r] = "retrieve"]
          /\ lookup' = [lookup EXCEPT ![r] = "bypassed"]
      BY <1>5, <2>3 DEF NoSuchIndex, Bypass
    <3>3. HealInvOf(r)'
      BY <2>1, <3>1, <3>2, <1>0 DEF HealInvOf, TypeOK
    <3> QED
      BY <2>1, <3>2, <3>3, <1>0, HealFrame DEF TypeOK
  <2> QED
    BY <2>2, <2>3
<1>6. ASSUME NEW r \in Requests, GetFails(r) PROVE HealInv' /\ OutagesHeal'
  <2>1. /\ UNCHANGED <<ready, indexed, at, again>> /\ disturbed' = disturbed \cup {r}
        /\ pc' = [pc EXCEPT ![r] = "retrieve"]
        /\ lookup' = [lookup EXCEPT ![r] = "bypassed"]
    BY <1>6 DEF GetFails, Bypass
  <2>2. HealInvOf(r)'
    BY <2>1, <1>0 DEF HealInvOf, TypeOK
  <2> QED
    BY <2>1, <2>2, <1>0, HealFrame DEF TypeOK
<1>7. ASSUME LoseIndex PROVE HealInv' /\ OutagesHeal'
  BY <1>0, <1>7 DEF LoseIndex, HealInv, OutagesHeal, GetSteps
<1>8. CASE (\E t \in Tenants : SetPrompt(t)) \/ (\E k \in Scope : Expire(k)) \/ UNCHANGED vars
  BY <1>0, <1>8 DEF SetPrompt, Expire, vars, HealInv, OutagesHeal
<1> QED
  BY <1>2, <1>3, <1>4, <1>5, <1>6, <1>7, <1>8 DEF Next, Step

------------------------------------------------------------------------------
(* The theorems.                                                           *)

\* The inductive invariant holds of every reachable state.
LEMMA Invariant == Spec => []IInv
<1>1. IInv /\ [Next]_vars => IInv'
  BY TypeStep, CacheStep, HealStep DEF IInv
<1> QED
  BY InitInv, <1>1, PTL DEF Spec

\* For any number of requests, processes, tenants and questions the state keeps
\* its types: in particular a request that looks up or stores has an assembled
\* pipeline and is one that uses the cache.
THEOREM ChatTypeCorrect == Spec => []TypeOK
BY Invariant, PTL DEF IInv

\* What RAGPipeline replays from the cache was written by a request that used the
\* cache, says something, and was never rejected by the faithfulness guard.
THEOREM ReplaysOnlyPassed == Spec => []ReplaysPassed
<1>1. IInv => ReplaysPassed
  BY DEF IInv, CacheInv, ReplaysPassed, Sound
<1> QED
  BY Invariant, <1>1, PTL

\* A lookup of SemanticCache bypasses the cache only when Redis failed or lost
\* the index while it ran: threads and processes heal an index lost before.
THEOREM OutagesAlwaysHeal == Spec => []OutagesHeal
BY Invariant, PTL DEF IInv

------------------------------------------------------------------------------
(* The events of a stream.                                                 *)

EventKinds == {"sources", "token", "error", "done"}

\* The steps before a stream has sources, and those of its answer.
Early == {"new", "get", "getCreate", "search", "retrieve"}
Answering == {"generate", "guard", "set", "setCreate", "write"}

\* Sources, and the tokens so far.
Text(e) ==
    e # <<>> /\ e[1] = "sources" /\ \A i \in 2..Len(e) : e[i] = "token"

\* A stream has nothing before its sources, and text while it answers.
EventsOK ==
    /\ pc[Watched] \in Early => events[Watched] = <<>>
    /\ pc[Watched] \in Answering => Text(events[Watched])

\* A step of stream r takes it from one of these steps to one of those, and
\* yields these events.
Says(r, from, to, es) ==
    pc[r] \in from /\ pc'[r] \in to /\ events'[r] = events[r] \o es

\* What is written out is a sequence of events.
LEMMA WrittenOut ==
    ASSUME NEW u \in EventKinds, NEW v \in EventKinds, NEW w \in EventKinds
    PROVE  /\ <<u>> \in Seq(EventKinds) /\ Len(<<u>>) = 1 /\ <<u>>[1] = u
           /\ <<u, v>> \in Seq(EventKinds) /\ Len(<<u, v>>) = 2
           /\ <<u, v>>[1] = u /\ <<u, v>>[2] = v
           /\ <<u, v, w>> \in Seq(EventKinds) /\ Len(<<u, v, w>>) = 3
           /\ <<u, v, w>>[1] = u /\ <<u, v, w>>[2] = v /\ <<u, v, w>>[3] = w
OBVIOUS

\* Joining what is written out.
LEMMA Joined ==
    ASSUME NEW u \in EventKinds, NEW v \in EventKinds, NEW w \in EventKinds
    PROVE  /\ <<>> \o <<u>> = <<u>>
           /\ <<u>> \o <<v>> = <<u, v>>
           /\ <<u, v>> \o <<w>> = <<u, v, w>>
<1>1. <<>> \o <<u>> = <<u>>
  BY WrittenOut, ConcatEmptySeq
<1>2. <<u>> \o <<v>> = <<u, v>>
  <2> DEFINE s == <<u>> \o <<v>>
             t == <<u, v>>
  <2>1. s \in Seq(EventKinds) /\ t \in Seq(EventKinds) /\ Len(s) = 2 /\ Len(t) = 2
    BY WrittenOut, ConcatProperties
  <2>2. s[1] = u /\ s[2] = v
    BY WrittenOut, ConcatProperties
  <2>3. t[1] = u /\ t[2] = v
    BY WrittenOut
  <2> HIDE DEF s, t
  <2>4. \A i \in 1..Len(s) : s[i] = t[i]
    BY <2>1, <2>2, <2>3
  <2>5. s = t
    BY <2>1, <2>4, SeqEqual
  <2> QED
    BY <2>5 DEF s, t
<1>3. <<u, v>> \o <<w>> = <<u, v, w>>
  <2> DEFINE s == <<u, v>> \o <<w>>
             t == <<u, v, w>>
  <2>1. s \in Seq(EventKinds) /\ t \in Seq(EventKinds) /\ Len(s) = 3 /\ Len(t) = 3
    BY WrittenOut, ConcatProperties
  <2>2. s[1] = u /\ s[2] = v /\ s[3] = w
    BY WrittenOut, ConcatProperties
  <2>3. t[1] = u /\ t[2] = v /\ t[3] = w
    BY WrittenOut
  <2> HIDE DEF s, t
  <2>4. \A i \in 1..Len(s) : s[i] = t[i]
    BY <2>1, <2>2, <2>3
  <2>5. s = t
    BY <2>1, <2>4, SeqEqual
  <2> QED
    BY <2>5 DEF s, t
<1> QED
  BY <1>1, <1>2, <1>3

\* All that a step of a stream may yield.
LEMMA WhatIsSaid ==
    ASSUME TypeOK, NEW r \in Streams, Step(r)
    PROVE  \/ Says(r, Early, Early, <<>>)
           \/ Says(r, Early, {"generate"}, <<"sources">>)
           \/ Says(r, Early, {"done"}, <<"sources", "token", "done">>)
           \/ Says(r, Early, {"failed"}, <<"error">>)
           \/ Says(r, Answering, Answering, <<>>)
           \/ Says(r, Answering, Answering, <<"token">>)
           \/ Says(r, Answering, {"failed"}, <<"error">>)
           \/ Says(r, Answering, {"done"}, <<"done">>)
           \/ Says(r, Answering, {"done"}, <<"error", "done">>)
<1> USE DEF Says, Early, Answering
<1>0. /\ r \in Requests /\ pc \in [Requests -> GetSteps \cup SetSteps \cup
                 {"new", "retrieve", "generate", "guard", "done", "failed"}]
      /\ events \in [Requests -> EventSeq]
  BY ChatAssumption DEF TypeOK, EventSeq
<1>1. /\ events[r] \o <<>> = events[r]
      /\ <<"sources", "token">> \o <<"done">> = <<"sources", "token", "done">>
      /\ <<"error">> \o <<"done">> = <<"error", "done">>
      /\ <<>> \o <<"done">> = <<"done">>
  <2>1. events[r] \in Seq({"sources", "token", "error", "done"})
    BY <1>0 DEF EventSeq
  <2>2. /\ <<"sources", "token">> \o <<"done">> = <<"sources", "token", "done">>
        /\ <<"error">> \o <<"done">> = <<"error", "done">>
        /\ <<>> \o <<"done">> = <<"done">>
    <3>1. "sources" \in EventKinds /\ "token" \in EventKinds
          /\ "error" \in EventKinds /\ "done" \in EventKinds
      BY DEF EventKinds
    <3> QED
      BY <3>1, Joined
  <2> QED
    BY <2>1, <2>2, ConcatEmptySeq
<1>2. \A es : Yield(r, es) => events'[r] = events[r] \o es
  BY <1>0 DEF Yield
<1>3. \A label : Goto(r, label) => pc'[r] = label
  BY <1>0 DEF Goto
<1>4. \A es : ReplyCanned(r, es) => pc'[r] = "done" /\ events'[r] = events[r] \o (es \o <<"done">>)
  BY <1>2, <1>3 DEF ReplyCanned
<1>5. ASSUME NEW g, NEW es, ReplyWith(r, g, es)
      PROVE  pc'[r] = "done" /\ events'[r] = events[r] \o (es \o <<"done">>)
  BY <1>2, <1>3, <1>5 DEF ReplyWith
<1>6. ReplyOwn(r) => pc'[r] = "done" /\ events'[r] = events[r] \o <<"done">>
  BY <1>1, <1>5 DEF ReplyOwn
<1>7. Fail(r) => pc'[r] = "failed" /\ events'[r] = events[r] \o <<"error">>
  BY <1>2, <1>3 DEF Fail
<1>8. Proceed(r) => \/ pc'[r] = "done" /\ events'[r] = events[r] \o <<"done">>
                    \/ pc'[r] = "set" /\ events' = events
  BY <1>3, <1>6 DEF Proceed, replyVars
<1>9. CASE Block(r)
  BY <1>1, <1>4, <1>9 DEF Block, Assemble
<1>10. CASE Allow(r)
  <2>1. pc[r] = "new" /\ pc'[r] \in {"get", "retrieve"} /\ events' = events
    BY <1>3, <1>10 DEF Allow, Assemble, replyVars
  <2> QED
    BY <1>1, <2>1
<1>11. CASE PrepareGet(r)
  <2>1. pc[r] \in {"get", "getCreate"} /\ pc'[r] \in {"getCreate", "search"} /\ events' = events
    BY <1>3, <1>11 DEF PrepareGet, EnsureIndex, CreateIndex, replyVars
  <2> QED
    BY <1>1, <2>1
<1>12. CASE PrepareSet(r)
  <2>1. pc[r] \in {"set", "setCreate"} /\ pc'[r] \in {"setCreate", "write"} /\ events' = events
    BY <1>3, <1>12 DEF PrepareSet, EnsureIndex, CreateIndex, replyVars
  <2> QED
    BY <1>1, <2>1
<1>13. CASE Hit(r)
  <2>1. pc[r] = "search"
    BY <1>13 DEF Hit
  <2>2. pc'[r] = "done" /\ events'[r] = events[r] \o (<<"sources", "token">> \o <<"done">>)
    BY <1>5, <1>13 DEF Hit
  <2> QED
    BY <1>1, <2>1, <2>2
<1>14. CASE Miss(r) \/ NoSuchIndex(r) \/ GetFails(r)
  <2>1. pc[r] \in GetSteps /\ pc'[r] \in {"get", "retrieve"} /\ events' = events
    BY <1>3, <1>14 DEF Miss, NoSuchIndex, GetFails, Bypass, GetSteps, replyVars
  <2> QED
    BY <1>1, <2>1 DEF GetSteps
<1>15. CASE Retrieve(r)
  BY <1>1, <1>2, <1>3, <1>4, <1>15 DEF Retrieve
<1>16. CASE Token(r)
  BY <1>0, <1>2, <1>16 DEF Token
<1>17. CASE Generate(r)
  <2>1. pc[r] = "generate" /\ pc'[r] = "guard" /\ events' = events
    BY <1>3, <1>17 DEF Generate, replyVars
  <2> QED
    BY <1>1, <2>1
<1>18. CASE BackendFails(r)
  BY <1>7, <1>18 DEF BackendFails
<1>19. CASE Accept(r) \/ GuardFailsOpen(r)
  <2>1. pc[r] = "guard" /\ Proceed(r)
    BY <1>19 DEF Accept, GuardFailsOpen
  <2> QED
    BY <1>1, <1>8, <2>1
<1>20. CASE Reject(r)
  BY <1>1, <1>4, <1>20 DEF Reject
<1>21. CASE Write(r) \/ SetFails(r)
  <2>1. pc[r] \in SetSteps /\ ReplyOwn(r)
    BY <1>21 DEF Write, SetFails, SetSteps
  <2> QED
    BY <1>6, <2>1 DEF SetSteps
<1> QED
  BY <1>9, <1>10, <1>11, <1>12, <1>13, <1>14, <1>15, <1>16, <1>17, <1>18, <1>19, <1>20, <1>21
     DEF Step

\* Nobody else's step touches it.
LEMMA OthersSilent ==
    ASSUME TypeOK, NEW r \in Requests,
           \/ \E q \in Requests \ {r} : Step(q)
           \/ \E t \in Tenants : SetPrompt(t)
           \/ \E k \in Scope : Expire(k)
           \/ LoseIndex \/ UNCHANGED vars
    PROVE  pc'[r] = pc[r] /\ events'[r] = events[r]
<1> USE DEF replyVars
<1>1. ASSUME NEW q \in Requests \ {r}, Step(q)
      PROVE  pc'[r] = pc[r] /\ events'[r] = events[r]
  <2> DEFINE Silent == pc'[r] = pc[r] /\ events'[r] = events[r]
  <2>0. pc'[r] = pc[r] <=> pc'[r] = pc[r]
    OBVIOUS
  <2>1. \A label : Goto(q, label) => pc'[r] = pc[r]
    BY DEF Goto, TypeOK
  <2>2. \A es : Yield(q, es) => events'[r] = events[r]
    BY DEF Yield, TypeOK
  <2>3. \A es : ReplyCanned(q, es) => Silent
    BY <2>1, <2>2 DEF ReplyCanned
  <2>4. \A g, es : ReplyWith(q, g, es) => Silent
    BY <2>1, <2>2 DEF ReplyWith
  <2>5. ReplyOwn(q) => Silent
    BY <2>4 DEF ReplyOwn
  <2>6. Fail(q) => Silent
    BY <2>1, <2>2 DEF Fail
  <2>7. Proceed(q) => Silent
    BY <2>1, <2>5 DEF Proceed
  <2>8. CASE Block(q) \/ Allow(q)
    BY <2>1, <2>3, <2>8 DEF Block, Allow
  <2>9. CASE PrepareGet(q) \/ PrepareSet(q)
    BY <2>1, <2>9 DEF PrepareGet, PrepareSet, EnsureIndex, CreateIndex
  <2>10. CASE Hit(q)
    BY <2>4, <2>10 DEF Hit
  <2>11. CASE Miss(q) \/ NoSuchIndex(q) \/ GetFails(q)
    BY <2>1, <2>11 DEF Miss, NoSuchIndex, GetFails, Bypass
  <2>12. CASE Retrieve(q) \/ Token(q) \/ Generate(q) \/ BackendFails(q)
    BY <2>1, <2>2, <2>3, <2>6, <2>12 DEF Retrieve, Token, Generate, BackendFails
  <2>13. CASE Accept(q) \/ GuardFailsOpen(q) \/ Reject(q)
    BY <2>3, <2>7, <2>13 DEF Accept, GuardFailsOpen, Reject
  <2>14. CASE Write(q) \/ SetFails(q)
    BY <2>5, <2>14 DEF Write, SetFails
  <2> QED
    BY <1>1, <2>8, <2>9, <2>10, <2>11, <2>12, <2>13, <2>14 DEF Step
<1>2. ASSUME \/ \E t \in Tenants : SetPrompt(t)
             \/ \E k \in Scope : Expire(k)
             \/ LoseIndex \/ UNCHANGED vars
      PROVE  pc'[r] = pc[r] /\ events'[r] = events[r]
  BY <1>2 DEF SetPrompt, Expire, LoseIndex, vars
<1> QED
  BY <1>1, <1>2

\* What a text goes on with: a token, or an error, the verdict, or both.
LEMMA Continuations ==
    ASSUME NEW es \in {<<"token">>, <<"error">>, <<"done">>, <<"error", "done">>}
    PROVE  /\ es \in Seq(EventKinds) /\ Len(es) \in {1, 2}
           /\ es[1] \in {"token", "error", "done"}
           /\ Len(es) = 2 => es[1] = "error" /\ es[2] = "done"
           /\ es = <<"token">> => Len(es) = 1 /\ es[1] = "token"
           /\ es # <<"token">> => es[Len(es)] \in {"error", "done"}
<1>0. "token" \in EventKinds /\ "error" \in EventKinds /\ "done" \in EventKinds
  BY DEF EventKinds
<1>1. CASE es = <<"token">>
  BY <1>0, <1>1, WrittenOut
<1>2. CASE es = <<"error">>
  <2>1. es \in Seq(EventKinds) /\ Len(es) = 1 /\ es[1] = "error"
    BY <1>0, <1>2, WrittenOut
  <2>2. <<"token">>[1] = "token"
    OBVIOUS
  <2> QED
    BY <2>1, <2>2
<1>3. CASE es = <<"done">>
  <2>1. es \in Seq(EventKinds) /\ Len(es) = 1 /\ es[1] = "done"
    BY <1>0, <1>3, WrittenOut
  <2>2. <<"token">>[1] = "token"
    OBVIOUS
  <2> QED
    BY <2>1, <2>2
<1>4. CASE es = <<"error", "done">>
  <2>1. es \in Seq(EventKinds) /\ Len(es) = 2 /\ es[1] = "error" /\ es[2] = "done"
    BY <1>0, <1>4, WrittenOut
  <2>2. Len(<<"token">>) = 1
    OBVIOUS
  <2> QED
    BY <2>1, <2>2
<1> QED
  BY <1>1, <1>2, <1>3, <1>4

\* A text goes on with a token, and ends with an error, the verdict, or both.
LEMMA TextGoesOn ==
    ASSUME NEW e \in Seq(EventKinds), Text(e),
           NEW es \in {<<"token">>, <<"error">>, <<"done">>, <<"error", "done">>}
    PROVE  /\ e \o es \in Seq(EventKinds)
           /\ Len(e \o es) > Len(e) /\ SubSeq(e \o es, 1, Len(e)) = e
           /\ Stream!WellFormed(e \o es)
           /\ es = <<"token">> => Text(e \o es)
           /\ es # <<"token">> => Stream!Complete(e \o es)
<1> DEFINE f == e \o es
           m == Len(e)
           n == Len(es)
<1>0. /\ es \in Seq(EventKinds) /\ n \in {1, 2} /\ es[1] \in {"token", "error", "done"}
      /\ n = 2 => es[1] = "error" /\ es[2] = "done"
      /\ es = <<"token">> => n = 1 /\ es[1] = "token"
      /\ es # <<"token">> => es[n] \in {"error", "done"}
  BY Continuations
<1>1. m \in Nat /\ m >= 1 /\ e[1] = "sources" /\ \A i \in 2..m : e[i] = "token"
  <2>1. m \in Nat /\ (m = 0 => e = <<>>)
    OBVIOUS
  <2> QED
    BY <2>1 DEF Text
<1>2. /\ f \in Seq(EventKinds) /\ Len(f) = m + n
      /\ \A i \in 1..(m + n) : f[i] = IF i <= m THEN e[i] ELSE es[i - m]
  BY <1>0, ConcatProperties
<1>3. SubSeq(f, 1, m) = e
  BY <1>0, <1>1, <1>2
<1> HIDE DEF f, m, n
<1>4. f[1] = "sources"
  BY <1>0, <1>1, <1>2
<1>5. \A i \in 2..m : f[i] = "token"
  BY <1>0, <1>1, <1>2
<1>6. f[m + 1] = es[1]
  <2>1. m + 1 \in 1..(m + n) /\ ~ (m + 1 <= m) /\ (m + 1) - m = 1
    BY <1>0, <1>1
  <2> QED
    BY <1>2, <2>1
<1>7. n = 2 => f[m + 2] = es[2]
  <2> SUFFICES ASSUME n = 2 PROVE f[m + 2] = es[2]
    OBVIOUS
  <2>1. m + 2 \in 1..(m + n) /\ ~ (m + 2 <= m) /\ (m + 2) - m = 2
    BY <1>0, <1>1
  <2> QED
    BY <1>2, <2>1
<1>8. Stream!WellFormed(f)
  <2> SUFFICES ASSUME NEW i \in 1..Len(f)
               PROVE  CASE f[i] = "sources" -> i = 1
                        [] f[i] = "token"   -> i > 1 /\ f[i-1] \in {"sources", "token"}
                        [] f[i] = "error"   -> (i > 1 => f[i-1] \in {"sources", "token"})
                        [] f[i] = "done"    -> i > 1 /\ f[1] = "sources" /\ f[i-1] # "done"
    BY DEF Stream!WellFormed
  <2>1. \A j \in 1..m : f[j] \in {"sources", "token"}
    BY <1>1, <1>4, <1>5
  <2>0. i \in Nat /\ i >= 1 /\ (i = 1 \/ i \in 2..m \/ i = m + 1 \/ (n = 2 /\ i = m + 2))
    BY <1>0, <1>1, <1>2
  <2>2. CASE i = 1
    BY <1>4, <2>2
  <2>3. CASE i \in 2..m
    <3>1. i - 1 \in 1..m /\ i > 1
      BY <1>1, <2>3
    <3>2. f[i] = "token" /\ f[i - 1] \in {"sources", "token"}
      BY <1>5, <2>1, <2>3, <3>1
    <3> QED
      BY <3>1, <3>2
  <2>4. CASE i = m + 1
    <3>1. i - 1 \in 1..m /\ i > 1
      BY <1>1, <2>4
    <3>2. f[i - 1] \in {"sources", "token"} /\ f[i] \in {"token", "error", "done"}
      BY <1>0, <1>6, <2>1, <2>4, <3>1
    <3> QED
      BY <1>4, <3>1, <3>2
  <2>5. CASE n = 2 /\ i = m + 2
    <3>1. i - 1 = m + 1 /\ i > 1
      BY <1>1, <2>5
    <3>2. f[i] = "done" /\ f[i - 1] = "error"
      BY <1>0, <1>6, <1>7, <2>5, <3>1
    <3> QED
      BY <1>4, <3>1, <3>2
  <2> QED
    BY <2>0, <2>2, <2>3, <2>4, <2>5
<1>9. es = <<"token">> => Text(f)
  <2> SUFFICES ASSUME es = <<"token">> PROVE Text(f)
    OBVIOUS
  <2>1. Len(f) = m + 1 /\ f[m + 1] = "token" /\ f # <<>>
    BY <1>0, <1>1, <1>2, <1>6
  <2>2. \A i \in 2..Len(f) : i \in 2..m \/ i = m + 1
    BY <1>1, <2>1
  <2> QED
    BY <1>4, <1>5, <2>1, <2>2 DEF Text
<1>10. es # <<"token">> => Stream!Complete(f)
  <2> SUFFICES ASSUME es # <<"token">> PROVE Stream!Complete(f)
    OBVIOUS
  <2>1. f # <<>>
    BY <1>0, <1>1, <1>2
  <2>2. f[Len(f)] = es[n]
    BY <1>0, <1>2, <1>6, <1>7
  <2> QED
    BY <1>0, <2>1, <2>2 DEF Stream!Complete
<1>11. Len(f) > m
  BY <1>0, <1>1, <1>2
<1> QED
  BY <1>2, <1>3, <1>8, <1>9, <1>10, <1>11 DEF f, m

\* The first that is said is the sources, a canned reply, or an error.
LEMMA TextBegins ==
    ASSUME NEW es \in {<<"sources">>, <<"sources", "token", "done">>, <<"error">>}
    PROVE  /\ <<>> \o es = es /\ es \in Seq(EventKinds)
           /\ Len(es) > Len(<<>>) /\ SubSeq(es, 1, Len(<<>>)) = <<>>
           /\ Stream!WellFormed(es)
           /\ es = <<"sources">> => Text(es)
           /\ es # <<"sources">> => Stream!Complete(es)
<1>0. \A v \in {"sources", "token", "error", "done"} : v \in EventKinds
  BY DEF EventKinds
<1>1. CASE es = <<"sources">>
  <2>0. Len(<<>>) = 0
    OBVIOUS
  <2>1. es \in Seq(EventKinds) /\ Len(es) = 1 /\ es[1] = "sources"
    BY <1>0, <1>1, WrittenOut
  <2>2. Stream!WellFormed(es) /\ Text(es)
    <3>0. es # <<>>
      BY <2>1, <2>0
    <3>1. \A i \in 1..Len(es) : i = 1
      BY ONLY <2>1
    <3>2. 2..Len(es) = {}
      BY <2>1
    <3> QED
      BY <2>1, <3>0, <3>1, <3>2 DEF Stream!WellFormed, Text
  <2>3. <<>> \o es = es
    BY <2>1, ConcatEmptySeq
  <2> QED
    BY <1>1, <2>1, <2>2, <2>3
<1>2. CASE es = <<"sources", "token", "done">>
  <2>1. /\ es \in Seq(EventKinds) /\ Len(es) = 3
        /\ es[1] = "sources" /\ es[2] = "token" /\ es[3] = "done"
    BY <1>0, <1>2, WrittenOut
  <2>2. \A i \in 1..Len(es) : i = 1 \/ i = 2 \/ i = 3
    BY <2>1
  <2>3. Stream!WellFormed(es)
    <3> SUFFICES ASSUME NEW i \in 1..Len(es)
                 PROVE  CASE es[i] = "sources" -> i = 1
                          [] es[i] = "token"   -> i > 1 /\ es[i-1] \in {"sources", "token"}
                          [] es[i] = "error"   -> (i > 1 => es[i-1] \in {"sources", "token"})
                          [] es[i] = "done"    -> i > 1 /\ es[1] = "sources" /\ es[i-1] # "done"
      BY DEF Stream!WellFormed
    <3>1. CASE i = 1
      BY <2>1, <3>1
    <3>2. CASE i = 2
      <4>1. i > 1 /\ es[i] = "token" /\ es[i - 1] = "sources"
        BY <2>1, <3>2
      <4> QED
        BY <4>1
    <3>3. CASE i = 3
      <4>1. i > 1 /\ es[i] = "done" /\ es[i - 1] = "token"
        BY <2>1, <3>3
      <4> QED
        BY <2>1, <4>1
    <3> QED
      BY <2>2, <3>1, <3>2, <3>3
  <2>4. Stream!Complete(es) /\ es # <<"sources">>
    <3>1. Len(<<"sources">>) = 1 /\ Len(<<>>) = 0
      OBVIOUS
    <3>2. es # <<>> /\ es # <<"sources">>
      <4>1. Len(es) = 3
        BY <2>1
      <4> HIDE <1>2
      <4> QED
        BY <3>1, <4>1
    <3>3. es[Len(es)] = "done"
      BY <2>1
    <3> QED
      BY <3>2, <3>3 DEF Stream!Complete
  <2>5. <<>> \o es = es
    BY <2>1, ConcatEmptySeq
  <2> QED
    BY <2>1, <2>3, <2>4, <2>5
<1>3. CASE es = <<"error">>
  <2>1. es \in Seq(EventKinds) /\ Len(es) = 1 /\ es[1] = "error"
    BY <1>0, <1>3, WrittenOut
  <2>2. Stream!WellFormed(es) /\ Stream!Complete(es)
    <3>1. Len(<<>>) = 0
      OBVIOUS
    <3>2. es # <<>> /\ es[Len(es)] = "error" /\ \A i \in 1..Len(es) : i = 1 /\ es[i] = "error"
      <4>1. Len(es) = 1 /\ es[1] = "error"
        BY <2>1
      <4> HIDE <1>3
      <4>2. es # <<>>
        BY ONLY <3>1, <4>1
      <4>3. \A i \in 1..Len(es) : i = 1
        BY ONLY <4>1
      <4> QED
        BY <4>1, <4>2, <4>3
    <3>3. Stream!WellFormed(es)
      <4> SUFFICES ASSUME NEW i \in 1..Len(es)
                   PROVE  CASE es[i] = "sources" -> i = 1
                            [] es[i] = "token"   -> i > 1 /\ es[i-1] \in {"sources", "token"}
                            [] es[i] = "error"   -> (i > 1 => es[i-1] \in {"sources", "token"})
                            [] es[i] = "done"    -> i > 1 /\ es[1] = "sources" /\ es[i-1] # "done"
        BY DEF Stream!WellFormed
      <4>1. i = 1 /\ es[i] = "error" /\ ~ (i > 1)
        BY <3>2
      <4> QED
        BY <4>1
    <3> QED
      BY <3>2, <3>3 DEF Stream!Complete
  <2>3. es # <<"sources">>
    <3>1. <<"sources">>[1] = "sources"
      OBVIOUS
    <3> QED
      BY <2>1, <3>1
  <2>4. <<>> \o es = es
    BY <2>1, ConcatEmptySeq
  <2> QED
    BY <2>1, <2>2, <2>3, <2>4
<1> QED
  BY <1>1, <1>2, <1>3

\* Sending what goes on well is a step of SseStream.
LEMMA Sending ==
    ASSUME NEW old, old = events[Watched], NEW new, new = events'[Watched],
           pc[Watched] \notin {"done", "failed"},
           new \in Seq(EventKinds), Len(new) > Len(old), SubSeq(new, 1, Len(old)) = old,
           Stream!WellFormed(new),
           pc'[Watched] \in {"done", "failed"} => Stream!Complete(new)
    PROVE  Stream!Next
<1>1. Stream!Send
  BY DEF Stream!Send, Stream!EventTypes, EventKinds
<1>2. (pc[Watched] \in {"done", "failed"})' \in BOOLEAN
  OBVIOUS
<1> QED
  BY <1>1, <1>2 DEF Stream!Next

\* A stream with a chat history, a guard, an outage or a failure is one as
\* SseStream describes it: every step of RAGPipeline.stream sends events that
\* continue a well-formed stream, or ends a complete one, or says nothing.
THEOREM StreamsWellFormed == Spec => StreamWellFormed
<1> DEFINE e == events[Watched]
           ended == pc[Watched] \in {"done", "failed"}
<1>0. Watched \in Streams /\ Watched \in Requests
  BY ChatAssumption
<1>1. Init => Stream!Init /\ EventsOK
  BY <1>0 DEF Init, Stream!Init, EventsOK, Early, Answering
<1>2. ASSUME TypeOK, EventsOK, [Next]_vars
      PROVE  EventsOK' /\ [Stream!Next]_<<events[Watched], pc[Watched] \in {"done", "failed"}>>
  <2>0. e \in Seq(EventKinds)
    BY <1>0, <1>2 DEF TypeOK, EventKinds
  <2>1. CASE pc'[Watched] = pc[Watched] /\ events'[Watched] = events[Watched]
    BY <1>2, <2>1 DEF EventsOK, Text
  <2>2. ASSUME NEW es, NEW to,
               Says(Watched, Early, to, es),
               es \in {<<"sources">>, <<"sources", "token", "done">>, <<"error">>},
               \/ to = {"generate"} /\ es = <<"sources">>
               \/ to \subseteq {"done", "failed"} /\ es # <<"sources">>
        PROVE  EventsOK' /\ [Stream!Next]_<<events[Watched], pc[Watched] \in {"done", "failed"}>>
    <3>1. /\ e = <<>> /\ e' = es /\ ~ended /\ pc'[Watched] \in to
          /\ Len(es) > Len(<<>>) /\ SubSeq(es, 1, Len(<<>>)) = <<>> /\ es \in Seq(EventKinds)
          /\ Stream!WellFormed(es)
          /\ es = <<"sources">> => Text(es)
          /\ es # <<"sources">> => Stream!Complete(es)
      BY <1>2, <2>2, TextBegins DEF Says, EventsOK, Early
    <3>2. EventsOK'
      BY <2>2, <3>1 DEF EventsOK, Early, Answering, Text
    <3>3. ended' => Stream!Complete(es)
      BY <2>2, <3>1
    <3>4. Stream!Next
      BY <3>1, <3>3, Sending
    <3> QED
      BY <3>2, <3>4
  <2>3. ASSUME NEW es, NEW to,
               Says(Watched, Answering, to, es),
               es \in {<<"token">>, <<"error">>, <<"done">>, <<"error", "done">>},
               \/ to = Answering /\ es = <<"token">>
               \/ to \subseteq {"done", "failed"} /\ es # <<"token">>
        PROVE  EventsOK' /\ [Stream!Next]_<<events[Watched], pc[Watched] \in {"done", "failed"}>>
    <3>1. Text(e) /\ e' = e \o es /\ ~ended /\ pc'[Watched] \in to
      BY <1>2, <2>3 DEF Says, EventsOK, Answering
    <3>2. /\ e' \in Seq(EventKinds)
          /\ Len(e') > Len(e) /\ SubSeq(e', 1, Len(e)) = e
          /\ Stream!WellFormed(e')
          /\ es = <<"token">> => Text(e')
          /\ es # <<"token">> => Stream!Complete(e')
      <4> DEFINE f == e \o es
      <4>1. /\ f \in Seq(EventKinds)
            /\ Len(f) > Len(e) /\ SubSeq(f, 1, Len(e)) = e
            /\ Stream!WellFormed(f)
            /\ es = <<"token">> => Text(f)
            /\ es # <<"token">> => Stream!Complete(f)
        BY <2>0, <2>3, <3>1, TextGoesOn
      <4>2. e' = f
        BY <3>1
      <4> HIDE DEF f
      <4> QED
        BY <4>1, <4>2
    <3>3. EventsOK'
      BY <2>3, <3>1, <3>2 DEF EventsOK, Early, Answering, Text
    <3>4. ended' => Stream!Complete(e')
      BY <2>3, <3>1, <3>2 DEF Answering
    <3>5. Stream!Next
      BY <3>1, <3>2, <3>4, Sending
    <3> QED
      BY <3>3, <3>5
  <2>4. ASSUME Says(Watched, Early, Early, <<>>) \/ Says(Watched, Answering, Answering, <<>>)
        PROVE  EventsOK' /\ [Stream!Next]_<<events[Watched], pc[Watched] \in {"done", "failed"}>>
    <3>1. e' = e /\ ~ended /\ ~ended'
      BY <2>0, <2>4 DEF Says, Early, Answering
    <3> QED
      BY <1>2, <2>4, <3>1 DEF Says, EventsOK, Early, Answering, Text
  <2>5. CASE Step(Watched)
    BY <1>0, <1>2, <2>2, <2>3, <2>4, <2>5, WhatIsSaid
  <2>6. CASE ~Step(Watched)
    <3>1. pc'[Watched] = pc[Watched] /\ events'[Watched] = events[Watched]
      BY <1>0, <1>2, <2>6, OthersSilent DEF Next
    <3> QED
      BY <2>1, <3>1
  <2> QED
    BY <2>5, <2>6
<1>3. IInv => TypeOK
  BY DEF IInv
<1> QED
  BY <1>1, <1>2, <1>3, Invariant, PTL DEF Spec, StreamWellFormed, Stream!Spec

==============================================================================
