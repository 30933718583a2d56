------------------------------ MODULE ChatPipeline ------------------------------
(***************************************************************************)
(* Answering a question: RAGPipeline.run and RAGPipeline.stream            *)
(* (src/src/core/rag_pipeline.py) over the semantic cache in Redis         *)
(* (src/src/cache/semantic_cache.py), for requests that run concurrently   *)
(* in the threads of several API processes.                                *)
(*                                                                         *)
(* A process keeps one pipeline per tenant, with the prompt settings the   *)
(* tenant had when it was assembled, and one SemanticCache, whose flag     *)
(* _index_ready remembers that the index exists.  Redis keeps the index    *)
(* and the entries, and may lose both under the running processes.  The    *)
(* cache is enabled here; without it, every request takes the full path.   *)
(*                                                                         *)
(* Texts are abstracted to who wrote them: a request generates at most one *)
(* answer, so `answer' and the cache hold the request an answer comes      *)
(* from, and kind and verdict say what is known of its text.               *)
(***************************************************************************)
EXTENDS Naturals, Sequences

CONSTANTS
    Requests,   \* requests to /chat and /chat/stream
    Streams,    \* those to /chat/stream
    Watched,    \* any one of them, whose events are compared with SseStream
    Processes,  \* uvicorn workers
    Tenants,
    TenantOf,   \* of a request
    QuestionOf, \* the text a request asks, after rewriting
    Questions,
    Similar,    \* pairs of keys whose embeddings reach the cosine threshold
    GuardOn,    \* ENABLE_FAITHFULNESS_GUARD
    MaxPrompts, \* bound on the changes of a tenant's prompt settings
    MaxTokens,  \* bound on the tokens of one streamed answer
    MaxFaults,  \* bound on the failed calls and lost indexes of a behaviour
    None

\* What a cache entry is stored under: the digest of the prompt settings and the
\* tenant, then the question (_scoped_cache_query).
Scope == [tenant : Tenants, prompt : 0..MaxPrompts, question : Questions]

ASSUME ChatAssumption ==
    /\ Streams \subseteq Requests /\ Watched \in Streams
    /\ TenantOf \in [Requests -> Tenants]
    /\ QuestionOf \in [Requests -> Questions]
    /\ Similar \subseteq Scope \X Scope
    /\ GuardOn \in BOOLEAN
    /\ MaxPrompts \in Nat /\ MaxTokens \in Nat /\ MaxFaults \in Nat
    /\ None \notin Requests \cup Scope \cup Processes

VARIABLES
    prompt,     \* prompt[t]: version of t's prompt settings in Postgres
    ready,      \* ready[p]: _index_ready of p's SemanticCache
    indexed,    \* whether the vector index exists in Redis
    entries,    \* entries[k]: the request whose answer is stored under k
    pc,         \* pc[r]: the next step of request r
    at,         \* at[r]: the process that serves r
    scope,      \* scope[r]: its scope, from the pipeline it was given
    useCache,   \* useCache[r]: not bypass_semantic_cache(...)
    again,      \* again[r]: the lookup may start once more
    lookup,     \* lookup[r]: how cache.get ended
    kind,       \* kind[r]: the answer r generated
    verdict,    \* verdict[r]: what the faithfulness guard made of it
    answer,     \* answer[r]: the answer r returned, by the request that wrote it
    passed,     \* passed[r]: faithfulness_passed of the reply
    events,     \* events[r]: types of the events a stream has yielded
    faults,
    (* History, read by the properties alone. *)
    disturbed   \* requests during whose lookup Redis failed or lost the index

redisVars == <<indexed, entries>>
replyVars == <<answer, passed, events>>
vars == <<prompt, ready, redisVars, pc, at, scope, useCache, again, lookup,
          kind, verdict, replyVars, faults, disturbed>>

Kinds == {"none", "fact", "denial", "empty"}

Verdicts == {"none", "faithful", "unfaithful", "error"}

\* The steps of cache.get and of cache.set.
GetSteps == {"get", "getCreate", "search"}
SetSteps == {"set", "setCreate", "write"}

TypeOK ==
    /\ prompt \in [Tenants -> 0..MaxPrompts]
    /\ ready \in [Processes -> BOOLEAN]
    /\ indexed \in BOOLEAN
    /\ entries \in [Scope -> Requests \cup {None}]
    /\ pc \in [Requests -> GetSteps \cup SetSteps \cup
                 {"new", "retrieve", "generate", "guard", "done", "failed"}]
    /\ at \in [Requests -> Processes \cup {None}]
    /\ scope \in [Requests -> Scope \cup {None}]
    /\ useCache \in [Requests -> BOOLEAN]
    /\ again \in [Requests -> BOOLEAN]
    /\ lookup \in [Requests -> {"none", "hit", "miss", "bypassed"}]
    /\ kind \in [Requests -> Kinds]
    /\ verdict \in [Requests -> Verdicts]
    /\ answer \in [Requests -> Requests \cup {None}]
    /\ passed \in [Requests -> BOOLEAN]
    /\ events \in [Requests -> Seq({"sources", "token", "error", "done"})]
    /\ faults \in 0..MaxFaults
    /\ disturbed \subseteq Requests
    /\ \A r \in Requests :
        /\ pc[r] # "new" => at[r] \in Processes /\ scope[r] \in Scope
        /\ pc[r] \in GetSteps \cup SetSteps => useCache[r]

Init ==
    /\ prompt = [t \in Tenants |-> 0]
    /\ ready = [p \in Processes |-> FALSE]
    /\ indexed = FALSE
    /\ entries = [k \in Scope |-> None]
    /\ pc = [r \in Requests |-> "new"]
    /\ at = [r \in Requests |-> None]
    /\ scope = [r \in Requests |-> None]
    /\ useCache = [r \in Requests |-> FALSE]
    /\ again = [r \in Requests |-> TRUE]
    /\ lookup = [r \in Requests |-> "none"]
    /\ kind = [r \in Requests |-> "none"]
    /\ verdict = [r \in Requests |-> "none"]
    /\ answer = [r \in Requests |-> None]
    /\ passed = [r \in Requests |-> FALSE]
    /\ events = [r \in Requests |-> <<>>]
    /\ faults = 0
    /\ disturbed = {}

Fault == faults < MaxFaults /\ faults' = faults + 1

Goto(r, label) == pc' = [pc EXCEPT ![r] = label]

\* Only a stream has events.
Yield(r, es) == events' = IF r \in Streams THEN [events EXCEPT ![r] = @ \o es]
                                           ELSE events

\* A canned reply: no answer of a model, nothing passed.
ReplyCanned(r, es) ==
    /\ Yield(r, es \o <<"done">>)
    /\ Goto(r, "done")
    /\ UNCHANGED <<answer, passed>>

\* The reply with an answer, a cached one or the request's own.
ReplyWith(r, g, es) ==
    /\ answer' = [answer EXCEPT ![r] = g]
    /\ passed' = [passed EXCEPT ![r] = TRUE]
    /\ Yield(r, es \o <<"done">>)
    /\ Goto(r, "done")

ReplyOwn(r) == ReplyWith(r, r, <<>>)

\* The exception reaches the route: HTTP 500, or an error event on a stream.
Fail(r) == Goto(r, "failed") /\ Yield(r, <<"error">>) /\ UNCHANGED <<answer, passed>>

------------------------------------------------------------------------------
(* Up to the cache.                                                        *)

\* get_rag_pipeline is an lru_cache in each process: the pipeline was assembled
\* by some earlier request, or is now, and keeps the settings of that time.
Assemble(r) ==
    /\ pc[r] = "new"
    /\ \E p \in Processes : at' = [at EXCEPT ![r] = p]
    /\ \E v \in 0..prompt[TenantOf[r]] :
        scope' = [scope EXCEPT ![r] =
                    [tenant |-> TenantOf[r], prompt |-> v, question |-> QuestionOf[r]]]
    /\ UNCHANGED <<prompt, ready, redisVars, again, lookup, kind, verdict, faults,
                   disturbed>>

\* The query guard matches a suspicious pattern.
Block(r) ==
    /\ Assemble(r)
    /\ ReplyCanned(r, <<"sources", "token">>)
    /\ UNCHANGED useCache

\* A chat history, a comprehensive question or a follow-up bypasses the cache.
Allow(r) ==
    /\ Assemble(r)
    /\ \E use \in BOOLEAN :
        /\ useCache' = [useCache EXCEPT ![r] = use]
        /\ Goto(r, IF use THEN "get" ELSE "retrieve")
    /\ UNCHANGED replyVars

------------------------------------------------------------------------------
(* The semantic cache.                                                     *)

SetReady(r, b) == ready' = [ready EXCEPT ![at[r]] = b]

\* _ensure_index at step `here', with the creation at `create' and what needs
\* the index at `next': a look at the flag, then at Redis.
EnsureIndex(r, here, create, next) ==
    /\ pc[r] = here
    /\ IF ready[at[r]] THEN UNCHANGED ready /\ Goto(r, next)
       ELSE IF indexed THEN SetReady(r, TRUE) /\ Goto(r, next)
       ELSE UNCHANGED ready /\ Goto(r, create)
    /\ UNCHANGED <<prompt, redisVars, at, scope, useCache, again, lookup, kind,
                   verdict, replyVars, faults, disturbed>>

\* FT.CREATE; that another thread was first ("Index already exists") is fine.
CreateIndex(r, create, next) ==
    /\ pc[r] = create
    /\ indexed' = TRUE
    /\ SetReady(r, TRUE)
    /\ Goto(r, next)
    /\ UNCHANGED <<prompt, entries, at, scope, useCache, again, lookup, kind,
                   verdict, replyVars, faults, disturbed>>

PrepareGet(r) ==
    EnsureIndex(r, "get", "getCreate", "search") \/ CreateIndex(r, "getCreate", "search")

PrepareSet(r) ==
    EnsureIndex(r, "set", "setCreate", "write") \/ CreateIndex(r, "setCreate", "write")

\* _should_cache_answer: neither blank nor a denial of coverage.
ShouldCache(g) == kind[g] = "fact"

\* The keys the search returns at or above the threshold, the nearest one first:
\* nothing is nearer than the question itself under the same scope.
Nearest(k) ==
    IF entries[k] # None THEN {k}
    ELSE {n \in Scope : entries[n] # None /\ <<k, n>> \in Similar}

Hit(r) ==
    /\ pc[r] = "search" /\ indexed
    /\ \E n \in Nearest(scope[r]) :
        /\ ShouldCache(entries[n])
        /\ ReplyWith(r, entries[n], <<"sources", "token">>)
    /\ lookup' = [lookup EXCEPT ![r] = "hit"]
    /\ UNCHANGED <<prompt, ready, redisVars, at, scope, useCache, again, kind,
                   verdict, faults, disturbed>>

Miss(r) ==
    /\ pc[r] = "search" /\ indexed
    /\ \/ Nearest(scope[r]) = {}
       \/ \E n \in Nearest(scope[r]) : ~ ShouldCache(entries[n])
    /\ lookup' = [lookup EXCEPT ![r] = "miss"]
    /\ Goto(r, "retrieve")
    /\ UNCHANGED <<prompt, ready, redisVars, at, scope, useCache, again, kind,
                   verdict, replyVars, faults, disturbed>>

Bypass(r) == lookup' = [lookup EXCEPT ![r] = "bypassed"] /\ Goto(r, "retrieve")

\* Mutant: the flag that says the index exists is never taken back.
NoSuchIndexReadyKept(r) ==
    /\ pc[r] = "search" /\ ~ indexed
    /\ Bypass(r)
    /\ UNCHANGED <<prompt, ready, redisVars, at, scope, useCache, again, kind,
                   verdict, replyVars, faults, disturbed>>

\* The index went away under the process: take the flag back and start once more.
NoSuchIndex(r) ==
    /\ pc[r] = "search" /\ ~ indexed
    /\ IF again[r]
       THEN /\ SetReady(r, FALSE)
            /\ again' = [again EXCEPT ![r] = FALSE]
            /\ Goto(r, "get")
            /\ UNCHANGED lookup
       ELSE Bypass(r) /\ UNCHANGED <<ready, again>>
    /\ UNCHANGED <<prompt, redisVars, at, scope, useCache, kind, verdict,
                   replyVars, faults, disturbed>>

\* Any other error of Redis, or of the embedding, during the lookup.
GetFails(r) ==
    /\ pc[r] \in GetSteps
    /\ Fault
    /\ Bypass(r)
    /\ disturbed' = disturbed \cup {r}
    /\ UNCHANGED <<prompt, ready, redisVars, at, scope, useCache, again, kind,
                   verdict, replyVars>>

\* The HSET and EXPIRE of cache.set, one transaction; the index is not needed.
Write(r) ==
    /\ pc[r] = "write"
    /\ entries' = [entries EXCEPT ![scope[r]] = r]
    /\ ReplyOwn(r)
    /\ UNCHANGED <<prompt, ready, indexed, at, scope, useCache, again, lookup,
                   kind, verdict, faults, disturbed>>

\* A failed write does not fail the request.
SetFails(r) ==
    /\ pc[r] \in SetSteps
    /\ Fault
    /\ ReplyOwn(r)
    /\ UNCHANGED <<prompt, ready, redisVars, at, scope, useCache, again, lookup,
                   kind, verdict, disturbed>>

------------------------------------------------------------------------------
(* Retrieval, generation, the faithfulness guard.                          *)

\* Mutant: the sources are sent after the look at what is relevant.
RetrieveDeclinesFirst(r) ==
    /\ pc[r] = "retrieve"
    /\ \/ Goto(r, "generate") /\ Yield(r, <<"sources">>) /\ UNCHANGED <<answer, passed>>
       \/ ReplyCanned(r, <<"token">>)
    /\ UNCHANGED <<prompt, ready, redisVars, at, scope, useCache, again, lookup, kind,
                   verdict, faults, disturbed>>

\* _retrieve, _rerank and _relevant: passages to cite, or none.  A reranker
\* that does not answer costs the floor, not the request.
Retrieve(r) ==
    /\ pc[r] = "retrieve"
    /\ \/ Goto(r, "generate") /\ Yield(r, <<"sources">>) /\ UNCHANGED <<answer, passed>>
       \/ ReplyCanned(r, <<"sources", "token">>)
    /\ UNCHANGED <<prompt, ready, redisVars, at, scope, useCache, again, lookup,
                   kind, verdict, faults, disturbed>>

\* One token of a streamed answer; the reader has it whatever the guard says.
Token(r) ==
    /\ pc[r] = "generate" /\ r \in Streams
    /\ Len(events[r]) <= MaxTokens
    /\ Yield(r, <<"token">>)
    /\ UNCHANGED <<prompt, ready, redisVars, pc, at, scope, useCache, again,
                   lookup, kind, verdict, answer, passed, faults, disturbed>>

\* The model is done; without its <thinking> the answer may be blank.
Generate(r) ==
    /\ pc[r] = "generate"
    /\ \E k \in Kinds \ {"none"} :
        /\ r \in Streams /\ Len(events[r]) = 1 => k = "empty"
        /\ kind' = [kind EXCEPT ![r] = k]
    /\ Goto(r, "guard")
    /\ UNCHANGED <<prompt, ready, redisVars, at, scope, useCache, again, lookup,
                   verdict, replyVars, faults, disturbed>>

\* The vector store, the keyword index or the model raises: nothing catches it.
BackendFails(r) ==
    /\ pc[r] \in {"retrieve", "generate"}
    /\ Fault
    /\ Fail(r)
    /\ UNCHANGED <<prompt, ready, redisVars, at, scope, useCache, again, lookup,
                   kind, verdict, disturbed>>

Checked(r) == GuardOn /\ kind[r] # "empty"

Judge(r, v) == verdict' = [verdict EXCEPT ![r] = v]

\* Mutant: what bypassed the lookup is stored all the same.
ProceedToCache(r) ==
    IF ShouldCache(r) THEN Goto(r, "set") /\ UNCHANGED replyVars ELSE ReplyOwn(r)

\* On to the cache, if the answer is for it, or to the reply.
Proceed(r) ==
    IF useCache[r] /\ ShouldCache(r) THEN Goto(r, "set") /\ UNCHANGED replyVars
                                     ELSE ReplyOwn(r)

Accept(r) ==
    /\ pc[r] = "guard"
    /\ IF Checked(r) THEN Judge(r, "faithful") ELSE UNCHANGED verdict
    /\ Proceed(r)
    /\ UNCHANGED <<prompt, ready, redisVars, at, scope, useCache, again, lookup,
                   kind, faults, disturbed>>

\* The guard itself raises and lets the answer pass.
GuardFailsOpen(r) ==
    /\ pc[r] = "guard" /\ Checked(r)
    /\ Fault
    /\ Judge(r, "error")
    /\ Proceed(r)
    /\ UNCHANGED <<prompt, ready, redisVars, at, scope, useCache, again, lookup,
                   kind, disturbed>>

\* Mutant: the stream, whose text is out already, is cached before the objection.
RejectCached(r) ==
    /\ pc[r] = "guard" /\ Checked(r)
    /\ Judge(r, "unfaithful")
    /\ entries' = IF useCache[r] /\ r \in Streams THEN [entries EXCEPT ![scope[r]] = r]
                                                  ELSE entries
    /\ ReplyCanned(r, <<"error">>)
    /\ UNCHANGED <<prompt, ready, indexed, at, scope, useCache, again, lookup,
                   kind, faults, disturbed>>

\* The answer of run is withheld; a stream is told, and nothing is cached.
Reject(r) ==
    /\ pc[r] = "guard" /\ Checked(r)
    /\ Judge(r, "unfaithful")
    /\ ReplyCanned(r, <<"error">>)
    /\ UNCHANGED <<prompt, ready, redisVars, at, scope, useCache, again, lookup,
                   kind, faults, disturbed>>

------------------------------------------------------------------------------
(* Around the requests.                                                    *)

\* set_tenant_prompt_settings, by an administrator.
SetPrompt(t) ==
    /\ prompt[t] < MaxPrompts
    /\ prompt' = [prompt EXCEPT ![t] = @ + 1]
    /\ UNCHANGED <<ready, redisVars, pc, at, scope, useCache, again, lookup, kind,
                   verdict, replyVars, faults, disturbed>>

\* An entry reaches its time to live.
Expire(k) ==
    /\ entries[k] # None
    /\ entries' = [entries EXCEPT ![k] = None]
    /\ UNCHANGED <<prompt, ready, indexed, pc, at, scope, useCache, again, lookup,
                   kind, verdict, replyVars, faults, disturbed>>

\* Redis restarts empty, or FLUSHDB.
LoseIndex ==
    /\ indexed
    /\ Fault
    /\ indexed' = FALSE
    /\ entries' = [k \in Scope |-> None]
    /\ disturbed' = disturbed \cup {r \in Requests : pc[r] \in GetSteps}
    /\ UNCHANGED <<prompt, ready, pc, at, scope, useCache, again, lookup, kind,
                   verdict, replyVars>>

------------------------------------------------------------------------------
Step(r) ==
    \/ Block(r) \/ Allow(r)
    \/ PrepareGet(r) \/ Hit(r) \/ Miss(r) \/ NoSuchIndex(r) \/ GetFails(r)
    \/ Retrieve(r) \/ Token(r) \/ Generate(r) \/ BackendFails(r)
    \/ Accept(r) \/ GuardFailsOpen(r) \/ Reject(r)
    \/ PrepareSet(r) \/ Write(r) \/ SetFails(r)

Next ==
    \/ \E r \in Requests : Step(r)
    \/ \E t \in Tenants : SetPrompt(t)
    \/ \E k \in Scope : Expire(k)
    \/ LoseIndex

Spec == Init /\ [][Next]_vars

------------------------------------------------------------------------------
(* Properties.                                                             *)

\* What is replayed from the cache, to whichever request asks, was written by a
\* request that used the cache itself, says something, and was never rejected by
\* the guard, although the guard speaks last and, on a stream, after the text.
ReplaysPassed ==
    \A r \in Requests :
        lookup[r] = "hit" =>
            LET g == answer[r]
            IN  useCache[g] /\ kind[g] = "fact" /\ verdict[g] # "unfaithful"

\* A lookup works without the cache only if Redis failed or lost the index while
\* it ran: an index lost earlier, under whichever process, is made again, also
\* when several threads and processes do so at once (semantic_cache.py:127-133).
OutagesHeal ==
    \A r \in Requests : lookup[r] = "bypassed" => r \in disturbed

\* The events of a stream, whatever the cache, the guard and the stores do.
Stream == INSTANCE SseStream WITH
    sent <- events[Watched], ended <- pc[Watched] \in {"done", "failed"}

StreamWellFormed == Stream!Spec

\* Tenants do not share cache entries, and an answer is not replayed under other
\* prompt settings.  README.md:121 and cache_scope_for_prompt say so; the scope
\* is part of the embedded text, and lookups compare embeddings alone.
EntriesNotShared ==
    \A r \in Requests :
        lookup[r] = "hit" =>
            /\ scope[answer[r]].tenant = scope[r].tenant
            /\ scope[answer[r]].prompt = scope[r].prompt

==============================================================================
