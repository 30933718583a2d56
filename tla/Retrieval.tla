------------------------------ MODULE Retrieval ------------------------------
(***************************************************************************)
(* From a question to the passages its answer may cite: _retrieve, _rerank *)
(* and _relevant of RAGPipeline (src/src/core/rag_pipeline.py) over the    *)
(* hybrid search (hybrid_search.py, bm25.py, pg_bm25.py, vector_store.py)  *)
(* and the reranker (llm/reranker.py).  ChatPipeline has one step for it.  *)
(*                                                                         *)
(* A passage stands for a langchain Document.  Texts are model values: two *)
(* passages have one text or two.  What embeddings, BM25, ts_rank and the  *)
(* reranker make of texts is an input; what the code does with the orders  *)
(* and scores they return is modelled exactly.                             *)
(***************************************************************************)
EXTENDS Integers, Sequences, FiniteSets, SequencesExt, FiniteSetsExt

CONSTANTS
    Sections,       \* parent sections in the stores
    Chunks,         \* their child chunks: a point and a keyword row each
    SectionOf,      \* SectionOf[c]: the section c was split from
    OwnerOf,        \* OwnerOf[s]: the tenant of section s
    PlaceOf,        \* PlaceOf[s]: its file and page
    TextOf,         \* TextOf[x]: the text of a section or chunk
    Asker,          \* the tenant who asks
    Queries,        \* what the external rankers make of a question
    Settings,       \* deployments: DATABASE_URL set, keyword index there,
                    \* rerank_max_candidates
    FetchK,         \* vector_fetch_k
    BM25K,          \* bm25_k
    Weights,        \* ensemble_weights, of the keyword and the dense list
    Denominator,    \* a common one for the reciprocal ranks
    TopK, WideTopK, \* top_k_rerank of the request; 8, if the question is broad
    MaxScore,       \* the reranker's scores are 0..MaxScore
    Floor,          \* rerank_min_score
    Relaxed,        \* 5, the passages kept when the floor is relaxed
    None

Files == {PlaceOf[s][1] : s \in Sections}

Texts == {TextOf[x] : x \in Sections \cup Chunks}

\* near, lexical: all chunks, the nearest and the best scored first; matched:
\* the chunks with a word of the question (for Postgres, with all of them);
\* named: how many of its words are in the name of a file; entity, mentioned: the
\* files and texts with one of its longer words; broad: wants_comprehensive_answer.
IsQuery(q) ==
    /\ \A ranking \in {q.near, q.words.lexical} :
        ranking \in Seq(Chunks) /\ IsInjective(ranking) /\ ToSet(ranking) = Chunks
    /\ q.words.matched \subseteq Chunks
    /\ q.words.named \in [Files -> Nat]
    /\ q.words.entity \subseteq Files /\ q.words.mentioned \subseteq Texts
    /\ q.broad \in BOOLEAN

ASSUME RetrievalAssumption ==
    /\ SectionOf \in [Chunks -> Sections]
    /\ \A q \in Queries : IsQuery(q)
    /\ Settings \subseteq [postgres : BOOLEAN, keyword : BOOLEAN, limit : Nat \ {0}]
    /\ \A d \in Settings : d.postgres => d.keyword
    /\ {FetchK, BM25K, TopK, Relaxed} \subseteq Nat \ {0}
    /\ WideTopK \in Nat /\ MaxScore \in Nat /\ Floor \in 0..MaxScore
    /\ Weights \in Nat \X Nat /\ Weights # <<0, 0>>
    /\ Denominator \in Nat \ {0}
    /\ \A i \in 1..(FetchK + BM25K) : Denominator % (60 + i) = 0
    /\ None \notin Sections /\ None \notin 0..MaxScore

VARIABLES
    setting,    \* the deployment
    query,      \* the question
    stage,      \* the next step
    keywordHits, denseHits,     \* what the two retrievers returned
    found,      \* the hits fused, resolved and deduplicated
    candidates, \* what goes to the reranker
    reranked,   \* what comes back
    cited,      \* what the answer is written from and cites
    judged      \* history: the reranker's score of each candidate

vars == <<setting, query, stage, keywordHits, denseHits, found, candidates, reranked,
          cited, judged>>

\* doc_id: the metadata of that name; score: relevance_score; section: where the
\* text comes from (no field of the Document, read by the properties alone).
Passage == [text : Texts, place : {PlaceOf[s] : s \in Sections}, section : Sections,
            doc_id : Sections \cup {None}, score : 0..MaxScore \cup {None}]

TypeOK ==
    /\ setting \in Settings /\ query \in Queries
    /\ stage \in {"keyword", "dense", "fuse", "rerank", "relevant", "done", "failed"}
    /\ {keywordHits, denseHits, found, candidates, reranked, cited} \subseteq Seq(Passage)
    /\ Len(keywordHits) <= BM25K /\ Len(denseHits) <= FetchK
    /\ Len(candidates) <= setting.limit
    /\ ToSet(judged) \subseteq 0..MaxScore
    /\ judged # <<>> => Len(judged) = Len(candidates)
    /\ \A p \in ToSet(keywordHits \o denseHits \o found \o candidates) : p.score = None
    /\ \A p, q \in ToSet(reranked) : p.score = None <=> q.score = None

Init ==
    /\ setting \in Settings
    /\ query \in Queries
    /\ stage = IF setting.keyword THEN "keyword" ELSE "dense"
    /\ keywordHits = <<>> /\ denseHits = <<>>
    /\ found = <<>> /\ candidates = <<>> /\ reranked = <<>> /\ cited = <<>>
    /\ judged = <<>>

------------------------------------------------------------------------------
(* Sequences of passages.                                                  *)

Take(s, n) == SubSeq(s, 1, Min({n, Len(s)}))

\* The indices I in the order R of them: the n-th has n - 1 before it.
Ordered(I, R) ==
    [n \in 1..Cardinality(I) |->
        CHOOSE i \in I : Cardinality({j \in I : <<j, i>> \in R}) = n - 1]

\* The elements of s at the indices I, in the order R.
Pick(s, I, R) == LET at == Ordered(I, R) IN [n \in DOMAIN at |-> s[at[n]]]

Earlier(s) == {p \in (DOMAIN s) \X (DOMAIN s) : p[1] < p[2]}

\* [x for x in s if Test(x)]
Filter(Test(_), s) == Pick(s, {i \in DOMAIN s : Test(s[i])}, Earlier(s))

\* The first of every Key, as the loops over a `seen' set keep it.
UniqueBy(Key(_), s) ==
    Pick(s, {i \in DOMAIN s : \A j \in DOMAIN s : Key(s[j]) = Key(s[i]) => i <= j}, Earlier(s))

\* The elements of s with the greatest of their keys first; stable.
Sorted(s, key) ==
    Pick(s, DOMAIN s,
         {p \in (DOMAIN s) \X (DOMAIN s) :
            key[p[1]] > key[p[2]] \/ (key[p[1]] = key[p[2]] /\ p[1] < p[2])})

\* sorted(s, key=Key, reverse=True)
SortedBy(Key(_), s) == Sorted(s, [i \in DOMAIN s |-> Key(s[i])])

------------------------------------------------------------------------------
(* The two retrievers.                                                     *)

MakePassage(x, s) == [text |-> TextOf[x], place |-> PlaceOf[s], section |-> s,
                      doc_id |-> None, score |-> None]

\* The stores of Postgres are read under the tenant; the local files know none.
Visible(s) == setting.postgres => OwnerOf[s] = Asker

\* Keyword chunks are split from the pages a second time, not taken from the
\* vector store: they carry the file and page of their page, and no doc_id.
ChunkPassage(c) == MakePassage(c, SectionOf[c])

\* Mutant: all that match.
AllMatches == Filter(LAMBDA c : c \in query.words.matched, query.words.lexical)

\* The pickle: the best k of all chunks, then those of them that match.
PickleHits == Filter(LAMBDA c : c \in query.words.matched, Take(query.words.lexical, BM25K))

\* Postgres: the best k of the tenant's rows that match; if none does, of those
\* whose text or file name has a longer word, the file names first (and the
\* longest texts first among them: any order will do here).
PostgresHits ==
    LET own == Filter(LAMBDA c : Visible(SectionOf[c]), query.words.lexical)
        full == Filter(LAMBDA c : c \in query.words.matched, own)
        InName(c) == PlaceOf[SectionOf[c]][1] \in query.words.entity
        fallback == Filter(LAMBDA c : InName(c) \/ TextOf[c] \in query.words.mentioned, own)
    IN  Take(IF full # <<>> THEN full
             ELSE SortedBy(LAMBDA c : IF InName(c) THEN 1 ELSE 0, fallback), BM25K)

KeywordHits ==
    LET hits == IF setting.postgres THEN PostgresHits ELSE PickleHits
    IN  [i \in DOMAIN hits |-> ChunkPassage(hits[i])]

\* The nearest k points of the one collection, as sections, each once.
NearestSections ==
    UniqueBy(LAMBDA s : s, [i \in DOMAIN Take(query.near, FetchK) |-> SectionOf[query.near[i]]])

\* Mutant: the parents are looked up without the tenant.
DenseHitsOfAll == [i \in DOMAIN NearestSections |->
                      MakePassage(NearestSections[i], NearestSections[i])]

\* Those of other tenants are not in the tenant's docstore, and drop out.
DenseHits ==
    LET own == Filter(Visible, NearestSections)
    IN  [i \in DOMAIN own |-> MakePassage(own[i], own[i])]

SearchKeyword ==
    /\ stage = "keyword"
    /\ keywordHits' = KeywordHits
    /\ stage' = "dense"
    /\ UNCHANGED <<setting, query, denseHits, found, candidates, reranked, cited, judged>>

SearchDense ==
    /\ stage = "dense"
    /\ denseHits' = DenseHits
    /\ stage' = "fuse"
    /\ UNCHANGED <<setting, query, keywordHits, found, candidates, reranked, cited, judged>>

\* The database or Qdrant raises: the request fails, whatever the other list has.
SearchFails ==
    /\ stage \in {"keyword", "dense"}
    /\ stage' = "failed"
    /\ UNCHANGED <<setting, query, keywordHits, denseHits, found, candidates, reranked,
                   cited, judged>>

------------------------------------------------------------------------------
(* Fusion, parent resolution, deduplication and the cut.                   *)

\* Weighted reciprocal ranks, w / (60 + rank), over a common denominator, added up
\* for every hit with this text.
Share(hits, weight, text) ==
    LET sum[i \in 0..Len(hits)] ==
            IF i = 0 THEN 0
            ELSE sum[i - 1] + IF hits[i].text = text THEN (weight * Denominator) \div (60 + i)
                              ELSE 0
    IN  sum[Len(hits)]

\* EnsembleRetriever.rank_fusion: each text once, the keyword hit before the dense
\* one.  Without a keyword index there is no ensemble.
Fused ==
    LET Rank(p) == Share(keywordHits, Weights[1], p.text) + Share(denseHits, Weights[2], p.text)
    IN  IF setting.keyword
        THEN SortedBy(Rank, UniqueBy(LAMBDA p : p.text, keywordHits \o denseHits))
        ELSE denseHits

\* A passage with a doc_id takes the text of that parent, and keeps the rest.
ResolveParents(s) ==
    [i \in DOMAIN s |-> IF s[i].doc_id # None /\ Visible(s[i].doc_id)
                        THEN [s[i] EXCEPT !.text = TextOf[s[i].doc_id]] ELSE s[i]]

\* Mutant: one passage of a file is kept.
DeduplicateFiles(s) == UniqueBy(LAMBDA p : p.place[1], s)

Deduplicate(s) == UniqueBy(LAMBDA p : <<p.place, p.text>>, s)

Named(p) == query.words.named[p.place[1]]

\* The passages of the files the question names come first.
PrioritizeSourceFilenameMatches(s) == SortedBy(Named, s)

\* Mutant: the cut before the order.
CutFirst(s) == PrioritizeSourceFilenameMatches(Take(s, setting.limit))

Candidates(s) == Take(PrioritizeSourceFilenameMatches(s), setting.limit)

Fuse ==
    /\ stage = "fuse"
    /\ found' = Deduplicate(ResolveParents(Fused))
    /\ candidates' = Candidates(Deduplicate(ResolveParents(Fused)))
    /\ stage' = "rerank"
    /\ UNCHANGED <<setting, query, keywordHits, denseHits, reranked, cited, judged>>

------------------------------------------------------------------------------
(* The reranker and the relevance floor.                                   *)

EffectiveTopK == IF query.broad THEN Max({TopK, WideTopK}) ELSE TopK

\* Mutant: the first n are ranked, not the best n taken.
RankedAfterCut(scores) ==
    SortedBy(LAMBDA p : p.score, [i \in DOMAIN Take(candidates, EffectiveTopK) |->
                                     [candidates[i] EXCEPT !.score = scores[i]]])

\* What the service returns: the n best, the best first.
Ranked(scores) ==
    Take(SortedBy(LAMBDA p : p.score, [i \in DOMAIN candidates |->
                                          [candidates[i] EXCEPT !.score = scores[i]]]),
         EffectiveTopK)

\* Nothing is sent for an empty list.
Rerank ==
    /\ stage = "rerank"
    /\ \E scores \in [DOMAIN candidates -> 0..MaxScore] :
        /\ judged' = scores
        /\ reranked' = Ranked(scores)
    /\ stage' = "relevant"
    /\ UNCHANGED <<setting, query, keywordHits, denseHits, found, candidates, cited>>

\* The reranker is disabled or does not answer: the first n, without scores.
RerankFails ==
    /\ stage = "rerank"
    /\ reranked' = Take(candidates, EffectiveTopK)
    /\ stage' = "relevant"
    /\ UNCHANGED <<setting, query, keywordHits, denseHits, found, candidates, cited, judged>>

DocumentMatchesEntity(p) ==
    \/ Named(p) > 0
    \/ p.place[1] \in query.words.entity
    \/ p.text \in query.words.mentioned

\* Mutant: the floor is not relaxed.
AtFloor(s) == Filter(LAMBDA p : p.score # None => p.score >= Floor, s)

\* Mutant: the best passages are kept whenever none reaches the floor.
BestAnyway(s) == IF AtFloor(s) # <<>> THEN AtFloor(s) ELSE Take(s, Relaxed)

\* What reaches the floor; if nothing does, the best passages that match the
\* question by name; everything, if nothing has a score.
Relevant(s) ==
    LET scored == Filter(LAMBDA p : p.score # None, s)
        relevant == Filter(LAMBDA p : p.score >= Floor, scored)
        matched == Filter(DocumentMatchesEntity, scored)
    IN  IF scored = <<>> THEN s
        ELSE IF relevant # <<>> THEN relevant
        ELSE Take(SortedBy(LAMBDA p : p.score, matched), Relaxed)

KeepRelevant ==
    /\ stage = "relevant"
    /\ cited' = Relevant(reranked)
    /\ stage' = "done"
    /\ UNCHANGED <<setting, query, keywordHits, denseHits, found, candidates, reranked,
                   judged>>

Next ==
    \/ SearchKeyword \/ SearchDense \/ SearchFails \/ Fuse
    \/ Rerank \/ RerankFails \/ KeepRelevant

Spec == Init /\ [][Next]_vars

------------------------------------------------------------------------------
(* Properties.                                                             *)

\* On Postgres an answer is written from the tenant's own sections: the one
\* collection is searched for everybody, and only the docstore tells tenants
\* apart.
OwnPassagesOnly == setting.postgres => \A p \in ToSet(found) : OwnerOf[p.section] = Asker

Position(c) == CHOOSE i \in DOMAIN query.near : query.near[i] = c

\* The text of the tenant's nearest section goes to the reranker, through fusion,
\* deduplication and cut, unless so many points of other tenants are nearer that
\* the search of the collection ended before it (or the cut takes fewer passages
\* than the two retrievers return).
NearestFoundUnlessCrowded ==
    \A c \in Chunks :
        LET nearer == {d \in Chunks : Position(d) < Position(c)}
        IN  /\ stage \in {"rerank", "relevant", "done"}
            /\ setting.limit >= FetchK + BM25K
            /\ Visible(SectionOf[c])
            /\ \A d \in nearer : ~ Visible(SectionOf[d])
            => \/ Cardinality(nearer) >= FetchK
               \/ \E p \in ToSet(candidates) : p.text = TextOf[SectionOf[c]]

\* No passage is dropped by the cut while one stays whose file the question names
\* less; nor by the reranker's absence.
NamedSurviveCuts ==
    \A p \in ToSet(found), kept \in {candidates, reranked} :
        stage \in {"relevant", "done"} /\ (kept = reranked => judged = <<>>) =>
            \/ p \in ToSet(kept)
            \/ \A q \in ToSet(kept) : Named(q) >= Named(p)

\* Every candidate the reranker puts at the floor or above is cited, unless as
\* many as the request asked for are cited that are no worse.
BestAreCited ==
    stage = "done" =>
        \A i \in DOMAIN judged : judged[i] >= Floor =>
            \/ \E p \in ToSet(cited) : p.text = candidates[i].text /\ p.place = candidates[i].place
            \/ Len(cited) = EffectiveTopK /\ \A p \in ToSet(cited) : p.score >= judged[i]

\* The floor yields to names alone: a passage judged below it is cited only if
\* none reached it and the question names the passage, and a question is declined
\* only if it names none of the best; without judgements, only if nothing was
\* found.  This is the floor of _relevant, not the one the docs describe
\* (FloorDeclines).
FloorYieldsToNames ==
    stage = "done" =>
        /\ \A p \in ToSet(cited) : p.score # None /\ p.score < Floor =>
            DocumentMatchesEntity(p) /\ \A i \in DOMAIN judged : judged[i] < Floor
        /\ cited = <<>> => \A p \in ToSet(reranked) :
            p.score # None /\ p.score < Floor /\ ~ DocumentMatchesEntity(p)

\* RAG_PIPELINE.md: "If nothing clears the floor, the pipeline returns a fixed
\* decline message with sources: []"; settings.py: "the service declines to
\* answer rather than citing unrelated documents".
FloorDeclines ==
    stage = "done" /\ judged # <<>> /\ (\A i \in DOMAIN judged : judged[i] < Floor) =>
        cited = <<>>

\* RAG_PIPELINE.md: "multiple children of one parent collapse into that parent".
SectionsCollapse ==
    \A i, j \in DOMAIN candidates : candidates[i].section = candidates[j].section => i = j

================================================================================
