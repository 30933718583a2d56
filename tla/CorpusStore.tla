----------------------------- MODULE CorpusStore -----------------------------
(***************************************************************************)
(* The three stores a document is spread over, and what the ingestion code *)
(* asks of them:                                                           *)
(*                                                                         *)
(*   vectors   the points of the one shared Qdrant collection;             *)
(*   parents   the rows of parent_documents (PostgresDocStore);            *)
(*   keyword   the keyword index: rows of child_chunks_fts when            *)
(*             DATABASE_URL is set, the BM25 pickle otherwise.             *)
(*                                                                         *)
(* The stores are values here, and the modules of the programs that write  *)
(* them hold the variables.  A Doc is what ONE run over one PDF writes:    *)
(* add_documents draws fresh parent ids on every call, so two runs over    *)
(* the same file never share an id, and `serial' tells them apart.  The    *)
(* chunks of a Doc reach Qdrant in Batches[file] upserts.  `postgres' says   *)
(* whether DATABASE_URL is set.                                            *)
(***************************************************************************)
EXTENDS Naturals

CONSTANTS
    Tenants,    \* tenant ids
    Sources,    \* file names (the payload field metadata.source)
    Files,      \* the PDF files handed in: staged uploads, versions of a corpus file
    Batches     \* Batches[f]: upsert calls the child chunks of file f take

ASSUME StoreAssumption == Batches \in [Files -> Nat]

Doc == [tenant : Tenants, source : Sources, file : Files, serial : Nat]

\* The points a run may leave in Qdrant: one per batch of its chunks.
Point == {p \in [doc : Doc, batch : Nat] : p.batch \in 1..Batches[p.doc.file]}

\* The child splitter drops pieces under 50 characters: a file with text may
\* still yield no child chunk at all.
HasChunks(d) == Batches[d.file] > 0

------------------------------------------------------------------------------
(* Qdrant: one collection for every tenant, and a payload filter on the    *)
(* source alone.                                                           *)

DeleteSource(vectors, s) == {p \in vectors : p.doc.source # s}

Upsert(vectors, d, b) == vectors \cup {[doc |-> d, batch |-> b]}

(* The parent store: entries are only ever added by ingestion.             *)

MSet(parents, d) == parents \cup {d}

\* The Postgres stores are read under the tenant they were opened for; the
\* pickle files of local development know no tenant.
Visible(postgres, t, d) == postgres => d.tenant = t

\* What mget gives the retriever of tenant t for a dense hit on a child of d.
Resolves(postgres, parents, t, d) == d \in parents /\ Visible(postgres, t, d)

(* child_chunks_fts.                                                       *)

DeleteChunksOfEveryone(rows, s, t) == {d \in rows : d.source # s}  \* mutant

DeleteChunksBySource(rows, s, t) ==
    {d \in rows : d.source # s \/ d.tenant # t}

InsertChunks(rows, d) == IF HasChunks(d) THEN rows \cup {d} ELSE rows

(* The pickle: what was loaded, less the chunks of the source, plus the    *)
(* new ones.  build_index refuses an empty corpus, so the file then stays  *)
(* as it was.                                                              *)

AppendToPickle(current, loaded, d) == InsertChunks(loaded, d)  \* mutant

RebuildPickle(current, loaded, d) ==
    LET corpus == InsertChunks({x \in loaded : x.source # d.source}, d)
    IN  IF corpus = {} THEN current ELSE corpus

------------------------------------------------------------------------------
(* What a query of tenant t can reach.                                     *)

DenseHits(postgres, vectors, parents, t) ==
    {p.doc : p \in {q \in vectors : Resolves(postgres, parents, t, q.doc)}}

KeywordHits(postgres, keyword, t) == {k \in keyword : Visible(postgres, t, k)}

Reachable(postgres, vectors, parents, keyword, t) ==
    DenseHits(postgres, vectors, parents, t) \cup KeywordHits(postgres, keyword, t)

==============================================================================
