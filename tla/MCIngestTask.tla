---------------------------- MODULE MCIngestTask ----------------------------
(***************************************************************************)
(* Small instances of IngestTask.                                          *)
(***************************************************************************)
EXTENDS IngestTask, TLC

CONSTANTS a, b, w1, w2

\* Two workers are interchangeable.
WorkerSymmetry == Permutations(Workers)

\* Job 1 uploads x.pdf for tenant a and job 2 a newer version of it; job 3 is
\* tenant b's file of the same name; job 4 is a file with pages but no chunk,
\* and job 5 one that cannot be read.
MCTenantOf == [j \in Jobs |-> <<a, a, b, a, a>>[j]]
MCSourceOf == [j \in Jobs |-> <<"x.pdf", "x.pdf", "x.pdf", "y.pdf", "z.pdf">>[j]]
MCBatches  == [j \in Jobs |-> <<1, 2, 1, 0, 1>>[j]]

\* The same file twice, on Postgres and on the pickle.
Reingested == [postgres : BOOLEAN, jobs : {{1, 2}}]

\* Two tenants on Postgres; on the pickle, a file beside one without a chunk and
\* beside one that cannot be read.
TwoTenants == {[postgres |-> TRUE, jobs |-> {1, 3}]}
Mixed == TwoTenants \cup [postgres : {FALSE}, jobs : {{1, 4}, {1, 5}}]
=============================================================================
