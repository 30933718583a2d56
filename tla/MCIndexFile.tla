------------------------------ MODULE MCIndexFile ------------------------------
(***************************************************************************)
(* A small instance of IndexFile: two workers and the command.             *)
(***************************************************************************)
EXTENDS IndexFile, TLC

CONSTANTS w1, w2, cmd

WorkerSymmetry == Permutations({w1, w2})

\* Documents 1, 2 and 4 are versions of x.pdf, and the last yields no chunk.
MCSourceOf == [d \in Docs |-> <<"x.pdf", "x.pdf", "y.pdf", "x.pdf">>[d]]

MCBatches == [s \in Savers |-> IF s = cmd THEN {{2, 3}} ELSE {{1}, {3}, {4}}]
================================================================================
