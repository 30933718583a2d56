------------------------------ MODULE MCIngestCli ------------------------------
(***************************************************************************)
(* Small instances of IngestCli: x.pdf has two versions, y.pdf one.        *)
(***************************************************************************)
EXTENDS IngestCli, TLC

CONSTANTS a, b

MCSourceOf == [f \in Files |-> <<"x.pdf", "x.pdf", "y.pdf">>[f]]
MCBatches  == [f \in Files |-> <<1, 2, 1>>[f]]

\* On Postgres with two files parsed ahead, and on the pickle with none.
MCSettings == {[postgres |-> TRUE, lookahead |-> 2], [postgres |-> FALSE, lookahead |-> 1]}
Serial == {[postgres |-> TRUE, lookahead |-> 1]}

\* The corpus, --pdf x.pdf, and an --offset past its end.
MCSelections == {<<"x.pdf", "y.pdf">>, <<"x.pdf">>, <<>>}
Corpus == {<<"x.pdf", "y.pdf">>}
=============================================================================
