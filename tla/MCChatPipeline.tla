---------------------------- MODULE MCChatPipeline ----------------------------
(***************************************************************************)
(* Small instances of ChatPipeline: request 2 is a stream.                 *)
(***************************************************************************)
EXTENDS ChatPipeline, TLC

CONSTANTS a, b, p1, p2, how, what

\* Nothing tells the processes apart.
ProcessSymmetry == Permutations(Processes)

MCTenantOf   == [r \in Requests |-> a]
MCQuestionOf == [r \in Requests |-> <<how, what>>[r]]

\* The two questions mean the same, and their embeddings tell scopes apart.
MCSimilar == {s \in Scope \X Scope : [s[1] EXCEPT !.question = s[2].question] = s[2]}

\* Two tenants ask the same question, and the sixteen hexadecimal digits of the
\* scope in front of it do not move the embedding below the threshold.
TwoTenantOf    == [r \in Requests |-> <<a, b>>[r]]
SameQuestionOf == [r \in Requests |-> how]
TwoSimilar     == {s \in Scope \X Scope : s[1].question = s[2].question}
==============================================================================
