------------------------------ MODULE MCRetrieval ------------------------------
(***************************************************************************)
(* A small instance of Retrieval: four sections of the asking tenant, two  *)
(* of them one file indexed twice, and one of another tenant.              *)
(***************************************************************************)
EXTENDS Retrieval, TLC

\* Sections 1 and 2 are of a.pdf, the first with two chunks; 3 is one page of
\* b.pdf and of another copy of it, 4; 5 belongs to the other tenant, with the
\* text of 2.  Chunks 2, 3, 4, 5 are short sections, whole.
MCSectionOf == <<1, 2, 3, 4, 5, 1>>
MCOwnerOf == <<"us", "us", "us", "us", "them">>
MCPlaceOf == << <<"a.pdf", 1>>, <<"a.pdf", 2>>, <<"b.pdf", 1>>, <<"b.pdf", 1>>, <<"a.pdf", 1>> >>

\* The text of each section and chunk: a section and its chunks are both numbers,
\* chunks counted from 11.
MCSectionOfChunk == [c \in 11..16 |-> MCSectionOf[c - 10]]
MCTextOf == [x \in 1..5 \cup 11..16 |->
                CASE x = 1 -> "t1" [] x = 11 -> "t1 first" [] x = 16 -> "t1 second"
                  [] x \in {2, 12, 5, 15} -> "t2" [] OTHER -> "t3"]

Nears == {n \in SetToSeqs(11..16) : n[6] = 16}
Lexicals == {<< <<11, 15, 16, 12, 13, 14>>, {} >>, << <<11, 15, 16, 12, 13, 14>>, {11, 12, 15, 16} >>,
             << <<14, 16, 13, 11, 15, 12>>, {14, 16} >>}
Names == {<<0, {}, {}>>, <<1, {"b.pdf"}, {}>>, <<1, {}, {"t2"}>>}

MCWords ==
    {[lexical |-> l[1], matched |-> l[2],
      named |-> [f \in {"a.pdf", "b.pdf"} |-> IF f = "b.pdf" THEN w[1] ELSE 0],
      entity |-> w[2], mentioned |-> w[3]] : l \in Lexicals, w \in Names}

MCQueries == [near : Nears, words : MCWords, broad : BOOLEAN]

MCSettings == [postgres : {TRUE}, keyword : {TRUE}, limit : {2, 4}]
                \cup [postgres : {FALSE}, keyword : BOOLEAN, limit : {4}]
MCWeights == <<2, 3>>
MCDenominator == 61 * 62 * 63 * 64

\* The list operators agree with those of the community modules.
ASSUME ListOperatorsAgree ==
  \A s \in UNION {[1..n -> 0..2] : n \in 0..4} :
    /\ Filter(LAMBDA x : x > 0, s) = SelectSeq(s, LAMBDA x : x > 0)
    /\ UniqueBy(LAMBDA x : x \div 2, s) =
        FoldLeft(LAMBDA kept, x : IF \E y \in ToSet(kept) : y \div 2 = x \div 2 THEN kept
                                  ELSE Append(kept, x), <<>>, s)
    /\ SortedBy(LAMBDA x : x \div 2, s) =
        SelectSeq(s, LAMBDA x : x = 2) \o SelectSeq(s, LAMBDA x : x < 2)
    /\ SortedBy(LAMBDA x : x, s) = SortSeq(s, >)
================================================================================
