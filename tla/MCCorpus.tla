------------------------------ MODULE MCCorpus ------------------------------
(* Corpus for TLC: one pattern of each vocabulary version.                 *)
EXTENDS Corpus, TLC
CONSTANTS p, q
MCProvenance == <<"v2", "v3", "v2", "v3">>
MCReport == {[patrones |-> found, truncado |-> FALSE] : found \in {{}, {p}, {q}}}
            \cup {[patrones |-> {q}, truncado |-> TRUE]}
MCSince == p :> 1 @@ q :> 2
=============================================================================
