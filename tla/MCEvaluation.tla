---------------------------- MODULE MCEvaluation ----------------------------
(* Evaluation for TLC: a targeted fixture with several replies, another    *)
(* with one, one without a target; a persona of two turns that opens, one  *)
(* of one turn that is asked to.                                           *)
EXTENDS Evaluation
CONSTANTS f1, f2, f3, p, q, u, w, x, y, gender, tense
H(name, args) == [form |-> "header", name |-> name, args |-> args]
F(name, args) == [form |-> "function", name |-> name, args |-> args]
R(recast, repeated, text, native) ==
    [recast |-> recast, repeated |-> repeated, good |-> 4, text |-> text, native |-> native]
MCReplies ==
    f1 :> {R(FALSE, FALSE, <<>>, <<F("log_turn", "right")>>),
           R(FALSE, FALSE, <<F("log_turn", "wrong"), F("log_turn", "right")>>, <<>>),
           R(TRUE, TRUE, <<H("log_turn", "unparsable")>>, <<>>),
           R(TRUE, FALSE, <<H("other", "right"), H("log_turn", "right")>>, <<>>)} @@
    f2 :> {R(FALSE, FALSE, <<F("log_turn", "right"), H("log_turn", "empty")>>, <<>>)} @@
    f3 :> {R(TRUE, FALSE, <<>>, <<>>)}
A(text, signal, l1, items) ==
    [text |-> text, call |-> [blank |-> FALSE, fluency |-> signal, l1 |-> l1, errors |-> items]]
I(shape, type) == [shape |-> shape, type |-> type, produced |-> Form]
MCAnswers == p :> {A(x, "weak", "yes", <<I("schema", gender)>>), [text |-> y, call |-> NoCall]} @@
             q :> {A(y, "strong", "'false'", <<I("older", tense), I("string", gender)>>),
                   A(y, "weak", "no", NotIterable)}
MCUtterances == p :> {u, w} @@ q :> {u}
MCVerdicts == p :> {1, 2} @@ q :> {1}
MCBudget == p :> 2 @@ q :> 1
=============================================================================
