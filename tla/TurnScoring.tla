---------------------------- MODULE TurnScoring ----------------------------
(***************************************************************************)
(* The score of one reply (eval/scoring/turn.py).  A reply is the signals  *)
(* of its prose, the tool calls written in its text, in their order, and   *)
(* the calls the API returned beside it.  What the heuristics of           *)
(* recast.py, register.py and language.py answer about a prose is part of  *)
(* the reply: recast (or nothing to recast), repeated (an error form of    *)
(* the learner), and good, how many of the five other signals are well.    *)
(* A call has a form, a name and the state of its arguments.  Scores are   *)
(* exact: pedagogical in sixths, tool fidelity in halves, composite in     *)
(* sixtieths; the four decimals they are rounded to are left out.          *)
(***************************************************************************)
EXTENDS Naturals, Sequences, SequencesExt

(* What the payload of a call parses to: nothing (a strict JSON object nor *)
(* a Python literal), {}, arguments that are not the learner's turn or     *)
(* name no error, and the right ones.                                      *)
Arguments == {"unparsable", "empty", "wrong", "right"}

Call == [form: {"header", "function"}, name: {"log_turn", "other"}, args: Arguments]

Reply == [recast: BOOLEAN, repeated: BOOLEAN, good: 0 .. 5,
          text: Seq(Call), native: Seq(Call)]

(* A payload that does not parse stands for {}. *)
Payload(call) == [name |-> call.name,
                  args |-> IF call.args = "unparsable" THEN "empty" ELSE call.args]

(* The text is searched for the headers first, then for the function-style *)
(* calls: one is kept when it has arguments and no call of its name with   *)
(* arguments was found before it.                                          *)
KeepHeader(found, call) ==
    IF call.form = "header" THEN Append(found, Payload(call)) ELSE found

KeepFunction(found, call) ==
    IF \/ call.form # "function"
       \/ Payload(call).args = "empty"
       \/ \E i \in DOMAIN found : found[i].name = call.name /\ found[i].args # "empty"
    THEN found
    ELSE Append(found, Payload(call))

(* The calls of the API win over those of the text. *)
parse_tool_calls(text, native) ==
    IF native # <<>>
    THEN [i \in DOMAIN native |-> Payload(native[i])]
    ELSE FoldLeft(KeepFunction, FoldLeft(KeepHeader, <<>>, text), text)

(* What strip_tool_calls leaves in the prose the heuristics read: the      *)
(* calls whose payload does not parse.                                     *)
Residue(text) == SelectSeq(text, LAMBDA c : c.args = "unparsable")

LogTurns(calls) == {i \in DOMAIN calls : calls[i].name = "log_turn"}

(* Mutant: the last log_turn is judged and not the first.                  *)
ToolSignals_Last(calls) ==
    [called |-> LogTurns(calls) # {},
     right  |-> \E i \in LogTurns(calls) : /\ calls[i].args = "right"
                                           /\ \A j \in LogTurns(calls) : j <= i]

(* The two tool signals: a log_turn was called; the first one is right.    *)
ToolSignals(calls) ==
    [called |-> LogTurns(calls) # {},
     right  |-> \E i \in LogTurns(calls) : /\ calls[i].args = "right"
                                           /\ \A j \in LogTurns(calls) : i <= j]

One(b) == IF b THEN 1 ELSE 0

Pedagogical(recast, reply) ==
    IF reply.repeated THEN 0 ELSE reply.good + One(recast)

Fidelity(signals) == One(signals.called) + One(signals.right)

(* 0.7 * ped / 6 + 0.3 * tool / 2, in sixtieths. *)
Composite(ped, tool) == 7 * ped + 9 * tool

(* The fields of a TurnResult the later steps read. *)
score_turn(reply, native) ==
    LET signals == ToolSignals(parse_tool_calls(reply.text, native))
        ped     == Pedagogical(reply.recast, reply)
    IN  [recast       |-> reply.recast,
         called       |-> signals.called,
         right        |-> signals.right,
         pedagogical  |-> ped,
         fidelity     |-> Fidelity(signals),
         composite    |-> Composite(ped, Fidelity(signals))]
=============================================================================
