---------------------------- MODULE LogTurnArgs ----------------------------
(***************************************************************************)
(* What is made of the arguments of a log_turn call: by the runtime, which *)
(* normalises them (hable_ya/pipeline/prompts/render.py) and stores them   *)
(* (hable_ya/learner/errors.py), and by the evaluation, which has a reader *)
(* of its own (eval/agent/run_agent_eval.py).  An error item is an object  *)
(* with the schema's key for its type or an older one, a string, or        *)
(* something else; its type may be missing, and its produced form.         *)
(***************************************************************************)
EXTENDS Sequences, SequencesExt, FiniteSets

CONSTANTS
    Category,  \* types of errors
    NoType, NoForm, Form,
    NotAList,     \* errors is a string or an object
    NotIterable,  \* errors is null or a number, or the arguments are no object
    Refused

Item == [shape: {"schema", "older", "string", "other"},
         type: Category \cup {NoType}, produced: {Form, NoForm}]

Fluency == {"weak", "moderate", "strong"}

ASSUME ArgsAssumption ==
    Refused \notin [errors : Seq([type : Category \cup {NoType}, produced : {Form, NoForm}]),
                   fluency : Fluency, l1 : BOOLEAN]

(* L1_used is a Boolean, a string that says one, or something else.        *)
Truth == {"yes", "no", "'true'", "'false'", "other"}

Raw == [blank: BOOLEAN, errors: Seq(Item) \cup {NotAList, NotIterable},
        fluency: Fluency \cup {"missing", "invalid"}, l1: Truth \cup {"missing"}]

(* An item after those before it: a string is a type, or a type, a colon   *)
(* and a form; an object with neither a type nor a form is nothing.        *)
normalize_error_item(errors, item) ==
    IF \/ item.shape = "string"
       \/ item.shape # "other" /\ (item.type # NoType \/ item.produced # NoForm)
    THEN Append(errors, [type |-> item.type, produced |-> item.produced])
    ELSE errors

normalize_runtime_log_turn_args(raw) ==
    IF \/ raw.blank \/ raw.errors \in {NotAList, NotIterable}
       \/ raw.fluency = "invalid" \/ raw.l1 = "other"
    THEN Refused
    ELSE [errors  |-> FoldLeft(normalize_error_item, <<>>, raw.errors),
          fluency |-> IF raw.fluency = "missing" THEN "moderate" ELSE raw.fluency,
          l1      |-> raw.l1 \in {"yes", "'true'"}]

(* The keys ErrorRepo.record looks for the form under; the normalised item *)
(* has it under another.                                                   *)
produced_form(error) ==
    IF "produced_form" \in DOMAIN error THEN error.produced_form
    ELSE IF "form" \in DOMAIN error THEN error.form
    ELSE NoForm

(* The rows of error_observations, one for each error that has a type.     *)
AddRow(rows, error) ==
    IF error.type = NoType THEN rows
    ELSE Append(rows, [category |-> error.type, produced_form |-> produced_form(error)])

ErrorRows(errors) == FoldLeft(AddRow, <<>>, errors)

(* The turn as LearnerProfileRepo.get reads it back.                       *)
Stored(args, utterance) ==
    [l1 |-> args.l1, fluency |-> args.fluency, lemmas |-> {utterance},
     errors |-> [i \in DOMAIN ErrorRows(args.errors) |-> ErrorRows(args.errors)[i].category]]

(* The evaluation refuses nothing: it takes the items that have the        *)
(* schema's key, whatever is under it, and makes the best of the rest; or  *)
(* it raises, over what is no object or cannot be iterated.                *)
CanBeRead(raw) == raw.errors # NotIterable

AddType(types, item) == IF item.shape = "schema" THEN Append(types, item.type) ELSE types

_build_turn_record(raw, utterance) ==
    [l1      |-> raw.l1 \notin {"no", "missing"},
     fluency |-> IF raw.fluency \in Fluency THEN raw.fluency ELSE "moderate",
     lemmas  |-> {utterance},
     errors  |-> IF raw.errors = NotAList THEN <<>> ELSE FoldLeft(AddType, <<>>, raw.errors)]

(* The calls both read alike: what the schema of the tool asks for, with   *)
(* every category once.                                                    *)
AsAsked(raw) ==
    /\ ~ raw.blank /\ raw.errors \notin {NotAList, NotIterable}
    /\ raw.fluency \in Fluency \cup {"missing"} /\ raw.l1 \in {"yes", "no", "missing"}
    /\ \A i \in DOMAIN raw.errors : raw.errors[i].shape = "schema" /\ raw.errors[i].type # NoType
    /\ \A i, j \in DOMAIN raw.errors : raw.errors[i].type = raw.errors[j].type => i = j
=============================================================================
