---------------------------- MODULE FixtureEval ----------------------------
(***************************************************************************)
(* The evaluation over fixtures and its second pass (eval/run_eval.py,     *)
(* eval/judge_recasts.py).  run_eval sends every fixture to the model, at  *)
(* most CONCURRENCY at a time, scores the replies in the order they        *)
(* arrive, and writes a report.  judge_recasts reads the report, asks a    *)
(* judge about the replies in which the heuristic of today finds no        *)
(* recast, and writes the report again with other scores.                  *)
(***************************************************************************)
EXTENDS TurnScoring, FiniteSets, FiniteSetsExt

CONSTANTS
    FIXTURES,     \* the standard fixtures the categories select
    TARGETED,     \* those with a recast form or a target to look for
    REPLIES,      \* for each fixture, the replies a model may give
    CONCURRENCY,  \* --concurrency, of either command
    LIMIT,        \* --limit of the judge; 0 for none
    NoReport

ASSUME FixtureAssumption ==
    /\ IsFiniteSet(FIXTURES) /\ TARGETED \subseteq FIXTURES
    /\ CONCURRENCY \in Nat \ {0} /\ LIMIT \in Nat
    /\ REPLIES \in [FIXTURES -> SUBSET Reply]
    /\ \A f \in FIXTURES \ TARGETED : \A r \in REPLIES[f] : r.recast

VARIABLES
    phase,     \* "running", "written", "judging", "judged", "interrupted"
    asked,     \* per fixture: "queued", "calling", "done"
    permits,   \* the semaphore
    results,   \* rows, in the order the replies arrived
    errors,    \* fixtures that failed
    report,    \* the file --output of run_eval
    today,     \* rows in which the heuristic of today finds a recast, and
               \* rows whose fixture is still there
    opinions,  \* per row to judge: "queued", "calling", a verdict or "error"
    judged     \* the file --output of judge_recasts

asking  == <<asked, results, errors>>
judging == <<today, opinions>>
fixtureVars == <<phase, permits, asking, report, judging, judged>>

Verdict == {"present", "absent"}

FixtureInit ==
    /\ phase = "running"
    /\ asked = [f \in FIXTURES |-> "queued"]
    /\ permits = CONCURRENCY
    /\ results = <<>>
    /\ errors = {}
    /\ report = NoReport
    /\ today = [recast |-> {}, known |-> {}]
    /\ opinions = <<>>
    /\ judged = NoReport

-----------------------------------------------------------------------------
(* run_eval                                                                *)

Acquire == permits > 0 /\ permits' = permits - 1

Release == permits' = permits + 1

call_model(f) ==
    /\ phase = "running" /\ asked[f] = "queued"
    /\ Acquire
    /\ asked' = [asked EXCEPT ![f] = "calling"]
    /\ UNCHANGED <<phase, results, errors, report, judging, judged>>

(* The answer is scored before anything else runs.                         *)
ReplyArrives(f) ==
    /\ phase = "running" /\ asked[f] = "calling"
    /\ Release
    /\ asked' = [asked EXCEPT ![f] = "done"]
    /\ \E reply \in REPLIES[f] :
          results' = Append(results, [fixture |-> f, reply |-> reply,
                                      score |-> score_turn(reply, reply.native)])
    /\ UNCHANGED <<phase, errors, report, judging, judged>>

(* Mutant: a fixture is tried again after its timeout, its error is kept.  *)
CallFails_Retried(f) ==
    /\ phase = "running" /\ asked[f] = "calling"
    /\ Release
    /\ asked' = [asked EXCEPT ![f] = IF f \in errors THEN "done" ELSE "queued"]
    /\ errors' = errors \cup {f}
    /\ UNCHANGED <<phase, results, report, judging, judged>>

(* The call raises, or --timeout is over.                                  *)
CallFails(f) ==
    /\ phase = "running" /\ asked[f] = "calling"
    /\ Release
    /\ asked' = [asked EXCEPT ![f] = "done"]
    /\ errors' = errors \cup {f}
    /\ UNCHANGED <<phase, results, report, judging, judged>>

(* The overall sums of compute_aggregates; {} of no results.               *)
compute_aggregates(rows) ==
    IF rows = <<>> THEN <<>>
    ELSE [n           |-> Len(rows),
          recasts     |-> Cardinality({i \in DOMAIN rows : rows[i].score.recast}),
          pedagogical |-> FoldLeft(+, 0, [i \in DOMAIN rows |-> rows[i].score.pedagogical]),
          composite   |-> FoldLeft(+, 0, [i \in DOMAIN rows |-> rows[i].score.composite])]

WriteReport ==
    /\ phase = "running" /\ \A f \in FIXTURES : asked[f] = "done"
    /\ phase' = "written"
    /\ report' = [fixture_count |-> Cardinality(FIXTURES), results |-> results,
                  errors |-> errors, aggregates |-> compute_aggregates(results)]
    /\ UNCHANGED <<permits, asking, judging, judged>>

-----------------------------------------------------------------------------
(* judge_recasts                                                           *)

Rows == DOMAIN report.results

(* The heuristic of today has no opinion on a row whose fixture is gone,   *)
(* and finds a recast where there is none to look for.                     *)
ToJudge(now) ==
    {i \in now.known \ now.recast : report.results[i].fixture \in TARGETED}

Limited(rows) ==
    IF LIMIT = 0 THEN rows
    ELSE {i \in rows : Cardinality({j \in rows : j <= i}) <= LIMIT}

(* The heuristic and the fixtures may have changed since the report was    *)
(* written (bound: at most one fixture is gone).                           *)
StartJudging ==
    /\ phase = "written"
    /\ phase' = "judging"
    /\ \E found \in SUBSET Rows, gone \in FIXTURES \cup {NoReport} :
          /\ \A i \in Rows : report.results[i].fixture \notin TARGETED => i \in found
          /\ today' = [recast |-> found,
                       known  |-> {i \in Rows : report.results[i].fixture # gone}]
          /\ opinions' = [i \in Limited(ToJudge(today')) |-> "queued"]
    /\ UNCHANGED <<permits, asking, report, judged>>

judge_one(i) ==
    /\ phase = "judging" /\ opinions[i] = "queued"
    /\ Acquire
    /\ opinions' = [opinions EXCEPT ![i] = "calling"]
    /\ UNCHANGED <<phase, asking, report, today, judged>>

(* A verdict, or an APIError or an answer that does not parse.             *)
Judged(i) ==
    /\ phase = "judging" /\ opinions[i] = "calling"
    /\ Release
    /\ \E opinion \in Verdict \cup {"error"} : opinions' = [opinions EXCEPT ![i] = opinion]
    /\ UNCHANGED <<phase, asking, report, today, judged>>

(* Mutant: the judge has the last word.                                    *)
Recast_JudgeWins(i) ==
    i \in DOMAIN opinions /\ opinions[i] = "present"

(* The heuristic or the judge.                                             *)
Recast(i) == \/ i \in today.recast
             \/ i \in DOMAIN opinions /\ opinions[i] = "present"

(* The row is scored again from its text alone: the calls of the API are   *)
(* not in the report.  The tool signals of the row stay as they were.      *)
Rejudge(i) ==
    LET row  == report.results[i]
        tool == Fidelity(ToolSignals(parse_tool_calls(row.reply.text, <<>>)))
        ped  == Pedagogical(Recast(i), row.reply)
    IN  IF i \notin today.known THEN row
        ELSE [row EXCEPT !.score.recast      = Recast(i),
                         !.score.pedagogical = ped,
                         !.score.fidelity    = tool,
                         !.score.composite   = Composite(ped, tool)]

(* Everything else in the file is what was read, the aggregates too.       *)
WriteJudged ==
    /\ phase = "judging"
    /\ \A i \in DOMAIN opinions : opinions[i] \notin {"queued", "calling"}
    /\ phase' = "judged"
    /\ judged' = [report EXCEPT !.results = [i \in Rows |-> Rejudge(i)]]
    /\ UNCHANGED <<permits, asking, report, judging>>

(* Either command is interrupted, or raises, before it writes.             *)
FixtureInterrupt ==
    /\ phase \in {"running", "judging"}
    /\ phase' = "interrupted"
    /\ UNCHANGED <<permits, asking, report, judging, judged>>

FixtureStep ==
    \/ \E f \in FIXTURES : call_model(f) \/ ReplyArrives(f) \/ CallFails(f)
    \/ WriteReport
    \/ \E i \in DOMAIN opinions : judge_one(i) \/ Judged(i)
    \/ WriteJudged

FixtureNext == FixtureStep \/ StartJudging \/ FixtureInterrupt

-----------------------------------------------------------------------------
(* A written report has every selected fixture in it once, as a result or  *)
(* as an error, whatever the order the calls ended in, and fixture_count   *)
(* counts them all (run_eval.py:212-249).                                  *)
ReportAccountsForAll ==
    report # NoReport =>
        /\ report.fixture_count = Len(report.results) + Cardinality(report.errors)
        /\ \A f \in FIXTURES :
              Cardinality({i \in Rows : report.results[i].fixture = f})
              + One(f \in report.errors) = 1

(* A well-formed call counts the same however the model writes it: as a    *)
(* header, as a function or as a call of the API, of however many calls it *)
(* is one (parse_tool_calls and score_turn, turn.py:134-180,319-342).      *)
FormsAgree ==
    \A i \in DOMAIN results :
        LET calls == results[i].reply.text
            As(form) == [j \in DOMAIN calls |-> [calls[j] EXCEPT !.form = form]]
        IN  (\A j \in DOMAIN calls : calls[j].args \in {"wrong", "right"}) =>
            \A form \in {"header", "function"} :
                ToolSignals(parse_tool_calls(As(form), <<>>))
                    = ToolSignals(parse_tool_calls(<<>>, calls))

(* The judge breaks ties only: as long as the heuristic of today finds     *)
(* every recast it found before, no row of the judged file has a lower     *)
(* pedagogical score than in the report; and a recast the heuristic does   *)
(* not find is there only by a verdict on that very reply (the comment at  *)
(* judge_recasts.py:178-181).                                              *)
JudgeOnlyRaises ==
    judged # NoReport =>
        \A i \in today.known :
            LET before == report.results[i].score
                after  == judged.results[i].score
            IN  /\ (before.recast => i \in today.recast) => after.pedagogical >= before.pedagogical
                /\ after.recast /\ i \notin today.recast =>
                      i \in DOMAIN opinions /\ opinions[i] = "present"
=============================================================================
