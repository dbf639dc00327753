------------------------------- MODULE Corpus -------------------------------
(***************************************************************************)
(* The files of the recording analysis: the commands `analiza sesion`      *)
(* (cli.py, note.py), which adds a session to the corpus, `analiza         *)
(* backfill-patrones` (backfill.py), which gives pattern ids to sessions   *)
(* examined before there were any, and what `analiza progreso`             *)
(* (historial.py) reads back at any time.                                  *)
(*                                                                         *)
(* A command may fail or be killed at every write.  The audio, the         *)
(* transcription, the metrics and the examiner are external: a run is      *)
(* given the examiner's report, or none.                                   *)
(***************************************************************************)
EXTENDS Progreso

CONSTANTS
    LEGACY,    \* bound: sessions from before directories had ordinals
    ADDED,       \* bound: sessions after them
    Report,    \* what the examiner may find: patterns, and whether it was cut off
    DIAS,      \* bound: days
    EJERCICIOS, \* bound: exercises, in the order of their names
    None, Broken, \* no file, and one that does not parse
    PROVENANCE, \* the prompt_version and whisper_model of each run
    OVERLAP,   \* whether two commands may run at the same time
    TORN       \* whether a write of a row may break off in the middle of it

ASSUME CorpusAssumption ==
    /\ LEGACY \in Nat /\ ADDED \in Nat /\ DIAS \in Nat \ {0} /\ EJERCICIOS \in Nat \ {0}
    /\ OVERLAP \in BOOLEAN /\ TORN \in BOOLEAN /\ LEGACY + ADDED <= Len(PROVENANCE)
    /\ Report \subseteq [patrones : SUBSET Pattern, truncado : BOOLEAN]

Run == 1 .. LEGACY + ADDED   \* in the order they begin
Clave == (1 .. DIAS) \X (1 .. EJERCICIOS)
Slot == Clave \X Run       \* a date, an exercise, and an ordinal
VOCAB_VERSION == 2         \* the last of VOCAB_VERSIONS

VARIABLES
    old,         \* how many sessions the corpus begins with
    header,      \* of the CSV: absent, missing, old (a prefix) or current
    rows,        \* its rows that can be read
    torn,        \* whether it ends with part of a row, without a newline
    tmp,         \* what the widening reads, None when there is none
    notes, raws, \* the slots with a note, and with a directory
    examiner,    \* the examiner.json of each slot: None, broken or a payload
    sidecar,     \* the slots with a backfill.json
    stage, slot, report, \* of each run
    job          \* the backfill: the file it is at, and what it assigned

csv == <<header, rows, torn, tmp>>
dirs == <<notes, raws>>
artifacts == <<examiner, sidecar>>
run == <<stage, slot, report>>
vars == <<old, csv, dirs, artifacts, run, job>>

NoJob == [stage |-> "idle", slot |-> None, payload |-> None]

(* The CSV row of a run; the version is empty without a column or a report.*)
Row(r, key, version, found) ==
    [run |-> r, fecha |-> key[1], ejercicio |-> key[2],
     vocab_version |-> IF found = NotExamined THEN 0 ELSE version,
     provenance |-> PROVENANCE[r], puntuado |-> found # NotExamined]

FirstKey == <<1, EJERCICIOS>>

(* Older runs: one exercise on one day, so that their notes got ordinals   *)
(* and the only directory was left with the last one's report (bound: they  *)
(* all found the same).                                                    *)
Init ==
    /\ old \in 0 .. LEGACY
    /\ stage = [r \in Run |-> IF r <= old THEN "done" ELSE "none"]
    /\ slot = [r \in Run |-> IF r <= old THEN <<FirstKey, r>> ELSE None]
    /\ \E found \in Report \cup {NotExamined} :
          report = [r \in Run |-> IF r <= old THEN found ELSE NotExamined]
    /\ header = IF old = 0 THEN "absent" ELSE "old"
    /\ rows = [r \in 1 .. old |-> Row(r, FirstKey, 0, report[r])]
    /\ torn = FALSE /\ tmp = None
    /\ notes = {<<FirstKey, r>> : r \in 1 .. old}
    /\ raws = IF old = 0 THEN {} ELSE {<<FirstKey, 1>>}
    /\ \E ids \in {"none", "native"} :
          examiner = [s \in Slot |->
              IF s \notin raws \/ report[old] = NotExamined THEN None
              ELSE [run |-> old, patrones |-> report[old].patrones,
                    truncado |-> report[old].truncado, ids |-> ids]]
    /\ sidecar = {}
    /\ job = NoJob

-----------------------------------------------------------------------------
(* analiza sesion.                                                         *)

Goto(r, s) == stage' = [stage EXCEPT ![r] = s]

Alone == job = NoJob /\ \A q \in Run : stage[q] \in {"none", "done", "failed"}

(* A recording is analysed, today.                                         *)
Begin(r) ==
    /\ r \in old + 1 .. old + ADDED
    /\ stage[r] = "none" /\ \A q \in 1 .. r - 1 : stage[q] # "none"
    /\ OVERLAP \/ Alone
    /\ \E key \in Clave :
          /\ \A q \in 1 .. r - 1 : slot[q][1][1] <= key[1]
          /\ slot' = [slot EXCEPT ![r] = <<key, 0>>]
    /\ Goto(r, "analysed")
    /\ UNCHANGED <<old, csv, dirs, artifacts, report, job>>

(* The first ordinal with neither a note nor a directory.                  *)
reserve_session(key) ==
    CHOOSE n \in Run : /\ <<key, n>> \notin notes \cup raws
                       /\ \A m \in 1 .. n - 1 : <<key, m>> \in notes \cup raws

Reserve(r) ==
    /\ stage[r] = "analysed"
    /\ slot' = [slot EXCEPT ![r] = <<@[1], reserve_session(@[1])>>]
    /\ Goto(r, "reserved")
    /\ UNCHANGED <<old, csv, dirs, artifacts, report, job>>

write_note(r) ==
    /\ stage[r] = "reserved"
    /\ notes' = notes \cup {slot[r]}
    /\ Goto(r, "noted")
    /\ UNCHANGED <<old, csv, raws, artifacts, slot, report, job>>

(* Mutant: the file is rewritten in place.                                 *)
Widen_InPlace(r) ==
    /\ stage[r] = "noted" /\ header = "old"
    /\ tmp' = rows /\ rows' = <<>>
    /\ Goto(r, "widening")
    /\ UNCHANGED <<old, header, torn, dirs, artifacts, slot, report, job>>

(* append_stats_row: an older CSV is first rewritten with all columns.     *)
(* What is read is written in the same step: only a run that overlaps this *)
(* one could tell.                                                         *)
Widen(r) ==
    /\ stage[r] = "noted" /\ header = "old"
    /\ tmp' = rows
    /\ Goto(r, "widening")
    /\ UNCHANGED <<old, header, rows, torn, dirs, artifacts, slot, report, job>>

Replace(r) ==
    /\ stage[r] = "widening" /\ tmp # None
    /\ rows' = tmp /\ header' = "current" /\ torn' = FALSE /\ tmp' = None
    /\ Goto(r, "widened")
    /\ UNCHANGED <<old, dirs, artifacts, slot, report, job>>

(* The header goes in with the first row if the file did not exist.  One   *)
(* with a row in the header's place is refused.  What the examiner found,  *)
(* if it ran and did not fail, is chosen here, where it is first recorded. *)
(* A row after part of another continues its line, and is not one.         *)
append_stats_row(r) ==
    /\ \/ stage[r] = "noted" /\ header # "old"
       \/ stage[r] = "widened"
    /\ header # "missing" \/ rows = <<>>
    /\ header' = IF header = "absent" THEN "current" ELSE header
    /\ \E found \in Report \cup {NotExamined} :
          /\ report' = [report EXCEPT ![r] = found]
          /\ rows' = IF torn THEN rows
                     ELSE Append(rows, Row(r, slot[r][1], VOCAB_VERSION, found))
    /\ torn' = FALSE
    /\ Goto(r, "recorded")
    /\ UNCHANGED <<old, tmp, dirs, artifacts, slot, job>>

make_raw_dir(r) ==
    /\ stage[r] = "recorded"
    /\ raws' = raws \cup {slot[r]}
    /\ Goto(r, "stored")
    /\ UNCHANGED <<old, csv, notes, artifacts, slot, report, job>>

(* Mutant: every session of an exercise and a day has one directory.       *)
Store_OneDirectory(r) ==
    /\ stage[r] = "stored"
    /\ examiner' = IF report[r] = NotExamined THEN examiner
                   ELSE [examiner EXCEPT ![<<slot[r][1], 1>>] =
                           [run |-> r, patrones |-> report[r].patrones,
                            truncado |-> report[r].truncado, ids |-> "native"]]
    /\ Goto(r, "done")
    /\ UNCHANGED <<old, csv, dirs, sidecar, slot, report, job>>

(* whisper.json and metrics.json, then examiner.json if there is one.      *)
Store(r) ==
    /\ stage[r] = "stored"
    /\ examiner' = IF report[r] = NotExamined THEN examiner
                   ELSE [examiner EXCEPT ![slot[r]] =
                           [run |-> r, patrones |-> report[r].patrones,
                            truncado |-> report[r].truncado, ids |-> "native"]]
    /\ Goto(r, "done")
    /\ UNCHANGED <<old, csv, dirs, sidecar, slot, report, job>>

(* A write fails or the run is killed: what it was to write may be there,  *)
(* in part.  (Bound: a row breaks off within its date, so that its line,   *)
(* and what continues it, cannot be read.)                                 *)
Fail(r) ==
    /\ stage[r] \in {"reserved", "noted", "widening", "widened", "recorded",
                     "stored"}
    /\ Goto(r, "failed")
    /\ \/ UNCHANGED <<csv, dirs, artifacts>>
       \/ /\ stage[r] = "reserved" /\ notes' = notes \cup {slot[r]}
          /\ UNCHANGED <<csv, raws, artifacts>>
       \/ /\ stage[r] = "noted" /\ header = "absent" /\ header' = "missing"
          /\ UNCHANGED <<rows, torn, tmp, dirs, artifacts>>
       \/ /\ TORN /\ stage[r] \in {"noted", "widened"}
          /\ header \in {"absent", "current"} /\ header' = "current"
          /\ torn' = TRUE
          /\ UNCHANGED <<rows, tmp, dirs, artifacts>>
       \/ /\ stage[r] = "stored" /\ report[r] # NotExamined
          /\ examiner' = [examiner EXCEPT ![slot[r]] = Broken]
          /\ UNCHANGED <<csv, dirs, sidecar>>
    /\ UNCHANGED <<old, slot, report, job>>

Sesion(r) ==
    \/ Begin(r) \/ Reserve(r) \/ write_note(r) \/ Widen(r) \/ Replace(r)
    \/ append_stats_row(r) \/ make_raw_dir(r) \/ Store(r) \/ Fail(r)

-----------------------------------------------------------------------------
(* analiza backfill-patrones, file by file.                                *)

needs_backfill(payload) == payload.ids = "none" /\ payload.patrones # {}

(* The payload is read, and the model assigns an id to every row of it.    *)
Assign ==
    /\ job = NoJob /\ (OVERLAP \/ Alone)
    /\ \E s \in Slot, ids \in SUBSET Pattern :
          /\ examiner[s] \notin {None, Broken} /\ needs_backfill(examiner[s])
          /\ job' = [stage |-> "assigned", slot |-> s,
                     payload |-> [examiner[s] EXCEPT !.patrones = ids,
                                                     !.ids = "backfilled"]]
    /\ UNCHANGED <<old, csv, dirs, artifacts, run>>

(* Mutant: the ids are written first.                                      *)
WriteSidecar_Last ==
    /\ job.stage = "assigned"
    /\ examiner' = [examiner EXCEPT ![job.slot] = job.payload]
    /\ job' = [job EXCEPT !.stage = "marked"]
    /\ UNCHANGED <<old, csv, dirs, sidecar, run>>

(* The marker is written before what it marks.                             *)
WriteSidecar ==
    /\ job.stage = "assigned"
    /\ sidecar' = sidecar \cup {job.slot}
    /\ job' = [job EXCEPT !.stage = "marked"]
    /\ UNCHANGED <<old, csv, dirs, examiner, run>>

WriteIds ==
    /\ job.stage = "marked"
    /\ examiner' = [examiner EXCEPT ![job.slot] = job.payload]
    /\ job' = NoJob
    /\ UNCHANGED <<old, csv, dirs, sidecar, run>>

(* A write fails, which is reported, or the command is killed.             *)
BackfillFails ==
    /\ job # NoJob
    /\ job' = NoJob
    /\ UNCHANGED <<old, csv, dirs, artifacts, run>>

Backfill == Assign \/ WriteSidecar \/ WriteIds \/ BackfillFails

Next == (\E r \in Run : Sesion(r)) \/ Backfill

Spec == Init /\ [][Next]_vars

-----------------------------------------------------------------------------
(* What analiza progreso reads, at any time.                               *)

(* A CSV without its header has its first row read as one.                 *)
read_stats_rows == IF header = "missing" THEN <<>> ELSE rows

Group(corpus, i) ==
    {j \in DOMAIN corpus : corpus[j].fecha = corpus[i].fecha
                           /\ corpus[j].ejercicio = corpus[i].ejercicio}

(* Mutant: a group need not be complete.                                   *)
ambigua_Never(corpus, i) == FALSE

(* A day with a directory missing joins none of its rows.                  *)
ambigua(corpus, i) ==
    LET total == Cardinality(Group(corpus, i))
    IN  total > 1 /\ \E n \in 1 .. total :
                        <<<<corpus[i].fecha, corpus[i].ejercicio>>, n>> \notin raws

(* The nth row of a date and exercise, joined with the nth directory.      *)
Join(corpus, i) ==
    LET row == corpus[i]
        s == <<<<row.fecha, row.ejercicio>>, Cardinality({j \in Group(corpus, i) : j <= i})>>
        raw == ~ ambigua(corpus, i) /\ s \in raws
        examinado == raw /\ examiner[s] \notin {None, Broken}
        ids == IF examiner[s].ids = "none" THEN {} ELSE examiner[s].patrones
    IN  [run |-> row.run, fecha |-> row.fecha, ejercicio |-> row.ejercicio,
         vocab_version |-> row.vocab_version, provenance |-> row.provenance,
         puntuado |-> row.puntuado,
         patrones |-> IF examinado THEN ids ELSE NotExamined,
         sin_id |-> IF examinado /\ needs_backfill(examiner[s]) THEN 1 ELSE 0,
         truncado |-> examinado /\ examiner[s].truncado,
         backfilled |-> raw /\ s \in sidecar,
         artifactsOf |-> IF examinado THEN examiner[s].run ELSE 0]

load_sesiones == [i \in DOMAIN read_stats_rows |-> Join(read_stats_rows, i)]

(* The report, for the options --desde, --hasta and --ejercicio.           *)
progreso_cmd(desde, hasta, ejercicio) == aggregate(load_sesiones, desde, hasta, ejercicio)

-----------------------------------------------------------------------------
(* No session is read with the patterns of another, whatever runs failed   *)
(* or were killed and however many a day has (historial.py:162-173).       *)
NobodyElsesPatterns ==
    \A i \in DOMAIN load_sesiones :
        load_sesiones[i].artifactsOf \in {0, load_sesiones[i].run}

(* Ids that were assigned after the fact have their marker, at every step  *)
(* of a backfill that may fail or die, so that nothing reads them as the   *)
(* examiner's own (backfill.py:224-234).                                   *)
BackfillIsMarked ==
    \A s \in Slot :
        examiner[s] \notin {None, Broken} /\ examiner[s].ids = "backfilled" => s \in sidecar

(* A pattern is called absent, in any range, on the word of enough         *)
(* sessions whose examiner could have named it, was not cut off, and did   *)
(* not (progreso.py:348-372, 375-433).                                     *)
AbsenceIsProved ==
    \A desde, hasta \in 0 .. DIAS, e \in 0 .. EJERCICIOS :
        LET corpus == load_sesiones
            range == select(corpus, desde, hasta, e)
            estado == pattern_recurrence(corpus, range)
        IN  \A p \in DOMAIN estado : estado[p] = "ausente" =>
              AUSENCIA_N <= Cardinality(
                  {i \in range :
                      LET found == report[corpus[i].run]
                      IN  /\ found # NotExamined /\ ~found.truncado
                          /\ p \notin found.patrones
                          /\ SINCE[p] <= IF corpus[i].run <= old THEN 1
                                         ELSE VOCAB_VERSION})

(* A trend compares different sessions, of one provenance                  *)
(* (progreso.py:262-290, 297-326).                                         *)
TrendsCompareLikeWithLike ==
    \A e \in 0 .. EJERCICIOS :
        LET corpus == load_sesiones
        IN  \A s \in progreso_cmd(NoLimit, NoLimit, e).segmentos, m \in {"wpm_gross", "score_total"} :
                /\ s[m].primeras \cap s[m].ultimas = {}
                /\ \A i, j \in s[m].primeras \cup s[m].ultimas :
                      PROVENANCE[corpus[i].run] = PROVENANCE[corpus[j].run]
                /\ \A i \in s[m].primeras, j \in s[m].ultimas :
                      corpus[i].fecha <= corpus[j].fecha

(* A session that was recorded stays: the CSV only grows, while it is      *)
(* widened, too (note.py:459-491).                                         *)
RowsStay ==
    [][Len(rows') >= Len(rows) /\ SubSeq(rows', 1, Len(rows)) = rows]_vars

(* A report that was stored stays: no later session writes over it, and a  *)
(* backfill only adds ids to it (note.py:399-413, backfill.py:194-199).    *)
ReportsStay ==
    [][\A s \in Slot : examiner[s] \notin {None, Broken} =>
          /\ examiner'[s].run = examiner[s].run
          /\ examiner'[s] # examiner[s] => examiner[s].ids = "none"]_vars
=============================================================================
