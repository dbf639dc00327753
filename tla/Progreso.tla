------------------------------ MODULE Progreso ------------------------------
(***************************************************************************)
(* What analiza/progreso.py reports of the stored sessions.  A session is  *)
(* a record                                                                *)
(*     fecha, ejercicio   numbers, in the order of the dates and names     *)
(*     provenance         prompt_version and whisper_model                 *)
(*     vocab_version      0 for a row that precedes the column, or has none*)
(*     patrones           the patterns found, NotExamined for None         *)
(*     sin_id, truncado, backfilled                                        *)
(*     puntuado           whether it has a score                           *)
(* A corpus is the sequence of the CSV's rows, and a range its positions.  *)
(***************************************************************************)
EXTENDS Integers, Sequences, FiniteSets

CONSTANTS
    Pattern,      \* PATRON_IDS
    NotExamined,  \* the None of a session without a report
    SINCE,        \* desde: the vocabulary version a pattern came with
    VENTANA_N, AUSENCIA_N, MIN_SESIONES  \* ProgresoThresholds

ASSUME ProgresoAssumption ==
    /\ SINCE \in [Pattern -> Nat \ {0}]
    /\ VENTANA_N \in Nat \ {0} /\ AUSENCIA_N \in Nat \ {0} /\ MIN_SESIONES \in Nat

(* An option of the command that is not given.                             *)
NoLimit == 0

examinada(s) == s.patrones # NotExamined

(* orden: by date, then by the name of the exercise; sorted() is stable.   *)
Before(corpus, i, j) ==
    LET a == corpus[i]
        b == corpus[j]
    IN  \/ a.fecha < b.fecha
        \/ a.fecha = b.fecha /\ a.ejercicio < b.ejercicio
        \/ a.fecha = b.fecha /\ a.ejercicio = b.ejercicio /\ i < j

select(corpus, desde, hasta, ejercicio) ==
    {i \in DOMAIN corpus :
        /\ desde = NoLimit \/ corpus[i].fecha >= desde
        /\ hasta = NoLimit \/ corpus[i].fecha <= hasta
        /\ ejercicio = NoLimit \/ corpus[i].ejercicio = ejercicio}

(* The first and the last n of a set of positions.                         *)
First(corpus, S, n) == {i \in S : Cardinality({j \in S : Before(corpus, j, i)}) < n}
Last(corpus, S, n)  == {i \in S : Cardinality({j \in S : Before(corpus, i, j)}) < n}

-----------------------------------------------------------------------------
(* Trends.                                                                 *)

segment_sessions(corpus, range) ==
    {{j \in range : corpus[j].provenance = corpus[i].provenance} : i \in range}

Carry(corpus, segment, metrica) ==
    {i \in segment : metrica = "score_total" => corpus[i].puntuado}

insuficiente == [primeras |-> {}, ultimas |-> {}]

(* Mutant: one window is enough.                                           *)
metric_trend_OneWindow(corpus, S) ==
    IF Cardinality(S) < VENTANA_N THEN insuficiente
    ELSE [primeras |-> First(corpus, S, VENTANA_N), ultimas |-> Last(corpus, S, VENTANA_N)]

(* The two windows that are compared; their means are left out.            *)
metric_trend(corpus, S) ==
    IF Cardinality(S) < 2 * VENTANA_N THEN insuficiente
    ELSE [primeras |-> First(corpus, S, VENTANA_N), ultimas |-> Last(corpus, S, VENTANA_N)]

(* The positions whose provenance is not their predecessor's.              *)
segment_boundaries(corpus, range) ==
    {i \in range : \E j \in Last(corpus, {k \in range : Before(corpus, k, i)}, 1) :
                       corpus[j].provenance # corpus[i].provenance}

-----------------------------------------------------------------------------
(* Recurrence.                                                             *)

(* ids_disponibles: an unrecorded version reads as the first.              *)
ids_disponibles(version) == {p \in Pattern : SINCE[p] <= IF version = 0 THEN 1 ELSE version}

(* Mutant: a sidecar does not matter.                                      *)
absence_is_conclusive_TrustsBackfill(s, p) ==
    /\ examinada(s) /\ ~s.truncado /\ s.sin_id = 0
    /\ p \in ids_disponibles(s.vocab_version)

absence_is_conclusive(s, p) ==
    /\ examinada(s) /\ ~s.truncado /\ ~s.backfilled /\ s.sin_id = 0
    /\ p \in ids_disponibles(s.vocab_version)

Hits(corpus, range, p) ==
    {i \in range : examinada(corpus[i]) /\ p \in corpus[i].patrones}

(* The examined sessions after the last one with p.                        *)
posteriores(corpus, range, p) ==
    {i \in range : /\ examinada(corpus[i])
                   /\ \A h \in Hits(corpus, range, p) : Before(corpus, h, i)}

concluyentes(corpus, range, p) ==
    {i \in posteriores(corpus, range, p) : absence_is_conclusive(corpus[i], p)}

Estado(corpus, range, p) ==
    IF Cardinality(concluyentes(corpus, range, p)) >= AUSENCIA_N THEN "ausente"
    ELSE IF Cardinality(posteriores(corpus, range, p)) >= AUSENCIA_N THEN "no-concluyente"
    ELSE "persistente"

(* The patterns that occur in the range, and their states.                 *)
pattern_recurrence(corpus, range) ==
    [p \in {q \in Pattern : Hits(corpus, range, q) # {}} |-> Estado(corpus, range, p)]

aggregate(corpus, desde, hasta, ejercicio) ==
    LET range == select(corpus, desde, hasta, ejercicio)
    IN  [sesiones |-> range,
         narrativa |-> Cardinality(range) >= MIN_SESIONES,
         segmentos |-> {[metrica \in {"wpm_gross", "score_total"} |->
                           metric_trend(corpus, Carry(corpus, s, metrica))] :
                        s \in segment_sessions(corpus, range)},
         fronteras |-> segment_boundaries(corpus, range),
         patrones |-> pattern_recurrence(corpus, range)]
=============================================================================
