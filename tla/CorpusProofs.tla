---------------------------- MODULE CorpusProofs ----------------------------
(***************************************************************************)
(* What the files of the recording analysis promise, for any corpus, any   *)
(* reports and any number of sessions and backfills, wherever they fail or *)
(* are killed.                                                             *)
(*                                                                         *)
(* Whether or not commands overlap: ids assigned later have their marker,  *)
(* and a trend compares like with like.  Where they do not, which is how   *)
(* the one operator runs them: a recorded session stays in the CSV, and,   *)
(* if no write breaks off within a row, a stored report stays, a session   *)
(* is read with its own patterns, and an absence was seen.  BaseInv holds  *)
(* in every case, SerialInv in the last.                                   *)
(***************************************************************************)
EXTENDS Corpus, FiniteSetTheorems, FunctionTheorems, SequenceTheorems, WellFoundedInduction, TLAPS

(* The marker of the file a backfill is at is there before its ids are.    *)
IInv ==
    /\ DOMAIN examiner = Slot
    /\ BackfillIsMarked
    /\ job.stage = "marked" => job.slot \in sidecar

LEMMA InitEstablishes == Init => IInv
<1> SUFFICES ASSUME Init PROVE IInv
  OBVIOUS
<1>1. PICK ids \in {"none", "native"} :
        examiner = [s \in Slot |->
            IF s \notin raws \/ report[old] = NotExamined THEN None
            ELSE [run |-> old, patrones |-> report[old].patrones,
                  truncado |-> report[old].truncado, ids |-> ids]]
  BY DEF Init
<1>2. \A s \in Slot : examiner[s] # None => examiner[s].ids = ids
  BY <1>1
<1>3. job.stage # "marked"
  BY DEF Init, NoJob
<1> QED
  BY <1>1, <1>2, <1>3 DEF IInv, BackfillIsMarked

(* A step that writes no ids of a backfill, and takes no marker away.      *)
LEMMA OtherFilesStay ==
    ASSUME IInv, DOMAIN examiner' = Slot, sidecar \subseteq sidecar',
           \A s \in Slot : \/ examiner'[s] = examiner[s]
                           \/ examiner'[s] \in {None, Broken}
                           \/ examiner'[s].ids # "backfilled"
    PROVE  BackfillIsMarked'
BY DEF IInv, BackfillIsMarked

LEMMA StepPreserves == IInv /\ [Next]_vars => IInv'
<1> SUFFICES ASSUME IInv, [Next]_vars PROVE IInv'
  OBVIOUS
<1> USE DEF IInv
<1>1. ASSUME NEW r \in Run, Store(r) PROVE IInv'
  <2>1. CASE report[r] = NotExamined
    BY <1>1, <2>1 DEF Store, artifacts, BackfillIsMarked
  <2>2. CASE report[r] # NotExamined
    <3>1. \A s \in Slot : examiner'[s] = examiner[s] \/ examiner'[s].ids # "backfilled"
      BY <1>1, <2>2 DEF Store
    <3>2. DOMAIN examiner' = Slot /\ sidecar' = sidecar /\ job' = job
      BY <1>1, <2>2 DEF Store
    <3> QED
      BY <3>1, <3>2, OtherFilesStay
  <2> QED
    BY <2>1, <2>2
<1>2. ASSUME NEW r \in Run, Fail(r) PROVE IInv'
  <2>1. /\ DOMAIN examiner' = Slot /\ sidecar' = sidecar /\ job' = job
        /\ \A s \in Slot : examiner'[s] = examiner[s] \/ examiner'[s] \in {None, Broken}
    BY <1>2 DEF Fail, artifacts
  <2> QED
    BY <2>1, OtherFilesStay
<1>3. ASSUME NEW r \in Run,
             Begin(r) \/ Reserve(r) \/ write_note(r) \/ Widen(r) \/ Replace(r)
             \/ append_stats_row(r) \/ make_raw_dir(r)
      PROVE  IInv'
  <2>1. UNCHANGED <<examiner, sidecar, job>>
    BY <1>3 DEF Begin, Reserve, write_note, Widen, Replace, append_stats_row, make_raw_dir,
                artifacts
  <2> QED
    BY <2>1 DEF BackfillIsMarked
<1>4. CASE Assign
  <2>1. job'.stage = "assigned" /\ UNCHANGED <<examiner, sidecar>>
    BY <1>4 DEF Assign, artifacts
  <2> QED
    BY <2>1 DEF BackfillIsMarked
<1>5. CASE WriteSidecar
  <2>1. /\ sidecar' = sidecar \cup {job.slot} /\ examiner' = examiner
        /\ job' = [job EXCEPT !.stage = "marked"]
    BY <1>5 DEF WriteSidecar
  <2>2. job'.slot = job.slot
    BY <2>1
  <2> QED
    BY <2>1, <2>2 DEF BackfillIsMarked
<1>6. CASE WriteIds
  <2>1. job.slot \in sidecar /\ sidecar' = sidecar
    BY <1>6 DEF WriteIds
  <2>2. DOMAIN examiner' = Slot /\ \A s \in Slot : s # job.slot => examiner'[s] = examiner[s]
    BY <1>6 DEF WriteIds
  <2>3. BackfillIsMarked'
    BY <2>1, <2>2 DEF BackfillIsMarked
  <2> QED
    BY <1>6, <2>2, <2>3 DEF WriteIds, NoJob
<1>7. CASE BackfillFails
  BY <1>7 DEF BackfillFails, NoJob, artifacts, BackfillIsMarked
<1>8. CASE UNCHANGED vars
  BY <1>8 DEF vars, artifacts, BackfillIsMarked
<1> QED
  BY <1>1, <1>2, <1>3, <1>4, <1>5, <1>6, <1>7, <1>8 DEF Next, Sesion, Backfill

LEMMA MarkerIsInvariant == Spec => []IInv
BY InitEstablishes, StepPreserves, PTL DEF Spec

(* Ids assigned after the fact have their marker at every step of a        *)
(* backfill that may fail, die or run beside a new session.                *)
THEOREM BackfilledIdsAreMarked == Spec => []BackfillIsMarked
<1>1. IInv => BackfillIsMarked
  BY DEF IInv
<1> QED
  BY <1>1, MarkerIsInvariant, PTL

-----------------------------------------------------------------------------
(* The files, whether or not commands overlap.                             *)

Stages == {"none", "analysed", "reserved", "noted", "widening", "widened", "recorded",
           "stored", "done", "failed"}

Placed == Stages \ {"none", "analysed"}                 \* with an ordinal
Noted == {"noted", "widening", "widened", "recorded", "stored"}
Recorded == {"recorded", "stored", "done", "failed"}    \* with a row, if any

RowSet ==
    {row \in [run : Run, fecha : 1 .. DIAS, ejercicio : 1 .. EJERCICIOS,
              vocab_version : {0, VOCAB_VERSION}, provenance : {PROVENANCE[r] : r \in Run},
              puntuado : BOOLEAN] :
        row.provenance = PROVENANCE[row.run]}

StageOK ==
    /\ old \in 0 .. LEGACY
    /\ stage \in [Run -> Stages]
    /\ report \in [Run -> Report \cup {NotExamined}]

SlotOK ==
    /\ DOMAIN slot = Run
    /\ \A r \in Run : stage[r] = "analysed" => slot[r] \in Clave \X {0}
    /\ \A r \in Run : stage[r] \in Placed => slot[r] \in Slot

(* A note is of some run, and its run has it until it is done.             *)
NotesOK ==
    /\ notes \subseteq Slot /\ raws \subseteq notes
    /\ \A s \in notes : \E r \in Run : stage[r] \in Placed /\ slot[r] = s
    /\ \A r \in Run : stage[r] \in Noted => slot[r] \in notes

(* The ordinals of an exercise and a day have no gap.                      *)
Below(s) == {<<s[1], m>> : m \in 1 .. s[2] - 1}

OrdinalsAreDense ==
    /\ \A s \in notes : Below(s) \subseteq notes
    /\ \A r \in Run : stage[r] = "reserved" => Below(slot[r]) \subseteq notes

RowsOK == rows \in Seq(RowSet)

(* What the widening reads are the rows, until they are replaced, and only *)
(* a write that broke off leaves part of a line.                           *)
WideningIsExact ==
    /\ torn => TORN
    /\ header \in {"absent", "missing", "old", "current"}
    /\ tmp # None => header = "old" /\ tmp = rows
    /\ \A r \in Run : stage[r] = "widened" => header = "current"

BaseInv == StageOK /\ SlotOK /\ NotesOK /\ OrdinalsAreDense /\ RowsOK /\ WideningIsExact

LEMMA RunIsFinite == IsFiniteSet(Run) /\ Run \subseteq Nat \ {0}
BY FS_Interval, CorpusAssumption DEF Run

LEMMA LessThanIsWellFounded ==
  \E R : IsWellFoundedOn(R, Nat) /\ \A x, y \in Nat : x < y => <<x, y>> \in R
<1>1. \A x, y \in Nat : x < y => <<x, y>> \in OpToRel(<, Nat)
  BY DEF OpToRel
<1> QED
  BY <1>1, NatLessThanWellFounded, Zenon

(* A set of numbers that is not empty has a least one.                     *)
LEMMA LeastOf ==
    ASSUME NEW S \in SUBSET Nat, S # {}
    PROVE  \E n \in S : \A m \in S : n <= m
<1>1. PICK R : IsWellFoundedOn(R, Nat) /\ \A x, y \in Nat : x < y => <<x, y>> \in R
  BY LessThanIsWellFounded
<1>2. \E x \in S : \A y \in S : ~ (<<y, x>> \in R)
  <2>1. S \subseteq Nat
    OBVIOUS
  <2>2. IsWellFoundedOn(R, Nat)
    BY <1>1
  <2> QED
    BY <2>1, <2>2, WFMin, Zenon
<1>3. PICK n \in S : \A m \in S : ~ (m < n)
  BY <1>1, <1>2
<1> QED
  BY <1>3

(* There is an ordinal for a session: others have all but one at most.     *)
LEMMA OrdinalIsFree ==
    ASSUME BaseInv, NEW r \in Run, stage[r] = "analysed", NEW key
    PROVE  /\ reserve_session(key) \in Run
           /\ <<key, reserve_session(key)>> \notin notes \cup raws
           /\ \A m \in 1 .. reserve_session(key) - 1 : <<key, m>> \in notes \cup raws
<1>1. \E n \in Run : <<key, n>> \notin notes \cup raws
  <2> SUFFICES ASSUME \A n \in Run : <<key, n>> \in notes PROVE FALSE
    BY DEF BaseInv, NotesOK
  <2> DEFINE owner == [n \in Run |-> CHOOSE o \in Run : stage[o] \in Placed /\ slot[o] = <<key, n>>]
             Others == Run \ {r}
  <2>1. \A n \in Run : owner[n] \in Run /\ stage[owner[n]] \in Placed /\ slot[owner[n]] = <<key, n>>
    BY DEF BaseInv, NotesOK
  <2>2. \A n \in Run : owner[n] # r
    BY <2>1 DEF Placed
  <2>3. owner \in [Run -> Others]
    BY <2>1, <2>2
  <2>4. IsFiniteSet(Others) /\ Cardinality(Others) = Cardinality(Run) - 1 /\ Cardinality(Run) \in Nat
    BY RunIsFinite, FS_RemoveElement, FS_CardinalityType
  <2>5. Cardinality(Others) < Cardinality(Run)
    BY <2>4
  <2> HIDE DEF owner, Others
  <2>6. \A n \in Run : slot[owner[n]][2] = n
    BY <2>1
  <2>7. IsFiniteSet(Run) /\ IsFiniteSet(Others)
    BY <2>4, RunIsFinite
  <2>8. \E n1, n2 \in Run : n1 # n2 /\ owner[n1] = owner[n2]
    BY <2>3, <2>5, <2>7, FS_PigeonHole, Zenon
  <2> QED
    BY <2>6, <2>8
<1>2. PICK n \in Run : /\ <<key, n>> \notin notes \cup raws
                       /\ \A m \in Run : <<key, m>> \notin notes \cup raws => n <= m
  <2> DEFINE Free == {n \in Run : <<key, n>> \notin notes \cup raws}
  <2>1. Free \in SUBSET Nat /\ Free # {}
    BY <1>1, RunIsFinite
  <2> HIDE DEF Free
  <2>2. PICK n \in Free : \A m \in Free : n <= m
    BY <2>1, LeastOf
  <2> USE DEF Free
  <2> QED
    BY <2>2
<1>3. \A m \in 1 .. n - 1 : m \in Run /\ ~ (n <= m)
  BY CorpusAssumption DEF Run
<1>4. \A m \in 1 .. n - 1 : <<key, m>> \in notes \cup raws
  BY <1>2, <1>3
<1> QED
  BY <1>2, <1>4 DEF reserve_session

LEMMA RowIsTyped ==
    ASSUME NEW r \in Run, NEW key \in Clave, NEW version \in {0, VOCAB_VERSION}, NEW found
    PROVE  Row(r, key, version, found) \in RowSet
BY DEF Row, RowSet, Clave, VOCAB_VERSION

LEMMA Moved ==
    ASSUME StageOK, NEW r \in Run, NEW s \in Stages, Goto(r, s)
    PROVE  /\ stage' \in [Run -> Stages] /\ stage'[r] = s
           /\ \A o \in Run : o # r => stage'[o] = stage[o]
BY DEF StageOK, Goto

LEMMA InitBase == Init => BaseInv
<1> SUFFICES ASSUME Init PROVE BaseInv
  OBVIOUS
<1>1. old \in Nat /\ old <= LEGACY /\ 1 .. old \subseteq Run /\ old \in Run \cup {0}
  BY CorpusAssumption DEF Init, Run
<1>2. FirstKey \in Clave
  BY CorpusAssumption DEF FirstKey, Clave
<1>3. \A r \in Run : stage[r] = IF r <= old THEN "done" ELSE "none"
  BY DEF Init
<1>4. \A r \in 1 .. old : slot[r] = <<FirstKey, r>> /\ stage[r] = "done" /\ r \in Run
  BY <1>1, <1>3 DEF Init
<1>5. \A r \in Run : stage[r] = "done" => r \in 1 .. old
  BY <1>1, <1>3, RunIsFinite
<1>6. StageOK
  <2>1. report \in [Run -> Report \cup {NotExamined}]
    <3>1. PICK found \in Report \cup {NotExamined} :
            report = [r \in Run |-> IF r <= old THEN found ELSE NotExamined]
      BY DEF Init
    <3> QED
      BY <3>1
  <2>2. stage \in [Run -> Stages]
    BY DEF Init, Stages
  <2> QED
    BY <2>1, <2>2 DEF StageOK, Init
<1>7. SlotOK
  <2>1. \A r \in Run : stage[r] \in Placed => r \in 1 .. old
    BY <1>3, <1>5 DEF Placed
  <2>2. DOMAIN slot = Run
    BY DEF Init
  <2> QED
    BY <1>2, <1>3, <1>4, <2>1, <2>2 DEF SlotOK, Slot
<1>8. NotesOK
  <2>1. notes = {<<FirstKey, r>> : r \in 1 .. old} /\ raws \subseteq {<<FirstKey, 1>>}
        /\ (raws # {} => old # 0)
    BY DEF Init
  <2>2. notes \subseteq Slot /\ raws \subseteq notes
    BY <1>1, <1>2, <2>1 DEF Slot
  <2>3. \A s \in notes : \E r \in Run : stage[r] \in Placed /\ slot[r] = s
    BY <1>4, <2>1 DEF Placed, Stages
  <2>4. \A r \in Run : stage[r] \notin Noted
    BY <1>3 DEF Noted
  <2> QED
    BY <2>2, <2>3, <2>4 DEF NotesOK
<1>9. OrdinalsAreDense
  <2>1. notes = {<<FirstKey, r>> : r \in 1 .. old}
    BY DEF Init
  <2>2. ASSUME NEW r \in 1 .. old PROVE Below(<<FirstKey, r>>) \subseteq notes
    BY <1>1, <2>1 DEF Below
  <2>3. \A r \in Run : stage[r] # "reserved"
    BY <1>3
  <2> QED
    BY <2>1, <2>2, <2>3 DEF OrdinalsAreDense
<1>10. RowsOK
  <2>1. \A r \in 1 .. old : Row(r, FirstKey, 0, report[r]) \in RowSet
    BY <1>1, <1>2, RowIsTyped
  <2>2. rows = [r \in 1 .. old |-> Row(r, FirstKey, 0, report[r])]
    BY DEF Init
  <2> QED
    BY <1>1, <2>1, <2>2, SMT DEF RowsOK
<1>11. WideningIsExact
  BY <1>3 DEF Init, WideningIsExact
<1> QED
  BY <1>6, <1>7, <1>8, <1>9, <1>10, <1>11 DEF BaseInv

(* A run that keeps its slot, and its stage or goes to one in which it     *)
(* still has it.                                                           *)
LEMMA SlotStays ==
    ASSUME SlotOK, StageOK, StageOK', slot' = slot,
           \A o \in Run : stage'[o] = stage[o] \/ (stage[o] \in Placed /\ stage'[o] \in Placed)
    PROVE  SlotOK'
<1>1. \A o \in Run : stage[o] \in Placed => stage[o] # "analysed"
  BY DEF Placed
<1>2. \A o \in Run : stage'[o] \in Placed => stage'[o] # "analysed"
  BY DEF Placed
<1> QED
  BY <1>1, <1>2 DEF SlotOK

LEMMA BeginBase == ASSUME BaseInv, NEW r \in Run, Begin(r) PROVE BaseInv'
<1>1. /\ stage' \in [Run -> Stages] /\ stage'[r] = "analysed" /\ stage[r] = "none"
      /\ \A o \in Run : o # r => stage'[o] = stage[o]
  BY Moved DEF Begin, BaseInv, Stages
<1>2. PICK key \in Clave : slot' = [slot EXCEPT ![r] = <<key, 0>>]
  BY DEF Begin
<1>3. UNCHANGED <<old, header, rows, torn, tmp, notes, raws, report>>
  BY DEF Begin, csv, dirs
<1>4. DOMAIN slot' = Run /\ slot'[r] = <<key, 0>> /\ \A o \in Run : o # r => slot'[o] = slot[o]
  BY <1>2 DEF BaseInv, SlotOK
<1>5. StageOK'
  BY <1>1, <1>3 DEF BaseInv, StageOK
<1>6. SlotOK'
  <2>1. slot'[r] \in Clave \X {0}
    BY <1>4
  <2>2. stage'[r] \notin Placed
    BY <1>1 DEF Placed
  <2> QED
    BY <1>1, <1>4, <2>1, <2>2 DEF BaseInv, SlotOK
<1>7. NotesOK'
  <2>1. \A o \in Run : stage[o] \in Placed => stage'[o] \in Placed /\ slot'[o] = slot[o]
    BY <1>1, <1>4 DEF Placed
  <2>2. \A o \in Run : stage'[o] \in Noted => stage[o] \in Noted /\ slot'[o] = slot[o]
    BY <1>1, <1>4 DEF Noted
  <2> QED
    BY <1>3, <2>1, <2>2 DEF BaseInv, NotesOK
<1>8. OrdinalsAreDense'
  <2>1. \A o \in Run : stage'[o] = "reserved" => stage[o] = "reserved" /\ slot'[o] = slot[o]
    BY <1>1, <1>4
  <2> QED
    BY <1>3, <2>1 DEF BaseInv, OrdinalsAreDense, Below
<1>9. RowsOK' /\ WideningIsExact'
  BY <1>1, <1>3 DEF BaseInv, RowsOK, WideningIsExact
<1> QED
  BY <1>5, <1>6, <1>7, <1>8, <1>9 DEF BaseInv

LEMMA ReserveBase == ASSUME BaseInv, NEW r \in Run, Reserve(r) PROVE BaseInv'
<1>1. /\ stage' \in [Run -> Stages] /\ stage'[r] = "reserved" /\ stage[r] = "analysed"
      /\ \A o \in Run : o # r => stage'[o] = stage[o]
  BY Moved DEF Reserve, BaseInv, Stages
<1> DEFINE key == slot[r][1]
           n == reserve_session(key)
<1>2. UNCHANGED <<old, header, rows, torn, tmp, notes, raws, report>>
  BY DEF Reserve, csv, dirs
<1>3. n \in Run /\ \A m \in 1 .. n - 1 : <<key, m>> \in notes \cup raws
  BY <1>1, OrdinalIsFree
<1>4. key \in Clave
  BY <1>1 DEF BaseInv, SlotOK
<1>5. slot' = [slot EXCEPT ![r] = <<key, n>>]
  BY DEF Reserve
<1> HIDE DEF n, key
<1>6. DOMAIN slot' = Run /\ slot'[r] = <<key, n>> /\ \A o \in Run : o # r => slot'[o] = slot[o]
  BY <1>5 DEF BaseInv, SlotOK
<1>7. StageOK'
  BY <1>1, <1>2 DEF BaseInv, StageOK
<1>8. SlotOK'
  <2>1. slot'[r] \in Slot
    BY <1>3, <1>4, <1>6 DEF Slot
  <2> QED
    BY <1>1, <1>6, <2>1 DEF BaseInv, SlotOK
<1>9. NotesOK'
  <2>1. \A o \in Run : stage[o] \in Placed => stage'[o] \in Placed /\ slot'[o] = slot[o]
    BY <1>1, <1>6 DEF Placed
  <2>2. \A o \in Run : stage'[o] \in Noted => stage[o] \in Noted /\ slot'[o] = slot[o]
    BY <1>1, <1>6 DEF Noted
  <2> QED
    BY <1>2, <2>1, <2>2 DEF BaseInv, NotesOK
<1>10. OrdinalsAreDense'
  <2>1. \A o \in Run : stage'[o] = "reserved" => o = r \/ (stage[o] = "reserved" /\ slot'[o] = slot[o])
    BY <1>1, <1>6
  <2>2. Below(slot'[r]) \subseteq notes'
    BY <1>2, <1>3, <1>6 DEF Below, BaseInv, NotesOK
  <2> QED
    BY <1>2, <2>1, <2>2 DEF BaseInv, OrdinalsAreDense, Below
<1>11. RowsOK' /\ WideningIsExact'
  BY <1>1, <1>2 DEF BaseInv, RowsOK, WideningIsExact
<1> QED
  BY <1>7, <1>8, <1>9, <1>10, <1>11 DEF BaseInv

(* The steps of a run that has its ordinal.                                *)
LEMMA PlacedBase ==
    ASSUME BaseInv, NEW r \in Run, NEW s \in Placed, Goto(r, s),
           stage[r] \in Placed, UNCHANGED <<old, slot>>, s # "reserved",
           report' \in [Run -> Report \cup {NotExamined}],
           notes \subseteq notes', notes' \subseteq notes \cup {slot[r]},
           slot[r] \in notes' \/ notes' = notes, slot[r] \in notes' \/ s \notin Noted,
           raws' \subseteq raws \cup {slot[r]}, slot[r] \in notes \/ raws' = raws,
           notes' = notes \/ stage[r] = "reserved",
           RowsOK', WideningIsExact'
    PROVE  BaseInv'
<1>1. /\ stage' \in [Run -> Stages] /\ stage'[r] = s
      /\ \A o \in Run : o # r => stage'[o] = stage[o]
  BY Moved DEF BaseInv, Placed
<1>2. StageOK'
  BY <1>1 DEF BaseInv, StageOK
<1>3. SlotOK'
  <2>1. \A o \in Run : stage'[o] = stage[o] \/ (stage[o] \in Placed /\ stage'[o] \in Placed)
    BY <1>1
  <2> QED
    BY <1>2, <2>1, SlotStays DEF BaseInv
<1>4. NotesOK'
  <2>1. \A o \in Run : stage[o] \in Placed => stage'[o] \in Placed
    BY <1>1
  <2>2. slot[r] \in Slot
    BY DEF BaseInv, SlotOK
  <2>3. notes' \subseteq Slot /\ raws' \subseteq notes'
    BY <2>2 DEF BaseInv, NotesOK
  <2>4. \A x \in notes' : \E o \in Run : stage'[o] \in Placed /\ slot'[o] = x
    BY <1>1, <2>1 DEF BaseInv, NotesOK
  <2>5. \A o \in Run : stage'[o] \in Noted => slot'[o] \in notes'
    BY <1>1 DEF BaseInv, NotesOK
  <2> QED
    BY <2>3, <2>4, <2>5 DEF NotesOK
<1>5. OrdinalsAreDense'
  <2>1. \A o \in Run : stage'[o] = "reserved" => stage[o] = "reserved"
    BY <1>1
  <2>2. \A x \in notes' : x \in notes \/ (x = slot[r] /\ stage[r] = "reserved")
    OBVIOUS
  <2> QED
    BY <2>1, <2>2 DEF BaseInv, OrdinalsAreDense, Below
<1> QED
  BY <1>2, <1>3, <1>4, <1>5 DEF BaseInv

(* The CSV: it only grows, and what the widening reads is what it writes.  *)
LEMMA CsvStays ==
    ASSUME BaseInv, UNCHANGED csv,
           \A o \in Run : stage'[o] = "widened" => stage[o] = "widened"
    PROVE  RowsOK' /\ WideningIsExact'
BY DEF BaseInv, RowsOK, WideningIsExact, csv

LEMMA WriteNoteBase == ASSUME BaseInv, NEW r \in Run, write_note(r) PROVE BaseInv'
<1>1. /\ stage[r] = "reserved" /\ notes' = notes \cup {slot[r]} /\ Goto(r, "noted")
      /\ UNCHANGED <<old, csv, raws, slot, report>>
  BY DEF write_note
<1>2. RowsOK' /\ WideningIsExact'
  BY <1>1, Moved, CsvStays DEF BaseInv, Stages
<1>3. "noted" \in Placed /\ stage[r] \in Placed
  BY <1>1 DEF Placed, Stages
<1>4. report' \in [Run -> Report \cup {NotExamined}]
  BY <1>1 DEF BaseInv, StageOK
<1> QED
  BY <1>1, <1>2, <1>3, <1>4, PlacedBase

LEMMA WidenBase == ASSUME BaseInv, NEW r \in Run, Widen(r) PROVE BaseInv'
<1>1. /\ stage[r] = "noted" /\ header = "old" /\ tmp' = rows /\ Goto(r, "widening")
      /\ UNCHANGED <<old, header, rows, torn, notes, raws, slot, report>>
  BY DEF Widen, dirs
<1>2. \A o \in Run : stage'[o] = "widened" => stage[o] = "widened"
  BY <1>1, Moved DEF BaseInv, Stages
<1>3. RowsOK' /\ WideningIsExact'
  BY <1>1, <1>2 DEF BaseInv, RowsOK, WideningIsExact
<1>4. "widening" \in Placed /\ stage[r] \in Placed /\ stage[r] \in Noted
  BY <1>1 DEF Placed, Stages, Noted
<1>5. report' \in [Run -> Report \cup {NotExamined}] /\ slot[r] \in notes
  BY <1>1, <1>4 DEF BaseInv, StageOK, NotesOK
<1> QED
  BY <1>1, <1>3, <1>4, <1>5, PlacedBase

LEMMA ReplaceBase == ASSUME BaseInv, NEW r \in Run, Replace(r) PROVE BaseInv'
<1>1. /\ stage[r] = "widening" /\ tmp # None /\ rows' = tmp /\ header' = "current" /\ tmp' = None
      /\ torn' = FALSE /\ Goto(r, "widened") /\ UNCHANGED <<old, notes, raws, slot, report>>
  BY DEF Replace, dirs
<1>2. rows' = rows
  BY <1>1 DEF BaseInv, WideningIsExact
<1>3. RowsOK' /\ WideningIsExact'
  BY <1>1, <1>2 DEF BaseInv, RowsOK, WideningIsExact
<1>4. "widened" \in Placed /\ stage[r] \in Placed /\ stage[r] \in Noted
  BY <1>1 DEF Placed, Stages, Noted
<1>5. report' \in [Run -> Report \cup {NotExamined}] /\ slot[r] \in notes
  BY <1>1, <1>4 DEF BaseInv, StageOK, NotesOK
<1> QED
  BY <1>1, <1>3, <1>4, <1>5, PlacedBase

(* The row a session adds.                                                 *)
LEMMA RowIsAdded ==
    ASSUME BaseInv, NEW r \in Run, append_stats_row(r)
    PROVE  \E found \in Report \cup {NotExamined} :
              LET row == Row(r, slot[r][1], VOCAB_VERSION, found)
              IN  /\ report' = [report EXCEPT ![r] = found]
                  /\ rows' = (IF torn THEN rows ELSE Append(rows, row)) /\ row \in RowSet
<1>1. stage[r] \in Placed
  BY DEF append_stats_row, Placed, Stages
<1>2. slot[r][1] \in Clave
  BY <1>1 DEF BaseInv, SlotOK, Slot
<1> QED
  BY <1>2, RowIsTyped DEF append_stats_row

LEMMA AppendBase == ASSUME BaseInv, NEW r \in Run, append_stats_row(r) PROVE BaseInv'
<1>1. /\ stage[r] \in {"noted", "widened"} /\ (stage[r] = "noted" => header # "old")
      /\ header' = (IF header = "absent" THEN "current" ELSE header)
      /\ torn' = FALSE /\ Goto(r, "recorded") /\ UNCHANGED <<old, tmp, notes, raws, slot>>
  BY DEF append_stats_row, dirs
<1>2. PICK found \in Report \cup {NotExamined} :
         /\ report' = [report EXCEPT ![r] = found]
         /\ rows' = (IF torn THEN rows
                     ELSE Append(rows, Row(r, slot[r][1], VOCAB_VERSION, found)))
         /\ Row(r, slot[r][1], VOCAB_VERSION, found) \in RowSet
  BY RowIsAdded
<1>3. RowsOK'
  BY <1>2, AppendProperties DEF BaseInv, RowsOK
<1>4. WideningIsExact'
  <2>1. header # "old" /\ tmp = None
    BY <1>1 DEF BaseInv, WideningIsExact
  <2>2. \A o \in Run : stage'[o] = "widened" => stage[o] = "widened"
    BY <1>1, Moved DEF BaseInv, Stages
  <2> QED
    BY <1>1, <2>1, <2>2 DEF BaseInv, WideningIsExact
<1>5. "recorded" \in Placed /\ stage[r] \in Placed /\ stage[r] \in Noted
  BY <1>1 DEF Placed, Stages, Noted
<1>6. report' \in [Run -> Report \cup {NotExamined}] /\ slot[r] \in notes
  BY <1>2, <1>5 DEF BaseInv, StageOK, NotesOK
<1> QED
  BY <1>1, <1>3, <1>4, <1>5, <1>6, PlacedBase

LEMMA RawDirBase == ASSUME BaseInv, NEW r \in Run, make_raw_dir(r) PROVE BaseInv'
<1>1. /\ stage[r] = "recorded" /\ raws' = raws \cup {slot[r]} /\ Goto(r, "stored")
      /\ UNCHANGED <<old, csv, notes, slot, report>>
  BY DEF make_raw_dir
<1>2. RowsOK' /\ WideningIsExact'
  BY <1>1, Moved, CsvStays DEF BaseInv, Stages
<1>3. "stored" \in Placed /\ stage[r] \in Placed /\ stage[r] \in Noted
  BY <1>1 DEF Placed, Stages, Noted
<1>4. report' \in [Run -> Report \cup {NotExamined}] /\ slot[r] \in notes
  BY <1>1, <1>3 DEF BaseInv, StageOK, NotesOK
<1> QED
  BY <1>1, <1>2, <1>3, <1>4, PlacedBase

LEMMA StoreBase == ASSUME BaseInv, NEW r \in Run, Store(r) PROVE BaseInv'
<1>1. /\ stage[r] = "stored" /\ Goto(r, "done")
      /\ UNCHANGED <<old, csv, notes, raws, slot, report>>
  BY DEF Store, dirs
<1>2. RowsOK' /\ WideningIsExact'
  BY <1>1, Moved, CsvStays DEF BaseInv, Stages
<1>3. "done" \in Placed /\ stage[r] \in Placed /\ "done" \notin Noted
  BY <1>1 DEF Placed, Stages, Noted
<1>4. report' \in [Run -> Report \cup {NotExamined}]
  BY <1>1 DEF BaseInv, StageOK
<1> QED
  BY <1>1, <1>2, <1>3, <1>4, PlacedBase

LEMMA FailBase == ASSUME BaseInv, NEW r \in Run, Fail(r) PROVE BaseInv'
<1>1. /\ stage[r] \in Noted \cup {"reserved"} /\ Goto(r, "failed")
      /\ UNCHANGED <<old, rows, tmp, raws, slot, report>>
      /\ notes' = notes \/ (stage[r] = "reserved" /\ notes' = notes \cup {slot[r]})
      /\ header' = header \/ (header = "absent" /\ header' \in {"missing", "current"})
      /\ torn' = torn \/ TORN
  BY DEF Fail, csv, dirs, Noted
<1>2. \A o \in Run : stage'[o] = "widened" => stage[o] = "widened"
  BY <1>1, Moved DEF BaseInv, Stages
<1>3. RowsOK' /\ WideningIsExact'
  BY <1>1, <1>2 DEF BaseInv, RowsOK, WideningIsExact
<1>4. "failed" \in Placed /\ stage[r] \in Placed /\ "failed" \notin Noted
  BY <1>1 DEF Placed, Stages, Noted
<1>5. report' \in [Run -> Report \cup {NotExamined}]
  BY <1>1 DEF BaseInv, StageOK
<1> QED
  BY <1>1, <1>3, <1>4, <1>5, PlacedBase

LEMMA StepBase == BaseInv /\ [Next]_vars => BaseInv'
<1> SUFFICES ASSUME BaseInv, [Next]_vars PROVE BaseInv'
  OBVIOUS
<1>1. ASSUME Backfill \/ UNCHANGED vars PROVE BaseInv'
  <2>1. UNCHANGED <<old, csv, dirs, run>>
    BY <1>1 DEF Backfill, Assign, WriteSidecar, WriteIds, BackfillFails, vars
  <2> QED
    BY <2>1 DEF csv, dirs, run, BaseInv, StageOK, SlotOK, NotesOK, OrdinalsAreDense, RowsOK,
                WideningIsExact
<1> QED
  BY <1>1, BeginBase, ReserveBase, WriteNoteBase, WidenBase, ReplaceBase, AppendBase, RawDirBase,
     StoreBase, FailBase DEF Next, Sesion

LEMMA BaseIsInvariant == Spec => []BaseInv
BY InitBase, StepBase, PTL DEF Spec

(* A session that was recorded stays in the CSV, while it is widened, too, *)
(* and whatever fails.  Stated of runs one after the other: Widen reads    *)
(* the file and writes the temporary one in one step, and a second run     *)
(* could append between the two.                                           *)
THEOREM RecordedSessionsStay == ASSUME ~ OVERLAP PROVE Spec => RowsStay
<1>1. ASSUME BaseInv, Next
      PROVE  Len(rows') >= Len(rows) /\ SubSeq(rows', 1, Len(rows)) = rows
  <2>1. Len(rows) \in Nat /\ SubSeq(rows, 1, Len(rows)) = rows
    BY <1>1, LenProperties, SubSeqFull DEF BaseInv, RowsOK
  <2>2. CASE \E r \in Run : append_stats_row(r)
    <3>0. CASE rows' = rows
      BY <2>1, <3>0
    <3>1. ASSUME rows' # rows PROVE \E row \in RowSet : rows' = Append(rows, row)
      BY <1>1, <2>2, <3>1, RowIsAdded
    <3> SUFFICES ASSUME NEW row \in RowSet, rows' = Append(rows, row)
                 PROVE  Len(rows') >= Len(rows) /\ SubSeq(rows', 1, Len(rows)) = rows
      BY <3>0, <3>1
    <3>2. rows' \in Seq(RowSet) /\ Len(rows') = Len(rows) + 1
          /\ \A i \in 1 .. Len(rows) : rows'[i] = rows[i]
      BY <1>1, AppendProperties DEF BaseInv, RowsOK
    <3>3. \A i \in 1 .. Len(rows) : rows'[i] \in RowSet
      BY <2>1, <3>2, ElementOfSeq DEF BaseInv, RowsOK
    <3>4. /\ SubSeq(rows', 1, Len(rows)) \in Seq(RowSet)
          /\ Len(SubSeq(rows', 1, Len(rows))) = Len(rows)
          /\ \A i \in 1 .. Len(rows) : SubSeq(rows', 1, Len(rows))[i] = rows[i]
      BY <2>1, <3>2, <3>3, SubSeqProperties
    <3> QED
      BY <1>1, <2>1, <3>2, <3>4, SeqEqual DEF BaseInv, RowsOK
  <2>3. CASE ~ \E r \in Run : append_stats_row(r)
    <3>1. rows' = rows
      BY <1>1, <2>3 DEF Next, Sesion, Begin, Reserve, write_note, Widen, Replace, make_raw_dir,
           Store, Fail, Backfill, Assign, WriteSidecar, WriteIds, BackfillFails, csv, BaseInv,
           WideningIsExact
    <3> QED
      BY <2>1, <3>1
  <2> QED
    BY <2>2, <2>3
<1>2. BaseInv /\ [Next]_vars
      => [Len(rows') >= Len(rows) /\ SubSeq(rows', 1, Len(rows)) = rows]_vars
  BY <1>1
<1> QED
  BY <1>2, BaseIsInvariant, PTL DEF Spec, RowsStay

-----------------------------------------------------------------------------
(* The files where no commands overlap.                                    *)
Active(r) == stage[r] \notin {"none", "done", "failed"}

(* Runs begin in their order, each after the last one is done, and beside  *)
(* no backfill.                                                            *)
OneAtATime ==
    /\ \A r \in Run : stage[r] # "none" => \A o \in 1 .. r - 1 : stage[o] # "none"
    /\ \A o, r \in Run : Active(r) /\ o > r => stage[o] = "none"
    /\ \A r \in Run : Active(r) => job = NoJob

SlotOf(i) == slot[rows[i].run]

(* A row is of a session with a note, and of its date and exercise.        *)
RowsAreRuns ==
    \A i \in DOMAIN rows :
        /\ stage[rows[i].run] \in Recorded
        /\ SlotOf(i) \in notes
        /\ SlotOf(i)[1] = <<rows[i].fecha, rows[i].ejercicio>>
        /\ rows[i].run <= old => rows[i].vocab_version = 0

(* The rows are in the order of their runs, and of their ordinals.         *)
RowsAreOrdered ==
    /\ \A i, j \in DOMAIN rows : i < j => rows[i].run < rows[j].run
    /\ \A i, j \in DOMAIN rows : i < j /\ SlotOf(i)[1] = SlotOf(j)[1] => SlotOf(i)[2] < SlotOf(j)[2]

(* The sessions the corpus began with: one directory at most.              *)
LegacyRows ==
    /\ \A r \in 1 .. old : /\ r \in DOMAIN rows /\ rows[r].run = r
                           /\ slot[r] = <<FirstKey, r>> /\ stage[r] = "done"
    /\ \A n \in 2 .. old : <<FirstKey, n>> \notin raws

(* A run has its slot to itself, the last of its date and exercise.        *)
Mine(r) ==
    /\ examiner[slot[r]] = None
    /\ \A i \in DOMAIN rows :
          rows[i].run # r /\ SlotOf(i)[1] = slot[r][1] => SlotOf(i)[2] < slot[r][2]
    /\ stage[r] = "stored" => slot[r] \in raws
    /\ stage[r] \in {"recorded", "stored"} => \E i \in DOMAIN rows : rows[i].run = r

SlotIsReserved ==
    \A r \in Run : Active(r) /\ stage[r] # "analysed" => Mine(r)

(* A directory is of a session with a row.                                 *)
DirectoriesHaveRows ==
    /\ \A s \in raws : \E i \in DOMAIN rows : SlotOf(i) = s
    /\ \A s \in Slot : examiner[s] # None => s \in raws

Found(s) == examiner[s] \notin {None, Broken}

(* What is in it was found in that session, but for the one directory that *)
(* the older sessions shared, which is of one of them.                     *)
Theirs(payload, s) ==
    /\ DOMAIN payload = {"run", "patrones", "truncado", "ids"}
    /\ payload.run \in Run /\ stage[payload.run] \in {"done", "failed"}
    /\ slot[payload.run] = s \/ (s = <<FirstKey, 1>> /\ old >= 2)
    /\ \E i \in DOMAIN rows : rows[i].run = payload.run
    /\ report[payload.run] # NotExamined
    /\ payload.truncado = report[payload.run].truncado
    /\ payload.ids # "backfilled" => payload.patrones = report[payload.run].patrones

ReportsAreTheirs == \A s \in Slot : Found(s) => Theirs(examiner[s], s)

(* A backfill adds ids to the report it read.                              *)
JobIsCurrent ==
    job # NoJob =>
        /\ job.slot \in Slot /\ Found(job.slot) /\ examiner[job.slot].ids = "none"
        /\ DOMAIN job.payload = DOMAIN examiner[job.slot]
        /\ job.payload.run = examiner[job.slot].run
        /\ job.payload.truncado = examiner[job.slot].truncado
        /\ job.payload.ids = "backfilled"

SerialInv ==
    /\ OneAtATime /\ RowsAreRuns /\ RowsAreOrdered /\ LegacyRows /\ SlotIsReserved
    /\ DirectoriesHaveRows /\ ReportsAreTheirs /\ JobIsCurrent

-----------------------------------------------------------------------------

LEMMA RowsAreTyped ==
    ASSUME BaseInv
    PROVE  /\ Len(rows) \in Nat /\ DOMAIN rows = 1 .. Len(rows)
           /\ \A i \in DOMAIN rows : rows[i] \in RowSet
           /\ \A i \in DOMAIN rows : rows[i].run \in Run
<1>1. Len(rows) \in Nat /\ DOMAIN rows = 1 .. Len(rows)
  BY LenProperties DEF BaseInv, RowsOK
<1>2. \A i \in DOMAIN rows : rows[i] \in RowSet
  BY <1>1, ElementOfSeq DEF BaseInv, RowsOK
<1> QED
  BY <1>1, <1>2 DEF RowSet

LEMMA InitSerial == Init => SerialInv
<1> SUFFICES ASSUME Init PROVE SerialInv
  OBVIOUS
<1>1. old \in Nat /\ old <= LEGACY /\ 1 .. old \subseteq Run /\ old \in Run \cup {0}
  BY CorpusAssumption DEF Init, Run
<1>2. FirstKey \in Clave
  BY CorpusAssumption DEF FirstKey, Clave
<1>3. \A r \in Run : /\ stage[r] = IF r <= old THEN "done" ELSE "none"
                     /\ ~ Active(r)
  BY DEF Init, Active
<1>4. /\ DOMAIN rows = 1 .. old
      /\ \A r \in 1 .. old : rows[r] = Row(r, FirstKey, 0, report[r])
      /\ \A r \in 1 .. old : slot[r] = <<FirstKey, r>> /\ stage[r] = "done" /\ r \in Run
  BY <1>1, <1>3 DEF Init
<1>5. \A r \in 1 .. old : /\ rows[r].run = r /\ SlotOf(r) = <<FirstKey, r>>
                          /\ rows[r].vocab_version = 0
                          /\ <<rows[r].fecha, rows[r].ejercicio>> = FirstKey
  BY <1>4 DEF Row, SlotOf, FirstKey
<1>6. OneAtATime
  <2>1. \A r \in Run : stage[r] # "none" => \A o \in 1 .. r - 1 : stage[o] # "none"
    <3> SUFFICES ASSUME NEW r \in Run, stage[r] # "none", NEW o \in 1 .. r - 1
                 PROVE  stage[o] # "none"
      OBVIOUS
    <3>1. r <= old
      BY <1>3
    <3>2. o \in 1 .. old
      BY <1>1, <3>1, RunIsFinite
    <3> QED
      BY <1>4, <3>2
  <2> QED
    BY <1>3, <2>1 DEF OneAtATime
<1>7. RowsAreRuns
  <2>1. \A r \in 1 .. old : /\ stage[rows[r].run] \in Recorded /\ SlotOf(r) \in notes
                            /\ SlotOf(r)[1] = FirstKey
    <3>1. notes = {<<FirstKey, r>> : r \in 1 .. old}
      BY DEF Init
    <3> QED
      BY <1>4, <1>5, <3>1 DEF Recorded
  <2> QED
    BY <1>4, <1>5, <2>1 DEF RowsAreRuns
<1>8. RowsAreOrdered
  BY <1>1, <1>4, <1>5 DEF RowsAreOrdered
<1>9. LegacyRows
  <2>1. \A n \in 2 .. old : <<FirstKey, n>> \notin raws
    BY <1>1 DEF Init
  <2> QED
    BY <1>4, <1>5, <2>1 DEF LegacyRows
<1>10. SlotIsReserved
  BY <1>3 DEF SlotIsReserved
<1>11. PICK ids \in {"none", "native"} :
         examiner = [s \in Slot |->
             IF s \notin raws \/ report[old] = NotExamined THEN None
             ELSE [run |-> old, patrones |-> report[old].patrones,
                   truncado |-> report[old].truncado, ids |-> ids]]
  BY DEF Init
<1>12. raws = IF old = 0 THEN {} ELSE {<<FirstKey, 1>>}
  BY DEF Init
<1>13. DirectoriesHaveRows
  <2>1. \A s \in raws : \E i \in DOMAIN rows : SlotOf(i) = s
    BY <1>1, <1>4, <1>5, <1>12
  <2> QED
    BY <1>11, <2>1 DEF DirectoriesHaveRows
<1>14. ReportsAreTheirs
  <2> SUFFICES ASSUME NEW s \in Slot, Found(s) PROVE Theirs(examiner[s], s)
    BY DEF ReportsAreTheirs
  <2>1. /\ s \in raws /\ report[old] # NotExamined
        /\ examiner[s] = [run |-> old, patrones |-> report[old].patrones,
                          truncado |-> report[old].truncado, ids |-> ids]
    BY <1>11 DEF Found
  <2>2. s = <<FirstKey, 1>> /\ old \in 1 .. old
    BY <1>1, <1>12, <2>1
  <2>3. stage[old] = "done" /\ slot[old] = <<FirstKey, old>> /\ old \in Run /\ rows[old].run = old
        /\ old \in DOMAIN rows
    BY <1>4, <1>5, <2>2
  <2>4. old = 1 \/ old >= 2
    BY <1>1, <2>2
  <2> QED
    BY <2>1, <2>2, <2>3, <2>4 DEF Theirs
<1>15. JobIsCurrent
  BY DEF Init, JobIsCurrent
<1> QED
  BY <1>6, <1>7, <1>8, <1>9, <1>10, <1>13, <1>14, <1>15 DEF SerialInv

(* While a run is active nothing else is.                                  *)
LEMMA Quiet ==
    ASSUME BaseInv, SerialInv, NEW r \in Run, Active(r)
    PROVE  /\ \A o \in Run : o # r => ~ Active(o)
           /\ r \notin 1 .. old /\ job = NoJob
           /\ \A i \in DOMAIN rows : rows[i].run <= r
<1>1. \A o \in Run : o > r => stage[o] = "none"
  BY DEF SerialInv, OneAtATime
<1>2. \A o \in Run : o # r /\ ~ (o > r) => r > o
  BY RunIsFinite
<1>3. \A o \in Run : r > o /\ Active(o) => stage[r] = "none"
  BY DEF SerialInv, OneAtATime
<1>4. \A o \in Run : o # r => ~ Active(o)
  BY <1>1, <1>2, <1>3 DEF Active
<1>5. r \notin 1 .. old
  BY DEF SerialInv, LegacyRows, Active
<1>6. job = NoJob
  BY DEF SerialInv, OneAtATime
<1>7. ASSUME NEW i \in DOMAIN rows PROVE rows[i].run <= r
  <2>1. rows[i].run \in Run /\ stage[rows[i].run] # "none"
    BY RowsAreTyped DEF SerialInv, RowsAreRuns, Recorded
  <2>2. ~ (rows[i].run > r)
    BY <1>1, <2>1
  <2>3. \A x, y \in Run : ~ (x > y) => x <= y
    BY RunIsFinite
  <2> QED
    BY <2>1, <2>2, <2>3
<1> QED
  BY <1>4, <1>5, <1>6, <1>7

LEMMA OneKept ==
    ASSUME BaseInv, OneAtATime, NEW r \in Run, NEW s \in Stages, Goto(r, s),
           Active(r), s # "none", job' = job
    PROVE  OneAtATime'
<1>1. stage'[r] = s /\ \A o \in Run : o # r => stage'[o] = stage[o]
  BY Moved DEF BaseInv
<1>2. \A o \in Run : /\ stage'[o] = "none" <=> stage[o] = "none"
                     /\ Active(o)' => Active(o)
  BY <1>1 DEF Active
<1>3. \A x \in Run : stage'[x] # "none" => \A o \in 1 .. x - 1 : stage'[o] # "none"
  <2> SUFFICES ASSUME NEW x \in Run, stage'[x] # "none", NEW o \in 1 .. x - 1
               PROVE  stage'[o] # "none"
    OBVIOUS
  <2>1. o \in Run
    BY CorpusAssumption DEF Run
  <2>2. stage[o] # "none"
    BY <1>2 DEF OneAtATime
  <2> QED
    BY <1>2, <2>1, <2>2
<1> QED
  BY <1>2, <1>3 DEF OneAtATime

(* The runs that have a row keep their slots.                              *)
SlotsKept ==
    \A o \in Run : stage[o] \in Recorded => stage'[o] \in Recorded /\ slot'[o] = slot[o]

LEMMA RowsKept ==
    ASSUME BaseInv, RowsAreRuns, RowsAreOrdered, SlotsKept, rows' = rows, old' = old,
           notes \subseteq notes'
    PROVE  /\ RowsAreRuns' /\ RowsAreOrdered'
           /\ \A i \in DOMAIN rows : SlotOf(i)' = SlotOf(i)
<1>1. \A i \in DOMAIN rows : /\ rows[i].run \in Run /\ stage[rows[i].run] \in Recorded
  BY RowsAreTyped DEF RowsAreRuns
<1>2. \A i \in DOMAIN rows : SlotOf(i)' = SlotOf(i)
  BY <1>1 DEF SlotOf, SlotsKept
<1>3. RowsAreRuns'
  BY <1>1, <1>2 DEF RowsAreRuns, SlotsKept
<1>4. RowsAreOrdered'
  BY <1>2 DEF RowsAreOrdered
<1> QED
  BY <1>2, <1>3, <1>4

(* What is said of a report stays true while its run and row are there.    *)
ReportsKept ==
    /\ \A o \in Run : stage[o] \in {"done", "failed"} =>
          stage'[o] \in {"done", "failed"} /\ slot'[o] = slot[o] /\ report'[o] = report[o]
    /\ \A i \in DOMAIN rows : i \in DOMAIN rows' /\ rows'[i] = rows[i]
    /\ old' = old

LEMMA TheirsKept ==
    ASSUME ReportsKept, NEW payload, NEW s, Theirs(payload, s)
    PROVE  Theirs(payload, s)'
<1>1. payload.run \in Run /\ stage[payload.run] \in {"done", "failed"}
  BY DEF Theirs
<1>2. /\ stage'[payload.run] \in {"done", "failed"}
      /\ slot'[payload.run] = slot[payload.run] /\ report'[payload.run] = report[payload.run]
  BY <1>1 DEF ReportsKept
<1>3. \E i \in DOMAIN rows' : rows'[i].run = payload.run
  BY DEF Theirs, ReportsKept
<1>4. old' = old
  BY DEF ReportsKept
<1> QED
  BY <1>1, <1>2, <1>3, <1>4 DEF Theirs

LEMMA LegacyKept ==
    ASSUME LegacyRows, ReportsKept, BaseInv,
           \A r \in 1 .. old : stage'[r] = stage[r],
           \A n \in 2 .. old : <<FirstKey, n>> \notin raws'
    PROVE  LegacyRows'
<1>1. \A r \in 1 .. old : r \in Run
  BY CorpusAssumption DEF BaseInv, StageOK, Run
<1>2. old' = old
  BY DEF ReportsKept
<1>3. \A r \in 1 .. old : slot'[r] = slot[r] /\ rows'[r] = rows[r] /\ r \in DOMAIN rows'
  BY <1>1 DEF ReportsKept, LegacyRows
<1> QED
  BY <1>2, <1>3 DEF LegacyRows

LEMMA ReservedKept ==
    ASSUME BaseInv, SerialInv, NEW r \in Run, NEW s \in Stages, Goto(r, s),
           Active(r), s \in {"done", "failed"} \/ Mine(r)'
    PROVE  SlotIsReserved'
<1>1. stage'[r] = s /\ \A o \in Run : o # r => stage'[o] = stage[o]
  BY Moved DEF BaseInv
<1>2. \A o \in Run : o # r => ~ Active(o)'
  BY <1>1, Quiet DEF Active
<1>3. Active(r)' => Mine(r)'
  BY <1>1 DEF Active
<1> QED
  BY <1>2, <1>3 DEF SlotIsReserved

(* A step of a run that leaves rows, directories and reports alone.        *)
LEMMA PlainStep ==
    ASSUME BaseInv, SerialInv, NEW r \in Run, NEW s \in Stages, Goto(r, s), Active(r),
           s # "none", stage[r] \in Recorded => s \in Recorded,
           \A o \in Run : o # r => slot'[o] = slot[o],
           slot'[r] = slot[r] \/ stage[r] \notin Recorded,
           UNCHANGED <<old, rows, raws, examiner, report, job>>,
           notes \subseteq notes',
           s \in {"done", "failed"} \/ Mine(r)'
    PROVE  SerialInv'
<1>1. stage'[r] = s /\ \A o \in Run : o # r => stage'[o] = stage[o]
  BY Moved DEF BaseInv
<1>2. SlotsKept
  BY <1>1 DEF SlotsKept
<1>3. stage[r] \notin {"done", "failed"} /\ r \notin 1 .. old
  BY Quiet DEF Active
<1>4. ReportsKept
  BY <1>1, <1>3 DEF ReportsKept
<1>5. OneAtATime'
  BY OneKept DEF SerialInv
<1>6. /\ RowsAreRuns' /\ RowsAreOrdered' /\ \A i \in DOMAIN rows : SlotOf(i)' = SlotOf(i)
  BY <1>2, RowsKept DEF SerialInv
<1>7. LegacyRows'
  <2>1. \A x \in 1 .. old : stage'[x] = stage[x]
    <3>1. \A x \in 1 .. old : x \in Run
      BY CorpusAssumption DEF BaseInv, StageOK, Run
    <3> QED
      BY <1>1, <1>3, <3>1
  <2>2. \A n \in 2 .. old : <<FirstKey, n>> \notin raws'
    BY DEF SerialInv, LegacyRows
  <2> QED
    BY <1>4, <2>1, <2>2, LegacyKept DEF SerialInv
<1>8. SlotIsReserved'
  BY ReservedKept
<1>9. DirectoriesHaveRows'
  BY <1>6 DEF SerialInv, DirectoriesHaveRows
<1>10. ReportsAreTheirs'
  BY <1>4, TheirsKept DEF SerialInv, ReportsAreTheirs, Found
<1>11. JobIsCurrent'
  BY Quiet DEF JobIsCurrent
<1> QED
  BY <1>5, <1>6, <1>7, <1>8, <1>9, <1>10, <1>11 DEF SerialInv

(* A run that keeps its slot, its rows and its directory still has them.   *)
LEMMA MineKept ==
    ASSUME BaseInv, SerialInv, NEW r \in Run, Mine(r), slot' = slot,
           UNCHANGED <<rows, raws, examiner>>,
           stage'[r] \in {"stored", "recorded"} => stage'[r] = stage[r]
    PROVE  Mine(r)'
<1>1. \A i \in DOMAIN rows : SlotOf(i)' = SlotOf(i)
  BY DEF SlotOf
<1> QED
  BY <1>1 DEF Mine

LEMMA BeginSerial == ASSUME BaseInv, SerialInv, NEW r \in Run, Begin(r), ~ OVERLAP PROVE SerialInv'
<1>1. /\ stage[r] = "none" /\ job = NoJob /\ Goto(r, "analysed") /\ r \in old + 1 .. old + ADDED
      /\ \A o \in Run : ~ Active(o)
      /\ \A o \in 1 .. r - 1 : stage[o] # "none"
      /\ UNCHANGED <<old, rows, notes, raws, examiner, report, job>>
  BY DEF Begin, Alone, Active, csv, dirs, artifacts
<1>2. PICK key \in Clave : slot' = [slot EXCEPT ![r] = <<key, 0>>]
  BY DEF Begin
<1>3. stage'[r] = "analysed" /\ \A o \in Run : o # r => stage'[o] = stage[o] /\ slot'[o] = slot[o]
  BY <1>1, <1>2, Moved DEF BaseInv, Stages, SlotOK
<1>4. SlotsKept
  BY <1>1, <1>3 DEF SlotsKept, Recorded
<1>5. ReportsKept
  BY <1>1, <1>3 DEF ReportsKept
<1>6. OneAtATime'
  <2>1. \A x \in Run : stage'[x] # "none" => \A o \in 1 .. x - 1 : stage'[o] # "none"
    <3> SUFFICES ASSUME NEW x \in Run, stage'[x] # "none", NEW o \in 1 .. x - 1
                 PROVE  stage'[o] # "none"
      OBVIOUS
    <3>1. o \in Run
      BY CorpusAssumption DEF Run
    <3>2. stage[o] # "none"
      BY <1>1, <1>3 DEF SerialInv, OneAtATime
    <3> QED
      BY <1>3, <3>1, <3>2
  <2>2. \A o \in Run : Active(o)' => o = r
    BY <1>1, <1>3 DEF Active
  <2>3. ASSUME NEW o \in Run, o > r PROVE stage'[o] = "none"
    <3>1. r \in 1 .. o - 1 /\ o # r
      BY <2>3, RunIsFinite
    <3>2. stage[o] = "none"
      BY <1>1, <3>1 DEF SerialInv, OneAtATime
    <3> QED
      BY <1>3, <3>1, <3>2
  <2> QED
    BY <1>1, <2>1, <2>2, <2>3 DEF OneAtATime
<1>7. /\ RowsAreRuns' /\ RowsAreOrdered' /\ \A i \in DOMAIN rows : SlotOf(i)' = SlotOf(i)
  BY <1>1, <1>4, RowsKept DEF SerialInv
<1>8. LegacyRows'
  <2>1. \A x \in 1 .. old : x \in Run /\ x # r
    BY <1>1, CorpusAssumption DEF BaseInv, StageOK, Run
  <2>2. \A n \in 2 .. old : <<FirstKey, n>> \notin raws'
    BY <1>1 DEF SerialInv, LegacyRows
  <2> QED
    BY <1>3, <1>5, <2>1, <2>2, LegacyKept DEF SerialInv
<1>9. SlotIsReserved'
  BY <1>1, <1>3 DEF SlotIsReserved, Active
<1>10. DirectoriesHaveRows'
  BY <1>1, <1>7 DEF SerialInv, DirectoriesHaveRows
<1>11. ReportsAreTheirs'
  BY <1>1, <1>5, TheirsKept DEF SerialInv, ReportsAreTheirs, Found
<1>12. JobIsCurrent'
  BY <1>1 DEF JobIsCurrent
<1> QED
  BY <1>6, <1>7, <1>8, <1>9, <1>10, <1>11, <1>12 DEF SerialInv

LEMMA ReserveSerial == ASSUME BaseInv, SerialInv, NEW r \in Run, Reserve(r) PROVE SerialInv'
<1> DEFINE key == slot[r][1]
           n == reserve_session(key)
<1>1. /\ stage[r] = "analysed" /\ Goto(r, "reserved")
      /\ UNCHANGED <<old, rows, notes, raws, examiner, report, job>>
      /\ slot' = [slot EXCEPT ![r] = <<key, n>>]
  BY DEF Reserve, csv, dirs, artifacts
<1>2. /\ n \in Run /\ <<key, n>> \notin notes \cup raws
  BY <1>1, OrdinalIsFree
<1>3. key \in Clave
  BY <1>1 DEF BaseInv, SlotOK
<1> HIDE DEF n, key
<1>4. slot'[r] = <<key, n>> /\ \A o \in Run : o # r => slot'[o] = slot[o]
  BY <1>1 DEF BaseInv, SlotOK
<1>5. /\ Active(r) /\ "reserved" \in Stages /\ stage[r] \notin Recorded
      /\ stage'[r] = "reserved"
  BY <1>1, Moved DEF Active, Stages, Recorded, BaseInv
<1>6. \A i \in DOMAIN rows : /\ SlotOf(i) \in notes /\ SlotOf(i)' = SlotOf(i)
  <2>1. \A i \in DOMAIN rows : rows[i].run \in Run /\ rows[i].run # r
    BY <1>5, RowsAreTyped DEF SerialInv, RowsAreRuns
  <2> QED
    BY <1>1, <1>4, <2>1 DEF SerialInv, RowsAreRuns, SlotOf
<1>7. ASSUME NEW s \in notes, s[1] = key PROVE s[2] < n
  <2>1. s \in Slot /\ s = <<key, s[2]>> /\ s[2] \in Run /\ Below(s) \subseteq notes
    BY <1>7 DEF BaseInv, NotesOK, Slot, OrdinalsAreDense
  <2>2. s[2] # n
    BY <1>2, <2>1
  <2>3. n \in Nat \ {0} /\ s[2] \in Nat
    BY <1>2, <2>1, RunIsFinite
  <2>4. ~ (n < s[2])
    <3> SUFFICES ASSUME n < s[2] PROVE FALSE
      OBVIOUS
    <3>1. n \in 1 .. s[2] - 1
      BY <2>3
    <3>2. <<key, n>> \in Below(s)
      BY <1>7, <3>1 DEF Below
    <3> QED
      BY <1>2, <2>1, <3>2
  <2> QED
    BY <2>2, <2>3, <2>4
<1>8. Mine(r)'
  <2>1. examiner'[slot'[r]] = None
    BY <1>1, <1>2, <1>3, <1>4 DEF SerialInv, DirectoriesHaveRows, Slot
  <2>2. \A i \in DOMAIN rows : SlotOf(i)[1] = key => SlotOf(i)[2] < n
    BY <1>6, <1>7
  <2>3. \A i \in DOMAIN rows' : rows'[i].run # r /\ SlotOf(i)'[1] = slot'[r][1] => SlotOf(i)'[2] < slot'[r][2]
    BY <1>1, <1>4, <1>6, <2>2
  <2> QED
    BY <1>5, <2>1, <2>3 DEF Mine
<1> QED
  BY <1>1, <1>4, <1>5, <1>8, PlainStep

LEMMA WriteNoteSerial == ASSUME BaseInv, SerialInv, NEW r \in Run, write_note(r) PROVE SerialInv'
<1>1. /\ stage[r] = "reserved" /\ Goto(r, "noted") /\ notes \subseteq notes'
      /\ UNCHANGED <<old, rows, raws, examiner, slot, report, job>>
  BY DEF write_note, csv, artifacts
<1>2. /\ Active(r) /\ "noted" \in Stages /\ stage[r] \notin Recorded /\ stage'[r] = "noted"
  BY <1>1, Moved DEF Active, Stages, Recorded, BaseInv
<1>3. Mine(r)
  BY <1>1, <1>2 DEF SerialInv, SlotIsReserved
<1> QED
  BY <1>1, <1>2, <1>3, MineKept, PlainStep

LEMMA WidenSerial == ASSUME BaseInv, SerialInv, NEW r \in Run, Widen(r) PROVE SerialInv'
<1>1. /\ stage[r] = "noted" /\ Goto(r, "widening")
      /\ UNCHANGED <<old, rows, notes, raws, examiner, slot, report, job>>
  BY DEF Widen, dirs, artifacts
<1>2. /\ Active(r) /\ "widening" \in Stages /\ stage[r] \notin Recorded /\ stage'[r] = "widening"
  BY <1>1, Moved DEF Active, Stages, Recorded, BaseInv
<1>3. Mine(r)
  BY <1>1, <1>2 DEF SerialInv, SlotIsReserved
<1> QED
  BY <1>1, <1>2, <1>3, MineKept, PlainStep

LEMMA ReplaceSerial == ASSUME BaseInv, SerialInv, NEW r \in Run, Replace(r) PROVE SerialInv'
<1>1. /\ stage[r] = "widening" /\ Goto(r, "widened") /\ rows' = rows
      /\ UNCHANGED <<old, notes, raws, examiner, slot, report, job>>
  BY DEF Replace, dirs, artifacts, BaseInv, WideningIsExact
<1>2. /\ Active(r) /\ "widened" \in Stages /\ stage[r] \notin Recorded /\ stage'[r] = "widened"
  BY <1>1, Moved DEF Active, Stages, Recorded, BaseInv
<1>3. Mine(r)
  BY <1>1, <1>2 DEF SerialInv, SlotIsReserved
<1> QED
  BY <1>1, <1>2, <1>3, MineKept, PlainStep

LEMMA AppendSerial ==
    ASSUME BaseInv, SerialInv, NEW r \in Run, append_stats_row(r), ~ TORN
    PROVE  SerialInv'
<1>0. PICK n \in Nat : n = Len(rows)
  BY RowsAreTyped
<1>1. /\ stage[r] \in {"noted", "widened"} /\ Goto(r, "recorded")
      /\ UNCHANGED <<old, notes, raws, examiner, slot, job>>
  BY DEF append_stats_row, dirs, artifacts
<1>2. PICK found \in Report \cup {NotExamined} :
         /\ report' = [report EXCEPT ![r] = found]
         /\ rows' = Append(rows, Row(r, slot[r][1], VOCAB_VERSION, found))
         /\ Row(r, slot[r][1], VOCAB_VERSION, found) \in RowSet
  BY RowIsAdded DEF BaseInv, WideningIsExact
<1>3. /\ n \in Nat /\ DOMAIN rows = 1 .. n
      /\ DOMAIN rows' = 1 .. n + 1
      /\ \A i \in 1 .. n : rows'[i] = rows[i]
      /\ rows'[n + 1] = Row(r, slot[r][1], VOCAB_VERSION, found)
  BY <1>0, <1>2, AppendProperties, LenProperties, RowsAreTyped DEF BaseInv, RowsOK
<1>4. rows'[n + 1].run = r
      /\ <<rows'[n + 1].fecha, rows'[n + 1].ejercicio>> = slot[r][1]
  <2>1. slot[r][1] \in Clave
    BY <1>1 DEF BaseInv, SlotOK, Slot, Placed, Stages
  <2> QED
    BY <1>3, <2>1 DEF Row, Clave
<1>5. /\ Active(r) /\ "recorded" \in Stages /\ stage[r] \notin Recorded /\ stage'[r] = "recorded"
      /\ stage[r] \in Noted /\ stage[r] # "analysed"
      /\ \A o \in Run : o # r => stage'[o] = stage[o]
  BY <1>1, Moved DEF Active, Stages, Recorded, Noted, BaseInv
<1>6. Mine(r)
  BY <1>5 DEF SerialInv, SlotIsReserved
<1>7. \A i \in 1 .. n : /\ rows[i].run \in Run /\ rows[i].run # r
                        /\ stage[rows[i].run] \in Recorded /\ stage'[rows[i].run] = stage[rows[i].run]
                        /\ SlotOf(i)' = SlotOf(i)
  <2>1. \A i \in 1 .. n : rows[i].run \in Run /\ stage[rows[i].run] \in Recorded
    BY <1>3, RowsAreTyped DEF SerialInv, RowsAreRuns
  <2>2. \A i \in 1 .. n : rows[i].run # r
    BY <1>5, <2>1
  <2> QED
    BY <1>1, <1>3, <1>5, <2>1, <2>2 DEF SlotOf
<1>8. SlotOf(n + 1)' = slot[r]
  BY <1>1, <1>4 DEF SlotOf
<1>9. slot[r] \in notes /\ slot[r] \in Slot
  BY <1>5 DEF BaseInv, NotesOK
<1>10. RowsAreRuns'
  <2>1. \A i \in 1 .. n :
           /\ stage'[rows'[i].run] \in Recorded /\ SlotOf(i)' \in notes'
           /\ SlotOf(i)'[1] = <<rows'[i].fecha, rows'[i].ejercicio>>
           /\ rows'[i].run <= old' => rows'[i].vocab_version = 0
    BY <1>1, <1>3, <1>7 DEF SerialInv, RowsAreRuns
  <2>2. ~ (r <= old)
    BY <1>5, Quiet, RunIsFinite DEF BaseInv, StageOK
  <2>3. LET i == n + 1
        IN  /\ stage'[rows'[i].run] \in Recorded /\ SlotOf(i)' \in notes'
            /\ SlotOf(i)'[1] = <<rows'[i].fecha, rows'[i].ejercicio>>
            /\ rows'[i].run <= old' => rows'[i].vocab_version = 0
    BY <1>1, <1>4, <1>5, <1>8, <1>9, <2>2 DEF Recorded
  <2>4. \A i \in DOMAIN rows' : i \in 1 .. n \/ i = n + 1
    BY <1>3
  <2> QED
    BY <2>1, <2>3, <2>4 DEF RowsAreRuns
<1>11. RowsAreOrdered'
  <2>1. \A i \in 1 .. n : rows'[i].run < r
    <3>1. \A i \in 1 .. n : rows[i].run <= r /\ rows[i].run # r
      BY <1>3, <1>5, <1>7, Quiet
    <3>2. \A x, y \in Run : x <= y /\ x # y => x < y
      BY RunIsFinite
    <3> QED
      BY <1>3, <1>7, <3>1, <3>2
  <2>2. \A i \in 1 .. n : SlotOf(i)'[1] = slot[r][1] => SlotOf(i)'[2] < slot[r][2]
    BY <1>3, <1>6, <1>7 DEF Mine
  <2>3. \A i, j \in 1 .. n : i < j =>
           /\ rows'[i].run < rows'[j].run
           /\ SlotOf(i)'[1] = SlotOf(j)'[1] => SlotOf(i)'[2] < SlotOf(j)'[2]
    BY <1>3, <1>7 DEF SerialInv, RowsAreOrdered
  <2>4. \A i, j \in DOMAIN rows' : i < j => i \in 1 .. n /\ (j \in 1 .. n \/ j = n + 1)
    BY <1>3
  <2>5. \A i, j \in DOMAIN rows' : i < j =>
           /\ rows'[i].run < rows'[j].run
           /\ SlotOf(i)'[1] = SlotOf(j)'[1] => SlotOf(i)'[2] < SlotOf(j)'[2]
    BY <1>4, <1>8, <2>1, <2>2, <2>3, <2>4
  <2> QED
    BY <2>5 DEF RowsAreOrdered
<1>12. ReportsKept
  <2>1. \A o \in Run : stage[o] \in {"done", "failed"} => o # r
    BY <1>1
  <2>2. \A o \in Run : o # r => report'[o] = report[o]
    BY <1>2 DEF BaseInv, StageOK
  <2>3. \A i \in DOMAIN rows : i \in DOMAIN rows' /\ rows'[i] = rows[i]
    BY <1>3
  <2> QED
    BY <1>1, <1>5, <2>1, <2>2, <2>3 DEF ReportsKept
<1>13. OneAtATime'
  BY <1>1, <1>5, OneKept DEF SerialInv
<1>14. LegacyRows'
  <2>1. \A x \in 1 .. old : x \in Run /\ x # r
    BY <1>5, Quiet, CorpusAssumption DEF BaseInv, StageOK, Run
  <2>2. \A x \in 1 .. old : stage'[x] = stage[x]
    BY <1>5, <2>1
  <2>3. \A k \in 2 .. old : <<FirstKey, k>> \notin raws'
    BY <1>1 DEF SerialInv, LegacyRows
  <2> QED
    BY <1>12, <2>2, <2>3, LegacyKept DEF SerialInv
<1>15. SlotIsReserved'
  <2>1. \A i \in DOMAIN rows' : i \in 1 .. n \/ i = n + 1
    BY <1>3
  <2>2. \A i \in DOMAIN rows' : rows'[i].run # r /\ SlotOf(i)'[1] = slot'[r][1] => SlotOf(i)'[2] < slot'[r][2]
    BY <1>1, <1>3, <1>4, <1>6, <1>7, <2>1 DEF Mine
  <2>3. n + 1 \in DOMAIN rows'
    BY <1>3
  <2>4. Mine(r)'
    BY <1>1, <1>4, <1>5, <1>6, <2>2, <2>3 DEF Mine
  <2> QED
    BY <1>1, <1>5, <2>4, ReservedKept
<1>16. DirectoriesHaveRows'
  BY <1>1, <1>3, <1>7 DEF SerialInv, DirectoriesHaveRows
<1>17. ReportsAreTheirs'
  BY <1>1, <1>12, TheirsKept DEF SerialInv, ReportsAreTheirs, Found
<1>18. JobIsCurrent'
  BY <1>1, <1>5, Quiet DEF JobIsCurrent
<1> QED
  BY <1>10, <1>11, <1>13, <1>14, <1>15, <1>16, <1>17, <1>18 DEF SerialInv

LEMMA RawDirSerial == ASSUME BaseInv, SerialInv, NEW r \in Run, make_raw_dir(r) PROVE SerialInv'
<1>1. /\ stage[r] = "recorded" /\ Goto(r, "stored") /\ raws' = raws \cup {slot[r]}
      /\ UNCHANGED <<old, rows, notes, examiner, slot, report, job>>
  BY DEF make_raw_dir, csv, artifacts
<1>2. /\ Active(r) /\ "stored" \in Stages /\ stage'[r] = "stored"
      /\ stage[r] # "analysed"
      /\ \A o \in Run : o # r => stage'[o] = stage[o]
  BY <1>1, Moved DEF Active, Stages, BaseInv
<1>3. Mine(r)
  BY <1>2 DEF SerialInv, SlotIsReserved
<1>4. SlotsKept /\ ReportsKept
  BY <1>1, <1>2 DEF SlotsKept, ReportsKept, Recorded
<1>5. OneAtATime'
  BY <1>1, <1>2, OneKept DEF SerialInv
<1>6. /\ RowsAreRuns' /\ RowsAreOrdered' /\ \A i \in DOMAIN rows : SlotOf(i)' = SlotOf(i)
  BY <1>1, <1>4, RowsKept DEF SerialInv
<1>7. LegacyRows'
  <2>1. \A x \in 1 .. old : x \in Run /\ x # r
    BY <1>2, Quiet, CorpusAssumption DEF BaseInv, StageOK, Run
  <2>2. \A x \in 1 .. old : stage'[x] = stage[x]
    BY <1>2, <2>1
  <2>3. ASSUME NEW k \in 2 .. old PROVE slot[r] # <<FirstKey, k>>
    <3>1. k \in 1 .. old /\ k \in Nat
      BY CorpusAssumption DEF BaseInv, StageOK
    <3>2. k \in DOMAIN rows /\ rows[k].run = k /\ slot[k] = <<FirstKey, k>> /\ k # r
      BY <2>1, <3>1 DEF SerialInv, LegacyRows
    <3>3. slot[r][1] = FirstKey => k < slot[r][2]
      BY <1>3, <3>2 DEF Mine, SlotOf
    <3> QED
      BY <3>1, <3>3
  <2>4. \A k \in 2 .. old : <<FirstKey, k>> \notin raws'
    BY <1>1, <2>3 DEF SerialInv, LegacyRows
  <2> QED
    BY <1>4, <2>2, <2>4, LegacyKept DEF SerialInv
<1>8. SlotIsReserved'
  <2>1. Mine(r)'
    BY <1>1, <1>2, <1>3, <1>6 DEF Mine
  <2> QED
    BY <1>1, <1>2, <2>1, ReservedKept
<1>9. DirectoriesHaveRows'
  <2>1. PICK i \in DOMAIN rows : rows[i].run = r
    BY <1>1, <1>3 DEF Mine
  <2>2. SlotOf(i) = slot[r]
    BY <2>1 DEF SlotOf
  <2> QED
    BY <1>1, <1>6, <2>2 DEF SerialInv, DirectoriesHaveRows
<1>10. ReportsAreTheirs'
  BY <1>1, <1>4, TheirsKept DEF SerialInv, ReportsAreTheirs, Found
<1>11. JobIsCurrent'
  BY <1>1, <1>2, Quiet DEF JobIsCurrent
<1> QED
  BY <1>5, <1>6, <1>7, <1>8, <1>9, <1>10, <1>11 DEF SerialInv

(* The last step of a run, which may leave a report, or a part of one, in  *)
(* its directory.                                                          *)
LEMMA LastStep ==
    ASSUME BaseInv, SerialInv, NEW r \in Run, NEW s \in {"done", "failed"}, Goto(r, s), Active(r),
           stage[r] \in Placed, notes \subseteq notes',
           UNCHANGED <<old, rows, raws, slot, report, job>>,
           \A x \in Slot : x # slot[r] => examiner'[x] = examiner[x],
           \/ examiner'[slot[r]] \in {examiner[slot[r]], None}
           \/ stage[r] = "stored" /\ examiner'[slot[r]] = Broken
           \/ /\ stage[r] = "stored" /\ report[r] # NotExamined
              /\ examiner'[slot[r]] = [run |-> r, patrones |-> report[r].patrones,
                                       truncado |-> report[r].truncado, ids |-> "native"]
    PROVE  SerialInv'
<1>1. /\ stage'[r] = s /\ s \in Stages /\ s \in Recorded /\ s # "none"
      /\ \A o \in Run : o # r => stage'[o] = stage[o]
  BY Moved DEF Stages, Recorded, BaseInv
<1>2. Mine(r) /\ slot[r] \in Slot
  BY DEF SerialInv, SlotIsReserved, Placed, BaseInv, SlotOK
<1>3. SlotsKept /\ ReportsKept
  BY <1>1 DEF SlotsKept, ReportsKept, Active
<1>4. OneAtATime'
  BY <1>1, OneKept DEF SerialInv
<1>5. /\ RowsAreRuns' /\ RowsAreOrdered' /\ \A i \in DOMAIN rows : SlotOf(i)' = SlotOf(i)
  BY <1>3, RowsKept DEF SerialInv
<1>6. LegacyRows'
  <2>1. \A x \in 1 .. old : x \in Run /\ x # r
    BY Quiet, CorpusAssumption DEF BaseInv, StageOK, Run
  <2>2. \A x \in 1 .. old : stage'[x] = stage[x]
    BY <1>1, <2>1
  <2>3. \A k \in 2 .. old : <<FirstKey, k>> \notin raws'
    BY DEF SerialInv, LegacyRows
  <2> QED
    BY <1>3, <2>2, <2>3, LegacyKept DEF SerialInv
<1>7. SlotIsReserved'
  BY <1>1, ReservedKept
<1>8. examiner[slot[r]] = None
  BY <1>2 DEF Mine
<1>9. DirectoriesHaveRows'
  <2>1. stage[r] = "stored" => slot[r] \in raws
    BY <1>2 DEF Mine
  <2>2. \A x \in Slot : examiner'[x] # None => x \in raws
    BY <1>8, <2>1 DEF SerialInv, DirectoriesHaveRows
  <2> QED
    BY <1>5, <2>2 DEF SerialInv, DirectoriesHaveRows
<1>10. ReportsAreTheirs'
  <2>1. ASSUME NEW x \in Slot, Found(x)', x # slot[r] PROVE Theirs(examiner[x], x)'
    <3>1. examiner'[x] = examiner[x] /\ Found(x)
      BY <2>1 DEF Found
    <3> QED
      BY <1>3, <3>1, TheirsKept DEF SerialInv, ReportsAreTheirs
  <2>2. ASSUME Found(slot[r])' PROVE Theirs(examiner[slot[r]], slot[r])'
    <3>1. /\ stage[r] = "stored" /\ report[r] # NotExamined
          /\ examiner'[slot[r]] = [run |-> r, patrones |-> report[r].patrones,
                                   truncado |-> report[r].truncado, ids |-> "native"]
      BY <1>8, <2>2 DEF Found
    <3>2. \E i \in DOMAIN rows : rows[i].run = r
      BY <1>2, <3>1 DEF Mine
    <3> QED
      BY <1>1, <3>1, <3>2 DEF Theirs
  <2> QED
    BY <2>1, <2>2 DEF ReportsAreTheirs
<1>11. JobIsCurrent'
  BY Quiet DEF JobIsCurrent
<1> QED
  BY <1>4, <1>5, <1>6, <1>7, <1>9, <1>10, <1>11 DEF SerialInv

LEMMA StoreSerial ==
    ASSUME BaseInv, DOMAIN examiner = Slot, SerialInv, NEW r \in Run, Store(r)
    PROVE  SerialInv'
<1>1. /\ stage[r] = "stored" /\ Goto(r, "done")
      /\ UNCHANGED <<old, rows, notes, raws, slot, report, job>>
  BY DEF Store, csv, dirs
<1>2. Active(r) /\ stage[r] \in Placed /\ slot[r] \in Slot
  BY <1>1 DEF Active, Placed, Stages, BaseInv, SlotOK
<1>3. \A x \in Slot : x # slot[r] => examiner'[x] = examiner[x]
  BY DEF Store
<1>4. \/ examiner'[slot[r]] = examiner[slot[r]]
      \/ /\ report[r] # NotExamined
         /\ examiner'[slot[r]] = [run |-> r, patrones |-> report[r].patrones,
                                  truncado |-> report[r].truncado, ids |-> "native"]
  BY <1>2 DEF Store
<1> QED
  BY <1>1, <1>2, <1>3, <1>4, LastStep

LEMMA FailSerial ==
    ASSUME BaseInv, DOMAIN examiner = Slot, SerialInv, NEW r \in Run, Fail(r)
    PROVE  SerialInv'
<1>1. /\ stage[r] \in Placed /\ stage[r] \notin {"done", "failed"} /\ Goto(r, "failed")
      /\ UNCHANGED <<old, rows, raws, slot, report, job>> /\ notes \subseteq notes'
  BY DEF Fail, csv, dirs, Placed, Stages
<1>2. Active(r) /\ slot[r] \in Slot
  BY <1>1 DEF Active, Placed, BaseInv, SlotOK
<1>3. \/ examiner' = examiner
      \/ stage[r] = "stored" /\ examiner' = [examiner EXCEPT ![slot[r]] = Broken]
  BY DEF Fail, artifacts
<1>4. /\ \A x \in Slot : x # slot[r] => examiner'[x] = examiner[x]
      /\ \/ examiner'[slot[r]] = examiner[slot[r]]
         \/ stage[r] = "stored" /\ examiner'[slot[r]] = Broken
  BY <1>2, <1>3
<1> QED
  BY <1>1, <1>2, <1>4, LastStep

(* A backfill is alone, and changes one report at most.                    *)
LEMMA BackfillSerial ==
    ASSUME BaseInv, DOMAIN examiner = Slot, SerialInv, Backfill, ~ OVERLAP
    PROVE  SerialInv'
<1>1. UNCHANGED <<old, rows, notes, raws, stage, slot, report>>
  BY DEF Backfill, Assign, WriteSidecar, WriteIds, BackfillFails, csv, dirs, run
<1>2. \A r \in Run : ~ Active(r)
  <2>1. CASE job = NoJob
    BY <2>1 DEF Backfill, Assign, WriteSidecar, WriteIds, BackfillFails, Alone, Active, NoJob
  <2>2. CASE job # NoJob
    BY <2>2 DEF SerialInv, OneAtATime
  <2> QED
    BY <2>1, <2>2
<1>3. OneAtATime' /\ SlotIsReserved'
  BY <1>1, <1>2 DEF OneAtATime, SlotIsReserved, SerialInv, Active
<1>4. SlotsKept /\ ReportsKept
  BY <1>1 DEF SlotsKept, ReportsKept
<1>5. /\ RowsAreRuns' /\ RowsAreOrdered' /\ \A i \in DOMAIN rows : SlotOf(i)' = SlotOf(i)
  BY <1>1, <1>4, RowsKept DEF SerialInv
<1>6. LegacyRows'
  BY <1>1, <1>4, LegacyKept DEF SerialInv, LegacyRows
<1>7. ASSUME examiner' = examiner PROVE DirectoriesHaveRows' /\ ReportsAreTheirs'
  <2>1. DirectoriesHaveRows'
    BY <1>1, <1>5, <1>7 DEF SerialInv, DirectoriesHaveRows
  <2>2. ReportsAreTheirs'
    BY <1>4, <1>7, TheirsKept DEF SerialInv, ReportsAreTheirs, Found
  <2> QED
    BY <2>1, <2>2
<1>8. CASE Assign
  <2>1. examiner' = examiner
    BY <1>8 DEF Assign, artifacts
  <2>2. PICK s \in Slot, ids \in SUBSET Pattern :
          /\ examiner[s] \notin {None, Broken} /\ needs_backfill(examiner[s])
          /\ job' = [stage |-> "assigned", slot |-> s,
                     payload |-> [examiner[s] EXCEPT !.patrones = ids, !.ids = "backfilled"]]
    BY <1>8 DEF Assign
  <2> DEFINE payload == [examiner[s] EXCEPT !.patrones = ids, !.ids = "backfilled"]
  <2>3. DOMAIN examiner[s] = {"run", "patrones", "truncado", "ids"} /\ examiner[s].ids = "none"
    BY <2>2 DEF SerialInv, ReportsAreTheirs, Theirs, Found, needs_backfill
  <2>4. /\ DOMAIN payload = DOMAIN examiner[s] /\ payload.run = examiner[s].run
        /\ payload.truncado = examiner[s].truncado /\ payload.ids = "backfilled"
    BY <2>3
  <2>5. job'.slot = s /\ job'.payload = payload
    BY <2>2
  <2> HIDE DEF payload
  <2>6. JobIsCurrent'
    BY <2>1, <2>2, <2>3, <2>4, <2>5 DEF JobIsCurrent, Found
  <2> QED
    BY <1>3, <1>5, <1>6, <1>7, <2>1, <2>6 DEF SerialInv
<1>9. CASE WriteSidecar
  <2>1. /\ examiner' = examiner /\ job # NoJob
        /\ job' = [job EXCEPT !.stage = "marked"]
    BY <1>9 DEF WriteSidecar, NoJob
  <2>2. job'.slot = job.slot /\ job'.payload = job.payload
    BY <2>1
  <2>3. JobIsCurrent'
    BY <2>1, <2>2 DEF SerialInv, JobIsCurrent, Found
  <2> QED
    BY <1>3, <1>5, <1>6, <1>7, <2>1, <2>3 DEF SerialInv
<1>10. CASE BackfillFails
  <2>1. examiner' = examiner /\ job' = NoJob
    BY <1>10 DEF BackfillFails, artifacts
  <2>2. JobIsCurrent'
    BY <2>1 DEF JobIsCurrent, NoJob
  <2> QED
    BY <1>3, <1>5, <1>6, <1>7, <2>1, <2>2 DEF SerialInv
<1>11. CASE WriteIds
  <2>1. /\ job # NoJob /\ job' = NoJob /\ examiner' = [examiner EXCEPT ![job.slot] = job.payload]
    BY <1>11 DEF WriteIds, NoJob
  <2>2. /\ job.slot \in Slot /\ Found(job.slot) /\ examiner[job.slot].ids = "none"
        /\ job.payload.run = examiner[job.slot].run
        /\ DOMAIN job.payload = DOMAIN examiner[job.slot]
        /\ job.payload.truncado = examiner[job.slot].truncado
        /\ job.payload.ids = "backfilled"
    BY <2>1 DEF SerialInv, JobIsCurrent
  <2>3. /\ \A x \in Slot : x # job.slot => examiner'[x] = examiner[x]
        /\ examiner'[job.slot] = job.payload
    BY <2>1, <2>2
  <2>4. DirectoriesHaveRows'
    <3>1. \A x \in Slot : examiner'[x] # None => x \in raws
      BY <2>2, <2>3 DEF SerialInv, DirectoriesHaveRows, Found
    <3> QED
      BY <1>1, <1>5, <3>1 DEF SerialInv, DirectoriesHaveRows
  <2>5. ReportsAreTheirs'
    <3>1. ASSUME NEW x \in Slot, Found(x)', x # job.slot PROVE Theirs(examiner[x], x)'
      <4>1. examiner'[x] = examiner[x] /\ Found(x)
        BY <2>3, <3>1 DEF Found
      <4> QED
        BY <1>4, <4>1, TheirsKept DEF SerialInv, ReportsAreTheirs
    <3>2. Theirs(examiner[job.slot], job.slot)
      BY <2>2 DEF SerialInv, ReportsAreTheirs
    <3>3. PICK payload : payload = job.payload
      OBVIOUS
    <3>4. PICK s : s = job.slot
      OBVIOUS
    <3>5. Theirs(payload, s)
      BY <2>2, <3>2, <3>3, <3>4 DEF Theirs
    <3>6. Theirs(payload, s)'
      BY <1>4, <3>5, TheirsKept
    <3>7. \A x \in Slot : x = s => examiner'[x] = payload
      BY <2>3, <3>3, <3>4
    <3>8. \A x \in Slot : Found(x)' => Theirs(examiner[x], x)'
      BY <3>1, <3>4, <3>6, <3>7
    <3> QED
      BY <3>8 DEF ReportsAreTheirs
  <2>6. JobIsCurrent'
    BY <2>1 DEF JobIsCurrent
  <2> QED
    BY <1>3, <1>5, <1>6, <2>4, <2>5, <2>6 DEF SerialInv
<1> QED
  BY <1>8, <1>9, <1>10, <1>11 DEF Backfill

LEMMA StepSerial ==
    ASSUME ~ OVERLAP, ~ TORN
    PROVE  IInv /\ BaseInv /\ SerialInv /\ [Next]_vars => SerialInv'
<1> SUFFICES ASSUME IInv, BaseInv, SerialInv, [Next]_vars PROVE SerialInv'
  OBVIOUS
<1>1. DOMAIN examiner = Slot
  BY DEF IInv
<1>2. ASSUME UNCHANGED vars PROVE SerialInv'
  <2>1. UNCHANGED <<old, header, rows, tmp, notes, raws, examiner, sidecar, stage, slot, report, job>>
    BY <1>2 DEF vars, csv, dirs, artifacts, run
  <2>2. /\ OneAtATime' /\ JobIsCurrent' /\ SlotIsReserved'
    BY <2>1 DEF SerialInv, OneAtATime, JobIsCurrent, SlotIsReserved, Mine, Active, SlotOf, Found
  <2>3. RowsAreRuns' /\ RowsAreOrdered' /\ LegacyRows' /\ DirectoriesHaveRows'
    BY <2>1 DEF SerialInv, RowsAreRuns, RowsAreOrdered, LegacyRows, DirectoriesHaveRows, SlotOf
  <2>4. ReportsAreTheirs'
    BY <2>1, TheirsKept DEF ReportsKept, SerialInv, ReportsAreTheirs, Found
  <2> QED
    BY <2>2, <2>3, <2>4 DEF SerialInv
<1> QED
  BY <1>1, <1>2, BeginSerial, ReserveSerial, WriteNoteSerial, WidenSerial, ReplaceSerial,
     AppendSerial, RawDirSerial, StoreSerial, FailSerial, BackfillSerial DEF Next, Sesion

LEMMA SerialIsInvariant ==
    ASSUME ~ OVERLAP, ~ TORN PROVE Spec => [](IInv /\ BaseInv /\ SerialInv)
BY InitSerial, StepSerial, BaseIsInvariant, MarkerIsInvariant, PTL DEF Spec

(* What a step does to a report that is there.                             *)
ReportStays(s) ==
    Found(s) => /\ examiner'[s].run = examiner[s].run
                /\ examiner'[s] # examiner[s] => examiner[s].ids = "none"

(* No session writes over the report of another, and a backfill only adds  *)
(* ids to a report that had none.                                          *)
THEOREM StoredReportsStay == ASSUME ~ OVERLAP, ~ TORN PROVE Spec => ReportsStay
<1>1. ASSUME IInv, BaseInv, SerialInv, Next, NEW s \in Slot, Found(s)
      PROVE  ReportStays(s)
  <2>1. ASSUME NEW r \in Run, Store(r) \/ Fail(r) PROVE ReportStays(s)
    <3>1. stage[r] = "stored" \/ examiner' = examiner
      BY <2>1 DEF Store, Fail, artifacts
    <3>2. CASE stage[r] = "stored"
      <4>1. examiner[slot[r]] = None
        BY <1>1, <3>2 DEF SerialInv, SlotIsReserved, Active, Mine
      <4>2. s # slot[r]
        BY <1>1, <4>1 DEF Found
      <4>3. examiner'[s] = examiner[s]
        BY <1>1, <2>1, <4>2 DEF IInv, Store, Fail, artifacts
      <4> QED
        BY <4>3 DEF ReportStays
    <3> QED
      BY <3>1, <3>2 DEF ReportStays
  <2>2. CASE WriteIds
    <3>1. job # NoJob /\ examiner' = [examiner EXCEPT ![job.slot] = job.payload]
      BY <2>2 DEF WriteIds, NoJob
    <3>2. CASE s = job.slot
      <4>1. examiner'[s] = job.payload
        BY <1>1, <3>1, <3>2 DEF IInv
      <4>2. job.payload.run = examiner[s].run /\ examiner[s].ids = "none"
        BY <1>1, <3>1, <3>2 DEF SerialInv, JobIsCurrent
      <4> QED
        BY <4>1, <4>2 DEF ReportStays
    <3>3. CASE s # job.slot
      BY <1>1, <3>1, <3>3 DEF IInv, ReportStays
    <3> QED
      BY <3>2, <3>3
  <2>3. CASE examiner' = examiner
    BY <2>3 DEF ReportStays
  <2>4. \/ examiner' = examiner \/ WriteIds \/ \E r \in Run : Store(r) \/ Fail(r)
    BY <1>1 DEF Next, Sesion, Begin, Reserve, write_note, Widen, Replace, append_stats_row,
         make_raw_dir, Backfill, Assign, WriteSidecar, BackfillFails, artifacts
  <2> QED
    BY <2>1, <2>2, <2>3, <2>4
<1>2. IInv /\ BaseInv /\ SerialInv /\ [Next]_vars
      => [\A s \in Slot : examiner[s] \notin {None, Broken} =>
          /\ examiner'[s].run = examiner[s].run
          /\ examiner'[s] # examiner[s] => examiner[s].ids = "none"]_vars
  BY <1>1 DEF ReportStays, Found
<1> QED
  BY <1>2, SerialIsInvariant, PTL DEF Spec, ReportsStay

-----------------------------------------------------------------------------
(* What analiza progreso reads.                                            *)

LEMMA PairOf ==
    ASSUME NEW a, NEW b, a # b
    PROVE  Cardinality({a, b}) = 2 /\ IsFiniteSet({a, b})
<1>1. IsFiniteSet({a}) /\ Cardinality({a}) = 1 /\ b \notin {a}
  BY FS_Singleton
<1>2. IsFiniteSet({a} \cup {b}) /\ Cardinality({a} \cup {b}) = Cardinality({a}) + 1
  BY <1>1, FS_AddElement
<1>3. {a} \cup {b} = {a, b}
  OBVIOUS
<1> QED
  BY <1>1, <1>2, <1>3

(* Where the ordinals of a group are those from the first, each is the     *)
(* position of its row in the group.                                       *)
LEMMA OrdinalIsPosition ==
    ASSUME NEW G \in SUBSET Nat, IsFiniteSet(G), NEW ord \in [G -> Nat \ {0}],
           \A j, k \in G : j < k => ord[j] < ord[k],
           \A n \in 1 .. Cardinality(G) : \E k \in G : ord[k] = n,
           NEW i \in G
    PROVE  Cardinality({j \in G : j <= i}) = ord[i]
<1>1. Cardinality(G) \in Nat
  BY FS_CardinalityType
<1>2. PICK T \in Nat : T = Cardinality(G)
  BY <1>1
<1> DEFINE f == [n \in 1 .. T |-> CHOOSE k \in G : ord[k] = n]
<1>3. \A n \in 1 .. T : f[n] \in G /\ ord[f[n]] = n
  BY <1>2
<1>4. f \in [1 .. T -> G]
  BY <1>3
<1> HIDE DEF f
<1>5. f \in Injection(1 .. T, G)
  <2>1. \A m, n \in 1 .. T : f[m] = f[n] => m = n
    BY <1>3
  <2> QED
    BY <1>4, <2>1, Fun_IsInj
<1>6. Cardinality(1 .. T) = Cardinality(G)
  BY <1>2, FS_Interval
<1>7. f \in Surjection(1 .. T, G)
  BY <1>5, <1>6, FS_Injection
<1>8. \A j \in G : ord[j] \in 1 .. T /\ f[ord[j]] = j
  <2> SUFFICES ASSUME NEW j \in G PROVE ord[j] \in 1 .. T /\ f[ord[j]] = j
    OBVIOUS
  <2>1. PICK n \in 1 .. T : f[n] = j
    BY <1>7 DEF Surjection
  <2>2. ord[j] = n
    BY <1>3, <2>1
  <2> QED
    BY <2>1, <2>2
<1>9. PICK N \in Nat : N = ord[i]
  OBVIOUS
<1> DEFINE H == {j \in G : j <= i}
           g == [n \in 1 .. N |-> f[n]]
<1>10. \A n \in 1 .. N : n \in 1 .. T
  BY <1>8, <1>9
<1>11. \A n \in 1 .. N : f[n] \in H
  <2> SUFFICES ASSUME NEW n \in 1 .. N PROVE f[n] \in H
    OBVIOUS
  <2>1. f[n] \in G /\ ord[f[n]] = n
    BY <1>3, <1>10
  <2>2. n \in Nat /\ n <= N
    OBVIOUS
  <2>3. ~ (ord[i] < ord[f[n]])
    BY <1>9, <2>1, <2>2
  <2>4. ~ (i < f[n])
    BY <2>1, <2>3
  <2>5. f[n] \in Nat /\ i \in Nat
    BY <2>1
  <2> QED
    BY <2>1, <2>4, <2>5
<1>12. g \in [1 .. N -> H]
  BY <1>11
<1>13. \A m, n \in 1 .. N : g[m] = g[n] => m = n
  BY <1>3, <1>10
<1>14. \A j \in H : \E n \in 1 .. N : g[n] = j
  <2> SUFFICES ASSUME NEW j \in H PROVE ord[j] \in 1 .. N /\ g[ord[j]] = j
    OBVIOUS
  <2>1. j \in G /\ (j = i \/ j < i)
    OBVIOUS
  <2>2. ord[j] <= ord[i] /\ ord[j] \in Nat \ {0}
    BY <2>1
  <2>3. ord[j] \in 1 .. N
    BY <1>9, <2>2
  <2> QED
    BY <1>8, <2>1, <2>3
<1> HIDE DEF g, H
<1>15. g \in Bijection(1 .. N, H)
  BY <1>12, <1>13, <1>14, Fun_IsBij
<1>16. ExistsBijection(1 .. N, H)
  BY <1>15 DEF ExistsBijection
<1>17. Cardinality(H) = N
  BY <1>16, FS_CountingElements
<1> QED
  BY <1>9, <1>17 DEF H

(* The rows of a date and an exercise.                                     *)
LEMMA GroupIsOfItsKey ==
    ASSUME BaseInv, SerialInv, NEW i \in DOMAIN rows
    PROVE  /\ Group(rows, i) = {j \in DOMAIN rows : SlotOf(j)[1] = SlotOf(i)[1]}
           /\ Group(rows, i) \in SUBSET Nat /\ IsFiniteSet(Group(rows, i)) /\ i \in Group(rows, i)
           /\ <<rows[i].fecha, rows[i].ejercicio>> = SlotOf(i)[1]
           /\ \A j \in DOMAIN rows : SlotOf(j) = <<SlotOf(j)[1], SlotOf(j)[2]>> /\ SlotOf(j)[2] \in Run
                                     /\ SlotOf(j) \in Slot
<1>1. \A j \in DOMAIN rows : SlotOf(j)[1] = <<rows[j].fecha, rows[j].ejercicio>>
  BY DEF SerialInv, RowsAreRuns
<1>2. \A j \in DOMAIN rows : SlotOf(j) \in Slot
  BY DEF SerialInv, RowsAreRuns, BaseInv, NotesOK
<1>3. \A j \in DOMAIN rows : SlotOf(j) = <<SlotOf(j)[1], SlotOf(j)[2]>> /\ SlotOf(j)[2] \in Run
  BY <1>2 DEF Slot
<1>4. Group(rows, i) = {j \in DOMAIN rows : SlotOf(j)[1] = SlotOf(i)[1]}
  BY <1>1 DEF Group
<1>5. DOMAIN rows \subseteq Nat /\ IsFiniteSet(DOMAIN rows)
  BY RowsAreTyped, FS_Interval
<1>6. Group(rows, i) \in SUBSET (DOMAIN rows)
  BY DEF Group
<1>7. IsFiniteSet(Group(rows, i))
  BY <1>5, <1>6, FS_Subset
<1> QED
  BY <1>1, <1>2, <1>3, <1>4, <1>5, <1>6, <1>7

(* The directory a row is joined with holds that row's report.             *)
LEMMA JoinedWithItsOwn ==
    ASSUME BaseInv, SerialInv, NEW i \in DOMAIN rows, ~ ambigua(rows, i),
           NEW s \in raws, Found(s),
           s = <<<<rows[i].fecha, rows[i].ejercicio>>,
                 Cardinality({j \in Group(rows, i) : j <= i})>>
    PROVE  examiner[s].run = rows[i].run
<1> DEFINE G == Group(rows, i)
           key == <<rows[i].fecha, rows[i].ejercicio>>
<1>1. /\ G = {j \in DOMAIN rows : SlotOf(j)[1] = key}
      /\ G \in SUBSET Nat /\ IsFiniteSet(G) /\ i \in G
      /\ \A j \in DOMAIN rows : SlotOf(j) = <<SlotOf(j)[1], SlotOf(j)[2]>> /\ SlotOf(j)[2] \in Run
  BY GroupIsOfItsKey
<1>2. s \in Slot /\ Theirs(examiner[s], s)
  BY DEF BaseInv, NotesOK, SerialInv, ReportsAreTheirs
<1>3. PICK k \in DOMAIN rows : rows[k].run = examiner[s].run
  BY <1>2 DEF Theirs
<1>4. Cardinality(G) \in Nat
  BY <1>1, FS_CardinalityType
<1>5. Cardinality(G) > 1 => \A n \in 1 .. Cardinality(G) : <<key, n>> \in raws
  BY DEF ambigua
<1> HIDE DEF G, key
<1>6. slot[examiner[s].run] = s
  <2> SUFFICES ASSUME s = <<FirstKey, 1>>, old >= 2 PROVE FALSE
    BY <1>2 DEF Theirs
  <2>1. key = FirstKey
    BY DEF key
  <2>2. old \in Nat /\ 1 \in 1 .. old /\ 2 \in 1 .. old /\ 2 \in 2 .. old
    BY CorpusAssumption DEF BaseInv, StageOK
  <2>3. {1, 2} \subseteq G
    BY <1>1, <2>1, <2>2 DEF SerialInv, LegacyRows, SlotOf
  <2>4. Cardinality({1, 2}) = 2 /\ IsFiniteSet({1, 2})
    <3>1. 1 # 2
      OBVIOUS
    <3> QED
      BY <3>1, PairOf
  <2>5. Cardinality({1, 2}) <= Cardinality(G)
    BY <1>1, <2>3, FS_Subset
  <2>6. <<FirstKey, 2>> \in raws
    BY <1>4, <1>5, <2>1, <2>4, <2>5
  <2> QED
    BY <2>2, <2>6 DEF SerialInv, LegacyRows
<1>7. SlotOf(k) = s
  BY <1>3, <1>6 DEF SlotOf
<1>8. k \in G
  BY <1>1, <1>7 DEF key
<1>9. k = i
  <2>1. CASE Cardinality(G) > 1
    <3> DEFINE ord == [j \in G |-> SlotOf(j)[2]]
    <3>1. ord \in [G -> Nat \ {0}]
      BY <1>1, RunIsFinite
    <3>2. \A j, m \in G : j < m => ord[j] < ord[m]
      BY <1>1 DEF SerialInv, RowsAreOrdered
    <3>3. \A n \in 1 .. Cardinality(G) : \E m \in G : ord[m] = n
      <4> SUFFICES ASSUME NEW n \in 1 .. Cardinality(G) PROVE \E m \in G : ord[m] = n
        OBVIOUS
      <4>1. PICK m \in DOMAIN rows : SlotOf(m) = <<key, n>>
        BY <1>5, <2>1 DEF SerialInv, DirectoriesHaveRows
      <4> QED
        BY <1>1, <4>1
    <3>4. s[2] = SlotOf(k)[2] /\ s = <<key, Cardinality({j \in G : j <= i})>>
      BY <1>7 DEF key, G
    <3>5. ord[k] = SlotOf(k)[2]
      BY <1>8
    <3> HIDE DEF ord
    <3>6. Cardinality({j \in G : j <= i}) = ord[i]
      BY <1>1, <3>1, <3>2, <3>3, OrdinalIsPosition
    <3>7. ord[k] = ord[i] /\ k \in Nat /\ i \in Nat
      BY <1>1, <1>8, <3>4, <3>5, <3>6
    <3>8. ord[k] \in Nat /\ ord[i] \in Nat
      BY <1>1, <1>8, <3>1
    <3>9. ~ (k < i) /\ ~ (i < k)
      BY <1>1, <1>8, <3>2, <3>7, <3>8
    <3> QED
      BY <3>7, <3>9
  <2>2. CASE ~ (Cardinality(G) > 1)
    <3> SUFFICES ASSUME k # i PROVE FALSE
      OBVIOUS
    <3>1. {k, i} \subseteq G
      BY <1>1, <1>8
    <3>2. Cardinality({k, i}) = 2
      BY PairOf
    <3>3. Cardinality({k, i}) <= Cardinality(G)
      BY <1>1, <3>1, FS_Subset
    <3> QED
      BY <1>4, <2>2, <3>2, <3>3
  <2> QED
    BY <2>1, <2>2
<1> QED
  BY <1>3, <1>9

(* The session read for a row: the row's, and what its directory holds.    *)
Joins(session, row, s) ==
    /\ s \in raws /\ Found(s) /\ examiner[s].run = row.run
    /\ session.sin_id = IF needs_backfill(examiner[s]) THEN 1 ELSE 0
    /\ session.patrones = IF examiner[s].ids = "none" THEN {} ELSE examiner[s].patrones
    /\ session.artifactsOf = row.run
    /\ ~ session.truncado => ~ examiner[s].truncado
    /\ ~ session.backfilled => s \notin sidecar

LEMMA Joined ==
    ASSUME BaseInv, SerialInv, NEW i \in DOMAIN load_sesiones
    PROVE  LET x == load_sesiones[i]
           IN  /\ i \in DOMAIN rows /\ x.run = rows[i].run
               /\ x.vocab_version = rows[i].vocab_version
               /\ \/ x.patrones = NotExamined /\ x.artifactsOf = 0
                  \/ \E s \in Slot : Joins(x, rows[i], s)
<1> DEFINE s == <<<<rows[i].fecha, rows[i].ejercicio>>,
                  Cardinality({j \in Group(rows, i) : j <= i})>>
           raw == ~ ambigua(rows, i) /\ s \in raws
           examinado == raw /\ examiner[s] \notin {None, Broken}
<1>1. /\ i \in DOMAIN rows /\ load_sesiones[i] = Join(rows, i)
  BY DEF load_sesiones, read_stats_rows
<1>2. PICK x : x = load_sesiones[i]
  OBVIOUS
<1>3. /\ x.run = rows[i].run /\ x.vocab_version = rows[i].vocab_version
      /\ ~ examinado => x.patrones = NotExamined /\ x.artifactsOf = 0
      /\ examinado => /\ x.patrones = (IF examiner[s].ids = "none" THEN {} ELSE examiner[s].patrones)
                      /\ x.sin_id = (IF needs_backfill(examiner[s]) THEN 1 ELSE 0)
                      /\ x.artifactsOf = examiner[s].run
  BY <1>1, <1>2 DEF Join
<1>4. x.truncado = (examinado /\ examiner[s].truncado) /\ x.backfilled = (raw /\ s \in sidecar)
  BY <1>1, <1>2 DEF Join
<1>5. ASSUME examinado PROVE Joins(x, rows[i], s) /\ s \in Slot
  <2>1. ~ ambigua(rows, i) /\ s \in raws /\ Found(s)
    BY <1>5 DEF Found
  <2>2. examiner[s].run = rows[i].run
    BY <1>1, <2>1, JoinedWithItsOwn
  <2>3. /\ ~ x.truncado => ~ examiner[s].truncado
        /\ ~ x.backfilled => s \notin sidecar
    BY <1>4, <1>5
  <2> HIDE DEF s
  <2> QED
    BY <1>3, <1>5, <2>1, <2>2, <2>3 DEF Joins, BaseInv, NotesOK
<1> HIDE DEF examinado, s
<1>6. \/ x.patrones = NotExamined /\ x.artifactsOf = 0
      \/ \E y \in Slot : Joins(x, rows[i], y)
  BY <1>3, <1>5
<1> QED
  BY <1>1, <1>2, <1>3, <1>6

(* analiza progreso reads no session with the patterns of another,         *)
(* whatever failed before and however many sessions a day has.             *)
THEOREM PatternsAreOnesOwn == ASSUME ~ OVERLAP, ~ TORN PROVE Spec => []NobodyElsesPatterns
<1>1. BaseInv /\ SerialInv => NobodyElsesPatterns
  <2> SUFFICES ASSUME BaseInv, SerialInv, NEW i \in DOMAIN load_sesiones
               PROVE  load_sesiones[i].artifactsOf \in {0, load_sesiones[i].run}
    BY DEF NobodyElsesPatterns
  <2> QED
    BY Joined DEF Joins
<1> QED
  BY <1>1, SerialIsInvariant, PTL

(* What is read of the rows themselves, whether or not commands overlap.   *)
LEMMA SessionsAreTyped ==
    ASSUME BaseInv
    PROVE  /\ DOMAIN load_sesiones \subseteq Nat /\ IsFiniteSet(DOMAIN load_sesiones)
           /\ \A i \in DOMAIN load_sesiones :
                 /\ load_sesiones[i].fecha \in Nat /\ load_sesiones[i].ejercicio \in Nat
                 /\ load_sesiones[i].vocab_version \in {0, VOCAB_VERSION}
                 /\ load_sesiones[i].run \in Run
                 /\ load_sesiones[i].provenance = PROVENANCE[load_sesiones[i].run]
<1>1. DOMAIN load_sesiones \subseteq DOMAIN rows
      /\ \A i \in DOMAIN load_sesiones : load_sesiones[i] = Join(rows, i)
  BY DEF load_sesiones, read_stats_rows
<1>2. DOMAIN rows \subseteq Nat /\ IsFiniteSet(DOMAIN rows)
  BY RowsAreTyped, FS_Interval
<1>3. DOMAIN load_sesiones \subseteq Nat /\ IsFiniteSet(DOMAIN load_sesiones)
  BY <1>1, <1>2, FS_Subset
<1>4. ASSUME NEW i \in DOMAIN load_sesiones
      PROVE  /\ load_sesiones[i].fecha \in Nat /\ load_sesiones[i].ejercicio \in Nat
             /\ load_sesiones[i].vocab_version \in {0, VOCAB_VERSION}
             /\ load_sesiones[i].run \in Run
             /\ load_sesiones[i].provenance = PROVENANCE[load_sesiones[i].run]
  <2>1. /\ i \in DOMAIN rows /\ load_sesiones[i].run = rows[i].run
        /\ load_sesiones[i].fecha = rows[i].fecha /\ load_sesiones[i].ejercicio = rows[i].ejercicio
        /\ load_sesiones[i].vocab_version = rows[i].vocab_version
        /\ load_sesiones[i].provenance = rows[i].provenance
    <3>1. PICK x : x = load_sesiones[i]
      OBVIOUS
    <3>2. i \in DOMAIN rows /\ x = Join(rows, i)
      BY <1>1, <3>1
    <3>3. /\ x.run = rows[i].run /\ x.fecha = rows[i].fecha /\ x.ejercicio = rows[i].ejercicio
          /\ x.vocab_version = rows[i].vocab_version /\ x.provenance = rows[i].provenance
      BY <3>2 DEF Join
    <3> QED
      BY <3>1, <3>2, <3>3
  <2>2. /\ rows[i].fecha \in 1 .. DIAS /\ rows[i].ejercicio \in 1 .. EJERCICIOS
        /\ rows[i].vocab_version \in {0, VOCAB_VERSION} /\ rows[i].run \in Run
        /\ rows[i].provenance = PROVENANCE[rows[i].run]
    BY <2>1, RowsAreTyped DEF RowSet
  <2> QED
    BY <2>1, <2>2, CorpusAssumption
<1> QED
  BY <1>3, <1>4

(* A session whose silence counts could have named the pattern, was not    *)
(* cut off, and did not name it.                                           *)
LEMMA SilenceIsAnAnswer ==
    ASSUME IInv, BaseInv, SerialInv, NEW p \in Pattern, NEW i \in DOMAIN load_sesiones,
           absence_is_conclusive(load_sesiones[i], p), p \notin load_sesiones[i].patrones
    PROVE  LET found == report[load_sesiones[i].run]
           IN  /\ found # NotExamined /\ ~ found.truncado /\ p \notin found.patrones
               /\ SINCE[p] <= IF load_sesiones[i].run <= old THEN 1 ELSE VOCAB_VERSION
<1>1. PICK x : x = load_sesiones[i]
  OBVIOUS
<1>2. /\ x.patrones # NotExamined /\ ~ x.truncado /\ ~ x.backfilled /\ x.sin_id = 0
      /\ SINCE[p] <= IF x.vocab_version = 0 THEN 1 ELSE x.vocab_version
  BY <1>1 DEF absence_is_conclusive, examinada, ids_disponibles
<1>3. i \in DOMAIN rows /\ x.run = rows[i].run /\ \E y \in Slot : Joins(x, rows[i], y)
  BY <1>1, <1>2, Joined
<1>4. PICK s \in Slot : Joins(x, rows[i], s)
  BY <1>3
<1>5. /\ Found(s) /\ examiner[s].run = x.run /\ ~ examiner[s].truncado /\ s \notin sidecar
      /\ ~ needs_backfill(examiner[s])
      /\ x.patrones = IF examiner[s].ids = "none" THEN {} ELSE examiner[s].patrones
  BY <1>2, <1>3, <1>4 DEF Joins
<1>6. examiner[s].ids # "backfilled"
  BY <1>5 DEF IInv, BackfillIsMarked, Found
<1>7. Theirs(examiner[s], s)
  BY <1>5 DEF SerialInv, ReportsAreTheirs
<1>8. /\ report[x.run] # NotExamined /\ examiner[s].truncado = report[x.run].truncado
      /\ examiner[s].patrones = report[x.run].patrones
  BY <1>5, <1>6, <1>7 DEF Theirs
<1>9. x.patrones = report[x.run].patrones
  BY <1>5, <1>8 DEF needs_backfill
<1>10. SINCE[p] <= IF x.run <= old THEN 1 ELSE VOCAB_VERSION
  <2>1. x.vocab_version \in {0, VOCAB_VERSION} /\ (x.run <= old => x.vocab_version = 0)
    BY <1>1, SessionsAreTyped, Joined DEF SerialInv, RowsAreRuns
  <2>2. SINCE[p] \in Nat
    BY ProgresoAssumption
  <2> QED
    BY <1>2, <2>1, <2>2 DEF VOCAB_VERSION
<1>11. p \notin report[x.run].patrones
  BY <1>1, <1>9
<1>12. ~ report[x.run].truncado
  BY <1>5, <1>8
<1> QED
  BY <1>1, <1>8, <1>10, <1>11, <1>12

(* A pattern is called absent on the word of enough sessions that could    *)
(* have shown it and did not.                                              *)
THEOREM AbsenceIsKnown == ASSUME ~ OVERLAP, ~ TORN PROVE Spec => []AbsenceIsProved
<1>1. ASSUME IInv, BaseInv, SerialInv, NEW desde \in 0 .. DIAS, NEW hasta \in 0 .. DIAS,
             NEW e \in 0 .. EJERCICIOS,
             NEW p \in DOMAIN pattern_recurrence(load_sesiones,
                                                 select(load_sesiones, desde, hasta, e)),
             pattern_recurrence(load_sesiones, select(load_sesiones, desde, hasta, e))[p] = "ausente"
      PROVE  AUSENCIA_N <= Cardinality(
                  {i \in select(load_sesiones, desde, hasta, e) :
                      LET found == report[load_sesiones[i].run]
                      IN  /\ found # NotExamined /\ ~found.truncado
                          /\ p \notin found.patrones
                          /\ SINCE[p] <= IF load_sesiones[i].run <= old THEN 1
                                         ELSE VOCAB_VERSION})
  <2> DEFINE range == select(load_sesiones, desde, hasta, e)
             Silent == {i \in range :
                      LET found == report[load_sesiones[i].run]
                      IN  /\ found # NotExamined /\ ~found.truncado
                          /\ p \notin found.patrones
                          /\ SINCE[p] <= IF load_sesiones[i].run <= old THEN 1
                                         ELSE VOCAB_VERSION}
             Told == concluyentes(load_sesiones, range, p)
  <2>1. p \in Pattern /\ Estado(load_sesiones, range, p) = "ausente"
    BY <1>1 DEF pattern_recurrence
  <2>2. Cardinality(Told) >= AUSENCIA_N
    BY <2>1 DEF Estado
  <2>3. range \subseteq DOMAIN load_sesiones
    BY DEF select
  <2>4. Told \subseteq Silent
    <3> SUFFICES ASSUME NEW i \in Told PROVE i \in Silent
      OBVIOUS
    <3>1. /\ i \in range /\ examinada(load_sesiones[i])
          /\ \A h \in Hits(load_sesiones, range, p) : Before(load_sesiones, h, i)
          /\ absence_is_conclusive(load_sesiones[i], p)
      BY DEF concluyentes, posteriores
    <3>2. load_sesiones[i].fecha \in Nat /\ load_sesiones[i].ejercicio \in Nat /\ i \in Nat
      BY <1>1, <2>3, <3>1, SessionsAreTyped
    <3>3. ~ Before(load_sesiones, i, i)
      BY <3>2 DEF Before
    <3>4. p \notin load_sesiones[i].patrones
      BY <3>1, <3>3 DEF Hits
    <3> QED
      BY <1>1, <2>1, <2>3, <3>1, <3>4, SilenceIsAnAnswer
  <2>5. Silent \subseteq DOMAIN load_sesiones
    BY <2>3
  <2>6. IsFiniteSet(DOMAIN load_sesiones)
    BY <1>1, SessionsAreTyped
  <2> HIDE DEF Silent, Told
  <2>7. IsFiniteSet(Silent) /\ IsFiniteSet(Told) /\ Cardinality(Told) <= Cardinality(Silent)
    BY <2>4, <2>5, <2>6, FS_Subset
  <2>8. Cardinality(Silent) \in Nat /\ Cardinality(Told) \in Nat
    BY <2>7, FS_CardinalityType
  <2>9. AUSENCIA_N <= Cardinality(Silent)
    BY <2>2, <2>7, <2>8, ProgresoAssumption
  <2> QED
    BY <2>9 DEF Silent
<1>2. IInv /\ BaseInv /\ SerialInv => AbsenceIsProved
  BY <1>1 DEF AbsenceIsProved
<1> QED
  BY <1>2, SerialIsInvariant, PTL

(* The first n and the last n of twice as many sessions are different      *)
(* ones, and the first are not later.                                      *)
LEMMA WindowsAreApart ==
    ASSUME NEW corpus, NEW S \in SUBSET Nat, IsFiniteSet(S),
           \A k \in S : corpus[k].fecha \in Nat /\ corpus[k].ejercicio \in Nat,
           NEW n \in Nat, Cardinality(S) >= 2 * n,
           NEW i \in First(corpus, S, n), NEW j \in Last(corpus, S, n)
    PROVE  i # j /\ corpus[i].fecha <= corpus[j].fecha
<1> DEFINE B == {k \in S : Before(corpus, k, i)}
           A == {k \in S : Before(corpus, j, k)}
<1>1. i \in S /\ j \in S /\ Cardinality(B) < n /\ Cardinality(A) < n
  BY DEF First, Last
<1>2. Before(corpus, i, j)
  <2> SUFFICES ASSUME ~ Before(corpus, i, j) PROVE FALSE
    OBVIOUS
  <2>1. S \subseteq (B \cup {i}) \cup A
    <3> SUFFICES ASSUME NEW k \in S, k # i, ~ Before(corpus, k, i) PROVE Before(corpus, j, k)
      OBVIOUS
    <3>1. i \in Nat /\ j \in Nat /\ k \in Nat
      BY <1>1
    <3>2. /\ corpus[i].fecha \in Nat /\ corpus[i].ejercicio \in Nat
          /\ corpus[j].fecha \in Nat /\ corpus[j].ejercicio \in Nat
          /\ corpus[k].fecha \in Nat /\ corpus[k].ejercicio \in Nat
      BY <1>1
    <3> QED
      BY <3>1, <3>2 DEF Before
  <2>2. IsFiniteSet(B) /\ IsFiniteSet(A)
    BY FS_Subset
  <2> HIDE DEF A, B
  <2>3. IsFiniteSet(B \cup {i}) /\ Cardinality(B \cup {i}) <= Cardinality(B) + 1
    <3>1. Cardinality(B) \in Nat
      BY <2>2, FS_CardinalityType
    <3>2. /\ IsFiniteSet(B \cup {i})
          /\ Cardinality(B \cup {i}) = IF i \in B THEN Cardinality(B) ELSE Cardinality(B) + 1
      BY <2>2, FS_AddElement
    <3> QED
      BY <3>1, <3>2
  <2> DEFINE C == B \cup {i}
  <2> HIDE DEF C
  <2>4. IsFiniteSet(C) /\ Cardinality(C) <= Cardinality(B) + 1
    BY <2>3 DEF C
  <2>5. /\ IsFiniteSet(C \cup A)
        /\ Cardinality(C \cup A) = Cardinality(C) + Cardinality(A) - Cardinality(C \cap A)
    BY <2>2, <2>4, FS_Union
  <2>6. S \subseteq C \cup A
    BY <2>1 DEF C
  <2>7. Cardinality(S) <= Cardinality(C \cup A)
    BY <2>5, <2>6, FS_Subset
  <2>8. IsFiniteSet(C \cap A)
    <3>1. C \cap A \in SUBSET C
      OBVIOUS
    <3> QED
      BY <2>4, <3>1, FS_Subset
  <2>9. /\ Cardinality(S) \in Nat /\ Cardinality(A) \in Nat /\ Cardinality(B) \in Nat
        /\ Cardinality(C) \in Nat /\ Cardinality(C \cap A) \in Nat
    BY <2>2, <2>4, <2>8, FS_CardinalityType
  <2> QED
    BY <1>1, <2>4, <2>5, <2>7, <2>9
<1>3. /\ corpus[i].fecha \in Nat /\ corpus[i].ejercicio \in Nat /\ i \in Nat
      /\ corpus[j].fecha \in Nat
  BY <1>1
<1> QED
  BY <1>2, <1>3 DEF Before

(* The two windows of a trend have no session in common, are of one        *)
(* provenance, and the first is not later than the second.                 *)
THEOREM TrendsAreFair == Spec => []TrendsCompareLikeWithLike
<1>1. ASSUME BaseInv, NEW e \in 0 .. EJERCICIOS,
             NEW s \in progreso_cmd(NoLimit, NoLimit, e).segmentos,
             NEW m \in {"wpm_gross", "score_total"}
      PROVE  /\ s[m].primeras \cap s[m].ultimas = {}
             /\ \A i, j \in s[m].primeras \cup s[m].ultimas :
                   PROVENANCE[load_sesiones[i].run] = PROVENANCE[load_sesiones[j].run]
             /\ \A i \in s[m].primeras, j \in s[m].ultimas :
                   load_sesiones[i].fecha <= load_sesiones[j].fecha
  <2> DEFINE corpus == load_sesiones
             range == select(corpus, NoLimit, NoLimit, e)
  <2>1. PICK sg \in segment_sessions(corpus, range) :
           s = [metrica \in {"wpm_gross", "score_total"} |->
                  metric_trend(corpus, Carry(corpus, sg, metrica))]
    BY DEF progreso_cmd, aggregate
  <2> DEFINE S == Carry(corpus, sg, m)
  <2>2. S \subseteq range /\ \A i, j \in S : corpus[i].provenance = corpus[j].provenance
    BY DEF segment_sessions, Carry
  <2>3. range \subseteq DOMAIN corpus
    BY DEF select
  <2>4. /\ S \in SUBSET Nat /\ IsFiniteSet(S)
        /\ \A k \in S : /\ corpus[k].fecha \in Nat /\ corpus[k].ejercicio \in Nat
                        /\ corpus[k].provenance = PROVENANCE[corpus[k].run]
    <3>1. S \in SUBSET (DOMAIN corpus)
      BY <2>2, <2>3
    <3>2. IsFiniteSet(S)
      BY <1>1, <3>1, SessionsAreTyped, FS_Subset
    <3> QED
      BY <1>1, <3>1, <3>2, SessionsAreTyped
  <2>5. s[m] = metric_trend(corpus, S)
    BY <2>1
  <2> HIDE DEF S, corpus
  <2>6. CASE Cardinality(S) < 2 * VENTANA_N
    <3>1. s[m].primeras = {} /\ s[m].ultimas = {}
      BY <2>5, <2>6 DEF metric_trend, insuficiente
    <3> QED
      BY <3>1
  <2>7. CASE ~ (Cardinality(S) < 2 * VENTANA_N)
    <3>1. /\ s[m].primeras = First(corpus, S, VENTANA_N)
          /\ s[m].ultimas = Last(corpus, S, VENTANA_N)
      BY <2>5, <2>7 DEF metric_trend
    <3>2. s[m].primeras \subseteq S /\ s[m].ultimas \subseteq S
      BY <3>1 DEF First, Last
    <3>3. Cardinality(S) >= 2 * VENTANA_N /\ VENTANA_N \in Nat
      BY <2>4, <2>7, FS_CardinalityType, ProgresoAssumption
    <3>4. \A i \in s[m].primeras, j \in s[m].ultimas : i # j /\ corpus[i].fecha <= corpus[j].fecha
      BY <2>4, <3>1, <3>3, WindowsAreApart
    <3>5. \A i, j \in S : PROVENANCE[corpus[i].run] = PROVENANCE[corpus[j].run]
      BY <2>2, <2>4
    <3> QED
      BY <3>2, <3>4, <3>5 DEF corpus
  <2> QED
    BY <2>6, <2>7
<1>2. BaseInv => TrendsCompareLikeWithLike
  BY <1>1 DEF TrendsCompareLikeWithLike
<1> QED
  BY <1>2, BaseIsInvariant, PTL
=============================================================================
