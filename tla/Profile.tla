------------------------------ MODULE Profile ------------------------------
(***************************************************************************)
(* The snapshot of the learner a prompt is built from                      *)
(* (hable_ya/learner/aggregations.py, profile.py).  compute_snapshot is    *)
(* shared by the runtime, which reads rows of the database, and by the     *)
(* evaluation, which keeps windows and counters in memory.  A turn has its *)
(* two signals, the sequence of its error categories and its lemmas; turns *)
(* are told apart by their place, which stands for their timestamps.       *)
(* A mean is left as the window it is the mean of.                         *)
(***************************************************************************)
EXTENDS Naturals, Sequences, SequencesExt, FiniteSets

CONSTANTS
    WINDOW,      \* window_turns, 20
    TOP_ERRORS,  \* 3
    TOP_VOCAB    \* 5

ASSUME ProfileAssumption == {WINDOW, TOP_ERRORS, TOP_VOCAB} \subseteq Nat \ {0}

(* The last n of a sequence, newest first: ORDER BY ... DESC LIMIT n.      *)
Newest(s, n) == SubSeq(Reverse(s), 1, IF Len(s) < n THEN Len(s) ELSE n)

(* The keys of a function of ranks, the highest first, the first n.        *)
TopBy(rank, higher(_, _), n) ==
    LET sorted == SetToSortSeq(DOMAIN rank, LAMBDA a, b : higher(rank[a], rank[b]))
    IN  SubSeq(sorted, 1, IF Len(sorted) < n THEN Len(sorted) ELSE n)

Later(a, b) == a > b

(* Count first, then when it was last seen.                                *)
MoreOften(a, b) == a.count > b.count \/ (a.count = b.count /\ a.seen > b.seen)

TopErrors(errors) == TopBy(errors, MoreOften, TOP_ERRORS)
TopVocabulary(vocab) == TopBy(vocab, Later, TOP_VOCAB)

(* The windows are means over a bag: their order is not in a snapshot.     *)
compute_snapshot(flags, signals, errors, vocab) ==
    [l1       |-> [n |-> Len(flags), used |-> Cardinality({i \in DOMAIN flags : flags[i]})],
     fluency  |-> [level \in {"weak", "moderate", "strong"} |->
                      Cardinality({i \in DOMAIN signals : signals[i] = level})],
     errors   |-> TopErrors(errors),
     vocab    |-> TopVocabulary(vocab)]

(* The rows the ingest of these turns leaves: error_counts counts a        *)
(* category once per turn.                                                 *)
TurnsWith(turns, c) == {i \in DOMAIN turns : c \in ToSet(turns[i].errors)}
TurnsSaying(turns, w) == {i \in DOMAIN turns : w \in turns[i].lemmas}

Latest(places) == CHOOSE i \in places : \A j \in places : j <= i

ErrorCounts(turns) ==
    [c \in UNION {ToSet(turns[i].errors) : i \in DOMAIN turns} |->
        [count |-> Cardinality(TurnsWith(turns, c)), seen |-> Latest(TurnsWith(turns, c))]]

VocabularyItems(turns) ==
    [w \in UNION {turns[i].lemmas : i \in DOMAIN turns} |-> Latest(TurnsSaying(turns, w))]

(* LearnerProfileRepo.get over the turns of one session.                   *)
Get(turns) ==
    LET recent == Newest(turns, WINDOW)
    IN  compute_snapshot([i \in DOMAIN recent |-> recent[i].l1],
                         [i \in DOMAIN recent |-> recent[i].fluency],
                         ErrorCounts(turns), VocabularyItems(turns))
=============================================================================
