-------------------------- MODULE BalancedSelection ---------------------------
(***************************************************************************)
(* What trust_gate/engine.py verify, spatial_m8/recovery.py and            *)
(* spatial_m8/selection.py compute of one list of correspondences: M7      *)
(* counts the inliers among the different ones, M8 recovers them by their  *)
(* place in the list, and the balanced selection takes max_selected of     *)
(* them, round the cells of the grid.                                      *)
(*                                                                         *)
(* A correspondence is a mapping of one point to another; ResidualOf and   *)
(* CellOf say how well the model fits it and where it lies.  The list may  *)
(* name a mapping twice.  Each step works from what the last one wrote:    *)
(* the M7 artifact has the decision and the counts, never the coordinates. *)
(***************************************************************************)
EXTENDS Integers, FiniteSets

CONSTANTS
    Mapping, ResidualOf, CellOf, MaxCorrespondences,
    inlier_threshold_px, min_candidates, min_inliers, min_inlier_percent,
    min_trusted, max_selected, min_per_occupied_cell

ASSUME MappingAssumption ==
    /\ ResidualOf \in [Mapping -> Nat]
    /\ CellOf \in [Mapping -> Nat \X Nat]
ASSUME SelectionAssumption ==
    /\ {min_trusted, max_selected, min_per_occupied_cell} \subseteq Nat
    /\ MaxCorrespondences \in Nat

VARIABLES
    corr,       \* the matcher artifact's correspondences
    artifact,   \* the M7 artifact: decision and inlier count
    entries,    \* the recovered trusted set: places in corr (m7_index)
    budget,     \* select_balanced: what is left of max_selected,
    taken,      \* how many of each cell's entries it has taken,
    served,     \* the cells this round has come to,
    progressed, \* and whether it took any
    chosen,     \* the selected mappings
    step

loop_vars == <<budget, taken, served, progressed>>
m8_vars == <<corr, artifact, entries, loop_vars, chosen, step>>

AtLeast(n, m) == IF n < m THEN m ELSE n
AtMost(n, m) == IF n > m THEN m ELSE n

-------------------------------------------------------------------------------
(* M7: the trust gate *)

\* _deduplicate, _mirror_dedup: the places where a mapping comes first.
FirstPlaces(list) ==
    {i \in DOMAIN list : \A j \in DOMAIN list : list[j] = list[i] => i <= j}

IsInlier(m) == ResidualOf[m] < inlier_threshold_px

InlierPlaces(list) == {i \in FirstPlaces(list) : IsInlier(list[i])}

\* The decisions that verify may come to.  Any list may hold a point that is no
\* number (BLOCKED), be longer than the cap, lie in a line or fit no model
\* (ABSTAIN); whatever the counts say, residuals and spread may reject it.
Decisions(list) ==
    LET verified == Cardinality(FirstPlaces(list))
        inliers == Cardinality(InlierPlaces(list))
        fits == /\ inliers >= min_inliers
                /\ inliers * 100 >= min_inlier_percent * verified
        enough == verified # 0 /\ verified >= min_candidates
    IN  {"BLOCKED", "ABSTAIN"}
        \cup (IF enough THEN {"REJECT"} ELSE {})
        \cup (IF enough /\ fits THEN {"ACCEPT"} ELSE {})

-------------------------------------------------------------------------------
(* The runs: TRUST (M7), then SPATIAL of M8 with its recovery *)

M8Init ==
    /\ corr \in UNION {[1 .. n -> Mapping] : n \in 0 .. MaxCorrespondences}
    /\ artifact = [state |-> "NONE", inlier_count |-> 0]
    /\ entries = {} /\ chosen = {}
    /\ budget = 0 /\ taken = <<>> /\ served = {} /\ progressed = FALSE
    /\ step = "verify"

Verify ==
    /\ step = "verify"
    /\ \E state \in Decisions(corr) :
          artifact' = [state |-> state,
                       inlier_count |-> IF state \in {"ACCEPT", "REJECT"}
                                        THEN Cardinality(InlierPlaces(corr))
                                        ELSE 0]
    /\ step' = "recover"
    /\ UNCHANGED <<corr, entries, loop_vars, chosen>>

\* Faulty variant: the place among the different mappings is taken for the
\* place in the list.
RecoveredAtPosition(list) ==
    {1 + Cardinality({j \in FirstPlaces(list) : j < i}) :
        i \in InlierPlaces(list)}

Recovered(list) == InlierPlaces(list)

\* recover_trusted: only an ACCEPT whose counts come out again.
Recover ==
    /\ step = "recover"
    /\ IF /\ artifact.state = "ACCEPT"
          /\ Cardinality(Recovered(corr)) = artifact.inlier_count
       THEN entries' = Recovered(corr) /\ step' = "select"
       ELSE entries' = {} /\ step' = "blocked"
    /\ UNCHANGED <<corr, artifact, loop_vars, chosen>>

-------------------------------------------------------------------------------
(* M8: select_balanced *)

Before(i, j) ==
    \/ ResidualOf[corr[i]] < ResidualOf[corr[j]]
    \/ ResidualOf[corr[i]] = ResidualOf[corr[j]] /\ i < j

\* by_cell, and the first n of a cell's list.
Occupied == {CellOf[corr[i]] : i \in entries}
InCell(cell) == {i \in entries : CellOf[corr[i]] = cell}
FirstOf(cell, n) ==
    {i \in InCell(cell) : Cardinality({j \in InCell(cell) : Before(j, i)}) < n}

RowMajorOrder(c, d) == c[1] < d[1] \/ (c[1] = d[1] /\ c[2] < d[2])
NextCell(cell) ==
    /\ cell \in Occupied \ served
    /\ \A d \in Occupied \ served : ~RowMajorOrder(d, cell)

limit == AtLeast(max_selected, 1)

\* analyze_and_select, select_balanced: with too few it abstains, with no more
\* than the limit it takes them all.
Select ==
    /\ step = "select"
    /\ LET few == Cardinality(entries) < AtLeast(min_trusted, 1)
           all == Cardinality(entries) <= limit
       IN  /\ step' = IF few THEN "abstained"
                      ELSE IF all THEN "selected" ELSE "least"
           /\ chosen' = IF ~few /\ all THEN {corr[i] : i \in entries} ELSE {}
    /\ budget' = limit
    /\ taken' = [cell \in Occupied |-> 0]
    /\ UNCHANGED <<corr, artifact, entries, served, progressed>>

\* take(cell, per_cell_min), for each cell while there is budget.
TakeLeast(cell) ==
    /\ step = "least" /\ budget > 0
    /\ NextCell(cell)
    /\ LET n == AtMost(AtMost(min_per_occupied_cell, Cardinality(InCell(cell))),
                       budget)
       IN  /\ taken' = [taken EXCEPT ![cell] = n]
           /\ budget' = budget - n
    /\ served' = served \cup {cell}
    /\ UNCHANGED <<corr, artifact, entries, progressed, chosen, step>>

EndLeast ==
    /\ step = "least"
    /\ budget = 0 \/ served = Occupied
    /\ step' = "rounds"
    /\ served' = {} /\ progressed' = FALSE
    /\ UNCHANGED <<corr, artifact, entries, budget, taken, chosen>>

\* Faulty variant: a round goes on with a cell as long as it has more.
StayWithCell(cell) ==
    /\ step = "rounds" /\ budget > 0
    /\ NextCell(cell)
    /\ IF taken[cell] < Cardinality(InCell(cell))
       THEN /\ taken' = [taken EXCEPT ![cell] = @ + 1]
            /\ budget' = budget - 1
            /\ progressed' = TRUE
            /\ UNCHANGED served
       ELSE /\ served' = served \cup {cell}
            /\ UNCHANGED <<budget, taken, progressed>>
    /\ UNCHANGED <<corr, artifact, entries, chosen, step>>

\* One more of a cell that has more.  A cell's pointer says how many of its
\* list are taken: it differs only for a cell that had fewer than the minimum,
\* and that one has no more.
TakeOneMore(cell) ==
    /\ step = "rounds" /\ budget > 0
    /\ NextCell(cell)
    /\ IF taken[cell] < Cardinality(InCell(cell))
       THEN /\ taken' = [taken EXCEPT ![cell] = @ + 1]
            /\ budget' = budget - 1
            /\ progressed' = TRUE
       ELSE UNCHANGED <<budget, taken, progressed>>
    /\ served' = served \cup {cell}
    /\ UNCHANGED <<corr, artifact, entries, chosen, step>>

NextRound ==
    /\ step = "rounds" /\ budget > 0
    /\ served = Occupied /\ progressed
    /\ served' = {} /\ progressed' = FALSE
    /\ UNCHANGED <<corr, artifact, entries, budget, taken, chosen, step>>

Finish ==
    /\ step = "rounds"
    /\ budget = 0 \/ (served = Occupied /\ ~progressed)
    /\ chosen' = {corr[i] : i \in UNION {FirstOf(c, taken[c]) : c \in Occupied}}
    /\ step' = "selected"
    /\ UNCHANGED <<corr, artifact, entries, loop_vars>>

M8Next ==
    \/ Verify \/ Recover \/ Select
    \/ (\E cell \in Occupied : TakeLeast(cell)) \/ EndLeast
    \/ (\E cell \in Occupied : TakeOneMore(cell)) \/ NextRound \/ Finish

M8Spec == M8Init /\ [][M8Next]_m8_vars

-------------------------------------------------------------------------------
(* Property *)

\* trust_gate with spatial_m8: of a list that M7 accepts, M8 selects
\* min(max_selected, n) of its n different inliers and nothing else; in every
\* cell the best of that cell; and no cell more than one (or its guaranteed
\* minimum) ahead of a cell that has any left.
SelectsBestRoundTheCells ==
    step = "selected" =>
        LET trusted == {m \in {corr[i] : i \in DOMAIN corr} : IsInlier(m)}
            count(cell) == Cardinality({m \in chosen : CellOf[m] = cell})
        IN  /\ chosen \subseteq trusted
            /\ Cardinality(chosen) = AtMost(Cardinality(trusted), limit)
            /\ \A m \in chosen, n \in trusted \ chosen :
                   CellOf[m] = CellOf[n] => ResidualOf[m] <= ResidualOf[n]
            /\ \A m, n \in trusted :
                   n \notin chosen =>
                       count(CellOf[m]) <=
                           AtLeast(count(CellOf[n]) + 1, min_per_occupied_cell)

===============================================================================
